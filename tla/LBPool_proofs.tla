---------------------------- MODULE LBPool_proofs ----------------------------
(***************************************************************************)
(* For every length of a sale, unit of weights, minimum and number of      *)
(* accounts: the pool never pays out reserve tokens it only counts         *)
(* virtually, its weights stay valid and move as a ramp, its liquidity     *)
(* stands still during the sale and no trade takes it below its curve.     *)
(* The fixed-price pool shares LBPCommon with it, so its theorems are here *)
(* too.                                                                    *)
(***************************************************************************)
EXTENDS LBPool, RampArithmetic, FiniteSetTheorems

CONSTANT Rates  \* of the fixed-price pool: projectTokenRate

Fixed == INSTANCE FixedPriceLBPool

-----------------------------------------------------------------------------
(* The shares add up to the supply.  A sum over the holders would need     *)
(* induction, so the fact is stated by counting: there are as many coins   *)
(* as the supply, each has one holder, and a holder has as many of them as *)
(* its balance says.                                                       *)

Held(coins, holder, a) == {i \in coins : holder[i] = a}

Counts(m, coins, holder, b, n) ==
    /\ coins \subseteq 1..m
    /\ Cardinality(coins) = n
    /\ \A a \in Holders : Cardinality(Held(coins, holder, a)) = b[a]

Backed(b, n) ==
    \E m \in Nat, coins \in SUBSET Nat, holder \in [Nat -> Holders] :
        Counts(m, coins, holder, b, n)

LEMMA CoinsFinite ==
    ASSUME NEW m \in Nat, NEW coins, coins \subseteq 1..m
    PROVE  IsFiniteSet(coins)
<1>1. IsFiniteSet(1..m) /\ coins \in SUBSET (1..m)
  BY FS_Interval
<1> QED  BY <1>1, FS_Subset

LEMMA HeldFinite ==
    ASSUME NEW coins, IsFiniteSet(coins), NEW holder, NEW a
    PROVE  /\ IsFiniteSet(Held(coins, holder, a))
           /\ Cardinality(Held(coins, holder, a)) \in Nat
<1>1. Held(coins, holder, a) \in SUBSET coins
  BY DEF Held
<1> QED  BY <1>1, FS_Subset, FS_CardinalityType

\* Every balance is part of the supply, and so are two balances together.
LEMMA BackedBounds ==
    ASSUME NEW b, NEW n, Backed(b, n)
    PROVE  /\ n \in Nat
           /\ \A a \in Holders : b[a] \in Nat /\ b[a] <= n
           /\ \A a, c \in Holders : a # c => b[a] + b[c] <= n
<1>1. PICK m \in Nat, coins \in SUBSET Nat, holder \in [Nat -> Holders] :
             Counts(m, coins, holder, b, n)
  BY DEF Backed
<1>2. IsFiniteSet(coins)
  BY <1>1, CoinsFinite DEF Counts
<1>3. n \in Nat
  BY <1>1, <1>2, FS_CardinalityType DEF Counts
<1>4. ASSUME NEW a \in Holders
      PROVE  b[a] \in Nat /\ b[a] <= n
  <2>1. Held(coins, holder, a) \in SUBSET coins
    BY DEF Held
  <2>2. Cardinality(Held(coins, holder, a)) <= Cardinality(coins)
    BY <1>2, <2>1, FS_Subset
  <2> QED  BY <1>1, <1>2, <2>2, HeldFinite DEF Counts
<1>5. ASSUME NEW a \in Holders, NEW c \in Holders, a # c
      PROVE  b[a] + b[c] <= n
  <2> DEFINE A == Held(coins, holder, a)
             C == Held(coins, holder, c)
  <2>1. A \cap C = {} /\ A \cup C \in SUBSET coins
    BY <1>5 DEF Held
  <2>2. IsFiniteSet(A) /\ IsFiniteSet(C)
    BY <1>2, HeldFinite
  <2>3. Cardinality(A) = b[a] /\ Cardinality(C) = b[c]
    BY <1>1 DEF Counts
  <2> HIDE DEF A, C
  <2>4. Cardinality(A \cup C) = Cardinality(A) + Cardinality(C) - Cardinality(A \cap C)
    BY <2>2, FS_Union
  <2>5. Cardinality(A \cap C) = 0
    BY <2>1, FS_EmptySet
  <2>6. Cardinality(A \cup C) <= n
    BY <1>1, <1>2, <2>1, FS_Subset DEF Counts
  <2>7. b[a] \in Nat /\ b[c] \in Nat
    BY <1>4
  <2> QED  BY <1>3, <2>3, <2>4, <2>5, <2>6, <2>7
<1> QED  BY <1>3, <1>4, <1>5

\* No pool tokens, no shares.
LEMMA BackedNothing == Backed([a \in Holders |-> 0], 0)
<1> DEFINE none == [i \in Nat |-> NoOne]
<1>1. none \in [Nat -> Holders]
  BY DEF Holders
<1>2. \A a : Held({}, none, a) = {}
  BY DEF Held
<1>3. Counts(0, {}, none, [a \in Holders |-> 0], 0)
  BY <1>2, FS_EmptySet DEF Counts
<1> QED  BY <1>1, <1>3 DEF Backed

\* Minting k pool tokens to one holder.
LEMMA BackedMint ==
    ASSUME NEW b \in [Holders -> Nat], NEW n, Backed(b, n),
           NEW a \in Holders, NEW k \in Nat
    PROVE  Backed([b EXCEPT ![a] = @ + k], n + k)
<1>1. PICK m \in Nat, coins \in SUBSET Nat, holder \in [Nat -> Holders] :
             Counts(m, coins, holder, b, n)
  BY DEF Backed
<1> DEFINE new == (m + 1)..(m + k)
           all == coins \cup new
           holds == [i \in Nat |-> IF i \in coins THEN holder[i] ELSE a]
           b2 == [b EXCEPT ![a] = @ + k]
<1>2. IsFiniteSet(coins) /\ IsFiniteSet(new) /\ Cardinality(new) = k
  <2>1. IsFiniteSet(coins)
    BY <1>1, CoinsFinite DEF Counts
  <2>2. /\ IsFiniteSet((m + 1)..(m + k))
        /\ Cardinality((m + 1)..(m + k)) = IF m + 1 > m + k THEN 0 ELSE (m + k) - (m + 1) + 1
    <3>1. m + 1 \in Int /\ m + k \in Int
      OBVIOUS
    <3> QED  BY <3>1, FS_Interval
  <2> QED  BY <2>1, <2>2
<1>3. coins \cap new = {}
  BY <1>1 DEF Counts
<1>4. m + k \in Nat /\ all \subseteq 1..(m + k) /\ holds \in [Nat -> Holders]
  BY <1>1 DEF Counts
<1>5. n \in Nat
  BY BackedBounds
<1>6. Cardinality(all) = n + k
  <2> HIDE DEF new
  <2>1. Cardinality(all) = Cardinality(coins) + Cardinality(new) - Cardinality(coins \cap new)
    BY <1>2, FS_Union
  <2>2. Cardinality(coins) = n /\ Cardinality(coins \cap new) = 0
    BY <1>1, <1>3, FS_EmptySet DEF Counts
  <2> QED  BY <1>2, <1>5, <2>1, <2>2
<1>7. ASSUME NEW c \in Holders
      PROVE  Cardinality(Held(all, holds, c)) = b2[c]
  <2>1. CASE c = a
    <3> DEFINE H == Held(coins, holder, a)
    <3>1. Held(all, holds, c) = H \cup new /\ H \cap new = {}
      <4>1. all \in SUBSET Nat
        BY <1>4
      <4> HIDE DEF new
      <4> QED  BY <1>3, <2>1, <4>1 DEF Held
    <3>2. IsFiniteSet(H) /\ Cardinality(H) = b[a]
      BY <1>1, <1>2, HeldFinite DEF Counts
    <3> HIDE DEF H, new, holds
    <3>3. Cardinality(H \cup new) = Cardinality(H) + Cardinality(new) - Cardinality(H \cap new)
      BY <1>2, <3>2, FS_Union
    <3>4. Cardinality(H \cap new) = 0
      BY <3>1, FS_EmptySet
    <3>5. b2[c] = b[a] + k /\ b[a] \in Nat
      BY <2>1
    <3> HIDE DEF b2, all
    <3>6. Cardinality(new) = k /\ Cardinality(H) = b[a]
      BY <1>2, <3>2
    <3>7. Cardinality(Held(all, holds, c)) = Cardinality(H \cup new)
      BY <3>1
    <3> QED  BY <3>3, <3>4, <3>5, <3>6, <3>7
  <2>2. CASE c # a
    <3>1. Held(all, holds, c) = Held(coins, holder, c)
      <4>1. all \in SUBSET Nat
        BY <1>4
      <4> HIDE DEF new
      <4> QED  BY <2>2, <4>1 DEF Held
    <3>2. b2[c] = b[c]
      BY <2>2
    <3> QED  BY <1>1, <3>1, <3>2 DEF Counts
  <2> QED  BY <2>1, <2>2
<1>8. Counts(m + k, all, holds, b2, n + k)
  BY <1>4, <1>6, <1>7 DEF Counts
<1> QED  BY <1>4, <1>8 DEF Backed

\* A finite set has subsets of every smaller size.
LEMMA SubsetOfSize ==
    ASSUME NEW S, IsFiniteSet(S), NEW k \in Nat, k <= Cardinality(S)
    PROVE  \E D \in SUBSET S : IsFiniteSet(D) /\ Cardinality(D) = k
<1>1. Cardinality(S) \in Nat /\ ExistsBijection(1..Cardinality(S), S)
  BY FS_CardinalityType
<1>2. PICK g : g \in Bijection(1..Cardinality(S), S)
  BY <1>1 DEF ExistsBijection
<1> DEFINE D == {g[i] : i \in 1..k}
           h == [i \in 1..k |-> g[i]]
<1>3. 1..k \subseteq 1..Cardinality(S)
  BY <1>1
<1>4. D \in SUBSET S
  BY <1>2, <1>3 DEF Bijection, Injection
<1>5. h \in Bijection(1..k, D)
  BY <1>2, <1>3 DEF Bijection, Injection, Surjection, IsInjective
<1>6. ExistsBijection(1..k, D)
  BY <1>5 DEF ExistsBijection
<1>7. IsFiniteSet(1..k) /\ Cardinality(1..k) = k
  BY FS_Interval
<1> HIDE DEF D
<1>8. IsFiniteSet(D) /\ Cardinality(D) = k
  BY <1>6, <1>7, FS_Bijection
<1> QED  BY <1>4, <1>8

\* Burning k of a holder's pool tokens.
LEMMA BackedBurn ==
    ASSUME NEW b \in [Holders -> Nat], NEW n, Backed(b, n),
           NEW a \in Holders, NEW k \in Nat, k <= b[a]
    PROVE  Backed([b EXCEPT ![a] = @ - k], n - k)
<1>1. PICK m \in Nat, coins \in SUBSET Nat, holder \in [Nat -> Holders] :
             Counts(m, coins, holder, b, n)
  BY DEF Backed
<1> DEFINE H == Held(coins, holder, a)
           b2 == [b EXCEPT ![a] = @ - k]
<1>2. IsFiniteSet(coins) /\ IsFiniteSet(H) /\ Cardinality(H) = b[a]
  BY <1>1, CoinsFinite, HeldFinite DEF Counts
<1>3. PICK D \in SUBSET H : IsFiniteSet(D) /\ Cardinality(D) = k
  BY <1>2, SubsetOfSize
<1> DEFINE rest == coins \ D
<1>4. rest \subseteq 1..m
  BY <1>1 DEF Counts
<1>5. n \in Nat /\ b[a] \in Nat
  BY BackedBounds
<1>6. Cardinality(rest) = n - k
  <2>1. coins \cap D = D
    BY DEF Held
  <2>2. Cardinality(rest) = Cardinality(coins) - Cardinality(coins \cap D)
    BY <1>2, FS_Difference
  <2> QED  BY <1>1, <1>3, <2>1, <2>2 DEF Counts
<1>7. ASSUME NEW c \in Holders
      PROVE  Cardinality(Held(rest, holder, c)) = b2[c]
  <2>1. CASE c = a
    <3>1. Held(rest, holder, c) = H \ D /\ H \cap D = D
      BY <2>1 DEF Held
    <3> HIDE DEF H
    <3>2. Cardinality(H \ D) = Cardinality(H) - Cardinality(H \cap D)
      BY <1>2, FS_Difference
    <3>3. b2[c] = b[a] - k
      BY <2>1
    <3> QED  BY <1>2, <1>3, <3>1, <3>2, <3>3
  <2>2. CASE c # a
    <3>1. Held(rest, holder, c) = Held(coins, holder, c)
      BY <2>2 DEF Held
    <3>2. b2[c] = b[c]
      BY <2>2
    <3> QED  BY <1>1, <3>1, <3>2 DEF Counts
  <2> QED  BY <2>1, <2>2
<1>8. Counts(m, rest, holder, b2, n - k)
  BY <1>4, <1>6, <1>7 DEF Counts
<1> QED  BY <1>4, <1>8 DEF Backed

\* One holder's pool tokens become another's.
LEMMA BackedMove ==
    ASSUME NEW b \in [Holders -> Nat], NEW n, Backed(b, n),
           NEW from \in Holders, NEW to \in Holders, from # to
    PROVE  Backed([b EXCEPT ![from] = 0, ![to] = @ + b[from]], n)
<1>1. PICK m \in Nat, coins \in SUBSET Nat, holder \in [Nat -> Holders] :
             Counts(m, coins, holder, b, n)
  BY DEF Backed
<1> DEFINE holds == [i \in Nat |-> IF holder[i] = from THEN to ELSE holder[i]]
           b2 == [b EXCEPT ![from] = 0, ![to] = @ + b[from]]
<1>2. IsFiniteSet(coins) /\ holds \in [Nat -> Holders]
  BY <1>1, CoinsFinite DEF Counts
<1>3. ASSUME NEW c \in Holders
      PROVE  Cardinality(Held(coins, holds, c)) = b2[c]
  <2>1. CASE c = from
    <3>1. Held(coins, holds, c) = {}
      BY <2>1 DEF Held
    <3> QED  BY <2>1, <3>1, FS_EmptySet
  <2>2. CASE c = to
    <3> DEFINE H == Held(coins, holder, to)
               G == Held(coins, holder, from)
    <3>1. Held(coins, holds, c) = H \cup G /\ H \cap G = {}
      BY <2>2 DEF Held
    <3>2. IsFiniteSet(H) /\ IsFiniteSet(G) /\ Cardinality(H) = b[to] /\ Cardinality(G) = b[from]
      BY <1>1, <1>2, HeldFinite DEF Counts
    <3> HIDE DEF H, G, holds
    <3>3. Cardinality(H \cup G) = Cardinality(H) + Cardinality(G) - Cardinality(H \cap G)
      BY <3>2, FS_Union
    <3>4. Cardinality(H \cap G) = 0
      BY <3>1, FS_EmptySet
    <3>5. b2[c] = b[to] + b[from] /\ b[to] \in Nat /\ b[from] \in Nat
      BY <2>2
    <3> HIDE DEF b2
    <3> QED  BY <3>1, <3>2, <3>3, <3>4, <3>5
  <2>3. CASE c # from /\ c # to
    <3>1. Held(coins, holds, c) = Held(coins, holder, c)
      BY <2>3 DEF Held
    <3>2. b2[c] = b[c]
      BY <2>3
    <3> QED  BY <1>1, <3>1, <3>2 DEF Counts
  <2> QED  BY <2>1, <2>2, <2>3
<1>4. Counts(m, coins, holds, b2, n)
  BY <1>1, <1>3 DEF Counts
<1> QED  BY <1>2, <1>4 DEF Backed

-----------------------------------------------------------------------------
(* What LBPCommon's operations preserve. *)

\* Before the pool is initialized there are no shares; from then on the locked
\* ones keep the supply positive.
SharesSound == /\ Backed(bpt, supply)
               /\ ~live => bpt = [a \in Holders |-> 0] /\ supply = 0
               /\ live => bpt[NoOne] >= MinSupply

CommonInv == TypeOKCommon /\ SharesSound

\* What divides by the supply is defined, and no one has more than there is.
LEMMA SupplyPositive ==
    ASSUME CommonInv, live
    PROVE  /\ supply \in Nat \ {0}
           /\ \A a \in Holders : bpt[a] \in Nat /\ bpt[a] <= supply
<1>1. NoOne \in Holders
  BY DEF Holders
<1>2. /\ supply \in Nat
      /\ \A a \in Holders : bpt[a] \in Nat /\ bpt[a] <= supply
  BY BackedBounds DEF CommonInv, SharesSound
<1>3. bpt[NoOne] >= MinSupply
  BY DEF CommonInv, SharesSound
<1> QED  BY <1>1, <1>2, <1>3, SupplyAssumption

LEMMA InitCommonSound == ASSUME InitCommon PROVE CommonInv
<1>1. TypeOKCommon
  <2>1. now \in 0..Horizon /\ project \in Nat /\ reserve \in Nat /\ supply \in Nat
    BY BoundAssumption DEF InitCommon
  <2>2. owner \in Holders /\ pendingOwner \in Holders
    BY DEF InitCommon, Holders
  <2>3. live \in BOOLEAN
    BY DEF InitCommon
  <2>4. bpt \in [Holders -> Nat]
    BY DEF InitCommon
  <2> QED  BY <2>1, <2>2, <2>3, <2>4 DEF TypeOKCommon
<1>2. SharesSound
  BY BackedNothing DEF InitCommon, SharesSound
<1> QED  BY <1>1, <1>2 DEF CommonInv

LEMMA InitializeKeeps ==
    ASSUME CommonInv, NEW caller \in Accounts, NEW trusted, NEW p \in Nat, NEW r \in Nat,
           NEW minted \in Int, Initialize(caller, trusted, p, r, minted)
    PROVE  CommonInv'
<1> DEFINE zero == [a \in Holders |-> 0]
           locked == [zero EXCEPT ![NoOne] = @ + MinSupply]
           left == minted - MinSupply
<1>1. /\ NoOne \in Holders /\ caller \in Holders /\ caller # NoOne
      /\ MinSupply \in Nat \ {0}
  BY AccountAssumption, SupplyAssumption DEF Holders
<1>2. left \in Nat /\ MinSupply + left = minted /\ minted \in Nat
  BY <1>1 DEF Initialize, Mint
<1>3. ~live /\ bpt = zero /\ live' /\ supply' = minted
  BY DEF Initialize, Mint, CommonInv, SharesSound
<1>4. Backed(locked, MinSupply) /\ locked \in [Holders -> Nat]
  <2>1. zero \in [Holders -> Nat] /\ Backed(zero, 0)
    BY BackedNothing
  <2>2. locked \in [Holders -> Nat] /\ 0 + MinSupply = MinSupply
    BY <1>1
  <2> HIDE DEF zero
  <2>3. Backed([zero EXCEPT ![NoOne] = @ + MinSupply], 0 + MinSupply)
    BY <1>1, <2>1, BackedMint
  <2> QED  BY <2>2, <2>3
<1>5. bpt' = [locked EXCEPT ![caller] = @ + left]
  <2>1. bpt' = [bpt EXCEPT ![NoOne] = MinSupply, ![caller] = left]
    BY DEF Initialize, Mint
  <2> HIDE DEF left
  <2>2. bpt' = [[zero EXCEPT ![NoOne] = MinSupply] EXCEPT ![caller] = left]
    BY <1>3, <2>1
  <2>3. locked = [zero EXCEPT ![NoOne] = MinSupply]
    BY <1>1
  <2>4. locked[caller] = 0
    BY <1>1
  <2>5. locked[caller] + left = left
    BY <1>2, <2>4
  <2> HIDE DEF locked
  <2> QED  BY <2>2, <2>3, <2>5
<1>6. Backed(bpt', supply')
  <2> HIDE DEF locked, left
  <2>1. Backed([locked EXCEPT ![caller] = @ + left], MinSupply + left)
    BY <1>1, <1>2, <1>4, BackedMint
  <2> QED  BY <1>2, <1>3, <1>5, <2>1
<1>7. bpt' \in [Holders -> Nat] /\ bpt'[NoOne] >= MinSupply
  <2>1. locked[NoOne] = MinSupply
    BY <1>1
  <2>2. locked[caller] + left \in Nat
    BY <1>1, <1>2, <1>4
  <2> HIDE DEF locked, left
  <2> QED  BY <1>1, <1>4, <1>5, <2>1, <2>2
<1>8. SharesSound'
  BY <1>3, <1>6, <1>7 DEF SharesSound
<1>9. TypeOKCommon'
  BY <1>2, <1>3, <1>7 DEF Initialize, CommonInv, TypeOKCommon, ownership
<1> QED  BY <1>8, <1>9 DEF CommonInv

LEMMA AddKeeps ==
    ASSUME CommonInv, NEW caller \in Accounts, NEW trusted, NEW n \in Nat,
           AddLiquidity(caller, trusted, n)
    PROVE  CommonInv'
<1>1. live /\ live' /\ caller \in Holders /\ caller # NoOne /\ NoOne \in Holders
  BY AccountAssumption DEF AddLiquidity, Holders
<1>2. supply \in Nat \ {0} /\ bpt \in [Holders -> Nat] /\ project \in Nat /\ reserve \in Nat
  BY <1>1, SupplyPositive DEF CommonInv, TypeOKCommon
<1>3. ASSUME NEW x \in Nat
      PROVE  x + DivUp(x * n, supply) \in Nat
  <2>1. x * n + supply - 1 \in Nat
    BY <1>2, MulNat
  <2>2. (x * n + supply - 1) \div supply \in Nat
    BY <1>2, <2>1
  <2> QED  BY <2>2 DEF DivUp
<1>4. bpt' = [bpt EXCEPT ![caller] = @ + n] /\ supply' = supply + n
  BY DEF AddLiquidity
<1>5. Backed(bpt', supply')
  BY <1>1, <1>2, <1>4, BackedMint DEF CommonInv, SharesSound
<1>6. bpt' \in [Holders -> Nat] /\ bpt'[NoOne] = bpt[NoOne]
  BY <1>1, <1>2, <1>4
<1>7. SharesSound'
  BY <1>1, <1>5, <1>6 DEF CommonInv, SharesSound
<1>8. project' \in Nat /\ reserve' \in Nat
  BY <1>2, <1>3 DEF AddLiquidity
<1>9. TypeOKCommon'
  BY <1>1, <1>2, <1>4, <1>6, <1>8 DEF AddLiquidity, CommonInv, TypeOKCommon, ownership
<1> QED  BY <1>7, <1>9 DEF CommonInv

LEMMA RemoveKeeps ==
    ASSUME CommonInv, NEW caller \in Accounts, NEW n \in Nat, RemoveLiquidity(caller, n)
    PROVE  CommonInv'
<1>1. live /\ live' /\ caller \in Holders /\ caller # NoOne /\ NoOne \in Holders
  BY AccountAssumption DEF RemoveLiquidity, Holders
<1>2. supply \in Nat \ {0} /\ bpt \in [Holders -> Nat] /\ project \in Nat /\ reserve \in Nat
  BY <1>1, SupplyPositive DEF CommonInv, TypeOKCommon
<1>3. n <= bpt[caller] /\ n <= supply
  BY <1>1, <1>2, SupplyPositive DEF RemoveLiquidity
<1>4. ASSUME NEW x \in Nat
      PROVE  x - (x * n) \div supply \in Nat
  <2>1. (x * n) \div supply \in 0..x
    BY <1>2, <1>3, ShareBounds
  <2> QED  BY <2>1
<1>5. bpt' = [bpt EXCEPT ![caller] = @ - n] /\ supply' = supply - n
  BY DEF RemoveLiquidity
<1>6. Backed(bpt', supply')
  BY <1>1, <1>2, <1>3, <1>5, BackedBurn DEF CommonInv, SharesSound
<1>7. bpt' \in [Holders -> Nat] /\ bpt'[NoOne] = bpt[NoOne] /\ supply' \in Nat
  BY <1>1, <1>2, <1>3, <1>5
<1>8. SharesSound'
  BY <1>1, <1>6, <1>7 DEF CommonInv, SharesSound
<1>9. project' \in Nat /\ reserve' \in Nat
  BY <1>2, <1>4 DEF RemoveLiquidity
<1>10. TypeOKCommon'
  BY <1>1, <1>7, <1>9 DEF RemoveLiquidity, CommonInv, TypeOKCommon, ownership
<1> QED  BY <1>8, <1>10 DEF CommonInv

LEMMA TransferKeeps ==
    ASSUME CommonInv, NEW from \in Accounts, NEW to \in Accounts, TransferShares(from, to)
    PROVE  CommonInv'
<1>1. /\ from \in Holders /\ to \in Holders /\ NoOne \in Holders
      /\ from # NoOne /\ to # NoOne /\ from # to
  BY AccountAssumption DEF TransferShares, Holders
<1>2. /\ bpt \in [Holders -> Nat]
      /\ bpt' = [bpt EXCEPT ![from] = 0, ![to] = @ + bpt[from]]
      /\ supply' = supply /\ live' = live
  BY DEF TransferShares, CommonInv, TypeOKCommon
<1>3. Backed(bpt', supply')
  BY <1>1, <1>2, BackedMove DEF CommonInv, SharesSound
<1>4. bpt' \in [Holders -> Nat] /\ bpt'[NoOne] = bpt[NoOne]
  BY <1>1, <1>2
<1>5. live
  BY <1>1 DEF TransferShares, CommonInv, SharesSound
<1>6. SharesSound'
  BY <1>2, <1>3, <1>4, <1>5 DEF CommonInv, SharesSound
<1>7. TypeOKCommon'
  BY <1>4 DEF TransferShares, CommonInv, TypeOKCommon, ownership, balances
<1> QED  BY <1>6, <1>7 DEF CommonInv

LEMMA OwnershipKeeps == ASSUME CommonInv, Ownership PROVE CommonInv'
<1>1. UNCHANGED <<now, sale, live, balances, shares>>
  BY DEF Ownership, TransferOwnership, AcceptOwnership, RenounceOwnership
<1>2. owner' \in Holders /\ pendingOwner' \in Holders
  BY DEF Ownership, TransferOwnership, AcceptOwnership, RenounceOwnership,
         CommonInv, TypeOKCommon, Holders
<1> QED  BY <1>1, <1>2 DEF CommonInv, TypeOKCommon, SharesSound, balances, shares

LEMMA TickKeeps == ASSUME CommonInv, Tick PROVE CommonInv'
<1>1. now' \in 0..Horizon
  BY BoundAssumption DEF Tick, CommonInv, TypeOKCommon
<1> QED  BY <1>1 DEF Tick, CommonInv, TypeOKCommon, SharesSound, ownership, balances, shares

\* A trade moves the balances and nothing else.
LEMMA TradeKeeps ==
    ASSUME CommonInv, UNCHANGED <<now, sale, ownership, live, shares>>,
           project' \in Nat, reserve' \in Nat
    PROVE  CommonInv'
BY DEF CommonInv, TypeOKCommon, SharesSound, ownership, shares

-----------------------------------------------------------------------------
(* GradualValueChange. *)

\* Progress is a share of One that grows with time and is complete at the end.
LEMMA ProgressBounds ==
    ASSUME NEW t0 \in Nat, NEW t1 \in Nat, t0 <= t1, NEW t \in Nat
    PROVE  Progress(t0, t1, t) \in 0..One
<1> DEFINE d == t1 - t0
           x == t - t0
<1>1. CASE t >= t1 \/ t <= t0
  BY <1>1, WeightAssumption DEF Progress
<1>2. CASE ~(t >= t1) /\ ~(t <= t0)
  <2>1. d \in Nat \ {0} /\ x \in Nat /\ x <= d
    BY <1>2
  <2>2. Progress(t0, t1, t) = (x * One) \div d
    BY <1>2 DEF Progress
  <2> HIDE DEF d, x
  <2>3. One * x = x * One
    BY <2>1, WeightAssumption
  <2>4. (One * x) \div d \in 0..One
    BY <2>1, WeightAssumption, ShareBounds
  <2> QED  BY <2>2, <2>3, <2>4
<1> QED  BY <1>1, <1>2

LEMMA ProgressGrows ==
    ASSUME NEW t0 \in Nat, NEW t1 \in Nat, t0 <= t1,
           NEW t \in Nat, NEW u \in Nat, t <= u
    PROVE  Progress(t0, t1, t) <= Progress(t0, t1, u)
<1> DEFINE d == t1 - t0
           x == t - t0
           y == u - t0
<1>0. /\ Progress(t0, t1, t) \in 0..One
      /\ Progress(t0, t1, u) \in 0..One
      /\ One \in Nat
  BY ProgressBounds, WeightAssumption
<1>1. CASE u >= t1
  <2>1. Progress(t0, t1, u) = One
    BY <1>1 DEF Progress
  <2> QED  BY <1>0, <2>1
<1>2. CASE ~(u >= t1) /\ t <= t0
  <2>1. Progress(t0, t1, t) = 0
    BY <1>2 DEF Progress
  <2> QED  BY <1>0, <2>1
<1>3. CASE ~(u >= t1) /\ ~(t <= t0)
  <2>1. d \in Nat \ {0} /\ x \in Nat /\ y \in Nat /\ x <= y
    BY <1>3
  <2>2. Progress(t0, t1, t) = (x * One) \div d
    BY <1>3 DEF Progress
  <2>3. Progress(t0, t1, u) = (y * One) \div d
    BY <1>3 DEF Progress
  <2> HIDE DEF d, x, y
  <2>4. One * x = x * One /\ One * y = y * One
    BY <2>1, <1>0
  <2>5. (One * x) \div d <= (One * y) \div d
    BY <2>1, <1>0, ShareMonotone
  <2> QED  BY <2>2, <2>3, <2>4, <2>5
<1> QED  BY <1>1, <1>2, <1>3

\* mulDown of a progress with a distance: a part of it, growing with progress.
LEMMA PartBounds ==
    ASSUME NEW a \in Nat, NEW p \in 0..One
    PROVE  MulDown(p, a) \in 0..a
<1>1. p \in Nat /\ p <= One /\ One \in Nat \ {0} /\ p * a = a * p
  BY WeightAssumption
<1>2. (a * p) \div One \in 0..a
  BY <1>1, ShareBounds
<1> QED  BY <1>1, <1>2 DEF MulDown

LEMMA PartGrows ==
    ASSUME NEW a \in Nat, NEW p \in 0..One, NEW q \in 0..One, p <= q
    PROVE  MulDown(p, a) <= MulDown(q, a)
<1>1. p \in Nat /\ q \in Nat /\ One \in Nat \ {0} /\ p * a = a * p /\ q * a = a * q
  BY WeightAssumption
<1>2. (a * p) \div One <= (a * q) \div One
  BY <1>1, ShareMonotone
<1> QED  BY <1>1, <1>2 DEF MulDown

\* What is interpolated lies between the two values ...
LEMMA InterpolateBetween ==
    ASSUME NEW v0 \in Int, NEW v1 \in Int, NEW p \in 0..One
    PROVE  /\ Interpolate(v0, v1, p) \in Int
           /\ \/ v0 <= Interpolate(v0, v1, p) /\ Interpolate(v0, v1, p) <= v1
              \/ v1 <= Interpolate(v0, v1, p) /\ Interpolate(v0, v1, p) <= v0
<1>1. CASE p >= One
  BY <1>1 DEF Interpolate
<1>2. CASE ~(p >= One) /\ v0 > v1
  <2> DEFINE a == v0 - v1
             part == MulDown(p, a)
  <2>1. a \in Nat
    BY <1>2
  <2>2. part \in 0..a
    <3> HIDE DEF a
    <3> QED  BY <2>1, PartBounds
  <2>3. Interpolate(v0, v1, p) = v0 - part
    BY <1>2 DEF Interpolate
  <2> HIDE DEF part
  <2> QED  BY <2>1, <2>2, <2>3
<1>3. CASE ~(p >= One) /\ ~(v0 > v1)
  <2> DEFINE a == v1 - v0
             part == MulDown(p, a)
  <2>1. a \in Nat
    BY <1>3
  <2>2. part \in 0..a
    <3> HIDE DEF a
    <3> QED  BY <2>1, PartBounds
  <2>3. Interpolate(v0, v1, p) = v0 + part
    BY <1>3 DEF Interpolate
  <2> HIDE DEF part
  <2> QED  BY <2>1, <2>2, <2>3
<1> QED  BY <1>1, <1>2, <1>3

\* ... and moves towards the end value as progress grows.
LEMMA InterpolateOnTheWay ==
    ASSUME NEW v0 \in Int, NEW v1 \in Int, NEW p \in 0..One, NEW q \in 0..One, p <= q
    PROVE  \/ /\ Interpolate(v0, v1, p) <= Interpolate(v0, v1, q)
              /\ Interpolate(v0, v1, q) <= v1
           \/ /\ v1 <= Interpolate(v0, v1, q)
              /\ Interpolate(v0, v1, q) <= Interpolate(v0, v1, p)
<1>0. p \in Int /\ q \in Int /\ One \in Int
  BY WeightAssumption
<1>1. CASE q >= One
  <2>1. Interpolate(v0, v1, q) = v1
    BY <1>1 DEF Interpolate
  <2> QED  BY <2>1, InterpolateBetween
<1>2. CASE ~(q >= One) /\ v0 > v1
  <2> DEFINE a == v0 - v1
             before == MulDown(p, a)
             after == MulDown(q, a)
  <2>1. a \in Nat /\ ~(p >= One)
    BY <1>0, <1>2
  <2>2. before \in 0..a /\ after \in 0..a /\ before <= after
    <3> HIDE DEF a
    <3> QED  BY <2>1, PartBounds, PartGrows
  <2>3. Interpolate(v0, v1, p) = v0 - before /\ Interpolate(v0, v1, q) = v0 - after
    BY <1>2, <2>1 DEF Interpolate
  <2> HIDE DEF before, after
  <2> QED  BY <2>1, <2>2, <2>3
<1>3. CASE ~(q >= One) /\ ~(v0 > v1)
  <2> DEFINE a == v1 - v0
             before == MulDown(p, a)
             after == MulDown(q, a)
  <2>1. a \in Nat /\ ~(p >= One)
    BY <1>0, <1>3
  <2>2. before \in 0..a /\ after \in 0..a /\ before <= after
    <3> HIDE DEF a
    <3> QED  BY <2>1, PartBounds, PartGrows
  <2>3. Interpolate(v0, v1, p) = v0 + before /\ Interpolate(v0, v1, q) = v0 + after
    BY <1>3, <2>1 DEF Interpolate
  <2> HIDE DEF before, after
  <2> QED  BY <2>1, <2>2, <2>3
<1> QED  BY <1>1, <1>2, <1>3

-----------------------------------------------------------------------------
(* Powers.  The library's induction cannot be applied, so what holds of    *)
(* every exponent is shown by its least counterexample.                    *)

\* g holds the powers of b up to the n-th.
PowersTo(b, n, g) ==
    /\ g \in [0..n -> Nat]
    /\ g[0] = 1
    /\ \A i \in 1..n : g[i] = b * g[i - 1]

LEMMA PowersExist ==
    ASSUME NEW b \in Nat, NEW n \in Nat
    PROVE  \E g : PowersTo(b, n, g)
<1> DEFINE Bad == {m \in Nat : ~ \E g : PowersTo(b, m, g)}
<1>1. Bad = {}
  <2> SUFFICES ASSUME Bad # {} PROVE FALSE
    OBVIOUS
  <2>1. PICK m \in Bad : m - 1 \notin Bad
    <3>1. Bad \in SUBSET Nat
      OBVIOUS
    <3> HIDE DEF Bad
    <3> QED  BY <3>1, LeastNumber
  <2>2. CASE m = 0
    <3>1. PowersTo(b, 0, [i \in 0..0 |-> 1])
      BY DEF PowersTo
    <3> QED  BY <2>2, <3>1
  <2>3. CASE m # 0
    <3>1. PICK g : PowersTo(b, m - 1, g)
      BY <2>1, <2>3
    <3> DEFINE h == [i \in 0..m |-> IF i = m THEN b * g[m - 1] ELSE g[i]]
    <3>2. m \in Nat \ {0}
      BY <2>3
    <3>3. g[m - 1] \in Nat /\ b * g[m - 1] \in Nat
      BY <3>1, <3>2 DEF PowersTo
    <3>4. h \in [0..m -> Nat]
      BY <3>1, <3>2, <3>3 DEF PowersTo
    <3>5. h[0] = 1
      BY <3>1, <3>2 DEF PowersTo
    <3>6. \A i \in 1..m : h[i] = b * h[i - 1]
      <4> SUFFICES ASSUME NEW i \in 1..m PROVE h[i] = b * h[i - 1]
        OBVIOUS
      <4>1. h[i - 1] = g[i - 1]
        BY <3>2
      <4>2. CASE i = m
        BY <3>2, <4>1, <4>2
      <4>3. CASE i # m
        BY <3>1, <3>2, <4>1, <4>3 DEF PowersTo
      <4> QED  BY <4>2, <4>3
    <3>7. PowersTo(b, m, h)
      <4> HIDE DEF h
      <4> QED  BY <3>4, <3>5, <3>6 DEF PowersTo
    <3> QED  BY <3>7
  <2> QED  BY <2>2, <2>3
<1> QED  BY <1>1

LEMMA PowersUnique ==
    ASSUME NEW b \in Nat, NEW n \in Nat, NEW m \in Nat, NEW g, NEW h,
           PowersTo(b, n, g), PowersTo(b, m, h), NEW i \in Nat, i <= n, i <= m
    PROVE  g[i] = h[i]
<1> DEFINE Bad == {k \in Nat : k <= n /\ k <= m /\ g[k] # h[k]}
<1>1. Bad = {}
  <2> SUFFICES ASSUME Bad # {} PROVE FALSE
    OBVIOUS
  <2>1. PICK k \in Bad : k - 1 \notin Bad
    <3>1. Bad \in SUBSET Nat
      OBVIOUS
    <3> HIDE DEF Bad
    <3> QED  BY <3>1, LeastNumber
  <2>2. k # 0
    BY <2>1 DEF PowersTo
  <2>3. k \in 1..n /\ k \in 1..m /\ k - 1 \in Nat
    BY <2>2
  <2>4. g[k - 1] = h[k - 1]
    BY <2>1, <2>3
  <2> QED  BY <2>1, <2>3, <2>4 DEF PowersTo
<1> QED  BY <1>1

LEMMA PowerIs ==
    ASSUME NEW b \in Nat
    PROVE  /\ Power(b, 0) = 1
           /\ \A n \in Nat : Power(b, n) \in Nat
           /\ \A n \in Nat : Power(b, n + 1) = b * Power(b, n)
<1> DEFINE G(n) == CHOOSE g : PowersTo(b, n, g)
           f == [n \in Nat |-> G(n)[n]]
           p == CHOOSE q : q = [n \in Nat |-> IF n = 0 THEN 1 ELSE b * q[n - 1]]
<1>1. ASSUME NEW n \in Nat PROVE PowersTo(b, n, G(n))
  BY PowersExist
<1> HIDE DEF G
<1>2. ASSUME NEW n \in Nat PROVE f[n] \in Nat
  BY <1>1 DEF PowersTo
<1>3. f[0] = 1
  BY <1>1 DEF PowersTo
<1>4. ASSUME NEW n \in Nat, n # 0 PROVE f[n] = b * f[n - 1]
  <2>1. n - 1 \in Nat /\ n \in 1..n /\ n - 1 <= n
    BY <1>4
  <2>2. G(n)[n] = b * G(n)[n - 1]
    BY <1>1, <2>1 DEF PowersTo
  <2>3. G(n)[n - 1] = G(n - 1)[n - 1]
    BY <1>1, <2>1, PowersUnique
  <2> QED  BY <2>1, <2>2, <2>3
<1>5. f = [n \in Nat |-> IF n = 0 THEN 1 ELSE b * f[n - 1]]
  <2>1. \A n \in Nat : f[n] = IF n = 0 THEN 1 ELSE b * f[n - 1]
    BY <1>3, <1>4
  <2> QED  BY <2>1
<1> HIDE DEF f
<1>6. p = [n \in Nat |-> IF n = 0 THEN 1 ELSE b * p[n - 1]]
  BY <1>5
<1>7. \A n : Power(b, n) = p[n]
  BY DEF Power
<1> HIDE DEF p
<1>8. p[0] = 1
  BY <1>6
<1>9. \A n \in Nat : p[n + 1] = b * p[n]
  BY <1>6
<1>10. \A n \in Nat : p[n] \in Nat
  <2> DEFINE Bad == {n \in Nat : p[n] \notin Nat}
  <2> SUFFICES ASSUME Bad # {} PROVE FALSE
    OBVIOUS
  <2>1. PICK k \in Bad : k - 1 \notin Bad
    <3>1. Bad \in SUBSET Nat
      OBVIOUS
    <3> HIDE DEF Bad
    <3> QED  BY <3>1, LeastNumber
  <2>2. k # 0
    BY <1>8, <2>1
  <2>3. k - 1 \in Nat /\ (k - 1) + 1 = k
    BY <2>2
  <2>4. p[k - 1] \in Nat /\ p[k] = b * p[k - 1]
    BY <1>9, <2>1, <2>3
  <2> QED  BY <2>1, <2>4
<1> QED  BY <1>7, <1>8, <1>9, <1>10

\* A power of a positive number is positive.
LEMMA PowerPositive ==
    ASSUME NEW b \in Nat \ {0}, NEW n \in Nat
    PROVE  Power(b, n) > 0
<1> DEFINE Bad == {k \in Nat : ~(Power(b, k) > 0)}
<1> SUFFICES ASSUME Bad # {} PROVE FALSE
  OBVIOUS
<1>1. PICK k \in Bad : k - 1 \notin Bad
  <2>1. Bad \in SUBSET Nat
    OBVIOUS
  <2> HIDE DEF Bad
  <2> QED  BY <2>1, LeastNumber
<1>2. k # 0
  BY <1>1, PowerIs
<1>3. k - 1 \in Nat /\ (k - 1) + 1 = k
  BY <1>2
<1>4. Power(b, k - 1) > 0 /\ Power(b, k - 1) \in Nat /\ Power(b, k) = b * Power(b, k - 1)
  <2>1. \A i \in Nat : Power(b, i) \in Nat /\ Power(b, i + 1) = b * Power(b, i)
    BY PowerIs
  <2> QED  BY <1>1, <1>3, <2>1
<1>5. b * Power(b, k - 1) > 0
  BY <1>4
<1> QED  BY <1>1, <1>4, <1>5

\* The power of a product is the product of the powers.
LEMMA PowerProduct ==
    ASSUME NEW a \in Nat, NEW b \in Nat, NEW n \in Nat
    PROVE  Power(a * b, n) = Power(a, n) * Power(b, n)
<1> DEFINE Bad == {k \in Nat : Power(a * b, k) # Power(a, k) * Power(b, k)}
<1> SUFFICES ASSUME Bad # {} PROVE FALSE
  OBVIOUS
<1>1. PICK k \in Bad : k - 1 \notin Bad
  <2>1. Bad \in SUBSET Nat
    OBVIOUS
  <2> HIDE DEF Bad
  <2> QED  BY <2>1, LeastNumber
<1>2. a * b \in Nat
  BY MulNat
<1>3. k # 0
  <2>1. Power(a, 0) = 1 /\ Power(b, 0) = 1 /\ Power(a * b, 0) = 1
    BY <1>2, PowerIs
  <2> QED  BY <1>1, <2>1
<1>4. k - 1 \in Nat /\ (k - 1) + 1 = k
  BY <1>3
<1> DEFINE x == Power(a, k - 1)
           y == Power(b, k - 1)
<1>5. /\ x \in Nat /\ y \in Nat
      /\ Power(a, k) = a * x /\ Power(b, k) = b * y
      /\ Power(a * b, k) = (a * b) * Power(a * b, k - 1)
  <2>1. \A c \in Nat : \A i \in Nat :
            Power(c, i) \in Nat /\ Power(c, i + 1) = c * Power(c, i)
    BY PowerIs
  <2> QED  BY <1>2, <1>4, <2>1
<1>6. Power(a * b, k - 1) = x * y
  BY <1>1, <1>4
<1> HIDE DEF x, y
<1>7. (a * b) * (x * y) = (a * x) * (b * y)
  BY <1>5
<1> QED  BY <1>1, <1>5, <1>6, <1>7

\* A larger base has the larger power.
LEMMA PowerMonotone ==
    ASSUME NEW a \in Nat, NEW b \in Nat, a <= b, NEW n \in Nat
    PROVE  Power(a, n) <= Power(b, n)
<1> DEFINE Bad == {k \in Nat : ~(Power(a, k) <= Power(b, k))}
<1> SUFFICES ASSUME Bad # {} PROVE FALSE
  OBVIOUS
<1>1. PICK k \in Bad : k - 1 \notin Bad
  <2>1. Bad \in SUBSET Nat
    OBVIOUS
  <2> HIDE DEF Bad
  <2> QED  BY <2>1, LeastNumber
<1>2. k # 0
  <2>1. Power(a, 0) = 1 /\ Power(b, 0) = 1
    BY PowerIs
  <2> QED  BY <1>1, <2>1
<1>3. PICK i \in Nat : i = k - 1 /\ i + 1 = k
  BY <1>2
<1> DEFINE x == Power(a, i)
           y == Power(b, i)
<1>4. x \in Nat /\ y \in Nat /\ Power(a, k) = a * x /\ Power(b, k) = b * y
  <2>1. x \in Nat /\ Power(a, i + 1) = a * x
    BY PowerIs
  <2>2. y \in Nat /\ Power(b, i + 1) = b * y
    BY PowerIs
  <2>3. i + 1 = k
    BY <1>3
  <2> QED  BY <2>1, <2>2, <2>3
<1>5. x <= y
  BY <1>1, <1>3
<1> HIDE DEF x, y
<1>6. a * x <= a * y /\ a * y <= b * y
  <2>1. a * x <= a * y
    BY <1>4, <1>5, MulMonotone
  <2>2. y * a <= y * b /\ y * a = a * y /\ y * b = b * y
    BY <1>4, MulMonotone
  <2> QED  BY <2>1, <2>2
<1>7. a * x \in Int /\ a * y \in Int /\ b * y \in Int
  BY <1>4
<1>8. a * x <= b * y
  BY <1>6, <1>7
<1> QED  BY <1>1, <1>4, <1>8

\* An amount out that does not lower the curve through a balance in that is
\* rounded up by one does not lower the curve through the balance itself.
LEMMA RoundedUpTrade ==
    ASSUME NEW balIn \in Nat, NEW in \in Nat, NEW balOut \in Nat, NEW left \in Nat,
           NEW wIn \in Nat, NEW wOut \in Nat,
           Power(balIn + 1 + in, wIn) * Power(left, wOut)
               >= Power(balIn + 1, wIn) * Power(balOut, wOut)
    PROVE  Power(balIn + in, wIn) * Power(left, wOut)
               >= Power(balIn, wIn) * Power(balOut, wOut)
<1> DEFINE b == Power(balIn, wIn)
           b1 == Power(balIn + 1, wIn)
           g == Power(balIn + in, wIn)
           g1 == Power(balIn + 1 + in, wIn)
           o == Power(balOut, wOut)
           l == Power(left, wOut)
<1>1. /\ balIn + 1 \in Nat \ {0} /\ balIn + in \in Nat /\ balIn + 1 + in \in Nat
      /\ (balIn + in) * (balIn + 1) \in Nat /\ balIn * (balIn + 1 + in) \in Nat
  BY MulNat
<1>2. b \in Nat /\ b1 \in Nat /\ g \in Nat /\ g1 \in Nat /\ o \in Nat /\ l \in Nat
  <2>1. \A c \in Nat : \A i \in Nat : Power(c, i) \in Nat
    BY PowerIs
  <2> QED  BY <1>1, <2>1
<1>3. b1 > 0
  BY <1>1, PowerPositive
<1>4. b * g1 <= g * b1
  <2>1. balIn * (balIn + 1 + in) <= (balIn + in) * (balIn + 1)
    <3>1. /\ balIn * (balIn + 1 + in) = balIn * balIn + balIn + balIn * in
          /\ (balIn + in) * (balIn + 1) = balIn * balIn + balIn + balIn * in + in
      OBVIOUS
    <3>2. balIn * balIn \in Nat /\ balIn * in \in Nat
      BY MulNat
    <3> QED  BY <3>1, <3>2
  <2>2. Power(balIn * (balIn + 1 + in), wIn) <= Power((balIn + in) * (balIn + 1), wIn)
    BY <1>1, <2>1, PowerMonotone
  <2>3. Power(balIn * (balIn + 1 + in), wIn) = b * g1
    BY <1>1, PowerProduct
  <2>4. Power((balIn + in) * (balIn + 1), wIn) = g * b1
    BY <1>1, PowerProduct
  <2> QED  BY <2>2, <2>3, <2>4
<1>5. b1 * o <= g1 * l
  <2>1. /\ g1 * l >= b1 * o /\ g1 * l \in Int /\ b1 * o \in Int
    BY <1>2
  <2> QED  BY <2>1
<1> HIDE DEF b, b1, g, g1, o, l
<1>6. /\ b * o \in Nat /\ g * l \in Nat /\ b1 * o \in Nat /\ g1 * l \in Nat
      /\ b * g1 \in Nat /\ g * b1 \in Nat
  BY <1>2, MulNat
<1>7. b1 * (b * o) <= b1 * (g * l)
  <2>1. b * (b1 * o) <= b * (g1 * l)
    BY <1>2, <1>5, <1>6, MulMonotone
  <2>2. l * (b * g1) <= l * (g * b1)
    BY <1>2, <1>4, <1>6, MulMonotone
  <2>3. /\ b * (b1 * o) = b1 * (b * o) /\ b * (g1 * l) = l * (b * g1)
        /\ l * (g * b1) = b1 * (g * l)
    BY <1>2
  <2>4. b1 * (b * o) \in Int /\ l * (b * g1) \in Int /\ b1 * (g * l) \in Int
    BY <1>2
  <2> QED  BY <2>1, <2>2, <2>3, <2>4
<1>8. b * o <= g * l
  <2>1. b1 * (b * o) < b1 * (g * l) + b1
    <3>1. b1 * (b * o) \in Int /\ b1 * (g * l) \in Int
      BY <1>2, <1>6
    <3> QED  BY <1>2, <1>3, <1>7, <3>1
  <2> QED  BY <1>2, <1>3, <1>6, <2>1, MulCancel
<1> QED  BY <1>6, <1>8 DEF b, g, o, l

-----------------------------------------------------------------------------
(* The invariant. *)

SaleTyped == /\ sale \in [startTime : 0..Horizon, endTime : 0..Horizon,
                          startWeight : Weights, endWeight : Weights,
                          virtual : VirtualBalances, blockProjectIn : BOOLEAN]
             /\ InitializationPeriod <= sale.startTime
             /\ sale.startTime <= sale.endTime

Inv == CommonInv /\ SaleTyped

LEMMA InvNat ==
    ASSUME Inv
    PROVE  /\ now \in Nat
           /\ sale.startTime \in Nat /\ sale.endTime \in Nat
           /\ sale.startTime <= sale.endTime /\ 0 < sale.endTime
           /\ sale.startWeight \in Weights /\ sale.endWeight \in Weights
           /\ sale.virtual \in Nat
           /\ project \in Nat /\ reserve \in Nat
<1>1. now \in 0..Horizon /\ project \in Nat /\ reserve \in Nat
  BY DEF Inv, CommonInv, TypeOKCommon
<1>2. /\ sale.startTime \in 0..Horizon /\ sale.endTime \in 0..Horizon
      /\ sale.startWeight \in Weights /\ sale.endWeight \in Weights
      /\ sale.virtual \in VirtualBalances
  BY DEF Inv, SaleTyped
<1>3. InitializationPeriod <= sale.startTime /\ sale.startTime <= sale.endTime
  BY DEF Inv, SaleTyped
<1>4. sale.virtual \in Nat
  BY <1>2, BalanceAssumption
<1>5. /\ now \in Nat /\ sale.startTime \in Nat /\ sale.endTime \in Nat
      /\ 0 < sale.endTime
  BY <1>1, <1>2, <1>3, BoundAssumption, PeriodAssumption
<1> QED  BY <1>1, <1>2, <1>3, <1>4, <1>5

LEMMA WeightsInt == Weights \subseteq Int
BY WeightAssumption DEF Weights

\* A swap leaves natural balances: the pool's minimum holds back the project
\* token, and the check against the real balance the reserve token.
LEMMA BuyKeeps ==
    ASSUME Inv, NEW in \in Nat, NEW out \in Nat, Buy(in, out)
    PROVE  Inv'
<1>1. project' = project - out /\ reserve' = reserve + in /\ project - out >= MinBalance
  BY DEF Buy
<1>2. project' \in Nat /\ reserve' \in Nat
  BY <1>1, InvNat, BalanceAssumption
<1>3. CommonInv'
  BY <1>2, TradeKeeps DEF Buy, Inv
<1> QED  BY <1>3 DEF Buy, Inv, SaleTyped

LEMMA SellKeeps ==
    ASSUME Inv, NEW in \in Nat, NEW out \in Nat, Sell(in, out)
    PROVE  Inv'
<1>1. project' = project + in /\ reserve' = reserve - out /\ out <= reserve
  BY DEF Sell, PoolCanPay
<1>2. project' \in Nat /\ reserve' \in Nat
  BY <1>1, InvNat
<1>3. CommonInv'
  BY <1>2, TradeKeeps DEF Sell, Inv
<1> QED  BY <1>3 DEF Sell, Inv, SaleTyped

LEMMA SwapsKeep == ASSUME Inv, SwapAmounts PROVE Inv'
<1>1. PICK given \in 1..MaxTrade :
          \/ BuyExactIn(given)
          \/ SellExactIn(given)
          \/ \E in \in 1..MaxTrade : BuyExactOut(given, in) \/ SellExactOut(given, in)
  BY DEF SwapAmounts
<1>2. given \in Nat
  BY BalanceAssumption
<1>3. CASE BuyExactIn(given)
  <2>1. PICK out \in OutGivenIn(Reserve(reserve) + 1, ReserveWeight,
                                project, ProjectWeight, given) : Buy(given, out)
    BY <1>3 DEF BuyExactIn
  <2>2. out \in Nat
    BY InvNat DEF OutGivenIn, Largest, Outs
  <2> QED  BY <1>2, <2>1, <2>2, BuyKeeps
<1>4. CASE SellExactIn(given)
  <2>1. PICK out \in OutGivenIn(project + 1, ProjectWeight,
                                Reserve(reserve), ReserveWeight, given) : Sell(given, out)
    BY <1>4 DEF SellExactIn
  <2>2. out \in Nat
    BY InvNat DEF OutGivenIn, Largest, Outs
  <2> QED  BY <1>2, <2>1, <2>2, SellKeeps
<1>5. ASSUME NEW in \in 1..MaxTrade, BuyExactOut(given, in) \/ SellExactOut(given, in)
      PROVE  Inv'
  <2>1. in \in Nat
    BY BalanceAssumption
  <2>2. CASE BuyExactOut(given, in)
    BY <1>2, <2>1, <2>2, BuyKeeps DEF BuyExactOut
  <2>3. CASE SellExactOut(given, in)
    BY <1>2, <2>1, <2>3, SellKeeps DEF SellExactOut
  <2> QED  BY <1>5, <2>2, <2>3
<1> QED  BY <1>1, <1>3, <1>4, <1>5

LEMMA InitInv == Init => Inv
<1> SUFFICES ASSUME Init PROVE Inv
  OBVIOUS
<1>1. CommonInv
  BY InitCommonSound DEF Init
<1>2. now = 0
  BY DEF Init, InitCommon
<1>3. SaleTyped
  BY <1>2, PeriodAssumption DEF Init, ValidTimes, SaleTyped
<1> QED  BY <1>1, <1>3 DEF Inv

\* The parameters of the sale never change, and only blocks move time.
LEMMA SaleFixed == Next => UNCHANGED sale /\ (Tick \/ UNCHANGED now)
<1> SUFFICES ASSUME Next PROVE UNCHANGED sale /\ (Tick \/ UNCHANGED now)
  OBVIOUS
<1>1. ASSUME NEW a \in Accounts, NEW trusted \in BOOLEAN, NEW p \in 0..MaxFunds,
             NEW r \in 0..MaxFunds, InitializeWeighted(a, trusted, p, r)
      PROVE  UNCHANGED <<now, sale>>
  BY <1>1 DEF InitializeWeighted, Initialize
<1>2. ASSUME NEW a \in Accounts, NEW trusted \in BOOLEAN, NEW n \in 1..MaxFunds,
             AddLiquidity(a, trusted, n)
      PROVE  UNCHANGED <<now, sale>>
  BY <1>2 DEF AddLiquidity
<1>3. ASSUME NEW a \in Accounts, NEW n \in 1..bpt[a], RemoveLiquidity(a, n)
      PROVE  UNCHANGED <<now, sale>>
  BY <1>3 DEF RemoveLiquidity
<1>4. ASSUME NEW a \in Accounts, NEW b \in Accounts, TransferShares(a, b)
      PROVE  UNCHANGED <<now, sale>>
  BY <1>4 DEF TransferShares
<1>5. ASSUME SwapAmounts PROVE UNCHANGED <<now, sale>>
  BY <1>5 DEF SwapAmounts, BuyExactIn, SellExactIn, BuyExactOut, SellExactOut, Buy, Sell
<1>6. ASSUME Ownership PROVE UNCHANGED <<now, sale>>
  BY <1>6 DEF Ownership, TransferOwnership, AcceptOwnership, RenounceOwnership
<1>7. ASSUME Tick PROVE UNCHANGED sale
  BY <1>7 DEF Tick
<1> QED  BY <1>1, <1>2, <1>3, <1>4, <1>5, <1>6, <1>7 DEF Next

LEMMA NextInv == Inv /\ [Next]_vars => Inv'
<1> SUFFICES ASSUME Inv, [Next]_vars PROVE Inv'
  OBVIOUS
<1>0. ASSUME Next, CommonInv' PROVE Inv'
  BY <1>0, SaleFixed DEF Inv, SaleTyped
<1>1. ASSUME NEW a \in Accounts, NEW trusted \in BOOLEAN, NEW p \in 0..MaxFunds,
             NEW r \in 0..MaxFunds, InitializeWeighted(a, trusted, p, r)
      PROVE  CommonInv'
  <2>1. PICK minted \in InitialSupply(p, r) : Initialize(a, trusted, p, r, minted)
    BY <1>1 DEF InitializeWeighted
  <2>2. minted \in Int /\ p \in Nat /\ r \in Nat
    BY BoundAssumption DEF InitialSupply, Largest
  <2> QED  BY <2>1, <2>2, InitializeKeeps DEF Inv
<1>2. ASSUME NEW a \in Accounts, NEW trusted \in BOOLEAN, NEW n \in 1..MaxFunds,
             AddLiquidity(a, trusted, n)
      PROVE  CommonInv'
  <2>1. n \in Nat
    BY BoundAssumption
  <2> QED  BY <1>2, <2>1, AddKeeps DEF Inv
<1>3. ASSUME NEW a \in Accounts, NEW n \in 1..bpt[a], RemoveLiquidity(a, n)
      PROVE  CommonInv'
  <2>1. n \in Nat
    BY DEF Inv, CommonInv, TypeOKCommon, Holders
  <2> QED  BY <1>3, <2>1, RemoveKeeps DEF Inv
<1>4. ASSUME NEW a \in Accounts, NEW b \in Accounts, TransferShares(a, b)
      PROVE  CommonInv'
  BY <1>4, TransferKeeps DEF Inv
<1>5. CASE SwapAmounts
  BY <1>5, SwapsKeep
<1>6. CASE Ownership
  <2>1. Next /\ CommonInv'
    BY <1>6, OwnershipKeeps DEF Inv, Next
  <2> QED  BY <2>1, <1>0
<1>7. CASE Tick
  <2>1. Next /\ CommonInv'
    BY <1>7, TickKeeps DEF Inv, Next
  <2> QED  BY <2>1, <1>0
<1>8. CASE UNCHANGED vars
  BY <1>8 DEF vars, Inv, CommonInv, TypeOKCommon, SharesSound, SaleTyped
<1> QED  BY <1>0, <1>1, <1>2, <1>3, <1>4, <1>5, <1>6, <1>7, <1>8 DEF Next, Inv

-----------------------------------------------------------------------------
(* The theorems. *)

\* The pool's real balances never go below zero, whatever is counted virtually
\* and however the weights have moved: a seedless pool pays out only reserve
\* tokens that buyers paid in, and no share is ever worth more than there is.
THEOREM PoolTypeCorrect == Spec => []TypeOK
<1>1. Inv => TypeOK
  BY InvNat DEF Inv, CommonInv, SaleTyped, TypeOK
<1>2. Inv /\ [Next]_vars => Inv'
  BY NextInv
<1> QED  BY <1>1, <1>2, InitInv, PTL DEF Spec

\* The weights at any moment of a sale.
LEMMA InvWeights ==
    ASSUME Inv
    PROVE  /\ ProjectWeight \in Nat /\ ReserveWeight \in Nat
           /\ ProjectWeight >= MinWeight /\ ReserveWeight >= MinWeight
<1>1. Progress(sale.startTime, sale.endTime, now) \in 0..One
  BY InvNat, ProgressBounds
<1>2. /\ sale.startWeight \in Int /\ sale.endWeight \in Int
      /\ MinWeight <= sale.startWeight /\ sale.startWeight <= One - MinWeight
      /\ MinWeight <= sale.endWeight /\ sale.endWeight <= One - MinWeight
      /\ MinWeight \in Nat /\ One \in Int
  BY InvNat, WeightAssumption DEF Weights
<1>3. /\ ProjectWeight \in Int
      /\ \/ sale.startWeight <= ProjectWeight /\ ProjectWeight <= sale.endWeight
         \/ sale.endWeight <= ProjectWeight /\ ProjectWeight <= sale.startWeight
  BY <1>1, <1>2, InterpolateBetween DEF ProjectWeight
<1>4. MinWeight <= ProjectWeight /\ ProjectWeight <= One - MinWeight
  BY <1>2, <1>3
<1> QED  BY <1>2, <1>3, <1>4 DEF ReserveWeight

\* At every moment of a sale of any length both weights are at least the minimum.
THEOREM WeightsValid == Spec => []WeightsStayValid
<1>1. Inv => WeightsStayValid
  BY InvWeights DEF WeightsStayValid
<1>2. Inv /\ [Next]_vars => Inv'
  BY NextInv
<1> QED  BY <1>1, <1>2, InitInv, PTL DEF Spec

\* While the sale lasts only swaps move the pool's balances and none its supply.
LEMMA SaleSteps ==
    ASSUME Inv, Next, live, IsSwapEnabled
    PROVE  supply' = supply /\ (SwapAmounts \/ UNCHANGED balances)
<1>0. now \in Nat /\ sale.startTime \in Nat /\ now >= sale.startTime /\ now <= sale.endTime
  BY InvNat DEF IsSwapEnabled
<1>1. ASSUME NEW a, NEW trusted, NEW p, NEW r, InitializeWeighted(a, trusted, p, r)
      PROVE  FALSE
  BY <1>1 DEF InitializeWeighted, Initialize
<1>2. ASSUME NEW a, NEW trusted, NEW n, AddLiquidity(a, trusted, n)
      PROVE  FALSE
  BY <1>0, <1>2 DEF AddLiquidity, BeforeSale
<1>3. ASSUME NEW a, NEW n, RemoveLiquidity(a, n)
      PROVE  FALSE
  BY <1>0, <1>3 DEF RemoveLiquidity, RemovalBlocked
<1>4. ASSUME NEW a, NEW b, TransferShares(a, b) PROVE supply' = supply /\ UNCHANGED balances
  BY <1>4 DEF TransferShares
<1>5. ASSUME SwapAmounts PROVE supply' = supply
  BY <1>5 DEF SwapAmounts, BuyExactIn, SellExactIn, BuyExactOut, SellExactOut,
              Buy, Sell, shares
<1>6. ASSUME Ownership PROVE supply' = supply /\ UNCHANGED balances
  BY <1>6 DEF Ownership, TransferOwnership, AcceptOwnership, RenounceOwnership, shares
<1>7. ASSUME Tick PROVE supply' = supply /\ UNCHANGED balances
  BY <1>7 DEF Tick, shares
<1> QED  BY <1>1, <1>2, <1>3, <1>4, <1>5, <1>6, <1>7 DEF Next

\* From the first second of the sale to the last the supply of shares stands
\* still, whoever calls what.
THEOREM LiquidityStandsStill == Spec => NoLiquidityChangeInSale
<1>1. Inv /\ [Next]_vars => [live /\ IsSwapEnabled => supply' = supply]_vars
  BY SaleSteps
<1>2. Inv /\ [Next]_vars => Inv'
  BY NextInv
<1> QED  BY <1>1, <1>2, InitInv, PTL DEF Spec, NoLiquidityChangeInSale

\* Every swap leaves the pool on its curve or above it.
LEMMA BuyOnCurve ==
    ASSUME Inv, NEW in \in Nat, NEW out, Buy(in, out),
           out \in Outs(Reserve(reserve) + 1, ReserveWeight, project, ProjectWeight, in)
    PROVE  Curve(project', reserve') >= Curve(project, reserve)
<1> DEFINE balIn == Reserve(reserve)
           left == project - out
<1>1. project' = left /\ reserve' = reserve + in
  BY DEF Buy
<1>2. /\ project \in Nat /\ reserve \in Nat /\ sale.virtual \in Nat /\ balIn \in Nat
      /\ ProjectWeight \in Nat /\ ReserveWeight \in Nat
  BY InvNat, InvWeights DEF Reserve
<1>3. /\ out \in 0..project
      /\ Power(balIn + 1 + in, ReserveWeight) * Power(left, ProjectWeight)
             >= Power(balIn + 1, ReserveWeight) * Power(project, ProjectWeight)
  BY DEF Outs
<1>4. left \in Nat
  BY <1>2, <1>3
<1>5. Reserve(reserve + in) = balIn + in
  BY <1>2 DEF Reserve
<1> HIDE DEF balIn, left
<1>6. Power(balIn + in, ReserveWeight) * Power(left, ProjectWeight)
          >= Power(balIn, ReserveWeight) * Power(project, ProjectWeight)
  BY <1>2, <1>3, <1>4, RoundedUpTrade
<1>7. /\ Power(balIn + in, ReserveWeight) \in Nat /\ Power(left, ProjectWeight) \in Nat
      /\ Power(balIn, ReserveWeight) \in Nat /\ Power(project, ProjectWeight) \in Nat
  <2>1. balIn + in \in Nat
    BY <1>2
  <2>2. \A c \in Nat : \A i \in Nat : Power(c, i) \in Nat
    BY PowerIs
  <2> QED  BY <1>2, <1>4, <2>1, <2>2
<1>8. /\ Curve(project', reserve')
             = Power(left, ProjectWeight) * Power(balIn + in, ReserveWeight)
      /\ Curve(project, reserve) = Power(project, ProjectWeight) * Power(balIn, ReserveWeight)
  BY <1>1, <1>5 DEF Curve, balIn
<1> QED  BY <1>6, <1>7, <1>8

LEMMA SellOnCurve ==
    ASSUME Inv, NEW in \in Nat, NEW out, Sell(in, out),
           out \in Outs(project + 1, ProjectWeight, Reserve(reserve), ReserveWeight, in)
    PROVE  Curve(project', reserve') >= Curve(project, reserve)
<1> DEFINE balOut == Reserve(reserve)
           left == balOut - out
<1>1. project' = project + in /\ reserve' = reserve - out
  BY DEF Sell
<1>2. /\ project \in Nat /\ reserve \in Nat /\ sale.virtual \in Nat /\ balOut \in Nat
      /\ ProjectWeight \in Nat /\ ReserveWeight \in Nat
  BY InvNat, InvWeights DEF Reserve
<1>3. /\ out \in 0..balOut
      /\ Power(project + 1 + in, ProjectWeight) * Power(left, ReserveWeight)
             >= Power(project + 1, ProjectWeight) * Power(balOut, ReserveWeight)
  BY DEF Outs
<1>4. left \in Nat
  BY <1>2, <1>3
<1>5. Reserve(reserve - out) = left
  BY <1>2, <1>3 DEF Reserve
<1> HIDE DEF balOut, left
<1>6. Power(project + in, ProjectWeight) * Power(left, ReserveWeight)
          >= Power(project, ProjectWeight) * Power(balOut, ReserveWeight)
  BY <1>2, <1>3, <1>4, RoundedUpTrade
<1>7. /\ Curve(project', reserve')
             = Power(project + in, ProjectWeight) * Power(left, ReserveWeight)
      /\ Curve(project, reserve) = Power(project, ProjectWeight) * Power(balOut, ReserveWeight)
  BY <1>1, <1>5 DEF Curve, balOut
<1> QED  BY <1>6, <1>7

\* Within a block no trade takes the pool below its curve, for any weights,
\* virtual balance and amounts: the balance in is rounded up in the price and
\* the amount down, which never leaves the trader more than the curve gives.
THEOREM TradesStayOnCurve == Spec => CurveNeverFalls
<1> DEFINE Stays == live /\ IsSwapEnabled /\ now' = now
                        => Curve(project', reserve') >= Curve(project, reserve)
<1>1. Inv /\ [Next]_vars => [Stays]_vars
  <2> SUFFICES ASSUME Inv, Next, live, IsSwapEnabled
               PROVE  Curve(project', reserve') >= Curve(project, reserve)
    OBVIOUS
  <2>1. CASE UNCHANGED balances
    <3>1. Curve(project, reserve) \in Int
      <4>1. Reserve(reserve) \in Nat /\ project \in Nat
        BY InvNat DEF Reserve
      <4>2. Power(project, ProjectWeight) \in Nat
        BY <4>1, InvWeights, PowerIs
      <4>3. Power(Reserve(reserve), ReserveWeight) \in Nat
        BY <4>1, InvWeights, PowerIs
      <4> QED  BY <4>2, <4>3 DEF Curve
    <3>2. project' = project /\ reserve' = reserve
      BY <2>1 DEF balances
    <3> QED  BY <3>1, <3>2
  <2>2. ASSUME NEW given \in 1..MaxTrade, BuyExactIn(given)
        PROVE  Curve(project', reserve') >= Curve(project, reserve)
    <3>1. given \in Nat
      BY BalanceAssumption
    <3>2. PICK out \in OutGivenIn(Reserve(reserve) + 1, ReserveWeight,
                                  project, ProjectWeight, given) : Buy(given, out)
      BY <2>2 DEF BuyExactIn
    <3>3. out \in Outs(Reserve(reserve) + 1, ReserveWeight, project, ProjectWeight, given)
      BY DEF OutGivenIn, Largest
    <3> QED  BY <3>1, <3>2, <3>3, BuyOnCurve
  <2>3. ASSUME NEW given \in 1..MaxTrade, SellExactIn(given)
        PROVE  Curve(project', reserve') >= Curve(project, reserve)
    <3>1. given \in Nat
      BY BalanceAssumption
    <3>2. PICK out \in OutGivenIn(project + 1, ProjectWeight,
                                  Reserve(reserve), ReserveWeight, given) : Sell(given, out)
      BY <2>3 DEF SellExactIn
    <3>3. out \in Outs(project + 1, ProjectWeight, Reserve(reserve), ReserveWeight, given)
      BY DEF OutGivenIn, Largest
    <3> QED  BY <3>1, <3>2, <3>3, SellOnCurve
  <2>4. ASSUME NEW given \in 1..MaxTrade, NEW in \in 1..MaxTrade, BuyExactOut(given, in)
        PROVE  Curve(project', reserve') >= Curve(project, reserve)
    <3>1. in \in Nat
      BY BalanceAssumption
    <3> QED  BY <2>4, <3>1, BuyOnCurve DEF BuyExactOut, IsInFor
  <2>5. ASSUME NEW given \in 1..MaxTrade, NEW in \in 1..MaxTrade, SellExactOut(given, in)
        PROVE  Curve(project', reserve') >= Curve(project, reserve)
    <3>1. in \in Nat
      BY BalanceAssumption
    <3> QED  BY <2>5, <3>1, SellOnCurve DEF SellExactOut, IsInFor
  <2> QED  BY <2>1, <2>2, <2>3, <2>4, <2>5, SaleSteps DEF SwapAmounts
<1>2. Inv /\ [Next]_vars => Inv'
  BY NextInv
<1> QED  BY <1>1, <1>2, InitInv, PTL DEF Spec, CurveNeverFalls

\* The project token's weight is one of module Ramp's values: it moves with
\* time only, only towards the end weight, and is there when the sale ends.
THEOREM WeightIsRamp == Spec => IsRamp
<1>1. Init => R!Init
  <2> SUFFICES ASSUME Init PROVE sale.endTime > now
    BY DEF R!Init
  <2> QED  BY InitInv, InvNat DEF Init, InitCommon
<1>2. Inv /\ [Next]_vars => [R!Next]_(R!vars)
  <2> SUFFICES ASSUME Inv, [Next]_vars PROVE [R!Next]_(R!vars)
    OBVIOUS
  <2>1. CASE UNCHANGED <<now, sale>>
    BY <2>1 DEF R!vars, ProjectWeight
  <2>2. CASE Tick
    <3> DEFINE p == Progress(sale.startTime, sale.endTime, now)
               q == Progress(sale.startTime, sale.endTime, now + 1)
    <3>1. now' = now + 1 /\ sale' = sale
      BY <2>2 DEF Tick
    <3>2. /\ now \in Nat /\ now + 1 \in Nat /\ now <= now + 1 /\ now + 1 > now
          /\ sale.startTime \in Nat /\ sale.endTime \in Nat
          /\ sale.startTime <= sale.endTime
      BY InvNat
    <3>3. p \in 0..One /\ q \in 0..One /\ p <= q
      BY <3>2, ProgressBounds, ProgressGrows
    <3>4. now + 1 >= sale.endTime => q = One
      BY DEF Progress
    <3>5. ProjectWeight = Interpolate(sale.startWeight, sale.endWeight, p)
      BY DEF ProjectWeight
    <3>6. ProjectWeight' = Interpolate(sale.startWeight, sale.endWeight, q)
      BY <3>1 DEF ProjectWeight
    <3>7. sale.startWeight \in Int /\ sale.endWeight \in Int
      BY InvNat, WeightsInt
    <3> HIDE DEF p, q
    <3>8. R!OnTheWay(ProjectWeight, ProjectWeight', sale.endWeight)
      BY <3>3, <3>5, <3>6, <3>7, InterpolateOnTheWay DEF R!OnTheWay
    <3>9. q = One => ProjectWeight' = sale.endWeight
      BY <3>6, WeightAssumption DEF Interpolate
    <3> QED  BY <3>1, <3>2, <3>4, <3>8, <3>9 DEF R!Next, R!Advance
  <2> QED  BY <2>1, <2>2, SaleFixed DEF vars
<1>3. Inv /\ [Next]_vars => Inv'
  BY NextInv
<1> QED  BY <1>1, <1>2, <1>3, InitInv, PTL DEF Spec, IsRamp, R!Spec

-----------------------------------------------------------------------------
(* The fixed-price pool. *)

\* Its operations on liquidity, shares and ownership are LBPCommon's.
LEMMA FixedIsCommon ==
    /\ Fixed!InitCommon => InitCommon
    /\ \A a, trusted, p, r, minted :
           Fixed!Initialize(a, trusted, p, r, minted) => Initialize(a, trusted, p, r, minted)
    /\ \A a, trusted, n : Fixed!AddLiquidity(a, trusted, n) => AddLiquidity(a, trusted, n)
    /\ \A a, n : Fixed!RemoveLiquidity(a, n) => RemoveLiquidity(a, n)
    /\ \A a, b : Fixed!TransferShares(a, b) => TransferShares(a, b)
    /\ Fixed!Ownership => Ownership
    /\ Fixed!Tick => Tick
<1>1. Fixed!InitCommon => InitCommon
  BY DEF Fixed!InitCommon, InitCommon, Fixed!Holders, Holders
<1>2. ASSUME NEW a, NEW trusted, NEW p, NEW r, NEW minted,
             Fixed!Initialize(a, trusted, p, r, minted)
      PROVE  Initialize(a, trusted, p, r, minted)
  BY <1>2 DEF Fixed!Initialize, Initialize, Fixed!BeforeSale, BeforeSale,
              Fixed!GetSender, GetSender, Fixed!Mint, Mint, Fixed!ownership, ownership
<1>3. ASSUME NEW a, NEW trusted, NEW n, Fixed!AddLiquidity(a, trusted, n)
      PROVE  AddLiquidity(a, trusted, n)
  BY <1>3 DEF Fixed!AddLiquidity, AddLiquidity, Fixed!BeforeSale, BeforeSale,
              Fixed!DivUp, DivUp, Fixed!ownership, ownership
<1>4. ASSUME NEW a, NEW n, Fixed!RemoveLiquidity(a, n)
      PROVE  RemoveLiquidity(a, n)
  BY <1>4 DEF Fixed!RemoveLiquidity, RemoveLiquidity, Fixed!RemovalBlocked, RemovalBlocked,
              Fixed!ownership, ownership
<1>5. ASSUME NEW a, NEW b, Fixed!TransferShares(a, b)
      PROVE  TransferShares(a, b)
  BY <1>5 DEF Fixed!TransferShares, TransferShares, Fixed!ownership, ownership,
              Fixed!balances, balances
<1>6. Fixed!Ownership => Ownership
  BY DEF Fixed!Ownership, Ownership, Fixed!TransferOwnership, TransferOwnership,
         Fixed!AcceptOwnership, AcceptOwnership, Fixed!RenounceOwnership, RenounceOwnership,
         Fixed!Holders, Holders, Fixed!balances, balances, Fixed!shares, shares
<1>7. Fixed!Tick => Tick
  BY DEF Fixed!Tick, Tick, Fixed!ownership, ownership,
         Fixed!balances, balances, Fixed!shares, shares
<1> QED  BY <1>1, <1>2, <1>3, <1>4, <1>5, <1>6, <1>7

FixedInv == /\ CommonInv
            /\ sale \in [startTime : 0..Horizon, endTime : 0..Horizon, rate : Rates]

LEMMA FixedNat ==
    ASSUME Rates \subseteq Nat \ {0}, FixedInv
    PROVE  /\ now \in Nat /\ sale.startTime \in Nat /\ sale.endTime \in Nat
           /\ project \in Nat /\ reserve \in Nat
           /\ sale.rate \in Nat \ {0} /\ One \in Nat \ {0}
<1>1. /\ now \in 0..Horizon /\ project \in Nat /\ reserve \in Nat
      /\ sale.startTime \in 0..Horizon /\ sale.endTime \in 0..Horizon
      /\ sale.rate \in Rates
  BY DEF FixedInv, CommonInv, TypeOKCommon
<1>2. sale.rate \in Nat \ {0}
  BY <1>1
<1> QED  BY <1>1, <1>2, BoundAssumption, WeightAssumption

\* The two ways to buy: what is computed is rounded against the buyer, and a
\* unit of it is worth more than the rounding takes.
LEMMA FixedTrade ==
    ASSUME Rates \subseteq Nat \ {0}, FixedInv, NEW given \in 1..MaxTrade,
           Fixed!SwapExactIn(given) \/ Fixed!SwapExactOut(given)
    PROVE  /\ UNCHANGED <<now, sale, ownership, live, shares>>
           /\ project' \in Nat /\ reserve' \in Nat /\ reserve <= reserve'
           /\ LET gain == Fixed!Worth(project', reserve') - Fixed!Worth(project, reserve)
              IN  gain >= 0 /\ (gain < sale.rate \/ gain < One)
<1>0. /\ project \in Nat /\ reserve \in Nat /\ given \in Nat
      /\ sale.rate \in Nat \ {0} /\ One \in Nat \ {0}
  BY BalanceAssumption, FixedNat
<1> DEFINE rate == sale.rate
\* A purchase of out for in, with in between the exact price of out and less
\* than a unit more.
<1>1. ASSUME NEW in \in Int, NEW out \in Int, Fixed!Buy(in, out),
             out * rate <= in * One, in * One < out * rate + rate \/ in * One < out * rate + One
      PROVE  /\ UNCHANGED <<now, sale, ownership, live, shares>>
             /\ project' \in Nat /\ reserve' \in Nat /\ reserve <= reserve'
             /\ LET gain == Fixed!Worth(project', reserve') - Fixed!Worth(project, reserve)
                IN  gain >= 0 /\ (gain < sale.rate \/ gain < One)
  <2>1. /\ UNCHANGED <<now, sale, ownership, live, shares>>
        /\ project' = project - out /\ reserve' = reserve + in
        /\ in > 0 /\ out > 0 /\ out <= project
    BY <1>1 DEF Fixed!Buy, Fixed!ownership, ownership, Fixed!shares, shares
  <2>2. project' \in Nat /\ reserve' \in Nat /\ reserve <= reserve'
    BY <1>0, <2>1
  <2>3. /\ (project - out) * rate = project * rate - out * rate
        /\ (reserve + in) * One = reserve * One + in * One
        /\ project * rate \in Int /\ out * rate \in Int
        /\ reserve * One \in Int /\ in * One \in Int
    BY <1>0
  <2>4. sale'.rate = rate
    BY <2>1
  <2>5. Fixed!Worth(project', reserve') - Fixed!Worth(project, reserve) = in * One - out * rate
    <3>1. Fixed!Worth(project', reserve') = (project - out) * rate + (reserve + in) * One
      BY <2>1, <2>4 DEF Fixed!Worth
    <3>2. Fixed!Worth(project, reserve) = project * rate + reserve * One
      BY DEF Fixed!Worth
    <3> HIDE DEF rate
    <3> QED  BY <2>3, <3>1, <3>2
  <2> QED  BY <1>0, <1>1, <2>1, <2>2, <2>3, <2>5
<1>2. CASE Fixed!SwapExactIn(given)
  <2> DEFINE out == (given * One) \div rate
  <2>1. given * One \in Nat
    BY <1>0, MulNat
  <2>2. out \in Int /\ rate * out <= given * One /\ given * One < rate * out + rate
    <3> DEFINE worth == given * One
    <3>1. rate \in Nat \ {0} /\ worth \in Int
      BY <1>0, <2>1
    <3>2. out = worth \div rate
      OBVIOUS
    <3> HIDE DEF rate, worth, out
    <3>3. out \in Int /\ rate * out <= worth /\ worth < rate * out + rate
      BY <3>1, <3>2, DivBounds
    <3> QED  BY <3>3 DEF worth
  <2>3. Fixed!Buy(given, out)
    BY <1>2 DEF Fixed!SwapExactIn, Fixed!DivDown
  <2> HIDE DEF out, rate
  <2>4. rate * out = out * rate
    BY <1>0, <2>2 DEF rate
  <2> QED  BY <1>0, <1>1, <2>2, <2>3, <2>4 DEF rate
<1>3. CASE Fixed!SwapExactOut(given)
  <2> DEFINE price == given * rate
             in == (price + One - 1) \div One
  <2>1. price \in Nat
    BY <1>0, MulNat
  <2>2. in \in Int /\ One * in <= price + One - 1 /\ price + One - 1 < One * in + One
    <3>1. price + One - 1 \in Int
      BY <1>0, <2>1
    <3> HIDE DEF price
    <3> QED  BY <1>0, <3>1, DivBounds
  <2>3. Fixed!Buy(in, given)
    BY <1>3 DEF Fixed!SwapExactOut, Fixed!MulUp, Fixed!DivUp
  <2> HIDE DEF in
  <2>4. One * in = in * One /\ One * in \in Int
    BY <1>0, <2>2
  <2>5. price <= in * One /\ in * One < price + One
    <3> HIDE DEF price
    <3> QED  BY <1>0, <2>1, <2>2, <2>4
  <2> QED  BY <1>0, <1>1, <2>2, <2>3, <2>5
<1> QED  BY <1>2, <1>3

LEMMA FixedInitInv == Rates \subseteq Nat \ {0} /\ Fixed!Init => FixedInv
BY FixedIsCommon, InitCommonSound DEF Fixed!Init, FixedInv

LEMMA FixedNextInv ==
    ASSUME Rates \subseteq Nat \ {0}, FixedInv, [Fixed!Next]_vars
    PROVE  FixedInv'
<1>1. ASSUME NEW a \in Accounts, NEW trusted \in BOOLEAN, NEW p \in 0..MaxFunds,
             NEW r \in 0..MaxFunds, Fixed!InitializeFixedPrice(a, trusted, p, r)
      PROVE  FixedInv'
  <2>1. Initialize(a, trusted, p, r, Fixed!Invariant(p, r))
    BY <1>1, FixedIsCommon DEF Fixed!InitializeFixedPrice
  <2>2. p \in Nat /\ r \in Nat /\ sale.rate \in Nat /\ One \in Nat \ {0}
    BY BoundAssumption, FixedNat
  <2>3. p * sale.rate \in Int
    BY <2>2
  <2>4. (p * sale.rate) \div One \in Int
    <3> DEFINE worth == p * sale.rate
    <3> HIDE DEF worth
    <3>1. worth \in Int
      BY <2>3 DEF worth
    <3>2. worth \div One \in Int
      BY <2>2, <3>1, DivBounds
    <3> QED  BY <3>2 DEF worth
  <2>5. Fixed!Invariant(p, r) \in Int
    BY <2>2, <2>4 DEF Fixed!Invariant, Fixed!MulDown
  <2>6. CommonInv'
    BY <2>1, <2>2, <2>5, InitializeKeeps DEF FixedInv
  <2> QED  BY <2>1, <2>6 DEF FixedInv, Initialize
<1>2. ASSUME NEW a \in Accounts, NEW trusted \in BOOLEAN, NEW n \in 1..MaxFunds,
             Fixed!AddLiquidity(a, trusted, n)
      PROVE  FixedInv'
  <2>1. n \in Nat /\ AddLiquidity(a, trusted, n)
    BY <1>2, BoundAssumption, FixedIsCommon
  <2>2. CommonInv'
    BY <2>1, AddKeeps DEF FixedInv
  <2> QED  BY <2>1, <2>2 DEF FixedInv, AddLiquidity
<1>3. ASSUME NEW a \in Accounts, NEW n \in 1..bpt[a], Fixed!RemoveLiquidity(a, n)
      PROVE  FixedInv'
  <2>1. n \in Nat /\ RemoveLiquidity(a, n)
    BY <1>3, FixedIsCommon DEF FixedInv, CommonInv, TypeOKCommon, Holders
  <2>2. CommonInv'
    BY <2>1, RemoveKeeps DEF FixedInv
  <2> QED  BY <2>1, <2>2 DEF FixedInv, RemoveLiquidity
<1>4. ASSUME NEW a \in Accounts, NEW b \in Accounts, Fixed!TransferShares(a, b)
      PROVE  FixedInv'
  <2>1. TransferShares(a, b)
    BY <1>4, FixedIsCommon
  <2>2. CommonInv'
    BY <2>1, TransferKeeps DEF FixedInv
  <2> QED  BY <2>1, <2>2 DEF FixedInv, TransferShares
<1>5. ASSUME NEW given \in 1..MaxTrade,
             Fixed!SwapExactIn(given) \/ Fixed!SwapExactOut(given)
      PROVE  FixedInv'
  <2>1. /\ UNCHANGED <<now, sale, ownership, live, shares>>
        /\ project' \in Nat /\ reserve' \in Nat
    BY <1>5, FixedTrade
  <2>2. CommonInv'
    BY <2>1, TradeKeeps DEF FixedInv
  <2> QED  BY <2>1, <2>2 DEF FixedInv
<1>6. CASE Fixed!Ownership
  <2>1. Ownership
    BY <1>6, FixedIsCommon
  <2>2. CommonInv'
    BY <2>1, OwnershipKeeps DEF FixedInv
  <2> QED  BY <2>1, <2>2 DEF FixedInv, Ownership, TransferOwnership, AcceptOwnership,
                              RenounceOwnership
<1>7. CASE Fixed!Tick
  <2>1. Tick
    BY <1>7, FixedIsCommon
  <2>2. CommonInv'
    BY <2>1, TickKeeps DEF FixedInv
  <2> QED  BY <2>1, <2>2 DEF FixedInv, Tick
<1>8. CASE UNCHANGED vars
  BY <1>8 DEF vars, FixedInv, CommonInv, TypeOKCommon, SharesSound
<1> QED  BY <1>1, <1>2, <1>3, <1>4, <1>5, <1>6, <1>7, <1>8 DEF Fixed!Next

\* What a step of the fixed-price pool does during the sale: a purchase at the
\* rate, or nothing to the balances and the supply.
LEMMA FixedSaleStep ==
    ASSUME Rates \subseteq Nat \ {0}, FixedInv, Fixed!Next, IsSwapEnabled
    PROVE  /\ live => supply' = supply
           /\ live => reserve <= reserve'
           /\ now' = now =>
                 LET gain == Fixed!Worth(project', reserve') - Fixed!Worth(project, reserve)
                 IN  gain >= 0 /\ (gain < sale.rate \/ gain < One)
<1> DEFINE Sold == LET gain == Fixed!Worth(project', reserve') - Fixed!Worth(project, reserve)
                   IN  gain >= 0 /\ (gain < sale.rate \/ gain < One)
<1>0. /\ now \in Nat /\ sale.startTime \in Nat /\ sale.endTime \in Nat
      /\ project \in Nat /\ reserve \in Nat /\ sale.rate \in Nat \ {0}
      /\ now >= sale.startTime /\ now <= sale.endTime /\ One \in Nat
  BY FixedNat DEF IsSwapEnabled
<1>a. ASSUME UNCHANGED <<sale, balances>> PROVE reserve <= reserve' /\ Sold
  <2>1. project * sale.rate \in Int /\ reserve * One \in Int
    BY <1>0
  <2>2. Fixed!Worth(project', reserve') = Fixed!Worth(project, reserve)
    BY <1>a DEF balances, Fixed!Worth
  <2>3. Fixed!Worth(project, reserve) \in Int
    BY <2>1 DEF Fixed!Worth
  <2>4. Fixed!Worth(project', reserve') - Fixed!Worth(project, reserve) = 0
    BY <2>2, <2>3
  <2> QED  BY <1>0, <1>a, <2>4 DEF balances
<1>1. ASSUME NEW a, NEW trusted, NEW p, NEW r, Fixed!InitializeFixedPrice(a, trusted, p, r)
      PROVE  FALSE
  <2>1. Initialize(a, trusted, p, r, Fixed!Invariant(p, r))
    BY <1>1, FixedIsCommon DEF Fixed!InitializeFixedPrice
  <2> QED  BY <1>0, <2>1 DEF Initialize, BeforeSale
<1>2. ASSUME NEW a, NEW trusted, NEW n, Fixed!AddLiquidity(a, trusted, n)
      PROVE  FALSE
  <2>1. AddLiquidity(a, trusted, n)
    BY <1>2, FixedIsCommon
  <2> QED  BY <1>0, <2>1 DEF AddLiquidity, BeforeSale
<1>3. ASSUME NEW a, NEW n, Fixed!RemoveLiquidity(a, n)
      PROVE  FALSE
  <2>1. RemoveLiquidity(a, n)
    BY <1>3, FixedIsCommon
  <2> QED  BY <1>0, <2>1 DEF RemoveLiquidity, RemovalBlocked
<1>4. ASSUME NEW a, NEW b, Fixed!TransferShares(a, b)
      PROVE  supply' = supply /\ reserve <= reserve' /\ Sold
  <2>1. TransferShares(a, b)
    BY <1>4, FixedIsCommon
  <2>2. supply' = supply /\ UNCHANGED <<sale, balances>>
    BY <2>1 DEF TransferShares
  <2> QED  BY <2>2, <1>a
<1>5. ASSUME NEW given \in 1..MaxTrade,
             Fixed!SwapExactIn(given) \/ Fixed!SwapExactOut(given)
      PROVE  supply' = supply /\ reserve <= reserve' /\ Sold
  BY <1>5, FixedTrade DEF shares
<1>6. ASSUME Fixed!Ownership
      PROVE  supply' = supply /\ reserve <= reserve' /\ Sold
  <2>1. Ownership
    BY <1>6, FixedIsCommon
  <2>2. supply' = supply /\ UNCHANGED <<sale, balances>>
    BY <2>1 DEF Ownership, TransferOwnership, AcceptOwnership, RenounceOwnership, shares
  <2> QED  BY <2>2, <1>a
<1>7. ASSUME Fixed!Tick
      PROVE  supply' = supply /\ reserve <= reserve' /\ Sold
  <2>1. Tick
    BY <1>7, FixedIsCommon
  <2>2. supply' = supply /\ UNCHANGED <<sale, balances>>
    BY <2>1 DEF Tick, shares
  <2> QED  BY <2>2, <1>a
<1> HIDE DEF Sold
<1>8. (supply' = supply /\ reserve <= reserve' /\ Sold)
  BY <1>1, <1>2, <1>3, <1>4, <1>5, <1>6, <1>7 DEF Fixed!Next
<1> QED  BY <1>8 DEF Sold

\* During the sale of the fixed-price pool every purchase is at the announced
\* rate, rounded against the buyer by less than a unit, for any rate and unit.
THEOREM FixedSellsAtRate ==
    ASSUME Rates \subseteq Nat \ {0}
    PROVE  Fixed!Spec => Fixed!SoldAtRate
<1>1. FixedInv /\ [Fixed!Next]_(Fixed!vars)
          => [IsSwapEnabled /\ now' = now =>
                LET gain == Fixed!Worth(project', reserve') - Fixed!Worth(project, reserve)
                IN  gain >= 0 /\ (gain < sale.rate \/ gain < One)]_(Fixed!vars)
  BY FixedSaleStep
<1>2. FixedInv /\ [Fixed!Next]_(Fixed!vars) => FixedInv'
  BY FixedNextInv DEF vars, Fixed!vars
<1>3. IsSwapEnabled <=> Fixed!IsSwapEnabled
  BY DEF IsSwapEnabled, Fixed!IsSwapEnabled
<1>4. FixedInv /\ [Fixed!Next]_(Fixed!vars)
          => [Fixed!IsSwapEnabled /\ now' = now =>
                LET gain == Fixed!Worth(project', reserve') - Fixed!Worth(project, reserve)
                IN  /\ gain >= 0
                    /\ gain < sale.rate \/ gain < One]_(Fixed!vars)
  BY <1>1, <1>3
<1>5. Fixed!Init => FixedInv
  BY FixedInitInv
<1> QED  BY <1>2, <1>4, <1>5, PTL DEF Fixed!Spec, Fixed!SoldAtRate

\* Nor does its supply of shares change during the sale ...
THEOREM FixedLiquidityStandsStill ==
    ASSUME Rates \subseteq Nat \ {0}
    PROVE  Fixed!Spec => Fixed!NoLiquidityChangeInSale
<1>1. FixedInv /\ [Fixed!Next]_(Fixed!vars)
          => [live /\ Fixed!IsSwapEnabled => supply' = supply]_(Fixed!vars)
  BY FixedSaleStep DEF IsSwapEnabled, Fixed!IsSwapEnabled
<1>2. FixedInv /\ [Fixed!Next]_(Fixed!vars) => FixedInv'
  BY FixedNextInv DEF vars, Fixed!vars
<1>3. Fixed!Init => FixedInv
  BY FixedInitInv
<1> QED  BY <1>1, <1>2, <1>3, PTL DEF Fixed!Spec, Fixed!NoLiquidityChangeInSale

\* ... and the proceeds only grow until the sale is over.
THEOREM FixedProceedsStay ==
    ASSUME Rates \subseteq Nat \ {0}
    PROVE  Fixed!Spec => Fixed!ProceedsKeptUntilEnd
<1>1. FixedInv /\ [Fixed!Next]_(Fixed!vars)
          => [live /\ now >= sale.startTime /\ now <= sale.endTime
                => reserve' >= reserve]_(Fixed!vars)
  <2> SUFFICES ASSUME FixedInv, Fixed!Next, live, now >= sale.startTime, now <= sale.endTime
               PROVE  reserve' >= reserve
    OBVIOUS
  <2>1. reserve <= reserve'
    BY FixedSaleStep DEF IsSwapEnabled
  <2> QED  BY <2>1
<1>2. FixedInv /\ [Fixed!Next]_(Fixed!vars) => FixedInv'
  BY FixedNextInv DEF vars, Fixed!vars
<1>3. Fixed!Init => FixedInv
  BY FixedInitInv
<1> QED  BY <1>1, <1>2, <1>3, PTL DEF Fixed!Spec, Fixed!ProceedsKeptUntilEnd
=============================================================================
