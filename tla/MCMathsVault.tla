---------------------------- MODULE MCMathsVault ----------------------------
(* MathsVault for model checking: a pool of every class, at a price scale  *)
(* of a thousand units to the one; and pools of closed form.               *)
EXTENDS ClosedPools

None == [type |-> "None"]
Observer == [type |-> "Observer"]
Surge == [type |-> "StableSurge", threshold |-> 150, maxFee |-> 950]

\* A pool of two tokens without decimals to make up for and without rates.
Plain(type, balances, supply) ==
    [type |-> type, raw |-> balances, supply |-> supply, factors |-> <<1, 1>>,
     rates |-> <<Wad, Wad>>, nextRates |-> {}, swapFee |-> 10, aggregateFee |-> 500,
     unbalanced |-> TRUE, hook |-> None, protocolFee |-> 0]

Balanced == [weights |-> <<500, 500>>, minBalances |-> MinBalances(<<1, 1>>)]
Skewed   == [weights |-> <<800, 200>>, minBalances |-> MinBalances(<<1, 1>>)]

Weighted ==
    {[Plain("Weighted", <<200, 300>>, 245) EXCEPT !.hook = Observer, !.swapFee = 50,
                                                   !.aggregateFee = Wad, !.protocolFee = 150]
       @@ Balanced,
     [Plain("Weighted", <<400, 100>>, 300) EXCEPT !.swapFee = 0, !.unbalanced = FALSE]
       @@ Skewed}

\* The fees of the third are such that the surge hook, which does not see them,
\* lets an addition leave the pool less balanced than it was.
Stable ==
    {Plain("Stable", <<300, 250>>, 550) @@ [amp |-> 20 * AmpPrecision],
     [Plain("Stable", <<260, 200>>, 460) EXCEPT !.hook = Surge] @@ [amp |-> 5 * AmpPrecision],
     [Plain("Stable", <<160, 201>>, 361) EXCEPT !.hook = [Surge EXCEPT !.threshold = 50],
                                               !.swapFee = 100, !.aggregateFee = Wad]
       @@ [amp |-> 5 * AmpPrecision],
     [Plain("Stable", <<200, 180>>, 400) EXCEPT !.rates = <<Wad, 1150>>,
                                               !.nextRates = {<<Wad, 1250>>}]
       @@ [amp |-> 10 * AmpPrecision]}

Linear ==
    {[Plain("Sum", <<120, 300>>, 600) EXCEPT !.swapFee = 0] @@ [rate |-> 2700],
     [Plain("FixedLBP", <<200, 40>>, 240) EXCEPT !.unbalanced = FALSE]
       @@ [rate |-> 1500, project |-> 1, swapEnabled |-> TRUE],
     [Plain("Buffer", <<200, 200>>, 400) EXCEPT !.unbalanced = FALSE]
       @@ [rate |-> 1300, maxDeposit |-> 60, maxMint |-> 50]}

\* A sale whose weights cross from 80% to 20% in two ticks.
Sale ==
    {[Plain("LBP", <<300, 200>>, 250) EXCEPT !.unbalanced = FALSE]
       @@ [startWeight |-> 800, endWeight |-> 200, startTime |-> 0, endTime |-> 2, now |-> 0,
           project |-> 1, swapEnabled |-> TRUE, projectInBlocked |-> blocked,
           minBalances |-> MinBalances(<<1, 1>>)] : blocked \in BOOLEAN}

\* One pool at rest out of its range, and one whose range is being widened.
ReClamm ==
    {[Plain("ReClamm", <<300, 20>>, 400) EXCEPT !.unbalanced = FALSE, !.swapFee = 0]
       @@ [virtual |-> <<150, 150>>, lastTimestamp |-> 0, startRatio |-> 1300,
           endRatio |-> ratio, startTime |-> 0, endTime |-> 2, margin |-> 200,
           shiftBase |-> 900, now |-> 0] : ratio \in {1300, 1700}}

AllPools == Weighted \cup Stable \cup Linear \cup Sale \cup ReClamm

\* The second token has a decimal less than the first.
FewerDecimals ==
    {[Plain("Weighted", <<200, 30>>, 245)
        EXCEPT !.factors = <<1, 10>>, !.hook = Observer, !.swapFee = 300]
       @@ [weights |-> <<500, 500>>, minBalances |-> MinBalances(<<1, 10>>)]}

\* The pools the proofs are about: those of AllPools that are, the others
\* without unbalanced liquidity, and two with decimals and changing rates.
WithRates(p) ==
    [p EXCEPT !.rates = <<1100, 1233>>, !.nextRates = {<<1210, 1000>>}, !.factors = <<1, 3>>,
              !.unbalanced = FALSE]

FewerTerms ==
    {[p EXCEPT !.unbalanced = FALSE] :
        p \in {q \in AllPools : q.type \in {"Sum", "FixedLBP", "Buffer", "ReClamm"}
                                \/ (q.type = "Weighted" /\ q.weights = Balanced.weights)}}
    \cup {WithRates([Plain("Sum", <<120, 300>>, 600) EXCEPT !.swapFee = 70]) @@ [rate |-> 2700],
          WithRates(Plain("Weighted", <<200, 300>>, 245)) @@ Balanced}

ASSUME FewerTermsAssumption == \A p \in FewerTerms : ClosedForm(p)

EveryPool == AllPools \cup FewerTerms
=============================================================================
