------------------------------ MODULE MCTooling ------------------------------
(* A pool Old in two languages, a hook Old, which shares a key in one of     *)
(* them, and a pool OldWeighted, which shares its adapter's name with the    *)
(* hook.  Old is short for StablePoolFactoryOld, so that the names of their  *)
(* adapters all go on after "stable-pool-factory".                           *)
EXTENDS LiveCheck, TLC

Request(script, name, pool, langs, blank, dryRun) ==
    [script |-> script, name |-> name, pool |-> pool, langs |-> langs,
     blank |-> blank, dryRun |-> dryRun]

OnWeighted == <<"weighted">>
Old == << <<"stable">>, <<"pool">>, <<"factory">>, <<"old">> >>

PoolOld == Request("factory", Old, Nobody, {"ts", "rs"}, FALSE, FALSE)
HookOld == Request("hook", Old, OnWeighted, {"ts"}, FALSE, FALSE)
AskedOld == [HookOld EXCEPT !.pool = Ask]
PoolOldWeighted == Request("factory", Append(Old, OnWeighted), Nobody, {"rs"}, TRUE, FALSE)
DryOld == [PoolOld EXCEPT !.dryRun = TRUE]

Stable == Request("factory", << <<"stable">> >>, Nobody, {"ts", "rs"}, FALSE, FALSE)
ReClamm == Request("factory", << <<"re", "clamm">> >>, Nobody, {"ts"}, FALSE, FALSE)
ConstantSum == Request("factory", << <<"_template">> >>, Nobody, {"ts", "rs"}, FALSE, FALSE)

AllRequests == {PoolOld, HookOld, AskedOld, PoolOldWeighted, DryOld, Stable, ConstantSum}
StartingPools == {Stable, ConstantSum}
StableOnly == {Stable.name}
TemplateOnly == {<< <<"_template">> >>}
Offered == {OnWeighted}
OneCapital == {<<"x">>}

\* A difference of a unit, which only a swap must not have, and a pool that
\* takes no liquidity.
Answers == [swap |-> 5, liquidity |-> 5]
OffByOne == {Answers, [Answers EXCEPT !.liquidity = 6], [swap |-> 6, liquidity |-> Rejects]}

AnyOrder == Permutations(Variants)

Listing(name, suffixed, address, active) ==
    [name |-> name, suffixed |-> suffixed, address |-> address, active |-> active]

\* A stable factory that is off by a unit and no longer active, another one
\* listed twice, the pool Old, which has an adapter once it was scaffolded, and
\* XStable, whose name in kebab case is that of no adapter.
TheListings ==
    << Listing(<< <<"stable">> >>, TRUE, 1, FALSE),
       Listing(<< <<"stable">> >>, TRUE, 2, TRUE),
       Listing(<< <<"stable">> >>, TRUE, 2, TRUE),
       Listing(Old, TRUE, 3, TRUE),
       Listing(<< <<"x">>, <<"stable">> >>, TRUE, 4, TRUE) >>

TheChain ==
    [a \in 1..4 |->
        [pool |-> IF a = 3 THEN PoolOld ELSE Stable,
         does |-> IF a = 1 THEN [Answers EXCEPT !.swap = 6] ELSE Answers]]

\* The deployed ReClamm pool is off by a unit; its adapter is called reclamm.
Deployable == {Stable, ReClamm}

ReClammListings ==
    << Listing(<< <<"stable">> >>, TRUE, 1, TRUE),
       Listing(<< <<"re">>, <<"clamm">> >>, TRUE, 2, TRUE) >>

ReClammChain ==
    << [pool |-> Stable, does |-> Answers],
       [pool |-> ReClamm, does |-> [Answers EXCEPT !.swap = 6]] >>
=============================================================================
