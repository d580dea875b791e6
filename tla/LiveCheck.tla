------------------------------ MODULE LiveCheck ------------------------------
(***************************************************************************)
(* scripts/live/check.ts, the part on behaviour: on a fork of the chain    *)
(* every active factory of the deployments file that has an adapter        *)
(* creates the adapter's variants, the answers of the live contracts are   *)
(* recorded, and check.ts replays them.  An adapter is found by the name   *)
(* of the factory's contract in kebab case.  Nobody edits the repository   *)
(* meanwhile.  The comparison of bytecodes is left out.                    *)
(*                                                                         *)
(* A name is a sequence of words and a word a sequence of syllables: the   *)
(* name ReClamm is <<re>>, <<clamm>>, the adapter reclamm <<re, clamm>>.   *)
(***************************************************************************)
EXTENDS MathsCheck

CONSTANTS Listings,  \* the deployments file: a sequence of records with the
                     \* name, suffixed (it ends in PoolFactory), address, active
          OnChain,   \* for each address the pool's request and what it does
          Initials   \* the words of a single capital letter

\* A live pool answers as any pool does, or cannot be created.
ASSUME ChainAssumption ==
    \A i \in DOMAIN Listings :
        LET does == OnChain[Listings[i].address].does
        IN  /\ does \in Answered \cup {Broken}
            /\ \A r \in Requests : [by |-> r, ops |-> does] # NoData

VARIABLE live  \* the live check that runs: what it has yet to do, and the data
               \* in its own directory, which the next one clears

liveVars == <<mathsVars, live>>

-----------------------------------------------------------------------------

\* loadDeployments: active ones, each address once.
Deployed ==
    {i \in DOMAIN Listings :
        /\ Listings[i].active
        /\ \A j \in 1..(i - 1) :
             Listings[j].active => Listings[j].address # Listings[i].address}

\* kebab breaks a name where a capital follows a lower-case letter or a digit,
\* so a word of one capital letter stays with the next.
Kebab(name) ==
    LET words == Append(name, <<"pool">>)
        k[n \in 1..Len(words)] ==
            IF n = 1 THEN <<words[1]>>
            ELSE IF words[n - 1] \in Initials
                 THEN [k[n - 1] EXCEPT ![Len(k[n - 1])] = @ \o words[n]]
                 ELSE Append(k[n - 1], words[n])
    IN k[Len(words)]

\* The adapter of a listing, if there is a file of that name.
AdapterOf(i) == {id \in Present : Append(id, <<"pool">>) = Kebab(Listings[i].name)}

Factories == {i \in Deployed : Listings[i].suffixed /\ AdapterOf(i) # {}}

IdOf(i) == CHOOSE id \in AdapterOf(i) : TRUE
Does(i) == OnChain[Listings[i].address].does

NoLive == [factories |-> {}, todo |-> {}, ok |-> TRUE, on |-> FALSE, data |-> <<>>]

Idle == live = NoLive

-----------------------------------------------------------------------------

\* What FACTORIES leaves of them, all when it is not set.
Selected(wanted) == {i \in Factories : wanted = {} \/ IdOf(i) \in wanted}

Recording(factories) ==
    [factories |-> factories, ok |-> TRUE, on |-> TRUE,
     todo |-> {iv \in factories \X Variants : iv[2] \in variants[Adapter(IdOf(iv[1]))]},
     data |-> [id \in Ids |-> Everywhere(NoData)]]

\* checkBehaviour up to the first factory.  When none is selected it passes at
\* once, and has compared nothing.
LiveStart(wanted) ==
    /\ Idle
    /\ commands < MaxCommands
    /\ commands' = commands + 1
    /\ live' = IF Selected(wanted) = {} THEN NoLive ELSE Recording(Selected(wanted))
    /\ UNCHANGED <<scaffoldVars, repoVars, checkVars, edits>>

\* One variant on the next factory: its file is named for the adapter and the
\* variant, and an exception is noted.
LiveVariant ==
    \E iv \in live.todo :
        LET i == iv[1]  v == iv[2]
            recorded == [by |-> Adapter(IdOf(i)), ops |-> Does(i)]
        IN /\ \A jw \in live.todo : i <= jw[1]
           /\ \/ /\ Does(i) # Broken
                 /\ live' = [live EXCEPT !.todo = @ \ {iv}, !.data[IdOf(i)][v] = recorded]
              \/ live' = [live EXCEPT !.todo = @ \ {iv}, !.ok = FALSE]
           /\ UNCHANGED mathsVars

\* Fault: the variants that could not be created are forgotten.
LivePassesOnReplay(langs) == CheckPasses(langs, {IdOf(i) : i \in live.factories}, live.data)

\* The same check as maths:check, on this data and in the languages that run.
LivePasses(langs) ==
    live.ok /\ CheckPasses(langs, {IdOf(i) : i \in live.factories}, live.data)

LiveReplay ==
    /\ live.on
    /\ live.todo = {}
    /\ live' = NoLive
    /\ UNCHANGED mathsVars

LiveInit == Init /\ live = NoLive

LiveNext ==
    \/ Idle /\ Next /\ UNCHANGED live
    \/ \E wanted \in {{}} \cup {{id} : id \in Present} : LiveStart(wanted)
    \/ LiveVariant
    \/ LiveReplay

LiveSpec == LiveInit /\ [][LiveNext]_liveVars

-----------------------------------------------------------------------------
(* Properties *)

LiveAgrees(langs, i) ==
    AgreesWith(langs, LAMBDA v : Does(i), OnChain[Listings[i].address].pool)

\* A live check that passes has compared each factory it selected with the
\* maths of that very factory, in the languages that ran, unless two of them
\* have one name.
PassedLiveAgrees ==
    [][LiveReplay =>
          \A langs \in SUBSET Langs, i \in live.factories :
              (LivePasses(langs) /\ \A j \in live.factories : IdOf(j) = IdOf(i) => j = i)
                  => LiveAgrees(langs, i)]_liveVars

\* What the script says of itself: "for every live factory with a maths/check
\* adapter: create pools through the live factory ... and replay the results
\* through the maths" (scripts/live/check.ts:8-11), when neither FACTORIES nor a
\* missing toolchain narrows it down.
EveryLiveFactoryAgrees ==
    [][(LiveReplay /\ live.factories = Factories /\ LivePasses(Langs)) =>
          \A i \in Deployed :
              LET pool == OnChain[Listings[i].address].pool
              IN owner[AdapterFile(FactoryOf(pool))] = pool => LiveAgrees(Langs, i)]_liveVars
=============================================================================
