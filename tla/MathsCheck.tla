----------------------------- MODULE MathsCheck -----------------------------
(***************************************************************************)
(* maths/check beside the scaffolding: run.ts deploys the pool of every    *)
(* adapter, variant by variant, and records what the contracts answer;     *)
(* check.ts replays the records through the maths of each language and     *)
(* compares.  Developers edit contracts, maths and variants in between.    *)
(*                                                                         *)
(* What a pool does under one variant is a behaviour: for each kind of     *)
(* operation the amount it answers or Rejects; a contract may also be      *)
(* Broken, so that its pool cannot even be created or initialized.  The    *)
(* maths of the pool types that hooks go on is registered everywhere.      *)
(*                                                                         *)
(* An adapter is called "<name>-pool-factory" and a file of its data       *)
(* "31337-<adapter>-<variant>.json".  Both scripts find the files of an    *)
(* adapter by how their names begin, and so those of another one whose     *)
(* name goes on after "-pool-factory" too.  No variant is called so.       *)
(***************************************************************************)
EXTENDS Scaffold, Integers

CONSTANTS Langs,       \* the languages of check.ts, those of the registries
          Variants,    \* names of variants an adapter may declare
          Template,    \* the behaviour of the template and its maths
          Behaviours,  \* the behaviours an edit may lead to
          Rejects, Broken, NoData,
          Examples,    \* adapters whose name starts with an underscore
          MaxCommands, \* bounds: scripts and generations run,
          MaxEdits,    \* edits made,
          Edited       \* and the adapters whose pools are edited

\* The operations an adapter has recorded, and what may be answered to them.
Kinds == {"swap", "liquidity"}
Answered == [Kinds -> Int \cup {Rejects}]

ASSUME BehaviourAssumption == /\ Template \in Behaviours
                              /\ Behaviours \subseteq Answered
                              /\ \A r \in Requests, b \in Behaviours \cup {Broken} :
                                     [by |-> r, ops |-> b] # NoData
ASSUME LangsAssumption == "mod" \notin Langs /\ \A r \in Requests : r.langs \subseteq Langs
ASSUME VariantsAssumption == Variants # {}

VARIABLES contract,  \* for each request and variant the contract's behaviour
          maths,     \* for each language and request that of its maths
          variants,  \* the variants each adapter declares
          data,      \* the test data of each adapter and variant
          gen,       \* what the generator has yet to do
          current,   \* history: adapters whose data is as of now
          commands, edits

repoVars == <<contract, maths, variants>>
checkVars == <<data, gen, current>>
mathsVars == <<scaffoldVars, repoVars, checkVars, commands, edits>>

-----------------------------------------------------------------------------
(* The repository *)

\* The requests that stand for a pool, with an adapter of their own.
PoolRequests == {r \in Requests : r.pool # Ask}
Ids == {FactoryOf(r) : r \in PoolRequests}

\* readdirSync(ADAPTERS): the adapters there are.
Present == {id \in Ids : owner[AdapterFile(id)] # Nobody}
Adapter(id) == owner[AdapterFile(id)]

\* discoverFactories: everything but the examples, or what was asked for.
Discover(wanted) == IF wanted = {} THEN Present \ Examples ELSE Present \cap wanted

\* The files of other begin as those of id do: it is id, or its name goes on
\* after "-pool-factory".
Named(other, id) ==
    LET prefix == id \o << <<"pool">>, <<"factory">> >>
    IN other = id \/ (Len(prefix) <= Len(other) /\ SubSeq(other, 1, Len(prefix)) = prefix)

Throwing == [k \in Kinds |-> Rejects]
Everywhere(x) == [v \in Variants |-> x]

\* A scaffold starts as a copy of the template, or as a skeleton that throws.
FirstContract(r) == Everywhere(IF r.blank THEN Broken ELSE Template)
FirstMaths(r) == Everywhere(IF r.blank THEN Throwing ELSE Template)

Deploys(r, v) == owner[ContractFile(r)] = r /\ contract[r][v] # Broken

-----------------------------------------------------------------------------
(* run.ts *)

NoGen == [factories |-> {}, id |-> Nobody, todo |-> {}, clean |-> TRUE]

Generate(wanted) ==
    /\ gen = NoGen
    /\ wanted \subseteq Present
    /\ Discover(wanted) # {}
    /\ commands < MaxCommands
    /\ gen' = [NoGen EXCEPT !.factories = Discover(wanted)]
    /\ commands' = commands + 1
    /\ UNCHANGED <<scaffoldVars, repoVars, data, current, edits>>

\* Fault: the old files stay.
StartFactoryOverOldFiles ==
    /\ gen # NoGen
    /\ gen.todo = {}
    /\ \E id \in gen.factories :
         /\ gen' = [factories |-> gen.factories \ {id}, id |-> id,
                    todo |-> variants[Adapter(id)], clean |-> TRUE]
         /\ current' = {other \in current : ~Named(other, id)}
    /\ UNCHANGED <<scaffoldVars, repoVars, data, commands, edits>>

\* The next factory: the old files whose names begin as its do go first.
StartFactory ==
    /\ gen # NoGen
    /\ gen.todo = {}
    /\ \E id \in gen.factories :
         /\ gen' = [factories |-> gen.factories \ {id}, id |-> id,
                    todo |-> variants[Adapter(id)], clean |-> TRUE]
         /\ data' = [other \in Ids |->
                       IF Named(other, id) THEN Everywhere(NoData) ELSE data[other]]
         /\ current' = {other \in current : ~Named(other, id)}
    /\ UNCHANGED <<scaffoldVars, repoVars, commands, edits>>

\* Deploys, initializes, queries and writes one variant.  What the pool
\* rejects is not recorded.
GenerateVariant ==
    LET r == Adapter(gen.id)
        left(v) == gen.todo \ {v}
    IN \E v \in gen.todo :
         /\ Deploys(r, v)
         /\ data' = [data EXCEPT ![gen.id][v] = [by |-> r, ops |-> contract[r][v]]]
         /\ gen' = IF left(v) = {} /\ gen.factories = {} THEN NoGen
                   ELSE [gen EXCEPT !.todo = left(v)]
         /\ current' = IF left(v) = {} /\ gen.clean THEN current \cup {gen.id} ELSE current
         /\ UNCHANGED <<scaffoldVars, repoVars, commands, edits>>

\* An exception of the adapter or of initialize ends the generator, and so may
\* the developer at any time.
AbortGenerate ==
    /\ gen # NoGen
    /\ gen' = NoGen
    /\ UNCHANGED <<scaffoldVars, repoVars, data, current, commands, edits>>

-----------------------------------------------------------------------------
(* check.ts *)

Verdict(kind, expected, actual) ==
    IF actual = Rejects THEN "error"
    ELSE IF expected = actual THEN "exact"
    ELSE IF kind # "swap" /\ expected - actual \in {-1, 1} THEN "one-wei"
    ELSE "mismatch"

Good == {"exact", "one-wei"}

\* A runner starts when every module its registry names is there.
Starts(lang) ==
    \A e \in lines :
        e.registry = <<lang>> \/ (lang = "rs" /\ e.registry[1] = "mod")
            => owner[MathsFile(e.by, lang)] = e.by

Registered(lang, r) == Line(r, <<lang>>) \in lines

\* runMaths: a pool type that is not registered is excused, a hook type is not.
FileVerdict(lang, v, file) ==
    CASE ~Starts(lang) -> "failed"
      [] Starts(lang) /\ ~Registered(lang, file.by) ->
            IF file.by.script = "factory" THEN "not implemented" ELSE "failed"
      [] OTHER ->
            IF \A k \in {j \in Kinds : file.ops[j] # Rejects} :
                   Verdict(k, file.ops[k], maths[lang][file.by][v][k]) \in Good
            THEN "ok" ELSE "failed"

\* The files main finds for an adapter, each as <<adapter, variant>>.
Files(where, id) ==
    {f \in Ids \X Variants : Named(f[1], id) /\ where[f[1]][f[2]] # NoData}

\* main, on the data of a directory.  It runs the languages of LANGS but skips
\* one whose toolchain is missing: langs are those that ran, possibly none.
\* With no adapter at all, or no file for one, it fails.
CheckPasses(langs, wanted, where) ==
    /\ Discover(wanted) # {}
    /\ \A id \in Discover(wanted) :
         /\ Files(where, id) # {}
         /\ \A lang \in langs, f \in Files(where, id) :
              FileVerdict(lang, f[2], where[f[1]][f[2]]) # "failed"

-----------------------------------------------------------------------------
(* Developers *)

\* A scaffold that is taken back loses its edits; its test data stays.
Reset(r) ==
    /\ contract' = [contract EXCEPT ![r] = FirstContract(r)]
    /\ maths' = [l \in Langs |-> [maths[l] EXCEPT ![r] = FirstMaths(r)]]
    /\ variants' = [variants EXCEPT ![r] = Variants]
    /\ current' = current \ {FactoryOf(r)}

\* A command line of the scaffolding; it does not wait for the generator.
Scaffolding ==
    \/ /\ \/ \E r \in Requests : Run(r)
          \/ \E r \in Requests, pool \in PoolTypes : Answer(r, pool)
       /\ commands < MaxCommands
       /\ commands' = commands + 1
       /\ UNCHANGED <<repoVars, checkVars, edits>>
    \/ /\ WriteFile \/ EditRegistry \/ Crash
       /\ UNCHANGED <<repoVars, checkVars, commands, edits>>
    \/ \E r \in PoolRequests :
         /\ gen = NoGen
         /\ TakeBack(r)
         /\ Reset(r)
         /\ UNCHANGED <<data, gen, commands, edits>>

\* An edit to what the generator reads, possibly while it runs.
Outdates(id) ==
    /\ current' = current \ {id}
    /\ gen' = IF gen.id = id THEN [gen EXCEPT !.clean = FALSE] ELSE gen

EditContract(id) ==
    /\ \E v \in Variants, b \in Behaviours \cup {Broken} :
         contract' = [contract EXCEPT ![Adapter(id)][v] = b]
    /\ Outdates(id)
    /\ UNCHANGED <<maths, variants>>

EditVariants(id) ==
    /\ \E vs \in (SUBSET Variants) \ {{}} : variants' = [variants EXCEPT ![Adapter(id)] = vs]
    /\ Outdates(id)
    /\ UNCHANGED <<contract, maths>>

EditMaths(id) ==
    /\ \E l \in Adapter(id).langs, v \in Variants, b \in Behaviours :
         maths' = [maths EXCEPT ![l][Adapter(id)][v] = b]
    /\ UNCHANGED <<contract, variants, current, gen>>

Edit ==
    /\ edits < MaxEdits
    /\ edits' = edits + 1
    /\ \E id \in Present \cap Edited : EditContract(id) \/ EditVariants(id) \/ EditMaths(id)
    /\ UNCHANGED <<scaffoldVars, data, commands>>

Init ==
    /\ InitScaffold
    /\ contract = [r \in PoolRequests |-> FirstContract(r)]
    /\ maths = [l \in Langs |-> [r \in PoolRequests |-> FirstMaths(r)]]
    /\ variants = [r \in PoolRequests |-> Variants]
    /\ data = [id \in Ids |-> Everywhere(NoData)]
    /\ gen = NoGen
    /\ current = {}
    /\ commands = 0
    /\ edits = 0

Next ==
    \/ Scaffolding
    \/ \E wanted \in {{}} \cup {{id} : id \in Present} : Generate(wanted)
    \/ StartFactory
    \/ GenerateVariant
    \/ AbortGenerate
    \/ Edit

Spec == Init /\ [][Next]_mathsVars

-----------------------------------------------------------------------------
(* Properties *)

\* Within the tolerance: no difference for a swap, a unit for the rest.
Close(k, expected, actual) ==
    actual # Rejects /\ expected - actual \in (IF k = "swap" THEN {0} ELSE -1..1)

\* The maths of the given languages agrees with a contract wherever the
\* contract answers; only the maths of a pool may be missing.  Where the
\* contract rejects nothing is recorded, and what the maths does there is not
\* compared: that "both fail" is no match the check counts.
AgreesWith(langs, behaviour(_), r) ==
    \A l \in langs :
        IF Registered(l, r)
        THEN \A v \in variants[r], k \in Kinds :
                 behaviour(v)[k] # Rejects => Close(k, behaviour(v)[k], maths[l][r][v][k])
        ELSE r.script = "factory"

\* The adapters whose data a check reads: those it discovers, and those with
\* data that are found under the name of one of them.
Consulted(wanted, where) ==
    Discover(wanted) \cup {other \in Ids : /\ where[other] # Everywhere(NoData)
                                        /\ \E id \in Discover(wanted) : Named(other, id)}

\* On data generated since the last edit of contracts and variants, the check
\* passes exactly when the contracts and the maths agree, in the languages
\* that ran and for the adapters whose files it finds, for one and for all: no
\* file of a removed variant, of an earlier owner of the name or of a
\* generation that was cut short decides instead.
CurrentCheckDecides ==
    \A wanted \in {{}} \cup {{id} : id \in Present} :
        (Discover(wanted) # {} /\ Consulted(wanted, data) \subseteq current) =>
            \A langs \in SUBSET Langs :
                CheckPasses(langs, wanted, data) <=>
                    \A id \in Consulted(wanted, data) :
                        AgreesWith(langs, LAMBDA v : contract[Adapter(id)][v], Adapter(id))
=============================================================================
