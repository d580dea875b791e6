------------------------------ MODULE Scaffold ------------------------------
(***************************************************************************)
(* scripts/new-factory.js and scripts/new-hook.js: a command line plans    *)
(* the files it creates and the new texts of the registries it edits, is   *)
(* refused when one of them is taken, and otherwise writes first all the   *)
(* files and then all the registries, one at a time.  It may be killed     *)
(* between any two writes; a developer may take a scaffold back.           *)
(*                                                                         *)
(* A request is a command line: script ("factory" or "hook"), name (a      *)
(* sequence of words), pool (the pool type a hook goes on, or Ask), langs, *)
(* blank and dryRun.  A write replaces a whole file and is atomic; two     *)
(* scripts do not write at the same time.  The order of the files among    *)
(* themselves is left open.                                                *)
(***************************************************************************)
EXTENDS Sequences, Naturals

CONSTANTS Requests,   \* the command lines that may be given
          Installed,  \* the pools the repository has from the start
          PoolTypes,  \* POOLS, the pool types a hook may go on
          Ask,        \* the pool of a hook whose --pool was left out
          Nobody      \* the owner of a file that does not exist

VARIABLES owner,      \* for each path the request whose content it has
          lines,      \* the lines of all registries, with their requests
          job         \* what the script that runs has yet to write

scaffoldVars == <<owner, lines, job>>

-----------------------------------------------------------------------------
(* What a request stands for *)

\* A hook's factory is named for the pool too: a hook "X" on weighted pools
\* and a pool "XWeighted" have one name.
FactoryOf(r) == IF r.script = "hook" THEN Append(r.name, r.pool) ELSE r.name

\* The sources of the maths in a language, a module of their own.
MathsFile(r, lang) == <<"maths", lang, r.script, r.name>>

\* The contracts and their test.
ContractFile(r) == <<"contract", r.script, r.name>>

\* The adapter and the docs.
AdapterFile(id) == <<"adapter", id>>

Writes(r) ==
    {ContractFile(r), AdapterFile(FactoryOf(r))} \cup {MathsFile(r, l) : l \in r.langs}

\* The registry of a runner, where pools and hooks share the keys.  Rust lists
\* its modules as well, in a file for pools and one for hooks.
ModuleList(r) == <<"mod", r.script>>

Registries(r) ==
    {<<l>> : l \in r.langs} \cup IF "rs" \in r.langs THEN {ModuleList(r)} ELSE {}

\* Fault: the list of modules is edited last.
ModulesLast(g, h) == h[1] = "mod" /\ g = <<"rs">>

\* The list of modules is edited before the registry that uses them.
Precedes(g, h) == g[1] = "mod" /\ h = <<"rs">>

Line(r, registry) == [registry |-> registry, key |-> r.name, by |-> r]

Paths == UNION {Writes(r) : r \in Requests}

TextOf(registry) == {e \in lines : e.registry = registry}

\* Fault: only the files are looked at.
RefusedForFile(r) == \E p \in Writes(r) : owner[p] # Nobody

\* Fault: only the registries are looked at.
RefusedForKey(r) == \E e \in lines : e.registry \in Registries(r) /\ e.key = r.name

\* The refusals: a file that exists, or a key that is registered already.
Refused(r) ==
    \/ \E p \in Writes(r) : owner[p] # Nobody
    \/ \E e \in lines : e.registry \in Registries(r) /\ e.key = r.name

\* Nobody is no request, and what is installed collides nowhere.
ASSUME RequestAssumption ==
    \A r \in Requests :
        r = [script |-> r.script, name |-> r.name, pool |-> r.pool, langs |-> r.langs,
             blank |-> r.blank, dryRun |-> r.dryRun]
ASSUME AskAssumption == Ask \notin PoolTypes /\ \A r \in Installed : r.pool # Ask
ASSUME NobodyAssumption == Nobody \notin Requests
ASSUME InstalledAssumption ==
    /\ Installed \subseteq Requests
    /\ \A r, s \in Installed :
         r # s => /\ Writes(r) \cap Writes(s) = {}
                  /\ Registries(r) \cap Registries(s) # {} => r.name # s.name

-----------------------------------------------------------------------------
(* The scripts *)

NoJob == [request |-> Nobody, todo |-> {}, texts |-> {}]

\* The new texts are computed from what the registries hold now.
JobOf(r) ==
    [request |-> r, todo |-> Writes(r),
     texts |-> {[registry |-> g, text |-> TextOf(g) \cup {Line(r, g)}] : g \in Registries(r)}]

OwnedBy(p, r) == r \in Installed /\ p \in Writes(r)

InitScaffold ==
    /\ owner = [p \in Paths |->
                  IF \E r \in Requests : OwnedBy(p, r)
                  THEN CHOOSE r \in Requests : OwnedBy(p, r) ELSE Nobody]
    /\ lines = UNION {{Line(r, g) : g \in Registries(r)} : r \in Installed}
    /\ job = NoJob

\* main, up to the first write.
Plan(r) ==
    /\ job = NoJob
    /\ ~Refused(r)
    /\ ~r.dryRun
    /\ job' = JobOf(r)
    /\ UNCHANGED <<owner, lines>>

Run(r) == r.pool # Ask /\ Plan(r)

\* choosePool asks when --pool was not given, before anything is read: however
\* long the answer takes, what counts is the repository it finds.
Answer(r, pool) ==
    LET chosen == [r EXCEPT !.pool = pool]
    IN r.pool = Ask /\ chosen \in Requests /\ Plan(chosen)

WriteFile ==
    /\ job # NoJob
    /\ \E p \in job.todo :
         /\ owner' = [owner EXCEPT ![p] = job.request]
         /\ job' = [job EXCEPT !.todo = @ \ {p}]
    /\ UNCHANGED lines

\* Writes a text as it was planned; the last one ends the script.
EditRegistry ==
    /\ job # NoJob
    /\ job.todo = {}
    /\ \E t \in job.texts :
         /\ \A u \in job.texts : ~Precedes(u.registry, t.registry)
         /\ lines' = (lines \ TextOf(t.registry)) \cup t.text
         /\ job' = IF job.texts = {t} THEN NoJob ELSE [job EXCEPT !.texts = @ \ {t}]
    /\ UNCHANGED owner

Crash ==
    /\ job # NoJob
    /\ job' = NoJob
    /\ UNCHANGED <<owner, lines>>

\* A developer takes back what a request left, files and lines.
TakeBack(r) ==
    /\ job = NoJob
    /\ r \notin Installed
    /\ \E p \in Paths : owner[p] = r
    /\ owner' = [p \in Paths |-> IF owner[p] = r THEN Nobody ELSE owner[p]]
    /\ lines' = {e \in lines : e.by # r}
    /\ UNCHANGED job

ScaffoldNext ==
    \/ \E r \in Requests : Run(r) \/ TakeBack(r)
    \/ \E r \in Requests, pool \in PoolTypes : Answer(r, pool)
    \/ WriteFile
    \/ EditRegistry
    \/ Crash

ScaffoldSpec == InitScaffold /\ [][ScaffoldNext]_scaffoldVars

-----------------------------------------------------------------------------
(* Properties *)

\* Whatever is registered exists: every file of a request with a line in some
\* registry is there and is its own, and a module the Rust registry uses is
\* listed, also when the script was killed half way.  A registry that names a
\* missing module breaks its language for every pool.
RegisteredHasFiles ==
    \A e \in lines :
        /\ \A p \in Writes(e.by) : owner[p] = e.by
        /\ e.registry = <<"rs">> => Line(e.by, ModuleList(e.by)) \in lines

\* No registry has a key twice, pools and hooks together.
KeysUnique ==
    \A e, f \in lines : (e.registry = f.registry /\ e.key = f.key) => e.by = f.by

\* No script replaces a file of another scaffold or loses its registration: a
\* file or a line goes only when its own scaffold is taken back altogether.
NothingOverwritten ==
    [][/\ \A p \in Paths : owner[p] # Nobody => owner'[p] \in {owner[p], Nobody}
       /\ \A e \in lines \ lines' : \A p \in Paths : owner'[p] # e.by]_scaffoldVars
=============================================================================
