---------------------------- MODULE Tooling_proofs ----------------------------
(***************************************************************************)
(* The safety of the tooling, for any command lines, any pools that are    *)
(* installed without a collision, any variants and any number of crashes,  *)
(* commands and edits.  First the scaffolding by itself; then the checks:  *)
(* the generator, the check, the live check and the developers' edits do   *)
(* to the files and registries only what the scaffolding does.             *)
(***************************************************************************)
EXTENDS LiveCheck, TLAPS

TextFor(r, g) == [registry |-> g, text |-> TextOf(g) \cup {Line(r, g)}]

LinesTyped ==
    \A e \in lines : e.by \in Requests /\ e.registry \in Registries(e.by) /\ e = Line(e.by, e.registry)

FilesThere == \A e \in lines : \A p \in Writes(e.by) : owner[p] = e.by

ModulesListed == \A e \in lines : e.registry = <<"rs">> => Line(e.by, ModuleList(e.by)) \in lines

\* What is yet to be written is free, what is written stands, and a text is
\* still the registry as it is with the line of the request.
JobSound ==
    job # NoJob =>
        /\ job = [request |-> job.request, todo |-> job.todo, texts |-> job.texts]
        /\ job.request \in Requests
        /\ job.todo \subseteq Writes(job.request)
        /\ \A p \in job.todo : owner[p] = Nobody
        /\ \A p \in Writes(job.request) \ job.todo : owner[p] = job.request
        /\ \A t \in job.texts :
             /\ t.registry \in Registries(job.request)
             /\ t = TextFor(job.request, t.registry)
             /\ \A e \in lines : e.registry = t.registry => e.key # job.request.name
        /\ \A g \in Registries(job.request) :
             g = ModuleList(job.request) /\ (\A t \in job.texts : t.registry # g)
                 => Line(job.request, g) \in lines

OwnerTyped == owner \in [Paths -> Requests \cup {Nobody}]

ScaffoldInv ==
    /\ OwnerTyped /\ LinesTyped /\ FilesThere /\ ModulesListed /\ KeysUnique /\ JobSound

-----------------------------------------------------------------------------

\* The fields of a line.
LEMMA LineFields ==
    ASSUME NEW r, NEW g
    PROVE  Line(r, g).registry = g /\ Line(r, g).key = r.name /\ Line(r, g).by = r
  BY DEF Line

\* Every file of a request is a path.
LEMMA WritesArePaths == ASSUME NEW r \in Requests PROVE Writes(r) \subseteq Paths
  BY DEF Paths

\* Whoever edits the Rust registry lists a module too.
LEMMA RustListsModules ==
    ASSUME NEW r, <<"rs">> \in Registries(r)
    PROVE  ModuleList(r) \in Registries(r)
  <1>1. ModuleList(r) # <<"rs">>
    BY DEF ModuleList
  <1>2. "rs" \in r.langs
    BY <1>1 DEF Registries
  <1> QED
    BY <1>2 DEF Registries

\* Writing a text as planned adds one line and loses none.
LEMMA TextAddsLine ==
    ASSUME NEW r, NEW g
    PROVE  (lines \ TextOf(g)) \cup TextFor(r, g).text = lines \cup {Line(r, g)}
  BY DEF TextFor, TextOf

LEMMA InitInv == InitScaffold => ScaffoldInv
  <1> SUFFICES ASSUME InitScaffold PROVE ScaffoldInv
    OBVIOUS
  <1> USE DEF InitScaffold
  <1>1. ASSUME NEW e \in lines
        PROVE  /\ e.by \in Installed
               /\ e.by \in Requests
               /\ e.registry \in Registries(e.by)
               /\ e = Line(e.by, e.registry)
    <2>1. PICK r \in Installed : e \in {Line(r, g) : g \in Registries(r)}
      BY <1>1
    <2>2. PICK g \in Registries(r) : e = Line(r, g)
      BY <2>1
    <2> QED
      BY <2>2, LineFields, InstalledAssumption
  <1>2. ASSUME NEW r \in Installed, NEW p \in Writes(r)
        PROVE  owner[p] = r
    <2>1. r \in Requests /\ p \in Paths /\ OwnedBy(p, r)
      BY WritesArePaths, InstalledAssumption DEF OwnedBy
    <2>2. \A s \in Requests : OwnedBy(p, s) => s = r
      BY InstalledAssumption DEF OwnedBy
    <2>3. (CHOOSE s \in Requests : OwnedBy(p, s)) = r
      BY <2>1, <2>2
    <2> QED
      BY <2>1, <2>3
  <1>3. OwnerTyped
    <2> SUFFICES ASSUME NEW p \in Paths
                 PROVE  (IF \E r \in Requests : OwnedBy(p, r)
                         THEN CHOOSE r \in Requests : OwnedBy(p, r) ELSE Nobody)
                            \in Requests \cup {Nobody}
      BY DEF OwnerTyped
    <2> QED
      OBVIOUS
  <1>4. LinesTyped
    BY <1>1 DEF LinesTyped
  <1>5. FilesThere
    BY <1>1, <1>2 DEF FilesThere
  <1>6. ModulesListed
    <2> SUFFICES ASSUME NEW e \in lines, e.registry = <<"rs">>
                 PROVE  Line(e.by, ModuleList(e.by)) \in lines
      BY DEF ModulesListed
    <2>1. e.by \in Installed /\ ModuleList(e.by) \in Registries(e.by)
      BY <1>1, RustListsModules
    <2> QED
      BY <2>1
  <1>7. KeysUnique
    <2> SUFFICES ASSUME NEW e \in lines, NEW f \in lines,
                        e.registry = f.registry, e.key = f.key
                 PROVE  e.by = f.by
      BY DEF KeysUnique
    <2>1. e.key = e.by.name /\ f.key = f.by.name
      BY <1>1, LineFields
    <2>2. Registries(e.by) \cap Registries(f.by) # {}
      BY <1>1
    <2> QED
      BY <1>1, <2>1, <2>2, InstalledAssumption
  <1>8. JobSound
    BY DEF JobSound
  <1> QED
    BY <1>3, <1>4, <1>5, <1>6, <1>7, <1>8 DEF ScaffoldInv

-----------------------------------------------------------------------------

LEMMA PlanInv ==
    ASSUME ScaffoldInv, NEW r \in Requests, Plan(r)
    PROVE  ScaffoldInv'
  <1>1. owner' = owner /\ lines' = lines /\ job' = JobOf(r) /\ ~Refused(r)
    BY DEF Plan
  <1>2. /\ \A p \in Writes(r) : owner[p] = Nobody
        /\ \A e \in lines : e.registry \in Registries(r) => e.key # r.name
    BY <1>1 DEF Refused
  <1>3. (OwnerTyped /\ LinesTyped /\ FilesThere /\ ModulesListed /\ KeysUnique)'
    BY <1>1 DEF ScaffoldInv, OwnerTyped, LinesTyped, FilesThere, ModulesListed, KeysUnique
  <1>4. JobSound'
    <2> DEFINE j == JobOf(r)
    <2>1. /\ j.request = r /\ j.todo = Writes(r)
          /\ j = [request |-> j.request, todo |-> j.todo, texts |-> j.texts]
      BY DEF JobOf
    <2>2. j.texts = {TextFor(r, g) : g \in Registries(r)}
      BY DEF JobOf, TextFor
    <2>3. \A g : TextOf(g)' = TextOf(g)
      BY <1>1 DEF TextOf
    <2>4. \A g : TextFor(r, g)' = TextFor(r, g)
      BY <2>3 DEF TextFor
    <2>5. ASSUME NEW t \in j.texts
          PROVE  /\ t.registry \in Registries(r)
                 /\ t = TextFor(r, t.registry)
                 /\ \A e \in lines : e.registry = t.registry => e.key # r.name
      <3>1. PICK g \in Registries(r) : t = TextFor(r, g)
        BY <2>2, <2>5
      <3>2. t.registry = g
        BY <3>1 DEF TextFor
      <3> QED
        BY <3>1, <3>2, <1>2
    <2>6. ASSUME NEW g \in Registries(r)
          PROVE  \E t \in j.texts : t.registry = g
      <3>1. TextFor(r, g) \in j.texts /\ TextFor(r, g).registry = g
        BY <2>2, <2>6 DEF TextFor
      <3> QED
        BY <3>1
    <2> HIDE DEF j
    <2>7. job' = j
      BY <1>1 DEF j
    <2>8. \A t \in j.texts : t = TextFor(r, t.registry)'
      BY <2>4, <2>5
    <2> QED
      BY <1>1, <1>2, <2>1, <2>5, <2>6, <2>7, <2>8 DEF JobSound
  <1> QED
    BY <1>3, <1>4 DEF ScaffoldInv

\* A line stays with its files as long as they stay.
LEMMA WriteFileInv == ASSUME ScaffoldInv, WriteFile PROVE ScaffoldInv'
  <1> USE DEF ScaffoldInv
  <1>1. PICK p \in job.todo :
           /\ owner' = [owner EXCEPT ![p] = job.request]
           /\ job' = [job EXCEPT !.todo = @ \ {p}]
    BY DEF WriteFile
  <1>2. lines' = lines /\ job # NoJob
    BY DEF WriteFile
  <1>3. job.request \in Requests /\ p \in Writes(job.request) /\ owner[p] = Nobody
    BY <1>2 DEF JobSound
  <1>4. p \in Paths
    BY <1>3, WritesArePaths
  <1>5. \A q \in Paths : owner'[q] = IF q = p THEN job.request ELSE owner[q]
    BY <1>1, <1>4 DEF OwnerTyped
  <1>6. (OwnerTyped /\ LinesTyped /\ ModulesListed /\ KeysUnique)'
    BY <1>1, <1>2, <1>3 DEF OwnerTyped, LinesTyped, ModulesListed, KeysUnique
  <1>7. FilesThere'
    <2> SUFFICES ASSUME NEW e \in lines, NEW q \in Writes(e.by)
                 PROVE  owner'[q] = e.by
      BY <1>2 DEF FilesThere
    <2>1. owner[q] = e.by /\ e.by \in Requests /\ q \in Paths
      BY WritesArePaths DEF FilesThere, LinesTyped
    <2>2. q # p
      BY <2>1, <1>3, NobodyAssumption
    <2> QED
      BY <2>1, <2>2, <1>5
  <1>8. JobSound'
    <2>1. /\ job'.request = job.request
          /\ job'.todo = job.todo \ {p}
          /\ job'.texts = job.texts
          /\ job' = [request |-> job'.request, todo |-> job'.todo, texts |-> job'.texts]
      BY <1>1, <1>2 DEF JobSound
    <2>2. \A r, g : TextFor(r, g)' = TextFor(r, g)
      BY <1>2 DEF TextFor, TextOf
    <2>3. \A q \in job.todo \ {p} : owner'[q] = Nobody
      <3> SUFFICES ASSUME NEW q \in job.todo \ {p} PROVE owner'[q] = Nobody
        OBVIOUS
      <3>1. q \in Paths /\ owner[q] = Nobody
        BY <1>2, <1>3, WritesArePaths DEF JobSound
      <3> QED
        BY <3>1, <1>5
    <2>4. \A q \in Writes(job.request) \ (job.todo \ {p}) : owner'[q] = job.request
      <3> SUFFICES ASSUME NEW q \in Writes(job.request) \ (job.todo \ {p})
                   PROVE  owner'[q] = job.request
        OBVIOUS
      <3>1. q \in Paths /\ (q # p => owner[q] = job.request)
        BY <1>2, <1>3, WritesArePaths DEF JobSound
      <3> QED
        BY <3>1, <1>5
    <2>5. /\ job.todo \ {p} \subseteq Writes(job.request)
          /\ \A t \in job.texts :
               /\ t.registry \in Registries(job.request)
               /\ t = TextFor(job.request, t.registry)
               /\ \A e \in lines : e.registry = t.registry => e.key # job.request.name
          /\ \A g \in Registries(job.request) :
               g = ModuleList(job.request) /\ (\A t \in job.texts : t.registry # g)
                   => Line(job.request, g) \in lines
      BY <1>2 DEF JobSound
    <2> QED
      BY <1>2, <1>3, <2>1, <2>2, <2>3, <2>4, <2>5 DEF JobSound
  <1> QED
    BY <1>6, <1>7, <1>8

LEMMA EditRegistryInv == ASSUME ScaffoldInv, EditRegistry PROVE ScaffoldInv'
  <1> USE DEF ScaffoldInv
  <1>r. PICK r : r = job.request
    OBVIOUS
  <1>1. PICK t \in job.texts :
           /\ \A u \in job.texts : ~Precedes(u.registry, t.registry)
           /\ lines' = (lines \ TextOf(t.registry)) \cup t.text
           /\ job' = IF job.texts = {t} THEN NoJob ELSE [job EXCEPT !.texts = @ \ {t}]
    BY DEF EditRegistry
  <1>g. PICK g : g = t.registry
    OBVIOUS
  <1>2. owner' = owner /\ job # NoJob /\ job.todo = {}
    BY DEF EditRegistry
  <1>3. /\ r \in Requests /\ g \in Registries(r) /\ t = TextFor(r, g)
        /\ \A e \in lines : e.registry = g => e.key # r.name
        /\ \A p \in Writes(r) : owner[p] = r
    BY <1>1, <1>2, <1>r, <1>g DEF JobSound
  <1>4. lines' = lines \cup {Line(r, g)}
    BY <1>1, <1>3, <1>g, TextAddsLine
  <1>5. Line(r, g).registry = g /\ Line(r, g).key = r.name /\ Line(r, g).by = r
    BY LineFields
  <1>6. OwnerTyped' /\ LinesTyped' /\ FilesThere'
    BY <1>2, <1>3, <1>4, <1>5 DEF OwnerTyped, LinesTyped, FilesThere
  <1>7. ModulesListed'
    <2>1. ASSUME g = <<"rs">>
          PROVE  Line(r, ModuleList(r)) \in lines
      <3>1. ModuleList(r) \in Registries(r)
        BY <1>3, <2>1, RustListsModules
      <3>2. \A u \in job.texts : u.registry # ModuleList(r)
        <4>1. ModuleList(r)[1] = "mod"
          BY DEF ModuleList
        <4> QED
          BY <1>1, <1>g, <2>1, <4>1 DEF Precedes
      <3> QED
        BY <1>2, <1>r, <3>1, <3>2 DEF JobSound
    <2> QED
      BY <1>4, <1>5, <2>1 DEF ModulesListed
  <1>8. KeysUnique'
    BY <1>3, <1>4, <1>5 DEF KeysUnique
  <1>9. JobSound'
    <2> SUFFICES ASSUME job.texts # {t} PROVE JobSound'
      BY <1>1 DEF JobSound
    <2>1. /\ job'.request = r
          /\ job'.todo = {}
          /\ job'.texts = job.texts \ {t}
          /\ job' = [request |-> job'.request, todo |-> job'.todo, texts |-> job'.texts]
      BY <1>1, <1>2, <1>r DEF JobSound
    <2>2. ASSUME NEW u \in job.texts \ {t}
          PROVE  /\ u.registry \in Registries(r)
                 /\ u = TextFor(r, u.registry)'
                 /\ \A e \in lines' : e.registry = u.registry => e.key # r.name
      <3>1. /\ u.registry \in Registries(r) /\ u = TextFor(r, u.registry)
            /\ \A e \in lines : e.registry = u.registry => e.key # r.name
        BY <1>2, <1>r DEF JobSound
      <3>2. u.registry # g
        BY <1>3, <3>1
      <3>3. TextOf(u.registry)' = TextOf(u.registry)
        BY <1>4, <1>5, <3>2 DEF TextOf
      <3>4. TextFor(r, u.registry)' = TextFor(r, u.registry)
        BY <3>3 DEF TextFor
      <3> QED
        BY <1>4, <1>5, <3>1, <3>2, <3>4
    <2>3. ASSUME NEW h \in Registries(r), h = ModuleList(r), \A u \in job.texts \ {t} : u.registry # h
          PROVE  Line(r, h) \in lines'
      <3>1. CASE h = g
        BY <1>4, <3>1
      <3>2. CASE h # g
        <4>1. \A u \in job.texts : u.registry # h
          BY <1>g, <2>3, <3>2
        <4> QED
          BY <1>2, <1>4, <1>r, <2>3, <4>1 DEF JobSound
      <3> QED
        BY <3>1, <3>2
    <2>4. \A p \in Writes(r) : owner'[p] = r
      BY <1>2, <1>3
    <2> QED
      BY <1>3, <2>1, <2>2, <2>3, <2>4 DEF JobSound
  <1> QED
    BY <1>6, <1>7, <1>8, <1>9

LEMMA TakeBackInv == ASSUME ScaffoldInv, NEW r \in Requests, TakeBack(r) PROVE ScaffoldInv'
  <1> USE DEF ScaffoldInv
  <1>1. /\ owner' = [p \in Paths |-> IF owner[p] = r THEN Nobody ELSE owner[p]]
        /\ lines' = {e \in lines : e.by # r}
        /\ job' = NoJob
    BY DEF TakeBack
  <1>2. OwnerTyped' /\ LinesTyped' /\ KeysUnique' /\ JobSound'
    BY <1>1 DEF OwnerTyped, LinesTyped, KeysUnique, JobSound
  <1>3. FilesThere'
    <2> SUFFICES ASSUME NEW e \in lines', NEW p \in Writes(e.by) PROVE owner'[p] = e.by
      BY DEF FilesThere
    <2>1. e \in lines /\ e.by # r /\ p \in Paths /\ owner[p] = e.by
      BY <1>1, WritesArePaths DEF LinesTyped, FilesThere
    <2> QED
      BY <1>1, <2>1
  <1>4. ModulesListed'
    BY <1>1, LineFields DEF ModulesListed
  <1> QED
    BY <1>2, <1>3, <1>4

LEMMA StepInv == ScaffoldInv /\ [ScaffoldNext]_scaffoldVars => ScaffoldInv'
  <1> SUFFICES ASSUME ScaffoldInv, [ScaffoldNext]_scaffoldVars PROVE ScaffoldInv'
    OBVIOUS
  <1>1. ASSUME NEW r \in Requests, Run(r) PROVE ScaffoldInv'
    BY <1>1, PlanInv DEF Run
  <1>2. ASSUME NEW r \in Requests, NEW pool \in PoolTypes, Answer(r, pool) PROVE ScaffoldInv'
    BY <1>2, PlanInv DEF Answer
  <1>3. ASSUME NEW r \in Requests, TakeBack(r) PROVE ScaffoldInv'
    BY <1>3, TakeBackInv
  <1>4. ASSUME Crash PROVE ScaffoldInv'
    BY <1>4 DEF Crash, ScaffoldInv, OwnerTyped, LinesTyped, FilesThere, ModulesListed, KeysUnique, JobSound
  <1>5. ASSUME UNCHANGED scaffoldVars PROVE ScaffoldInv'
    <2>1. owner' = owner /\ lines' = lines /\ job' = job
      BY <1>5 DEF scaffoldVars
    <2>2. JobSound'
      <3>1. \A r, g : TextFor(r, g)' = TextFor(r, g)
        BY <2>1 DEF TextFor, TextOf
      <3> QED
        BY <2>1, <3>1 DEF ScaffoldInv, JobSound
    <2> QED
      BY <2>1, <2>2 DEF ScaffoldInv, OwnerTyped, LinesTyped, FilesThere, ModulesListed, KeysUnique
  <1> QED
    BY <1>1, <1>2, <1>3, <1>4, <1>5, WriteFileInv, EditRegistryInv DEF ScaffoldNext

\* The inductive invariant holds for all command lines and installed pools.
THEOREM Invariance == ScaffoldSpec => []ScaffoldInv
  BY InitInv, StepInv, PTL DEF ScaffoldSpec

\* Whatever a registry names exists, also after a script was killed.
THEOREM RegisteredFiles == ScaffoldSpec => []RegisteredHasFiles
  <1>1. ScaffoldInv => RegisteredHasFiles
    BY DEF ScaffoldInv, FilesThere, ModulesListed, RegisteredHasFiles
  <1> QED
    BY <1>1, Invariance, PTL

\* No registry ever has a key twice.
THEOREM UniqueKeys == ScaffoldSpec => []KeysUnique
  <1>1. ScaffoldInv => KeysUnique
    BY DEF ScaffoldInv
  <1> QED
    BY <1>1, Invariance, PTL

\* No file of another scaffold is replaced, and no registration is lost but
\* with all the files of its scaffold.
THEOREM Kept == ScaffoldSpec => NothingOverwritten
  <1> DEFINE Keeps ==
        /\ \A p \in Paths : owner[p] # Nobody => owner'[p] \in {owner[p], Nobody}
        /\ \A e \in lines \ lines' : \A p \in Paths : owner'[p] # e.by
  <1>1. ASSUME ScaffoldInv, WriteFile PROVE Keeps
    <2>1. PICK p \in job.todo : owner' = [owner EXCEPT ![p] = job.request]
      BY <1>1 DEF WriteFile
    <2>2. owner[p] = Nobody /\ lines' = lines
      BY <1>1 DEF WriteFile, ScaffoldInv, JobSound
    <2> QED
      BY <1>1, <2>1, <2>2 DEF ScaffoldInv, OwnerTyped
  <1>2. ASSUME ScaffoldInv, EditRegistry PROVE Keeps
    <2>1. PICK t \in job.texts : lines' = (lines \ TextOf(t.registry)) \cup t.text
      BY <1>2 DEF EditRegistry
    <2>2. t = TextFor(job.request, t.registry)
      BY <1>2 DEF EditRegistry, ScaffoldInv, JobSound
    <2>3. lines \subseteq lines'
      BY <2>1, <2>2, TextAddsLine
    <2> QED
      BY <1>2, <2>3 DEF EditRegistry
  <1>3. ASSUME ScaffoldInv, NEW r \in Requests, TakeBack(r) PROVE Keeps
    <2>1. /\ owner' = [p \in Paths |-> IF owner[p] = r THEN Nobody ELSE owner[p]]
          /\ \A e \in lines \ lines' : e.by = r
      BY <1>3 DEF TakeBack
    <2> QED
      BY <2>1, NobodyAssumption
  <1>4. ASSUME NEW r \in Requests, Run(r) PROVE Keeps
    BY <1>4 DEF Run, Plan
  <1>5. ASSUME NEW r \in Requests, NEW pool \in PoolTypes, Answer(r, pool) PROVE Keeps
    BY <1>5 DEF Answer, Plan
  <1>6. ASSUME Crash PROVE Keeps
    BY <1>6 DEF Crash
  <1>7. ASSUME ScaffoldInv, [ScaffoldNext]_scaffoldVars PROVE [Keeps]_scaffoldVars
    BY <1>1, <1>2, <1>3, <1>4, <1>5, <1>6, <1>7 DEF ScaffoldNext
  <1> QED
    BY <1>7, Invariance, PTL DEF ScaffoldSpec, NothingOverwritten

-----------------------------------------------------------------------------
(* The checks implement the scaffolding. *)

LEMMA NextScaffolds == ASSUME Next PROVE [ScaffoldNext]_scaffoldVars
  <1>1. ASSUME Scaffolding PROVE [ScaffoldNext]_scaffoldVars
    <2>1. \A r \in PoolRequests : r \in Requests
      BY DEF PoolRequests
    <2> QED
      BY <1>1, <2>1 DEF Scaffolding, ScaffoldNext
  <1>2. ASSUME NEW wanted, Generate(wanted) PROVE UNCHANGED scaffoldVars
    BY <1>2 DEF Generate
  <1>3. ASSUME StartFactory PROVE UNCHANGED scaffoldVars
    BY <1>3 DEF StartFactory
  <1>4. ASSUME GenerateVariant PROVE UNCHANGED scaffoldVars
    BY <1>4 DEF GenerateVariant
  <1>5. ASSUME AbortGenerate PROVE UNCHANGED scaffoldVars
    BY <1>5 DEF AbortGenerate
  <1>6. ASSUME Edit PROVE UNCHANGED scaffoldVars
    BY <1>6 DEF Edit
  <1> QED
    BY <1>1, <1>2, <1>3, <1>4, <1>5, <1>6 DEF Next

LEMMA LiveNextScaffolds == ASSUME [LiveNext]_liveVars PROVE [ScaffoldNext]_scaffoldVars
  <1>1. ASSUME UNCHANGED mathsVars PROVE UNCHANGED scaffoldVars
    BY <1>1 DEF mathsVars
  <1>2. ASSUME NEW wanted, LiveStart(wanted) PROVE UNCHANGED scaffoldVars
    BY <1>2 DEF LiveStart
  <1>3. ASSUME LiveVariant PROVE UNCHANGED scaffoldVars
    BY <1>1, <1>3 DEF LiveVariant
  <1>4. ASSUME LiveReplay PROVE UNCHANGED scaffoldVars
    BY <1>1, <1>4 DEF LiveReplay
  <1>5. ASSUME UNCHANGED liveVars PROVE UNCHANGED scaffoldVars
    BY <1>1, <1>5 DEF liveVars
  <1> QED
    BY <1>2, <1>3, <1>4, <1>5, NextScaffolds DEF LiveNext

\* The whole tooling implements the scaffolding.
THEOREM Implements == LiveSpec => ScaffoldSpec
  <1>1. LiveInit => InitScaffold
    BY DEF LiveInit, Init
  <1> QED
    BY <1>1, LiveNextScaffolds, PTL DEF LiveSpec, ScaffoldSpec

\* Beside generations, checks and edits, too: what a registry names exists, no
\* registry has a key twice, and nothing is overwritten.
THEOREM ToolingSafe == LiveSpec => []RegisteredHasFiles /\ []KeysUnique /\ NothingOverwritten
  BY Implements, RegisteredFiles, UniqueKeys, Kept

-----------------------------------------------------------------------------
(* Whose the files are. *)

OwnersWrote ==
    /\ \A p \in Paths : owner[p] # Nobody => p \in Writes(owner[p]) /\ owner[p].pool # Ask
    /\ job # NoJob => job.request.pool # Ask

LEMMA InitOwners == InitScaffold => OwnersWrote
  <1> SUFFICES ASSUME InitScaffold, NEW p \in Paths, owner[p] # Nobody
               PROVE  p \in Writes(owner[p]) /\ owner[p].pool # Ask
    BY DEF OwnersWrote, InitScaffold
  <1>1. owner[p] = IF \E r \in Requests : OwnedBy(p, r)
                   THEN CHOOSE r \in Requests : OwnedBy(p, r) ELSE Nobody
    BY DEF InitScaffold
  <1>2. OwnedBy(p, owner[p])
    BY <1>1
  <1> QED
    BY <1>2, AskAssumption DEF OwnedBy

LEMMA StepOwners ==
    ScaffoldInv /\ OwnersWrote /\ [ScaffoldNext]_scaffoldVars => OwnersWrote'
  <1> SUFFICES ASSUME ScaffoldInv, OwnersWrote, [ScaffoldNext]_scaffoldVars PROVE OwnersWrote'
    OBVIOUS
  <1>0. ASSUME NEW r \in Requests, r.pool # Ask, Plan(r) PROVE OwnersWrote'
    BY <1>0 DEF Plan, JobOf, OwnersWrote
  <1>1. ASSUME NEW r \in Requests, Run(r) PROVE OwnersWrote'
    BY <1>0, <1>1 DEF Run
  <1>2. ASSUME NEW r \in Requests, NEW pool \in PoolTypes, Answer(r, pool) PROVE OwnersWrote'
    <2> DEFINE chosen == [r EXCEPT !.pool = pool]
    <2>1. chosen.pool = pool
      BY RequestAssumption
    <2> QED
      BY <1>0, <1>2, <2>1, AskAssumption DEF Answer
  <1>3. ASSUME NEW r \in Requests, TakeBack(r) PROVE OwnersWrote'
    <2>1. \A p \in Paths : owner'[p] # Nobody => owner'[p] = owner[p]
      BY <1>3 DEF TakeBack
    <2> QED
      BY <1>3, <2>1 DEF OwnersWrote, TakeBack
  <1>4. ASSUME WriteFile PROVE OwnersWrote'
    <2>1. PICK p \in job.todo : /\ owner' = [owner EXCEPT ![p] = job.request]
                                /\ job' = [job EXCEPT !.todo = @ \ {p}]
      BY <1>4 DEF WriteFile
    <2>2. /\ job = [request |-> job.request, todo |-> job.todo, texts |-> job.texts]
          /\ p \in Writes(job.request)
      BY <1>4 DEF WriteFile, ScaffoldInv, JobSound
    <2>3. job'.request = job.request
      BY <2>1, <2>2
    <2>4. \A q \in Paths : owner'[q] = IF q = p THEN job.request ELSE owner[q]
      BY <2>1 DEF ScaffoldInv, OwnerTyped
    <2>5. job.request.pool # Ask
      BY <1>4 DEF WriteFile, OwnersWrote
    <2> QED
      BY <2>2, <2>3, <2>4, <2>5 DEF OwnersWrote
  <1>5. ASSUME EditRegistry PROVE OwnersWrote'
    <2>1. PICK t \in job.texts :
              job' = IF job.texts = {t} THEN NoJob ELSE [job EXCEPT !.texts = @ \ {t}]
      BY <1>5 DEF EditRegistry
    <2>2. job = [request |-> job.request, todo |-> job.todo, texts |-> job.texts]
      BY <1>5 DEF EditRegistry, ScaffoldInv, JobSound
    <2>3. job' = NoJob \/ job'.request = job.request
      BY <2>1, <2>2
    <2> QED
      BY <1>5, <2>3 DEF EditRegistry, OwnersWrote
  <1>6. ASSUME Crash PROVE OwnersWrote'
    BY <1>6 DEF Crash, OwnersWrote
  <1>7. ASSUME UNCHANGED scaffoldVars PROVE OwnersWrote'
    BY <1>7 DEF scaffoldVars, OwnersWrote
  <1> QED
    BY <1>1, <1>2, <1>3, <1>4, <1>5, <1>6, <1>7 DEF ScaffoldNext

\* An adapter is its own factory's: its owner is a pool with that name.
LEMMA AdapterOwner ==
    ASSUME ScaffoldInv, OwnersWrote, NEW id \in Present
    PROVE  /\ id \in Ids /\ AdapterFile(id) \in Paths
           /\ Adapter(id) \in PoolRequests
           /\ FactoryOf(Adapter(id)) = id
  <1>1. id \in Ids /\ owner[AdapterFile(id)] # Nobody
    BY DEF Present
  <1>2. AdapterFile(id) \in Paths
    <2>1. PICK r \in PoolRequests : id = FactoryOf(r)
      BY <1>1 DEF Ids
    <2> QED
      BY <2>1 DEF Paths, PoolRequests, Writes
  <1> DEFINE r == Adapter(id)
  <1>3. r \in Requests /\ AdapterFile(id) \in Writes(r) /\ r.pool # Ask
    BY <1>1, <1>2 DEF Adapter, ScaffoldInv, OwnerTyped, OwnersWrote
  <1>4. AdapterFile(id) = AdapterFile(FactoryOf(r))
    BY <1>3 DEF Writes, AdapterFile, ContractFile, MathsFile
  <1>5. FactoryOf(r) = id
    BY <1>4 DEF AdapterFile
  <1> QED
    BY <1>1, <1>2, <1>3, <1>5 DEF PoolRequests

-----------------------------------------------------------------------------
(* Test data and contracts. *)

Records == [by : PoolRequests, ops : Behaviours]

ReposTyped ==
    /\ contract \in [PoolRequests -> [Variants -> Behaviours \cup {Broken}]]
    /\ maths \in [Langs -> [PoolRequests -> [Variants -> Behaviours \cup {Throwing}]]]
    /\ variants \in [PoolRequests -> (SUBSET Variants) \ {{}}]

DataTyped == data \in [Ids -> [Variants -> Records \cup {NoData}]]

\* The data of an adapter is what its contracts do now, variant by variant for
\* those done, and none for the others.
Recorded(id, done) ==
    \A v \in Variants :
        data[id][v] = IF v \in done
                      THEN [by |-> Adapter(id), ops |-> contract[Adapter(id)][v]]
                      ELSE NoData

CurrentSound == \A id \in current : id \in Present /\ Recorded(id, variants[Adapter(id)])

\* The generator works on adapters that are there, and unless one was edited
\* what it has written of it is current.
GenSound ==
    /\ gen = [factories |-> gen.factories, id |-> gen.id, todo |-> gen.todo,
              clean |-> gen.clean]
    /\ gen.factories \subseteq Present
    /\ gen.todo # {} =>
         /\ gen.id \in Present
         /\ gen.id \notin current
         /\ gen.todo \subseteq Variants
         /\ gen.clean => /\ gen.todo \subseteq variants[Adapter(gen.id)]
                         /\ Recorded(gen.id, variants[Adapter(gen.id)] \ gen.todo)

FilesInv == ScaffoldInv /\ OwnersWrote
CheckInv == FilesInv /\ ReposTyped /\ DataTyped /\ CurrentSound /\ GenSound

LEMMA NoGenFields ==
    /\ NoGen.factories = {} /\ NoGen.todo = {}
    /\ NoGen = [factories |-> NoGen.factories, id |-> NoGen.id, todo |-> NoGen.todo,
                clean |-> NoGen.clean]
  BY DEF NoGen

LEMMA FirstTyped ==
    ASSUME NEW r
    PROVE  /\ FirstContract(r) \in [Variants -> Behaviours \cup {Broken}]
           /\ FirstMaths(r) \in [Variants -> Behaviours \cup {Throwing}]
           /\ Variants \in (SUBSET Variants) \ {{}}
  BY BehaviourAssumption, VariantsAssumption DEF FirstContract, FirstMaths, Everywhere

LEMMA InitCheckInv == Init => CheckInv
  <1> SUFFICES ASSUME Init PROVE CheckInv
    OBVIOUS
  <1>1. FilesInv
    BY InitInv, InitOwners DEF Init, FilesInv
  <1>2. ReposTyped
    BY FirstTyped DEF Init, ReposTyped
  <1>3. DataTyped
    BY DEF Init, DataTyped, Everywhere
  <1>4. CurrentSound
    BY DEF Init, CurrentSound
  <1>5. GenSound
    BY NoGenFields DEF Init, GenSound
  <1> QED
    BY <1>1, <1>2, <1>3, <1>4, <1>5 DEF CheckInv

\* What is known of an adapter that is there.
LEMMA AdapterTyped ==
    ASSUME CheckInv, NEW id \in Present
    PROVE  /\ id \in Ids
           /\ Adapter(id) \in PoolRequests /\ FactoryOf(Adapter(id)) = id
           /\ variants[Adapter(id)] \subseteq Variants /\ variants[Adapter(id)] # {}
  <1>1. /\ id \in Ids
        /\ Adapter(id) \in PoolRequests /\ FactoryOf(Adapter(id)) = id
    BY AdapterOwner DEF CheckInv, FilesInv
  <1> QED
    BY <1>1 DEF CheckInv, ReposTyped

\* Adapters that are there stay as long as nothing is taken back.
LEMMA AdaptersStay ==
    ASSUME CheckInv, \A p \in Paths : owner[p] # Nobody => owner'[p] = owner[p],
           NEW id \in Present
    PROVE  id \in Present' /\ Adapter(id)' = Adapter(id)
  <1>1. AdapterFile(id) \in Paths /\ id \in Ids
    BY AdapterOwner DEF CheckInv, FilesInv
  <1> QED
    BY <1>1 DEF Present, Adapter

\* A step that leaves contracts, data and generator alone.
LEMMA FilesFrame ==
    ASSUME CheckInv, FilesInv', \A p \in Paths : owner[p] # Nobody => owner'[p] = owner[p],
           UNCHANGED repoVars, UNCHANGED checkVars
    PROVE  CheckInv'
  <1>1. /\ contract' = contract /\ maths' = maths /\ variants' = variants
        /\ data' = data /\ gen' = gen /\ current' = current
    BY DEF repoVars, checkVars
  <1>2. \A id \in Present : id \in Present' /\ Adapter(id)' = Adapter(id)
    BY AdaptersStay
  <1>3. ASSUME NEW id \in Present, NEW done, Recorded(id, done)
        PROVE  Recorded(id, done)'
    BY <1>1, <1>2, <1>3 DEF Recorded
  <1>4. ReposTyped' /\ DataTyped'
    BY <1>1 DEF CheckInv, ReposTyped, DataTyped
  <1>5. CurrentSound'
    BY <1>1, <1>2, <1>3 DEF CheckInv, CurrentSound
  <1>6. GenSound'
    BY <1>1, <1>2, <1>3 DEF CheckInv, GenSound
  <1> QED
    BY <1>4, <1>5, <1>6 DEF CheckInv

\* Taking back what a request left, which the generator waits for.
LEMMA TakeBackCheck ==
    ASSUME CheckInv, FilesInv', NEW r \in PoolRequests, gen = NoGen, TakeBack(r), Reset(r),
           UNCHANGED <<data, gen>>
    PROVE  CheckInv'
  <1>1. /\ owner' = [p \in Paths |-> IF owner[p] = r THEN Nobody ELSE owner[p]]
        /\ data' = data /\ gen' = gen /\ gen = NoGen
        /\ current' = current \ {FactoryOf(r)}
        /\ contract' = [contract EXCEPT ![r] = FirstContract(r)]
        /\ maths' = [l \in Langs |-> [maths[l] EXCEPT ![r] = FirstMaths(r)]]
        /\ variants' = [variants EXCEPT ![r] = Variants]
    BY DEF TakeBack, Reset
  <1>2. ReposTyped'
    BY <1>1, FirstTyped DEF CheckInv, ReposTyped
  <1>3. DataTyped'
    BY <1>1 DEF CheckInv, DataTyped
  <1>4. CurrentSound'
    <2> SUFFICES ASSUME NEW id \in current'
                 PROVE  id \in Present' /\ Recorded(id, variants[Adapter(id)])'
      BY DEF CurrentSound
    <2>1. id \in current /\ id # FactoryOf(r)
      BY <1>1
    <2>2. id \in Present /\ Recorded(id, variants[Adapter(id)])
      BY <2>1 DEF CheckInv, CurrentSound
    <2>3. /\ id \in Ids /\ AdapterFile(id) \in Paths
          /\ Adapter(id) \in PoolRequests /\ FactoryOf(Adapter(id)) = id
      BY <2>2, AdapterOwner DEF CheckInv, FilesInv
    <2>4. Adapter(id) # r
      BY <2>1, <2>3
    <2>5. owner'[AdapterFile(id)] = owner[AdapterFile(id)] /\ Adapter(id)' = Adapter(id)
      BY <1>1, <2>3, <2>4 DEF Adapter
    <2>6. id \in Present'
      BY <2>2, <2>5 DEF Present
    <2>7. /\ contract'[Adapter(id)] = contract[Adapter(id)]
          /\ variants'[Adapter(id)] = variants[Adapter(id)]
      BY <1>1, <2>3, <2>4 DEF CheckInv, ReposTyped
    <2> QED
      BY <1>1, <2>2, <2>5, <2>6, <2>7 DEF Recorded
  <1>5. GenSound'
    BY <1>1, NoGenFields DEF GenSound
  <1> QED
    BY <1>2, <1>3, <1>4, <1>5 DEF CheckInv

\* What a step keeps that leaves owners and contracts alone.
LEMMA SameAdapters ==
    ASSUME UNCHANGED owner
    PROVE  Present' = Present /\ \A id : Adapter(id)' = Adapter(id)
  BY DEF Present, Adapter

LEMMA GenerateCheck == ASSUME CheckInv, FilesInv', NEW wanted, Generate(wanted) PROVE CheckInv'
  <1> DEFINE g == [NoGen EXCEPT !.factories = Discover(wanted)]
  <1>1. /\ owner' = owner /\ contract' = contract /\ maths' = maths /\ variants' = variants
        /\ data' = data /\ current' = current /\ gen' = g
    BY DEF Generate, scaffoldVars, repoVars
  <1>2. /\ g.todo = {} /\ g.factories = Discover(wanted)
        /\ g = [factories |-> g.factories, id |-> g.id, todo |-> g.todo, clean |-> g.clean]
    BY NoGenFields
  <1> HIDE DEF g
  <1>3. Discover(wanted) \subseteq Present
    BY DEF Discover
  <1>4. Present' = Present /\ \A id : Adapter(id)' = Adapter(id)
    BY <1>1, SameAdapters
  <1>5. ReposTyped' /\ DataTyped'
    BY <1>1 DEF CheckInv, ReposTyped, DataTyped
  <1>6. CurrentSound'
    BY <1>1, <1>4 DEF CheckInv, CurrentSound, Recorded
  <1>7. GenSound'
    BY <1>1, <1>2, <1>3, <1>4 DEF GenSound
  <1> QED
    BY <1>5, <1>6, <1>7 DEF CheckInv

LEMMA StartFactoryCheck == ASSUME CheckInv, FilesInv', StartFactory PROVE CheckInv'
  <1>1. PICK id \in gen.factories :
           /\ gen' = [factories |-> gen.factories \ {id}, id |-> id,
                      todo |-> variants[Adapter(id)], clean |-> TRUE]
           /\ data' = [other \in Ids |->
                         IF Named(other, id) THEN Everywhere(NoData) ELSE data[other]]
           /\ current' = {other \in current : ~Named(other, id)}
    BY DEF StartFactory
  <1>2. owner' = owner /\ contract' = contract /\ maths' = maths /\ variants' = variants
    BY DEF StartFactory, scaffoldVars, repoVars
  <1>3. Present' = Present /\ \A i : Adapter(i)' = Adapter(i)
    BY <1>2, SameAdapters
  <1>4. id \in Present /\ gen.factories \subseteq Present
    BY <1>1 DEF CheckInv, GenSound
  <1>5. id \in Ids /\ variants[Adapter(id)] \subseteq Variants
    BY <1>4, AdapterTyped
  <1>6. \A i \in Ids :
            data'[i] = IF Named(i, id) THEN [v \in Variants |-> NoData] ELSE data[i]
    BY <1>1 DEF Everywhere
  <1>n. Named(id, id)
    BY DEF Named
  <1>7. ReposTyped'
    BY <1>2 DEF CheckInv, ReposTyped
  <1>8. DataTyped'
    BY <1>1 DEF CheckInv, DataTyped, Everywhere
  <1>9. CurrentSound'
    <2> SUFFICES ASSUME NEW i \in current'
                 PROVE  i \in Present' /\ Recorded(i, variants[Adapter(i)])'
      BY DEF CurrentSound
    <2>1. i \in current /\ ~Named(i, id)
      BY <1>1
    <2>2. i \in Present /\ Recorded(i, variants[Adapter(i)])
      BY <2>1 DEF CheckInv, CurrentSound
    <2>3. i \in Ids
      BY <2>2 DEF Present
    <2>4. data'[i] = data[i]
      BY <1>6, <2>1, <2>3
    <2> QED
      BY <1>2, <1>3, <2>2, <2>4 DEF Recorded
  <1>10. GenSound'
    <2>1. Recorded(id, {})'
      BY <1>5, <1>6, <1>n DEF Recorded
    <2>2. /\ gen'.factories = gen.factories \ {id} /\ gen'.id = id
          /\ gen'.todo = variants[Adapter(id)] /\ gen'.clean = TRUE
          /\ gen' = [factories |-> gen'.factories, id |-> gen'.id, todo |-> gen'.todo,
                     clean |-> gen'.clean]
      BY <1>1
    <2>3. variants[Adapter(id)] \ variants[Adapter(id)] = {}
      OBVIOUS
    <2>4. id \notin current'
      BY <1>1, <1>n
    <2>5. Recorded(id, variants[Adapter(id)] \ variants[Adapter(id)])'
      BY <2>1, <2>3 DEF Recorded
    <2> QED
      BY <1>2, <1>3, <1>4, <1>5, <2>2, <2>4, <2>5 DEF GenSound
  <1> QED
    BY <1>7, <1>8, <1>9, <1>10 DEF CheckInv

LEMMA GenerateVariantCheck == ASSUME CheckInv, FilesInv', GenerateVariant PROVE CheckInv'
  <1>0. PICK id, r : id = gen.id /\ r = Adapter(id)
    OBVIOUS
  <1>1. PICK v \in gen.todo :
           /\ Deploys(r, v)
           /\ data' = [data EXCEPT ![id][v] = [by |-> r, ops |-> contract[r][v]]]
           /\ gen' = IF gen.todo \ {v} = {} /\ gen.factories = {} THEN NoGen
                     ELSE [gen EXCEPT !.todo = gen.todo \ {v}]
           /\ current' = IF gen.todo \ {v} = {} /\ gen.clean THEN current \cup {id}
                         ELSE current
    BY <1>0 DEF GenerateVariant
  <1>2. owner' = owner /\ contract' = contract /\ maths' = maths /\ variants' = variants
    BY DEF GenerateVariant, scaffoldVars, repoVars
  <1>3. Present' = Present /\ \A i : Adapter(i)' = Adapter(i)
    BY <1>2, SameAdapters
  <1>4. /\ id \in Present /\ id \notin current /\ gen.todo \subseteq Variants /\ v \in Variants
        /\ gen.factories \subseteq Present
        /\ gen.clean => /\ gen.todo \subseteq variants[r]
                        /\ Recorded(id, variants[r] \ gen.todo)
        /\ gen = [factories |-> gen.factories, id |-> gen.id, todo |-> gen.todo,
                  clean |-> gen.clean]
    BY <1>0, <1>1 DEF CheckInv, GenSound
  <1>5. id \in Ids /\ r \in PoolRequests
    BY <1>0, <1>4, AdapterTyped
  <1>6. contract[r][v] \in Behaviours
    BY <1>1, <1>4, <1>5 DEF Deploys, CheckInv, ReposTyped
  <1>7. /\ data'[id] = [data[id] EXCEPT ![v] = [by |-> r, ops |-> contract[r][v]]]
        /\ \A i \in Ids : i # id => data'[i] = data[i]
        /\ data[id] \in [Variants -> Records \cup {NoData}]
    BY <1>1, <1>5 DEF CheckInv, DataTyped
  <1>8. \A w \in Variants : data'[id][w] = IF w = v THEN [by |-> r, ops |-> contract[r][v]]
                                           ELSE data[id][w]
    BY <1>7
  <1>s. PICK all, left : all = variants[r] /\ left = gen.todo \ {v}
    OBVIOUS
  <1>9. ReposTyped'
    BY <1>2 DEF CheckInv, ReposTyped
  <1>10. DataTyped'
    <2>1. [by |-> r, ops |-> contract[r][v]] \in Records
      BY <1>5, <1>6 DEF Records
    <2>2. data'[id] \in [Variants -> Records \cup {NoData}]
      BY <1>7, <2>1
    <2> QED
      BY <1>1, <1>5, <1>7, <2>2 DEF CheckInv, DataTyped
  <1>11. \A i \in Present : i # id => \A done : Recorded(i, done) => Recorded(i, done)'
    <2>1. \A i \in Present : i \in Ids
      BY DEF Present
    <2> QED
      BY <1>2, <1>3, <1>7, <2>1 DEF Recorded
  <1>12. gen.clean => Recorded(id, all \ left)'
    <2> SUFFICES ASSUME gen.clean, NEW w \in Variants
                 PROVE  data'[id][w] = IF w \in all \ left
                                       THEN [by |-> r, ops |-> contract[r][w]] ELSE NoData
      BY <1>0, <1>2, <1>3 DEF Recorded
    <2>1. data[id][w] = IF w \in all \ gen.todo
                        THEN [by |-> r, ops |-> contract[r][w]] ELSE NoData
      BY <1>0, <1>s, <1>4 DEF Recorded
    <2>2. v \in all
      BY <1>1, <1>s, <1>4
    <2>3. CASE w = v
      BY <1>8, <1>s, <2>2, <2>3
    <2>4. CASE w # v
      BY <1>8, <1>s, <2>1, <2>4
    <2> QED
      BY <2>3, <2>4
  <1>a. all = (variants[Adapter(id)])'
    BY <1>0, <1>s, <1>2, <1>3
  <1>13. CurrentSound'
    <2> SUFFICES ASSUME NEW i \in current'
                 PROVE  i \in Present' /\ Recorded(i, variants[Adapter(i)])'
      BY DEF CurrentSound
    <2>1. CASE i \in current
      BY <1>2, <1>3, <1>4, <1>11, <2>1 DEF CheckInv, CurrentSound
    <2>2. CASE i \notin current
      <3>1. i = id /\ left = {} /\ gen.clean
        BY <1>1, <1>s, <2>2
      <3>2. all \ left = all
        BY <3>1
      <3>3. Recorded(id, all)'
        BY <1>12, <3>1, <3>2
      <3> QED
        BY <1>a, <1>3, <1>4, <3>1, <3>3 DEF Recorded
    <2> QED
      BY <2>1, <2>2
  <1>14. GenSound'
    <2>1. CASE gen' = NoGen
      BY <2>1, NoGenFields DEF GenSound
    <2>2. CASE gen' # NoGen
      <3>1. gen' = [gen EXCEPT !.todo = left]
        BY <1>1, <1>s, <2>2
      <3>2. /\ gen'.factories = gen.factories /\ gen'.id = id
            /\ gen'.todo = left /\ gen'.clean = gen.clean
            /\ gen' = [factories |-> gen'.factories, id |-> gen'.id, todo |-> gen'.todo,
                       clean |-> gen'.clean]
        BY <1>0, <1>4, <3>1
      <3>3. left # {} => id \notin current'
        BY <1>1, <1>s, <1>4
      <3>4. gen'.clean => /\ gen'.todo \subseteq (variants[Adapter(gen.id)])'
                          /\ (Recorded(gen.id, variants[Adapter(gen.id)] \ gen.todo))'
        <4> SUFFICES ASSUME gen.clean
                     PROVE  left \subseteq all /\ (Recorded(id, all \ left))'
          BY <1>a, <3>2 DEF Recorded
        <4> QED
          BY <1>4, <1>s, <1>12
      <3> QED
        BY <1>s, <1>3, <1>4, <3>2, <3>3, <3>4 DEF GenSound
    <2> QED
      BY <2>1, <2>2
  <1> QED
    BY <1>9, <1>10, <1>13, <1>14 DEF CheckInv

LEMMA AbortCheck == ASSUME CheckInv, FilesInv', AbortGenerate PROVE CheckInv'
  <1>1. /\ owner' = owner /\ contract' = contract /\ maths' = maths /\ variants' = variants
        /\ data' = data /\ current' = current /\ gen' = NoGen
    BY DEF AbortGenerate, scaffoldVars, repoVars
  <1>2. Present' = Present /\ \A id : Adapter(id)' = Adapter(id)
    BY <1>1, SameAdapters
  <1>3. ReposTyped' /\ DataTyped'
    BY <1>1 DEF CheckInv, ReposTyped, DataTyped
  <1>4. CurrentSound'
    BY <1>1, <1>2 DEF CheckInv, CurrentSound, Recorded
  <1>5. GenSound'
    BY <1>1, NoGenFields DEF GenSound
  <1> QED
    BY <1>3, <1>4, <1>5 DEF CheckInv

\* An edit to the contracts or variants of an adapter, which outdates its data.
LEMMA OutdatingCheck ==
    ASSUME CheckInv, FilesInv', UNCHANGED owner, UNCHANGED data, ReposTyped',
           NEW id \in Present, Outdates(id),
           \A r \in PoolRequests : r # Adapter(id) =>
               contract'[r] = contract[r] /\ variants'[r] = variants[r]
    PROVE  CheckInv'
  <1>1. /\ current' = current \ {id}
        /\ gen' = IF gen.id = id THEN [gen EXCEPT !.clean = FALSE] ELSE gen
    BY DEF Outdates
  <1>2. Present' = Present /\ \A i : Adapter(i)' = Adapter(i)
    BY SameAdapters
  <1>3. ASSUME NEW i \in Present, i # id
        PROVE  /\ variants'[Adapter(i)] = variants[Adapter(i)]
               /\ \A done : Recorded(i, done) => Recorded(i, done)'
    <2>1. /\ Adapter(i) \in PoolRequests /\ FactoryOf(Adapter(i)) = i
          /\ FactoryOf(Adapter(id)) = id
      BY AdapterTyped
    <2>2. Adapter(i) # Adapter(id)
      BY <1>3, <2>1
    <2> QED
      BY <1>2, <2>1, <2>2 DEF Recorded
  <1>4. DataTyped'
    BY DEF CheckInv, DataTyped
  <1>5. CurrentSound'
    <2> SUFFICES ASSUME NEW i \in current'
                 PROVE  i \in Present' /\ Recorded(i, variants[Adapter(i)])'
      BY DEF CurrentSound
    <2>1. i \in current /\ i # id
      BY <1>1
    <2>2. i \in Present /\ Recorded(i, variants[Adapter(i)])
      BY <2>1 DEF CheckInv, CurrentSound
    <2> QED
      BY <1>2, <1>3, <2>1, <2>2 DEF Recorded
  <1>6. GenSound'
    <2>0. /\ gen = [factories |-> gen.factories, id |-> gen.id, todo |-> gen.todo,
                    clean |-> gen.clean]
          /\ gen.factories \subseteq Present
          /\ gen.todo # {} =>
               /\ gen.id \in Present /\ gen.id \notin current /\ gen.todo \subseteq Variants
               /\ gen.clean => /\ gen.todo \subseteq variants[Adapter(gen.id)]
                               /\ Recorded(gen.id, variants[Adapter(gen.id)] \ gen.todo)
      BY DEF CheckInv, GenSound
    <2>1. CASE gen.id = id
      <3>1. gen' = [gen EXCEPT !.clean = FALSE]
        BY <1>1, <2>1
      <3>2. /\ gen'.factories = gen.factories /\ gen'.id = gen.id /\ gen'.todo = gen.todo
            /\ gen' = [factories |-> gen'.factories, id |-> gen'.id, todo |-> gen'.todo,
                       clean |-> gen'.clean]
        BY <2>0, <3>1
      <3>3. ~gen'.clean
        BY <2>0, <3>1
      <3> QED
        BY <1>1, <1>2, <2>0, <3>2, <3>3 DEF GenSound
    <2>2. CASE gen.id # id
      <3>1. gen' = gen
        BY <1>1, <2>2
      <3>2. ASSUME gen.todo # {}, gen.clean
            PROVE  /\ gen'.todo \subseteq (variants[Adapter(gen.id)])'
                   /\ (Recorded(gen.id, variants[Adapter(gen.id)] \ gen.todo))'
        <4>1. PICK i : i = gen.id
          OBVIOUS
        <4>2. i \in Present /\ i # id
          BY <2>0, <2>2, <3>2, <4>1
        <4>3. /\ variants'[Adapter(i)] = variants[Adapter(i)]
              /\ \A done : Recorded(i, done) => Recorded(i, done)'
          BY <1>3, <4>2
        <4>4. PICK done : done = variants[Adapter(i)] \ gen.todo
          OBVIOUS
        <4>5. done = (variants[Adapter(gen.id)] \ gen.todo)' /\ gen'.id = i
          BY <1>2, <3>1, <4>1, <4>3, <4>4
        <4>6. Recorded(i, done)'
          BY <2>0, <3>2, <4>1, <4>3, <4>4
        <4>7. gen'.todo \subseteq (variants[Adapter(gen.id)])'
          BY <1>2, <2>0, <3>1, <3>2, <4>1, <4>3
        <4> QED
          BY <4>5, <4>6, <4>7 DEF Recorded
      <3> QED
        BY <1>1, <1>2, <2>0, <3>1, <3>2 DEF GenSound
    <2> QED
      BY <2>1, <2>2
  <1> QED
    BY <1>4, <1>5, <1>6 DEF CheckInv

LEMMA EditCheck == ASSUME CheckInv, FilesInv', Edit PROVE CheckInv'
  <1>0. UNCHANGED owner /\ UNCHANGED data
    BY DEF Edit, scaffoldVars
  <1>1. PICK id \in Present : EditContract(id) \/ EditVariants(id) \/ EditMaths(id)
    BY DEF Edit
  <1>2. Adapter(id) \in PoolRequests
    BY AdapterTyped
  <1>3. CASE EditContract(id)
    <2>1. PICK v \in Variants, b \in Behaviours \cup {Broken} :
              contract' = [contract EXCEPT ![Adapter(id)][v] = b]
      BY <1>3 DEF EditContract
    <2>2. maths' = maths /\ variants' = variants /\ Outdates(id)
      BY <1>3 DEF EditContract
    <2>3. \A r \in PoolRequests : r # Adapter(id) => contract'[r] = contract[r]
      BY <2>1 DEF CheckInv, ReposTyped
    <2>4. ReposTyped'
      BY <2>1, <2>2 DEF CheckInv, ReposTyped
    <2> QED
      BY <1>0, <2>2, <2>3, <2>4, OutdatingCheck
  <1>4. CASE EditVariants(id)
    <2>1. PICK vs \in (SUBSET Variants) \ {{}} :
              variants' = [variants EXCEPT ![Adapter(id)] = vs]
      BY <1>4 DEF EditVariants
    <2>2. maths' = maths /\ contract' = contract /\ Outdates(id)
      BY <1>4 DEF EditVariants
    <2>3. \A r \in PoolRequests : r # Adapter(id) => variants'[r] = variants[r]
      BY <2>1 DEF CheckInv, ReposTyped
    <2>4. ReposTyped'
      BY <2>1, <2>2 DEF CheckInv, ReposTyped
    <2> QED
      BY <1>0, <2>2, <2>3, <2>4, OutdatingCheck
  <1>5. CASE EditMaths(id)
    <2>1. PICK l \in Adapter(id).langs, v \in Variants, b \in Behaviours :
              maths' = [maths EXCEPT ![l][Adapter(id)][v] = b]
      BY <1>5 DEF EditMaths
    <2>2. /\ contract' = contract /\ variants' = variants /\ current' = current
          /\ gen' = gen /\ data' = data /\ owner' = owner
      BY <1>0, <1>5 DEF EditMaths
    <2>3. l \in Langs
      BY <1>2, LangsAssumption DEF PoolRequests
    <2>4. ReposTyped'
      BY <1>2, <2>1, <2>2, <2>3 DEF CheckInv, ReposTyped
    <2>5. Present' = Present /\ \A i : Adapter(i)' = Adapter(i)
      BY <2>2, SameAdapters
    <2>6. DataTyped' /\ CurrentSound' /\ GenSound'
      BY <2>2, <2>5 DEF CheckInv, DataTyped, CurrentSound, GenSound, Recorded
    <2> QED
      BY <2>4, <2>6 DEF CheckInv
  <1> QED
    BY <1>1, <1>3, <1>4, <1>5

\* A live check touches neither the repository nor the test data.
LEMMA LiveLeaves ==
    ASSUME (\E wanted : LiveStart(wanted)) \/ LiveVariant \/ LiveReplay \/ UNCHANGED liveVars
    PROVE  UNCHANGED scaffoldVars /\ UNCHANGED repoVars /\ UNCHANGED checkVars
  BY DEF LiveStart, LiveVariant, LiveReplay, liveVars, mathsVars

LEMMA StepFiles == FilesInv /\ [LiveNext]_liveVars => FilesInv'
  BY LiveNextScaffolds, StepInv, StepOwners DEF FilesInv

LEMMA StepCheckInv == CheckInv /\ [LiveNext]_liveVars => CheckInv'
  <1> SUFFICES ASSUME CheckInv, [LiveNext]_liveVars PROVE CheckInv'
    OBVIOUS
  <1>1. FilesInv'
    BY StepFiles DEF CheckInv
  <1>2. ScaffoldInv /\ [ScaffoldNext]_scaffoldVars
    BY LiveNextScaffolds DEF CheckInv, FilesInv
  <1>3. CASE (\E wanted : LiveStart(wanted)) \/ LiveVariant \/ LiveReplay \/ UNCHANGED liveVars
    <2>1. UNCHANGED scaffoldVars /\ UNCHANGED repoVars /\ UNCHANGED checkVars
      BY <1>3, LiveLeaves
    <2>2. owner' = owner
      BY <2>1 DEF scaffoldVars
    <2> QED
      BY <1>1, <2>1, <2>2, FilesFrame
  <1>4. CASE Scaffolding
    <2>1. ASSUME NEW r \in PoolRequests, gen = NoGen, TakeBack(r), Reset(r),
                 UNCHANGED <<data, gen, commands, edits>>
          PROVE  CheckInv'
      BY <1>1, <2>1, TakeBackCheck
    <2>2. ASSUME UNCHANGED repoVars, UNCHANGED checkVars,
                 \A p \in Paths : owner[p] # Nobody => owner'[p] = owner[p]
          PROVE  CheckInv'
      BY <1>1, <2>2, FilesFrame
    <2>3. ASSUME UNCHANGED owner PROVE \A p \in Paths : owner[p] # Nobody => owner'[p] = owner[p]
      BY <2>3
    <2>4. ASSUME NEW r \in Requests, Run(r) PROVE UNCHANGED owner
      BY <2>4 DEF Run, Plan
    <2>5. ASSUME NEW r \in Requests, NEW pool \in PoolTypes, Answer(r, pool)
          PROVE  UNCHANGED owner
      BY <2>5 DEF Answer, Plan
    <2>6. ASSUME EditRegistry \/ Crash PROVE UNCHANGED owner
      BY <2>6 DEF EditRegistry, Crash
    <2>7. ASSUME WriteFile PROVE \A p \in Paths : owner[p] # Nobody => owner'[p] = owner[p]
      <3>1. PICK q \in job.todo : owner' = [owner EXCEPT ![q] = job.request]
        BY <2>7 DEF WriteFile
      <3>2. owner[q] = Nobody
        BY <1>2, <2>7 DEF WriteFile, ScaffoldInv, JobSound
      <3> QED
        BY <1>2, <3>1, <3>2 DEF ScaffoldInv, OwnerTyped
    <2> QED
      BY <1>4, <2>1, <2>2, <2>3, <2>4, <2>5, <2>6, <2>7 DEF Scaffolding
  <1>5. ASSUME NEW wanted, Generate(wanted) PROVE CheckInv'
    BY <1>1, <1>5, GenerateCheck
  <1>6. ASSUME Next PROVE CheckInv'
    BY <1>1, <1>4, <1>5, <1>6, StartFactoryCheck, GenerateVariantCheck, AbortCheck, EditCheck
       DEF Next
  <1> QED
    BY <1>3, <1>6 DEF LiveNext

LEMMA CheckInvariance == LiveSpec => []CheckInv
  <1>1. LiveInit => CheckInv
    BY InitCheckInv DEF LiveInit
  <1> QED
    BY <1>1, StepCheckInv, PTL DEF LiveSpec

-----------------------------------------------------------------------------
(* What the check decides. *)

\* Every runner starts: what its registry and its lists of modules name is there.
LEMMA RunnersStart == ASSUME ScaffoldInv, NEW lang \in Langs PROVE Starts(lang)
  <1> SUFFICES ASSUME NEW e \in lines,
                      e.registry = <<lang>> \/ (lang = "rs" /\ e.registry[1] = "mod")
               PROVE  owner[MathsFile(e.by, lang)] = e.by
    BY DEF Starts
  <1>1. /\ e.by \in Requests /\ e.registry \in Registries(e.by)
        /\ \A p \in Writes(e.by) : owner[p] = e.by
    BY DEF ScaffoldInv, LinesTyped, FilesThere
  <1>2. e.by.langs \subseteq Langs
    BY <1>1, LangsAssumption
  <1>3. lang \in e.by.langs
    <2>1. CASE \E l \in e.by.langs : e.registry = <<l>>
      <3>1. PICK l \in e.by.langs : e.registry = <<l>>
        BY <2>1
      <3>2. e.registry[1] = l /\ l # "mod"
        BY <1>2, <3>1, LangsAssumption
      <3> QED
        BY <3>1, <3>2
    <2>2. CASE ~\E l \in e.by.langs : e.registry = <<l>>
      <3>1. "rs" \in e.by.langs /\ e.registry = ModuleList(e.by)
        BY <1>1, <2>2 DEF Registries
      <3>2. e.registry # <<lang>>
        BY <3>1 DEF ModuleList
      <3> QED
        BY <3>1, <3>2
    <2> QED
      BY <2>1, <2>2
  <1> QED
    BY <1>1, <1>3 DEF Writes

\* A verdict is good exactly within the tolerance.
LEMMA GoodIsClose ==
    ASSUME NEW k \in Kinds, NEW expected \in Int, NEW actual \in Int \cup {Rejects}
    PROVE  Verdict(k, expected, actual) \in Good <=> Close(k, expected, actual)
  <1>1. CASE actual = Rejects
    BY <1>1 DEF Verdict, Good, Close
  <1>2. CASE actual # Rejects /\ k = "swap"
    <2>1. actual \in Int
      BY <1>2
    <2>2. expected = actual <=> expected - actual = 0
      BY <2>1
    <2> QED
      BY <1>2, <2>2 DEF Verdict, Good, Close
  <1>3. CASE actual # Rejects /\ k # "swap"
    <2>1. actual \in Int
      BY <1>3
    <2>2. (expected = actual \/ expected - actual \in {-1, 1}) <=> expected - actual \in -1..1
      BY <2>1
    <2> QED
      BY <1>3, <2>2 DEF Verdict, Good, Close
  <1> QED
    BY <1>1, <1>2, <1>3

\* The maths answers every kind of operation, with a throw at worst.
LEMMA MathsAnswered ==
    ASSUME CheckInv
    PROVE  \A lang \in Langs, r \in PoolRequests, v \in Variants : maths[lang][r][v] \in Answered
  <1>1. Throwing \in Answered
    BY DEF Throwing, Answered
  <1>2. \A lang \in Langs, r \in PoolRequests, v \in Variants :
            maths[lang][r][v] \in Behaviours \cup {Throwing}
    BY DEF CheckInv, ReposTyped
  <1> QED
    BY <1>1, <1>2, BehaviourAssumption DEF Answered

\* Current data is there for every variant the adapter declares.
LEMMA FilesOfCurrent ==
    ASSUME CheckInv, NEW id \in current, NEW r, r = Adapter(id)
    PROVE  /\ r \in PoolRequests
           /\ id \in Ids /\ variants[r] \subseteq Variants /\ variants[r] # {}
           /\ \A v \in Variants : data[id][v] # NoData <=> v \in variants[r]
           /\ \A v \in variants[r] :
                /\ data[id][v] = [by |-> r, ops |-> contract[r][v]]
                /\ contract[r][v] \in Answered
                /\ \A lang \in Langs : maths[lang][r][v] \in Answered
  <1>1. id \in Present /\ Recorded(id, variants[r])
    BY DEF CheckInv, CurrentSound
  <1>2. /\ r \in PoolRequests /\ variants[r] \subseteq Variants /\ variants[r] # {}
        /\ id \in Ids
    BY <1>1, AdapterTyped
  <1>4. ASSUME NEW v \in variants[r]
        PROVE  /\ data[id][v] = [by |-> r, ops |-> contract[r][v]]
               /\ contract[r][v] \in Answered
               /\ data[id][v] # NoData
               /\ \A lang \in Langs : maths[lang][r][v] \in Answered
    <2>1. v \in Variants /\ data[id][v] = [by |-> r, ops |-> contract[r][v]]
      BY <1>1, <1>2 DEF Recorded
    <2>2. data[id][v] \in Records \cup {NoData} /\ contract[r][v] \in Behaviours \cup {Broken}
      BY <1>2, <2>1 DEF CheckInv, DataTyped, ReposTyped
    <2>a. data[id][v] # NoData
      BY <1>2, <2>1, <2>2, BehaviourAssumption DEF PoolRequests
    <2>3. data[id][v] # NoData /\ contract[r][v] \in Behaviours
      BY <2>1, <2>2, <2>a DEF Records
    <2>4. \A lang \in Langs : maths[lang][r][v] \in Answered
      BY <1>2, <2>1, MathsAnswered
    <2> QED
      BY <2>1, <2>3, <2>4, BehaviourAssumption DEF Answered
  <1>5. \A v \in Variants : data[id][v] # NoData <=> v \in variants[r]
    BY <1>1, <1>4 DEF Recorded
  <1> QED
    BY <1>2, <1>4, <1>5

\* A file passes in a language exactly when the maths of that language agrees
\* with what was recorded.
LEMMA FileAgrees ==
    ASSUME NEW lang, Starts(lang), NEW r, NEW v, NEW file, NEW answer \in Answered,
           file = [by |-> r, ops |-> answer],
           maths[lang][r][v] \in Answered
    PROVE  FileVerdict(lang, v, file) # "failed" <=>
             IF Registered(lang, r)
             THEN \A k \in Kinds : answer[k] # Rejects
                      => Close(k, answer[k], maths[lang][r][v][k])
             ELSE r.script = "factory"
  <1>1. file.by = r /\ file.ops = answer
    OBVIOUS
  <1>2. CASE Registered(lang, r)
    <2>1. FileVerdict(lang, v, file)
            = IF \A k \in {j \in Kinds : answer[j] # Rejects} :
                     Verdict(k, answer[k], maths[lang][r][v][k]) \in Good
              THEN "ok" ELSE "failed"
      BY <1>1, <1>2 DEF FileVerdict
    <2>2. \A k \in Kinds : answer[k] # Rejects =>
             (Verdict(k, answer[k], maths[lang][r][v][k]) \in Good
                <=> Close(k, answer[k], maths[lang][r][v][k]))
      BY GoodIsClose DEF Answered
    <2> QED
      BY <1>2, <2>1, <2>2
  <1>3. CASE ~Registered(lang, r)
    BY <1>1, <1>3 DEF FileVerdict
  <1> QED
    BY <1>2, <1>3

\* On current data, the files of an adapter pass in a language exactly when the
\* maths of that language agrees with the contract.
LEMMA VerdictAgrees ==
    ASSUME CheckInv, NEW id \in current, NEW lang \in Langs,
           NEW r, r = Adapter(id)
    PROVE  (\A v \in variants[r] : FileVerdict(lang, v, data[id][v]) # "failed")
           <=> IF Registered(lang, r)
               THEN \A v \in variants[r], k \in Kinds :
                        contract[r][v][k] # Rejects
                            => Close(k, contract[r][v][k], maths[lang][r][v][k])
               ELSE r.script = "factory"
  <1>1. Starts(lang)
    BY RunnersStart DEF CheckInv, FilesInv
  <1>2. /\ variants[r] # {}
        /\ \A v \in variants[r] :
             /\ data[id][v] = [by |-> r, ops |-> contract[r][v]]
             /\ contract[r][v] \in Answered
             /\ maths[lang][r][v] \in Answered
    BY FilesOfCurrent
  <1>3. \A v \in variants[r] :
            FileVerdict(lang, v, data[id][v]) # "failed" <=>
              IF Registered(lang, r)
              THEN \A k \in Kinds : contract[r][v][k] # Rejects
                       => Close(k, contract[r][v][k], maths[lang][r][v][k])
              ELSE r.script = "factory"
    <2> SUFFICES ASSUME NEW v \in variants[r]
                 PROVE  FileVerdict(lang, v, data[id][v]) # "failed" <=>
                          IF Registered(lang, r)
                          THEN \A k \in Kinds : contract[r][v][k] # Rejects
                                   => Close(k, contract[r][v][k], maths[lang][r][v][k])
                          ELSE r.script = "factory"
      OBVIOUS
    <2>1. PICK answer, file : answer = contract[r][v] /\ file = data[id][v]
      OBVIOUS
    <2>2. /\ file = [by |-> r, ops |-> answer] /\ answer \in Answered
          /\ maths[lang][r][v] \in Answered
      BY <1>2, <2>1
    <2> QED
      BY <1>1, <2>1, <2>2, FileAgrees
  <1> QED
    BY <1>2, <1>3

\* The files that a check of current data reads: those of the declared variants
\* of the adapters it consults.
LEMMA FilesConsulted ==
    ASSUME CheckInv, NEW wanted, Consulted(wanted, data) \subseteq current,
           NEW other \in Ids, NEW v \in Variants
    PROVE  (\E id \in Discover(wanted) : <<other, v>> \in Files(data, id))
           <=> other \in Consulted(wanted, data) /\ v \in variants[Adapter(other)]
  <1>1. ASSUME NEW id \in Discover(wanted), <<other, v>> \in Files(data, id)
        PROVE  other \in Consulted(wanted, data) /\ v \in variants[Adapter(other)]
    <2>1. Named(other, id) /\ data[other][v] # NoData
      BY <1>1 DEF Files
    <2>2. data[other] # Everywhere(NoData)
      BY <2>1 DEF Everywhere
    <2>3. other \in Consulted(wanted, data)
      BY <1>1, <2>1, <2>2 DEF Consulted
    <2> QED
      BY <2>1, <2>3, FilesOfCurrent
  <1>2. ASSUME other \in Consulted(wanted, data), v \in variants[Adapter(other)]
        PROVE  \E id \in Discover(wanted) : <<other, v>> \in Files(data, id)
    <2>1. data[other][v] # NoData
      BY <1>2, FilesOfCurrent
    <2>2. PICK id \in Discover(wanted) : Named(other, id)
      BY <1>2 DEF Consulted, Named
    <2> QED
      BY <2>1, <2>2 DEF Files
  <1> QED
    BY <1>1, <1>2

\* On data generated since the last edit the check passes exactly when contracts
\* and maths agree, in the languages that ran and for the adapters whose files
\* it finds, whatever was scaffolded, taken back, edited or interrupted before:
\* no file of a removed variant, of an earlier owner of the name or of a
\* generation that was cut short decides instead.
THEOREM CheckDecides == LiveSpec => []CurrentCheckDecides
  <1>1. CheckInv => CurrentCheckDecides
    <2> SUFFICES ASSUME CheckInv, NEW langs \in SUBSET Langs, NEW wanted,
                        Discover(wanted) # {}, Consulted(wanted, data) \subseteq current
                 PROVE  CheckPasses(langs, wanted, data) <=>
                          \A id \in Consulted(wanted, data) :
                            AgreesWith(langs, LAMBDA v : contract[Adapter(id)][v], Adapter(id))
      BY DEF CurrentCheckDecides
    <2> DEFINE Passes(other, v) ==
                 \A lang \in langs : FileVerdict(lang, v, data[other][v]) # "failed"
    <2>1. ASSUME NEW id \in Discover(wanted)
          PROVE  Files(data, id) # {}
      <3>1. id \in Consulted(wanted, data)
        BY DEF Consulted
      <3>2. id \in Ids
        BY <3>1, FilesOfCurrent
      <3>3. PICK v \in Variants : data[id][v] # NoData
        BY <3>1, FilesOfCurrent
      <3>4. Named(id, id)
        BY DEF Named
      <3>5. <<id, v>> \in Files(data, id)
        BY <3>2, <3>3, <3>4 DEF Files
      <3> QED
        BY <3>5
    <2>2. (\A id \in Discover(wanted) : \A lang \in langs, f \in Files(data, id) :
              FileVerdict(lang, f[2], data[f[1]][f[2]]) # "failed")
          <=> \A id \in Discover(wanted) : \A other \in Ids, v \in Variants :
                  <<other, v>> \in Files(data, id) => Passes(other, v)
      <3>1. \A id : \A f \in Files(data, id) :
                \E other \in Ids, v \in Variants : f = <<other, v>>
        BY DEF Files
      <3> QED
        BY <3>1
    <2>3. \A other \in Consulted(wanted, data) :
              other \in Ids /\ variants[Adapter(other)] \subseteq Variants
      BY FilesOfCurrent
    <2>4. (\A id \in Discover(wanted) : \A other \in Ids, v \in Variants :
              <<other, v>> \in Files(data, id) => Passes(other, v))
          <=> \A other \in Consulted(wanted, data) :
                  \A v \in variants[Adapter(other)] : Passes(other, v)
      <3> HIDE DEF Passes
      <3> QED
        BY <2>3, FilesConsulted
    <2>5. ASSUME NEW id \in Consulted(wanted, data)
          PROVE  (\A v \in variants[Adapter(id)] : Passes(id, v))
                 <=> AgreesWith(langs, LAMBDA v : contract[Adapter(id)][v], Adapter(id))
      <3>1. PICK r : r = Adapter(id)
        OBVIOUS
      <3>2. id \in current
        OBVIOUS
      <3>3. AgreesWith(langs, LAMBDA v : contract[r][v], r) <=>
              \A lang \in langs :
                IF Registered(lang, r)
                THEN \A v \in variants[r], k \in Kinds :
                         contract[r][v][k] # Rejects
                             => Close(k, contract[r][v][k], maths[lang][r][v][k])
                ELSE r.script = "factory"
        BY DEF AgreesWith
      <3> QED
        BY <3>1, <3>2, <3>3, VerdictAgrees
    <2> HIDE DEF Passes
    <2> QED
      BY <2>1, <2>2, <2>4, <2>5 DEF CheckPasses
  <1> QED
    BY <1>1, CheckInvariance, PTL

-----------------------------------------------------------------------------
(* The live check. *)

\* The only pool of the repository with the name of a deployed factory is the
\* one that was deployed.  The property is about the maths of the deployed pool,
\* which the script finds by the name alone.
NamesMatch ==
    \A i \in DOMAIN Listings, r \in PoolRequests :
        Append(FactoryOf(r), <<"pool">>) = Kebab(Listings[i].name)
            => r = OnChain[Listings[i].address].pool

OnlyOne(i) == \A j \in live.factories : IdOf(j) = IdOf(i) => j = i

Declared(factories) ==
    {iv \in factories \X Variants : iv[2] \in variants[Adapter(IdOf(iv[1]))]}

LiveRecords == [by : PoolRequests, ops : Answered]

\* Unless a pool could not be created, a factory that has its name for itself
\* has its own answers in the data, for every variant done.
LiveSound ==
    live = NoLive \/
      /\ live = [factories |-> live.factories, todo |-> live.todo, ok |-> live.ok,
                 on |-> live.on, data |-> live.data]
      /\ live.factories \subseteq Factories
      /\ live.todo \subseteq Declared(live.factories)
      /\ live.data \in [Ids -> [Variants -> LiveRecords \cup {NoData}]]
      /\ live.ok => \A i \in live.factories : OnlyOne(i) => \A v \in Variants :
           live.data[IdOf(i)][v] =
             IF v \in variants[Adapter(IdOf(i))] /\ <<i, v>> \notin live.todo
             THEN [by |-> Adapter(IdOf(i)), ops |-> Does(i)] ELSE NoData

LiveInv == CheckInv /\ LiveSound

LEMMA NoLiveFields == ~NoLive.on /\ NoLive.factories = {}
  BY DEF NoLive

\* The adapter a factory is checked with.
LEMMA FactoryAdapter ==
    ASSUME CheckInv, NEW i \in Factories
    PROVE  /\ i \in DOMAIN Listings /\ IdOf(i) \in Present /\ IdOf(i) \in Ids
           /\ Adapter(IdOf(i)) \in PoolRequests
           /\ Append(FactoryOf(Adapter(IdOf(i))), <<"pool">>) = Kebab(Listings[i].name)
           /\ variants[Adapter(IdOf(i))] \subseteq Variants
           /\ variants[Adapter(IdOf(i))] # {}
  <1>1. i \in DOMAIN Listings /\ AdapterOf(i) # {}
    BY DEF Factories, Deployed
  <1>2. IdOf(i) \in AdapterOf(i)
    BY <1>1 DEF IdOf
  <1>3. IdOf(i) \in Present /\ Append(IdOf(i), <<"pool">>) = Kebab(Listings[i].name)
    BY <1>2 DEF AdapterOf
  <1> QED
    BY <1>1, <1>3, AdapterTyped

\* Nothing a live check looks at changes while it runs.
LEMMA LiveRigid ==
    ASSUME UNCHANGED owner, UNCHANGED variants
    PROVE  /\ Factories' = Factories
           /\ \A i : IdOf(i)' = IdOf(i)
           /\ \A i : (variants[Adapter(IdOf(i))])' = variants[Adapter(IdOf(i))]
           /\ \A i : Adapter(IdOf(i))' = Adapter(IdOf(i))
  <1>1. Present' = Present
    BY DEF Present
  <1>2. \A i : AdapterOf(i)' = AdapterOf(i)
    BY <1>1 DEF AdapterOf
  <1>3. \A i : IdOf(i)' = IdOf(i)
    BY <1>2 DEF IdOf
  <1> QED
    BY <1>2, <1>3 DEF Factories, Adapter

LEMMA LiveStartSound == ASSUME CheckInv, NEW wanted, LiveStart(wanted) PROVE LiveSound'
  <1> SUFFICES ASSUME Selected(wanted) # {} PROVE LiveSound'
    BY DEF LiveStart, LiveSound
  <1>0. PICK fs : fs = Selected(wanted) /\ fs \subseteq Factories
    BY DEF Selected
  <1> DEFINE todo == Declared(fs)
             none == [id \in Ids |-> Everywhere(NoData)]
             l == [factories |-> fs, ok |-> TRUE, on |-> TRUE, todo |-> todo,
                   data |-> none]
  <1>1. live' = l /\ owner' = owner /\ variants' = variants
    BY <1>0 DEF LiveStart, Recording, scaffoldVars, repoVars, Declared
  <1>2. /\ l.factories = fs /\ l.todo = todo /\ l.data = none
        /\ l = [factories |-> l.factories, todo |-> l.todo, ok |-> l.ok, on |-> l.on,
                data |-> l.data]
    OBVIOUS
  <1>3. todo = Declared(fs)'
    BY <1>1, LiveRigid DEF Declared
  <1>4. /\ none \in [Ids -> [Variants -> LiveRecords \cup {NoData}]]
        /\ \A id \in Ids, v \in Variants : none[id][v] = NoData
    BY DEF Everywhere
  <1>5. ASSUME NEW i \in fs, NEW v \in Variants, v \in variants[Adapter(IdOf(i))]
        PROVE  <<i, v>> \in todo
    BY <1>5 DEF Declared
  <1> HIDE DEF l, todo, none
  <1>6. \A i \in fs : IdOf(i) \in Ids
    BY <1>0, FactoryAdapter
  <1>7. /\ live'.factories = fs /\ live'.todo = todo /\ live'.data = none
        /\ live' = [factories |-> live'.factories, todo |-> live'.todo, ok |-> live'.ok,
                    on |-> live'.on, data |-> live'.data]
    BY <1>1, <1>2, LiveRigid
  <1>8. \A i \in fs : \A v \in Variants :
            none[IdOf(i)'][v] =
              IF v \in (variants[Adapter(IdOf(i))])' /\ <<i, v>> \notin todo
              THEN [by |-> Adapter(IdOf(i))', ops |-> Does(i)] ELSE NoData
    BY <1>1, <1>4, <1>5, <1>6, LiveRigid
  <1> QED
    BY <1>0, <1>1, <1>3, <1>4, <1>7, <1>8, LiveRigid DEF LiveSound

LEMMA LiveVariantSound == ASSUME LiveInv, LiveVariant PROVE LiveSound'
  <1>1. PICK iv \in live.todo : \E i, v :
           /\ i = iv[1] /\ v = iv[2]
           /\ \/ /\ Does(i) # Broken
                 /\ live' = [live EXCEPT !.todo = @ \ {iv},
                        !.data[IdOf(i)][v] = [by |-> Adapter(IdOf(i)), ops |-> Does(i)]]
              \/ live' = [live EXCEPT !.todo = @ \ {iv}, !.ok = FALSE]
           /\ UNCHANGED mathsVars
    BY DEF LiveVariant
  <1>2. live # NoLive
    BY <1>1 DEF NoLive
  <1>3. /\ live = [factories |-> live.factories, todo |-> live.todo, ok |-> live.ok,
                   on |-> live.on, data |-> live.data]
        /\ live.factories \subseteq Factories
        /\ live.todo \subseteq Declared(live.factories)
        /\ live.data \in [Ids -> [Variants -> LiveRecords \cup {NoData}]]
    BY <1>2 DEF LiveInv, LiveSound
  <1>4. PICK i \in live.factories, v \in Variants :
            iv = <<i, v>> /\ v \in variants[Adapter(IdOf(i))]
    BY <1>1, <1>3 DEF Declared
  <1>5. PICK id, r, recorded :
           id = IdOf(i) /\ r = Adapter(id) /\ recorded = [by |-> r, ops |-> Does(i)]
    OBVIOUS
  <1>6. owner' = owner /\ variants' = variants
    BY <1>1 DEF mathsVars, scaffoldVars, repoVars
  <1>7. /\ id \in Ids /\ r \in PoolRequests /\ i \in DOMAIN Listings
    BY <1>3, <1>5, FactoryAdapter DEF LiveInv
  <1>s. \A fs : Declared(fs)' = Declared(fs)
    BY <1>6, LiveRigid DEF Declared
  <1>8. CASE Does(i) # Broken /\ live' = [live EXCEPT !.todo = @ \ {iv}, !.data[id][v] = recorded]
    <2>1. /\ live'.factories = live.factories /\ live'.todo = live.todo \ {iv}
          /\ live'.ok = live.ok
          /\ live'.data = [live.data EXCEPT ![id][v] = recorded]
          /\ live' = [factories |-> live'.factories, todo |-> live'.todo, ok |-> live'.ok,
                      on |-> live'.on, data |-> live'.data]
      BY <1>3, <1>8
    <2>2. recorded \in LiveRecords
      BY <1>5, <1>7, <1>8, ChainAssumption DEF LiveRecords, Does
    <2>3. live'.data \in [Ids -> [Variants -> LiveRecords \cup {NoData}]]
      <3>1. PICK d, S : d = live.data /\ S = LiveRecords \cup {NoData}
        OBVIOUS
      <3>2. d \in [Ids -> [Variants -> S]] /\ recorded \in S
        BY <1>3, <2>2, <3>1
      <3>3. [d EXCEPT ![id][v] = recorded] \in [Ids -> [Variants -> S]]
        BY <1>7, <3>2
      <3> QED
        BY <2>1, <3>1, <3>3
    <2>4. ASSUME live.ok, NEW j \in live.factories, OnlyOne(j), NEW w \in Variants
          PROVE  live'.data[IdOf(j)][w] =
                   IF w \in variants[Adapter(IdOf(j))] /\ <<j, w>> \notin live'.todo
                   THEN [by |-> Adapter(IdOf(j)), ops |-> Does(j)] ELSE NoData
      <3>1. live.data[IdOf(j)][w] =
              IF w \in variants[Adapter(IdOf(j))] /\ <<j, w>> \notin live.todo
              THEN [by |-> Adapter(IdOf(j)), ops |-> Does(j)] ELSE NoData
        BY <1>2, <2>4 DEF LiveInv, LiveSound
      <3>2. IdOf(j) \in Ids
        BY <1>3, FactoryAdapter DEF LiveInv
      <3>3. CASE j = i /\ w = v
        <4>1. live'.data[id][v] = recorded
          BY <1>3, <1>7, <2>1
        <4>2. <<i, v>> \notin live'.todo
          BY <1>4, <2>1
        <4> QED
          BY <1>4, <1>5, <3>3, <4>1, <4>2
      <3>4. CASE j = i /\ w # v
        <4>1. live'.data[id][w] = live.data[id][w]
          BY <1>3, <1>7, <2>1, <3>4
        <4>2. <<j, w>> \in live.todo <=> <<j, w>> \in live'.todo
          BY <1>4, <2>1, <3>4
        <4> QED
          BY <1>5, <3>1, <3>4, <4>1, <4>2
      <3>5. CASE j # i
        <4>1. IdOf(j) # id
          BY <1>5, <2>4, <3>5 DEF OnlyOne
        <4>2. live'.data[IdOf(j)] = live.data[IdOf(j)]
          BY <1>3, <2>1, <3>2, <4>1
        <4>3. <<j, w>> \in live.todo <=> <<j, w>> \in live'.todo
          BY <1>4, <2>1, <3>5
        <4> QED
          BY <3>1, <4>2, <4>3
      <3> QED
        BY <3>3, <3>4, <3>5
    <2> QED
      BY <1>3, <1>6, <1>s, <2>1, <2>3, <2>4, LiveRigid DEF LiveSound, OnlyOne
  <1>9. CASE live' = [live EXCEPT !.todo = @ \ {iv}, !.ok = FALSE]
    <2>1. /\ live'.factories = live.factories /\ live'.todo = live.todo \ {iv}
          /\ live'.data = live.data /\ ~live'.ok
          /\ live' = [factories |-> live'.factories, todo |-> live'.todo, ok |-> live'.ok,
                      on |-> live'.on, data |-> live'.data]
      BY <1>3, <1>9
    <2> QED
      BY <1>3, <1>6, <1>s, <2>1, LiveRigid DEF LiveSound
  <1> QED
    BY <1>1, <1>4, <1>5, <1>8, <1>9

LEMMA StepLive == LiveInv /\ [LiveNext]_liveVars => LiveInv'
  <1> SUFFICES ASSUME LiveInv, [LiveNext]_liveVars PROVE LiveSound'
    BY StepCheckInv DEF LiveInv
  <1>1. CASE Idle /\ UNCHANGED live
    BY <1>1 DEF Idle, LiveSound
  <1>2. ASSUME NEW wanted, LiveStart(wanted) PROVE LiveSound'
    BY <1>2, LiveStartSound DEF LiveInv
  <1>3. CASE LiveVariant
    BY <1>3, LiveVariantSound
  <1>4. CASE LiveReplay
    BY <1>4 DEF LiveReplay, LiveSound
  <1>5. CASE UNCHANGED liveVars
    <2>1. live' = live /\ owner' = owner /\ variants' = variants
      BY <1>5 DEF liveVars, mathsVars, scaffoldVars, repoVars
    <2> QED
      BY <2>1, LiveRigid DEF LiveInv, LiveSound, Declared, OnlyOne
  <1> QED
    BY <1>1, <1>2, <1>3, <1>4, <1>5 DEF LiveNext

\* A live check that passes has compared each factory it selected with the maths
\* of that very factory, in the languages that ran, unless two of them have one
\* name, whatever was scaffolded, edited or half generated before it, provided
\* that names identify the deployed pools.
THEOREM PassedLiveCompares ==
    ASSUME NamesMatch
    PROVE  LiveSpec => PassedLiveAgrees
  <1> DEFINE Compared == LiveReplay =>
          \A langs \in SUBSET Langs, i \in live.factories :
              (LivePasses(langs) /\ \A j \in live.factories : IdOf(j) = IdOf(i) => j = i)
                  => LiveAgrees(langs, i)
  <1>1. LiveInv => Compared
    <2> SUFFICES ASSUME LiveInv, LiveReplay, NEW langs \in SUBSET Langs, LivePasses(langs),
                        NEW i \in live.factories, OnlyOne(i)
                 PROVE  LiveAgrees(langs, i)
      BY DEF OnlyOne
    <2>1. live # NoLive /\ live.todo = {}
      BY NoLiveFields DEF LiveReplay
    <2>2. PICK id, r, answer : id = IdOf(i) /\ r = Adapter(id) /\ answer = Does(i)
      OBVIOUS
    <2>3. i \in Factories
      BY <2>1 DEF LiveInv, LiveSound
    <2>4. /\ id \in Ids /\ id \in Present /\ r \in PoolRequests /\ i \in DOMAIN Listings
          /\ variants[r] \subseteq Variants /\ variants[r] # {}
          /\ r = OnChain[Listings[i].address].pool
      BY <2>2, <2>3, FactoryAdapter DEF LiveInv, NamesMatch
    <2>5. ASSUME NEW v \in variants[r]
          PROVE  /\ live.data[id][v] = [by |-> r, ops |-> answer]
                 /\ live.data[id][v] \in LiveRecords \cup {NoData}
                 /\ v \in Variants
      <3>1. /\ live.ok
            /\ live.data \in [Ids -> [Variants -> LiveRecords \cup {NoData}]]
            /\ live.ok => \A w \in Variants :
                  live.data[id][w] = IF w \in variants[r] /\ <<i, w>> \notin live.todo
                                     THEN [by |-> r, ops |-> answer] ELSE NoData
        BY <2>1, <2>2 DEF LiveInv, LiveSound, LivePasses
      <3>2. v \in Variants /\ <<i, v>> \notin live.todo
        BY <2>1, <2>4
      <3> QED
        BY <2>4, <3>1, <3>2
    <2>6. ASSUME NEW v \in variants[r]
          PROVE  <<id, v>> \in Files(live.data, id) /\ answer \in Answered
      <3>1. [by |-> r, ops |-> answer] # NoData
        BY <2>2, <2>4, ChainAssumption DEF Does, PoolRequests
      <3>2. [by |-> r, ops |-> answer] \in LiveRecords
        BY <2>5, <3>1
      <3> QED
        BY <2>4, <2>5, <3>1, <3>2 DEF Files, Named, LiveRecords
    <2>7. id \in Discover({IdOf(j) : j \in live.factories})
      BY <2>2, <2>4 DEF Discover
    <2>8. ASSUME NEW lang \in langs, NEW v \in variants[r]
          PROVE  IF Registered(lang, r)
                 THEN \A k \in Kinds : answer[k] # Rejects
                          => Close(k, answer[k], maths[lang][r][v][k])
                 ELSE r.script = "factory"
      <3>1. FileVerdict(lang, v, live.data[id][v]) # "failed"
        BY <2>6, <2>7 DEF LivePasses, CheckPasses
      <3>2. Starts(lang)
        BY RunnersStart DEF LiveInv, CheckInv, FilesInv
      <3>3. maths[lang][r][v] \in Answered
        BY <2>4, MathsAnswered DEF LiveInv
      <3> QED
        BY <2>5, <2>6, <3>1, <3>2, <3>3, FileAgrees
    <2>9. AgreesWith(langs, LAMBDA v : answer, r)
      BY <2>4, <2>8 DEF AgreesWith
    <2> QED
      BY <2>2, <2>4, <2>9 DEF LiveAgrees
  <1>2. LiveInit => LiveInv
    BY InitCheckInv DEF LiveInit, LiveInv, LiveSound
  <1> QED
    BY <1>1, <1>2, StepLive, PTL DEF LiveSpec, PassedLiveAgrees
=============================================================================
