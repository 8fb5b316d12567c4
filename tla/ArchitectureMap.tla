---------------------------- MODULE ArchitectureMap ----------------------------
(***************************************************************************)
(* The architecture map in memory/architecture: `cosmonauts architecture   *)
(* generate` reads the sources, keeps the narratives that still fit and    *)
(* swaps the new map in by renames (src/lib/architecture-map); agents read *)
(* it with a banner that says whether it is current                        *)
(* (src/domains/shared/extensions/architecture-memory).  Sources are       *)
(* edited meanwhile, generators overlap and die.                           *)
(*                                                                         *)
(* A hash is what it is computed of.  Wording, signatures and timestamps   *)
(* are left out: a file whose content but for its timestamp is the same    *)
(* keeps it, so equal maps are equal here.                                 *)
(***************************************************************************)
EXTENDS Naturals, FiniteSets, Sequences, SequencesExt, FiniteSetsExt, Functions

CONSTANTS File, Source,     \* files, and what one may hold: [api, body, imports]
          First,            \* projects to begin with
          Within,           \* file -> the directories it is in, the innermost first
          Barrel,           \* the files named index.ts
          Conf,             \* configurations: the directories that are module roots
          Order,            \* the directories in the order of their names
          MaxNarratives,    \* of one run of the generator
          Generator,
          None,
          MaxEdits, MaxRuns, MaxMishaps

MapAssumption ==
    /\ \A f \in File : Within[f] # <<>> /\ IsInjective(Within[f])
    /\ Barrel \subseteq File /\ MaxNarratives \in Nat
    /\ MaxEdits \in Nat /\ MaxRuns \in Nat /\ MaxMishaps \in Nat

VARIABLES src, tsconfig, conf,   \* the project: files, whether imports resolve, module roots
          stamp,                 \* file or "tsconfig" -> when it was written last: size and mtime
          target, temp, backup,  \* the map, the one being written, the one before it
          gen,                   \* generator -> how far it is and what it holds
          reader,                \* an agent: the banner it was given, and after which edit
          edits, runs, mishaps,
          had, slipped, overlapped \* there was a map; an edit fell into a run; two runs overlapped
project == <<src, tsconfig, conf, stamp, edits>>
disk == <<target, temp, backup>>
vars == <<project, disk, gen, reader, runs, mishaps, had, slipped, overlapped>>

-----------------------------------------------------------------------------
(* The map of a project.                                                   *)

Present == {f \in File : src[f] # None}
Dirs(f) == ToSet(Within[f])

\* createProjectSnapshot: contents
Snapshot == [conf |-> conf, tsconfig |-> tsconfig, src |-> [f \in Present |-> src[f]]]

\* a bug to be found: a change of tsconfig.json is not seen
StatOfSources == [conf |-> conf, stamp |-> [f \in Present |-> stamp[f]]]

\* what the analyzer reads: tsconfig.json and those it extends are one
Inputs == Present \cup {"tsconfig"}

\* computeArchitectureMapStatFingerprint: size and time of the same files, the configuration
Stat == [conf |-> conf, stamp |-> [f \in Inputs |-> stamp[f]]]

\* discoverModuleRoots, assignFilesToModules: a file belongs to every root it is under ...
Roots(snap) == {r \in snap.conf : \E f \in DOMAIN snap.src : r \in Dirs(f)}
FilesOf(m, snap) == {f \in DOMAIN snap.src : m \in Dirs(f)}
\* ... and an import of it is one of the innermost (mapFilesToModules)
ModuleOf(f, snap) == SelectSeq(Within[f], LAMBDA r : r \in Roots(snap))

\* collectDependencies, of the files as they are when they are analyzed
Deps(m, snap) ==
    IF ~tsconfig THEN {}
    ELSE {ModuleOf(g, snap)[1] :
             g \in {h \in DOMAIN snap.src \cap Present :
                      /\ ModuleOf(h, snap) # <<>>
                      /\ \E f \in FilesOf(m, snap) \cap Present : h \in src[f].imports}} \ {m}

\* analyzeTypeScriptSources: files, public interface, dependencies
Skeleton(m, snap) ==
    LET files == FilesOf(m, snap)
        public == IF files \cap Barrel # {} THEN files \cap Barrel ELSE files
    IN [files |-> files, api |-> [f \in public \cap Present |-> src[f].api],
        deps |-> Deps(m, snap)]
Skeletons(snap) == [m \in Roots(snap) |-> Skeleton(m, snap)]
SourceHash(m, snap) == [f \in FilesOf(m, snap) |-> snap.src[f]]

\* deriveDependents
Dependents(m, skel) == {n \in DOMAIN skel : m \in skel[n].deps}

-----------------------------------------------------------------------------
(* Narratives.                                                             *)

Pending == [status |-> "pending", of |-> None]

\* a bug to be found: the narrative is kept whatever became of the module
FitsAnyway(prior, skel) == TRUE

\* resolveModuleNarrative: the skeleton of the prior record is the one there is now
Fits(prior, skel) == prior.skel = skel

\* the modules for which the model is asked, as far as the budget goes
Asked(g) ==
    LET skel == gen[g].skel
        prior == gen[g].prior
        wants(m) == \/ m \notin DOMAIN prior
                    \/ ~Fits(prior[m], skel[m])
                    \/ prior[m].narr.status = "pending"
        queue == SelectSeq(Order, LAMBDA m : m \in DOMAIN skel /\ wants(m))
    IN {queue[i] : i \in 1 .. IF Len(queue) < MaxNarratives THEN Len(queue) ELSE MaxNarratives}

\* the model answers for the modules "told"; a narrative is of the skeleton it was made from
Narrative(g, m, told) ==
    LET skel == gen[g].skel
        prior == gen[g].prior
        source == SourceHash(m, gen[g].snap)
    IN IF m \in told THEN [status |-> "generated", of |-> skel[m]]
       ELSE IF m \in DOMAIN prior /\ Fits(prior[m], skel[m]) /\ prior[m].narr # Pending
            THEN IF prior[m].source = source THEN prior[m].narr
                 ELSE [prior[m].narr EXCEPT !.status = "reused"]
       ELSE Pending

\* renderArchitectureMapBundle
Rendered(g, told) ==
    LET skel == gen[g].skel
    IN [project |-> gen[g].snap, stat |-> gen[g].stat,
        shards |-> [m \in DOMAIN skel |->
                      [source |-> SourceHash(m, gen[g].snap), skel |-> skel[m],
                       dependents |-> Dependents(m, skel), narr |-> Narrative(g, m, told)]]]

-----------------------------------------------------------------------------
(* The project is edited.                                                  *)

Windows == {"analyze", "stat"}
Editing ==
    /\ edits < MaxEdits /\ edits' = edits + 1
    /\ slipped' = (slipped \/ \E g \in Generator : gen[g].at \in Windows)
    /\ UNCHANGED <<disk, gen, reader, runs, mishaps, had, overlapped>>

Edit(f, v) ==
    /\ Editing
    /\ src' = [src EXCEPT ![f] = v] /\ stamp' = [stamp EXCEPT ![f] = edits + 1]
    /\ UNCHANGED <<tsconfig, conf>>
EditTsconfig ==
    /\ Editing
    /\ tsconfig' = ~tsconfig /\ stamp' = [stamp EXCEPT !["tsconfig"] = edits + 1]
    /\ UNCHANGED <<src, conf>>
EditConf(c) ==
    /\ c # conf /\ Editing
    /\ conf' = c /\ UNCHANGED <<src, tsconfig, stamp>>

-----------------------------------------------------------------------------
(* A run of the generator.                                                 *)

Idle == [at |-> "idle", snap |-> None, skel |-> None, stat |-> None, prior |-> None,
         new |-> None, old |-> None, result |-> None]
At(g, step) == gen[g].at = step
Goto(g, step) == gen' = [gen EXCEPT ![g].at = step]
Ends(g, result) == gen' = [gen EXCEPT ![g] = [Idle EXCEPT !.result = result]]
Still == UNCHANGED <<project, reader, mishaps, slipped>>
Kept == UNCHANGED <<runs, overlapped>>
Stored(map) == target' = map /\ had' = TRUE

\* recoverArchitectureMapStorage
Begin(g) ==
    /\ At(g, "idle") /\ runs < MaxRuns /\ runs' = runs + 1
    /\ Goto(g, IF backup = None THEN "clean" ELSE IF target = None THEN "restore" ELSE "forget")
    /\ overlapped' = (overlapped \/ \E h \in Generator \ {g} : ~At(h, "idle"))
    /\ UNCHANGED <<disk, had>> /\ Still

\* a bug to be found: what is left of the run before is removed
RestoreNothing(g) ==
    /\ At(g, "restore") /\ backup' = None /\ Goto(g, "clean")
    /\ UNCHANGED <<target, temp, had>> /\ Still /\ Kept

\* a map that was moved away and never replaced is moved back
Restore(g) ==
    /\ At(g, "restore")
    /\ IF backup # None THEN Stored(backup) /\ backup' = None /\ Goto(g, "clean")
       ELSE target' = None /\ Ends(g, "throws") /\ UNCHANGED <<backup, had>>
    /\ UNCHANGED temp /\ Still /\ Kept

Forget(g) ==
    /\ At(g, "forget") /\ backup' = None /\ Goto(g, "clean")
    /\ UNCHANGED <<target, temp, had>> /\ Still /\ Kept

Clean(g) ==
    /\ At(g, "clean") /\ temp' = None /\ Goto(g, "snapshot")
    /\ UNCHANGED <<target, backup, had>> /\ Still /\ Kept

Inspect(g) ==
    /\ At(g, "snapshot")
    /\ IF Present = {} /\ stamp["tsconfig"] = 0 THEN Ends(g, "unsupported")
       ELSE gen' = [gen EXCEPT ![g].at = "analyze", ![g].snap = Snapshot]
    /\ UNCHANGED <<disk, had>> /\ Still /\ Kept

\* the analyzer runs to its end before the first file is looked at for the fingerprint
Analyze(g) ==
    /\ At(g, "analyze")
    /\ gen' = [gen EXCEPT ![g].at = "stat", ![g].skel = Skeletons(gen[g].snap)]
    /\ UNCHANGED <<disk, had>> /\ Still /\ Kept

\* with the configuration that was read at first; then readPriorRecords
Fingerprint(g) ==
    /\ At(g, "stat")
    /\ gen' = [gen EXCEPT ![g].at = "narrate", ![g].stat = [Stat EXCEPT !.conf = gen[g].snap.conf],
                          ![g].prior = IF target = None THEN <<>> ELSE target.shards]
    /\ UNCHANGED <<disk, had>> /\ Still /\ Kept

Narrate(g) ==
    /\ At(g, "narrate")
    /\ \E told \in SUBSET Asked(g) :
          gen' = [gen EXCEPT ![g] = [Idle EXCEPT !.at = "compare", !.new = Rendered(g, told)]]
    /\ UNCHANGED <<disk, had>> /\ Still /\ Kept

Compare(g) ==
    /\ At(g, "compare")
    /\ IF target = gen[g].new THEN Ends(g, "unchanged")
       ELSE gen' = [gen EXCEPT ![g].at = "write", ![g].old = target]
    /\ UNCHANGED <<disk, had>> /\ Still /\ Kept

\* writeReplacementTempBundle: what has not changed is copied from the map that is there now
Same(g, m) == gen[g].old # None /\ m \in DOMAIN gen[g].old.shards
              /\ gen[g].old.shards[m] = gen[g].new.shards[m]
Gone(m) == target = None \/ m \notin DOMAIN target.shards
Copied(g) == [gen[g].new EXCEPT !.shards = [m \in DOMAIN @ |->
                IF Same(g, m) THEN target.shards[m] ELSE @[m]]]
WriteTemp(g) ==
    /\ At(g, "write")
    /\ IF \E m \in DOMAIN gen[g].new.shards : Same(g, m) /\ Gone(m)
       THEN temp' = [whole |-> FALSE, map |-> None] /\ Ends(g, "failed")
       ELSE temp' = [whole |-> TRUE, map |-> Copied(g)] /\ Goto(g, "backup")
    /\ UNCHANGED <<target, backup, had>> /\ Still /\ Kept

\* validateTempBundle, and the backup goes
DropBackup(g) ==
    /\ At(g, "backup")
    /\ IF temp # None /\ temp.whole THEN backup' = None /\ Goto(g, "aside") /\ UNCHANGED temp
       ELSE temp' = None /\ Ends(g, "failed") /\ UNCHANGED backup
    /\ UNCHANGED <<target, had>> /\ Still /\ Kept

\* the old map is moved away
Aside(g) ==
    /\ At(g, "aside")
    /\ IF target = None THEN Goto(g, "place") /\ UNCHANGED disk
       ELSE IF backup # None THEN temp' = None /\ Ends(g, "failed") /\ UNCHANGED <<target, backup>>
       ELSE backup' = target /\ target' = None /\ Goto(g, "swap") /\ UNCHANGED temp
    /\ UNCHANGED had /\ Still /\ Kept

\* the new one takes its place
Place(g) ==
    /\ gen[g].at \in {"place", "swap"}
    /\ IF temp # None /\ target = None
       THEN Stored(temp.map) /\ temp' = None /\ Goto(g, "drop")
       ELSE /\ IF At(g, "swap") THEN Goto(g, "undo") /\ UNCHANGED temp
               ELSE temp' = None /\ Ends(g, "failed")
            /\ UNCHANGED <<target, had>>
    /\ UNCHANGED backup /\ Still /\ Kept

\* or the old one comes back
Undo(g) ==
    /\ At(g, "undo")
    /\ target' = backup /\ backup' = None
    /\ temp' = None /\ Ends(g, "failed")
    /\ UNCHANGED had /\ Still /\ Kept

DropOld(g) ==
    /\ At(g, "drop") /\ backup' = None /\ Ends(g, "written")
    /\ UNCHANGED <<target, temp, had>> /\ Still /\ Kept

\* reading, analyzing or an operation on files throws
Fails(g) ==
    /\ mishaps < MaxMishaps /\ mishaps' = mishaps + 1
    /\ \/ /\ gen[g].at \in {"snapshot", "analyze", "stat", "narrate", "compare"}
          /\ Ends(g, "failed") /\ UNCHANGED temp
       \/ /\ At(g, "write") /\ Ends(g, "failed") /\ temp' = [whole |-> FALSE, map |-> None]
       \/ /\ gen[g].at \in {"backup", "aside", "place", "drop"}
          /\ Ends(g, "failed") /\ temp' = None
       \/ At(g, "swap") /\ Goto(g, "undo") /\ UNCHANGED temp
    /\ UNCHANGED <<project, target, backup, reader, had, slipped>> /\ Kept

Dies(g) ==
    /\ ~At(g, "idle") /\ mishaps < MaxMishaps /\ mishaps' = mishaps + 1
    /\ Ends(g, None)
    /\ temp' = IF At(g, "write") THEN [whole |-> FALSE, map |-> None] ELSE temp
    /\ UNCHANGED <<project, target, backup, reader, had, slipped>> /\ Kept

-----------------------------------------------------------------------------
(* An agent starts a turn or reads a shard.                                *)

Away == [at |-> "away", banner |-> "missing", after |-> 0]
Banner == IF target = None THEN "missing" ELSE IF target.stat = Stat THEN "current" ELSE "stale"

\* checkArchitectureMapStatFreshness ...
Check ==
    /\ reader.at = "away"
    /\ reader' = [at |-> "checked", banner |-> Banner, after |-> edits]
    /\ UNCHANGED <<project, disk, gen, runs, mishaps, had, slipped, overlapped>>

\* ... then readIndexRecord or readShardRecord, of the map that is there by then
ReadMap ==
    /\ reader.at = "checked"
    /\ reader' = Away
    /\ UNCHANGED <<project, disk, gen, runs, mishaps, had, slipped, overlapped>>

-----------------------------------------------------------------------------
Init ==
    /\ src \in First /\ tsconfig = TRUE /\ conf \in Conf
    /\ stamp = [f \in File \cup {"tsconfig"} |-> 0]
    /\ target = None /\ temp = None /\ backup = None
    /\ gen = [g \in Generator |-> Idle] /\ reader = Away
    /\ edits = 0 /\ runs = 0 /\ mishaps = 0
    /\ had = FALSE /\ slipped = FALSE /\ overlapped = FALSE

Next ==
    \/ \E f \in File, v \in Source \cup {None} : Edit(f, v)
    \/ EditTsconfig \/ \E c \in Conf : EditConf(c)
    \/ \E g \in Generator :
          \/ Begin(g) \/ Restore(g) \/ Forget(g) \/ Clean(g) \/ Inspect(g) \/ Analyze(g)
          \/ Fingerprint(g) \/ Narrate(g) \/ Compare(g) \/ WriteTemp(g) \/ DropBackup(g)
          \/ Aside(g) \/ Place(g) \/ Undo(g) \/ DropOld(g) \/ Fails(g) \/ Dies(g)
    \/ Check \/ ReadMap

Spec == Init /\ [][Next]_vars

-----------------------------------------------------------------------------
TypeOK ==
    /\ src \in [File -> Source \cup {None}] /\ tsconfig \in BOOLEAN /\ conf \in Conf
    /\ \A g \in Generator : gen[g].result \in {None, "written", "unchanged", "failed",
                                               "unsupported", "throws"}
    /\ reader.banner \in {"missing", "current", "stale"}

(* A map that was once there is there, or in the backup that the next run  *)
(* restores, whatever fails or dies, unless two runs overlapped.           *)
MapKept == had => target # None \/ backup # None \/ overlapped

(* An agent that is told the map is current reads one that describes the  *)
(* project as it is, unless the project was edited since, an edit fell     *)
(* between the reading of the sources and the fingerprint, or two runs     *)
(* overlapped.                                                             *)
Describes(map) == [m \in DOMAIN map.shards |-> map.shards[m].skel] = Skeletons(Snapshot)
CurrentIsTrue ==
    (/\ reader.at = "checked" /\ reader' = Away /\ target # None
     /\ reader.banner = "current" /\ reader.after = edits /\ ~slipped /\ ~overlapped)
    => Describes(target)
TrulyCurrent == [][CurrentIsTrue]_vars

(* "never false-current on real content change"                            *)
NeverFalseCurrent ==
    Banner = "current" => Describes(target)

(* A narrative is of the module it stands beside: of its files, interface  *)
(* and dependencies as the same map gives them.                            *)
NarrativeFits ==
    target # None =>
        \A m \in DOMAIN target.shards :
            LET shard == target.shards[m]
            IN shard.narr # Pending => shard.narr.of = shard.skel
=============================================================================
