--------------------------- MODULE DomainPackages ---------------------------
(***************************************************************************)
(* Packages of domains: `cosmonauts install`, `uninstall`, `update` and    *)
(* `eject` (src/cli/packages, src/cli/update, src/lib/packages) write two  *)
(* stores, the user's and the project's, with no lock and in several       *)
(* steps; the runtime (src/lib/packages/scanner.ts,                        *)
(* src/lib/domains/loader.ts) reads them when it starts.                   *)
(*                                                                         *)
(* A package is what its author publishes under its name, here the set of  *)
(* its domains, each in a directory of its own.  In a store a package is a *)
(* copy or a link, with the domain directories it holds and those its      *)
(* manifest lists.  The two differ: a copy over an older one removes       *)
(* nothing.                                                                *)
(***************************************************************************)
EXTENDS Naturals, FiniteSets

CONSTANTS Package,       \* names of packages
          FirstVersion,  \* package -> the domains it is first published with
          Domain,        \* domain ids
          Terminal,      \* shells that run the command line
          Nothing,       \* no package
          MaxCommands    \* bounds the commands given and the versions published

PackagesAssumption ==
    /\ Nothing \notin Package
    /\ FirstVersion \in [Package -> SUBSET Domain \ {{}}]
    /\ MaxCommands \in Nat

Scope == {"user", "project"}
How == {"catalog", "git", "local", "link"}
Version == SUBSET Domain \ {{}}

VARIABLES source,     \* package -> the domains of its author's directory
          stamped,    \* packages whose author's directory holds the metadata of a link
          store,      \* scope -> package -> what its directory holds
          ejected,    \* domain -> the package its project copy was taken from
          cmd,        \* terminal -> the command it runs
          excused,    \* <<scope, domain>>: provided twice with someone's consent or by an accident
          given       \* commands given and versions published
vars == <<source, stamped, store, ejected, cmd, excused, given>>

Absent == [at |-> "nothing", dirs |-> {}, listed |-> {}, meta |-> "none"]
Idle == [do |-> "idle", p |-> Nothing, s |-> "user", v |-> {}, how |-> "local",
         ask |-> FALSE, clash |-> {}, left |-> {}]

TypeOK ==
    /\ source \in [Package -> Version] /\ stamped \subseteq Package
    /\ store \in [Scope -> [Package -> [at : {"nothing", "copy", "link"}, dirs : SUBSET Domain,
                                        listed : SUBSET Domain, meta : How \cup {"none"}]]]
    /\ ejected \in [Domain -> Package \cup {Nothing}]
    /\ \A t \in Terminal :
          /\ cmd[t].do \in {"idle", "check", "copy", "link", "stamp", "prompt", "rollback", "replace"}
          /\ cmd[t].p \in Package \cup {Nothing} /\ cmd[t].s \in Scope
          /\ cmd[t].clash \subseteq Package
    /\ excused \subseteq Scope \X Domain

-----------------------------------------------------------------------------
(* What a reader of a store sees.                                          *)

\* a link shows its author's directory as it is now
Dirs(st, src, s, p) == IF st[s][p].at = "link" THEN src[p] ELSE st[s][p].dirs
Listed(st, src, s, p) == IF st[s][p].at = "link" THEN src[p] ELSE st[s][p].listed
Meta(s, p) == IF store[s][p].at # "link" THEN store[s][p].meta
              ELSE IF p \in stamped THEN "link" ELSE "none"

\* listInstalledPackages: those with a readable manifest
Installed(st, src, s) == {p \in Package : Listed(st, src, s, p) # {}}

\* addPackageSources, loadDomainsInDir: an installed package gives the loader its directory,
\* and with it every domain in it, listed or not
Providers(st, src, s, d) == {p \in Installed(st, src, s) : d \in Dirs(st, src, s, p)}

\* loadDomainsFromSources throws DomainIdConflictError
Clashes(st, src) == {<<s, d>> \in Scope \X Domain : Cardinality(Providers(st, src, s, d)) > 1}

\* a bug to be found: a package that is installed already is not looked at again
ConflictsOfNew(s, p, v) ==
    IF store[s][p].at # "nothing" THEN {}
    ELSE {q \in Installed(store, source, s) \ {p} : Listed(store, source, s, q) \cap v # {}}

\* detectDomainConflicts, which skips the package of the same name
Conflicts(s, p, v) ==
    {q \in Installed(store, source, s) \ {p} : Listed(store, source, s, q) \cap v # {}}

-----------------------------------------------------------------------------
(* Installing.                                                             *)

Busy(t) == cmd[t].do # "idle"
Command == given < MaxCommands /\ given' = given + 1

\* installPackage: a git source is cloned first; the manifest and the directories are valid
Install(t, p, s, how) ==
    /\ ~Busy(t) /\ Command
    /\ cmd' = [cmd EXCEPT ![t] = [Idle EXCEPT !.do = "check", !.p = p, !.s = s,
                                              !.v = source[p], !.how = how, !.ask = TRUE]]
    /\ UNCHANGED <<source, stamped, store, ejected, excused>>

\* what the terminals beside t are about to install is not in the store yet
Beside(t) == {<<cmd[t].s, d>> : d \in cmd[t].v
                \cap UNION {cmd[u].v : u \in {x \in Terminal \ {t} : Busy(x) /\ cmd[x].s = cmd[t].s
                                                                     /\ cmd[x].p # cmd[t].p}}}

Detect(t) ==
    /\ cmd[t].do = "check"
    /\ cmd' = [cmd EXCEPT ![t].do = IF cmd[t].how = "link" THEN "link" ELSE "copy",
                          ![t].clash = Conflicts(cmd[t].s, cmd[t].p, cmd[t].v),
                          ![t].left = cmd[t].v]
    /\ excused' = excused \cup Beside(t)
    /\ UNCHANGED <<source, stamped, store, ejected, given>>

\* the symlink; over anything it fails with EEXIST, which is Stops
Link(t) ==
    /\ cmd[t].do = "link"
    /\ store[cmd[t].s][cmd[t].p].at = "nothing"
    /\ store' = [store EXCEPT ![cmd[t].s][cmd[t].p].at = "link"]
    /\ cmd' = [cmd EXCEPT ![t].do = "stamp"]
    /\ UNCHANGED <<source, stamped, ejected, excused, given>>

\* cp -r, one domain at a time; what is there already stays
CopyDomain(t, d) ==
    /\ cmd[t].do = "copy" /\ d \in cmd[t].left
    /\ store[cmd[t].s][cmd[t].p].at # "link"
    /\ store' = [store EXCEPT ![cmd[t].s][cmd[t].p].at = "copy",
                              ![cmd[t].s][cmd[t].p].dirs = @ \cup {d}]
    /\ cmd' = [cmd EXCEPT ![t].left = @ \ {d}]
    /\ UNCHANGED <<source, stamped, ejected, excused, given>>

\* ... the manifest among them, with the metadata a link left in the author's directory
CopyManifest(t) ==
    /\ cmd[t].do = "copy"
    /\ LET at == store[cmd[t].s][cmd[t].p]
       IN /\ at.at # "link"
          /\ at.listed # cmd[t].v
          /\ store' = [store EXCEPT ![cmd[t].s][cmd[t].p] =
                [at EXCEPT !.at = "copy", !.listed = cmd[t].v,
                           !.meta = IF cmd[t].p \in stamped /\ cmd[t].how # "git"
                                    THEN "link" ELSE @]]
    /\ UNCHANGED <<source, stamped, ejected, cmd, excused, given>>

Copied(t) == /\ cmd[t].do = "copy" /\ cmd[t].left = {}
             /\ store[cmd[t].s][cmd[t].p].listed = cmd[t].v

Here(t) == {<<cmd[t].s, d>> : d \in cmd[t].v}

\* writeInstallMeta, through a link into the author's directory; then handleInstallConflicts,
\* which an update does not call
Stamp(t) ==
    /\ Copied(t) \/ cmd[t].do = "stamp"
    /\ IF cmd[t].how = "link"
       THEN stamped' = stamped \cup {cmd[t].p} /\ UNCHANGED store
       ELSE /\ store' = [store EXCEPT ![cmd[t].s][cmd[t].p].meta = cmd[t].how]
            /\ UNCHANGED stamped
    /\ IF cmd[t].ask /\ cmd[t].clash # {}
       THEN cmd' = [cmd EXCEPT ![t].do = "prompt"] /\ UNCHANGED excused
       ELSE /\ cmd' = [cmd EXCEPT ![t] = Idle]
            /\ excused' = IF cmd[t].clash # {} THEN excused \cup Here(t) ELSE excused
    /\ UNCHANGED <<source, ejected, given>>

\* merge, which is also what --yes chooses
Merge(t) ==
    /\ cmd[t].do = "prompt"
    /\ excused' = excused \cup Here(t)
    /\ cmd' = [cmd EXCEPT ![t] = Idle]
    /\ UNCHANGED <<source, stamped, store, ejected, given>>

\* replace, skip and cancel
Decide(t) ==
    /\ cmd[t].do = "prompt"
    /\ \E do \in {"replace", "rollback"} : cmd' = [cmd EXCEPT ![t].do = do]
    /\ UNCHANGED <<source, stamped, store, ejected, excused, given>>

\* rollbackInstalledPackage removes whatever is under the package's name
Rollback(t) ==
    /\ cmd[t].do = "rollback"
    /\ store' = [store EXCEPT ![cmd[t].s][cmd[t].p] = Absent]
    /\ cmd' = [cmd EXCEPT ![t] = Idle]
    /\ UNCHANGED <<source, stamped, ejected, excused, given>>

\* the conflicting packages are removed one by one
Replace(t) ==
    /\ cmd[t].do = "replace"
    /\ \E q \in cmd[t].clash :
          /\ store' = [store EXCEPT ![cmd[t].s][q] = Absent]
          /\ cmd' = [cmd EXCEPT ![t] = IF cmd[t].clash = {q} THEN Idle
                                       ELSE [@ EXCEPT !.clash = @ \ {q}]]
    /\ UNCHANGED <<source, stamped, ejected, excused, given>>

\* a step fails, or the process is killed, also at its prompt: nothing is undone
Stops(t) ==
    /\ Busy(t)
    /\ cmd' = [cmd EXCEPT ![t] = Idle]
    /\ excused' = IF cmd[t].clash # {} THEN excused \cup Here(t) ELSE excused
    /\ UNCHANGED <<source, stamped, store, ejected, given>>

-----------------------------------------------------------------------------
(* The other commands.                                                     *)

Uninstall(t, p, s) ==
    /\ ~Busy(t) /\ Command
    /\ store[s][p].at # "nothing"
    /\ store' = [store EXCEPT ![s][p] = Absent]
    /\ UNCHANGED <<source, stamped, ejected, cmd, excused>>

\* update of a catalog package: removed, then installed anew, with no question
UpdateCatalog(t, p, s) ==
    /\ ~Busy(t) /\ Command
    /\ Meta(s, p) = "catalog"
    /\ store' = [store EXCEPT ![s][p] = Absent]
    /\ cmd' = [cmd EXCEPT ![t] = [Idle EXCEPT !.do = "check", !.p = p, !.s = s,
                                              !.v = source[p], !.how = "catalog"]]
    /\ UNCHANGED <<source, stamped, ejected, excused>>

\* update of a git package: git pull removes what the new version has no more
UpdateGit(t, p, s) ==
    /\ ~Busy(t) /\ Command
    /\ Meta(s, p) = "git" /\ store[s][p].at = "copy"
    /\ store' = [store EXCEPT ![s][p].dirs = (@ \ store[s][p].listed) \cup source[p],
                              ![s][p].listed = source[p]]
    /\ excused' = excused \cup (Clashes(store', source) \ Clashes(store, source))
    /\ UNCHANGED <<source, stamped, ejected, cmd>>

\* a bug to be found: the user's store first
EjectableUserFirst(d) ==
    LET by(s) == {p \in Installed(store, source, s) : d \in Listed(store, source, s, p)}
    IN IF by("user") # {} THEN by("user") ELSE by("project")

\* ejectDomain: a listed provider of the project's store, or else of the user's
Ejectable(d) ==
    LET by(s) == {p \in Installed(store, source, s) : d \in Listed(store, source, s, p)}
    IN IF by("project") # {} THEN by("project") ELSE by("user")

\* its directory exists; --force overwrites an earlier copy
Eject(t, d) ==
    /\ ~Busy(t) /\ Command
    /\ \E p \in Ejectable(d) :
          /\ \E s \in Scope : d \in Dirs(store, source, s, p)
          /\ ejected' = [ejected EXCEPT ![d] = p]
    /\ UNCHANGED <<source, stamped, store, cmd, excused>>

\* the author's directory changes, which links show at once; the bound of the model is that
\* it does so while no command runs
Publish(p, v) ==
    /\ Command
    /\ v # source[p] /\ \A t \in Terminal : ~Busy(t)
    /\ source' = [source EXCEPT ![p] = v]
    /\ excused' = excused \cup (Clashes(store, source') \ Clashes(store, source))
    /\ UNCHANGED <<stamped, store, ejected, cmd>>

\* CosmonautsRuntime.create: of the providers of a domain the one of the highest precedence
\* wins, among the packages
Winner(d) ==
    LET by(s) == Providers(store, source, s, d)
    IN IF by("project") # {} THEN CHOOSE p \in by("project") : TRUE
       ELSE IF by("user") # {} THEN CHOOSE p \in by("user") : TRUE ELSE Nothing

-----------------------------------------------------------------------------
Init ==
    /\ source = FirstVersion /\ stamped = {}
    /\ store = [s \in Scope |-> [p \in Package |-> Absent]]
    /\ ejected = [d \in Domain |-> Nothing]
    /\ cmd = [t \in Terminal |-> Idle]
    /\ excused = {} /\ given = 0

Installing(t) ==
    \/ Detect(t) \/ Link(t) \/ CopyManifest(t) \/ \E d \in Domain : CopyDomain(t, d)
    \/ Stamp(t) \/ Merge(t) \/ Decide(t) \/ Rollback(t) \/ Replace(t) \/ Stops(t)

Next ==
    \/ \E t \in Terminal :
          \/ Installing(t)
          \/ \E p \in Package, s \in Scope :
                \/ \E how \in How : Install(t, p, s, how)
                \/ Uninstall(t, p, s) \/ UpdateCatalog(t, p, s) \/ UpdateGit(t, p, s)
          \/ \E d \in Domain : Eject(t, d)
    \/ \E p \in Package : \E v \in Version : Publish(p, v)

Spec == Init /\ [][Next]_vars

-----------------------------------------------------------------------------
(* The runtime refuses to start over two packages of one scope that        *)
(* provide a domain only if a user chose to merge them, a command stopped  *)
(* half-way, two ran at once, a package changed under its name, or a       *)
(* directory was left over from an older copy: installing never ends in it *)
(* on its own.                                                             *)
RefusedOnlyByConsent ==
    \A c \in Clashes(store, source) :
        \/ c \in excused
        \/ \E p \in Package : c[2] \in Dirs(store, source, c[1], p) \ Listed(store, source, c[1], p)
        \/ \E t \in Terminal : Busy(t) /\ cmd[t].s = c[1]

(* Eject copies the package whose domain the runtime was using, as long as *)
(* the runtime starts and no directory is left over.                       *)
EjectTakesWinner ==
    \A d \in Domain :
       (/\ ejected'[d] # ejected[d] /\ Clashes(store, source) = {}
        /\ \A s \in Scope, p \in Package :
              Dirs(store, source, s, p) = Listed(store, source, s, p))
       => ejected'[d] = Winner(d)
EjectsWhatRuns == [][EjectTakesWinner]_vars
=============================================================================
