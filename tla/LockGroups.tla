----------------------------- MODULE LockGroups -----------------------------
(***************************************************************************)
(* Which lockfiles belong to the manifests of a report, and which commands *)
(* regenerate them: buildRegenerationPlan and commandsForGroup             *)
(* (internal/update/lockfiles.go) with the rules of the package managers   *)
(* (lockfiles_gomod.go, _cargo.go, _npm.go, _nuget.go).                    *)
(*                                                                         *)
(* A directory is the sequence of names that leads to it from the root.    *)
(* A tree is what the rules see of a checkout: its files, the Cargo.toml   *)
(* files with a [workspace] table, the .csproj files outside excluded      *)
(* directories, the JavaScript tool each package.json declares, and the    *)
(* directories that hold a .cargo/config or .cargo/config.toml.            *)
(***************************************************************************)
EXTENDS Naturals, Sequences, FiniteSets

Path(d, name) == [dir |-> d, name |-> name]

\* d and the directories it lies in.
Above(d) == {SubSeq(d, 1, n) : n \in 0..Len(d)}

Nearest(dirs) == CHOOSE d \in dirs : \A e \in dirs : Len(e) <= Len(d)

\* nearestFile looks in these, from d upwards, and takes the first.
Holders(tree, d, name) == {x \in Above(d) : Path(x, name) \in tree.files}

-----------------------------------------------------------------------------
(* The groups one entry belongs to.  An entry is a manager, a file, a name.  *)

Group(entry, d, tool, locks) ==
  [manager |-> entry.manager, dir |-> d, tool |-> tool, locks |-> locks,
   optional |-> {}, projects |-> {}, entries |-> {entry}]

\* go.sum beside the manifest, and the go.work.sum of the nearest workspace.
GoGroups(tree, entry) ==
  LET d == entry.file.dir
      works == Holders(tree, d, "go.work")
      sums == IF works = {} THEN {} ELSE {Path(Nearest(works), "go.work.sum")}
  IN {[Group(entry, d, "go", {Path(d, "go.sum")} \cup sums) EXCEPT !.optional = sums]}

\* Beside the nearest Cargo.lock, else at the nearest workspace, else here.
CargoWorkspace(tree, d) ==
  LET locked == Holders(tree, d, "Cargo.lock")
      roots == {x \in Above(d) : Path(x, "Cargo.toml") \in tree.workspaces}
  IN IF locked # {} THEN Nearest(locked)
     ELSE IF roots # {} THEN Nearest(roots) ELSE d

CargoGroups(tree, entry) ==
  LET d == CargoWorkspace(tree, entry.file.dir)
  IN {Group(entry, d, "cargo", {Path(d, "Cargo.lock")})}

ScriptLocks(tree, d) ==
  {n \in {"bun.lock", "bun.lockb", "package-lock.json"} : Path(d, n) \in tree.files}
ScriptTool(name) == IF name = "package-lock.json" THEN "npm" ELSE "bun"

\* The lockfile of the nearest directory that has one; two there are refused.
\* Without any, the one of the tool the manifest declares, which may be none.
NpmGroups(tree, entry) ==
  LET d == entry.file.dir
      locked == {x \in Above(d) : ScriptLocks(tree, x) # {}}
      at == IF locked = {} THEN d ELSE Nearest(locked)
      names == IF locked # {} THEN ScriptLocks(tree, at)
               ELSE CASE tree.declares[entry.file] = "bun" -> {"bun.lock"}
                      [] tree.declares[entry.file] = "npm" -> {"package-lock.json"}
                      [] OTHER -> {}
  IN IF Cardinality(names) # 1 THEN {}
     ELSE {Group(entry, at, ScriptTool(n), {Path(at, n)}) : n \in names}

\* The project, or those below the central Directory.Packages.props.
NugetProjects(tree, entry) ==
  IF entry.file \in tree.projects THEN {entry.file}
  ELSE {p \in tree.projects : entry.file.dir \in Above(p.dir)}

NugetGroups(tree, entry) ==
  {[Group(entry, p.dir, "dotnet", {Path(p.dir, "packages.lock.json")})
      EXCEPT !.projects = {p}] : p \in NugetProjects(tree, entry)}

\* None when the rules of the manager refuse the entry.
GroupsOf(tree, entry) ==
  CASE entry.manager = "gomod" -> GoGroups(tree, entry)
    [] entry.manager = "cargo" -> CargoGroups(tree, entry)
    [] entry.manager = "npm" -> NpmGroups(tree, entry)
    [] entry.manager = "nuget" -> NugetGroups(tree, entry)

-----------------------------------------------------------------------------
(* The plan of a report *)

LockfileManager(manager) == manager \in {"gomod", "cargo", "npm", "nuget"}
Locked(entries) == {e \in entries : LockfileManager(e.manager)}

SameGroup(g, h) == <<g.manager, g.dir, g.tool>> = <<h.manager, h.dir, h.tool>>

\* What entries ask of one manager, directory and tool becomes one group.
Merged(parts) ==
  {LET same == {h \in parts : SameGroup(g, h)}
   IN [g EXCEPT !.locks = UNION {h.locks : h \in same},
                !.optional = UNION {h.optional : h \in same},
                !.projects = UNION {h.projects : h \in same},
                !.entries = UNION {h.entries : h \in same}] : g \in parts}

Groups(tree, entries) ==
  Merged(UNION {GroupsOf(tree, e) : e \in Locked(entries)})

Plannable(tree, entries) == \A e \in Locked(entries) : GroupsOf(tree, e) # {}

Manifests(entries) == {e.file : e \in entries}
Locks(groups) == UNION {g.locks : g \in groups}
Required(groups) == UNION {g.locks \ g.optional : g \in groups}

\* One command for a group; for Cargo one for each dependency of a manifest.
\* NuGet takes one for each project, and refuses two that share a lockfile.
Commands(g) ==
  {[manager |-> g.manager, locks |-> g.locks, subject |-> s] :
     s \in CASE g.manager = "cargo" -> {<<e.file, e.name>> : e \in g.entries}
             [] g.manager = "nuget" -> {<<p, "restore">> : p \in g.projects}
             [] OTHER -> {<<g.dir, g.tool>>}}

Runnable(g) == g.manager = "nuget" => Cardinality(g.projects) <= 1

\* rejectCargoProjectConfig: no configuration at or above a Cargo group.
ConfigFree(tree, groups) ==
  \A g \in groups : g.manager = "cargo" => Above(g.dir) \cap tree.cargoConfigs = {}
=============================================================================
