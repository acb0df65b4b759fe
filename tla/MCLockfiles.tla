---------------------------- MODULE MCLockfiles ----------------------------
(* Small repositories of each package manager, one with two.               *)
EXTENDS Lockfiles

InRoot(n) == Path(<<>>, n)
InA(n) == Path(<<"a">>, n)
InB(n) == Path(<<"b">>, n)
Code == InRoot("code")

Entry(m, p, n) == [manager |-> m, file |-> p, name |-> n]

\* All paths are files but the absent ones.
Repository(paths, absent, entries) ==
  [paths |-> paths, entries |-> entries,
   tree |-> [files |-> paths \ absent, workspaces |-> {},
             projects |-> {}, declares |-> <<>>, cargoConfigs |-> {},
             filters |-> FALSE]]

\* A module of a workspace, whose go.work.sum may be there afterwards.
GoWorkspace ==
  Repository({InRoot("go.work"), InRoot("go.work.sum"), InA("go.mod"), InA("go.sum")},
             {InRoot("go.work.sum")}, {Entry("gomod", InA("go.mod"), "x")})

\* Two members of a workspace without a lockfile.
CargoMembers ==
  [Repository({InRoot("Cargo.toml"), InRoot("Cargo.lock"), InA("Cargo.toml"), InB("Cargo.toml")},
              {InRoot("Cargo.lock")},
              {Entry("cargo", InA("Cargo.toml"), "x"), Entry("cargo", InB("Cargo.toml"), "x")})
     EXCEPT !.tree.workspaces = {InRoot("Cargo.toml")}]
CargoConfigured == [CargoMembers EXCEPT !.tree.cargoConfigs = {<<>>}]

\* A package below one that has the lockfile, and one that declares its tool.
NpmNested ==
  [Repository({InRoot("package-lock.json"), InA("package.json"), Code},
              {}, {Entry("npm", InA("package.json"), "x")})
     EXCEPT !.tree.declares = [p \in {InA("package.json")} |-> "none"]]
NpmDeclared ==
  [Repository({InA("bun.lock"), InA("package.json"), Code},
              {InA("bun.lock")}, {Entry("npm", InA("package.json"), "x")})
     EXCEPT !.tree.declares = [p \in {InA("package.json")} |-> "bun"]]
NpmTwoLocks ==
  [Repository({InA("bun.lock"), InA("package-lock.json"), InA("package.json")},
              {}, {Entry("npm", InA("package.json"), "x")})
     EXCEPT !.tree.declares = [p \in {InA("package.json")} |-> "none"]]

\* Central versions of one project, and of two that share a directory.
NugetCentral ==
  [Repository({InRoot("Directory.Packages.props"), InA("p.csproj"), InA("packages.lock.json")},
              {}, {Entry("nuget", InRoot("Directory.Packages.props"), "x")})
     EXCEPT !.tree.projects = {InA("p.csproj")}]
NugetShared ==
  [Repository({InRoot("Directory.Packages.props"), InA("p.csproj"), InA("q.csproj"), InA("packages.lock.json")},
              {}, {Entry("nuget", InRoot("Directory.Packages.props"), "x")})
     EXCEPT !.tree.projects = {InA("p.csproj"), InA("q.csproj")}]

\* A Dockerfile's image beside a module: the first has no lockfile.
Mixed ==
  Repository({InRoot("Dockerfile"), InRoot("go.mod"), InRoot("go.sum")}, {},
             {Entry("gomod", InRoot("go.mod"), "x"), Entry("docker", InRoot("Dockerfile"), "y")})

MCRepositories ==
  {GoWorkspace, CargoMembers, CargoConfigured, NpmNested, NpmDeclared,
   NpmTwoLocks, NugetCentral, NugetShared, Mixed}
=============================================================================
