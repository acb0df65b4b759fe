------------------------------ MODULE Lockfiles ------------------------------
(***************************************************************************)
(* `apply --lockfiles` and automation with lockfiles: applyWithLockfiles   *)
(* (internal/update/lockfiles.go).  The manifests of a report are edited   *)
(* and their lockfiles regenerated in two worktrees of their own, one      *)
(* after the other; only what both produced alike reaches the checkout.    *)
(*                                                                         *)
(* The package managers may do anything to a worktree, fail, or hang, and  *)
(* people edit and commit in the checkout meanwhile.  A phase that reads   *)
(* several files is one step here, but writePlans goes file by file.       *)
(***************************************************************************)
EXTENDS LockGroups

CONSTANTS
  Repositories,  \* what a checkout may be: a tree, entries, and all its paths
  MaxEdits       \* bound on what people do in a behaviour

\* Its manifests and the lockfiles of any plan of it are among its paths.
ASSUME RepositoriesAssumption ==
  \A r \in Repositories :
    /\ r.tree.files \subseteq r.paths /\ IsFiniteSet(r.paths)
    /\ Manifests(r.entries) \subseteq r.paths
    /\ \A tree \in {r.tree} \cup {[r.tree EXCEPT !.files = f] : f \in SUBSET r.paths} :
         \A entries \in SUBSET r.entries : Locks(Groups(tree, entries)) \subseteq r.paths
ASSUME MaxEditsAssumption == MaxEdits \in Nat

VARIABLES
  repo,      \* the repository
  source,    \* the checkout: what each path holds
  head,      \* the commit HEAD names: what each path holds in it
  run,       \* the locals of applyWithLockfiles and regenerateOnce
  edits      \* what people have done so far

vars == <<repo, source, head, run, edits>>

-----------------------------------------------------------------------------
(* What a path can hold.  A text is a person's or a tool's; a manifest made  *)
(* from one is approved as the report says, or pinned for Cargo.             *)

Absent == [text |-> "none", form |-> "none"]
Plain(text) == [text |-> text, form |-> "plain"]
Approved(c) == [c EXCEPT !.form = "approved"]
Pinned(c) == [c EXCEPT !.form = "pinned"]

\* What a package manager leaves in a file it writes; two runs may differ.
Generated == {[text |-> "tool", form |-> f] : f \in {"A", "B"}}

Contents == {Absent} \cup [text : {"old", "edited"}, form : {"plain", "approved", "pinned"}]
              \cup Generated

Paths == repo.paths
Checkouts == [Paths -> Contents]

\* The tree of the checkout as it is now.
Tree == [repo.tree EXCEPT !.files = {p \in Paths : source[p] # Absent}]

-----------------------------------------------------------------------------
(* The run *)

Steps == {"idle", "plan", "group", "snapshot", "validate", "revalidate",
          "worktree", "command", "hung", "held", "restore", "collect",
          "compare", "check", "store", "undo", "done"}
Outcomes == {"nothing", "refused", "preview", "written", "restored", "partial"}

\* entries are those of the report, scanned what it saw in their manifests,
\* before what planReport read; shot is the snapshot of the planned files;
\* commit, tree and todo belong to the worktree at hand; made is what the
\* regenerations produced; files are those that writePlans has still to check,
\* to store or to undo.  committed, left, edited and flips are history: HEAD at
\* the validation, the worktrees as collected, the paths people edited since the
\* validation or since writePlans last looked at or wrote them, and how often
\* people edited them in the whole run.
Nothing == [p \in {} |-> Absent]
Idle == [pc |-> "idle", entries |-> {}, scanned |-> Nothing, before |-> Nothing,
         groups |-> {}, shot |-> Nothing, commit |-> Nothing, tree |-> Nothing,
         todo |-> {}, made |-> <<>>, files |-> {}, outcome |-> "nothing",
         committed |-> Nothing, left |-> <<>>, edited |-> {}, flips |-> Nothing]

Finish(r, outcome) == [r EXCEPT !.pc = "done", !.outcome = outcome]
Ended(outcome) == Finish(Idle, outcome)

Planned(r) == DOMAIN r.before \cup Locks(r.groups)
Pins(r) == {e.file : e \in {f \in r.entries : f.manager = "cargo"}}

\* Some paths of f as g has them.
Over(f, g) == [p \in DOMAIN f |-> IF p \in DOMAIN g THEN g[p] ELSE f[p]]

-----------------------------------------------------------------------------
(* Mistakes the properties must catch: forms of definitions below, named by  *)
(* what they get wrong.  The specification does not use them.                *)

CleanManifests(r) == \A p \in DOMAIN r.before : source[p] = head[p]
ManifestsTrusted(r) == TRUE
NoLimit == FALSE
SameFiles(r) == DOMAIN r.made[1] = DOMAIN r.made[2]
AfterCollectingThrice(made) == IF Len(made) <= 2 THEN "worktree" ELSE "compare"

-----------------------------------------------------------------------------
(* Planning and validation *)

At(pc) == run.pc = pc /\ UNCHANGED <<repo, head, edits>>
Quiet(r) == run' = r /\ UNCHANGED source
Goto(pc) == Quiet([run EXCEPT !.pc = pc])

\* The report of a scan of the checkout: the manifests not updated yet.
Outdated == {e \in repo.entries : source[e.file].form = "plain"}

Begin ==
  /\ At("idle")
  /\ Quiet([Idle EXCEPT !.pc = "plan", !.entries = Outdated,
              !.scanned = [f \in Manifests(Outdated) |-> source[f]],
              !.flips = [p \in Paths |-> 0]])

\* planReport: an edit made since the scan may leave the ranges as they were.
PlanManifests ==
  /\ At("plan")
  /\ \A f \in DOMAIN run.scanned : source[f].form = "plain"
  /\ Quiet(IF run.entries = {} THEN Ended("nothing")
           ELSE [run EXCEPT !.pc = "group", !.scanned = Nothing,
                            !.before = [f \in DOMAIN run.scanned |-> source[f]]])

PlanLocks ==
  /\ At("group")
  /\ Plannable(Tree, run.entries)
  /\ Quiet([run EXCEPT !.pc = "snapshot", !.groups = Groups(Tree, run.entries)])

\* snapshotSourceState: a manifest must still be what was planned from.
Snapshot ==
  /\ At("snapshot")
  /\ \A f \in DOMAIN run.before : source[f] = run.before[f]
  /\ Quiet([run EXCEPT !.pc = "validate",
                       !.shot = [p \in Planned(run) |-> source[p]]])

\* Existing planned files are tracked and as in HEAD.
Clean(r) == \A p \in Planned(r) : source[p] \in {head[p]} \cup
              IF p \in Locks(r.groups) THEN {Absent} ELSE {}

\* validateSourceState: no content filters, no Cargo configuration, no changes.
Validate ==
  /\ At("validate")
  /\ ~repo.tree.filters /\ ConfigFree(Tree, run.groups)
  /\ Clean(run)
  /\ Quiet([run EXCEPT !.pc = "revalidate", !.committed = head, !.edited = {}])

\* validateSourceSnapshot: nothing changed since the snapshot.
Revalidate ==
  /\ At("revalidate")
  /\ \A p \in Planned(run) : source[p] = run.shot[p]
  /\ Goto("worktree")

-----------------------------------------------------------------------------
(* One regeneration *)

\* HEAD as it is by now, with the existing planned files as in the snapshot
\* and the edits of the report applied to the manifests.
Worktree(r) ==
  LET restored == [p \in {q \in Planned(r) : r.shot[q] # Absent} |-> r.shot[p]]
      applied == [f \in DOMAIN r.before |-> Approved(r.before[f])]
      pins == [f \in Pins(r) |-> Pinned(r.before[f])]
  IN Over(Over(Over(head, restored), applied), pins)

\* `git worktree add`, Apply in it, and pinCargoManifests.
AddWorktree ==
  /\ At("worktree")
  /\ \A g \in run.groups : Runnable(g)
  /\ Quiet([run EXCEPT !.pc = "command", !.commit = head, !.tree = Worktree(run),
                       !.todo = UNION {Commands(g) : g \in run.groups}])

\* What a command can make of its lockfiles: dotnet's output is a file of its
\* own that must exist and is copied, the others may also leave theirs alone
\* or remove them.
Made(command, p) ==
  Generated \cup IF command.manager = "nuget" THEN {} ELSE {Absent, run.tree[p]}

\* Besides, it may write one other path of the worktree.  The code runs the
\* commands in a fixed order; what each may do does not depend on it.
Command(command) ==
  /\ At("command")
  /\ command \in run.todo
  /\ \E made \in [command.locks -> UNION {Made(command, p) : p \in command.locks}] :
     \E stray \in {{}} \cup {{p} : p \in Paths \ command.locks} :
       /\ \A p \in command.locks : made[p] \in Made(command, p)
       /\ LET extra == [p \in stray |-> [text |-> "tool", form |-> "A"]]
          IN Quiet([run EXCEPT !.todo = @ \ {command},
                               !.tree = Over(Over(@, made), extra)])

CommandsDone == At("command") /\ run.todo = {} /\ Goto("restore")

\* restoreCargoManifests: Cargo must have left the pinned manifests alone.
RestorePins ==
  /\ At("restore")
  /\ \A f \in Pins(run) : run.tree[f] = Pinned(run.before[f])
  /\ Quiet([run EXCEPT !.pc = "collect",
              !.tree = Over(@, [f \in Pins(run) |-> Approved(run.before[f])])])

\* A command that does not return; its context ends at the timeout.
Hang == At("command") /\ run.todo # {} /\ Goto("hung")

\* commandTimeout is positive, 5 minutes if none is given.
Limited == TRUE

\* The process is killed.  Run goes on reading its output until every process
\* that inherited it has ended.
TimeOut ==
  /\ At("hung")
  /\ Limited
  /\ Quiet(Ended("refused")) \/ Goto("held")

Release == At("held") /\ Quiet(Ended("refused"))

-----------------------------------------------------------------------------
(* Collecting, comparing and writing *)

\* changedPaths, ignored and untracked files included, and filesDifferSnapshot.
Changed(r) == {p \in Paths : r.tree[p] # r.commit[p]}
Differing(r) == Changed(r) \cup {p \in Planned(r) : r.tree[p] # r.shot[p]}

ManifestsKept(r) == \A f \in DOMAIN r.before : r.tree[f] = Approved(r.before[f])
LocksGenerated(r) == \A p \in Required(r.groups) : r.tree[p] # Absent

AfterCollecting(made) == IF Len(made) = 1 THEN "worktree" ELSE "compare"

\* collectRegeneration, after which the worktree is removed.
Collect ==
  /\ At("collect")
  /\ ManifestsKept(run) /\ LocksGenerated(run)
  /\ Changed(run) \subseteq Planned(run)
  /\ \A p \in Differing(run) : run.tree[p] # Absent
  /\ LET files == {p \in Differing(run) : run.tree[p] # run.shot[p]}
         made == Append(run.made, [p \in files |-> run.tree[p]])
     IN Quiet([run EXCEPT !.pc = AfterCollecting(made), !.made = made,
                          !.left = Append(@, run.tree),
                          !.commit = Nothing, !.tree = Nothing])

\* compareRegenerations.
Reproducible(r) == r.made[1] = r.made[2]

Compare ==
  /\ At("compare")
  /\ Reproducible(run)
  /\ \/ Quiet([run EXCEPT !.pc = "check", !.files = DOMAIN run.made[1]])
     \/ Quiet(Ended("preview")) \* as the caller asked

-----------------------------------------------------------------------------
(* writePlans.  The code takes the files in their order, and undoes them in   *)
(* reverse; what becomes of one does not depend on the others.                *)

\* writePlans is through with file p, which nobody has edited since.
Through(r, p) == [r EXCEPT !.files = @ \ {p}, !.edited = @ \ {p}]

\* rollback's files: those written, and the one that failed.
Undoing(r, p) ==
  [r EXCEPT !.pc = "undo", !.outcome = "restored",
            !.files = (DOMAIN r.made[1] \ r.files) \cup {p}]

\* What the regeneration changed must be as in the snapshot.
Fresh(r, p) == source[p] = r.shot[p]

\* validateWritePlans.  From here to the rename an edit of p goes unnoticed.
Check(p) ==
  /\ At("check") /\ p \in run.files
  /\ Fresh(run, p)
  /\ Quiet(Through(run, p))

AllChecked ==
  /\ At("check") /\ run.files = {}
  /\ Quiet([run EXCEPT !.pc = "store", !.files = DOMAIN run.made[1]])

\* atomicWrite of the new file: it may fail before the rename or after it.
Store(p) ==
  /\ At("store") /\ p \in run.files
  /\ \/ /\ source' = [source EXCEPT ![p] = run.made[1][p]]
        /\ run' \in {Through(run, p), Undoing(Through(run, p), p)}
     \/ Quiet(Undoing(run, p))

AllStored == At("store") /\ run.files = {} /\ Quiet(Finish(run, "written"))

\* rollback: remove a created file, atomicWrite of the old one otherwise, which
\* may fail after its rename too.
Undo(p) ==
  /\ At("undo") /\ p \in run.files
  /\ \/ /\ source' = [source EXCEPT ![p] = run.shot[p]]
        /\ \/ run' = Through(run, p)
           \/ /\ run.shot[p] # Absent
              /\ run' = [Through(run, p) EXCEPT !.outcome = "partial"]
     \/ Quiet([run EXCEPT !.files = @ \ {p}, !.outcome = "partial"])

AllUndone == At("undo") /\ run.files = {} /\ Quiet(Ended(run.outcome))

\* An error of any step, or of a guard above that does not hold.
Fail == run.pc \notin {"idle", "hung", "held", "store", "undo", "done"}
          /\ At(run.pc) /\ Quiet(Ended("refused"))

Return == At("done") /\ Quiet(Idle)

-----------------------------------------------------------------------------
(* People *)

Editable == Manifests(repo.entries)
              \cup Locks(Groups(repo.tree, repo.entries))

\* To delete a manifest stops a run as an error does, and is left out.
Edit(p) ==
  /\ edits < MaxEdits /\ edits' = edits + 1
  /\ \E c \in {Plain("old"), Plain("edited")} \cup
           (IF p \in Manifests(repo.entries) THEN {} ELSE {Absent}) :
       c # source[p] /\ source' = [source EXCEPT ![p] = c]
  /\ run' = IF run.flips = Nothing THEN run
            ELSE [run EXCEPT !.edited = @ \cup {p},
                             !.flips[p] = IF @ = 2 THEN 2 ELSE @ + 1]
  /\ UNCHANGED <<repo, head>>

Commit ==
  /\ edits < MaxEdits /\ edits' = edits + 1
  /\ head' = source /\ head # source
  /\ UNCHANGED <<repo, source, run>>

-----------------------------------------------------------------------------
\* A clean checkout, or one with a single change of a planned file.
Init ==
  /\ repo \in Repositories
  /\ head = [p \in Paths |-> IF p \in repo.tree.files THEN Plain("old") ELSE Absent]
  /\ \/ source = head
     \/ \E p \in Editable : source = [head EXCEPT ![p] = Plain("edited")]
  /\ run = Idle
  /\ edits = 0

Step ==
  \/ PlanManifests \/ PlanLocks \/ Snapshot \/ Validate \/ Revalidate
  \/ AddWorktree \/ (\E c \in run.todo : Command(c)) \/ CommandsDone
  \/ RestorePins \/ TimeOut \/ Collect \/ Compare
  \/ (\E p \in run.files : Check(p) \/ Store(p) \/ Undo(p))
  \/ AllChecked \/ AllStored \/ AllUndone \/ Fail \/ Return

Next ==
  \/ Begin
  \/ Step \/ Hang \/ Release
  \/ \E p \in Editable : Edit(p)
  \/ Commit

\* A run that was begun goes on; nothing else must happen.
Spec == Init /\ [][Next]_vars /\ WF_vars(Step)

-----------------------------------------------------------------------------
(* Properties *)

TypeOK ==
  /\ repo \in Repositories
  /\ source \in Checkouts /\ head \in Checkouts
  /\ edits \in 0..MaxEdits
  /\ run.pc \in Steps /\ run.outcome \in Outcomes
  /\ run.entries \subseteq repo.entries
  /\ DOMAIN run.before \in {{}, Manifests(run.entries)}
  /\ DOMAIN run.shot \in {{}, Planned(run)}
  /\ run.pc \in {"command", "hung", "held", "restore", "collect"} =>
       run.tree \in Checkouts /\ run.commit \in Checkouts
  /\ Len(run.made) <= 2 /\ Len(run.left) = Len(run.made)

\* After a write the checkout has, on every planned path that nobody edited
\* since, what either worktree was left with: nothing both regenerations did
\* not produce alike, and nothing of it missing (lockfiles.go:66-69;
\* docs/lockfile-updates.md:13-18).
Reproduced ==
  run.pc = "done" /\ run.outcome = "written" =>
    \A p \in Planned(run) \ run.edited :
      source[p] = run.left[1][p] /\ source[p] = run.left[2][p]

\* A write brings the manifests the report approved and a lockfile for each,
\* whatever the package managers did (docs/lockfile-updates.md:13-15).
ApprovedAndLocked ==
  run.pc = "done" /\ run.outcome = "written" =>
    /\ \A f \in DOMAIN run.before \ run.edited : source[f] = Approved(run.before[f])
    /\ \A p \in Required(run.groups) \ run.edited : source[p] # Absent

\* A run replaces only what was committed when it validated the checkout, and
\* in a rollback what it wrote itself; but for a file that somebody edited after
\* writePlans had checked it, or took back and edited again during the run.
\* (docs/lockfile-updates.md:20-22 says more, "no local work is silently
\* replaced"; the exceptions are what apply.go:103-106 and lockfiles.go:109-117
\* leave open between a look at a file and its use.)
ReplacesCommitted ==
  [][edits' = edits => \A p \in Paths :
       source'[p] # source[p] =>
         \/ source[p] \in {Absent, run.committed[p]}
         \/ run.pc = "undo" /\ source[p] = run.made[1][p]
         \/ run.pc \in {"store", "undo"} /\ p \in run.edited
         \/ run.flips[p] = 2]_vars

\* Every run ends, however its commands behave, unless a process outlives the
\* command that started it (lockfiles.go:601-603).
EndsUnlessHeld == run.pc # "idle" ~> run.pc \in {"idle", "held"}

\* docs/lockfile-updates.md:42-43, "Every command has bounded output and uses
\* `lockfileTimeout`": no command keeps a run for ever.
RunsEnd == run.pc # "idle" ~> run.pc = "idle"
=============================================================================
