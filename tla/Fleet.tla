------------------------------- MODULE Fleet -------------------------------
(***************************************************************************)
(* `hooneedsupdates update-repos`: one managed pull request for each of    *)
(* several repositories (runUpdateRepos and updateRepository in            *)
(* cmd/hooneedsupdates/main.go, Runner.Run, runRepository and              *)
(* prepareRepository in internal/automation/runner.go, and the clone and   *)
(* commit of internal/automation/git.go), run after run.                   *)
(*                                                                         *)
(* ManagedPull has the calls by which one repository is reconciled, here   *)
(* the single step Reconcile; RateLimit has the client that all of them    *)
(* share, here a cooldown that is on or off.                               *)
(***************************************************************************)
EXTENDS Naturals, Sequences, FiniteSets

CONSTANTS
  Names,      \* spellings of repositories, numbered in byte order
  Repos,      \* the repositories
  Fold,       \* the repository a spelling names, upper and lower case alike
  Requests,   \* the lists of spellings that are asked for
  Scheduled,  \* the one a schedule asks for, with --write
  Plans,      \* what may be outdated in a repository
  Leaves,     \* the files the apply of a plan returns, and `git status` after it
  Unsafe,     \* paths that no commit may name
  MaxFaults,  \* bound on failures of calls, panics and cancellations
  MaxLimits,  \* bound on GitHub's rate limits
  MaxChanges  \* bound on changes of the repositories

ASSUME NamesAssumption == IsFiniteSet(Names) /\ Names \subseteq Nat
ASSUME FoldAssumption == Fold \in [Names -> Repos]
ASSUME RequestsAssumption == Requests \subseteq Seq(Names) /\ Scheduled \in Requests
ASSUME PlansAssumption ==
  /\ DOMAIN Leaves = Plans
  /\ Plans \cap {"current", "incomplete", "none"} = {}
ASSUME BoundsAssumption ==
  MaxFaults \in Nat /\ MaxLimits \in Nat /\ MaxChanges \in Nat

VARIABLES
  metadata,   \* what GitHub says of each repository
  inventory,  \* what a scan of its default branch selects
  synced,     \* the repositories whose managed pull request fits
  pushed,     \* the plan each managed branch was last pushed with
  cooldown,   \* 0, or the number of the rate limit that holds every call up
  run,        \* runUpdateRepos: the locals of Run and runRepository
  budget      \* what is left of the bounds

vars == <<metadata, inventory, synced, pushed, cooldown, run, budget>>
github == <<metadata, inventory, synced, pushed>>

-----------------------------------------------------------------------------
\* Refused: it resolves to another name, or is archived or disabled.
Metadata == {"good", "refused"}
Inventories == {"current", "incomplete"} \cup Plans

Steps == {"idle", "next", "repository", "clone", "update", "state", "commit",
          "reconcile", "report", "done"}
Actions == {"failed", "deferred", "previewed", "reconciled"}

\* A result for a repository; limit is its RetryAt and DeferralReason.
Result(n, action, limit) == [name |-> n, action |-> action, limit |-> limit]

\* queue holds the repositories not begun yet, results those done with.
\* asked and changed are history: the repositories of the run, and those whose
\* inventory changed since it began.
Idle == [pc |-> "idle", write |-> FALSE, queue |-> <<>>, name |-> 0,
         results |-> <<>>, found |-> "none",
         cancelled |-> FALSE, exit |-> 0, asked |-> {}, changed |-> {}]

Goto(r, pc) == [r EXCEPT !.pc = pc]

-----------------------------------------------------------------------------
(* Mistakes the properties must catch: forms of definitions below, named by  *)
(* what they get wrong.  The specification does not use them.                *)

AfterStopping(r, action) ==
  IF action # "reconciled" THEN Goto(r, "report") ELSE Goto(r, "next")
RestForgotten(r, limit) == <<>>
ExitOfLast(results) ==
  IF results # <<>> /\ results[Len(results)].action = "failed" THEN 1 ELSE 0
NothingUnexpected(t) == {s.path : s \in t.status} \subseteq t.files
ExitCounted(results) ==
  Cardinality({i \in DOMAIN results : results[i].action = "failed"})

-----------------------------------------------------------------------------
(* The command *)

\* Both lists, the arguments' and the configured one, must name a repository
\* once (validateAutomationRepositories).
Valid(list) ==
  list # <<>> /\ \A i, j \in DOMAIN list : Fold[list[i]] = Fold[list[j]] => i = j

\* uniqueRepositories: the first spelling of each, in byte order.
Unique(list) ==
  LET firsts == {list[i] : i \in {k \in DOMAIN list :
                   \A j \in 1..(k - 1) : Fold[list[j]] # Fold[list[k]]}}
  IN CHOOSE s \in [1..Cardinality(firsts) -> firsts] :
       \A i, j \in DOMAIN s : i < j => s[i] < s[j]

\* Arguments that are refused exit 2, a configured list 1 (config.Load); here
\* both exit 2, which stands for a run without results.
Begin(list, write) ==
  /\ run.pc = "idle"
  /\ run' = IF Valid(list)
            THEN [Idle EXCEPT !.pc = "next", !.write = write, !.queue = Unique(list),
                         !.asked = {Fold[list[i]] : i \in DOMAIN list}]
            ELSE [Idle EXCEPT !.pc = "done", !.exit = 2]
  /\ UNCHANGED <<github, cooldown, budget>>

At(pc) == run.pc = pc /\ UNCHANGED <<metadata, inventory>>
Quiet == UNCHANGED <<synced, pushed, cooldown, budget>>

\* After a deferral Run does not begin the other repositories.
After(r, action) ==
  IF action = "deferred" THEN Goto(r, "report") ELSE Goto(r, "next")
Rest(r, limit) ==
  [i \in DOMAIN r.queue |-> Result(r.queue[i], "deferred", limit)]

\* runRepository returns, and Run appends its result.
Finish(r, action, limit) ==
  LET results == Append(r.results, Result(r.name, action, limit))
  IN [After(r, action) EXCEPT
        !.results = IF action = "deferred" THEN results \o Rest(r, limit) ELSE results,
        !.queue = IF action = "deferred" THEN <<>> ELSE @,
        !.name = 0, !.found = "none"]

\* The loop of Run: a cancelled context fails whatever is left.
TakeNext(r) ==
  IF r.queue = <<>> THEN Goto(r, "report")
  ELSE LET taken == [r EXCEPT !.name = Head(r.queue), !.queue = Tail(@)]
       IN IF r.cancelled THEN Finish(taken, "failed", 0) ELSE Goto(taken, "repository")

Take == At("next") /\ Quiet /\ run' = TakeNext(run)

-----------------------------------------------------------------------------
(* Steps of runRepository.  A step may fail, or panic, which counts as a     *)
(* failure; a cancelled context fails the next call.                         *)

Fails ==
  /\ run.cancelled \/ (budget.faults > 0)
  /\ budget' = IF run.cancelled THEN budget ELSE [budget EXCEPT !.faults = @ - 1]
  /\ run' = Finish(run, "failed", 0)
  /\ UNCHANGED <<synced, cooldown>>

\* git, the file system, or a decision: it may fail but is never deferred.
Local(r) ==
  \/ ~run.cancelled /\ run' = r /\ Quiet
  \/ Fails /\ UNCHANGED pushed

\* The client's cooldown of an earlier call holds, cancelled or not, or GitHub
\* limits this one.
Deferred ==
  /\ IF cooldown # 0 THEN UNCHANGED <<cooldown, budget>>
     ELSE /\ ~run.cancelled /\ budget.limits > 0
          /\ cooldown' = MaxLimits - budget.limits + 1
          /\ budget' = [budget EXCEPT !.limits = @ - 1]
  /\ run' = Finish(run, "deferred", cooldown')
  /\ UNCHANGED synced

\* A call through the shared client.
Asked(r) ==
  \/ cooldown = 0 /\ Local(r)
  \/ (Fails \/ Deferred) /\ UNCHANGED pushed

R == Fold[run.name]

\* host.Repository, and what prepareRepository refuses in its answer.
Repository ==
  /\ At("repository")
  /\ Asked(IF metadata[R] = "good" THEN Goto(run, "clone")
           ELSE Finish(run, "failed", 0))

\* Clone of the default branch, and Head.
Clone == At("clone") /\ Local(Goto(run, "update"))

\* updateRepository: the scan, which asks GitHub too, and the apply.
Update ==
  /\ At("update")
  /\ Asked([run EXCEPT !.pc = "state", !.found = inventory[R]])

\* loadManagedState; handleUpdates refuses an apply that returned no files.
State ==
  /\ At("state")
  /\ Asked(IF run.found \notin Plans THEN Goto(run, "reconcile")
           ELSE IF Leaves[run.found].files = {} THEN Finish(run, "failed", 0)
           ELSE Goto(run, "commit"))

\* exactPathSet: `git status` shows the files the apply returned, no others,
\* each modified or untracked; expectedPaths: none with an unsafe name.
Exact(t) == {s.path : s \in t.status} = t.files
Supported(t) == \A s \in t.status : s.code \in {" M", "??"}
Committable(t) == t.files \cap Unsafe = {} /\ Supported(t) /\ Exact(t)

\* gitVCS.Commit: `git add` of the returned files, and the commit.
Commit ==
  /\ At("commit")
  /\ Local(IF Committable(Leaves[run.found]) THEN Goto(run, "reconcile")
           ELSE Finish(run, "failed", 0))

Push == IF run.write /\ run.found \in Plans
        THEN [pushed EXCEPT ![R] = run.found] ELSE pushed

\* What the handlers make of an inventory when nothing fails.
Reconciled(r) ==
  Finish(r, IF r.found = "incomplete" THEN "failed"
            ELSE IF r.write THEN "reconciled" ELSE "previewed", 0)

\* handleIncomplete, handleCurrent, previewUpdate and writeUpdate: ManagedPull.
\* A failure or a deferral may come before the branch is pushed or after it.
Reconcile ==
  /\ At("reconcile")
  /\ \/ /\ cooldown = 0 /\ ~run.cancelled
        /\ run' = Reconciled(run)
        /\ pushed' = Push
        /\ synced' = IF run.write /\ run.found # "incomplete" /\ run.found = inventory[R]
                     THEN synced \cup {R} ELSE synced
        /\ UNCHANGED <<cooldown, budget>>
     \/ (Fails \/ Deferred) /\ pushed' \in {pushed, Push}

-----------------------------------------------------------------------------
\* The exit code of main: 1 when any result has an error.
ExitOf(results) ==
  IF \E i \in DOMAIN results : results[i].action = "failed" THEN 1 ELSE 0

Report ==
  /\ At("report") /\ Quiet
  /\ run' = [run EXCEPT !.pc = "done", !.exit = ExitOf(run.results)]

Exit == At("done") /\ Quiet /\ run' = Idle

\* SIGINT or SIGTERM: main's context is cancelled, once.
Cancel ==
  /\ run.pc \notin {"idle", "report", "done"} /\ ~run.cancelled
  /\ budget.faults > 0 /\ budget' = [budget EXCEPT !.faults = @ - 1]
  /\ run' = [run EXCEPT !.cancelled = TRUE]
  /\ UNCHANGED <<github, cooldown>>

-----------------------------------------------------------------------------
(* GitHub and its users *)

CooldownEnds ==
  /\ cooldown # 0 /\ cooldown' = 0
  /\ UNCHANGED <<github, run, budget>>

Changes ==
  /\ budget.changes > 0 /\ budget' = [budget EXCEPT !.changes = @ - 1]
  /\ UNCHANGED <<pushed, cooldown>>

InventoryChanges(r) ==
  /\ Changes /\ synced' = synced \ {r}
  /\ \E i \in Inventories \ {inventory[r]} : inventory' = [inventory EXCEPT ![r] = i]
  /\ run' = [run EXCEPT !.changed = IF run.pc = "idle" THEN {} ELSE @ \cup {r}]
  /\ UNCHANGED metadata

MetadataChanges(r) ==
  /\ Changes
  /\ \E m \in Metadata \ {metadata[r]} : metadata' = [metadata EXCEPT ![r] = m]
  /\ UNCHANGED <<inventory, synced, run>>

-----------------------------------------------------------------------------
Init ==
  /\ metadata = [r \in Repos |-> "good"]
  /\ inventory = [r \in Repos |-> "current"]
  /\ synced = {}
  /\ pushed = [r \in Repos |-> "none"]
  /\ cooldown = 0
  /\ run = Idle
  /\ budget = [faults |-> MaxFaults, limits |-> MaxLimits, changes |-> MaxChanges]

Step == Take \/ Repository \/ Clone \/ Update \/ State \/ Commit \/ Reconcile \/ Report \/ Exit

Next ==
  \/ \E list \in Requests, write \in BOOLEAN : Begin(list, write)
  \/ Step
  \/ Cancel
  \/ CooldownEnds
  \/ \E r \in Repos : InventoryChanges(r) \/ MetadataChanges(r)

\* A run goes on to its end, cooldowns end, and the schedule starts new runs.
Fairness ==
  /\ WF_vars(Step)
  /\ WF_vars(CooldownEnds)
  /\ SF_vars(Begin(Scheduled, TRUE))

Spec == Init /\ [][Next]_vars /\ Fairness

-----------------------------------------------------------------------------
(* Properties *)

TypeOK ==
  /\ metadata \in [Repos -> Metadata] /\ inventory \in [Repos -> Inventories]
  /\ synced \subseteq Repos /\ pushed \in [Repos -> Plans \cup {"none"}]
  /\ cooldown \in 0..MaxLimits
  /\ run.pc \in Steps /\ run.write \in BOOLEAN /\ run.cancelled \in BOOLEAN
  /\ run.name \in Names \cup {0} /\ run.found \in Inventories \cup {"none"}
  /\ \A i \in DOMAIN run.queue : run.queue[i] \in Names
  /\ \A i \in DOMAIN run.results :
       run.results[i] \in [name : Names, action : Actions, limit : 0..MaxLimits]
  /\ run.exit \in 0..2 /\ run.asked \subseteq Repos /\ run.changed \subseteq Repos
  /\ budget \in [faults : 0..MaxFaults, limits : 0..MaxLimits, changes : 0..MaxChanges]

Reported == run.pc = "done" /\ run.exit # 2
Deferrals == {i \in DOMAIN run.results : run.results[i].action = "deferred"}

\* Whatever fails, panics, is cancelled or limited, a run reports every
\* repository it was asked for once, and a deferral defers all that come
\* after it, until the same time (runner.go:64-85; docs/repository-automation.
\* md:17-21, "the affected and remaining repositories").
EveryRepositoryReported ==
  Reported =>
    /\ {Fold[run.results[i].name] : i \in DOMAIN run.results} = run.asked
    /\ Len(run.results) = Cardinality(run.asked)
    /\ \A i \in Deferrals : \A j \in i..Len(run.results) :
         j \in Deferrals /\ run.results[j].limit = run.results[i].limit

\* A run with --write exits zero only when each of its repositories has a
\* pull request that fits, or is deferred, or changed meanwhile
\* (main.go:145-150; docs/repository-automation.md:18-21).
ExitZeroMeansDone ==
  Reported /\ run.write /\ run.exit = 0 =>
    run.asked \subseteq
      synced \cup run.changed \cup {Fold[run.results[i].name] : i \in Deferrals}

\* A managed branch carries all that the apply left in the checkout and what
\* it returned, no more and no less (git.go:78-89; docs/repository-automation.
\* md:50, "rejects every changed path not returned").
PushedAsReturned ==
  \A r \in Repos : pushed[r] # "none" =>
    {s.path : s \in Leaves[pushed[r]].status} = Leaves[pushed[r]].files

\* Once failures, limits and changes end, every repository that can have a
\* fitting pull request gets it, whatever becomes of the others, those that
\* come before it in the order included (runner.go:67-84).
CanBeSynced(r) ==
  /\ metadata[r] = "good" /\ inventory[r] # "incomplete"
  /\ inventory[r] \in Plans =>
       LET t == Leaves[inventory[r]]
       IN /\ t.files # {} /\ t.files \cap Unsafe = {}
          /\ \A s \in t.status : s.code \in {" M", "??"}
          /\ {s.path : s \in t.status} = t.files

FleetConverges ==
  <>[](\A i \in DOMAIN Scheduled :
         CanBeSynced(Fold[Scheduled[i]]) => Fold[Scheduled[i]] \in synced)
=============================================================================
