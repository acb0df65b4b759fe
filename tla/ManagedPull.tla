----------------------------- MODULE ManagedPull -----------------------------
(***************************************************************************)
(* One repository under `hooneedsupdates automation`: the runner of        *)
(* internal/automation/runner.go carries the repository's update plan to   *)
(* one managed branch and one marked pull request, while people and GitHub *)
(* itself change the same branch and pull request between its calls, and   *)
(* any call may fail, be rate limited or lose its answer.                  *)
(*                                                                         *)
(* A plan stands for a complete report with outdated entries on one base   *)
(* commit.  gitVCS.Commit is deterministic (git.go:91-105), so the commit  *)
(* the runner makes for a plan is named by the plan.                       *)
(***************************************************************************)
EXTENDS Naturals, Sequences

CONSTANTS
  Plans,        \* outdated plans; also the bot commits made from them
  Foreign,      \* commits pushed to the managed branch by somebody else
  None,         \* no commit, no auto-merge method, no plan
  Current,      \* the inventory with nothing outdated
  Incomplete,   \* the inventory RequireComplete rejects
  Methods,      \* GitHub's merge methods
  Method,       \* settings.MergeMethod
  Modes,        \* write flags of New that runs use: TRUE publishes, FALSE previews
  CloseStale,   \* settings.CloseStale
  Draft,        \* settings.Draft
  MaxFaults,    \* bound: failing calls in a behaviour
  MaxActs       \* bound: acts of people and of GitHub in a behaviour

ASSUME DistinctNames ==
  /\ Plans \cap Foreign = {}
  /\ {None, Current, Incomplete} \cap (Plans \cup Foreign) = {}
  /\ None # Current /\ None # Incomplete /\ Current # Incomplete
ASSUME MethodAssumption == Method \in Methods /\ None \notin Methods
ASSUME SettingsAssumption ==
  Modes \subseteq BOOLEAN /\ CloseStale \in BOOLEAN /\ Draft \in BOOLEAN
ASSUME BoundsAssumption == MaxFaults \in Nat /\ MaxActs \in Nat

VARIABLES
  branch,     \* GitHub: the commit of the managed branch, None when absent
  pulls,      \* GitHub: every pull request from that branch, oldest first
  inventory,  \* what a scan of the default branch reports now
  policy,     \* the plans the auto-merge policy of the settings admits
  run,        \* the runner's repositoryState and Result
  faults,     \* calls that failed so far (bounds the behaviour)
  acts,       \* outside acts so far (bounds the behaviour)
  disturbed   \* history: an outside act or a fault has hit the current run

github == <<branch, pulls>>
vars == <<branch, pulls, inventory, policy, run, faults, acts, disturbed>>

-----------------------------------------------------------------------------
(* GitHub's side *)

Commits == Plans \cup Foreign
Inventories == Plans \cup {Current, Incomplete}
Notes == {"eligible", "manual", "draft"}
\* A body without the managed marker has no plan.
Bodies == [plan : Plans \cup {None}, note : Notes]
NoBody == [plan |-> None, note |-> "manual"]

\* byBot is a history field: the runner armed this auto-merge, not a person.
Pulls == [open : BOOLEAN, head : Commits, body : Bodies, draft : BOOLEAN,
          auto : Methods \cup {None}, byBot : BOOLEAN]

Managed(p) == p.body.plan # None
OpenPulls(ps) == {i \in DOMAIN ps : ps[i].open}

Disarm(p) == [p EXCEPT !.auto = None, !.byBot = FALSE]

\* An open pull request's head is its branch; without a branch it is closed,
\* and GitHub drops the auto-merge request of a closed pull request.
Follow(ps, c) ==
  [i \in DOMAIN ps |->
     IF ~ps[i].open THEN ps[i]
     ELSE IF c = None THEN Disarm([ps[i] EXCEPT !.open = FALSE])
     ELSE [ps[i] EXCEPT !.head = c]]

Closed(ps, n) == [ps EXCEPT ![n] = Disarm([ps[n] EXCEPT !.open = FALSE])]

-----------------------------------------------------------------------------
(* The runner's side *)

Steps == {"idle", "prepare", "pulls", "ref", "commit", "disable", "push",
          "upsert", "label", "reconcile", "delete", "close", "done"}
Actions == {"failed", "deferred", "current", "would-close", "closed",
            "would-create", "would-update", "unchanged", "created", "updated"}
AutoActions == {"", "would-enable", "would-disable", "would-reconfigure",
                "already-enabled", "not-eligible", "enabled", "reconfigured",
                "disabled"}

\* pull, auto, draft and body are the snapshot state.openPull (0 when nil);
\* evidence is ownedHeadSHA, remote the SHA read by Ref, owned branchOwned.
Runs == [pc : Steps, write : BOOLEAN, plan : Inventories \cup {None}, pull : Nat,
         auto : Methods \cup {None}, draft : BOOLEAN, body : Bodies,
         evidence : SUBSET Commits, remote : Commits \cup {None},
         owned : BOOLEAN, preDisabled : BOOLEAN,
         action : Actions, autoAction : AutoActions,
         forecast : Actions \X AutoActions]  \* history: see PreviewForecasts

Idle == [pc |-> "idle", write |-> FALSE, plan |-> None, pull |-> 0, auto |-> None,
         draft |-> FALSE, body |-> NoBody, evidence |-> {}, remote |-> None,
         owned |-> FALSE, preDisabled |-> FALSE,
         action |-> "failed", autoAction |-> "",
         forecast |-> <<"failed", "">>]

Goto(r, pc) == [r EXCEPT !.pc = pc]
Finish(r, action) == [r EXCEPT !.pc = "done", !.action = action]
Report(r, autoAction) == [r EXCEPT !.pc = "done", !.autoAction = autoAction]

-----------------------------------------------------------------------------
(* Mistakes the properties must catch: forms of definitions below, named by  *)
(* what they get wrong.  The specification does not use them.                *)

EvidenceWithoutPulls(ps) ==
  IF \E n \in DOMAIN ps : Managed(ps[n]) THEN {ps[Len(ps)].head} ELSE {None}
BranchChangedWhenAbsent(r) == r.remote = None
MetadataChangedIgnoringNote(r) == r.body.plan # r.plan
PreviewActionOfBranch(r) ==
  IF r.pull = 0 THEN "would-create"
  ELSE IF r.remote = r.plan THEN "unchanged" ELSE "would-update"
UnsafeIgnoringPolicy(r) == r.auto \notin {None, Method}
UnsafeAlways(r) == r.auto # None
HandleIncompleteIdle(r) == Finish(r, "failed")
HandleUpdatesUnguarded(r) == Goto(r, "commit")

-----------------------------------------------------------------------------
(* The decisions of one run, as functions of its snapshot *)

\* The head SHA of the newest marked pull request, when there is one.
Evidence(ps) ==
  {ps[i].head : i \in {m \in DOMAIN ps :
     /\ Managed(ps[m])
     /\ \A n \in DOMAIN ps : Managed(ps[n]) => n <= m}}

\* autoMergeDecision with every clause about settings, repository and entries
\* folded into policy, and handleUpdates' veto for a draft pull request.
Fits(plan) == plan \in policy /\ ~Draft
Eligible(r) == Fits(r.plan) /\ ~(r.pull # 0 /\ r.draft)

NoteFor(r) == IF r.pull # 0 /\ r.draft THEN "draft"
              ELSE IF Fits(r.plan) THEN "eligible" ELSE "manual"
BodyFor(r) == [plan |-> r.plan, note |-> NoteFor(r)]

BranchChanged(r) == r.remote # r.plan
MetadataChanged(r) == r.body # BodyFor(r)

PreviewAction(r) ==
  IF r.pull = 0 THEN "would-create"
  ELSE IF ~BranchChanged(r) /\ ~MetadataChanged(r) THEN "unchanged"
  ELSE "would-update"

PlannedAutoAction(r) ==
  CASE Eligible(r) /\ r.auto \notin {None, Method} -> "would-reconfigure"
    [] Eligible(r) /\ r.auto = None                -> "would-enable"
    [] ~Eligible(r) /\ r.auto # None               -> "would-disable"
    [] r.auto = Method /\ Eligible(r)              -> "already-enabled"
    [] OTHER                                       -> "not-eligible"

PreviewAutoAction(r) ==
  IF r.pull # 0 THEN PlannedAutoAction(r)
  ELSE IF Eligible(r) THEN "would-enable" ELSE ""

Forecast(r) == <<PreviewAction(r), PreviewAutoAction(r)>>

\* The request disableUnsafeAutoMerge must revoke before anything moves.
Unsafe(r) == r.auto # None /\ ~(Eligible(r) /\ r.auto = Method)

Publish(r) == Goto(r, IF BranchChanged(r) THEN "push" ELSE "upsert")

HandleIncomplete(r) ==
  IF r.pull = 0 \/ r.auto = None THEN Finish(r, "failed")
  ELSE IF ~r.write THEN Report(Finish(r, "failed"), "would-disable")
  ELSE Goto(r, "disable")

HandleCurrent(r) ==
  IF ~CloseStale \/ (r.pull = 0 /\ ~(r.owned /\ r.remote # None))
  THEN Finish(r, "current")
  ELSE IF ~r.write THEN Finish(r, "would-close")
  ELSE Goto(r, IF r.remote # None THEN "delete" ELSE "close")

HandleUpdates(r) ==
  IF r.remote # None /\ r.pull = 0 /\ ~r.owned THEN Finish(r, "failed")
  ELSE Goto(r, "commit")

\* runRepository's choice of handler, once loadManagedState has the snapshot.
Handle(r) ==
  CASE r.plan = Incomplete -> HandleIncomplete(r)
    [] r.plan = Current    -> HandleCurrent(r)
    [] OTHER               -> HandleUpdates(r)

-----------------------------------------------------------------------------
(* Calls.  A fault costs one of MaxFaults: the call fails, is deferred by    *)
(* the rate limiter before it reached GitHub, or took effect although the    *)
(* runner saw an error (a lost answer, or the process dying after the call). *)

Answered(r) == run' = r /\ UNCHANGED <<faults, disturbed>>

Fault(outcomes) ==
  /\ faults < MaxFaults
  /\ faults' = faults + 1
  /\ disturbed' = TRUE
  /\ \E outcome \in outcomes : run' = Finish(run, outcome)

\* A read, or local work, that leaves GitHub alone.
Local(r, outcomes) ==
  /\ UNCHANGED github
  /\ Answered(r) \/ Fault(outcomes)

\* A mutation GitHub either performs, giving ps and c, or refuses.
Call(accepted, c, ps, r, outcomes) ==
  \/ accepted /\ branch' = c /\ pulls' = ps /\ Answered(r)
  \/ ~accepted /\ UNCHANGED github /\ Answered(Finish(run, "failed"))
  \/ UNCHANGED github /\ Fault(outcomes)
  \/ accepted /\ branch' = c /\ pulls' = ps /\ Fault({"failed"})

\* Only calls through githubapi.Client can be deferred; git can only fail.
Api == {"failed", "deferred"}
Git == {"failed"}

At(pc) == run.pc = pc /\ UNCHANGED <<inventory, policy, acts>>

-----------------------------------------------------------------------------
(* The steps of one run *)

Start(write) ==
  /\ At("idle")
  /\ run' = [Goto(Idle, "prepare") EXCEPT !.write = write]
  /\ UNCHANGED <<github, faults, disturbed>>

\* prepareRepository: metadata, clone, head, scan and apply in the checkout.
Prepare ==
  /\ At("prepare")
  /\ Local([Goto(run, "pulls") EXCEPT !.plan = inventory], Api)

\* selectPull refuses an open pull request without the marker.
ListPulls ==
  /\ At("pulls")
  /\ LET open == OpenPulls(pulls)
         listed == [Goto(run, "ref") EXCEPT !.evidence = Evidence(pulls)]
     IN \/ open = {} /\ Local(listed, Api)
        \/ \E n \in open : \* GitHub keeps at most one open
             Local(IF ~Managed(pulls[n]) THEN Finish(run, "failed")
                   ELSE [listed EXCEPT !.pull = n, !.auto = pulls[n].auto,
                                       !.draft = pulls[n].draft,
                                       !.body = pulls[n].body], Api)

\* The second half of loadManagedState: another request, at a later time.
ReadRef ==
  /\ At("ref")
  /\ LET owned == \/ run.pull # 0
                  \/ /\ run.evidence # {}
                     /\ branch = None \/ branch \in run.evidence
     IN Local(Handle([run EXCEPT !.remote = branch, !.owned = owned]), Api)

\* gitVCS.Commit, then previewUpdate or the first part of writeUpdate.
Commit ==
  /\ At("commit")
  /\ LET r == [run EXCEPT !.forecast = Forecast(run)]
     IN Local(IF ~r.write THEN Report(Finish(r, r.forecast[1]), r.forecast[2])
              ELSE IF Unsafe(r) THEN Goto(r, "disable") ELSE Publish(r), Git)

Disarmed(n) == [pulls EXCEPT ![n] = Disarm(pulls[n])]

\* GitHub may refuse to disable a request that is no longer there.
MayDisable(n) == IF pulls[n].auto # None THEN {TRUE} ELSE BOOLEAN

DisableUnsafe ==
  /\ At("disable")
  /\ \E ok \in MayDisable(run.pull) :
       Call(ok, branch, Disarmed(run.pull),
            IF run.plan = Incomplete
            THEN Report(Finish(run, "failed"), "disabled")
            ELSE Publish([run EXCEPT !.auto = None, !.preDisabled = TRUE]), Api)

\* --force-with-lease: the remote branch must still be what Ref returned.
Push ==
  /\ At("push")
  /\ Call(branch = run.remote, run.plan, Follow(pulls, run.plan),
          Goto(run, "upsert"), Git)

NewPull == [open |-> TRUE, head |-> branch, body |-> BodyFor(run),
            draft |-> Draft, auto |-> None, byBot |-> FALSE]

\* GitHub refuses a second open pull request for one head and base.
CreatePull ==
  /\ At("upsert") /\ run.pull = 0
  /\ Call(branch # None /\ OpenPulls(pulls) = {},
          branch, Append(pulls, NewPull),
          [Goto(run, "label") EXCEPT !.pull = Len(pulls) + 1,
                                     !.action = "created"], Api)

\* The answer replaces the snapshot; a pre-disabled request stays dropped.
UpdatePull ==
  /\ At("upsert") /\ run.pull # 0 /\ MetadataChanged(run)
  /\ Call(TRUE, branch, [pulls EXCEPT ![run.pull].body = BodyFor(run)],
          [Goto(run, "label") EXCEPT
             !.auto = IF run.preDisabled THEN None ELSE pulls[run.pull].auto,
             !.action = "updated"], Api)

KeepPull ==
  /\ At("upsert") /\ run.pull # 0 /\ ~MetadataChanged(run)
  /\ Local([Goto(run, "label") EXCEPT
              !.action = IF BranchChanged(run) THEN "updated" ELSE "unchanged"],
           {})

AddLabels ==
  /\ At("label")
  /\ Local(Goto(run, "reconcile"), Api)

Armed(n) == [pulls EXCEPT ![n].auto = Method, ![n].byBot = TRUE]

EnableAutoMerge ==
  /\ At("reconcile") /\ Eligible(run) /\ run.auto = None
  /\ Call(pulls[run.pull].open, branch, Armed(run.pull),
          Report(run, IF run.preDisabled THEN "reconfigured" ELSE "enabled"),
          Api)

\* Only reached when UpdatePull's answer shows a request the listing did not.
DisableLate ==
  /\ At("reconcile") /\ ~Eligible(run) /\ run.auto # None
  /\ \E ok \in MayDisable(run.pull) :
       Call(ok, branch, Disarmed(run.pull), Report(run, "disabled"), Api)

KeepAutoMerge ==
  /\ At("reconcile")
  /\ Eligible(run) <=> run.auto # None
  /\ Local(Report(run, IF Eligible(run) THEN "already-enabled"
                       ELSE IF run.preDisabled THEN "disabled"
                       ELSE "not-eligible"), {})

\* handleCurrent deletes under a lease before it closes.
DeleteBranch ==
  /\ At("delete")
  /\ Call(branch = run.remote, None, Follow(pulls, None),
          IF run.pull # 0 THEN Goto(run, "close") ELSE Finish(run, "closed"),
          Git)

ClosePull ==
  /\ At("close")
  /\ Call(TRUE, branch, Closed(pulls, run.pull), Finish(run, "closed"), Api)

\* runRepository returns its Result and removes the checkout.
Return ==
  /\ At("done")
  /\ run' = Idle
  /\ disturbed' = FALSE
  /\ UNCHANGED <<github, faults>>

RunnerStep ==
  \/ Prepare \/ ListPulls \/ ReadRef \/ Commit \/ DisableUnsafe \/ Push
  \/ CreatePull \/ UpdatePull \/ KeepPull \/ AddLabels
  \/ EnableAutoMerge \/ DisableLate \/ KeepAutoMerge
  \/ DeleteBranch \/ ClosePull \/ Return

-----------------------------------------------------------------------------
(* People and GitHub, between any two calls of the runner *)

Act ==
  /\ acts < MaxActs
  /\ acts' = acts + 1
  /\ disturbed' = (run.pc # "idle")
  /\ UNCHANGED <<run, faults>>

SomeonePushes ==
  /\ Act
  /\ \E c \in Foreign \ {branch} :
       branch' = c /\ pulls' = Follow(pulls, c)
  /\ UNCHANGED <<inventory, policy>>

SomeoneDeletesBranch ==
  /\ Act /\ branch # None
  /\ branch' = None /\ pulls' = Follow(pulls, None)
  /\ UNCHANGED <<inventory, policy>>

SomeoneCloses ==
  /\ Act
  /\ \E n \in OpenPulls(pulls) : pulls' = Closed(pulls, n)
  /\ UNCHANGED <<branch, inventory, policy>>

SomeoneReopens ==
  /\ Act /\ OpenPulls(pulls) = {}
  /\ \E n \in DOMAIN pulls :
       pulls[n].head = branch /\ pulls' = [pulls EXCEPT ![n].open = TRUE]
  /\ UNCHANGED <<branch, inventory, policy>>

\* Somebody opens a pull request of their own from the managed branch.
SomeoneOpens ==
  /\ Act /\ branch # None /\ OpenPulls(pulls) = {}
  /\ pulls' = Append(pulls, [open |-> TRUE, head |-> branch, body |-> NoBody,
                             draft |-> FALSE, auto |-> None, byBot |-> FALSE])
  /\ UNCHANGED <<branch, inventory, policy>>

SomeoneEdits ==
  /\ Act
  /\ \E n \in OpenPulls(pulls) :
       \/ pulls' = [pulls EXCEPT ![n].body = NoBody]
       \/ pulls' = [pulls EXCEPT ![n].draft = ~pulls[n].draft]
       \/ /\ pulls[n].auto = None
          /\ \E m \in Methods : pulls' = [pulls EXCEPT ![n].auto = m]
       \/ pulls[n].auto # None /\ pulls' = Disarmed(n)
  /\ UNCHANGED <<branch, inventory, policy>>

\* A merge changes the default branch, so another inventory follows.
PullMerges ==
  /\ Act
  /\ \E n \in OpenPulls(pulls) :
       /\ ~pulls[n].draft
       /\ pulls' = Closed(pulls, n)
       /\ branch' \in {branch, None}
       /\ inventory' \in Inventories \ {pulls[n].head}
  /\ UNCHANGED policy

\* The default branch, an upstream registry, or a rule moves on.
InventoryChanges ==
  /\ Act
  /\ inventory' \in Inventories \ {inventory}
  /\ UNCHANGED <<github, policy>>

\* A run reads its settings once, so a change takes effect between runs.
PolicyChanges ==
  /\ Act /\ run.pc = "idle"
  /\ policy' \in SUBSET Plans \ {policy}
  /\ UNCHANGED <<github, inventory>>

OutsideStep ==
  \/ SomeonePushes \/ SomeoneDeletesBranch \/ SomeoneCloses \/ SomeoneReopens
  \/ SomeoneOpens \/ SomeoneEdits \/ PullMerges
  \/ InventoryChanges \/ PolicyChanges

-----------------------------------------------------------------------------
Init ==
  /\ branch = None
  /\ pulls = <<>>
  /\ inventory \in Inventories
  /\ policy \in SUBSET Plans
  /\ run = Idle
  /\ faults = 0 /\ acts = 0 /\ disturbed = FALSE

Next == (\E write \in Modes : Start(write)) \/ RunnerStep \/ OutsideStep

Spec == Init /\ [][Next]_vars

\* The schedule keeps starting write runs, whatever previews people ask for in
\* between, and a started run keeps going: nothing in it waits for anybody.
\* Nothing is assumed of people or of GitHub's merges.
FairSpec == Spec /\ SF_vars(Start(TRUE)) /\ WF_vars(RunnerStep)

-----------------------------------------------------------------------------
(* Properties *)

TypeOK ==
  /\ branch \in Commits \cup {None}
  /\ pulls \in Seq(Pulls)
  /\ inventory \in Inventories
  /\ policy \in SUBSET Plans
  /\ run \in Runs
  /\ faults \in 0..MaxFaults /\ acts \in 0..MaxActs
  /\ disturbed \in BOOLEAN

\* An auto-merge request the runner made, on a plan the policy leaves manual.
Rides(n) ==
  /\ n \in DOMAIN pulls
  /\ pulls[n].open /\ pulls[n].byBot
  /\ pulls[n].head \in Plans /\ ~Fits(pulls[n].head)

\* While the policy stands, no step puts a manual plan under an auto-merge
\* request of the runner's: neither pushing the plan under a request armed for
\* an earlier one (disableUnsafeAutoMerge must come first, runner.go:265-278)
\* nor arming a pull request whose branch carries it (runner.go:401).
ManualPlanNeverRides ==
  [][policy' = policy => \A n \in DOMAIN pulls' : Rides(n)' => Rides(n)]_vars

\* The runner replaces or deletes somebody else's commit only as the very
\* commit it read (the lease), and only when its listing held a marked open
\* pull request, or named the commit as the head of the newest marked one
\* (runner.go:201-202, 212, 271-275, 359).
ForeignNeedsEvidence ==
  [][acts' = acts /\ branch \in Foreign /\ branch' # branch =>
       /\ branch = run.remote
       /\ run.pull # 0 \/ branch \in run.evidence]_vars

\* What a run that nothing disturbed and nothing refused leaves behind: the
\* plan's commit on the branch, one open marked pull request describing it, and
\* auto-merge requested exactly when policy and draft state allow it.
InSync(plan) ==
  /\ branch = plan
  /\ \E n \in DOMAIN pulls :
       LET fit == Fits(plan) /\ ~pulls[n].draft
       IN /\ OpenPulls(pulls) = {n}
          /\ pulls[n].body = [plan |-> plan,
                              note |-> IF pulls[n].draft THEN "draft"
                                       ELSE IF fit THEN "eligible"
                                       ELSE "manual"]
          /\ pulls[n].auto = IF fit THEN Method ELSE None

\* Nothing the runner owns is left once the plan is current.
Retired ==
  /\ \A n \in OpenPulls(pulls) : ~Managed(pulls[n])
  /\ branch # None => branch \notin Evidence(pulls)

CompletedRunInSync ==
  run.pc = "done" /\ ~disturbed /\ run.write =>
    /\ run.action \in {"created", "updated", "unchanged"} => InSync(run.plan)
    /\ run.action = "closed" => Retired

\* An undisturbed write run that found a managed pull request leaves no
\* auto-merge request on it unless the plan is eligible: not for a manual plan,
\* not for an incomplete one, not for a current one (runner.go:117-140,
\* 297-314, 343-371; docs/repository-automation.md:88-94, 155-156).
UnfitPullDisarmed ==
  run.pc = "done" /\ ~disturbed /\ run.write /\ run.pull # 0 /\ ~Eligible(run) =>
    pulls[run.pull].auto = None

\* What a write run does with the snapshot that a preview foretold action and
\* auto-merge action f for.
Realised(f) ==
  << CASE f[1] = "would-create" -> "created"
       [] f[1] = "would-update" -> "updated"
       [] OTHER -> f[1],
     CASE f[2] = "would-enable" -> "enabled"
       [] f[2] = "would-reconfigure" -> "reconfigured"
       [] f[2] = "would-disable" -> "disabled"
       [] f[2] = "" -> "not-eligible"
       [] OTHER -> f[2] >>

\* previewUpdate (runner.go:238-257, 537-551) and writeUpdate with its helpers
\* (runner.go:259-341, 387-425) decide apart; undisturbed, they must agree.
PreviewForecasts ==
  /\ run.pc = "done" /\ ~disturbed /\ run.write
  /\ run.action \in {"created", "updated", "unchanged"}
  => <<run.action, run.autoAction>> = Realised(run.forecast)

\* A run of a plan that GitHub already shows leaves GitHub as it is: nothing
\* is withdrawn to be put back (README.md "idempotent GitHub update-PR
\* lifecycle"; the early returns at runner.go:305-308 and 394-397).
RerunChangesNothing ==
  [][acts' = acts /\ ~disturbed /\ ~disturbed'
     /\ run.plan \in Plans /\ InSync(run.plan) => UNCHANGED github]_vars

\* A branch or a pull request the runner refuses to touch (runner.go:212, 443):
\* somebody has to remove it.
Refused ==
  \/ \E n \in OpenPulls(pulls) : ~Managed(pulls[n])
  \/ branch # None /\ OpenPulls(pulls) = {} /\ branch \notin Evidence(pulls)

Settled ==
  \/ inventory \in Plans /\ InSync(inventory)
  \/ inventory = Current /\ (CloseStale => Retired)
  \/ /\ inventory = Incomplete
     /\ \A n \in OpenPulls(pulls) : Managed(pulls[n]) => pulls[n].auto = None

\* Once faults and outside acts cease, repeated runs bring GitHub to what the
\* inventory calls for, unless ownership evidence is missing.
Converges == <>[](Settled \/ Refused)

\* The documentation's "resumable" deferral (docs/repository-automation.md:
\* 17-19): what a rate-limited run left undone, later runs finish, as long as
\* nobody else touches the repository.
DeferredWorkResumes ==
  (run.pc = "done" /\ run.action = "deferred" /\ acts = 0)
    ~> (acts # 0 \/ Settled)

\* docs/repository-automation.md:155-156: with autoMerge.enabled off, the next
\* run removes pending native auto-merge requests.
ManualSettingDisarms ==
  run.pc = "done" /\ ~disturbed /\ run.write /\ run.pull # 0 /\ policy = {} =>
    pulls[run.pull].auto = None

\* README.md:243 promises an "idempotent GitHub update-PR lifecycle": as long as
\* nobody acts and no call fails, a run that finds the pull request of an
\* earlier run has nothing left to change.
RerunIdempotent ==
  [][acts' = 0 /\ faults' = 0 /\ run.evidence # {} => UNCHANGED github]_vars
=============================================================================
