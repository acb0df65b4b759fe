------------------------- MODULE ManagedPull_proofs -------------------------
(***************************************************************************)
(* For every set of plans, foreign commits and merge methods, and for any  *)
(* number of faults and outside acts: ManagedPull's states are well typed, *)
(* the runner never puts a manual plan under an auto-merge request of its  *)
(* own, and it discards somebody else's commit only on evidence.  A run    *)
(* that nothing disturbs does what its preview said, leaves the plan in    *)
(* sync and no request on an unfit one, and changes nothing when rerun.    *)
(*                                                                         *)
(* IInv holds in every state, whatever people and faults do between two    *)
(* calls.  Undisturbed adds what a run may rely on until one of them hits  *)
(* it: its snapshot still describes GitHub.  The second needs the first.   *)
(***************************************************************************)
EXTENDS ManagedPull, TLAPS

-----------------------------------------------------------------------------
(* The inductive invariant *)

\* GitHub's side: at most one pull request is open; it shows its branch; a
\* closed one is disarmed.
HubOK(c, ps) ==
  /\ c \in Commits \cup {None}
  /\ ps \in Seq(Pulls)
  /\ \A n \in DOMAIN ps :
       /\ ps[n].open => ps[n].head = c
       /\ ~ps[n].open => ~ps[n].byBot
       /\ ps[n].byBot => ps[n].auto # None
       /\ \A m \in DOMAIN ps : ps[m].open /\ ps[n].open => m = n

\* A run past its listing, until it is done.
Listed == {"ref", "commit", "disable", "push", "upsert", "label", "reconcile",
           "delete", "close"}

\* The snapshot names a pull request that exists, where a call will use it.
SnapshotOK ==
  /\ run.pull # 0 => run.pull \in DOMAIN pulls
  /\ run.auto # None => run.pull # 0
  /\ run.pc \in {"disable", "label", "reconcile", "close"} => run.pull # 0
  /\ run.pc \in {"pulls", "ref"} => run.plan \in Inventories
  /\ run.pc \in {"prepare", "pulls", "ref"} => ~run.preDisabled
  /\ run.pc \in {"commit", "push", "upsert", "label", "reconcile"} =>
       run.plan \in Plans
  /\ run.pc = "disable" => run.plan \in Plans \cup {Incomplete}

\* A request of the runner's own is one the snapshot shows, so that what the
\* run decides about the snapshot it decides about every such request.
ArmedIsSeen ==
  /\ run.pc \in Listed =>
       \A n \in DOMAIN pulls :
         pulls[n].open /\ pulls[n].byBot => n = run.pull /\ run.auto # None
  /\ run.preDisabled => run.auto = None
  /\ run.pc = "push" => run.auto = None \/ Eligible(run)

\* Once the run's commit is on the branch only outsiders move the branch.
BranchIsOurs ==
  (\/ run.pc \in {"upsert", "label", "reconcile"}
   \/ run.pc \in {"commit", "disable"} /\ run.plan \in Plans /\ ~BranchChanged(run))
  => branch \in {run.plan, None} \cup Foreign

\* A run about to push or delete has its evidence.
OwnershipOK ==
  /\ run.pc \in {"commit", "disable", "push"} /\ run.plan \in Plans =>
       run.remote = None \/ run.pull # 0 \/ run.remote \in run.evidence
  /\ run.pc = "delete" =>
       run.remote # None /\ (run.pull # 0 \/ run.remote \in run.evidence)

RunOK == SnapshotOK /\ ArmedIsSeen /\ BranchIsOurs /\ OwnershipOK

IInv == TypeOK /\ HubOK(branch, pulls) /\ RunOK

-----------------------------------------------------------------------------
(* What each change of GitHub's side preserves *)

\* A push or a deletion, by anybody: open pull requests follow the branch.
LEMMA FollowOK ==
  ASSUME NEW c \in Commits \cup {None}, HubOK(branch, pulls)
  PROVE  /\ HubOK(c, Follow(pulls, c))
         /\ DOMAIN Follow(pulls, c) = DOMAIN pulls
<1> DEFINE Moved(n) == IF ~pulls[n].open THEN pulls[n]
                       ELSE IF c = None THEN Disarm([pulls[n] EXCEPT !.open = FALSE])
                       ELSE [pulls[n] EXCEPT !.head = c]
           ps == Follow(pulls, c)
<1>1. ps = [n \in 1..Len(pulls) |-> Moved(n)] /\ DOMAIN pulls = 1..Len(pulls)
  BY DEF HubOK, Follow
<1>2. ASSUME NEW n \in DOMAIN pulls
      PROVE  /\ Moved(n) \in Pulls
             /\ Moved(n).open => c # None /\ pulls[n].open /\ Moved(n).head = c
             /\ ~Moved(n).open => ~Moved(n).byBot
             /\ Moved(n).byBot => Moved(n).auto # None
  <2>1. pulls[n] \in Pulls BY DEF HubOK
  <2> QED BY <2>1 DEF HubOK, Disarm, Pulls, Commits
<1>3. Len(pulls) \in Nat BY DEF HubOK
<1>4. ps \in Seq(Pulls)
  <2> HIDE DEF Moved
  <2> QED BY <1>1, <1>2, <1>3
<1> HIDE DEF Moved, ps
<1>5. \A n \in DOMAIN pulls : ps[n] = Moved(n)
  BY <1>1
<1> QED BY <1>1, <1>2, <1>4, <1>5 DEF HubOK, ps

\* Somebody's new pull request, on a branch none is open for.
LEMMA AppendOK ==
  ASSUME HubOK(branch, pulls), OpenPulls(pulls) = {},
         NEW p \in Pulls, p.open, p.head = branch, ~p.byBot
  PROVE  /\ HubOK(branch, Append(pulls, p))
         /\ DOMAIN Append(pulls, p) = 1..(Len(pulls) + 1)
         /\ DOMAIN pulls = 1..Len(pulls)
         /\ \A n \in DOMAIN pulls : Append(pulls, p)[n] = pulls[n]
         /\ Append(pulls, p)[Len(pulls) + 1] = p
BY DEF HubOK, OpenPulls, Pulls

\* One pull request changes; it stays as disarmed as HubOK needs.
LEMMA UpdateOK ==
  ASSUME HubOK(branch, pulls), NEW n \in DOMAIN pulls, NEW p \in Pulls,
         p.open => p.head = branch, ~p.open => ~p.byBot,
         p.byBot => p.auto # None,
         p.open => pulls[n].open \/ OpenPulls(pulls) = {}
  PROVE  /\ HubOK(branch, [pulls EXCEPT ![n] = p])
         /\ DOMAIN [pulls EXCEPT ![n] = p] = DOMAIN pulls
BY DEF HubOK, OpenPulls

-----------------------------------------------------------------------------
(* What each change of the run preserves *)

\* r and q agree on everything the run read.
SameSnapshot(r, q) ==
  /\ q.plan = r.plan /\ q.pull = r.pull /\ q.auto = r.auto /\ q.draft = r.draft
  /\ q.remote = r.remote /\ q.evidence = r.evidence /\ q.owned = r.owned
  /\ q.preDisabled = r.preDisabled

\* A run that ends claims nothing but its own past.
LEMMA EndOK ==
  ASSUME IInv, HubOK(branch', pulls'), DOMAIN pulls \subseteq DOMAIN pulls',
         run'.pc = "done", SameSnapshot(run, run')
  PROVE  RunOK'
BY DEF IInv, RunOK, SnapshotOK, ArmedIsSeen, BranchIsOurs, OwnershipOK, Listed,
       SameSnapshot

\* Ending a run, with any result, is well typed.
LEMMA FinishType ==
  ASSUME NEW r \in Runs, NEW o \in Actions
  PROVE  /\ Finish(r, o) \in Runs
         /\ Finish(r, o).pc = "done"
         /\ SameSnapshot(r, Finish(r, o))
BY DEF Finish, Runs, Steps, SameSnapshot

LEMMA ReportType ==
  ASSUME NEW r \in Runs, NEW o \in AutoActions
  PROVE  /\ Report(r, o) \in Runs
         /\ Report(r, o).pc = "done"
         /\ SameSnapshot(r, Report(r, o))
BY DEF Report, Runs, Steps, SameSnapshot

LEMMA GotoType ==
  ASSUME NEW r \in Runs, NEW pc \in Steps
  PROVE  /\ Goto(r, pc) \in Runs
         /\ Goto(r, pc).pc = pc
         /\ SameSnapshot(r, Goto(r, pc))
BY DEF Goto, Runs, SameSnapshot

\* A fault ends the run, whether or not the call took effect.
LEMMA FaultOK ==
  ASSUME IInv, NEW outcomes \in SUBSET Actions, Fault(outcomes),
         UNCHANGED <<inventory, policy, acts>>,
         HubOK(branch', pulls'), DOMAIN pulls \subseteq DOMAIN pulls'
  PROVE  IInv'
<1>1. PICK o \in Actions : run' = Finish(run, o)
  BY DEF Fault
<1>2. run \in Runs BY DEF IInv, TypeOK
<1>3. /\ run' \in Runs /\ run'.pc = "done" /\ SameSnapshot(run, run')
  BY <1>1, <1>2, FinishType
<1>4. RunOK'
  BY <1>3, EndOK
<1>5. TypeOK'
  BY <1>3, BoundsAssumption DEF IInv, TypeOK, Fault, HubOK
<1> QED BY <1>4, <1>5 DEF IInv

\* An answered call leaves a state whose run must be examined.
LEMMA AnswerOK ==
  ASSUME IInv, NEW r \in Runs, Answered(r),
         UNCHANGED <<inventory, policy, acts>>,
         HubOK(branch', pulls'), RunOK'
  PROVE  IInv'
BY DEF IInv, TypeOK, Answered, HubOK

\* A call that only reads: its answer must be examined, its faults are fine.
LEMMA LocalOK ==
  ASSUME IInv, NEW r \in Runs, NEW outcomes \in SUBSET Actions,
         Local(r, outcomes), UNCHANGED <<inventory, policy, acts>>,
         Answered(r) /\ UNCHANGED github => RunOK'
  PROVE  IInv'
<1>1. UNCHANGED github /\ HubOK(branch', pulls') /\ DOMAIN pulls \subseteq DOMAIN pulls'
  BY DEF Local, github, IInv, HubOK
<1>2. CASE Answered(r)
  BY <1>1, <1>2, AnswerOK
<1>3. CASE Fault(outcomes)
  BY <1>1, <1>3, FaultOK
<1> QED BY <1>2, <1>3 DEF Local

\* A mutation: its effect and its answer must be examined.
LEMMA CallOK ==
  ASSUME IInv, NEW accepted \in BOOLEAN, NEW c, NEW ps, NEW r \in Runs,
         NEW outcomes \in SUBSET Actions,
         Call(accepted, c, ps, r, outcomes), UNCHANGED <<inventory, policy, acts>>,
         accepted => HubOK(c, ps) /\ DOMAIN pulls \subseteq DOMAIN ps,
         accepted /\ branch' = c /\ pulls' = ps /\ Answered(r) => RunOK'
  PROVE  IInv'
<1>1. CASE accepted /\ branch' = c /\ pulls' = ps /\ Answered(r)
  BY <1>1, AnswerOK
<1>2. CASE UNCHANGED github /\ Answered(Finish(run, "failed"))
  <2>1. HubOK(branch', pulls') /\ DOMAIN pulls \subseteq DOMAIN pulls'
    BY <1>2 DEF github, IInv
  <2>2. run \in Runs /\ "failed" \in Actions /\ run' = Finish(run, "failed")
    BY <1>2 DEF Answered, IInv, TypeOK, Actions
  <2>3. /\ run' \in Runs /\ run'.pc = "done" /\ SameSnapshot(run, run')
    BY <2>2, FinishType
  <2>4. RunOK'
    BY <2>1, <2>3, EndOK
  <2> QED BY <1>2, <2>1, <2>2, <2>3, <2>4, AnswerOK
<1>3. CASE UNCHANGED github /\ Fault(outcomes)
  BY <1>3, FaultOK DEF github, IInv
<1>4. CASE accepted /\ branch' = c /\ pulls' = ps /\ Fault({"failed"})
  BY <1>4, FaultOK DEF Actions
<1> QED BY <1>1, <1>2, <1>3, <1>4 DEF Call

-----------------------------------------------------------------------------
(* The steps of one run *)

\* Which handler a loaded snapshot goes to, and on what evidence.
LEMMA HandleOK ==
  ASSUME NEW r \in Runs, r.plan \in Inventories, r.auto # None => r.pull # 0
  PROVE  /\ Handle(r) \in Runs
         /\ SameSnapshot(r, Handle(r))
         /\ \/ Handle(r).pc = "done"
            \/ Handle(r).pc = "disable" /\ r.pull # 0 /\ r.plan = Incomplete
            \/ Handle(r).pc = "close" /\ r.pull # 0
            \/ /\ Handle(r).pc = "delete" /\ r.remote # None
               /\ r.pull # 0 \/ r.owned
            \/ /\ Handle(r).pc = "commit" /\ r.plan \in Plans
               /\ r.remote = None \/ r.pull # 0 \/ r.owned
<1> DEFINE failed == Finish(r, "failed")
<1>1. /\ failed \in Runs /\ failed.pc = "done" /\ SameSnapshot(r, failed)
      /\ \A o \in {"current", "would-close"} :
           /\ Finish(r, o) \in Runs /\ Finish(r, o).pc = "done"
           /\ SameSnapshot(r, Finish(r, o))
  BY FinishType DEF Actions
<1>2. /\ Report(failed, "would-disable") \in Runs
      /\ Report(failed, "would-disable").pc = "done"
      /\ SameSnapshot(r, Report(failed, "would-disable"))
  BY <1>1, ReportType DEF AutoActions, SameSnapshot
<1>3. \A pc \in {"disable", "delete", "close", "commit"} :
        /\ Goto(r, pc) \in Runs /\ Goto(r, pc).pc = pc
        /\ SameSnapshot(r, Goto(r, pc))
  BY GotoType DEF Steps
<1> HIDE DEF failed
<1>4. CASE r.plan = Incomplete
  <2>1. Handle(r) = HandleIncomplete(r) BY <1>4, DistinctNames DEF Handle
  <2> QED BY <1>1, <1>2, <1>3, <1>4, <2>1 DEF HandleIncomplete, failed
<1>5. CASE r.plan = Current
  <2>1. Handle(r) = HandleCurrent(r) BY <1>5, DistinctNames DEF Handle
  <2> QED BY <1>1, <1>3, <2>1 DEF HandleCurrent
<1>6. CASE r.plan \in Plans
  <2>1. Handle(r) = HandleUpdates(r) BY <1>6, DistinctNames DEF Handle
  <2> QED BY <1>1, <1>3, <1>6, <2>1 DEF HandleUpdates, failed
<1> QED BY <1>4, <1>5, <1>6 DEF Inventories

LEMMA ApiType == Api \in SUBSET Actions /\ Git \in SUBSET Actions
BY DEF Api, Git, Actions

LEMMA PrepareOK == IInv /\ Prepare => IInv'
<1> SUFFICES ASSUME IInv, Prepare PROVE IInv' OBVIOUS
<1> DEFINE r == [Goto(run, "pulls") EXCEPT !.plan = inventory]
<1>1. r \in Runs
  BY DEF IInv, TypeOK, Goto, Runs, Steps
<1>2. ASSUME run' = r, UNCHANGED github PROVE RunOK'
  BY <1>2 DEF Prepare, At, github, IInv, TypeOK, Runs, Goto, RunOK, SnapshotOK,
     ArmedIsSeen, BranchIsOurs, OwnershipOK, Listed
<1> QED BY <1>1, <1>2, LocalOK, ApiType DEF Prepare, At, Answered

LEMMA ListPullsOK == IInv /\ ListPulls => IInv'
<1> SUFFICES ASSUME IInv, ListPulls PROVE IInv' OBVIOUS
<1> DEFINE listed == [Goto(run, "ref") EXCEPT !.evidence = Evidence(pulls)]
           taken(n) == [listed EXCEPT !.pull = n, !.auto = pulls[n].auto,
                                      !.draft = pulls[n].draft,
                                      !.body = pulls[n].body]
<1>1. run \in Runs /\ run.pc = "pulls" /\ HubOK(branch, pulls)
  BY DEF IInv, TypeOK, ListPulls, At
<1>2. Evidence(pulls) \in SUBSET Commits
  <2>1. \A i \in DOMAIN pulls : pulls[i].head \in Commits
    <3>1. \A i \in DOMAIN pulls : pulls[i] \in Pulls BY <1>1 DEF HubOK
    <3> QED BY <3>1 DEF Pulls
  <2> QED BY <2>1 DEF Evidence
<1>3. listed \in Runs
  BY <1>1, <1>2 DEF Goto, Runs, Steps
<1>4. CASE OpenPulls(pulls) = {} /\ Local(listed, Api)
  <2>1. ASSUME run' = listed, UNCHANGED github PROVE RunOK'
    BY <1>1, <1>4, <2>1 DEF github, IInv, Runs, Goto, RunOK, SnapshotOK,
       ArmedIsSeen, BranchIsOurs, OwnershipOK, Listed, OpenPulls
  <2> QED BY <1>3, <1>4, <2>1, LocalOK, ApiType DEF ListPulls, At, Answered
<1>5. ASSUME NEW n \in OpenPulls(pulls), Managed(pulls[n]), Local(taken(n), Api)
      PROVE  IInv'
  <2>1. n \in DOMAIN pulls /\ n \in Nat /\ n # 0 /\ pulls[n] \in Pulls /\ pulls[n].open
    BY <1>1 DEF OpenPulls, HubOK
  <2>2. taken(n) \in Runs
    BY <1>3, <2>1 DEF Runs, Pulls
  <2>3. \A m \in DOMAIN pulls : pulls[m].open /\ pulls[m].byBot =>
          m = n /\ pulls[n].auto # None
    BY <1>1, <2>1 DEF HubOK
  <2>4. ASSUME run' = taken(n), UNCHANGED github PROVE RunOK'
    <3>1. /\ run'.pc = "ref" /\ run'.pull = n /\ run'.auto = pulls[n].auto
          /\ run'.plan = run.plan /\ run'.preDisabled = run.preDisabled
      BY <1>1, <2>4 DEF Runs, Goto
    <3> QED BY <1>1, <2>1, <2>3, <2>4, <3>1
       DEF github, IInv, RunOK, SnapshotOK, ArmedIsSeen, BranchIsOurs,
           OwnershipOK, Listed
  <2> QED BY <1>5, <2>2, <2>4, LocalOK, ApiType DEF ListPulls, At, Answered
<1>6. CASE Local(Finish(run, "failed"), Api)
  <2>1. /\ Finish(run, "failed") \in Runs /\ Finish(run, "failed").pc = "done"
        /\ SameSnapshot(run, Finish(run, "failed"))
    BY <1>1, FinishType DEF Actions
  <2>2. ASSUME run' = Finish(run, "failed"), UNCHANGED github PROVE RunOK'
    BY <1>1, <2>1, <2>2, EndOK DEF github
  <2> QED BY <1>6, <2>1, <2>2, LocalOK, ApiType DEF ListPulls, At, Answered
<1> QED BY <1>4, <1>5, <1>6 DEF ListPulls

LEMMA ReadRefOK == IInv /\ ReadRef => IInv'
<1> SUFFICES ASSUME IInv, ReadRef PROVE IInv' OBVIOUS
<1>1. /\ run \in Runs /\ run.pc = "ref" /\ branch \in Commits \cup {None}
      /\ HubOK(branch, pulls) /\ RunOK /\ UNCHANGED <<inventory, policy, acts>>
  BY DEF IInv, TypeOK, ReadRef, At
<1>2. PICK owned \in BOOLEAN :
        /\ owned => \/ run.pull # 0
                    \/ run.evidence # {} /\ (branch = None \/ branch \in run.evidence)
        /\ Local(Handle([run EXCEPT !.remote = branch, !.owned = owned]), Api)
  BY DEF ReadRef
<1> DEFINE r == [run EXCEPT !.remote = branch, !.owned = owned]
           h == Handle(r)
<1>3. /\ r \in Runs /\ r.plan = run.plan /\ r.pull = run.pull
      /\ r.auto = run.auto /\ r.preDisabled = run.preDisabled
      /\ r.evidence = run.evidence /\ r.remote = branch /\ r.owned = owned
  BY <1>1 DEF Runs
<1>4. r.plan \in Inventories /\ (r.auto # None => r.pull # 0)
  BY <1>1, <1>3 DEF RunOK, SnapshotOK
<1> HIDE DEF r
<1>5. /\ h \in Runs /\ SameSnapshot(r, h)
      /\ \/ h.pc = "done"
         \/ h.pc = "disable" /\ r.pull # 0 /\ r.plan = Incomplete
         \/ h.pc = "close" /\ r.pull # 0
         \/ h.pc = "delete" /\ r.remote # None /\ (r.pull # 0 \/ r.owned)
         \/ /\ h.pc = "commit" /\ r.plan \in Plans
            /\ r.remote = None \/ r.pull # 0 \/ r.owned
  BY <1>3, <1>4, HandleOK
<1> HIDE DEF h
<1>6. ASSUME run' = h, UNCHANGED github PROVE RunOK'
  <2>1. SnapshotOK'
    BY <1>1, <1>3, <1>5, <1>6 DEF github, RunOK, SnapshotOK, SameSnapshot
  <2>2. ArmedIsSeen'
    BY <1>1, <1>3, <1>5, <1>6 DEF github, RunOK, ArmedIsSeen, SameSnapshot, Listed
  <2>3. BranchIsOurs'
    BY <1>1, <1>3, <1>5, <1>6, DistinctNames
       DEF github, BranchIsOurs, BranchChanged, SameSnapshot
  <2>4. OwnershipOK'
    BY <1>1, <1>2, <1>3, <1>5, <1>6, DistinctNames
       DEF github, OwnershipOK, SameSnapshot
  <2> QED BY <2>1, <2>2, <2>3, <2>4 DEF RunOK
<1> QED BY <1>1, <1>2, <1>5, <1>6, LocalOK, ApiType DEF Answered, r, h

\* Publish goes on to push or, with the branch already right, to upsert.
LEMMA PublishOK ==
  ASSUME NEW r \in Runs
  PROVE  /\ Publish(r) \in Runs /\ SameSnapshot(r, Publish(r))
         /\ \/ Publish(r).pc = "push" /\ BranchChanged(r)
            \/ Publish(r).pc = "upsert" /\ ~BranchChanged(r)
BY GotoType DEF Publish, Steps

LEMMA ForecastType ==
  ASSUME NEW r \in Runs
  PROVE  PreviewAction(r) \in Actions /\ PreviewAutoAction(r) \in AutoActions
BY DEF PreviewAction, PreviewAutoAction, PlannedAutoAction, Actions, AutoActions

LEMMA CommitOK == IInv /\ Commit => IInv'
<1> SUFFICES ASSUME IInv, Commit PROVE IInv' OBVIOUS
<1>1. /\ run \in Runs /\ run.pc = "commit" /\ run.plan \in Plans
      /\ HubOK(branch, pulls) /\ RunOK /\ UNCHANGED <<inventory, policy, acts>>
  BY DEF IInv, TypeOK, Commit, At, RunOK, SnapshotOK
<1> DEFINE r == [run EXCEPT !.forecast = Forecast(run)]
           preview == Report(Finish(r, r.forecast[1]), r.forecast[2])
           next == IF ~r.write THEN preview
                   ELSE IF Unsafe(r) THEN Goto(r, "disable") ELSE Publish(r)
<1>2. /\ r \in Runs /\ SameSnapshot(run, r)
      /\ r.forecast[1] \in Actions /\ r.forecast[2] \in AutoActions
  BY <1>1, ForecastType DEF Forecast, Runs, SameSnapshot
<1> HIDE DEF r
<1>3. preview \in Runs /\ preview.pc = "done" /\ SameSnapshot(r, preview)
  <2>1. Finish(r, r.forecast[1]) \in Runs /\ SameSnapshot(r, Finish(r, r.forecast[1]))
    BY <1>2, FinishType
  <2> QED BY <1>2, <2>1, ReportType DEF SameSnapshot
<1> HIDE DEF preview
<1>4. /\ next \in Runs /\ SameSnapshot(r, next)
      /\ \/ next.pc = "done"
         \/ next.pc = "disable" /\ r.auto # None
         \/ next.pc = "push" /\ BranchChanged(r) /\ (r.auto = None \/ Eligible(r))
         \/ next.pc = "upsert" /\ ~BranchChanged(r)
  BY <1>2, <1>3, PublishOK, GotoType DEF Unsafe, Steps
<1> HIDE DEF next
<1>5. ASSUME run' = next, UNCHANGED github PROVE RunOK'
  <2>1. /\ SameSnapshot(run, run') /\ (Eligible(r) => Eligible(run)')
        /\ BranchChanged(r) = BranchChanged(run)
    BY <1>1, <1>2, <1>4, <1>5 DEF SameSnapshot, Eligible, Fits, BranchChanged
  <2>2. SnapshotOK'
    BY <1>1, <1>2, <1>4, <1>5, <2>1 DEF github, RunOK, SnapshotOK, SameSnapshot
  <2>3. ArmedIsSeen'
    BY <1>1, <1>2, <1>4, <1>5, <2>1
       DEF github, RunOK, ArmedIsSeen, SameSnapshot, Listed
  <2>4. BranchIsOurs'
    BY <1>1, <1>2, <1>4, <1>5, <2>1
       DEF github, RunOK, BranchIsOurs, SameSnapshot, BranchChanged
  <2>5. OwnershipOK'
    BY <1>1, <1>2, <1>4, <1>5, <2>1 DEF github, RunOK, OwnershipOK, SameSnapshot
  <2> QED BY <2>2, <2>3, <2>4, <2>5 DEF RunOK
<1>6. Local(next, Git)
  BY DEF Commit, next, preview, r
<1> QED BY <1>1, <1>4, <1>5, <1>6, LocalOK, ApiType DEF Answered

\* Revoking the auto-merge request of a pull request.
LEMMA DisarmedOK ==
  ASSUME HubOK(branch, pulls), NEW n \in DOMAIN pulls
  PROVE  /\ HubOK(branch, Disarmed(n))
         /\ DOMAIN Disarmed(n) = DOMAIN pulls
         /\ ~Disarmed(n)[n].byBot
         /\ \A m \in DOMAIN pulls : /\ Disarmed(n)[m].open = pulls[m].open
                                    /\ Disarmed(n)[m].byBot => pulls[m].byBot /\ m # n
                                    /\ Disarmed(n)[m].head = pulls[m].head
<1> DEFINE p == Disarm(pulls[n])
<1>1. pulls[n] \in Pulls BY DEF HubOK
<1>2. /\ p \in Pulls /\ p.open = pulls[n].open /\ p.head = pulls[n].head /\ ~p.byBot
  BY <1>1 DEF Disarm, Pulls
<1> HIDE DEF p
<1>3. Disarmed(n) = [pulls EXCEPT ![n] = p]
  BY DEF Disarmed, p
<1>4. /\ HubOK(branch, Disarmed(n)) /\ DOMAIN Disarmed(n) = DOMAIN pulls
  BY <1>2, <1>3, UpdateOK DEF HubOK
<1> QED BY <1>2, <1>3, <1>4 DEF HubOK

LEMMA DisableUnsafeOK == IInv /\ DisableUnsafe => IInv'
<1> SUFFICES ASSUME IInv, DisableUnsafe PROVE IInv' OBVIOUS
<1>1. /\ run \in Runs /\ run.pc = "disable" /\ run.pull \in DOMAIN pulls
      /\ run.plan \in Plans \cup {Incomplete}
      /\ HubOK(branch, pulls) /\ RunOK /\ UNCHANGED <<inventory, policy, acts>>
  BY DEF IInv, TypeOK, DisableUnsafe, At, RunOK, SnapshotOK
<1> DEFINE last == Report(Finish(run, "failed"), "disabled")
           clear == [run EXCEPT !.auto = None, !.preDisabled = TRUE]
           next == IF run.plan = Incomplete THEN last ELSE Publish(clear)
<1>2. last \in Runs /\ last.pc = "done" /\ SameSnapshot(run, last)
  <2>1. Finish(run, "failed") \in Runs /\ SameSnapshot(run, Finish(run, "failed"))
    BY <1>1, FinishType DEF Actions
  <2> QED BY <2>1, ReportType DEF SameSnapshot, AutoActions
<1>3. /\ clear \in Runs /\ clear.auto = None /\ clear.plan = run.plan
      /\ clear.pull = run.pull /\ clear.remote = run.remote
      /\ clear.evidence = run.evidence /\ clear.preDisabled
  BY <1>1 DEF Runs
<1> HIDE DEF last, clear
<1>4. /\ next \in Runs
      /\ \/ next.pc = "done" /\ SameSnapshot(run, next)
         \/ /\ next.pc = "push" /\ SameSnapshot(clear, next)
            /\ run.plan \in Plans
         \/ /\ next.pc = "upsert" /\ SameSnapshot(clear, next)
            /\ run.plan \in Plans /\ ~BranchChanged(clear)
  BY <1>1, <1>2, <1>3, PublishOK
<1> HIDE DEF next
<1>5. ASSUME run' = next, branch' = branch, pulls' = Disarmed(run.pull) PROVE RunOK'
  <2>1. /\ DOMAIN pulls' = DOMAIN pulls
        /\ \A m \in DOMAIN pulls : pulls'[m].open /\ pulls'[m].byBot =>
             pulls[m].open /\ pulls[m].byBot /\ m # run.pull
    BY <1>1, <1>5, DisarmedOK
  <2>2. SnapshotOK'
    BY <1>1, <1>3, <1>4, <1>5, <2>1 DEF RunOK, SnapshotOK, SameSnapshot
  <2>3. ArmedIsSeen'
    BY <1>1, <1>3, <1>4, <1>5, <2>1 DEF RunOK, ArmedIsSeen, SameSnapshot, Listed
  <2>4. BranchIsOurs'
    BY <1>1, <1>3, <1>4, <1>5 DEF RunOK, BranchIsOurs, SameSnapshot, BranchChanged
  <2>5. OwnershipOK'
    BY <1>1, <1>3, <1>4, <1>5 DEF RunOK, OwnershipOK, SameSnapshot
  <2> QED BY <2>2, <2>3, <2>4, <2>5 DEF RunOK
<1>6. PICK ok \in BOOLEAN : Call(ok, branch, Disarmed(run.pull), next, Api)
  BY DEF DisableUnsafe, MayDisable, next, last, clear
<1>7. HubOK(branch, Disarmed(run.pull)) /\ DOMAIN Disarmed(run.pull) = DOMAIN pulls
  BY <1>1, DisarmedOK
<1> QED BY <1>1, <1>4, <1>5, <1>6, <1>7, CallOK, ApiType DEF Answered

LEMMA PushOK == IInv /\ Push => IInv'
<1> SUFFICES ASSUME IInv, Push PROVE IInv' OBVIOUS
<1>1. /\ run \in Runs /\ run.pc = "push" /\ run.plan \in Plans
      /\ HubOK(branch, pulls) /\ RunOK /\ UNCHANGED <<inventory, policy, acts>>
  BY DEF IInv, TypeOK, Push, At, RunOK, SnapshotOK
<1> DEFINE next == Goto(run, "upsert")
<1>2. next \in Runs /\ next.pc = "upsert" /\ SameSnapshot(run, next)
  BY <1>1, GotoType DEF Steps
<1> HIDE DEF next
<1>3. /\ HubOK(run.plan, Follow(pulls, run.plan))
      /\ DOMAIN Follow(pulls, run.plan) = DOMAIN pulls
  BY <1>1, FollowOK DEF Commits
<1>4. \A m \in DOMAIN pulls :
        /\ Follow(pulls, run.plan)[m].open <=> pulls[m].open
        /\ Follow(pulls, run.plan)[m].byBot <=> pulls[m].byBot
  <2>1. run.plan # None BY <1>1, DistinctNames
  <2>2. \A m \in DOMAIN pulls : pulls[m] \in Pulls BY <1>1 DEF HubOK
  <2> QED BY <2>1, <2>2 DEF Follow, Pulls
<1>5. ASSUME run' = next, branch' = run.plan, pulls' = Follow(pulls, run.plan)
      PROVE  RunOK'
  <2>1. SnapshotOK'
    BY <1>1, <1>2, <1>3, <1>5 DEF RunOK, SnapshotOK, SameSnapshot
  <2>2. ArmedIsSeen'
    BY <1>1, <1>2, <1>3, <1>4, <1>5 DEF RunOK, ArmedIsSeen, SameSnapshot, Listed
  <2>3. BranchIsOurs'
    BY <1>2, <1>5 DEF BranchIsOurs, SameSnapshot
  <2>4. OwnershipOK'
    BY <1>2, <1>5 DEF OwnershipOK
  <2> QED BY <2>1, <2>2, <2>3, <2>4 DEF RunOK
<1>6. Call(branch = run.remote, run.plan, Follow(pulls, run.plan), next, Git)
  BY DEF Push, next
<1> QED BY <1>1, <1>2, <1>3, <1>5, <1>6, CallOK, ApiType DEF Answered

LEMMA CreatePullOK == IInv /\ CreatePull => IInv'
<1> SUFFICES ASSUME IInv, CreatePull PROVE IInv' OBVIOUS
<1>1. /\ run \in Runs /\ run.pc = "upsert" /\ run.plan \in Plans /\ run.pull = 0
      /\ HubOK(branch, pulls) /\ RunOK /\ UNCHANGED <<inventory, policy, acts>>
      /\ Len(pulls) \in Nat
  BY DEF IInv, TypeOK, CreatePull, At, RunOK, SnapshotOK
<1> DEFINE next == [Goto(run, "label") EXCEPT !.pull = Len(pulls) + 1,
                                              !.action = "created"]
           accepted == branch # None /\ OpenPulls(pulls) = {}
<1>2. /\ next \in Runs /\ next.pc = "label" /\ next.pull = Len(pulls) + 1
      /\ next.plan = run.plan /\ next.auto = run.auto
      /\ next.preDisabled = run.preDisabled
  <2>1. /\ Goto(run, "label") \in Runs /\ Goto(run, "label").pc = "label"
        /\ SameSnapshot(run, Goto(run, "label"))
    BY <1>1, GotoType DEF Steps
  <2>2. Len(pulls) + 1 \in Nat /\ "created" \in Actions
    BY <1>1 DEF Actions
  <2> QED BY <2>1, <2>2 DEF Runs, SameSnapshot
<1> HIDE DEF next
<1>3. accepted => NewPull \in Pulls /\ NewPull.open /\ NewPull.head = branch
                  /\ ~NewPull.byBot
  BY <1>1, SettingsAssumption
     DEF NewPull, Pulls, BodyFor, NoteFor, Bodies, Notes, HubOK
<1>4. accepted => /\ HubOK(branch, Append(pulls, NewPull))
                  /\ DOMAIN Append(pulls, NewPull) = 1..(Len(pulls) + 1)
                  /\ DOMAIN pulls = 1..Len(pulls)
                  /\ \A n \in DOMAIN pulls : Append(pulls, NewPull)[n] = pulls[n]
                  /\ Append(pulls, NewPull)[Len(pulls) + 1] = NewPull
  BY <1>1, <1>3, AppendOK
<1>5. ASSUME accepted, run' = next, branch' = branch, pulls' = Append(pulls, NewPull)
      PROVE  RunOK'
  <2>1. SnapshotOK'
    BY <1>1, <1>2, <1>4, <1>5 DEF RunOK, SnapshotOK
  <2>2. \A n \in DOMAIN pulls' : ~(pulls'[n].open /\ pulls'[n].byBot)
    <3>1. \A n \in DOMAIN pulls : ~pulls[n].open
      BY <1>5 DEF OpenPulls
    <3> QED BY <1>1, <1>3, <1>4, <1>5, <3>1
  <2>3. ArmedIsSeen'
    BY <1>1, <1>2, <1>5, <2>2 DEF RunOK, ArmedIsSeen
  <2>4. BranchIsOurs' /\ OwnershipOK'
    BY <1>1, <1>2, <1>5 DEF RunOK, BranchIsOurs, OwnershipOK
  <2> QED BY <2>1, <2>3, <2>4 DEF RunOK
<1>6. Call(accepted, branch, Append(pulls, NewPull), next, Api)
  BY DEF CreatePull, next
<1>7. accepted => DOMAIN pulls \subseteq DOMAIN Append(pulls, NewPull)
  BY <1>1, <1>4
<1> QED BY <1>1, <1>2, <1>4, <1>5, <1>6, <1>7, CallOK, ApiType DEF Answered

LEMMA UpdatePullOK == IInv /\ UpdatePull => IInv'
<1> SUFFICES ASSUME IInv, UpdatePull PROVE IInv' OBVIOUS
<1>1. /\ run \in Runs /\ run.pc = "upsert" /\ run.plan \in Plans
      /\ run.pull \in DOMAIN pulls /\ run.pull # 0 /\ pulls[run.pull] \in Pulls
      /\ HubOK(branch, pulls) /\ RunOK /\ UNCHANGED <<inventory, policy, acts>>
  BY DEF IInv, TypeOK, UpdatePull, At, RunOK, SnapshotOK, HubOK
<1> DEFINE auto == IF run.preDisabled THEN None ELSE pulls[run.pull].auto
           next == [Goto(run, "label") EXCEPT !.auto = auto, !.action = "updated"]
           p == [pulls[run.pull] EXCEPT !.body = BodyFor(run)]
           ps == [pulls EXCEPT ![run.pull].body = BodyFor(run)]
<1>2. auto \in Methods \cup {None}
  BY <1>1 DEF Pulls
<1>3. /\ next \in Runs /\ next.pc = "label" /\ next.pull = run.pull
      /\ next.plan = run.plan /\ next.auto = auto
      /\ next.preDisabled = run.preDisabled
  BY <1>1, <1>2 DEF Goto, Runs, Steps, Actions
<1> HIDE DEF next
<1>4. /\ p \in Pulls /\ p.open = pulls[run.pull].open /\ p.byBot = pulls[run.pull].byBot
      /\ p.head = pulls[run.pull].head /\ p.auto = pulls[run.pull].auto
  BY <1>1 DEF Pulls, BodyFor, NoteFor, Bodies, Notes
<1>5. ps = [pulls EXCEPT ![run.pull] = p]
  OBVIOUS
<1> HIDE DEF p, ps
<1>6. HubOK(branch, ps) /\ DOMAIN ps = DOMAIN pulls
  BY <1>1, <1>4, <1>5, UpdateOK DEF HubOK
<1>7. \A m \in DOMAIN pulls : ps[m].open = pulls[m].open /\ ps[m].byBot = pulls[m].byBot
  BY <1>4, <1>5, <1>1 DEF HubOK
<1>8. ASSUME run' = next, branch' = branch, pulls' = ps PROVE RunOK'
  <2>1. SnapshotOK'
    BY <1>1, <1>3, <1>6, <1>8 DEF RunOK, SnapshotOK
  <2>2. ArmedIsSeen'
    BY <1>1, <1>3, <1>6, <1>7, <1>8 DEF RunOK, ArmedIsSeen, Listed, HubOK
  <2>3. BranchIsOurs' /\ OwnershipOK'
    BY <1>1, <1>3, <1>8 DEF RunOK, BranchIsOurs, OwnershipOK
  <2> QED BY <2>1, <2>2, <2>3 DEF RunOK
<1>9. Call(TRUE, branch, ps, next, Api)
  BY DEF UpdatePull, next, ps
<1> QED BY <1>1, <1>3, <1>6, <1>8, <1>9, CallOK, ApiType DEF Answered

LEMMA KeepPullOK == IInv /\ KeepPull => IInv'
<1> SUFFICES ASSUME IInv, KeepPull PROVE IInv' OBVIOUS
<1>1. /\ run \in Runs /\ run.pc = "upsert" /\ run.plan \in Plans /\ run.pull # 0
      /\ HubOK(branch, pulls) /\ RunOK /\ UNCHANGED <<inventory, policy, acts>>
  BY DEF IInv, TypeOK, KeepPull, At, RunOK, SnapshotOK
<1> DEFINE next == [Goto(run, "label") EXCEPT
                      !.action = IF BranchChanged(run) THEN "updated" ELSE "unchanged"]
<1>2. next \in Runs /\ next.pc = "label" /\ SameSnapshot(run, next)
  <2>1. PICK a \in Actions : next = [Goto(run, "label") EXCEPT !.action = a]
    BY DEF Actions
  <2>2. /\ Goto(run, "label") \in Runs /\ Goto(run, "label").pc = "label"
        /\ SameSnapshot(run, Goto(run, "label"))
    BY <1>1, GotoType DEF Steps
  <2> QED BY <2>1, <2>2 DEF Runs, SameSnapshot
<1> HIDE DEF next
<1>3. ASSUME run' = next, UNCHANGED github PROVE RunOK'
  BY <1>1, <1>2, <1>3 DEF github, RunOK, SnapshotOK, ArmedIsSeen, BranchIsOurs,
     OwnershipOK, Listed, SameSnapshot
<1>4. Local(next, {}) BY DEF KeepPull, next
<1> QED BY <1>1, <1>2, <1>3, <1>4, LocalOK DEF Answered

LEMMA AddLabelsOK == IInv /\ AddLabels => IInv'
<1> SUFFICES ASSUME IInv, AddLabels PROVE IInv' OBVIOUS
<1>1. /\ run \in Runs /\ run.pc = "label"
      /\ HubOK(branch, pulls) /\ RunOK /\ UNCHANGED <<inventory, policy, acts>>
  BY DEF IInv, TypeOK, AddLabels, At
<1> DEFINE next == Goto(run, "reconcile")
<1>2. next \in Runs /\ next.pc = "reconcile" /\ SameSnapshot(run, next)
  BY <1>1, GotoType DEF Steps
<1> HIDE DEF next
<1>3. ASSUME run' = next, UNCHANGED github PROVE RunOK'
  BY <1>1, <1>2, <1>3 DEF github, RunOK, SnapshotOK, ArmedIsSeen, BranchIsOurs,
     OwnershipOK, Listed, SameSnapshot
<1>4. Local(next, Api) BY DEF AddLabels, next
<1> QED BY <1>1, <1>2, <1>3, <1>4, LocalOK, ApiType DEF Answered

\* Reporting how auto-merge ended up ends the run.
LEMMA ReportedOK ==
  ASSUME IInv, HubOK(branch', pulls'), DOMAIN pulls \subseteq DOMAIN pulls',
         NEW o \in AutoActions, run' = Report(run, o)
  PROVE  RunOK' /\ Report(run, o) \in Runs
BY ReportType, EndOK DEF IInv, TypeOK

LEMMA EnableAutoMergeOK == IInv /\ EnableAutoMerge => IInv'
<1> SUFFICES ASSUME IInv, EnableAutoMerge PROVE IInv' OBVIOUS
<1>1. /\ run \in Runs /\ run.pc = "reconcile" /\ run.pull \in DOMAIN pulls
      /\ pulls[run.pull] \in Pulls
      /\ HubOK(branch, pulls) /\ RunOK /\ UNCHANGED <<inventory, policy, acts>>
  BY DEF IInv, TypeOK, EnableAutoMerge, At, RunOK, SnapshotOK, HubOK
<1> DEFINE o == IF run.preDisabled THEN "reconfigured" ELSE "enabled"
           p == [pulls[run.pull] EXCEPT !.auto = Method, !.byBot = TRUE]
           accepted == pulls[run.pull].open
<1>2. o \in AutoActions /\ Report(run, o) \in Runs
  BY <1>1, ReportType DEF AutoActions
<1>3. /\ p \in Pulls /\ p.auto = Method /\ p.open = pulls[run.pull].open
      /\ p.head = pulls[run.pull].head
  BY <1>1, MethodAssumption DEF Pulls
<1>4. Armed(run.pull) = [pulls EXCEPT ![run.pull] = p]
  BY DEF Armed
<1> HIDE DEF p
<1>5. accepted => HubOK(branch, Armed(run.pull)) /\ DOMAIN Armed(run.pull) = DOMAIN pulls
  <2> SUFFICES ASSUME accepted PROVE HubOK(branch, Armed(run.pull)) /\ DOMAIN Armed(run.pull) = DOMAIN pulls
    OBVIOUS
  <2>1. p.head = branch /\ p.open /\ p.auto # None /\ pulls[run.pull].open
    BY <1>1, <1>3, MethodAssumption DEF HubOK
  <2> QED BY <1>1, <1>3, <1>4, <2>1, UpdateOK
<1>6. accepted /\ branch' = branch /\ pulls' = Armed(run.pull) /\ run' = Report(run, o)
        => RunOK'
  BY <1>2, <1>5, ReportedOK
<1>7. Call(accepted, branch, Armed(run.pull), Report(run, o), Api)
  BY DEF EnableAutoMerge
<1>8. accepted \in BOOLEAN
  BY <1>1 DEF Pulls
<1> QED BY <1>1, <1>2, <1>5, <1>6, <1>7, <1>8, CallOK, ApiType DEF Answered

LEMMA DisableLateOK == IInv /\ DisableLate => IInv'
<1> SUFFICES ASSUME IInv, DisableLate PROVE IInv' OBVIOUS
<1>1. /\ run \in Runs /\ run.pc = "reconcile" /\ run.pull \in DOMAIN pulls
      /\ HubOK(branch, pulls) /\ RunOK /\ UNCHANGED <<inventory, policy, acts>>
  BY DEF IInv, TypeOK, DisableLate, At, RunOK, SnapshotOK
<1>2. "disabled" \in AutoActions /\ Report(run, "disabled") \in Runs
  BY <1>1, ReportType DEF AutoActions
<1>3. PICK ok \in BOOLEAN :
        Call(ok, branch, Disarmed(run.pull), Report(run, "disabled"), Api)
  BY DEF DisableLate, MayDisable
<1>4. HubOK(branch, Disarmed(run.pull)) /\ DOMAIN Disarmed(run.pull) = DOMAIN pulls
  BY <1>1, DisarmedOK
<1>5. ASSUME branch' = branch, pulls' = Disarmed(run.pull),
             run' = Report(run, "disabled")
      PROVE  RunOK'
  BY <1>2, <1>4, <1>5, ReportedOK
<1> QED BY <1>1, <1>2, <1>3, <1>4, <1>5, CallOK, ApiType DEF Answered

LEMMA KeepAutoMergeOK == IInv /\ KeepAutoMerge => IInv'
<1> SUFFICES ASSUME IInv, KeepAutoMerge PROVE IInv' OBVIOUS
<1>1. /\ run \in Runs /\ HubOK(branch, pulls)
      /\ UNCHANGED <<inventory, policy, acts>>
  BY DEF IInv, TypeOK, KeepAutoMerge, At
<1>2. PICK o \in AutoActions : Local(Report(run, o), {})
  BY DEF KeepAutoMerge, AutoActions
<1>3. Report(run, o) \in Runs
  BY <1>1, ReportType
<1>4. run' = Report(run, o) /\ UNCHANGED github => RunOK'
  BY <1>1, ReportedOK DEF github
<1> QED BY <1>1, <1>2, <1>3, <1>4, LocalOK DEF Answered

LEMMA DeleteBranchOK == IInv /\ DeleteBranch => IInv'
<1> SUFFICES ASSUME IInv, DeleteBranch PROVE IInv' OBVIOUS
<1>1. /\ run \in Runs /\ run.pc = "delete"
      /\ HubOK(branch, pulls) /\ RunOK /\ UNCHANGED <<inventory, policy, acts>>
  BY DEF IInv, TypeOK, DeleteBranch, At
<1> DEFINE next == IF run.pull # 0 THEN Goto(run, "close") ELSE Finish(run, "closed")
<1>2. /\ next \in Runs /\ SameSnapshot(run, next)
      /\ (next.pc = "close" /\ run.pull # 0) \/ next.pc = "done"
  BY <1>1, GotoType, FinishType DEF Steps, Actions
<1> HIDE DEF next
<1>3. HubOK(None, Follow(pulls, None)) /\ DOMAIN Follow(pulls, None) = DOMAIN pulls
  BY <1>1, FollowOK
<1>4. \A m \in DOMAIN pulls : ~Follow(pulls, None)[m].open
  <2>1. \A m \in DOMAIN pulls : pulls[m] \in Pulls BY <1>1 DEF HubOK
  <2> QED BY <2>1 DEF Follow, Disarm, Pulls
<1>5. ASSUME run' = next, branch' = None, pulls' = Follow(pulls, None) PROVE RunOK'
  BY <1>1, <1>2, <1>3, <1>4, <1>5 DEF RunOK, SnapshotOK, ArmedIsSeen,
     BranchIsOurs, OwnershipOK, Listed, SameSnapshot
<1>6. Call(branch = run.remote, None, Follow(pulls, None), next, Git)
  BY DEF DeleteBranch, next
<1> QED BY <1>1, <1>2, <1>3, <1>5, <1>6, CallOK, ApiType DEF Answered

\* Closing a pull request disarms it.
LEMMA ClosedOK ==
  ASSUME HubOK(branch, pulls), NEW n \in DOMAIN pulls, NEW c \in Commits \cup {None},
         c = branch \/ pulls[n].open
  PROVE  /\ HubOK(c, Closed(pulls, n))
         /\ DOMAIN Closed(pulls, n) = DOMAIN pulls
         /\ ~Closed(pulls, n)[n].open
         /\ \A m \in DOMAIN pulls : m # n => Closed(pulls, n)[m] = pulls[m]
<1> DEFINE p == Disarm([pulls[n] EXCEPT !.open = FALSE])
<1>1. pulls[n] \in Pulls BY DEF HubOK
<1>2. p \in Pulls /\ ~p.open /\ ~p.byBot
  BY <1>1 DEF Disarm, Pulls
<1> HIDE DEF p
<1>3. Closed(pulls, n) = [pulls EXCEPT ![n] = p]
  BY DEF Closed, p
<1>4. HubOK(branch, Closed(pulls, n)) /\ DOMAIN Closed(pulls, n) = DOMAIN pulls
  BY <1>2, <1>3, UpdateOK DEF HubOK
<1>5. \A m \in DOMAIN pulls : Closed(pulls, n)[m] = IF m = n THEN p ELSE pulls[m]
  BY <1>3 DEF HubOK
<1> QED BY <1>2, <1>4, <1>5 DEF HubOK

LEMMA ClosePullOK == IInv /\ ClosePull => IInv'
<1> SUFFICES ASSUME IInv, ClosePull PROVE IInv' OBVIOUS
<1>1. /\ run \in Runs /\ run.pc = "close" /\ run.pull \in DOMAIN pulls
      /\ HubOK(branch, pulls) /\ RunOK /\ UNCHANGED <<inventory, policy, acts>>
      /\ branch \in Commits \cup {None}
  BY DEF IInv, TypeOK, ClosePull, At, RunOK, SnapshotOK
<1>2. /\ Finish(run, "closed") \in Runs /\ Finish(run, "closed").pc = "done"
      /\ SameSnapshot(run, Finish(run, "closed"))
  BY <1>1, FinishType DEF Actions
<1>3. /\ HubOK(branch, Closed(pulls, run.pull))
      /\ DOMAIN Closed(pulls, run.pull) = DOMAIN pulls
  BY <1>1, ClosedOK
<1>4. branch' = branch /\ pulls' = Closed(pulls, run.pull)
        /\ run' = Finish(run, "closed") => RunOK'
  BY <1>2, <1>3, EndOK
<1>5. Call(TRUE, branch, Closed(pulls, run.pull), Finish(run, "closed"), Api)
  BY DEF ClosePull
<1> QED BY <1>1, <1>2, <1>3, <1>4, <1>5, CallOK, ApiType DEF Answered

LEMMA IdleType == Idle \in Runs /\ Idle.pc = "idle"
BY DEF Idle, Runs, Steps, Actions, AutoActions, NoBody, Bodies, Notes

LEMMA ReturnOK == IInv /\ Return => IInv'
<1> SUFFICES ASSUME IInv, Return PROVE IInv' OBVIOUS
<1>1. run' = Idle /\ UNCHANGED <<github, faults, inventory, policy, acts>> /\ ~disturbed'
  BY DEF Return, At
<1>2. RunOK'
  BY <1>1 DEF Idle, RunOK, SnapshotOK, ArmedIsSeen, BranchIsOurs, OwnershipOK, Listed
<1>3. HubOK(branch', pulls')
  BY <1>1 DEF IInv, github
<1>4. TypeOK'
  BY <1>1, <1>3, IdleType DEF Return, IInv, TypeOK, HubOK
<1> QED BY <1>2, <1>3, <1>4 DEF IInv

LEMMA StartOK == ASSUME IInv, NEW write \in Modes, Start(write) PROVE IInv'
<1> DEFINE first == [Goto(Idle, "prepare") EXCEPT !.write = write]
<1>1. run' = first /\ UNCHANGED <<github, faults, disturbed, inventory, policy, acts>>
  BY DEF Start, At
<1>2. /\ first \in Runs /\ first.pc = "prepare" /\ first.pull = 0
      /\ first.auto = None /\ first.preDisabled = FALSE
  <2>1. Goto(Idle, "prepare") \in Runs /\ Goto(Idle, "prepare").pc = "prepare"
        /\ SameSnapshot(Idle, Goto(Idle, "prepare"))
    BY IdleType, GotoType DEF Steps
  <2>2. Idle.pull = 0 /\ Idle.auto = None /\ Idle.preDisabled = FALSE
    BY DEF Idle
  <2>3. write \in BOOLEAN BY SettingsAssumption
  <2> QED BY <2>1, <2>2, <2>3 DEF Runs, SameSnapshot
<1> HIDE DEF first
<1>3. RunOK'
  BY <1>1, <1>2 DEF RunOK, SnapshotOK, ArmedIsSeen, BranchIsOurs, OwnershipOK, Listed
<1>4. HubOK(branch', pulls')
  BY <1>1 DEF IInv, github
<1>5. TypeOK'
  BY <1>1, <1>2, <1>4 DEF IInv, TypeOK, HubOK
<1> QED BY <1>3, <1>4, <1>5 DEF IInv

-----------------------------------------------------------------------------
(* Outside acts *)

\* What people and GitHub leave of the runner's own auto-merge requests, and
\* where they may move the branch.
OutsideEffect ==
  /\ HubOK(branch, pulls)'
  /\ DOMAIN pulls \subseteq DOMAIN pulls'
  /\ branch' \in {branch, None} \cup Foreign
  /\ \A n \in DOMAIN pulls' : pulls'[n].open /\ pulls'[n].byBot =>
       /\ n \in DOMAIN pulls /\ pulls[n].open /\ pulls[n].byBot
       /\ pulls'[n].head = pulls[n].head \/ pulls'[n].head \in Foreign

\* One open pull request changes in a way that arms nothing for the runner.
LEMMA EditEffect ==
  ASSUME HubOK(branch, pulls), NEW n \in DOMAIN pulls, NEW p \in Pulls,
         p.open = pulls[n].open, p.head = pulls[n].head,
         p.byBot => pulls[n].byBot /\ p.auto # None,
         branch' = branch, pulls' = [pulls EXCEPT ![n] = p]
  PROVE  OutsideEffect
<1>1. HubOK(branch, [pulls EXCEPT ![n] = p])
      /\ DOMAIN [pulls EXCEPT ![n] = p] = DOMAIN pulls
  BY UpdateOK DEF HubOK
<1>2. \A m \in DOMAIN pulls : [pulls EXCEPT ![n] = p][m] = IF m = n THEN p ELSE pulls[m]
  BY DEF HubOK
<1> QED BY <1>1, <1>2 DEF OutsideEffect

LEMMA OutsideStepEffect == ASSUME IInv, OutsideStep PROVE OutsideEffect
<1>1. HubOK(branch, pulls) /\ \A n \in DOMAIN pulls : pulls[n] \in Pulls
  BY DEF IInv, HubOK
<1>2. CASE SomeonePushes
  <2>1. PICK c \in Foreign : branch' = c /\ pulls' = Follow(pulls, c)
    BY <1>2 DEF SomeonePushes
  <2>2. c # None /\ c \in Commits
    BY DistinctNames DEF Commits
  <2>3. HubOK(c, Follow(pulls, c)) /\ DOMAIN Follow(pulls, c) = DOMAIN pulls
    BY <1>1, <2>2, FollowOK
  <2>4. \A m \in DOMAIN pulls :
          Follow(pulls, c)[m].open /\ Follow(pulls, c)[m].byBot =>
            /\ pulls[m].open /\ pulls[m].byBot /\ Follow(pulls, c)[m].head = c
    BY <1>1, <2>2 DEF Follow, Pulls
  <2> QED BY <2>1, <2>3, <2>4 DEF OutsideEffect
<1>3. CASE SomeoneDeletesBranch
  <2>1. branch' = None /\ pulls' = Follow(pulls, None)
    BY <1>3 DEF SomeoneDeletesBranch
  <2>2. HubOK(None, Follow(pulls, None)) /\ DOMAIN Follow(pulls, None) = DOMAIN pulls
    BY <1>1, FollowOK
  <2>3. \A m \in DOMAIN pulls : ~Follow(pulls, None)[m].open
    BY <1>1 DEF Follow, Disarm, Pulls
  <2> QED BY <2>1, <2>2, <2>3 DEF OutsideEffect
<1>4. CASE SomeoneCloses \/ PullMerges
  <2>1. PICK n \in DOMAIN pulls : /\ pulls[n].open /\ pulls' = Closed(pulls, n)
                                  /\ branch' \in {branch, None}
    BY <1>4 DEF SomeoneCloses, PullMerges, OpenPulls
  <2>2. branch' \in Commits \cup {None}
    BY <1>1, <2>1 DEF HubOK
  <2>3. /\ HubOK(branch', Closed(pulls, n))
        /\ DOMAIN Closed(pulls, n) = DOMAIN pulls /\ ~Closed(pulls, n)[n].open
        /\ \A m \in DOMAIN pulls : m # n => Closed(pulls, n)[m] = pulls[m]
    BY <1>1, <2>1, <2>2, ClosedOK
  <2> QED BY <2>1, <2>3 DEF OutsideEffect
<1>5. CASE SomeoneReopens
  <2>1. PICK n \in DOMAIN pulls : /\ pulls[n].head = branch /\ OpenPulls(pulls) = {}
                                  /\ pulls' = [pulls EXCEPT ![n].open = TRUE]
                                  /\ branch' = branch
    BY <1>5 DEF SomeoneReopens
  <2> DEFINE p == [pulls[n] EXCEPT !.open = TRUE]
  <2>2. /\ p \in Pulls /\ p.open /\ p.head = branch /\ ~p.byBot
        /\ pulls' = [pulls EXCEPT ![n] = p]
    BY <1>1, <2>1 DEF Pulls, HubOK, OpenPulls
  <2> HIDE DEF p
  <2>3. HubOK(branch, [pulls EXCEPT ![n] = p])
        /\ DOMAIN [pulls EXCEPT ![n] = p] = DOMAIN pulls
    BY <1>1, <2>1, <2>2, UpdateOK
  <2>4. \A m \in DOMAIN pulls : pulls'[m] = IF m = n THEN p ELSE pulls[m]
    BY <1>1, <2>2 DEF HubOK
  <2> QED BY <2>1, <2>2, <2>3, <2>4 DEF OutsideEffect
<1>6. CASE SomeoneOpens
  <2> DEFINE p == [open |-> TRUE, head |-> branch, body |-> NoBody,
                   draft |-> FALSE, auto |-> None, byBot |-> FALSE]
  <2>1. /\ OpenPulls(pulls) = {} /\ branch # None /\ branch' = branch
        /\ pulls' = Append(pulls, p)
    BY <1>6 DEF SomeoneOpens
  <2>2. p \in Pulls /\ p.open /\ p.head = branch /\ ~p.byBot
    BY <1>1, <2>1 DEF HubOK, Pulls, NoBody, Bodies, Notes
  <2> HIDE DEF p
  <2>3. /\ HubOK(branch, Append(pulls, p))
        /\ DOMAIN Append(pulls, p) = 1..(Len(pulls) + 1)
        /\ DOMAIN pulls = 1..Len(pulls) /\ Len(pulls) \in Nat
        /\ \A m \in DOMAIN pulls : Append(pulls, p)[m] = pulls[m]
        /\ Append(pulls, p)[Len(pulls) + 1] = p
    BY <1>1, <2>1, <2>2, AppendOK DEF HubOK
  <2> QED BY <2>1, <2>2, <2>3 DEF OutsideEffect
<1>7. CASE SomeoneEdits
  <2>1. PICK n \in DOMAIN pulls :
          /\ pulls[n].open /\ branch' = branch
          /\ \/ pulls' = [pulls EXCEPT ![n].body = NoBody]
             \/ pulls' = [pulls EXCEPT ![n].draft = ~pulls[n].draft]
             \/ /\ pulls[n].auto = None
                /\ \E m \in Methods : pulls' = [pulls EXCEPT ![n].auto = m]
             \/ pulls[n].auto # None /\ pulls' = Disarmed(n)
    BY <1>7 DEF SomeoneEdits, OpenPulls
  <2>2. pulls[n].byBot => pulls[n].auto # None
    BY <1>1 DEF HubOK
  <2>3. \E p \in Pulls : /\ p.open = pulls[n].open /\ p.head = pulls[n].head
                         /\ p.byBot => pulls[n].byBot /\ p.auto # None
                         /\ pulls' = [pulls EXCEPT ![n] = p]
    <3>1. CASE pulls' = [pulls EXCEPT ![n].body = NoBody]
      <4> DEFINE p == [pulls[n] EXCEPT !.body = NoBody]
      <4>1. p \in Pulls /\ p.open = pulls[n].open /\ p.head = pulls[n].head
            /\ p.byBot = pulls[n].byBot /\ p.auto = pulls[n].auto
        BY <1>1 DEF Pulls, NoBody, Bodies, Notes
      <4> QED BY <2>2, <3>1, <4>1
    <3>2. CASE pulls' = [pulls EXCEPT ![n].draft = ~pulls[n].draft]
      <4> DEFINE p == [pulls[n] EXCEPT !.draft = ~pulls[n].draft]
      <4>1. p \in Pulls /\ p.open = pulls[n].open /\ p.head = pulls[n].head
            /\ p.byBot = pulls[n].byBot /\ p.auto = pulls[n].auto
        BY <1>1 DEF Pulls
      <4> QED BY <2>2, <3>2, <4>1
    <3>3. CASE /\ pulls[n].auto = None
               /\ \E m \in Methods : pulls' = [pulls EXCEPT ![n].auto = m]
      <4>1. PICK m \in Methods : pulls' = [pulls EXCEPT ![n].auto = m]
        BY <3>3
      <4> DEFINE p == [pulls[n] EXCEPT !.auto = m]
      <4>2. p \in Pulls /\ p.open = pulls[n].open /\ p.head = pulls[n].head /\ ~p.byBot
        BY <1>1, <2>2, <3>3 DEF Pulls
      <4> QED BY <4>1, <4>2
    <3>4. CASE pulls' = Disarmed(n)
      <4> DEFINE p == Disarm(pulls[n])
      <4>1. p \in Pulls /\ p.open = pulls[n].open /\ p.head = pulls[n].head /\ ~p.byBot
        BY <1>1 DEF Disarm, Pulls
      <4> QED BY <3>4, <4>1 DEF Disarmed
    <3> QED BY <2>1, <3>1, <3>2, <3>3, <3>4
  <2> QED BY <1>1, <2>1, <2>3, EditEffect
<1>8. CASE InventoryChanges \/ PolicyChanges
  BY <1>1, <1>8 DEF InventoryChanges, PolicyChanges, github, OutsideEffect, HubOK
<1> QED BY <1>2, <1>3, <1>4, <1>5, <1>6, <1>7, <1>8 DEF OutsideStep

LEMMA OutsideOK == IInv /\ OutsideStep => IInv'
<1> SUFFICES ASSUME IInv, OutsideStep PROVE IInv' OBVIOUS
<1>1. /\ OutsideEffect /\ run' = run /\ faults' = faults
      /\ policy' = policy \/ run.pc = "idle"
  BY OutsideStepEffect DEF OutsideStep, Act, SomeonePushes, SomeoneDeletesBranch,
     SomeoneCloses, SomeoneReopens, SomeoneOpens, SomeoneEdits, PullMerges,
     InventoryChanges, PolicyChanges
<1>2. /\ acts < MaxActs /\ acts' = acts + 1 /\ disturbed' \in BOOLEAN
      /\ inventory' \in Inventories /\ policy' \in SUBSET Plans
  BY DEF IInv, TypeOK, OutsideStep, Act, SomeonePushes, SomeoneDeletesBranch,
     SomeoneCloses, SomeoneReopens, SomeoneOpens, SomeoneEdits, PullMerges,
     InventoryChanges, PolicyChanges
<1>3. TypeOK'
  BY <1>1, <1>2, BoundsAssumption DEF IInv, TypeOK, OutsideEffect, HubOK
<1>4. SnapshotOK'
  BY <1>1 DEF IInv, RunOK, SnapshotOK, OutsideEffect
<1>5. ArmedIsSeen'
  <2>1. run.pc = "push" => (Eligible(run))' = Eligible(run)
    BY <1>1 DEF Eligible, Fits
  <2> QED BY <1>1, <2>1 DEF IInv, RunOK, ArmedIsSeen, OutsideEffect, Listed
<1>6. BranchIsOurs' /\ OwnershipOK'
  BY <1>1 DEF IInv, RunOK, BranchIsOurs, BranchChanged, OwnershipOK, OutsideEffect
<1> QED BY <1>1, <1>3, <1>4, <1>5, <1>6 DEF IInv, RunOK, OutsideEffect

-----------------------------------------------------------------------------
(* The invariant, and what follows from it *)

LEMMA InitOK == Init => IInv
<1> SUFFICES ASSUME Init PROVE IInv OBVIOUS
<1>1. TypeOK
  <2>1. pulls \in Seq(Pulls) /\ run \in Runs
    BY IdleType DEF Init
  <2>2. /\ branch \in Commits \cup {None} /\ inventory \in Inventories
        /\ policy \in SUBSET Plans /\ disturbed \in BOOLEAN
    BY DEF Init
  <2>3. faults \in 0..MaxFaults /\ acts \in 0..MaxActs
    BY BoundsAssumption DEF Init
  <2> QED BY <2>1, <2>2, <2>3 DEF TypeOK
<1>2. HubOK(branch, pulls)
  BY DEF Init, HubOK
<1>3. RunOK
  BY DEF Init, Idle, RunOK, SnapshotOK, ArmedIsSeen, BranchIsOurs, OwnershipOK, Listed
<1> QED BY <1>1, <1>2, <1>3 DEF IInv

LEMMA StepOK == IInv /\ [Next]_vars => IInv'
<1> SUFFICES ASSUME IInv, [Next]_vars PROVE IInv' OBVIOUS
<1>1. ASSUME NEW write \in Modes, Start(write) PROVE IInv'
  BY <1>1, StartOK
<1>2. CASE RunnerStep
  BY <1>2, PrepareOK, ListPullsOK, ReadRefOK, CommitOK, DisableUnsafeOK, PushOK,
     CreatePullOK, UpdatePullOK, KeepPullOK, AddLabelsOK, EnableAutoMergeOK,
     DisableLateOK, KeepAutoMergeOK, DeleteBranchOK, ClosePullOK, ReturnOK
     DEF RunnerStep
<1>3. CASE OutsideStep
  BY <1>3, OutsideOK
<1>4. CASE UNCHANGED vars
  BY <1>4 DEF vars, IInv, TypeOK, HubOK, RunOK, SnapshotOK, ArmedIsSeen, Eligible,
     Fits, BranchIsOurs, BranchChanged, OwnershipOK
<1> QED BY <1>1, <1>2, <1>3, <1>4 DEF Next

THEOREM Invariance == Spec => []IInv
BY InitOK, StepOK, PTL DEF Spec

\* Every reachable state is well typed: in particular every snapshot the runner
\* acts on names a pull request GitHub has.
THEOREM TypeCorrect == Spec => []TypeOK
<1>1. IInv => TypeOK BY DEF IInv
<1> QED BY <1>1, Invariance, PTL

\* A runner's step moves GitHub only in these ways.
LEMMA RunnerEffect ==
  ASSUME IInv, RunnerStep
  PROVE  \/ UNCHANGED github
         \/ Push /\ branch = run.remote /\ branch' = run.plan
              /\ pulls' = Follow(pulls, run.plan)
         \/ DeleteBranch /\ branch = run.remote /\ branch' = None
              /\ pulls' = Follow(pulls, None)
         \/ EnableAutoMerge /\ branch' = branch /\ pulls' = Armed(run.pull)
              /\ pulls[run.pull].open
         \/ branch' = branch /\ pulls' = Disarmed(run.pull) /\ run.pull \in DOMAIN pulls
         \/ branch' = branch /\ pulls' = Append(pulls, NewPull)
         \/ branch' = branch /\ pulls' = [pulls EXCEPT ![run.pull].body = BodyFor(run)]
         \/ branch' = branch /\ pulls' = Closed(pulls, run.pull) /\ run.pull \in DOMAIN pulls
<1> USE DEF Call, Local, github
<1>1. CASE Prepare \/ ListPulls \/ ReadRef \/ Commit \/ KeepPull \/ AddLabels
           \/ KeepAutoMerge \/ Return
  BY <1>1 DEF Prepare, ListPulls, ReadRef, Commit, KeepPull, AddLabels,
     KeepAutoMerge, Return
<1>2. CASE DisableUnsafe \/ DisableLate
  BY <1>2 DEF DisableUnsafe, DisableLate, At, IInv, RunOK, SnapshotOK
<1>3. CASE Push
  BY <1>3 DEF Push
<1>4. CASE CreatePull \/ UpdatePull
  BY <1>4 DEF CreatePull, UpdatePull
<1>5. CASE EnableAutoMerge
  BY <1>5 DEF EnableAutoMerge
<1>6. CASE DeleteBranch
  BY <1>6 DEF DeleteBranch
<1>7. CASE ClosePull
  BY <1>7 DEF ClosePull, At, IInv, RunOK, SnapshotOK
<1> QED BY <1>1, <1>2, <1>3, <1>4, <1>5, <1>6, <1>7 DEF RunnerStep

\* Start only opens a run.
LEMMA StartEffect ==
  ASSUME NEW write, Start(write) PROVE UNCHANGED github
BY DEF Start

\* The runner discards somebody else's commit only under the lease on what it
\* read, and only on ownership evidence (runner.go:201-202, 212, 275, 359).
THEOREM ForeignCommitsSafe == Spec => ForeignNeedsEvidence
<1>1. ASSUME IInv, [Next]_vars, acts' = acts, branch \in Foreign, branch' # branch
      PROVE  branch = run.remote /\ (run.pull # 0 \/ branch \in run.evidence)
  <2>1. RunnerStep
    <3>1. ~OutsideStep
      BY <1>1 DEF IInv, TypeOK, OutsideStep, Act, SomeonePushes, SomeoneDeletesBranch,
         SomeoneCloses, SomeoneReopens, SomeoneOpens, SomeoneEdits, PullMerges,
         InventoryChanges, PolicyChanges
    <3> QED BY <1>1, <3>1, StartEffect DEF Next, vars, github
  <2>2. (Push \/ DeleteBranch) /\ branch = run.remote
    BY <1>1, <2>1, RunnerEffect DEF github
  <2>3. branch # None
    BY <1>1, DistinctNames
  <2> QED BY <1>1, <2>2, <2>3
      DEF Push, DeleteBranch, At, IInv, RunOK, SnapshotOK, OwnershipOK
<1> QED BY <1>1, Invariance, PTL DEF Spec, ForeignNeedsEvidence

\* The runner never puts a manual plan under an auto-merge request of its own:
\* a request that is armed while it pushes is one its snapshot shows and the
\* policy admits (runner.go:265-278), and when it arms one (runner.go:401) the
\* branch still carries its own plan or a commit that is not the runner's.
THEOREM ManualPlanSafe == Spec => ManualPlanNeverRides
<1>1. ASSUME IInv, IInv', [Next]_vars, policy' = policy, NEW n \in DOMAIN pulls',
             Rides(n)'
      PROVE  Rides(n)
  <2>1. /\ HubOK(branch, pulls) /\ RunOK /\ run \in Runs
        /\ \A m \in DOMAIN pulls : pulls[m] \in Pulls
    BY <1>1 DEF IInv, TypeOK, HubOK
  <2>2. /\ pulls'[n].open /\ pulls'[n].byBot
        /\ pulls'[n].head \in Plans /\ ~Fits(pulls'[n].head)
    BY <1>1 DEF Rides, Fits
  <2>3. CASE pulls' = pulls
    BY <2>2, <2>3, <1>1 DEF Rides
  <2>4. CASE OutsideStep
    <3>1. OutsideEffect BY <1>1, <2>4, OutsideStepEffect
    <3> QED BY <2>2, <3>1, DistinctNames DEF OutsideEffect, Rides
  <2>5. CASE Push /\ pulls' = Follow(pulls, run.plan)
    <3>1. /\ run.pc = "push" /\ run.plan \in Plans
          /\ \A m \in DOMAIN pulls :
               pulls[m].open /\ pulls[m].byBot => run.auto # None
          /\ run.auto = None \/ Eligible(run)
      BY <2>1, <2>5 DEF Push, At, RunOK, SnapshotOK, ArmedIsSeen, Listed
    <3>2. n \in DOMAIN pulls /\ run.plan # None
      BY <2>5, <3>1, DistinctNames DEF Follow
    <3>3. pulls[n].open /\ pulls[n].byBot /\ pulls'[n].head = run.plan
      BY <2>1, <2>2, <2>5, <3>2 DEF Follow, Pulls
    <3>4. Fits(run.plan)
      BY <3>1, <3>2, <3>3 DEF Eligible
    <3> QED BY <2>2, <3>3, <3>4
  <2>6. CASE DeleteBranch /\ pulls' = Follow(pulls, None)
    BY <2>1, <2>2, <2>6 DEF Follow, Disarm, Pulls
  <2>7. CASE EnableAutoMerge /\ pulls' = Armed(run.pull) /\ branch' = branch
             /\ pulls[run.pull].open
    <3>1. /\ run.pc = "reconcile" /\ run.plan \in Plans /\ Eligible(run)
          /\ run.pull \in DOMAIN pulls /\ branch \in {run.plan, None} \cup Foreign
      BY <2>1, <2>7 DEF EnableAutoMerge, At, RunOK, SnapshotOK, BranchIsOurs
    <3>2. CASE n = run.pull
      <4>1. pulls'[n].head = branch
        BY <2>1, <2>7, <3>1, <3>2 DEF Armed, HubOK, Pulls
      <4>2. branch = run.plan
        BY <2>2, <3>1, <4>1, DistinctNames
      <4> QED BY <2>2, <3>1, <4>1, <4>2 DEF Eligible
    <3>3. CASE n # run.pull
      BY <2>2, <2>7, <3>3, <1>1 DEF Armed, Rides
    <3> QED BY <3>2, <3>3
  <2>8. CASE pulls' = Disarmed(run.pull) /\ run.pull \in DOMAIN pulls
    <3>1. /\ n \in DOMAIN pulls /\ pulls[n].open /\ pulls[n].byBot
          /\ pulls[n].head = pulls'[n].head
      BY <2>1, <2>2, <2>8, <1>1, DisarmedOK
    <3> QED BY <2>2, <3>1 DEF Rides
  <2>9. CASE pulls' = Append(pulls, NewPull)
    <3>1. ~NewPull.byBot BY DEF NewPull
    <3>2. n \in 1..(Len(pulls) + 1) /\ Len(pulls) \in Nat /\ DOMAIN pulls = 1..Len(pulls)
      BY <2>1, <2>9, <1>1 DEF HubOK
    <3>3. IF n = Len(pulls) + 1 THEN pulls'[n] = NewPull ELSE pulls'[n] = pulls[n]
      BY <2>1, <2>9, <3>2 DEF HubOK
    <3> QED BY <2>2, <3>1, <3>2, <3>3 DEF Rides
  <2>10. CASE pulls' = [pulls EXCEPT ![run.pull].body = BodyFor(run)]
    <3>1. n \in DOMAIN pulls
      BY <2>10
    <3>2. /\ pulls'[n].open = pulls[n].open /\ pulls'[n].byBot = pulls[n].byBot
          /\ pulls'[n].head = pulls[n].head
      BY <2>1, <2>10, <3>1 DEF Pulls
    <3> QED BY <2>2, <3>1, <3>2 DEF Rides
  <2>11. CASE pulls' = Closed(pulls, run.pull) /\ run.pull \in DOMAIN pulls
    <3>1. \A m \in DOMAIN pulls : m # run.pull => pulls'[m] = pulls[m]
      BY <2>1, <2>11, ClosedOK DEF HubOK
    <3>2. ~pulls'[run.pull].open /\ DOMAIN pulls' = DOMAIN pulls
      BY <2>1, <2>11, ClosedOK DEF HubOK
    <3> QED BY <2>2, <3>1, <3>2, <1>1 DEF Rides
  <2>12. pulls' = pulls \/ OutsideStep \/ RunnerStep
    BY <1>1, StartEffect DEF Next, vars, github
  <2>13. CASE RunnerStep
    BY <1>1, <2>3, <2>5, <2>6, <2>7, <2>8, <2>9, <2>10, <2>11, <2>13, RunnerEffect
       DEF github
  <2> QED BY <2>3, <2>4, <2>12, <2>13
<1>2. IInv /\ IInv' /\ [Next]_vars =>
        [policy' = policy => \A n \in DOMAIN pulls' : Rides(n)' => Rides(n)]_vars
  BY <1>1
<1> QED BY <1>2, Invariance, PTL DEF Spec, ManualPlanNeverRides

-----------------------------------------------------------------------------
(* A run that nothing disturbed: what it read is still so *)

\* The pull request of the snapshot is the open one, and as it was read.
Sees ==
  IF run.pull = 0 THEN OpenPulls(pulls) = {} /\ run.auto = None /\ ~run.draft
  ELSE /\ OpenPulls(pulls) = {run.pull}
       /\ pulls[run.pull].auto = run.auto
       /\ pulls[run.pull].draft = run.draft
       /\ pulls[run.pull].body = run.body

\* The forecast was made of the request the run has disarmed since.
PreviewBefore(r) ==
  <<PreviewAction(r),
    IF ~r.preDisabled THEN PreviewAutoAction(r)
    ELSE IF Eligible(r) THEN "would-reconfigure" ELSE "would-disable">>

\* What the pull request is once the run has written its branch and its body.
\* One that the run created is as the settings say, and not in the snapshot.
Shows ==
  /\ OpenPulls(pulls) = {run.pull}
  /\ pulls[run.pull].auto = run.auto
  /\ pulls[run.pull].body = BodyFor(run)
  /\ pulls[run.pull].draft = run.draft \/ (pulls[run.pull].draft = Draft /\ ~run.draft)

\* action and auto-merge action to come are as the forecast has it.
Foretold(r) ==
  /\ r.action = Realised(r.forecast)[1]
  /\ r.action \in {"created", "updated", "unchanged"}
  /\ r.preDisabled => r.forecast[2] = IF Eligible(r) THEN "would-reconfigure"
                                      ELSE "would-disable"
  /\ ~r.preDisabled =>
       IF r.action # "created" THEN r.forecast[2] = PlannedAutoAction(r)
       ELSE r.auto = None /\ r.forecast[2] = IF Eligible(r) THEN "would-enable" ELSE ""

\* What a run that is done with it leaves.
Left ==
  /\ CloseStale /\ run.pull # 0 /\ ~Eligible(run) => pulls[run.pull].auto = None
  /\ run.action \in {"created", "updated", "unchanged"} =>
       /\ <<run.action, run.autoAction>> = Realised(run.forecast)
       /\ ~Draft => InSync(run.plan)
  /\ run.action = "closed" => Retired

Reading ==
  /\ run.pc \in {"prepare", "pulls"} => run.pull = 0 /\ ~run.draft
  /\ run.pc \in {"ref", "commit", "disable", "push", "upsert", "delete"} => Sees
  /\ run.pc \in {"commit", "disable", "push", "delete"} => run.remote = branch

Writing ==
  /\ run.pc \in {"disable", "push", "upsert", "label", "reconcile"} => run.write
  /\ run.pc = "disable" => run.auto # None
  /\ run.pc \in {"commit", "disable"} => ~run.preDisabled
  /\ run.pc \in {"push", "upsert"} /\ run.preDisabled => run.pull # 0
  /\ run.pc \in {"disable", "push", "upsert"} /\ run.plan \in Plans =>
       run.forecast = PreviewBefore(run)
  /\ run.pc = "disable" /\ run.plan \in Plans => Unsafe(run)
  /\ run.pc \in {"push", "upsert", "label", "reconcile"} => ~Unsafe(run)
  /\ run.pc = "push" => BranchChanged(run)
  /\ run.pc \in {"upsert", "label", "reconcile"} => branch = run.plan
  /\ run.pc \in {"label", "reconcile"} => Shows /\ Foretold(run)

Closing ==
  /\ run.pc \in {"delete", "close"} => run.plan = Current
  /\ run.pc = "close" => branch = None /\ OpenPulls(pulls) \subseteq {run.pull}

RunQuiet == Reading /\ Writing /\ Closing /\ (run.pc = "done" /\ run.write => Left)

Undisturbed == ~disturbed => RunQuiet

\* Only an answer leaves a run undisturbed.
LEMMA LocalQuiet ==
  ASSUME NEW r, NEW outcomes, Local(r, outcomes), ~disturbed'
  PROVE  UNCHANGED github /\ run' = r /\ ~disturbed
BY DEF Local, Answered, Fault

LEMMA CallQuiet ==
  ASSUME NEW accepted \in BOOLEAN, NEW c, NEW ps, NEW r, NEW outcomes,
         Call(accepted, c, ps, r, outcomes), ~disturbed'
  PROVE  /\ ~disturbed
         /\ \/ accepted /\ branch' = c /\ pulls' = ps /\ run' = r
            \/ ~accepted /\ UNCHANGED github /\ run' = Finish(run, "failed")
BY DEF Call, Answered, Fault

\* All that the decisions are made of.
SameRead(r, q) ==
  /\ q.plan = r.plan /\ q.pull = r.pull /\ q.auto = r.auto /\ q.draft = r.draft
  /\ q.body = r.body /\ q.remote = r.remote /\ q.preDisabled = r.preDisabled
  /\ q.write = r.write /\ q.forecast = r.forecast

LEMMA MovesKeep ==
  ASSUME NEW r \in Runs
  PROVE  /\ \A pc \in Steps : /\ Goto(r, pc) \in Runs /\ Goto(r, pc).pc = pc
                              /\ SameRead(r, Goto(r, pc))
                              /\ Goto(r, pc).action = r.action
         /\ \A o \in Actions : /\ Finish(r, o) \in Runs /\ Finish(r, o).pc = "done"
                               /\ Finish(r, o).action = o
                               /\ SameRead(r, Finish(r, o))
         /\ \A o \in AutoActions : /\ Report(r, o) \in Runs /\ Report(r, o).pc = "done"
                                   /\ Report(r, o).autoAction = o
                                   /\ Report(r, o).action = r.action
                                   /\ SameRead(r, Report(r, o))
<1>1. ASSUME NEW pc \in Steps
      PROVE  /\ Goto(r, pc) \in Runs /\ Goto(r, pc).pc = pc
             /\ SameRead(r, Goto(r, pc)) /\ Goto(r, pc).action = r.action
  <2>1. Goto(r, pc) \in Runs /\ Goto(r, pc).pc = pc
    BY GotoType
  <2>2. SameRead(r, Goto(r, pc)) /\ Goto(r, pc).action = r.action
    BY DEF Goto, SameRead, Runs
  <2> QED BY <2>1, <2>2
<1>2. ASSUME NEW o \in Actions
      PROVE  /\ Finish(r, o) \in Runs /\ Finish(r, o).pc = "done"
             /\ Finish(r, o).action = o /\ SameRead(r, Finish(r, o))
  <2>1. Finish(r, o) \in Runs /\ Finish(r, o).pc = "done"
    BY FinishType
  <2>2. Finish(r, o).action = o /\ SameRead(r, Finish(r, o))
    BY DEF Finish, SameRead, Runs
  <2> QED BY <2>1, <2>2
<1>3. ASSUME NEW o \in AutoActions
      PROVE  /\ Report(r, o) \in Runs /\ Report(r, o).pc = "done"
             /\ Report(r, o).autoAction = o /\ Report(r, o).action = r.action
             /\ SameRead(r, Report(r, o))
  <2>1. Report(r, o) \in Runs /\ Report(r, o).pc = "done"
    BY ReportType
  <2>2. /\ Report(r, o).autoAction = o /\ Report(r, o).action = r.action
        /\ SameRead(r, Report(r, o))
    BY DEF Report, SameRead, Runs
  <2> QED BY <2>1, <2>2
<1> QED BY <1>1, <1>2, <1>3

\* Equal snapshots are decided alike.
LEMMA SameDecision ==
  ASSUME NEW r, NEW q, q.plan = r.plan, q.pull = r.pull, q.draft = r.draft
  PROVE  /\ Eligible(q) = Eligible(r) /\ BodyFor(q) = BodyFor(r)
         /\ q.remote = r.remote => BranchChanged(q) = BranchChanged(r)
         /\ q.body = r.body => MetadataChanged(q) = MetadataChanged(r)
         /\ q.body = r.body /\ q.remote = r.remote => PreviewAction(q) = PreviewAction(r)
         /\ q.auto = r.auto => /\ Unsafe(q) = Unsafe(r)
                               /\ PlannedAutoAction(q) = PlannedAutoAction(r)
                               /\ PreviewAutoAction(q) = PreviewAutoAction(r)
<1>1. Eligible(q) = Eligible(r)
  BY DEF Eligible
<1>2. BodyFor(q) = BodyFor(r)
  BY DEF BodyFor, NoteFor
<1>3. q.remote = r.remote => BranchChanged(q) = BranchChanged(r)
  BY DEF BranchChanged
<1>4. q.body = r.body => MetadataChanged(q) = MetadataChanged(r)
  BY <1>2 DEF MetadataChanged
<1>5. q.body = r.body /\ q.remote = r.remote => PreviewAction(q) = PreviewAction(r)
  BY <1>3, <1>4 DEF PreviewAction
<1>6. q.auto = r.auto => Unsafe(q) = Unsafe(r)
  BY <1>1 DEF Unsafe
<1>7. q.auto = r.auto => PlannedAutoAction(q) = PlannedAutoAction(r)
  BY <1>1 DEF PlannedAutoAction
<1>8. q.auto = r.auto => PreviewAutoAction(q) = PreviewAutoAction(r)
  BY <1>1, <1>7 DEF PreviewAutoAction
<1> QED BY <1>1, <1>2, <1>3, <1>4, <1>5, <1>6, <1>7, <1>8

LEMMA SameForecast ==
  ASSUME NEW r, NEW q, SameRead(r, q)
  PROVE  PreviewBefore(q) = PreviewBefore(r)
<1>1. /\ PreviewAction(q) = PreviewAction(r) /\ Eligible(q) = Eligible(r)
      /\ PreviewAutoAction(q) = PreviewAutoAction(r)
  BY SameDecision DEF SameRead
<1> QED BY <1>1 DEF PreviewBefore, SameRead

\* The decisions stay what they are while the policy does.
LEMMA SamePolicy ==
  ASSUME policy' = policy
  PROVE  /\ Eligible(run)' = Eligible(run') /\ Unsafe(run)' = Unsafe(run')
         /\ BodyFor(run)' = BodyFor(run') /\ BranchChanged(run)' = BranchChanged(run')
         /\ PreviewBefore(run)' = PreviewBefore(run')
         /\ Foretold(run)' = Foretold(run')
<1>1. Eligible(run)' = Eligible(run') /\ BodyFor(run)' = BodyFor(run')
  BY DEF Eligible, Fits, BodyFor, NoteFor
<1>2. BranchChanged(run)' = BranchChanged(run')
  BY DEF BranchChanged
<1>3. Unsafe(run)' = Unsafe(run')
  BY <1>1 DEF Unsafe
<1>4. PlannedAutoAction(run)' = PlannedAutoAction(run')
  BY <1>1 DEF PlannedAutoAction
<1>5. PreviewAction(run)' = PreviewAction(run')
  BY <1>1, <1>2 DEF PreviewAction, MetadataChanged
<1>6. PreviewBefore(run)' = PreviewBefore(run')
  BY <1>1, <1>4, <1>5 DEF PreviewBefore, PreviewAutoAction
<1>7. Foretold(run)' = Foretold(run')
  BY <1>1, <1>4 DEF Foretold, Realised
<1> QED BY <1>1, <1>2, <1>3, <1>6, <1>7

\* What a plan decides of a request, one case after the other.
LEMMA PlannedForm ==
  ASSUME NEW r
  PROVE  PlannedAutoAction(r) =
           IF Eligible(r)
           THEN IF r.auto = None THEN "would-enable"
                ELSE IF r.auto = Method THEN "already-enabled" ELSE "would-reconfigure"
           ELSE IF r.auto = None THEN "not-eligible" ELSE "would-disable"
<1>1. Method # None BY MethodAssumption
<1> QED BY <1>1 DEF PlannedAutoAction

\* A run that ends must only leave what it promised.
LEMMA DoneQuiet ==
  ASSUME run'.pc = "done", run'.write => Left'
  PROVE  RunQuiet'
BY DEF RunQuiet, Reading, Writing, Closing

\* A run that ends without a change it reports, with no request left to arm.
LEMMA FailedQuiet ==
  ASSUME run'.pc = "done",
         run'.write => /\ run'.action \notin {"created", "updated", "unchanged", "closed"}
                       /\ (CloseStale /\ run'.pull # 0 => pulls'[run'.pull].auto = None)
  PROVE  RunQuiet'
BY DoneQuiet DEF Left

\* What IInv says of the pull request of the snapshot.
LEMMA TheOpen ==
  ASSUME IInv, OpenPulls(pulls) = {run.pull}
  PROVE  /\ run.pull \in DOMAIN pulls /\ pulls[run.pull] \in Pulls
         /\ pulls[run.pull].open /\ run.pull # 0 /\ run \in Runs
         /\ \A n \in DOMAIN pulls : n # run.pull => ~pulls[n].open
<1>1. pulls \in Seq(Pulls) /\ run \in Runs
  BY DEF IInv, TypeOK
<1> QED BY <1>1 DEF OpenPulls

\* GitHub and the snapshot stay, and so does what the run sees.
LEMMA SeesKept ==
  ASSUME Sees, UNCHANGED github, run'.pull = run.pull, run'.auto = run.auto,
         run'.draft = run.draft, run'.body = run.body
  PROVE  Sees'
BY DEF Sees, github, OpenPulls

-----------------------------------------------------------------------------
(* The steps of a run that nothing disturbed *)

LEMMA StartQuiet ==
  ASSUME NEW write, Start(write)
  PROVE  RunQuiet'
<1>1. run' = [Goto(Idle, "prepare") EXCEPT !.write = write]
  BY DEF Start
<1>2. run'.pc = "prepare" /\ run'.pull = 0 /\ ~run'.draft
  BY <1>1 DEF Goto, Idle
<1> QED BY <1>2 DEF RunQuiet, Reading, Writing, Closing

LEMMA PrepareQuiet ==
  ASSUME IInv, Undisturbed, Prepare, ~disturbed'
  PROVE  RunQuiet'
<1> DEFINE r == [Goto(run, "pulls") EXCEPT !.plan = inventory]
<1>1. run' = r /\ ~disturbed
  BY LocalQuiet DEF Prepare
<1>2. run \in Runs /\ run.pull = 0 /\ ~run.draft
  BY <1>1 DEF IInv, TypeOK, Undisturbed, RunQuiet, Reading, Prepare, At
<1>3. r.pc = "pulls" /\ r.pull = run.pull /\ r.draft = run.draft
  BY <1>2 DEF Goto, Runs
<1> QED BY <1>1, <1>2, <1>3 DEF RunQuiet, Reading, Writing, Closing

LEMMA ListPullsQuiet ==
  ASSUME IInv, Undisturbed, ListPulls, ~disturbed'
  PROVE  RunQuiet'
<1> DEFINE listed == [Goto(run, "ref") EXCEPT !.evidence = Evidence(pulls)]
           taken(n) == [listed EXCEPT !.pull = n, !.auto = pulls[n].auto,
                                      !.draft = pulls[n].draft,
                                      !.body = pulls[n].body]
<1>1. run \in Runs /\ run.pc = "pulls" /\ HubOK(branch, pulls) /\ SnapshotOK
  BY DEF IInv, TypeOK, RunOK, ListPulls, At
<1>2. UNCHANGED github /\ ~disturbed
  BY LocalQuiet DEF ListPulls
<1>3. run.pull = 0 /\ run.auto = None /\ ~run.draft
  BY <1>1, <1>2 DEF Undisturbed, RunQuiet, Reading, SnapshotOK
<1>4. /\ listed.pc = "ref" /\ listed.pull = run.pull /\ listed.auto = run.auto
      /\ listed.draft = run.draft
  BY <1>1 DEF Goto, Runs
<1>5. CASE OpenPulls(pulls) = {} /\ run' = listed
  <2>1. Sees'
    BY <1>2, <1>3, <1>4, <1>5 DEF Sees, github, OpenPulls
  <2> QED BY <1>4, <1>5, <2>1 DEF RunQuiet, Reading, Writing, Closing
<1>6. ASSUME NEW n \in OpenPulls(pulls), run' = taken(n) PROVE RunQuiet'
  <2>1. OpenPulls(pulls) = {n} /\ n # 0
    BY <1>1 DEF OpenPulls, HubOK
  <2>2. /\ run'.pc = "ref" /\ run'.pull = n /\ run'.auto = pulls[n].auto
        /\ run'.draft = pulls[n].draft /\ run'.body = pulls[n].body
    BY <1>1, <1>6 DEF Goto, Runs
  <2>3. Sees'
    BY <1>2, <2>1, <2>2 DEF Sees, github, OpenPulls
  <2> QED BY <2>2, <2>3 DEF RunQuiet, Reading, Writing, Closing
<1>7. CASE run' = Finish(run, "failed")
  <2>1. run'.pc = "done" /\ run'.action = "failed" /\ run'.pull = 0
    BY <1>1, <1>3, <1>7, MovesKeep DEF SameRead, Actions
  <2> QED BY <2>1, FailedQuiet
<1>8. \/ OpenPulls(pulls) = {} /\ Local(listed, Api)
      \/ \E n \in OpenPulls(pulls) :
           Local(IF ~Managed(pulls[n]) THEN Finish(run, "failed") ELSE taken(n), Api)
  BY DEF ListPulls
<1> HIDE DEF listed, taken
<1>9. \/ OpenPulls(pulls) = {} /\ run' = listed
      \/ \E n \in OpenPulls(pulls) : run' = Finish(run, "failed") \/ run' = taken(n)
  BY <1>8, LocalQuiet
<1> QED BY <1>5, <1>6, <1>7, <1>9

LEMMA ReadRefQuiet ==
  ASSUME IInv, Undisturbed, ReadRef, ~disturbed'
  PROVE  RunQuiet'
<1>1. run \in Runs /\ run.pc = "ref" /\ SnapshotOK
  BY DEF IInv, TypeOK, RunOK, ReadRef, At
<1>2. PICK owned \in BOOLEAN :
        Local(Handle([run EXCEPT !.remote = branch, !.owned = owned]), Api)
  BY DEF ReadRef
<1> DEFINE r == [run EXCEPT !.remote = branch, !.owned = owned]
<1>3. UNCHANGED github /\ ~disturbed /\ run' = Handle(r)
  BY <1>2, LocalQuiet
<1>4. Sees /\ ~run.preDisabled /\ run.plan \in Inventories
  BY <1>1, <1>3 DEF Undisturbed, RunQuiet, Reading, SnapshotOK
<1>5. /\ r \in Runs /\ r.remote = branch /\ r.plan = run.plan /\ r.pull = run.pull
      /\ r.auto = run.auto /\ r.draft = run.draft /\ r.body = run.body
      /\ r.preDisabled = run.preDisabled /\ r.write = run.write
  <2>1. branch \in Commits \cup {None} BY DEF IInv, TypeOK
  <2> QED BY <1>1, <2>1 DEF Runs
<1> HIDE DEF r
<1>6. ASSUME run'.pull = run.pull, run'.auto = run.auto,
             run'.draft = run.draft, run'.body = run.body
      PROVE  Sees'
  BY <1>3, <1>4, <1>6, SeesKept
<1>7. ASSUME NEW a \in {"failed", "current", "would-close"}, run' = Finish(r, a)
      PROVE  /\ run'.pc = "done" /\ run'.action = a /\ run'.pull = run.pull
             /\ run'.write = run.write
  BY <1>5, <1>7, MovesKeep DEF SameRead, Actions
<1>8. ASSUME NEW pc \in {"disable", "delete", "close", "commit"}, run' = Goto(r, pc)
      PROVE  run'.pc = pc /\ SameRead(r, run') /\ Sees'
  <2>1. run'.pc = pc /\ SameRead(r, run')
    BY <1>5, <1>8, MovesKeep DEF Steps
  <2> QED BY <1>5, <1>6, <2>1 DEF SameRead
<1>9. CASE run.plan = Incomplete
  <2>1. run' = HandleIncomplete(r)
    BY <1>3, <1>5, <1>9, DistinctNames DEF Handle
  <2>2. CASE (r.pull = 0 \/ r.auto = None) /\ run' = Finish(r, "failed")
    BY <1>3, <1>4, <1>5, <1>7, <2>2, FailedQuiet DEF Sees, github
  <2>3. CASE ~r.write /\ run' = Report(Finish(r, "failed"), "would-disable")
    <3>1. /\ Finish(r, "failed") \in Runs /\ SameRead(r, Finish(r, "failed"))
      BY <1>5, MovesKeep DEF Actions
    <3>2. run'.pc = "done" /\ SameRead(Finish(r, "failed"), run')
      BY <2>3, <3>1, MovesKeep DEF AutoActions
    <3> QED BY <2>3, <3>1, <3>2, DoneQuiet DEF SameRead
  <2>4. CASE r.auto # None /\ r.write /\ run' = Goto(r, "disable")
    <3>1. run'.pc = "disable" /\ SameRead(r, run') /\ Sees'
      BY <1>8, <2>4
    <3> QED BY <1>3, <1>4, <1>5, <1>9, <2>4, <3>1, DistinctNames
       DEF RunQuiet, Reading, Writing, Closing, SameRead, github
  <2> QED BY <2>1, <2>2, <2>3, <2>4 DEF HandleIncomplete
<1>10. CASE run.plan = Current
  <2>1. run' = HandleCurrent(r)
    BY <1>3, <1>5, <1>10, DistinctNames DEF Handle
  <2>2. CASE (~CloseStale \/ r.pull = 0) /\ run' = Finish(r, "current")
    BY <1>5, <1>7, <2>2, FailedQuiet
  <2>3. CASE ~r.write /\ run' = Finish(r, "would-close")
    BY <1>5, <1>7, <2>3, DoneQuiet
  <2>4. CASE run' = Goto(r, "delete")
    <3>1. run'.pc = "delete" /\ SameRead(r, run') /\ Sees'
      BY <1>8, <2>4
    <3> QED BY <1>3, <1>5, <1>10, <3>1
       DEF RunQuiet, Reading, Writing, Closing, SameRead, github
  <2>5. CASE r.remote = None /\ run' = Goto(r, "close")
    <3>1. run'.pc = "close" /\ SameRead(r, run') /\ Sees'
      BY <1>8, <2>5
    <3>2. branch' = None /\ OpenPulls(pulls)' \subseteq {run'.pull}
      BY <1>3, <1>5, <2>5, <3>1 DEF Sees, github
    <3> QED BY <1>5, <1>10, <3>1, <3>2
       DEF RunQuiet, Reading, Writing, Closing, SameRead
  <2> QED BY <2>1, <2>2, <2>3, <2>4, <2>5 DEF HandleCurrent
<1>11. CASE run.plan \in Plans
  <2>1. run' = HandleUpdates(r)
    BY <1>3, <1>5, <1>11, DistinctNames DEF Handle
  <2>2. CASE r.pull = 0 /\ run' = Finish(r, "failed")
    BY <1>5, <1>7, <2>2, FailedQuiet
  <2>3. CASE run' = Goto(r, "commit")
    <3>1. run'.pc = "commit" /\ SameRead(r, run') /\ Sees'
      BY <1>8, <2>3
    <3> QED BY <1>3, <1>4, <1>5, <3>1
       DEF RunQuiet, Reading, Writing, Closing, SameRead, github
  <2> QED BY <2>1, <2>2, <2>3 DEF HandleUpdates
<1> QED BY <1>4, <1>9, <1>10, <1>11 DEF Inventories

\* The same pull requests are open.
LEMMA SameOpen ==
  ASSUME DOMAIN pulls' = DOMAIN pulls,
         \A m \in DOMAIN pulls : pulls'[m].open = pulls[m].open
  PROVE  OpenPulls(pulls)' = OpenPulls(pulls)
BY DEF OpenPulls

\* Which step a run that may publish goes to, with all it needs there.
LEMMA PublishQuiet ==
  ASSUME NEW r \in Runs, policy' = policy, run' = Publish(r), r.write,
         r.plan \in Plans, ~Unsafe(r), r.forecast = PreviewBefore(r),
         r.preDisabled => r.pull # 0, r.remote = branch',
         SameRead(r, run') => Sees'
  PROVE  RunQuiet'
<1>1. /\ run'.pc \in {"push", "upsert"} /\ SameRead(r, run')
      /\ run'.pc = "push" => BranchChanged(r)
      /\ run'.pc = "upsert" => ~BranchChanged(r)
  BY MovesKeep DEF Publish, Steps
<1>2. /\ PreviewBefore(run)' = PreviewBefore(r) /\ Unsafe(run)' = Unsafe(r)
      /\ BranchChanged(run)' = BranchChanged(r)
  <2>1. /\ PreviewBefore(run)' = PreviewBefore(run') /\ Unsafe(run)' = Unsafe(run')
        /\ BranchChanged(run)' = BranchChanged(run')
    BY SamePolicy
  <2>2. PreviewBefore(run') = PreviewBefore(r)
    BY <1>1, SameForecast
  <2>3. Unsafe(run') = Unsafe(r) /\ BranchChanged(run') = BranchChanged(r)
    BY <1>1, SameDecision DEF SameRead
  <2> QED BY <2>1, <2>2, <2>3
<1>3. run'.pc = "upsert" => branch' = run'.plan
  BY <1>1 DEF SameRead, BranchChanged
<1>4. Reading' /\ Closing'
  BY <1>1 DEF Reading, Closing, SameRead
<1>5. Writing'
  BY <1>1, <1>2, <1>3 DEF Writing, SameRead
<1> QED BY <1>1, <1>4, <1>5 DEF RunQuiet

LEMMA CommitQuiet ==
  ASSUME IInv, Undisturbed, Commit, ~disturbed'
  PROVE  RunQuiet'
<1> DEFINE r == [run EXCEPT !.forecast = Forecast(run)]
           preview == Report(Finish(r, r.forecast[1]), r.forecast[2])
           next == IF ~r.write THEN preview
                   ELSE IF Unsafe(r) THEN Goto(r, "disable") ELSE Publish(r)
<1>1. run \in Runs /\ run.pc = "commit" /\ run.plan \in Plans
  BY DEF IInv, TypeOK, RunOK, SnapshotOK, Commit, At
<1>2. UNCHANGED github /\ ~disturbed /\ run' = next
  <2>1. Local(next, Git) BY DEF Commit
  <2> HIDE DEF next
  <2> QED BY <2>1, LocalQuiet
<1>3. policy' = policy
  BY DEF Commit, At
<1>4. Sees /\ run.remote = branch /\ ~run.preDisabled
  BY <1>1, <1>2 DEF Undisturbed, RunQuiet, Reading, Writing
<1>5. Forecast(run)[1] \in Actions /\ Forecast(run)[2] \in AutoActions
  BY <1>1, ForecastType DEF Forecast
<1>6. /\ r \in Runs /\ r.forecast = Forecast(run) /\ r.plan = run.plan
      /\ r.pull = run.pull /\ r.auto = run.auto /\ r.draft = run.draft
      /\ r.body = run.body /\ r.remote = run.remote /\ r.write = run.write
      /\ r.preDisabled = run.preDisabled
  BY <1>1, <1>5 DEF Runs, Forecast
<1> HIDE DEF r
<1>7. r.forecast = PreviewBefore(r)
  <2>1. PreviewAction(r) = PreviewAction(run) /\ PreviewAutoAction(r) = PreviewAutoAction(run)
    BY <1>6, SameDecision
  <2> QED BY <1>4, <1>6, <2>1 DEF PreviewBefore, Forecast
<1>8. ASSUME SameRead(r, run') PROVE Sees'
  BY <1>2, <1>4, <1>6, <1>8, SeesKept DEF SameRead
<1>9. CASE ~r.write
  <2>1. Finish(r, r.forecast[1]) \in Runs /\ SameRead(r, Finish(r, r.forecast[1]))
    BY <1>5, <1>6, MovesKeep
  <2>2. run'.pc = "done" /\ SameRead(Finish(r, r.forecast[1]), run')
    BY <1>2, <1>5, <1>6, <1>9, <2>1, MovesKeep
  <2> QED BY <1>9, <2>1, <2>2, DoneQuiet DEF SameRead
<1>10. CASE r.write /\ Unsafe(r)
  <2>1. run'.pc = "disable" /\ SameRead(r, run')
    BY <1>2, <1>6, <1>10, MovesKeep DEF Steps
  <2>2. PreviewBefore(run)' = r.forecast /\ Unsafe(run)'
    <3>1. PreviewBefore(run') = PreviewBefore(r)
      BY <2>1, SameForecast
    <3>2. Unsafe(run') = Unsafe(r)
      BY <2>1, SameDecision DEF SameRead
    <3> QED BY <1>3, <1>7, <1>10, <3>1, <3>2, SamePolicy
  <2>3. Reading' /\ Closing'
    BY <1>2, <1>4, <1>6, <1>8, <2>1 DEF Reading, Closing, SameRead, github
  <2>4. r.auto # None
    BY <1>10 DEF Unsafe
  <2>5. Writing'
    BY <1>4, <1>6, <1>10, <2>1, <2>2, <2>4 DEF Writing, SameRead
  <2> QED BY <2>1, <2>3, <2>5 DEF RunQuiet
<1>11. CASE r.write /\ ~Unsafe(r)
  <2>1. run' = Publish(r) /\ r.remote = branch'
    BY <1>2, <1>4, <1>6, <1>11 DEF github
  <2> QED BY <1>1, <1>3, <1>4, <1>6, <1>7, <1>8, <1>11, <2>1, PublishQuiet
<1> QED BY <1>9, <1>10, <1>11

\* What Disarmed leaves of each pull request.
LEMMA DisarmedShape ==
  ASSUME IInv, NEW n \in DOMAIN pulls
  PROVE  /\ DOMAIN Disarmed(n) = DOMAIN pulls
         /\ \A m \in DOMAIN pulls : /\ Disarmed(n)[m].open = pulls[m].open
                                    /\ Disarmed(n)[m].draft = pulls[m].draft
                                    /\ Disarmed(n)[m].body = pulls[m].body
         /\ Disarmed(n)[n].auto = None
<1> DEFINE p == Disarm(pulls[n])
<1>1. pulls[n] \in Pulls /\ pulls \in Seq(Pulls) BY DEF IInv, HubOK
<1>2. /\ p.open = pulls[n].open /\ p.draft = pulls[n].draft
      /\ p.body = pulls[n].body /\ p.auto = None
  BY <1>1 DEF Disarm, Pulls
<1> HIDE DEF p
<1>3. Disarmed(n) = [pulls EXCEPT ![n] = p]
  BY DEF Disarmed, p
<1> QED BY <1>1, <1>2, <1>3

LEMMA DisableUnsafeQuiet ==
  ASSUME IInv, Undisturbed, DisableUnsafe, ~disturbed'
  PROVE  RunQuiet'
<1> DEFINE last == Report(Finish(run, "failed"), "disabled")
           clear == [run EXCEPT !.auto = None, !.preDisabled = TRUE]
           next == IF run.plan = Incomplete THEN last ELSE Publish(clear)
<1>1. /\ run \in Runs /\ run.pc = "disable" /\ policy' = policy
      /\ run.plan \in Plans \cup {Incomplete}
  BY DEF IInv, TypeOK, RunOK, SnapshotOK, DisableUnsafe, At
<1>2. PICK ok \in MayDisable(run.pull) : Call(ok, branch, Disarmed(run.pull), next, Api)
  BY DEF DisableUnsafe
<1> HIDE DEF next
<1>3. ok \in BOOLEAN
  BY DEF MayDisable
<1>4. ~disturbed
  BY <1>2, <1>3, CallQuiet
<1>5. Sees /\ run.auto # None /\ ~run.preDisabled /\ run.write /\ run.remote = branch
  BY <1>1, <1>4 DEF Undisturbed, RunQuiet, Reading, Writing
<1>6. /\ OpenPulls(pulls) = {run.pull} /\ run.pull # 0
      /\ pulls[run.pull].auto # None /\ pulls[run.pull].draft = run.draft
      /\ pulls[run.pull].body = run.body
  BY <1>5 DEF Sees
<1>7. branch' = branch /\ pulls' = Disarmed(run.pull) /\ run' = next
  <2>1. ok = TRUE BY <1>2, <1>6 DEF MayDisable
  <2> QED BY <1>2, <1>3, <2>1, CallQuiet
<1>8. /\ run.pull \in DOMAIN pulls /\ pulls'[run.pull].auto = None
      /\ OpenPulls(pulls)' = {run.pull}
      /\ pulls'[run.pull].draft = run.draft /\ pulls'[run.pull].body = run.body
  <2>1. run.pull \in DOMAIN pulls BY <1>6, TheOpen
  <2> QED BY <1>6, <1>7, <2>1, DisarmedShape, SameOpen
<1>9. CASE run.plan = Incomplete
  <2>1. /\ Finish(run, "failed") \in Runs /\ SameRead(run, Finish(run, "failed"))
        /\ Finish(run, "failed").action = "failed"
    BY <1>1, MovesKeep DEF Actions
  <2>2. /\ run'.pc = "done" /\ SameRead(Finish(run, "failed"), run')
        /\ run'.action = "failed"
    BY <1>7, <1>9, <2>1, MovesKeep DEF AutoActions, next
  <2> QED BY <1>8, <2>1, <2>2, FailedQuiet DEF SameRead
<1>10. CASE run.plan \in Plans
  <2>1. /\ clear \in Runs /\ clear.auto = None /\ clear.preDisabled
        /\ clear.plan = run.plan /\ clear.pull = run.pull /\ clear.draft = run.draft
        /\ clear.body = run.body /\ clear.remote = run.remote
        /\ clear.write = run.write /\ clear.forecast = run.forecast
    BY <1>1 DEF Runs
  <2>2. run' = Publish(clear)
    BY <1>7, <1>10, DistinctNames DEF next
  <2> HIDE DEF clear
  <2>3. ~Unsafe(clear)
    BY <2>1 DEF Unsafe
  <2>4. clear.forecast = PreviewBefore(clear)
    <3>1. PreviewAction(clear) = PreviewAction(run) /\ Eligible(clear) = Eligible(run)
      BY <2>1, SameDecision
    <3>2. run.forecast = PreviewBefore(run) /\ Unsafe(run)
      BY <1>1, <1>4, <1>10 DEF Undisturbed, RunQuiet, Writing
    <3>3. PreviewAutoAction(run) = IF Eligible(run) THEN "would-reconfigure"
                                   ELSE "would-disable"
      BY <1>6, <3>2, PlannedForm DEF PreviewAutoAction, Unsafe
    <3> QED BY <1>5, <2>1, <3>1, <3>2, <3>3 DEF PreviewBefore
  <2>5. ASSUME SameRead(clear, run') PROVE Sees'
    BY <1>6, <1>8, <2>1, <2>5 DEF SameRead, Sees
  <2>6. clear.remote = branch'
    BY <1>5, <1>7, <2>1
  <2> QED BY <1>1, <1>5, <1>6, <1>10, <2>1, <2>2, <2>3, <2>4, <2>5, <2>6, PublishQuiet
<1> QED BY <1>1, <1>9, <1>10

LEMMA PushQuiet ==
  ASSUME IInv, Undisturbed, Push, ~disturbed'
  PROVE  RunQuiet'
<1>1. /\ run \in Runs /\ run.pc = "push" /\ policy' = policy /\ run.plan \in Plans
      /\ pulls \in Seq(Pulls)
  BY DEF IInv, TypeOK, RunOK, SnapshotOK, Push, At
<1>2. Call(branch = run.remote, run.plan, Follow(pulls, run.plan), Goto(run, "upsert"), Git)
  BY DEF Push
<1>3. ~disturbed
  BY <1>2, CallQuiet
<1>4. /\ Sees /\ run.remote = branch /\ run.write /\ ~Unsafe(run)
      /\ run.forecast = PreviewBefore(run) /\ (run.preDisabled => run.pull # 0)
  BY <1>1, <1>3 DEF Undisturbed, RunQuiet, Reading, Writing
<1>5. /\ branch' = run.plan /\ pulls' = Follow(pulls, run.plan)
      /\ run' = Goto(run, "upsert")
  BY <1>2, <1>4, CallQuiet
<1>6. run'.pc = "upsert" /\ SameRead(run, run')
  BY <1>1, <1>5, MovesKeep DEF Steps
<1>7. /\ DOMAIN pulls' = DOMAIN pulls
      /\ \A m \in DOMAIN pulls : /\ pulls'[m].open = pulls[m].open
                                 /\ pulls'[m].auto = pulls[m].auto
                                 /\ pulls'[m].draft = pulls[m].draft
                                 /\ pulls'[m].body = pulls[m].body
  <2>1. run.plan # None BY <1>1, DistinctNames
  <2>2. \A m \in DOMAIN pulls : pulls[m] \in Pulls BY <1>1
  <2> QED BY <1>5, <2>1, <2>2 DEF Follow, Pulls
<1>8. Sees'
  <2>1. OpenPulls(pulls)' = OpenPulls(pulls)
    BY <1>7, SameOpen
  <2>2. run.pull # 0 => run.pull \in DOMAIN pulls
    BY <1>4, TheOpen DEF Sees
  <2> QED BY <1>4, <1>6, <1>7, <2>1, <2>2 DEF Sees, SameRead
<1>9. PreviewBefore(run)' = run.forecast /\ ~Unsafe(run)'
  <2>1. PreviewBefore(run') = PreviewBefore(run)
    BY <1>6, SameForecast
  <2>2. Unsafe(run') = Unsafe(run)
    BY <1>6, SameDecision DEF SameRead
  <2> QED BY <1>1, <1>4, <2>1, <2>2, SamePolicy
<1>10. Reading' /\ Closing'
  BY <1>6, <1>8 DEF Reading, Closing
<1>11. Writing'
  BY <1>4, <1>5, <1>6, <1>9 DEF Writing, SameRead
<1> QED BY <1>6, <1>10, <1>11 DEF RunQuiet

\* A run that has written its body has only to report how auto-merge stands.
LEMMA ShownQuiet ==
  ASSUME policy' = policy, run'.pc \in {"label", "reconcile"}, run'.write,
         branch' = run'.plan, ~Unsafe(run'), Shows', Foretold(run')
  PROVE  RunQuiet'
<1>1. ~Unsafe(run)' /\ Foretold(run)'
  BY SamePolicy
<1> QED BY <1>1 DEF RunQuiet, Reading, Writing, Closing

\* What a forecast becomes, one case after the other.
LEMMA RealisedForm ==
  ASSUME NEW f
  PROVE  /\ Realised(f) = <<Realised(f)[1], Realised(f)[2]>>
         /\ Realised(f)[1] = IF f[1] = "would-create" THEN "created"
                             ELSE IF f[1] = "would-update" THEN "updated" ELSE f[1]
         /\ Realised(f)[2] = IF f[2] = "would-enable" THEN "enabled"
                             ELSE IF f[2] = "would-reconfigure" THEN "reconfigured"
                             ELSE IF f[2] = "would-disable" THEN "disabled"
                             ELSE IF f[2] = "" THEN "not-eligible" ELSE f[2]
BY DEF Realised

\* What holds of a run about to write its body.
LEMMA AtUpsert ==
  ASSUME IInv, Undisturbed, ~disturbed, run.pc = "upsert"
  PROVE  /\ run \in Runs /\ run.plan \in Plans /\ Sees /\ run.write
         /\ branch = run.plan /\ ~Unsafe(run) /\ run.forecast = PreviewBefore(run)
         /\ run.preDisabled => run.pull # 0 /\ run.auto = None
BY DEF IInv, TypeOK, RunOK, SnapshotOK, ArmedIsSeen, Undisturbed, RunQuiet,
       Reading, Writing

LEMMA CreatePullQuiet ==
  ASSUME IInv, Undisturbed, CreatePull, ~disturbed'
  PROVE  RunQuiet'
<1> DEFINE next == [Goto(run, "label") EXCEPT !.pull = Len(pulls) + 1,
                                              !.action = "created"]
           accepted == branch # None /\ OpenPulls(pulls) = {}
<1>1. /\ run.pc = "upsert" /\ run.pull = 0 /\ policy' = policy
      /\ HubOK(branch, pulls) /\ Len(pulls) \in Nat
  BY DEF IInv, TypeOK, CreatePull, At
<1>2. Call(accepted, branch, Append(pulls, NewPull), next, Api)
  BY DEF CreatePull
<1> HIDE DEF next
<1>3. ~disturbed
  BY <1>2, CallQuiet
<1>4. /\ run \in Runs /\ run.plan \in Plans /\ Sees /\ run.write
      /\ branch = run.plan /\ run.forecast = PreviewBefore(run)
      /\ ~run.preDisabled /\ run.auto = None /\ ~run.draft /\ OpenPulls(pulls) = {}
  BY <1>1, <1>3, AtUpsert DEF Sees
<1>5. branch' = branch /\ pulls' = Append(pulls, NewPull) /\ run' = next
  <2>1. accepted BY <1>4, DistinctNames
  <2> QED BY <1>2, <2>1, CallQuiet
<1>6. /\ run'.pc = "label" /\ run'.pull = Len(pulls) + 1 /\ run'.action = "created"
      /\ run'.plan = run.plan /\ run'.auto = None /\ ~run'.draft /\ run'.write
      /\ run'.forecast = run.forecast /\ ~run'.preDisabled
  <2>1. /\ Goto(run, "label") \in Runs /\ Goto(run, "label").pc = "label"
        /\ SameRead(run, Goto(run, "label"))
    BY <1>4, MovesKeep DEF Steps
  <2> HIDE DEF Goto
  <2> QED BY <1>4, <1>5, <2>1 DEF Runs, SameRead, next
<1>7. Eligible(run') = Eligible(run) /\ BodyFor(run') = BodyFor(run)
  BY <1>4, <1>6 DEF Eligible, BodyFor, NoteFor
<1>8. Shows'
  <2>1. NewPull \in Pulls /\ NewPull.open /\ NewPull.head = branch /\ ~NewPull.byBot
    BY <1>4, SettingsAssumption
       DEF NewPull, Pulls, BodyFor, NoteFor, Bodies, Notes, Commits
  <2>2. /\ DOMAIN pulls' = 1..(Len(pulls) + 1) /\ DOMAIN pulls = 1..Len(pulls)
        /\ \A n \in DOMAIN pulls : pulls'[n] = pulls[n]
        /\ pulls'[Len(pulls) + 1] = NewPull
    BY <1>1, <1>4, <1>5, <2>1, AppendOK
  <2>3. \A n \in DOMAIN pulls' : pulls'[n].open <=> n = Len(pulls) + 1
    <3>1. \A n \in DOMAIN pulls : ~pulls[n].open
      BY <1>4 DEF OpenPulls
    <3> QED BY <1>1, <2>1, <2>2, <3>1
  <2>4. OpenPulls(pulls)' = {Len(pulls) + 1}
    <3>1. Len(pulls) + 1 \in DOMAIN pulls'
      BY <1>1, <2>2
    <3> QED BY <2>3, <3>1 DEF OpenPulls
  <2>5. NewPull.auto = None /\ NewPull.body = BodyFor(run) /\ NewPull.draft = Draft
    BY DEF NewPull
  <2>6. BodyFor(run)' = BodyFor(run)
    BY <1>1, <1>7, SamePolicy
  <2> QED BY <1>6, <2>2, <2>4, <2>5, <2>6 DEF Shows
<1>9. Foretold(run')
  <2>1. /\ run.forecast[1] = "would-create"
        /\ run.forecast[2] = IF Eligible(run) THEN "would-enable" ELSE ""
    <3>1. PreviewAction(run) = "would-create"
      BY <1>1 DEF PreviewAction
    <3>2. PreviewAutoAction(run) = IF Eligible(run) THEN "would-enable" ELSE ""
      BY <1>1 DEF PreviewAutoAction
    <3>3. PreviewBefore(run)[1] = PreviewAction(run)
      BY DEF PreviewBefore
    <3>4. PreviewBefore(run)[2] = PreviewAutoAction(run)
      BY <1>4 DEF PreviewBefore
    <3> QED BY <1>4, <3>1, <3>2, <3>3, <3>4
  <2>2. run'.action = Realised(run'.forecast)[1]
    BY <1>6, <2>1, RealisedForm
  <2>3. run'.forecast[2] = IF Eligible(run') THEN "would-enable" ELSE ""
    BY <1>6, <1>7, <2>1
  <2> QED BY <1>6, <2>2, <2>3 DEF Foretold
<1>10. ~Unsafe(run')
  BY <1>6 DEF Unsafe
<1> QED BY <1>1, <1>4, <1>5, <1>6, <1>8, <1>9, <1>10, ShownQuiet

\* A run that keeps its pull request and its decisions does as foretold.
LEMMA KeptForetold ==
  ASSUME NEW q, run.pull # 0, run.forecast = PreviewBefore(run),
         q.plan = run.plan, q.pull = run.pull, q.auto = run.auto,
         q.draft = run.draft, q.preDisabled = run.preDisabled,
         q.forecast = run.forecast,
         q.action = IF PreviewAction(run) = "unchanged" THEN "unchanged" ELSE "updated"
  PROVE  Foretold(q)
<1>1. Eligible(q) = Eligible(run) /\ PlannedAutoAction(q) = PlannedAutoAction(run)
  BY SameDecision
<1>2. PreviewAction(run) \in {"unchanged", "would-update"}
  BY DEF PreviewAction
<1>3. /\ run.forecast[1] = PreviewAction(run)
      /\ run.forecast[2] = IF ~run.preDisabled THEN PlannedAutoAction(run)
                           ELSE IF Eligible(run) THEN "would-reconfigure"
                           ELSE "would-disable"
  BY DEF PreviewBefore, PreviewAutoAction
<1> QED BY <1>1, <1>2, <1>3 DEF Foretold, Realised

LEMMA UpdatePullQuiet ==
  ASSUME IInv, Undisturbed, UpdatePull, ~disturbed'
  PROVE  RunQuiet'
<1> DEFINE auto == IF run.preDisabled THEN None ELSE pulls[run.pull].auto
           next == [Goto(run, "label") EXCEPT !.auto = auto, !.action = "updated"]
           ps == [pulls EXCEPT ![run.pull].body = BodyFor(run)]
<1>1. /\ run.pc = "upsert" /\ run.pull # 0 /\ policy' = policy
      /\ MetadataChanged(run) /\ pulls \in Seq(Pulls)
  BY DEF IInv, TypeOK, UpdatePull, At
<1>2. Call(TRUE, branch, ps, next, Api)
  BY DEF UpdatePull
<1> HIDE DEF next
<1>3. ~disturbed /\ branch' = branch /\ pulls' = ps /\ run' = next
  BY <1>2, CallQuiet
<1>4. /\ run \in Runs /\ run.plan \in Plans /\ Sees /\ run.write
      /\ branch = run.plan /\ ~Unsafe(run) /\ run.forecast = PreviewBefore(run)
      /\ run.preDisabled => run.auto = None
  BY <1>1, <1>3, AtUpsert
<1>5. /\ OpenPulls(pulls) = {run.pull} /\ run.pull \in DOMAIN pulls
      /\ pulls[run.pull] \in Pulls /\ pulls[run.pull].auto = run.auto
      /\ pulls[run.pull].draft = run.draft
  BY <1>1, <1>4, TheOpen DEF Sees
<1>6. auto = run.auto
  BY <1>4, <1>5
<1>7. /\ run'.pc = "label" /\ run'.pull = run.pull /\ run'.action = "updated"
      /\ run'.plan = run.plan /\ run'.auto = run.auto /\ run'.draft = run.draft
      /\ run'.write = run.write /\ run'.forecast = run.forecast
      /\ run'.preDisabled = run.preDisabled
  <2>1. /\ Goto(run, "label") \in Runs /\ Goto(run, "label").pc = "label"
        /\ SameRead(run, Goto(run, "label"))
    BY <1>4, MovesKeep DEF Steps
  <2> HIDE DEF Goto, auto
  <2> QED BY <1>3, <1>6, <2>1 DEF Runs, SameRead, next
<1>8. Eligible(run') = Eligible(run) /\ BodyFor(run') = BodyFor(run) /\ ~Unsafe(run')
  BY <1>4, <1>7, SameDecision
<1>9. Shows'
  <2>1. /\ DOMAIN pulls' = DOMAIN pulls
        /\ \A m \in DOMAIN pulls : pulls'[m].open = pulls[m].open
        /\ pulls'[run.pull].auto = pulls[run.pull].auto
        /\ pulls'[run.pull].draft = pulls[run.pull].draft
        /\ pulls'[run.pull].body = BodyFor(run)
    <3>1. \A m \in DOMAIN pulls : pulls[m] \in Pulls BY <1>1
    <3> HIDE DEF BodyFor
    <3> QED BY <1>3, <1>5, <3>1 DEF Pulls
  <2>2. OpenPulls(pulls)' = {run.pull}
    BY <1>5, <2>1, SameOpen
  <2>3. BodyFor(run)' = BodyFor(run)
    BY <1>1, <1>8, SamePolicy
  <2> QED BY <1>5, <1>7, <2>1, <2>2, <2>3 DEF Shows
<1>10. Foretold(run')
  <2>1. PreviewAction(run) = "would-update"
    BY <1>1 DEF PreviewAction
  <2> QED BY <1>1, <1>4, <1>7, <2>1, KeptForetold
<1> QED BY <1>1, <1>3, <1>4, <1>7, <1>8, <1>9, <1>10, ShownQuiet

LEMMA KeepPullQuiet ==
  ASSUME IInv, Undisturbed, KeepPull, ~disturbed'
  PROVE  RunQuiet'
<1> DEFINE action == IF BranchChanged(run) THEN "updated" ELSE "unchanged"
           next == [Goto(run, "label") EXCEPT !.action = action]
<1>1. /\ run.pc = "upsert" /\ run.pull # 0 /\ policy' = policy /\ ~MetadataChanged(run)
  BY DEF KeepPull, At
<1>2. Local(next, {})
  BY DEF KeepPull
<1> HIDE DEF next
<1>3. ~disturbed /\ UNCHANGED github /\ run' = next
  BY <1>2, LocalQuiet
<1>4. /\ run \in Runs /\ Sees /\ run.write
      /\ branch = run.plan /\ ~Unsafe(run) /\ run.forecast = PreviewBefore(run)
  BY <1>1, <1>3, AtUpsert
<1>5. /\ run'.pc = "label" /\ run'.action = action /\ SameRead(run, run')
  <2>1. /\ Goto(run, "label") \in Runs /\ Goto(run, "label").pc = "label"
        /\ SameRead(run, Goto(run, "label"))
    BY <1>4, MovesKeep DEF Steps
  <2> HIDE DEF Goto, action
  <2> QED BY <1>3, <2>1 DEF Runs, SameRead, next
<1>6. BodyFor(run') = BodyFor(run) /\ ~Unsafe(run')
  BY <1>4, <1>5, SameDecision DEF SameRead
<1>7. Shows'
  <2>1. BodyFor(run)' = run.body
    BY <1>1, <1>6, SamePolicy DEF MetadataChanged
  <2> QED BY <1>1, <1>3, <1>4, <1>5, <2>1 DEF Shows, Sees, SameRead, github, OpenPulls
<1>8. Foretold(run')
  <2>1. action = IF PreviewAction(run) = "unchanged" THEN "unchanged" ELSE "updated"
    BY <1>1 DEF PreviewAction
  <2> QED BY <1>1, <1>4, <1>5, <2>1, KeptForetold DEF SameRead
<1> QED BY <1>1, <1>3, <1>4, <1>5, <1>6, <1>7, <1>8, ShownQuiet DEF SameRead, github

LEMMA AddLabelsQuiet ==
  ASSUME IInv, Undisturbed, AddLabels, ~disturbed'
  PROVE  RunQuiet'
<1>1. run \in Runs /\ run.pc = "label" /\ policy' = policy
  BY DEF IInv, TypeOK, AddLabels, At
<1>2. ~disturbed /\ UNCHANGED github /\ run' = Goto(run, "reconcile")
  BY LocalQuiet DEF AddLabels
<1>3. run.write /\ branch = run.plan /\ ~Unsafe(run) /\ Shows /\ Foretold(run)
  BY <1>1, <1>2 DEF Undisturbed, RunQuiet, Writing
<1>4. run'.pc = "reconcile" /\ SameRead(run, run') /\ run'.action = run.action
  BY <1>1, <1>2, MovesKeep DEF Steps
<1>5. /\ BodyFor(run') = BodyFor(run) /\ ~Unsafe(run')
      /\ Eligible(run') = Eligible(run)
      /\ PlannedAutoAction(run') = PlannedAutoAction(run)
  BY <1>3, <1>4, SameDecision DEF SameRead
<1>6. Shows'
  <2>1. BodyFor(run)' = BodyFor(run)
    BY <1>1, <1>5, SamePolicy
  <2> QED BY <1>2, <1>3, <1>4, <2>1 DEF Shows, SameRead, github, OpenPulls
<1>7. Foretold(run')
  BY <1>3, <1>4, <1>5 DEF Foretold, SameRead
<1> QED BY <1>1, <1>2, <1>3, <1>4, <1>5, <1>6, <1>7, ShownQuiet DEF SameRead, github

\* What holds of a run about to report how auto-merge stands.
LEMMA AtReconcile ==
  ASSUME IInv, Undisturbed, ~disturbed, run.pc = "reconcile"
  PROVE  /\ run \in Runs /\ branch = run.plan /\ ~Unsafe(run)
         /\ Shows /\ Foretold(run)
         /\ run.preDisabled => run.auto = None
BY DEF IInv, TypeOK, RunOK, ArmedIsSeen, Undisturbed, RunQuiet, Writing

\* The report that ends a run whose pull request has the auto-merge it should.
LEMMA ReportQuiet ==
  ASSUME NEW o \in AutoActions, run \in Runs, run' = Report(run, o), policy' = policy,
         branch' = run.plan, Foretold(run), o = Realised(run.forecast)[2],
         OpenPulls(pulls)' = {run.pull}, run.pull # 0,
         pulls'[run.pull].body = BodyFor(run),
         pulls'[run.pull].auto = IF Eligible(run) THEN Method ELSE None,
         pulls'[run.pull].draft = run.draft
           \/ (pulls'[run.pull].draft = Draft /\ ~run.draft)
  PROVE  RunQuiet'
<1>1. /\ run'.pc = "done" /\ run'.autoAction = o /\ run'.action = run.action
      /\ SameRead(run, run')
  BY MovesKeep
<1>2. Eligible(run)' = Eligible(run)
  <2>1. Eligible(run)' = Eligible(run') BY SamePolicy
  <2>2. Eligible(run') = Eligible(run) BY <1>1, SameDecision DEF SameRead
  <2> QED BY <2>1, <2>2
<1>3. CloseStale /\ run'.pull # 0 /\ ~Eligible(run)' => pulls'[run'.pull].auto = None
  BY <1>1, <1>2 DEF SameRead
<1>4. run'.action \in {"created", "updated", "unchanged"}
      /\ <<run'.action, run'.autoAction>> = Realised(run'.forecast)
  <2>1. run.action = Realised(run.forecast)[1]
        /\ run.action \in {"created", "updated", "unchanged"}
    BY DEF Foretold
  <2>2. /\ run'.action = Realised(run.forecast)[1]
        /\ run'.autoAction = Realised(run.forecast)[2]
        /\ run'.forecast = run.forecast
    BY <1>1, <2>1 DEF SameRead
  <2>3. Realised(run.forecast) = <<Realised(run.forecast)[1], Realised(run.forecast)[2]>>
    BY RealisedForm
  <2> QED BY <1>1, <2>1, <2>2, <2>3
<1>5. ASSUME ~Draft PROVE InSync(run.plan)'
  <2>1. pulls'[run.pull].draft <=> run.draft
    BY <1>5, SettingsAssumption
  <2>2. run.pull \in DOMAIN pulls'
    BY DEF OpenPulls
  <2>3. run'.plan = run.plan
    BY <1>1 DEF SameRead
  <2>4. Eligible(run) <=> Fits(run.plan) /\ ~pulls'[run.pull].draft
    BY <2>1 DEF Eligible
  <2>5. BodyFor(run) = [plan |-> run.plan,
                        note |-> IF pulls'[run.pull].draft THEN "draft"
                                 ELSE IF Fits(run.plan) THEN "eligible" ELSE "manual"]
    BY <2>1 DEF BodyFor, NoteFor
  <2>6. Fits(run.plan)' = Fits(run.plan)
    BY <2>3 DEF Fits
  <2> DEFINE fit == Fits(run.plan) /\ ~pulls'[run.pull].draft
  <2>7. pulls'[run.pull].body = [plan |-> run.plan,
                                 note |-> IF pulls'[run.pull].draft THEN "draft"
                                          ELSE IF fit THEN "eligible" ELSE "manual"]
    BY <2>5
  <2>8. pulls'[run.pull].auto = IF fit THEN Method ELSE None
    BY <2>4
  <2> HIDE DEF Fits
  <2> QED BY <2>2, <2>3, <2>6, <2>7, <2>8 DEF InSync
<1> QED BY <1>1, <1>3, <1>4, <1>5, DoneQuiet DEF Left, SameRead

\* The auto-merge action a run ends with, as its forecast had it.
LEMMA ReportAsForetold ==
  ASSUME Foretold(run), ~Unsafe(run), run.preDisabled => run.auto = None
  PROVE  Realised(run.forecast)[2] =
           IF Eligible(run)
           THEN IF run.auto # None THEN "already-enabled"
                ELSE IF run.preDisabled THEN "reconfigured" ELSE "enabled"
           ELSE IF run.preDisabled THEN "disabled" ELSE "not-eligible"
<1> DEFINE f == run.forecast[2]
<1>1. Method # None BY MethodAssumption
<1>2. run.auto = None \/ (Eligible(run) /\ run.auto = Method)
  BY DEF Unsafe
<1>3. Realised(run.forecast)[2] = IF f = "would-enable" THEN "enabled"
                                  ELSE IF f = "would-reconfigure" THEN "reconfigured"
                                  ELSE IF f = "would-disable" THEN "disabled"
                                  ELSE IF f = "" THEN "not-eligible" ELSE f
  BY RealisedForm
<1>4. CASE run.preDisabled
  <2>1. f = IF Eligible(run) THEN "would-reconfigure" ELSE "would-disable"
    BY <1>4 DEF Foretold
  <2> QED BY <1>3, <1>4, <2>1
<1>5. CASE ~run.preDisabled /\ run.action # "created"
  <2>1. f = IF Eligible(run)
            THEN IF run.auto = None THEN "would-enable" ELSE "already-enabled"
            ELSE "not-eligible"
    BY <1>1, <1>2, <1>5, PlannedForm DEF Foretold
  <2> QED BY <1>2, <1>3, <1>5, <2>1
<1>6. CASE ~run.preDisabled /\ run.action = "created"
  <2>1. run.auto = None /\ f = IF Eligible(run) THEN "would-enable" ELSE ""
    BY <1>6 DEF Foretold
  <2> QED BY <1>3, <1>6, <2>1
<1> QED BY <1>4, <1>5, <1>6

LEMMA EnableAutoMergeQuiet ==
  ASSUME IInv, Undisturbed, EnableAutoMerge, ~disturbed'
  PROVE  RunQuiet'
<1> DEFINE o == IF run.preDisabled THEN "reconfigured" ELSE "enabled"
           p == [pulls[run.pull] EXCEPT !.auto = Method, !.byBot = TRUE]
<1>1. /\ run.pc = "reconcile" /\ Eligible(run) /\ run.auto = None
      /\ policy' = policy /\ pulls \in Seq(Pulls) /\ run \in Runs
  BY DEF IInv, TypeOK, EnableAutoMerge, At
<1>2. Call(pulls[run.pull].open, branch, Armed(run.pull), Report(run, o), Api)
  BY DEF EnableAutoMerge
<1>3. run.pull \in DOMAIN pulls
  BY <1>1 DEF IInv, RunOK, SnapshotOK
<1>4. pulls[run.pull] \in Pulls
  BY <1>1, <1>3
<1>5. pulls[run.pull].open \in BOOLEAN
  BY <1>4 DEF Pulls
<1>6. ~disturbed
  BY <1>2, <1>5, CallQuiet
<1>7. /\ branch = run.plan /\ ~Unsafe(run) /\ Shows /\ Foretold(run)
      /\ run.preDisabled => run.auto = None
  BY <1>1, <1>6, AtReconcile
<1>8. OpenPulls(pulls) = {run.pull} /\ pulls[run.pull].open /\ run.pull # 0
  BY <1>7, TheOpen DEF Shows
<1>9. branch' = branch /\ pulls' = Armed(run.pull) /\ run' = Report(run, o)
  BY <1>2, <1>5, <1>8, CallQuiet
<1>10. /\ DOMAIN pulls' = DOMAIN pulls
       /\ \A m \in DOMAIN pulls : pulls'[m].open = pulls[m].open
       /\ pulls'[run.pull].auto = Method
       /\ pulls'[run.pull].draft = pulls[run.pull].draft
       /\ pulls'[run.pull].body = pulls[run.pull].body
  <2>1. /\ p.auto = Method /\ p.open = pulls[run.pull].open
        /\ p.draft = pulls[run.pull].draft /\ p.body = pulls[run.pull].body
    BY <1>4 DEF Pulls
  <2>2. pulls' = [pulls EXCEPT ![run.pull] = p]
    BY <1>9 DEF Armed
  <2> HIDE DEF p
  <2> QED BY <1>1, <1>3, <2>1, <2>2
<1>11. OpenPulls(pulls)' = {run.pull}
  BY <1>8, <1>10, SameOpen
<1>12. o \in AutoActions /\ o = Realised(run.forecast)[2]
  BY <1>1, <1>7, ReportAsForetold DEF AutoActions
<1> HIDE DEF o
<1> QED BY <1>1, <1>7, <1>8, <1>9, <1>10, <1>11, <1>12, ReportQuiet DEF Shows

\* What the update call answered is what the listing had shown.
LEMMA DisableLateQuiet ==
  ASSUME IInv, Undisturbed, DisableLate, ~disturbed'
  PROVE  FALSE
<1>1. run.pc = "reconcile" /\ ~Eligible(run) /\ run.auto # None
  BY DEF DisableLate, At
<1>2. ~disturbed
  BY CallQuiet DEF DisableLate, MayDisable
<1>3. ~Unsafe(run)
  BY <1>1, <1>2, AtReconcile
<1> QED BY <1>1, <1>3 DEF Unsafe

LEMMA KeepAutoMergeQuiet ==
  ASSUME IInv, Undisturbed, KeepAutoMerge, ~disturbed'
  PROVE  RunQuiet'
<1> DEFINE o == IF Eligible(run) THEN "already-enabled"
                ELSE IF run.preDisabled THEN "disabled" ELSE "not-eligible"
<1>1. /\ run.pc = "reconcile" /\ (Eligible(run) <=> run.auto # None)
      /\ policy' = policy
  BY DEF KeepAutoMerge, At
<1>2. ~disturbed /\ UNCHANGED github /\ run' = Report(run, o)
  <2>1. Local(Report(run, o), {}) BY DEF KeepAutoMerge
  <2> QED BY <2>1, LocalQuiet
<1>3. /\ run \in Runs /\ branch = run.plan /\ ~Unsafe(run) /\ Shows /\ Foretold(run)
      /\ run.preDisabled => run.auto = None
  BY <1>1, <1>2, AtReconcile
<1>4. OpenPulls(pulls) = {run.pull} /\ run.pull # 0
  BY <1>3, TheOpen DEF Shows
<1>5. pulls'[run.pull].auto = IF Eligible(run) THEN Method ELSE None
  BY <1>1, <1>2, <1>3 DEF Shows, Unsafe, github
<1>6. OpenPulls(pulls)' = {run.pull}
  BY <1>2, <1>4 DEF github, OpenPulls
<1>7. o \in AutoActions /\ o = Realised(run.forecast)[2]
  BY <1>1, <1>3, ReportAsForetold DEF AutoActions
<1> HIDE DEF o
<1> QED BY <1>1, <1>2, <1>3, <1>4, <1>5, <1>6, <1>7, ReportQuiet DEF Shows, github

LEMMA DeleteBranchQuiet ==
  ASSUME IInv, Undisturbed, DeleteBranch, ~disturbed'
  PROVE  RunQuiet'
<1> DEFINE next == IF run.pull # 0 THEN Goto(run, "close") ELSE Finish(run, "closed")
<1>1. run \in Runs /\ run.pc = "delete" /\ pulls \in Seq(Pulls)
  BY DEF IInv, TypeOK, DeleteBranch, At
<1>2. Call(branch = run.remote, None, Follow(pulls, None), next, Git)
  BY DEF DeleteBranch
<1> HIDE DEF next
<1>3. ~disturbed
  BY <1>2, CallQuiet
<1>4. run.remote = branch /\ run.plan = Current
  BY <1>1, <1>3 DEF Undisturbed, RunQuiet, Reading, Closing
<1>5. branch' = None /\ pulls' = Follow(pulls, None) /\ run' = next
  BY <1>2, <1>4, CallQuiet
<1>6. OpenPulls(pulls)' = {}
  <2>1. \A m \in DOMAIN pulls : pulls[m] \in Pulls BY <1>1
  <2>2. DOMAIN pulls' = DOMAIN pulls /\ \A m \in DOMAIN pulls : ~pulls'[m].open
    BY <1>5, <2>1 DEF Follow, Disarm, Pulls
  <2> QED BY <2>2 DEF OpenPulls
<1>7. CASE run.pull # 0
  <2>1. run'.pc = "close" /\ SameRead(run, run')
    BY <1>1, <1>5, <1>7, MovesKeep DEF Steps, next
  <2> QED BY <1>4, <1>5, <1>6, <2>1
     DEF RunQuiet, Reading, Writing, Closing, SameRead
<1>8. CASE run.pull = 0
  <2>1. run'.pc = "done" /\ SameRead(run, run') /\ run'.action = "closed"
    BY <1>1, <1>5, <1>8, MovesKeep DEF Actions, next
  <2>2. Left'
    BY <1>5, <1>6, <1>8, <2>1 DEF Left, Retired, SameRead
  <2> QED BY <2>1, <2>2, DoneQuiet
<1> QED BY <1>7, <1>8

LEMMA ClosePullQuiet ==
  ASSUME IInv, Undisturbed, ClosePull, ~disturbed'
  PROVE  RunQuiet'
<1>1. /\ run \in Runs /\ run.pc = "close" /\ pulls \in Seq(Pulls)
      /\ run.pull \in DOMAIN pulls /\ HubOK(branch, pulls)
      /\ branch \in Commits \cup {None}
  BY DEF IInv, TypeOK, RunOK, SnapshotOK, ClosePull, At
<1>2. /\ ~disturbed /\ branch' = branch /\ pulls' = Closed(pulls, run.pull)
      /\ run' = Finish(run, "closed")
  BY CallQuiet DEF ClosePull
<1>3. branch = None /\ OpenPulls(pulls) \subseteq {run.pull}
  BY <1>1, <1>2 DEF Undisturbed, RunQuiet, Closing
<1>4. /\ DOMAIN pulls' = DOMAIN pulls /\ ~pulls'[run.pull].open
      /\ \A m \in DOMAIN pulls : m # run.pull => pulls'[m] = pulls[m]
  BY <1>1, <1>2, ClosedOK
<1>5. OpenPulls(pulls)' = {}
  BY <1>3, <1>4 DEF OpenPulls
<1>6. pulls'[run.pull].auto = None
  <2> DEFINE p == Disarm([pulls[run.pull] EXCEPT !.open = FALSE])
  <2>1. pulls[run.pull] \in Pulls BY <1>1
  <2>2. p.auto = None
    BY <2>1 DEF Disarm, Pulls
  <2>3. pulls' = [pulls EXCEPT ![run.pull] = p]
    BY <1>2 DEF Closed
  <2> HIDE DEF p
  <2> QED BY <1>1, <2>2, <2>3
<1>7. run'.pc = "done" /\ SameRead(run, run') /\ run'.action = "closed"
  BY <1>1, <1>2, MovesKeep DEF Actions
<1>8. Left'
  BY <1>2, <1>3, <1>5, <1>6, <1>7 DEF Left, Retired, SameRead
<1> QED BY <1>7, <1>8, DoneQuiet

\* Between runs there is nothing to disturb.
LEMMA IdleQuiet ==
  ASSUME run'.pc = "idle"
  PROVE  RunQuiet'
BY DEF RunQuiet, Reading, Writing, Closing

LEMMA OutsideQuiet ==
  ASSUME OutsideStep, ~disturbed'
  PROVE  RunQuiet'
<1>1. Act
  BY DEF OutsideStep, SomeonePushes, SomeoneDeletesBranch, SomeoneCloses,
     SomeoneReopens, SomeoneOpens, SomeoneEdits, PullMerges, InventoryChanges,
     PolicyChanges
<1>2. run'.pc = "idle"
  BY <1>1 DEF Act
<1> QED BY <1>2, IdleQuiet

LEMMA StutterQuiet ==
  ASSUME UNCHANGED vars, RunQuiet
  PROVE  RunQuiet'
<1>1. UNCHANGED <<branch, pulls, run, policy>>
  BY DEF vars
<1>2. /\ Eligible(run)' = Eligible(run) /\ BodyFor(run)' = BodyFor(run)
      /\ BranchChanged(run)' = BranchChanged(run) /\ Unsafe(run)' = Unsafe(run)
      /\ PreviewBefore(run)' = PreviewBefore(run) /\ Foretold(run)' = Foretold(run)
  BY <1>1, SamePolicy
<1>3. OpenPulls(pulls)' = OpenPulls(pulls) /\ Evidence(pulls)' = Evidence(pulls)
  BY <1>1
<1>4. InSync(run.plan)' = InSync(run.plan)
  BY <1>1, <1>3 DEF InSync, Fits
<1>5. Left' = Left
  BY <1>1, <1>2, <1>3, <1>4 DEF Left, Retired
<1>6. Shows' = Shows /\ Sees' = Sees
  BY <1>1, <1>2, <1>3 DEF Shows, Sees
<1>7. Reading'
  BY <1>1, <1>6 DEF RunQuiet, Reading
<1>8. Writing'
  BY <1>1, <1>2, <1>6 DEF RunQuiet, Writing
<1>9. Closing'
  BY <1>1, <1>3 DEF RunQuiet, Closing
<1> QED BY <1>1, <1>5, <1>7, <1>8, <1>9 DEF RunQuiet

LEMMA StepQuiet == IInv /\ Undisturbed /\ [Next]_vars => Undisturbed'
<1> SUFFICES ASSUME IInv, Undisturbed, [Next]_vars, ~disturbed' PROVE RunQuiet'
  BY DEF Undisturbed
<1>1. CASE UNCHANGED vars
  BY <1>1, StutterQuiet DEF Undisturbed, vars
<1>2. ASSUME NEW write \in Modes, Start(write) PROVE RunQuiet'
  BY <1>2, StartQuiet
<1>3. CASE OutsideStep
  BY <1>3, OutsideQuiet
<1>4. CASE RunnerStep
  <2>1. CASE Prepare BY <2>1, PrepareQuiet
  <2>2. CASE ListPulls BY <2>2, ListPullsQuiet
  <2>3. CASE ReadRef BY <2>3, ReadRefQuiet
  <2>4. CASE Commit BY <2>4, CommitQuiet
  <2>5. CASE DisableUnsafe BY <2>5, DisableUnsafeQuiet
  <2>6. CASE Push BY <2>6, PushQuiet
  <2>7. CASE CreatePull BY <2>7, CreatePullQuiet
  <2>8. CASE UpdatePull BY <2>8, UpdatePullQuiet
  <2>9. CASE KeepPull BY <2>9, KeepPullQuiet
  <2>10. CASE AddLabels BY <2>10, AddLabelsQuiet
  <2>11. CASE EnableAutoMerge BY <2>11, EnableAutoMergeQuiet
  <2>12. CASE DisableLate BY <2>12, DisableLateQuiet
  <2>13. CASE KeepAutoMerge BY <2>13, KeepAutoMergeQuiet
  <2>14. CASE DeleteBranch BY <2>14, DeleteBranchQuiet
  <2>15. CASE ClosePull BY <2>15, ClosePullQuiet
  <2>16. CASE Return BY <2>16, IdleQuiet, IdleType DEF Return
  <2> QED BY <1>4, <2>1, <2>2, <2>3, <2>4, <2>5, <2>6, <2>7, <2>8, <2>9, <2>10,
             <2>11, <2>12, <2>13, <2>14, <2>15, <2>16 DEF RunnerStep
<1> QED BY <1>1, <1>2, <1>3, <1>4 DEF Next

\* While nothing outside disturbs a run and no call of it fails, GitHub is at
\* each step what the run's snapshot and its finished steps make it.
THEOREM UndisturbedRuns == Spec => []Undisturbed
<1>1. Init => Undisturbed
  <2>1. Init => run.pc = "idle"
    BY IdleType DEF Init
  <2>2. run.pc = "idle" => RunQuiet
    BY DEF RunQuiet, Reading, Writing, Closing
  <2> QED BY <2>1, <2>2 DEF Undisturbed
<1>2. IInv /\ Undisturbed /\ [Next]_vars => Undisturbed'
  BY StepQuiet
<1> QED BY <1>1, <1>2, Invariance, PTL DEF Spec

\* What a preview of a repository says is what a write run of the same snapshot
\* does and reports, although previewUpdate and writeUpdate decide apart
\* (runner.go:238-341, 387-425, 537-551).
THEOREM PreviewHolds == Spec => []PreviewForecasts
<1>1. Undisturbed => PreviewForecasts
  BY DEF Undisturbed, RunQuiet, Left, PreviewForecasts
<1> QED BY <1>1, UndisturbedRuns, PTL

\* A write run that nothing disturbed and that reports success leaves the
\* plan's commit on the branch under one pull request that describes it, armed
\* exactly when it is eligible; a closing run leaves nothing of its own.  With
\* settings.Draft the first run leaves a body the second one rewrites, so the
\* theorem is about settings without it (runner.go:225-235).
THEOREM CompletedInSync == ~Draft => (Spec => []CompletedRunInSync)
<1> SUFFICES ASSUME ~Draft PROVE Spec => []CompletedRunInSync
  OBVIOUS
<1>1. Undisturbed => CompletedRunInSync
  BY DEF Undisturbed, RunQuiet, Left, CompletedRunInSync
<1> QED BY <1>1, UndisturbedRuns, PTL

\* A write run that nothing disturbed leaves no auto-merge request on the pull
\* request it found unless the plan is eligible.  With settings.CloseStale off
\* a pull request outlives its plan with its request, which the run
\* "retain" shows, so the theorem is about settings with it (runner.go:117-140,
\* 297-314, 343-371).
THEOREM UnfitDisarmed == CloseStale => (Spec => []UnfitPullDisarmed)
<1> SUFFICES ASSUME CloseStale PROVE Spec => []UnfitPullDisarmed
  OBVIOUS
<1>1. Undisturbed => UnfitPullDisarmed
  BY DEF Undisturbed, RunQuiet, Left, UnfitPullDisarmed
<1> QED BY <1>1, UndisturbedRuns, PTL

\* What a run sees of a pull request that is in sync with its plan.
LEMMA InSyncSeen ==
  ASSUME InSync(run.plan), NEW n, OpenPulls(pulls) = {n}
  PROVE  /\ branch = run.plan
         /\ pulls[n].auto = IF Fits(run.plan) /\ ~pulls[n].draft THEN Method ELSE None
         /\ pulls[n].body = [plan |-> run.plan,
                             note |-> IF pulls[n].draft THEN "draft"
                                      ELSE IF Fits(run.plan) THEN "eligible"
                                      ELSE "manual"]
<1>1. PICK m \in DOMAIN pulls :
        LET fit == Fits(run.plan) /\ ~pulls[m].draft
        IN /\ OpenPulls(pulls) = {m}
           /\ pulls[m].body = [plan |-> run.plan,
                               note |-> IF pulls[m].draft THEN "draft"
                                        ELSE IF fit THEN "eligible" ELSE "manual"]
           /\ pulls[m].auto = IF fit THEN Method ELSE None
  BY DEF InSync
<1>2. m = n BY <1>1
<1>3. branch = run.plan BY DEF InSync
<1>4. pulls[n].auto = IF Fits(run.plan) /\ ~pulls[n].draft THEN Method ELSE None
  BY <1>1, <1>2
<1>5. pulls[n].body = [plan |-> run.plan,
                       note |-> IF pulls[n].draft THEN "draft"
                                ELSE IF Fits(run.plan) THEN "eligible" ELSE "manual"]
  BY <1>1, <1>2
<1> QED BY <1>3, <1>4, <1>5

\* No call of an undisturbed run changes a GitHub that its plan is in sync with.
LEMMA NothingToChange ==
  ASSUME IInv, Undisturbed, [Next]_vars, acts' = acts, ~disturbed, ~disturbed',
         run.plan \in Plans, InSync(run.plan)
  PROVE  UNCHANGED github
<1>1. Reading /\ Writing /\ Closing
  BY DEF Undisturbed, RunQuiet
<1>2. CASE OutsideStep
  <2>1. Act
    BY <1>2 DEF OutsideStep, SomeonePushes, SomeoneDeletesBranch, SomeoneCloses,
       SomeoneReopens, SomeoneOpens, SomeoneEdits, PullMerges, InventoryChanges,
       PolicyChanges
  <2>2. acts \in Nat /\ acts' = acts + 1
    BY <2>1, BoundsAssumption DEF Act, IInv, TypeOK
  <2> QED BY <2>2
<1>3. CASE \E write \in Modes : Start(write)
  BY <1>3 DEF Start
<1>4. CASE Prepare BY <1>4, LocalQuiet DEF Prepare
<1>5. CASE ListPulls BY <1>5, LocalQuiet DEF ListPulls
<1>6. CASE ReadRef BY <1>6, LocalQuiet DEF ReadRef
<1>7. CASE Commit BY <1>7 DEF Commit, Local
<1>8. CASE KeepPull BY <1>8 DEF KeepPull, Local
<1>9. CASE AddLabels BY <1>9 DEF AddLabels, Local
<1>10. CASE KeepAutoMerge BY <1>10 DEF KeepAutoMerge, Local
<1>11. CASE Return BY <1>11 DEF Return
<1>12. CASE DisableLate BY <1>12, DisableLateQuiet
<1>13. CASE DeleteBranch \/ ClosePull
  BY <1>1, <1>13, DistinctNames DEF DeleteBranch, ClosePull, At, Closing
<1>14. CASE DisableUnsafe
  <2>1. Sees /\ Unsafe(run) /\ run.auto # None
    BY <1>1, <1>14 DEF DisableUnsafe, At, Reading, Writing
  <2>2. /\ OpenPulls(pulls) = {run.pull} /\ pulls[run.pull].auto = run.auto
        /\ pulls[run.pull].draft = run.draft
    BY <2>1 DEF Sees
  <2>3. Fits(run.plan) /\ ~run.draft /\ run.auto = Method
    BY <2>1, <2>2, InSyncSeen
  <2> QED BY <2>1, <2>3 DEF Unsafe, Eligible
<1>15. CASE Push
  <2>1. run.remote = branch /\ BranchChanged(run)
    BY <1>1, <1>15 DEF Push, At, Reading, Writing
  <2> QED BY <2>1 DEF InSync, BranchChanged
<1>16. CASE CreatePull
  <2>1. OpenPulls(pulls) = {}
    BY <1>1, <1>16 DEF CreatePull, At, Reading, Sees
  <2>2. OpenPulls(pulls) # {}
    BY DEF InSync
  <2> QED BY <2>1, <2>2
<1>17. CASE UpdatePull
  <2>1. /\ OpenPulls(pulls) = {run.pull} /\ pulls[run.pull].body = run.body
        /\ pulls[run.pull].draft = run.draft /\ run.pull # 0 /\ MetadataChanged(run)
    BY <1>1, <1>17 DEF UpdatePull, At, Reading, Sees
  <2>2. run.body = BodyFor(run)
    BY <2>1, InSyncSeen DEF BodyFor, NoteFor
  <2> QED BY <2>1, <2>2 DEF MetadataChanged
<1>18. CASE EnableAutoMerge
  <2>1. Shows /\ Eligible(run) /\ run.auto = None /\ run.pull # 0
    BY <1>1, <1>18 DEF EnableAutoMerge, At, Writing, IInv, RunOK, SnapshotOK
  <2>2. OpenPulls(pulls) = {run.pull} /\ pulls[run.pull].auto = None
    BY <2>1 DEF Shows
  <2>3. Fits(run.plan) /\ ~pulls[run.pull].draft
    BY <2>1 DEF Eligible, Fits, Shows
  <2> QED BY <2>2, <2>3, InSyncSeen, MethodAssumption
<1>19. CASE UNCHANGED vars
  BY <1>19 DEF vars, github
<1> QED BY <1>2, <1>3, <1>4, <1>5, <1>6, <1>7, <1>8, <1>9, <1>10, <1>11, <1>12,
           <1>13, <1>14, <1>15, <1>16, <1>17, <1>18, <1>19 DEF Next, RunnerStep

\* A run of a plan that GitHub already shows, undisturbed, leaves GitHub as it
\* is at every step: it neither withdraws nor repeats what is there
\* (runner.go:305-308, 394-397).
THEOREM RerunHarmless == Spec => RerunChangesNothing
<1>1. IInv /\ Undisturbed /\ [Next]_vars =>
        [acts' = acts /\ ~disturbed /\ ~disturbed'
           /\ run.plan \in Plans /\ InSync(run.plan) => UNCHANGED github]_vars
  BY NothingToChange
<1> QED BY <1>1, Invariance, UndisturbedRuns, PTL DEF Spec, RerunChangesNothing
=============================================================================
