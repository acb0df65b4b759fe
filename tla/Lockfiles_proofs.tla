-------------------------- MODULE Lockfiles_proofs --------------------------
(***************************************************************************)
(* For every repository, whatever its package managers, whatever their     *)
(* commands do to a worktree, and for any number of edits and commits of   *)
(* people: Lockfiles' states are well typed, a write leaves what both      *)
(* regenerations made, with the manifests as approved and no lockfile      *)
(* missing, and replaces only what was committed, but for what is edited   *)
(* between a look at a file and its use.                                   *)
(***************************************************************************)
EXTENDS Lockfiles, SequenceTheorems, TLAPS

-----------------------------------------------------------------------------
(* The invariant *)

\* The steps of a run, from the last one of a group on.
Regenerating == {"worktree", "command", "hung", "held", "restore", "collect"}
InWorktree == Regenerating \ {"worktree"}
Revalidated == Regenerating \cup {"compare", "check", "store", "undo"}
Validated == Revalidated \cup {"revalidate"}
WithShot == Validated \cup {"validate"}
WithBefore == WithShot \cup {"group", "snapshot"}

Written(r) == r.pc = "done" /\ r.outcome = "written"

\* What a person or a scan finds in a manifest that is not updated.
Texts == [text : {"old", "edited"}, form : {"plain"}]
SomePaths == UNION {[D -> Contents] : D \in SUBSET Paths}

IsRun(r) ==
  r = [pc |-> r.pc, entries |-> r.entries, scanned |-> r.scanned,
       before |-> r.before, groups |-> r.groups, shot |-> r.shot,
       commit |-> r.commit, tree |-> r.tree, todo |-> r.todo, made |-> r.made,
       files |-> r.files, outcome |-> r.outcome, committed |-> r.committed, left |-> r.left,
       edited |-> r.edited, flips |-> r.flips]

\* What was planned: the manifests are all there, and plain.
PlanOK(r) ==
  /\ r.pc \in Steps /\ r.outcome \in Outcomes
  /\ r.pc \notin {"undo", "done"} => r.outcome = "nothing"
  /\ r.pc = "undo" => r.outcome \in {"restored", "partial"}
  /\ r.entries \subseteq repo.entries
  /\ r.pc = "plan" => DOMAIN r.scanned = Manifests(r.entries)
  /\ r.before = Nothing \/ r.before \in [Manifests(r.entries) -> Texts]
  /\ r.pc \in WithBefore \/ Written(r) => DOMAIN r.before = Manifests(r.entries)
  /\ Locks(r.groups) \subseteq Paths
  /\ r.shot = Nothing \/ r.shot \in [Planned(r) -> Contents]
  /\ r.pc \in WithShot \/ Written(r) => DOMAIN r.shot = Planned(r)
  /\ r.pc \in {"plan", "group", "snapshot"} => r.shot = Nothing
  /\ r.pc = "plan" => r.before = Nothing
  /\ r.pc \in {"plan", "group"} => r.groups = {}

\* The worktree at hand, and how many there were.
WorktreesOK(r) ==
  /\ r.pc \in InWorktree => r.commit \in Checkouts /\ r.tree \in Checkouts
  /\ r.made \in Seq(SomePaths) /\ r.left \in Seq(Checkouts)
  /\ Len(r.left) = Len(r.made)
  /\ r.pc \notin Revalidated /\ ~Written(r) => Len(r.made) = 0
  /\ r.pc \in Regenerating => Len(r.made) <= 1
  /\ r.pc \in {"compare", "check", "store", "undo"} \/ Written(r) => Len(r.made) = 2
  /\ r.pc \in {"check", "store", "undo"} \/ Written(r) => r.made[1] = r.made[2]
  /\ r.pc \in {"check", "store", "undo"} => r.files \subseteq DOMAIN r.made[1]

\* A regeneration's files are those of its worktree that are not as planned.
CollectedOK(r) ==
  \A k \in 1..Len(r.made) :
    /\ DOMAIN r.made[k] \subseteq Planned(r)
    /\ \A p \in DOMAIN r.made[k] : r.made[k][p] = r.left[k][p]
    /\ \A p \in Planned(r) \ DOMAIN r.made[k] : r.left[k][p] = r.shot[p]
    /\ \A f \in DOMAIN r.before : r.left[k][f] = Approved(r.before[f])
    /\ \A p \in Required(r.groups) : r.left[k][p] # Absent

\* What a planned path holds while the files are written one by one.
Stored(r, p) == IF p \in DOMAIN r.made[1] \ r.files THEN r.made[1][p] ELSE r.shot[p]

\* The checkout is as in the snapshot, then file by file as the regenerations
\* made it, and at the end as the worktrees were left, wherever nobody edited it
\* since it was last looked at or written.  Where a rollback has still to go, it
\* has either.
SourceOK(r, src) ==
  /\ r.pc \in Regenerating \cup {"compare", "check"} =>
       \A p \in Planned(r) \ r.edited : src[p] = r.shot[p]
  /\ r.pc = "store" => \A p \in Planned(r) \ r.edited : src[p] = Stored(r, p)
  /\ r.pc = "undo" =>
       \A p \in r.files \ r.edited : src[p] \in {r.shot[p], r.made[1][p]}
  /\ Written(r) => \A p \in Planned(r) \ r.edited :
                     src[p] = r.left[1][p] /\ src[p] = r.left[2][p]

\* How a snapshot can hold what is not committed: somebody took it back for
\* the validation, and edited it again before the second look at it.
Settled(r, p) == r.shot[p] \in {Absent, r.committed[p]} \/ r.flips[p] = 2
HistoryOK(r, src) ==
  /\ r.pc \notin {"idle", "done"} \/ Written(r) => r.flips \in [Paths -> 0..2]
  /\ r.pc \in {"idle", "done"} => Written(r) \/ r.flips = Nothing
  /\ r.pc = "validate" => \A p \in Planned(r) : src[p] = r.shot[p] \/ r.flips[p] \in 1..2
  /\ r.pc = "revalidate" => \A p \in Planned(r) :
       Settled(r, p) \/ (src[p] # r.shot[p] /\ r.flips[p] \in 1..2)
  /\ r.pc \in Revalidated => \A p \in Planned(r) : Settled(r, p)

RunOK(r, src) ==
  /\ IsRun(r) /\ PlanOK(r) /\ WorktreesOK(r) /\ CollectedOK(r)
  /\ SourceOK(r, src) /\ HistoryOK(r, src)

IInv ==
  /\ repo \in Repositories /\ source \in Checkouts /\ head \in Checkouts
  /\ edits \in 0..MaxEdits
  /\ RunOK(run, source)

-----------------------------------------------------------------------------
(* Contents and checkouts *)

LEMMA TextsOK ==
  /\ \A c \in Contents : c.form = "plain" => c \in Texts
  /\ \A c \in Texts : /\ c \in Contents /\ c # Absent
                      /\ Approved(c) \in Contents /\ Approved(c) # Absent
                      /\ Pinned(c) \in Contents
<1>1. ASSUME NEW c \in Contents, c.form = "plain" PROVE c \in Texts
  <2>1. c \notin Generated /\ c # Absent
    BY <1>1 DEF Generated, Absent
  <2> QED BY <1>1, <2>1 DEF Contents, Texts
<1>2. ASSUME NEW c \in Texts
      PROVE  /\ c \in Contents /\ c # Absent
             /\ Approved(c) \in Contents /\ Approved(c) # Absent
             /\ Pinned(c) \in Contents
  <2>1. /\ c \in Contents /\ c.text # "none"
    BY DEF Texts, Contents
  <2>2. Approved(c) \in [text : {"old", "edited"}, form : {"plain", "approved", "pinned"}]
    BY DEF Texts, Approved
  <2>3. Pinned(c) \in [text : {"old", "edited"}, form : {"plain", "approved", "pinned"}]
    BY DEF Texts, Pinned
  <2>4. c # Absent /\ Approved(c) # Absent
    BY <2>1, <2>2 DEF Absent
  <2> QED BY <2>1, <2>2, <2>3, <2>4 DEF Contents
<1> QED BY <1>1, <1>2

\* What is written over a checkout leaves one, with what was written where it
\* is one of its paths, and the others as they were.
LEMMA OverOK ==
  ASSUME NEW f \in Checkouts, NEW g,
         \A p \in DOMAIN g \cap Paths : g[p] \in Contents
  PROVE  /\ Over(f, g) \in Checkouts
         /\ \A p \in DOMAIN g \cap Paths : Over(f, g)[p] = g[p]
         /\ \A p \in Paths \ DOMAIN g : Over(f, g)[p] = f[p]
BY DEF Over, Checkouts

\* Plans name only paths of the repository.
LEMMA PathsOK ==
  ASSUME repo \in Repositories
  PROVE  /\ \A entries \in SUBSET repo.entries :
              Manifests(entries) \subseteq Paths /\ Locks(Groups(Tree, entries)) \subseteq Paths
         /\ Editable \subseteq Paths
<1>1. Tree \in {[repo.tree EXCEPT !.files = f] : f \in SUBSET Paths}
  BY DEF Tree, Paths
<1>2. ASSUME NEW entries \in SUBSET repo.entries
      PROVE  Manifests(entries) \subseteq Paths /\ Locks(Groups(Tree, entries)) \subseteq Paths
  <2>1. Manifests(entries) \subseteq Manifests(repo.entries)
    BY DEF Manifests
  <2> QED BY <1>1, <2>1, RepositoriesAssumption DEF Paths
<1>3. Editable \subseteq Paths
  BY RepositoriesAssumption DEF Editable, Paths
<1> QED BY <1>2, <1>3

\* The plan of a run, once its manifests are read.
LEMMA PlannedOK ==
  ASSUME NEW r, repo \in Repositories, PlanOK(r)
  PROVE  /\ Planned(r) \subseteq Paths /\ Required(r.groups) \subseteq Planned(r)
         /\ DOMAIN r.before \subseteq Planned(r) /\ Pins(r) \subseteq Manifests(r.entries)
         /\ \A f \in DOMAIN r.before : r.before[f] \in Texts
<1>1. DOMAIN r.before \subseteq Manifests(r.entries)
  BY DEF PlanOK, Nothing
<1>2. Manifests(r.entries) \subseteq Paths
  BY PathsOK DEF PlanOK
<1>3. Required(r.groups) \subseteq Locks(r.groups)
  BY DEF Required, Locks
<1>4. Pins(r) \subseteq Manifests(r.entries)
  BY DEF Pins, Manifests
<1>5. \A f \in DOMAIN r.before : r.before[f] \in Texts
  BY DEF PlanOK, Nothing
<1> QED BY <1>1, <1>2, <1>3, <1>4, <1>5 DEF PlanOK, Planned

-----------------------------------------------------------------------------
(* The steps that only go on *)

\* All of a run but where it is.
Same(r, s) ==
  /\ r.entries = s.entries /\ r.scanned = s.scanned /\ r.before = s.before
  /\ r.groups = s.groups /\ r.shot = s.shot /\ r.commit = s.commit
  /\ r.tree = s.tree /\ r.todo = s.todo /\ r.made = s.made
  /\ r.files = s.files
  /\ r.outcome = s.outcome /\ r.committed = s.committed /\ r.left = s.left
  /\ r.edited = s.edited /\ r.flips = s.flips

LEMMA GotoFields ==
  ASSUME NEW r, IsRun(r), NEW pc
  PROVE  /\ IsRun([r EXCEPT !.pc = pc]) /\ [r EXCEPT !.pc = pc].pc = pc
         /\ Same([r EXCEPT !.pc = pc], r)
<1> DEFINE s == [r EXCEPT !.pc = pc]
<1>1. s = [pc |-> pc, entries |-> r.entries, scanned |-> r.scanned,
       before |-> r.before, groups |-> r.groups, shot |-> r.shot,
       commit |-> r.commit, tree |-> r.tree, todo |-> r.todo, made |-> r.made,
       files |-> r.files, outcome |-> r.outcome, committed |-> r.committed, left |-> r.left,
       edited |-> r.edited, flips |-> r.flips]
  BY DEF IsRun
<1> HIDE DEF s
<1>2. s.pc = pc /\ Same(s, r)
  BY <1>1 DEF Same
<1>3. IsRun(s)
  BY <1>1, <1>2 DEF IsRun, Same
<1> QED BY <1>2, <1>3 DEF s

\* A run that is done keeps its data.
Kept(r, s) ==
  /\ r.entries = s.entries /\ r.scanned = s.scanned /\ r.before = s.before
  /\ r.groups = s.groups /\ r.shot = s.shot /\ r.commit = s.commit
  /\ r.tree = s.tree /\ r.todo = s.todo /\ r.made = s.made
  /\ r.files = s.files /\ r.committed = s.committed /\ r.left = s.left
  /\ r.edited = s.edited /\ r.flips = s.flips

LEMMA FinishFields ==
  ASSUME NEW r, IsRun(r), NEW o
  PROVE  /\ IsRun(Finish(r, o)) /\ Finish(r, o).pc = "done"
         /\ Finish(r, o).outcome = o /\ Kept(Finish(r, o), r)
<1> DEFINE s == Finish(r, o)
<1>0. s = [r EXCEPT !.pc = "done", !.outcome = o]
  BY DEF Finish
<1> HIDE DEF s
<1>1. s = [pc |-> "done", entries |-> r.entries, scanned |-> r.scanned,
       before |-> r.before, groups |-> r.groups, shot |-> r.shot,
       commit |-> r.commit, tree |-> r.tree, todo |-> r.todo, made |-> r.made,
       files |-> r.files, outcome |-> o, committed |-> r.committed, left |-> r.left,
       edited |-> r.edited, flips |-> r.flips]
  BY <1>0 DEF IsRun
<1>2. s.pc = "done" /\ s.outcome = o /\ Kept(s, r)
  BY <1>1 DEF Kept
<1>3. IsRun(s)
  BY <1>1, <1>2 DEF IsRun, Kept
<1> QED BY <1>2, <1>3 DEF s

\* No run, and one that ended without a write.
LEMMA ResetOK ==
  ASSUME NEW src
  PROVE  /\ RunOK(Idle, src)
         /\ \A o \in Outcomes \ {"written"} : RunOK(Ended(o), src)
<1>1. ASSUME NEW r, NEW pc \in {"idle", "done"}, NEW o \in Outcomes \ {"written"},
             pc = "idle" => o = "nothing",
             IsRun(r), r.pc = pc, r.outcome = o, r.entries = {},
             r.before = Nothing, r.groups = {}, r.shot = Nothing,
             r.made = <<>>, r.left = <<>>, r.flips = Nothing
      PROVE  RunOK(r, src)
  <2>1. PlanOK(r)
    BY <1>1 DEF PlanOK, Steps, WithBefore, WithShot, Validated, Revalidated,
       Regenerating, Written, Locks
  <2>2. /\ Len(r.made) = 0 /\ 1..0 = {} /\ r.made \in Seq(SomePaths)
        /\ Len(r.left) = 0 /\ r.left \in Seq(Checkouts)
    BY <1>1, EmptySeq
  <2>3. WorktreesOK(r) /\ CollectedOK(r)
    BY <1>1, <2>2 DEF WorktreesOK, CollectedOK, InWorktree, Revalidated,
       Regenerating, Written
  <2>4. SourceOK(r, src) /\ HistoryOK(r, src)
    BY <1>1 DEF SourceOK, HistoryOK, Revalidated, Regenerating, Written
  <2> QED BY <1>1, <2>1, <2>3, <2>4 DEF RunOK
<1>2. RunOK(Idle, src)
  <2>1. /\ IsRun(Idle) /\ Idle.pc = "idle" /\ Idle.outcome = "nothing"
        /\ Idle.entries = {} /\ Idle.before = Nothing /\ Idle.groups = {}
        /\ Idle.shot = Nothing /\ Idle.made = <<>> /\ Idle.left = <<>>
        /\ Idle.flips = Nothing
    BY DEF Idle, IsRun
  <2> QED BY <1>1, <2>1 DEF Outcomes
<1>3. ASSUME NEW o \in Outcomes \ {"written"}
      PROVE  RunOK(Ended(o), src)
  <2> DEFINE r == Ended(o)
  <2>1. /\ IsRun(r) /\ r.pc = "done" /\ r.outcome = o /\ r.entries = {}
        /\ r.before = Nothing /\ r.groups = {} /\ r.shot = Nothing
        /\ r.made = <<>> /\ r.left = <<>> /\ r.flips = Nothing
    <3>1. /\ IsRun(Idle) /\ Idle.entries = {} /\ Idle.before = Nothing
          /\ Idle.groups = {} /\ Idle.shot = Nothing /\ Idle.made = <<>>
          /\ Idle.left = <<>> /\ Idle.flips = Nothing
      BY DEF Idle, IsRun
    <3> HIDE DEF Idle
    <3> QED BY <3>1, FinishFields DEF Ended, Kept
  <2> HIDE DEF r
  <2> QED BY <1>1, <2>1 DEF r
<1> QED BY <1>2, <1>3

LEMMA InitOK == Init => IInv
<1> SUFFICES ASSUME Init PROVE IInv OBVIOUS
<1>1. Absent \in Contents /\ Plain("old") \in Contents /\ Plain("edited") \in Contents
  BY DEF Contents, Plain
<1>2. head \in Checkouts
  BY <1>1 DEF Init, Checkouts
<1>3. source \in Checkouts
  BY <1>1, <1>2 DEF Init, Checkouts
<1> QED BY <1>2, <1>3, ResetOK, MaxEditsAssumption DEF Init, IInv

\* The repository stays what it is, so that the invariant of the next state is
\* that of the next run in this one.
LEMMA NextOK ==
  ASSUME UNCHANGED repo, repo \in Repositories, source' \in Checkouts,
         head' \in Checkouts, edits' \in 0..MaxEdits, RunOK(run', source')
  PROVE  IInv'
<1>1. Paths' = Paths /\ Checkouts' = Checkouts /\ SomePaths' = SomePaths
  BY DEF Paths, Checkouts, SomePaths
<1>2. PlanOK(run)'
  BY <1>1 DEF RunOK, PlanOK
<1>3. WorktreesOK(run)' /\ HistoryOK(run, source)'
  BY <1>1 DEF RunOK, WorktreesOK, HistoryOK
<1>4. IsRun(run)' /\ CollectedOK(run)' /\ SourceOK(run, source)'
  BY DEF RunOK, IsRun, CollectedOK, SourceOK
<1> QED BY <1>1, <1>2, <1>3, <1>4 DEF IInv, RunOK

\* A run that ends without a write, or is over.
LEMMA EndedOK ==
  ASSUME IInv, UNCHANGED <<repo, head, edits>>, source' \in Checkouts,
         \/ \E o \in Outcomes \ {"written"} : run' = Ended(o)
         \/ run' = Idle
  PROVE  IInv'
<1>1. RunOK(run', source')
  BY ResetOK
<1> QED BY <1>1, NextOK DEF IInv

-----------------------------------------------------------------------------
(* Planning and validation *)

LEMMA BeginOK == IInv /\ Begin => IInv'
<1> SUFFICES ASSUME IInv, Begin PROVE IInv' OBVIOUS
<1> DEFINE flips == [p \in Paths |-> 0]
           scanned == [f \in Manifests(Outdated) |-> source[f]]
<1>1. /\ UNCHANGED <<repo, head, edits, source>> /\ Outdated \subseteq repo.entries
      /\ flips \in [Paths -> 0..2] /\ DOMAIN scanned = Manifests(Outdated)
      /\ run' = [Idle EXCEPT !.pc = "plan", !.entries = Outdated,
                             !.scanned = scanned, !.flips = flips]
  BY DEF Begin, At, Quiet, Outdated
<1> HIDE DEF flips, scanned
<1>2. /\ IsRun(Idle) /\ Idle.before = Nothing /\ Idle.groups = {} /\ Idle.shot = Nothing
      /\ Idle.made = <<>> /\ Idle.left = <<>> /\ Idle.outcome = "nothing"
  BY DEF Idle, IsRun
<1> HIDE DEF Idle
<1>3. /\ IsRun(run') /\ run'.pc = "plan" /\ run'.entries = Outdated
      /\ run'.scanned = scanned /\ run'.flips = flips
      /\ run'.before = Nothing /\ run'.groups = {} /\ run'.shot = Nothing
      /\ run'.made = <<>> /\ run'.left = <<>> /\ run'.outcome = "nothing"
  <2> DEFINE s == run'
  <2>1. s = [pc |-> "plan", entries |-> Outdated, scanned |-> scanned,
       before |-> Idle.before, groups |-> Idle.groups, shot |-> Idle.shot,
       commit |-> Idle.commit, tree |-> Idle.tree, todo |-> Idle.todo, made |-> Idle.made,
       files |-> Idle.files, outcome |-> Idle.outcome, committed |-> Idle.committed, left |-> Idle.left,
       edited |-> Idle.edited, flips |-> flips]
    BY <1>1, <1>2 DEF IsRun
  <2> HIDE DEF s
  <2> QED BY <1>2, <2>1 DEF IsRun, s
<1>4. PlanOK(run')
  BY <1>1, <1>3 DEF PlanOK, Steps, Outcomes, WithBefore, WithShot, Validated,
     Revalidated, Regenerating, Written, Locks
<1>5. WorktreesOK(run') /\ CollectedOK(run')
  <2>1. /\ Len(run'.made) = 0 /\ 1..0 = {} /\ run'.made \in Seq(SomePaths)
        /\ Len(run'.left) = 0 /\ run'.left \in Seq(Checkouts)
    BY <1>3, EmptySeq
  <2> QED BY <1>3, <2>1 DEF WorktreesOK, CollectedOK, InWorktree, Revalidated,
       Regenerating, Written
<1>6. SourceOK(run', source) /\ HistoryOK(run', source)
  BY <1>1, <1>3 DEF SourceOK, HistoryOK, Revalidated, Regenerating, Written
<1> QED BY <1>1, <1>3, <1>4, <1>5, <1>6, NextOK DEF IInv, RunOK

LEMMA PlanManifestsOK == IInv /\ PlanManifests => IInv'
<1> SUFFICES ASSUME IInv, PlanManifests PROVE IInv' OBVIOUS
<1> DEFINE before == [f \in DOMAIN run.scanned |-> source[f]]
<1>1. /\ UNCHANGED <<repo, head, edits, source>> /\ run.pc = "plan"
      /\ RunOK(run, source) /\ source \in Checkouts /\ repo \in Repositories
  BY DEF PlanManifests, At, Quiet, IInv
<1>2. CASE run' = Ended("nothing")
  BY <1>1, <1>2, EndedOK DEF Outcomes
<1>3. CASE run' = [run EXCEPT !.pc = "group", !.scanned = Nothing, !.before = before]
  <2>1. before \in [Manifests(run.entries) -> Texts]
    <3>1. DOMAIN run.scanned = Manifests(run.entries) /\ DOMAIN run.scanned \subseteq Paths
      BY <1>1, PathsOK DEF RunOK, PlanOK
    <3>2. \A f \in DOMAIN run.scanned : source[f] \in Texts
      BY <1>1, <3>1, TextsOK DEF PlanManifests, Checkouts
    <3> QED BY <3>1, <3>2
  <2> HIDE DEF before
  <2>2. /\ IsRun(run') /\ run'.pc = "group" /\ run'.before = before
        /\ run'.entries = run.entries /\ run'.groups = run.groups
        /\ run'.shot = run.shot /\ run'.made = run.made /\ run'.left = run.left
        /\ run'.outcome = run.outcome /\ run'.flips = run.flips
    <3>1. run' = [pc |-> "group", entries |-> run.entries, scanned |-> Nothing,
         before |-> before, groups |-> run.groups, shot |-> run.shot,
         commit |-> run.commit, tree |-> run.tree, todo |-> run.todo, made |-> run.made,
         files |-> run.files, outcome |-> run.outcome, committed |-> run.committed, left |-> run.left,
         edited |-> run.edited, flips |-> run.flips]
      BY <1>1, <1>3 DEF RunOK, IsRun
    <3> QED BY <3>1 DEF IsRun
  <2>3. PlanOK(run')
    BY <1>1, <2>1, <2>2 DEF RunOK, PlanOK, Steps, WithBefore, WithShot, Validated,
       Revalidated, Regenerating, Written
  <2>4. WorktreesOK(run') /\ CollectedOK(run')
    <3>1. Len(run.made) = 0 /\ 1..0 = {}
      BY <1>1 DEF RunOK, WorktreesOK, Revalidated, Regenerating, Written
    <3> QED BY <1>1, <2>2, <3>1 DEF RunOK, WorktreesOK, CollectedOK, InWorktree,
         Revalidated, Regenerating, Written
  <2>5. SourceOK(run', source) /\ HistoryOK(run', source)
    BY <1>1, <2>2 DEF RunOK, SourceOK, HistoryOK, Revalidated, Regenerating, Written
  <2> QED BY <1>1, <2>2, <2>3, <2>4, <2>5, NextOK DEF IInv, RunOK
<1> QED BY <1>2, <1>3 DEF PlanManifests, Quiet

\* Before its worktrees a run has collected nothing.
Early == {"plan", "group", "snapshot", "validate", "revalidate"}
NoneYet(r) == /\ r.made \in Seq(SomePaths) /\ r.left \in Seq(Checkouts)
              /\ Len(r.made) = 0 /\ Len(r.left) = 0

LEMMA EarlyNone ==
  ASSUME NEW r, WorktreesOK(r), r.pc \in Early
  PROVE  NoneYet(r)
BY DEF WorktreesOK, NoneYet, Early, Revalidated, Regenerating, Written

LEMMA EarlyOK ==
  ASSUME NEW r, NEW src, r.pc \in Early, NoneYet(r)
  PROVE  WorktreesOK(r) /\ CollectedOK(r) /\ SourceOK(r, src)
<1>1. 1..0 = {} OBVIOUS
<1> QED BY <1>1 DEF WorktreesOK, CollectedOK, SourceOK, NoneYet, Early, InWorktree,
          Revalidated, Regenerating, Written

LEMMA PlanLocksOK == IInv /\ PlanLocks => IInv'
<1> SUFFICES ASSUME IInv, PlanLocks PROVE IInv' OBVIOUS
<1> DEFINE groups == Groups(Tree, run.entries)
<1>1. /\ UNCHANGED <<repo, head, edits, source>> /\ run.pc = "group"
      /\ RunOK(run, source) /\ source \in Checkouts /\ repo \in Repositories
      /\ run' = [run EXCEPT !.pc = "snapshot", !.groups = groups]
  BY DEF PlanLocks, At, Quiet, IInv
<1>2. Locks(groups) \subseteq Paths
  BY <1>1, PathsOK DEF RunOK, PlanOK
<1> HIDE DEF groups
<1>3. /\ IsRun(run') /\ run'.pc = "snapshot" /\ run'.before = run.before
      /\ run'.entries = run.entries /\ run'.groups = groups
      /\ run'.shot = run.shot /\ run'.made = run.made /\ run'.left = run.left
      /\ run'.outcome = run.outcome /\ run'.flips = run.flips
  <2>1. run' = [pc |-> "snapshot", entries |-> run.entries, scanned |-> run.scanned,
       before |-> run.before, groups |-> groups, shot |-> run.shot,
       commit |-> run.commit, tree |-> run.tree, todo |-> run.todo, made |-> run.made,
       files |-> run.files, outcome |-> run.outcome, committed |-> run.committed, left |-> run.left,
       edited |-> run.edited, flips |-> run.flips]
    BY <1>1 DEF RunOK, IsRun
  <2> QED BY <2>1 DEF IsRun
<1>4. PlanOK(run')
  BY <1>1, <1>2, <1>3 DEF RunOK, PlanOK, Steps, WithBefore, WithShot, Validated,
     Revalidated, Regenerating, Written
<1>5. WorktreesOK(run') /\ CollectedOK(run') /\ SourceOK(run', source)
  <2>1. NoneYet(run)
    BY <1>1, EarlyNone DEF RunOK, Early
  <2>2. NoneYet(run') /\ run'.pc \in Early
    BY <1>3, <2>1 DEF NoneYet, Early
  <2> QED BY <2>2, EarlyOK
<1>6. HistoryOK(run', source)
  BY <1>1, <1>3 DEF RunOK, HistoryOK, Revalidated, Regenerating, Written
<1> QED BY <1>1, <1>3, <1>4, <1>5, <1>6, NextOK DEF IInv, RunOK

LEMMA SnapshotOK == IInv /\ Snapshot => IInv'
<1> SUFFICES ASSUME IInv, Snapshot PROVE IInv' OBVIOUS
<1> DEFINE shot == [p \in Planned(run) |-> source[p]]
<1>1. /\ UNCHANGED <<repo, head, edits, source>> /\ run.pc = "snapshot"
      /\ RunOK(run, source) /\ source \in Checkouts /\ repo \in Repositories
      /\ run' = [run EXCEPT !.pc = "validate", !.shot = shot]
  BY DEF Snapshot, At, Quiet, IInv
<1>2. shot \in [Planned(run) -> Contents] /\ \A p \in Planned(run) : shot[p] = source[p]
  BY <1>1, PlannedOK DEF RunOK, Checkouts
<1> HIDE DEF shot
<1>3. /\ IsRun(run') /\ run'.pc = "validate" /\ run'.before = run.before
      /\ run'.entries = run.entries /\ run'.groups = run.groups
      /\ run'.shot = shot /\ run'.made = run.made /\ run'.left = run.left
      /\ run'.outcome = run.outcome /\ run'.flips = run.flips
  <2>1. run' = [pc |-> "validate", entries |-> run.entries, scanned |-> run.scanned,
       before |-> run.before, groups |-> run.groups, shot |-> shot,
       commit |-> run.commit, tree |-> run.tree, todo |-> run.todo, made |-> run.made,
       files |-> run.files, outcome |-> run.outcome, committed |-> run.committed, left |-> run.left,
       edited |-> run.edited, flips |-> run.flips]
    BY <1>1 DEF RunOK, IsRun
  <2> QED BY <2>1 DEF IsRun
<1>4. Planned(run') = Planned(run)
  BY <1>3 DEF Planned
<1>5. PlanOK(run')
  BY <1>1, <1>2, <1>3, <1>4 DEF RunOK, PlanOK, Steps, WithBefore, WithShot,
     Validated, Revalidated, Regenerating, Written
<1>6. WorktreesOK(run') /\ CollectedOK(run') /\ SourceOK(run', source)
  <2>1. NoneYet(run)
    BY <1>1, EarlyNone DEF RunOK, Early
  <2>2. NoneYet(run') /\ run'.pc \in Early
    BY <1>3, <2>1 DEF NoneYet, Early
  <2> QED BY <2>2, EarlyOK
<1>7. HistoryOK(run', source)
  BY <1>1, <1>2, <1>3, <1>4 DEF RunOK, HistoryOK, Revalidated, Regenerating, Written
<1> QED BY <1>1, <1>3, <1>5, <1>6, <1>7, NextOK DEF IInv, RunOK

LEMMA ValidateOK == IInv /\ Validate => IInv'
<1> SUFFICES ASSUME IInv, Validate PROVE IInv' OBVIOUS
<1>1. /\ UNCHANGED <<repo, head, edits, source>> /\ run.pc = "validate"
      /\ RunOK(run, source) /\ source \in Checkouts /\ repo \in Repositories
      /\ run' = [run EXCEPT !.pc = "revalidate", !.committed = head, !.edited = {}]
      /\ Clean(run)
  BY DEF Validate, At, Quiet, IInv
<1>2. /\ IsRun(run') /\ run'.pc = "revalidate" /\ run'.before = run.before
      /\ run'.entries = run.entries /\ run'.groups = run.groups
      /\ run'.shot = run.shot /\ run'.made = run.made /\ run'.left = run.left
      /\ run'.outcome = run.outcome /\ run'.flips = run.flips /\ run'.committed = head
  <2>1. run' = [pc |-> "revalidate", entries |-> run.entries, scanned |-> run.scanned,
       before |-> run.before, groups |-> run.groups, shot |-> run.shot,
       commit |-> run.commit, tree |-> run.tree, todo |-> run.todo, made |-> run.made,
       files |-> run.files, outcome |-> run.outcome, committed |-> head, left |-> run.left,
       edited |-> {}, flips |-> run.flips]
    BY <1>1 DEF RunOK, IsRun
  <2> QED BY <2>1 DEF IsRun
<1>3. Planned(run') = Planned(run)
  BY <1>2 DEF Planned
<1>4. PlanOK(run')
  BY <1>1, <1>2, <1>3 DEF RunOK, PlanOK, Steps, WithBefore, WithShot,
     Validated, Revalidated, Regenerating, Written
<1>5. WorktreesOK(run') /\ CollectedOK(run') /\ SourceOK(run', source)
  <2>1. NoneYet(run)
    BY <1>1, EarlyNone DEF RunOK, Early
  <2>2. NoneYet(run') /\ run'.pc \in Early
    BY <1>2, <2>1 DEF NoneYet, Early
  <2> QED BY <2>2, EarlyOK
<1>6. ASSUME NEW p \in Planned(run)
      PROVE  Settled(run', p) \/ (source[p] # run'.shot[p] /\ run'.flips[p] \in 1..2)
  <2>1. source[p] = head[p] \/ source[p] = Absent
    BY <1>1 DEF Clean
  <2>2. source[p] = run.shot[p] \/ run.flips[p] \in 1..2
    BY <1>1 DEF RunOK, HistoryOK
  <2> QED BY <1>2, <2>1, <2>2 DEF Settled
<1>7. HistoryOK(run', source)
  BY <1>1, <1>2, <1>3, <1>6 DEF RunOK, HistoryOK, Revalidated, Regenerating, Written
<1> QED BY <1>1, <1>2, <1>4, <1>5, <1>7, NextOK DEF IInv, RunOK

LEMMA RevalidateOK == IInv /\ Revalidate => IInv'
<1> SUFFICES ASSUME IInv, Revalidate PROVE IInv' OBVIOUS
<1>1. /\ UNCHANGED <<repo, head, edits, source>> /\ run.pc = "revalidate"
      /\ RunOK(run, source) /\ repo \in Repositories
      /\ run' = [run EXCEPT !.pc = "worktree"]
      /\ \A p \in Planned(run) : source[p] = run.shot[p]
  BY DEF Revalidate, At, Goto, Quiet, IInv
<1>2. IsRun(run') /\ run'.pc = "worktree" /\ Same(run', run)
  BY <1>1, GotoFields DEF RunOK
<1>3. Planned(run') = Planned(run)
  BY <1>2 DEF Same, Planned
<1>4. PlanOK(run')
  BY <1>1, <1>2, <1>3 DEF Same, RunOK, PlanOK, Steps, WithBefore, WithShot,
     Validated, Revalidated, Regenerating, Written
<1>5. NoneYet(run')
  BY <1>1, <1>2, EarlyNone DEF Same, RunOK, NoneYet, Early
<1>6. WorktreesOK(run') /\ CollectedOK(run')
  <2>1. 1..0 = {} OBVIOUS
  <2> QED BY <1>2, <1>5, <2>1 DEF WorktreesOK, CollectedOK, NoneYet, InWorktree,
            Revalidated, Regenerating, Written
<1>7. SourceOK(run', source)
  BY <1>1, <1>2, <1>3 DEF Same, SourceOK, Written
<1>8. HistoryOK(run', source)
  BY <1>1, <1>2, <1>3 DEF Same, RunOK, HistoryOK, Settled, Written
<1> QED BY <1>1, <1>2, <1>4, <1>6, <1>7, <1>8, NextOK DEF IInv, RunOK

-----------------------------------------------------------------------------
(* One regeneration *)

\* A step of a worktree keeps all that is not the worktree's.
KeepsPlan(r, s) ==
  /\ r.entries = s.entries /\ r.before = s.before /\ r.groups = s.groups
  /\ r.shot = s.shot /\ r.outcome = s.outcome /\ r.made = s.made /\ r.left = s.left
  /\ r.committed = s.committed /\ r.edited = s.edited /\ r.flips = s.flips

LEMMA WorktreeStepOK ==
  ASSUME IInv, UNCHANGED <<repo, head, edits, source>>,
         run.pc \in Regenerating, run'.pc \in InWorktree,
         IsRun(run'), KeepsPlan(run', run),
         run'.commit \in Checkouts, run'.tree \in Checkouts
  PROVE  IInv'
<1>1. /\ RunOK(run, source) /\ repo \in Repositories
      /\ run'.pc \in Regenerating /\ run.pc \in Revalidated /\ run'.pc \in Revalidated
      /\ run.pc # "done" /\ run'.pc # "done"
  BY DEF IInv, InWorktree, Revalidated, Regenerating
<1>2. Planned(run') = Planned(run)
  BY DEF KeepsPlan, Planned
<1>3. PlanOK(run')
  BY <1>1, <1>2 DEF KeepsPlan, RunOK, PlanOK, Steps, WithBefore, WithShot,
     Validated, Revalidated, Regenerating, Written
<1>4. WorktreesOK(run')
  BY <1>1 DEF KeepsPlan, RunOK, WorktreesOK, Regenerating, Written
<1>5. CollectedOK(run')
  BY <1>1, <1>2 DEF KeepsPlan, RunOK, CollectedOK
<1>6. SourceOK(run', source)
  BY <1>1, <1>2 DEF KeepsPlan, RunOK, SourceOK, Written, Regenerating
<1>7. HistoryOK(run', source)
  BY <1>1, <1>2 DEF KeepsPlan, RunOK, HistoryOK, Settled, Written, Regenerating
<1> QED BY <1>1, <1>3, <1>4, <1>5, <1>6, <1>7, NextOK DEF IInv, RunOK

\* A step that only goes on within the worktree.
LEMMA WorktreeGotoOK ==
  ASSUME IInv, UNCHANGED <<repo, head, edits, source>>, run.pc \in InWorktree,
         NEW pc \in InWorktree, run' = [run EXCEPT !.pc = pc]
  PROVE  IInv'
<1>1. IsRun(run') /\ run'.pc = pc /\ Same(run', run)
  BY GotoFields DEF IInv, RunOK
<1>2. KeepsPlan(run', run) /\ run'.commit = run.commit /\ run'.tree = run.tree
  BY <1>1 DEF Same, KeepsPlan
<1>3. run.commit \in Checkouts /\ run.tree \in Checkouts /\ run.pc \in Regenerating
  BY DEF IInv, RunOK, WorktreesOK, InWorktree
<1> QED BY <1>1, <1>2, <1>3, WorktreeStepOK

\* HEAD with the planned files of the snapshot, edited and pinned.
LEMMA WorktreeOK ==
  ASSUME NEW r, repo \in Repositories, head \in Checkouts, PlanOK(r), r.pc = "worktree"
  PROVE  Worktree(r) \in Checkouts
<1> DEFINE restored == [p \in {q \in Planned(r) : r.shot[q] # Absent} |-> r.shot[p]]
           applied == [f \in DOMAIN r.before |-> Approved(r.before[f])]
           pins == [f \in Pins(r) |-> Pinned(r.before[f])]
<1>1. /\ DOMAIN r.shot = Planned(r) /\ DOMAIN r.before = Manifests(r.entries)
      /\ \A p \in DOMAIN r.shot : r.shot[p] \in Contents
  BY DEF PlanOK, WithBefore, WithShot, Validated, Revalidated, Regenerating, Nothing
<1>2. \A p \in DOMAIN restored : restored[p] \in Contents
  BY <1>1
<1>3. \A f \in DOMAIN r.before : r.before[f] \in Texts
  BY PlannedOK
<1>4. \A p \in DOMAIN applied : applied[p] \in Contents
  BY <1>3, TextsOK
<1>5. \A p \in DOMAIN pins : pins[p] \in Contents
  BY <1>1, <1>3, PlannedOK, TextsOK
<1>6. Worktree(r) = Over(Over(Over(head, restored), applied), pins)
  BY DEF Worktree
<1> HIDE DEF restored, applied, pins
<1>7. Over(head, restored) \in Checkouts
  BY <1>2, OverOK
<1>8. Over(Over(head, restored), applied) \in Checkouts
  BY <1>4, <1>7, OverOK
<1> QED BY <1>5, <1>6, <1>8, OverOK

LEMMA AddWorktreeOK == IInv /\ AddWorktree => IInv'
<1> SUFFICES ASSUME IInv, AddWorktree PROVE IInv' OBVIOUS
<1> DEFINE tree == Worktree(run)
           todo == UNION {Commands(g) : g \in run.groups}
<1>1. /\ UNCHANGED <<repo, head, edits, source>> /\ run.pc = "worktree"
      /\ run' = [run EXCEPT !.pc = "command", !.commit = head, !.tree = tree,
                            !.todo = todo]
      /\ IsRun(run) /\ PlanOK(run) /\ repo \in Repositories /\ head \in Checkouts
  BY DEF AddWorktree, At, Quiet, IInv, RunOK
<1>2. tree \in Checkouts
  BY <1>1, WorktreeOK
<1> HIDE DEF tree, todo
<1>3. run' = [pc |-> "command", entries |-> run.entries, scanned |-> run.scanned,
       before |-> run.before, groups |-> run.groups, shot |-> run.shot,
       commit |-> head, tree |-> tree, todo |-> todo, made |-> run.made,
       files |-> run.files, outcome |-> run.outcome, committed |-> run.committed, left |-> run.left,
       edited |-> run.edited, flips |-> run.flips]
  BY <1>1 DEF IsRun
<1>4. /\ IsRun(run') /\ KeepsPlan(run', run) /\ run'.pc = "command"
      /\ run'.commit = head /\ run'.tree = tree
  BY <1>3 DEF IsRun, KeepsPlan
<1> QED BY <1>1, <1>2, <1>4, WorktreeStepOK DEF InWorktree, Regenerating

\* Whatever a command does to the worktree, it is one afterwards.
LEMMA CommandOK ==
  ASSUME IInv, NEW command \in run.todo, Command(command)
  PROVE  IInv'
<1>1. /\ UNCHANGED <<repo, head, edits, source>> /\ run.pc = "command"
      /\ IsRun(run) /\ run.tree \in Checkouts /\ run.commit \in Checkouts
  BY DEF Command, At, Quiet, IInv, RunOK, WorktreesOK, InWorktree, Regenerating
<1>2. PICK made \in [command.locks -> UNION {Made(command, p) : p \in command.locks}],
           stray \in {{}} \cup {{p} : p \in Paths \ command.locks} :
        /\ \A p \in command.locks : made[p] \in Made(command, p)
        /\ run' = [run EXCEPT !.todo = @ \ {command},
                     !.tree = Over(Over(@, made),
                                [p \in stray |-> [text |-> "tool", form |-> "A"]])]
  BY DEF Command, Quiet
<1> DEFINE extra == [p \in stray |-> [text |-> "tool", form |-> "A"]]
           tree == Over(Over(run.tree, made), extra)
           todo == run.todo \ {command}
<1>3. \A p \in DOMAIN made \cap Paths : made[p] \in Contents
  BY <1>1, <1>2 DEF Made, Contents, Checkouts
<1>4. \A p \in DOMAIN extra : extra[p] \in Contents
  BY DEF Contents, Generated
<1>5. run' = [run EXCEPT !.todo = todo, !.tree = tree]
  BY <1>2
<1> HIDE DEF extra
<1>6. tree \in Checkouts
  BY <1>1, <1>3, <1>4, OverOK
<1> HIDE DEF tree, todo
<1>7. run' = [pc |-> "command", entries |-> run.entries, scanned |-> run.scanned,
       before |-> run.before, groups |-> run.groups, shot |-> run.shot,
       commit |-> run.commit, tree |-> tree, todo |-> todo, made |-> run.made,
       files |-> run.files, outcome |-> run.outcome, committed |-> run.committed, left |-> run.left,
       edited |-> run.edited, flips |-> run.flips]
  BY <1>1, <1>5 DEF IsRun
<1>8. /\ IsRun(run') /\ KeepsPlan(run', run) /\ run'.pc = "command"
      /\ run'.commit = run.commit /\ run'.tree = tree
  BY <1>7 DEF IsRun, KeepsPlan
<1> QED BY <1>1, <1>6, <1>8, WorktreeStepOK DEF InWorktree, Regenerating

LEMMA CommandsDoneOK == IInv /\ CommandsDone => IInv'
BY WorktreeGotoOK DEF CommandsDone, At, Goto, Quiet, InWorktree, Regenerating

LEMMA RestorePinsOK == IInv /\ RestorePins => IInv'
<1> SUFFICES ASSUME IInv, RestorePins PROVE IInv' OBVIOUS
<1> DEFINE restored == [f \in Pins(run) |-> Approved(run.before[f])]
           tree == Over(run.tree, restored)
<1>1. /\ UNCHANGED <<repo, head, edits, source>> /\ run.pc = "restore"
      /\ run' = [run EXCEPT !.pc = "collect", !.tree = tree]
      /\ IsRun(run) /\ PlanOK(run) /\ repo \in Repositories
      /\ run.tree \in Checkouts /\ run.commit \in Checkouts
  BY DEF RestorePins, At, Quiet, IInv, RunOK, WorktreesOK, InWorktree, Regenerating
<1>2. DOMAIN run.before = Manifests(run.entries)
  BY <1>1 DEF PlanOK, WithBefore, WithShot, Validated, Revalidated, Regenerating
<1>3. \A p \in DOMAIN restored : restored[p] \in Contents
  BY <1>1, <1>2, PlannedOK, TextsOK
<1> HIDE DEF restored
<1>4. tree \in Checkouts
  BY <1>1, <1>3, OverOK
<1> HIDE DEF tree
<1>5. run' = [pc |-> "collect", entries |-> run.entries, scanned |-> run.scanned,
       before |-> run.before, groups |-> run.groups, shot |-> run.shot,
       commit |-> run.commit, tree |-> tree, todo |-> run.todo, made |-> run.made,
       files |-> run.files, outcome |-> run.outcome, committed |-> run.committed, left |-> run.left,
       edited |-> run.edited, flips |-> run.flips]
  BY <1>1 DEF IsRun
<1>6. /\ IsRun(run') /\ KeepsPlan(run', run) /\ run'.pc = "collect"
      /\ run'.commit = run.commit /\ run'.tree = tree
  BY <1>5 DEF IsRun, KeepsPlan
<1> QED BY <1>1, <1>4, <1>6, WorktreeStepOK DEF InWorktree, Regenerating

LEMMA HangOK == IInv /\ Hang => IInv'
BY WorktreeGotoOK DEF Hang, At, Goto, Quiet, InWorktree, Regenerating

LEMMA TimeOutOK == IInv /\ TimeOut => IInv'
<1> SUFFICES ASSUME IInv, TimeOut PROVE IInv' OBVIOUS
<1>1. /\ UNCHANGED <<repo, head, edits, source>> /\ run.pc = "hung"
      /\ source' \in Checkouts
      /\ run' = Ended("refused") \/ run' = [run EXCEPT !.pc = "held"]
  BY DEF TimeOut, At, Goto, Quiet, IInv
<1>2. CASE run' = Ended("refused")
  BY <1>1, <1>2, EndedOK DEF Outcomes
<1>3. CASE run' = [run EXCEPT !.pc = "held"]
  BY <1>1, <1>3, WorktreeGotoOK DEF InWorktree, Regenerating
<1> QED BY <1>1, <1>2, <1>3

LEMMA ReleaseOK == IInv /\ Release => IInv'
BY EndedOK DEF Release, At, Quiet, IInv, Outcomes

-----------------------------------------------------------------------------
(* Collecting, comparing and writing *)

\* What a worktree adds to what was collected is all that is not as planned.
LEMMA CollectedHere ==
  ASSUME IInv, run.pc = "collect", ManifestsKept(run), LocksGenerated(run),
         Changed(run) \subseteq Planned(run)
  PROVE  LET files == {p \in Differing(run) : run.tree[p] # run.shot[p]}
             new == [p \in files |-> run.tree[p]]
         IN /\ new \in SomePaths /\ DOMAIN new \subseteq Planned(run)
            /\ \A p \in DOMAIN new : new[p] = run.tree[p]
            /\ \A p \in Planned(run) \ DOMAIN new : run.tree[p] = run.shot[p]
            /\ \A f \in DOMAIN run.before : run.tree[f] = Approved(run.before[f])
            /\ \A p \in Required(run.groups) : run.tree[p] # Absent
<1> DEFINE files == {p \in Differing(run) : run.tree[p] # run.shot[p]}
           new == [p \in files |-> run.tree[p]]
<1>1. run.tree \in Checkouts /\ Planned(run) \subseteq Paths
  BY PlannedOK DEF IInv, RunOK, WorktreesOK, InWorktree, Regenerating
<1>2. files \subseteq Planned(run) /\ \A p \in Planned(run) \ files : run.tree[p] = run.shot[p]
  BY DEF Differing
<1>3. new \in [files -> Contents] /\ files \in SUBSET Paths
  BY <1>1, <1>2 DEF Checkouts
<1>4. new \in SomePaths
  BY <1>3 DEF SomePaths
<1> QED BY <1>2, <1>4 DEF ManifestsKept, LocksGenerated

LEMMA CollectOK == IInv /\ Collect => IInv'
<1> SUFFICES ASSUME IInv, Collect PROVE IInv' OBVIOUS
<1> DEFINE files == {p \in Differing(run) : run.tree[p] # run.shot[p]}
           new == [p \in files |-> run.tree[p]]
           made == Append(run.made, new)
           left == Append(run.left, run.tree)
           n == Len(run.made)
           pc == AfterCollecting(made)
<1>1. /\ UNCHANGED <<repo, head, edits, source>> /\ run.pc = "collect"
      /\ run' = [run EXCEPT !.pc = pc, !.made = made, !.left = left,
                            !.commit = Nothing, !.tree = Nothing]
      /\ RunOK(run, source) /\ repo \in Repositories
  BY DEF Collect, At, Quiet, IInv
<1>2. /\ new \in SomePaths /\ DOMAIN new \subseteq Planned(run)
      /\ \A p \in DOMAIN new : new[p] = run.tree[p]
      /\ \A p \in Planned(run) \ DOMAIN new : run.tree[p] = run.shot[p]
      /\ \A f \in DOMAIN run.before : run.tree[f] = Approved(run.before[f])
      /\ \A p \in Required(run.groups) : run.tree[p] # Absent
  BY CollectedHere, Zenon DEF Collect, At
<1> HIDE DEF files, new
<1>3. /\ run.made \in Seq(SomePaths) /\ run.left \in Seq(Checkouts)
      /\ Len(run.left) = n /\ n \in 0..1 /\ run.tree \in Checkouts
  <2>1. /\ run.made \in Seq(SomePaths) /\ run.left \in Seq(Checkouts)
        /\ Len(run.left) = n /\ n <= 1 /\ run.tree \in Checkouts
    BY <1>1 DEF RunOK, WorktreesOK, InWorktree, Regenerating
  <2>2. n \in Nat
    BY <2>1, LenProperties
  <2> HIDE DEF n, made, left
  <2> QED BY <2>1, <2>2
<1>4. /\ made \in Seq(SomePaths) /\ left \in Seq(Checkouts)
      /\ Len(made) = n + 1 /\ Len(left) = n + 1
      /\ \A k \in 1..n : made[k] = run.made[k] /\ left[k] = run.left[k]
      /\ made[n + 1] = new /\ left[n + 1] = run.tree
  <2>1. /\ made \in Seq(SomePaths) /\ Len(made) = n + 1 /\ made[n + 1] = new
        /\ \A k \in 1..n : made[k] = run.made[k]
    BY <1>2, <1>3
  <2>2. /\ left \in Seq(Checkouts) /\ Len(left) = Len(run.left) + 1
        /\ left[Len(run.left) + 1] = run.tree
        /\ \A k \in 1..Len(run.left) : left[k] = run.left[k]
    BY <1>3
  <2> QED BY <1>3, <2>1, <2>2
<1>5. pc = IF n + 1 = 1 THEN "worktree" ELSE "compare"
  BY <1>4 DEF AfterCollecting
<1> HIDE DEF made, left, n, pc
<1>6. /\ IsRun(run') /\ run'.pc = pc /\ run'.entries = run.entries
      /\ run'.before = run.before /\ run'.groups = run.groups /\ run'.shot = run.shot
      /\ run'.made = made /\ run'.left = left /\ run'.outcome = run.outcome
      /\ run'.committed = run.committed /\ run'.edited = run.edited
      /\ run'.flips = run.flips
  <2>1. run' = [pc |-> pc, entries |-> run.entries, scanned |-> run.scanned,
         before |-> run.before, groups |-> run.groups, shot |-> run.shot,
         commit |-> Nothing, tree |-> Nothing, todo |-> run.todo, made |-> made,
         files |-> run.files, outcome |-> run.outcome, committed |-> run.committed, left |-> left,
         edited |-> run.edited, flips |-> run.flips]
    BY <1>1 DEF RunOK, IsRun
  <2> QED BY <2>1 DEF IsRun
<1>7. Planned(run') = Planned(run)
  BY <1>6 DEF Planned
<1>8. /\ pc \in {"worktree", "compare"} /\ pc \in Revalidated /\ pc \notin InWorktree
      /\ run.pc \in Revalidated
  BY <1>1, <1>5 DEF InWorktree, Revalidated, Regenerating
<1>9. PlanOK(run')
  BY <1>1, <1>6, <1>7, <1>8 DEF RunOK, PlanOK, Steps, WithBefore, WithShot,
     Validated, Revalidated, Regenerating, Written
<1>10. WorktreesOK(run')
  <2>1. /\ n + 1 <= 2 /\ n + 1 # 0
        /\ pc = "worktree" => n + 1 <= 1
        /\ pc = "compare" => n + 1 = 2
    BY <1>3, <1>5
  <2>2. pc \in Regenerating => pc = "worktree"
    BY <1>8 DEF Regenerating
  <2> QED BY <1>3, <1>4, <1>5, <1>6, <1>8, <2>1, <2>2 DEF WorktreesOK, Written
<1>11. CollectedOK(run')
  <2> SUFFICES ASSUME NEW k \in 1..(n + 1)
               PROVE  /\ DOMAIN made[k] \subseteq Planned(run)
                      /\ \A p \in DOMAIN made[k] : made[k][p] = left[k][p]
                      /\ \A p \in Planned(run) \ DOMAIN made[k] : left[k][p] = run.shot[p]
                      /\ \A f \in DOMAIN run.before : left[k][f] = Approved(run.before[f])
                      /\ \A p \in Required(run.groups) : left[k][p] # Absent
    BY <1>4, <1>6, <1>7 DEF CollectedOK
  <2>1. CASE k \in 1..n
    BY <1>1, <1>4, <2>1 DEF RunOK, CollectedOK, n
  <2>2. CASE k = n + 1
    BY <1>2, <1>4, <2>2
  <2> QED BY <1>3, <2>1, <2>2
<1>12. SourceOK(run', source) /\ HistoryOK(run', source)
  BY <1>1, <1>6, <1>7, <1>8 DEF RunOK, SourceOK, HistoryOK, Settled, Written,
     Regenerating
<1> QED BY <1>1, <1>6, <1>9, <1>10, <1>11, <1>12, NextOK DEF IInv, RunOK

\* What a run has when it compares and writes: the files that the regenerations
\* changed are planned ones.
LEMMA WritingFiles ==
  ASSUME IInv, run.pc \in {"compare", "check", "store", "undo"}
  PROVE  /\ Len(run.made) = 2 /\ 1 \in 1..Len(run.made) /\ 2 \in 1..Len(run.made)
         /\ Planned(run) \subseteq Paths /\ DOMAIN run.made[1] \subseteq Planned(run)
         /\ \A p \in DOMAIN run.made[1] : run.made[1][p] \in Contents
         /\ \A p \in Planned(run) : run.shot[p] \in Contents
         /\ run.pc # "compare" => run.files \subseteq Planned(run)
<1>1. RunOK(run, source) /\ repo \in Repositories
  BY DEF IInv
<1>2. /\ Len(run.made) = 2 /\ run.made \in Seq(SomePaths)
      /\ run.pc # "compare" => run.files \subseteq DOMAIN run.made[1]
  BY <1>1 DEF RunOK, WorktreesOK
<1>3. 1 \in 1..Len(run.made) /\ 2 \in 1..Len(run.made)
  BY <1>2
<1>4. DOMAIN run.made[1] \subseteq Planned(run)
  BY <1>1, <1>3 DEF RunOK, CollectedOK
<1>5. \A p \in DOMAIN run.made[1] : run.made[1][p] \in Contents
  <2>1. run.made[1] \in SomePaths
    BY <1>2, <1>3
  <2> QED BY <2>1 DEF SomePaths
<1>6. Planned(run) \subseteq Paths
  BY <1>1, PlannedOK DEF RunOK
<1>7. \A p \in Planned(run) : run.shot[p] \in Contents
  BY <1>1 DEF RunOK, PlanOK, WithShot, Validated, Revalidated, Nothing
<1> QED BY <1>2, <1>3, <1>4, <1>5, <1>6, <1>7

\* All that writePlans leaves alone of a run.
KeepsMade(r, s) ==
  /\ r.entries = s.entries /\ r.before = s.before /\ r.groups = s.groups
  /\ r.shot = s.shot /\ r.made = s.made /\ r.left = s.left
  /\ r.committed = s.committed /\ r.flips = s.flips

\* A run with what writePlans changes of it.
Writer(r, pc, files, edited, outcome) ==
  [pc |-> pc, entries |-> r.entries, scanned |-> r.scanned,
   before |-> r.before, groups |-> r.groups, shot |-> r.shot,
   commit |-> r.commit, tree |-> r.tree, todo |-> r.todo, made |-> r.made,
   files |-> files, outcome |-> outcome, committed |-> r.committed, left |-> r.left,
   edited |-> edited, flips |-> r.flips]

LEMMA WriterFields ==
  ASSUME NEW r, NEW pc, NEW files, NEW edited, NEW o, NEW s,
         s = Writer(r, pc, files, edited, o)
  PROVE  /\ IsRun(s) /\ KeepsMade(s, r)
         /\ s.pc = pc /\ s.files = files /\ s.edited = edited /\ s.outcome = o
<1>1. /\ KeepsMade(s, r) /\ s.pc = pc /\ s.files = files /\ s.edited = edited
      /\ s.outcome = o
  BY DEF KeepsMade, Writer
<1>2. IsRun(s)
  BY DEF IsRun, Writer
<1> QED BY <1>1, <1>2

\* Through with a file, and on to the rollback.
LEMMA ThroughFields ==
  ASSUME NEW r, IsRun(r), NEW p, NEW s, s = Through(r, p)
  PROVE  /\ IsRun(s) /\ KeepsMade(s, r) /\ s.pc = r.pc /\ s.outcome = r.outcome
         /\ s.files = r.files \ {p} /\ s.edited = r.edited \ {p}
<1>1. s = Writer(r, r.pc, r.files \ {p}, r.edited \ {p}, r.outcome)
  BY DEF IsRun, Through, Writer
<1> QED BY <1>1, WriterFields

LEMMA UndoingFields ==
  ASSUME NEW r, IsRun(r), NEW p, NEW s, s = Undoing(r, p)
  PROVE  /\ IsRun(s) /\ KeepsMade(s, r) /\ s.pc = "undo" /\ s.outcome = "restored"
         /\ s.files = (DOMAIN r.made[1] \ r.files) \cup {p} /\ s.edited = r.edited
<1> DEFINE files == (DOMAIN r.made[1] \ r.files) \cup {p}
<1>1. s = [r EXCEPT !.pc = "undo", !.outcome = "restored", !.files = files]
  BY DEF Undoing
<1> HIDE DEF files
<1>2. s = Writer(r, "undo", files, r.edited, "restored")
  BY <1>1 DEF IsRun, Writer
<1> QED BY <1>2, WriterFields DEF files

\* What a step of writePlans must show: what it makes of the checkout.
LEMMA WritingStepOK ==
  ASSUME IInv, UNCHANGED <<repo, head, edits>>, source' \in Checkouts,
         run.pc \in {"compare", "check", "store", "undo"},
         IsRun(run'), KeepsMade(run', run), run.made[1] = run.made[2],
         \/ run'.pc \in {"check", "store"} /\ run'.outcome = "nothing"
         \/ run'.pc = "undo" /\ run'.outcome \in {"restored", "partial"}
         \/ Written(run'),
         run'.files \subseteq DOMAIN run.made[1], SourceOK(run', source')
  PROVE  IInv'
<1>1. /\ RunOK(run, source) /\ repo \in Repositories /\ Len(run.made) = 2
      /\ run.pc \in Revalidated
  BY WritingFiles DEF IInv, Revalidated
<1>2. Planned(run') = Planned(run)
  BY DEF KeepsMade, Planned
<1>3. PlanOK(run')
  BY <1>1, <1>2 DEF KeepsMade, RunOK, PlanOK, Steps, Outcomes, WithBefore, WithShot,
     Validated, Revalidated, Regenerating, Written
<1>4. WorktreesOK(run')
  BY <1>1 DEF KeepsMade, RunOK, WorktreesOK, InWorktree, Revalidated, Regenerating,
     Written
<1>5. CollectedOK(run')
  BY <1>1, <1>2 DEF KeepsMade, RunOK, CollectedOK
<1>6. HistoryOK(run', source')
  BY <1>1, <1>2 DEF KeepsMade, RunOK, HistoryOK, Settled, Revalidated, Regenerating,
     Written
<1> QED BY <1>1, <1>3, <1>4, <1>5, <1>6, NextOK DEF IInv, RunOK

LEMMA CompareOK == IInv /\ Compare => IInv'
<1> SUFFICES ASSUME IInv, Compare PROVE IInv' OBVIOUS
<1>1. /\ UNCHANGED <<repo, head, edits, source>> /\ run.pc = "compare"
      /\ RunOK(run, source) /\ source' \in Checkouts
      /\ run.made[1] = run.made[2] /\ run.outcome = "nothing"
      /\ \/ run' = [run EXCEPT !.pc = "check", !.files = DOMAIN run.made[1]]
         \/ run' = Ended("preview")
  BY DEF Compare, At, Quiet, IInv, Reproducible, RunOK, PlanOK
<1>2. CASE run' = Ended("preview")
  BY <1>1, <1>2, EndedOK DEF Outcomes
<1>3. CASE run' = [run EXCEPT !.pc = "check", !.files = DOMAIN run.made[1]]
  <2>1. /\ IsRun(run') /\ KeepsMade(run', run) /\ run'.pc = "check"
        /\ run'.files = DOMAIN run.made[1] /\ run'.edited = run.edited
        /\ run'.outcome = run.outcome
    <3> DEFINE files == DOMAIN run.made[1]
    <3>1. IsRun(run) /\ run' = [run EXCEPT !.pc = "check", !.files = files]
      BY <1>1, <1>3 DEF RunOK
    <3> HIDE DEF files
    <3>2. run' = Writer(run, "check", files, run.edited, run.outcome)
      BY <3>1 DEF IsRun, Writer
    <3> QED BY <3>2, WriterFields DEF files
  <2>2. SourceOK(run', source')
    BY <1>1, <2>1 DEF RunOK, SourceOK, Written, KeepsMade, Planned
  <2> QED BY <1>1, <2>1, <2>2, WritingStepOK
<1> QED BY <1>1, <1>2, <1>3

\* A step of writePlans is one of these, and nothing else changes.
LEMMA WritingHere ==
  ASSUME IInv, run.pc \in {"check", "store", "undo"}
  PROVE  /\ IsRun(run) /\ RunOK(run, source) /\ source \in Checkouts
         /\ run.made[1] = run.made[2] /\ run.files \subseteq DOMAIN run.made[1]
         /\ run.pc # "undo" => run.outcome = "nothing"
         /\ run.pc = "undo" => run.outcome \in {"restored", "partial"}
BY DEF IInv, RunOK, PlanOK, WorktreesOK

LEMMA CheckOK == ASSUME IInv, NEW p \in run.files, Check(p) PROVE IInv'
<1>1. /\ UNCHANGED <<repo, head, edits, source>> /\ run.pc = "check"
      /\ source[p] = run.shot[p] /\ run' = Through(run, p)
      /\ IsRun(run) /\ RunOK(run, source) /\ source' \in Checkouts
      /\ run.made[1] = run.made[2] /\ run.files \subseteq DOMAIN run.made[1]
      /\ run.outcome = "nothing"
  BY WritingHere DEF Check, At, Quiet, Fresh, IInv
<1>2. /\ IsRun(run') /\ KeepsMade(run', run) /\ run'.pc = "check"
      /\ run'.files = run.files \ {p} /\ run'.edited = run.edited \ {p}
      /\ run'.outcome = "nothing"
  BY <1>1, ThroughFields
<1>3. SourceOK(run', source')
  BY <1>1, <1>2 DEF RunOK, SourceOK, Written, KeepsMade, Planned
<1> QED BY <1>1, <1>2, <1>3, WritingStepOK

LEMMA AllCheckedOK == IInv /\ AllChecked => IInv'
<1> SUFFICES ASSUME IInv, AllChecked PROVE IInv' OBVIOUS
<1>1. /\ UNCHANGED <<repo, head, edits, source>> /\ run.pc = "check"
      /\ run' = [run EXCEPT !.pc = "store", !.files = DOMAIN run.made[1]]
      /\ IsRun(run) /\ RunOK(run, source) /\ source' \in Checkouts
      /\ run.made[1] = run.made[2] /\ run.outcome = "nothing"
  BY WritingHere DEF AllChecked, At, Quiet, IInv
<1>2. /\ IsRun(run') /\ KeepsMade(run', run) /\ run'.pc = "store"
      /\ run'.files = DOMAIN run.made[1] /\ run'.edited = run.edited
      /\ run'.outcome = "nothing"
  <2> DEFINE files == DOMAIN run.made[1]
  <2>1. run' = [run EXCEPT !.pc = "store", !.files = files]
    BY <1>1
  <2> HIDE DEF files
  <2>2. run' = Writer(run, "store", files, run.edited, run.outcome)
    BY <1>1, <2>1 DEF IsRun, Writer
  <2> QED BY <1>1, <2>2, WriterFields DEF files
<1>3. SourceOK(run', source')
  BY <1>1, <1>2 DEF RunOK, SourceOK, Stored, Regenerating, Written, KeepsMade, Planned
<1> QED BY <1>1, <1>2, <1>3, WritingStepOK

\* A file that is stored, and one whose store fails before its rename.
LEMMA StoreOK == ASSUME IInv, NEW p \in run.files, Store(p) PROVE IInv'
<1>1. /\ UNCHANGED <<repo, head, edits>> /\ run.pc = "store"
      /\ IsRun(run) /\ RunOK(run, source) /\ source \in Checkouts
      /\ run.made[1] = run.made[2] /\ run.files \subseteq DOMAIN run.made[1]
      /\ run.outcome = "nothing"
  BY WritingHere DEF Store, At
<1>2. /\ p \in Planned(run) /\ p \in DOMAIN run.made[1] /\ p \in Paths
      /\ run.made[1][p] \in Contents /\ DOMAIN run.made[1] \subseteq Planned(run)
      /\ Planned(run) \subseteq Paths
  BY <1>1, WritingFiles
<1>3. \A q \in Planned(run) \ run.edited : source[q] = Stored(run, q)
  BY <1>1 DEF RunOK, SourceOK
<1>4. CASE source' = [source EXCEPT ![p] = run.made[1][p]] /\ run' = Through(run, p)
  <2>1. /\ IsRun(run') /\ KeepsMade(run', run) /\ run'.pc = "store"
        /\ run'.files = run.files \ {p} /\ run'.edited = run.edited \ {p}
        /\ run'.outcome = "nothing"
    BY <1>1, <1>4, ThroughFields
  <2>2. source' \in Checkouts
    BY <1>1, <1>2, <1>4 DEF Checkouts
  <2>3. ASSUME NEW q \in Planned(run') \ run'.edited PROVE source'[q] = Stored(run', q)
    <3>1. q \in Planned(run) /\ q \in Paths
      BY <1>2, <2>1 DEF KeepsMade, Planned
    <3>2. CASE q = p
      BY <1>1, <1>2, <1>4, <2>1, <3>2 DEF Stored, KeepsMade, Checkouts
    <3>3. CASE q # p
      <4>1. q \notin run.edited /\ source'[q] = source[q]
        BY <1>1, <1>2, <1>4, <2>1, <3>1, <3>3 DEF Checkouts
      <4>2. Stored(run', q) = Stored(run, q)
        BY <2>1, <3>3 DEF Stored, KeepsMade
      <4> QED BY <1>3, <3>1, <4>1, <4>2
    <3> QED BY <3>2, <3>3
  <2>4. SourceOK(run', source')
    BY <2>1, <2>3 DEF SourceOK, Regenerating, Written
  <2> QED BY <1>1, <2>1, <2>2, <2>4, WritingStepOK
<1>5. CASE /\ source' = [source EXCEPT ![p] = run.made[1][p]]
           /\ run' = Undoing(Through(run, p), p)
  <2> DEFINE t == Through(run, p)
  <2>1. /\ IsRun(t) /\ KeepsMade(t, run) /\ t.files = run.files \ {p}
        /\ t.edited = run.edited \ {p}
    BY <1>1, ThroughFields
  <2>2. run' = Undoing(t, p)
    BY <1>5
  <2> HIDE DEF t
  <2>3. /\ IsRun(run') /\ KeepsMade(run', t) /\ run'.pc = "undo"
        /\ run'.files = (DOMAIN t.made[1] \ t.files) \cup {p}
        /\ run'.edited = t.edited /\ run'.outcome = "restored"
    BY <2>1, <2>2, UndoingFields
  <2>4. KeepsMade(run', run) /\ run'.files \subseteq DOMAIN run.made[1]
    BY <1>2, <2>1, <2>3 DEF KeepsMade
  <2>5. source' \in Checkouts
    BY <1>1, <1>2, <1>5 DEF Checkouts
  <2>6. ASSUME NEW q \in run'.files \ run'.edited
        PROVE  source'[q] \in {run'.shot[q], run'.made[1][q]}
    <3>1. q \in Planned(run) /\ q \in Paths
      BY <1>2, <2>4
    <3>2. CASE q = p
      BY <1>1, <1>2, <1>5, <2>4, <3>2 DEF KeepsMade, Checkouts
    <3>3. CASE q # p
      <4>1. q \notin run.edited /\ source'[q] = source[q] /\ q \notin run.files
        BY <1>1, <1>2, <1>5, <2>1, <2>3, <3>1, <3>3 DEF Checkouts
      <4>2. source[q] = run.made[1][q]
        BY <1>3, <2>4, <3>1, <4>1 DEF Stored
      <4> QED BY <2>4, <4>1, <4>2 DEF KeepsMade
    <3> QED BY <3>2, <3>3
  <2>7. SourceOK(run', source')
    BY <2>3, <2>6 DEF SourceOK, Regenerating, Written
  <2> QED BY <1>1, <2>3, <2>4, <2>5, <2>7, WritingStepOK
<1>6. CASE source' = source /\ run' = Undoing(run, p)
  <2>1. /\ IsRun(run') /\ KeepsMade(run', run) /\ run'.pc = "undo"
        /\ run'.files = (DOMAIN run.made[1] \ run.files) \cup {p}
        /\ run'.edited = run.edited /\ run'.outcome = "restored"
    BY <1>1, <1>6, UndoingFields
  <2>2. run'.files \subseteq DOMAIN run.made[1]
    BY <1>2, <2>1
  <2>3. ASSUME NEW q \in run'.files \ run'.edited
        PROVE  source'[q] \in {run'.shot[q], run'.made[1][q]}
    <3>1. q \in Planned(run) /\ q \notin run.edited
      BY <1>2, <2>1, <2>2
    <3>2. source[q] \in {run.shot[q], run.made[1][q]}
      BY <1>3, <3>1 DEF Stored
    <3> QED BY <1>6, <2>1, <3>2 DEF KeepsMade
  <2>4. SourceOK(run', source')
    BY <2>1, <2>3 DEF SourceOK, Regenerating, Written
  <2> QED BY <1>1, <1>6, <2>1, <2>2, <2>4, WritingStepOK
<1> QED BY <1>4, <1>5, <1>6 DEF Store, Quiet

LEMMA AllStoredOK == IInv /\ AllStored => IInv'
<1> SUFFICES ASSUME IInv, AllStored PROVE IInv' OBVIOUS
<1>1. /\ UNCHANGED <<repo, head, edits, source>> /\ run.pc = "store" /\ run.files = {}
      /\ run' = Finish(run, "written")
      /\ IsRun(run) /\ RunOK(run, source) /\ source' \in Checkouts
      /\ run.made[1] = run.made[2]
  BY WritingHere DEF AllStored, At, Quiet, IInv
<1>2. /\ IsRun(run') /\ KeepsMade(run', run) /\ run'.pc = "done"
      /\ run'.files = {} /\ run'.edited = run.edited /\ run'.outcome = "written"
  <2>1. run' = Writer(run, "done", run.files, run.edited, "written")
    BY <1>1 DEF IsRun, Finish, Writer
  <2> QED BY <1>1, <2>1, WriterFields
<1>3. ASSUME NEW p \in Planned(run) \ run.edited
      PROVE  source[p] = run.left[1][p] /\ source[p] = run.left[2][p]
  <2>1. 1 \in 1..Len(run.made) /\ 2 \in 1..Len(run.made)
    BY <1>1, WritingFiles
  <2>2. /\ p \in DOMAIN run.made[1] => /\ run.made[1][p] = run.left[1][p]
                                       /\ run.made[1][p] = run.left[2][p]
        /\ p \notin DOMAIN run.made[1] => /\ run.left[1][p] = run.shot[p]
                                          /\ run.left[2][p] = run.shot[p]
    BY <1>1, <2>1 DEF RunOK, CollectedOK
  <2>3. source[p] = Stored(run, p)
    BY <1>1 DEF RunOK, SourceOK
  <2> QED BY <1>1, <2>2, <2>3 DEF Stored
<1>4. SourceOK(run', source')
  BY <1>1, <1>2, <1>3 DEF SourceOK, Regenerating, KeepsMade, Planned
<1> QED BY <1>1, <1>2, <1>4, WritingStepOK DEF Written

LEMMA UndoOK == ASSUME IInv, NEW p \in run.files, Undo(p) PROVE IInv'
<1>1. /\ UNCHANGED <<repo, head, edits>> /\ run.pc = "undo"
      /\ IsRun(run) /\ RunOK(run, source) /\ source \in Checkouts
      /\ run.made[1] = run.made[2] /\ run.files \subseteq DOMAIN run.made[1]
      /\ run.outcome \in {"restored", "partial"}
  BY WritingHere DEF Undo, At
<1>2. p \in Paths /\ run.shot[p] \in Contents /\ run.files \subseteq Paths
  BY <1>1, WritingFiles
<1>3. /\ source' \in Checkouts
      /\ \A q \in Paths \ {p} : source'[q] = source[q]
  <2>1. CASE source' = [source EXCEPT ![p] = run.shot[p]]
    BY <1>1, <1>2, <2>1 DEF Checkouts
  <2>2. CASE source' = source
    BY <1>1, <2>2
  <2> QED BY <2>1, <2>2 DEF Undo, Quiet
<1>4. ASSUME IsRun(run'), KeepsMade(run', run), run'.pc = "undo",
             run'.files = run.files \ {p}, run.edited \subseteq run'.edited \cup {p},
             run'.outcome \in {"restored", "partial"}
      PROVE  IInv'
  <2>1. ASSUME NEW q \in run'.files \ run'.edited
        PROVE  source'[q] \in {run'.shot[q], run'.made[1][q]}
    <3>1. q \in run.files /\ q \notin run.edited /\ q # p /\ q \in Paths
      BY <1>2, <1>4
    <3>2. source[q] \in {run.shot[q], run.made[1][q]}
      BY <1>1, <3>1 DEF RunOK, SourceOK
    <3> QED BY <1>3, <1>4, <3>1, <3>2 DEF KeepsMade
  <2>2. SourceOK(run', source')
    BY <1>4, <2>1 DEF SourceOK, Regenerating, Written
  <2>3. run'.files \subseteq DOMAIN run.made[1]
    BY <1>1, <1>4
  <2> QED BY <1>1, <1>3, <1>4, <2>2, <2>3, WritingStepOK
<1>5. CASE run' = Through(run, p)
  <2>1. /\ IsRun(run') /\ KeepsMade(run', run) /\ run'.pc = "undo"
        /\ run'.files = run.files \ {p} /\ run'.edited = run.edited \ {p}
        /\ run'.outcome = run.outcome
    BY <1>1, <1>5, ThroughFields
  <2> QED BY <1>1, <1>4, <2>1
<1>6. CASE run' = [Through(run, p) EXCEPT !.outcome = "partial"]
  <2> DEFINE t == Through(run, p)
  <2>1. /\ IsRun(t) /\ KeepsMade(t, run) /\ t.pc = "undo"
        /\ t.files = run.files \ {p} /\ t.edited = run.edited \ {p}
    BY <1>1, ThroughFields
  <2>2. run' = [t EXCEPT !.outcome = "partial"]
    BY <1>6
  <2> HIDE DEF t
  <2>3. /\ IsRun(run') /\ KeepsMade(run', t) /\ run'.pc = t.pc
        /\ run'.files = t.files /\ run'.edited = t.edited /\ run'.outcome = "partial"
    <3>1. run' = Writer(t, t.pc, t.files, t.edited, "partial")
      BY <2>1, <2>2 DEF IsRun, Writer
    <3> QED BY <3>1, WriterFields
  <2>4. KeepsMade(run', run)
    BY <2>1, <2>3 DEF KeepsMade
  <2> QED BY <1>4, <2>1, <2>3, <2>4
<1>7. CASE run' = [run EXCEPT !.files = @ \ {p}, !.outcome = "partial"]
  <2>1. /\ IsRun(run') /\ KeepsMade(run', run) /\ run'.pc = "undo"
        /\ run'.files = run.files \ {p} /\ run'.edited = run.edited
        /\ run'.outcome = "partial"
    <3> DEFINE files == run.files \ {p}
    <3>1. run' = [run EXCEPT !.files = files, !.outcome = "partial"]
      BY <1>7
    <3> HIDE DEF files
    <3>2. run' = Writer(run, run.pc, files, run.edited, "partial")
      BY <1>1, <3>1 DEF IsRun, Writer
    <3> QED BY <1>1, <3>2, WriterFields DEF files
  <2> QED BY <1>4, <2>1
<1> QED BY <1>5, <1>6, <1>7 DEF Undo, Quiet

LEMMA AllUndoneOK == IInv /\ AllUndone => IInv'
<1> SUFFICES ASSUME IInv, AllUndone PROVE IInv' OBVIOUS
<1>1. /\ UNCHANGED <<repo, head, edits, source>> /\ run' = Ended(run.outcome)
      /\ run.outcome \in {"restored", "partial"} /\ source' \in Checkouts
  BY WritingHere DEF AllUndone, At, Quiet, IInv
<1>2. run.outcome \in Outcomes \ {"written"}
  BY <1>1 DEF Outcomes
<1> QED BY <1>1, <1>2, EndedOK

LEMMA FailOK == IInv /\ Fail => IInv'
BY EndedOK DEF Fail, At, Quiet, IInv, Outcomes

LEMMA ReturnOK == IInv /\ Return => IInv'
BY EndedOK DEF Return, At, Quiet, IInv

-----------------------------------------------------------------------------
(* People *)

LEMMA CommitOK == IInv /\ Commit => IInv'
BY NextOK, MaxEditsAssumption DEF Commit, IInv

\* An edited path is one the validation's history counts.
LEMMA EditOK ==
  ASSUME IInv, NEW p \in Editable, Edit(p)
  PROVE  IInv'
<1>1. /\ UNCHANGED <<repo, head>> /\ edits' \in 0..MaxEdits
      /\ RunOK(run, source) /\ source \in Checkouts /\ head \in Checkouts
      /\ repo \in Repositories
  BY MaxEditsAssumption DEF Edit, IInv
<1>2. p \in Paths
  BY <1>1, PathsOK
<1>3. PICK c \in Contents : source' = [source EXCEPT ![p] = c]
  BY DEF Edit, Contents, Plain
<1>4. /\ source' \in Checkouts
      /\ \A q \in Paths \ {p} : source'[q] = source[q]
  BY <1>1, <1>3 DEF Checkouts
<1>5. CASE run.flips = Nothing
  <2>1. run' = run
    BY <1>5 DEF Edit
  <2>2. run.flips \notin [Paths -> 0..2]
    BY <1>2, <1>5 DEF Nothing
  <2>3. run.pc \in {"idle", "done"} /\ ~Written(run)
    BY <1>1, <2>2 DEF RunOK, HistoryOK
  <2>4. SourceOK(run, source') /\ HistoryOK(run, source')
    BY <1>1, <2>3 DEF RunOK, SourceOK, HistoryOK, Revalidated, Regenerating
  <2> QED BY <1>1, <1>4, <2>1, <2>4, NextOK DEF RunOK
<1>6. CASE run.flips # Nothing
  <2> DEFINE edited == run.edited \cup {p}
             flips == [run.flips EXCEPT ![p] = IF @ = 2 THEN 2 ELSE @ + 1]
  <2>1. run' = [run EXCEPT !.edited = edited, !.flips = flips]
    BY <1>6 DEF Edit
  <2>2. run.flips \in [Paths -> 0..2] /\ (run.pc \notin {"idle", "done"} \/ Written(run))
    BY <1>1, <1>6 DEF RunOK, HistoryOK
  <2>3. /\ flips \in [Paths -> 0..2] /\ flips[p] \in 1..2
        /\ run.flips[p] \in 1..2 => flips[p] = 2
        /\ \A q \in Paths \ {p} : flips[q] = run.flips[q]
    <3>1. run.flips[p] \in 0..2
      BY <1>2, <2>2
    <3> QED BY <1>2, <2>2, <3>1
  <2> HIDE DEF edited, flips
  <2>4. /\ IsRun(run') /\ run'.pc = run.pc /\ run'.entries = run.entries
        /\ run'.scanned = run.scanned
        /\ run'.before = run.before /\ run'.groups = run.groups /\ run'.shot = run.shot
        /\ run'.commit = run.commit /\ run'.tree = run.tree
        /\ run'.made = run.made /\ run'.left = run.left /\ run'.outcome = run.outcome
        /\ run'.committed = run.committed /\ run'.edited = edited
        /\ run'.files = run.files /\ run'.flips = flips
    <3>1. run' = [pc |-> run.pc, entries |-> run.entries, scanned |-> run.scanned,
           before |-> run.before, groups |-> run.groups, shot |-> run.shot,
           commit |-> run.commit, tree |-> run.tree, todo |-> run.todo, made |-> run.made,
           files |-> run.files, outcome |-> run.outcome, committed |-> run.committed, left |-> run.left,
           edited |-> edited, flips |-> flips]
      BY <1>1, <2>1 DEF RunOK, IsRun
    <3> QED BY <3>1 DEF IsRun
  <2>5. Planned(run') = Planned(run) /\ (Written(run') <=> Written(run))
        /\ Planned(run) \subseteq Paths
    BY <1>1, <2>4, PlannedOK DEF Planned, Written, RunOK
  <2>6. PlanOK(run') /\ WorktreesOK(run') /\ CollectedOK(run')
    BY <1>1, <2>4, <2>5 DEF RunOK, PlanOK, WorktreesOK, CollectedOK
  <2>7. SourceOK(run', source')
    <3>1. \A q \in Planned(run) \ edited : q \notin run.edited /\ source'[q] = source[q]
      BY <1>4, <2>5 DEF edited
    <3>2. run.pc = "undo" => run.files \subseteq Planned(run)
      BY <1>1, WritingFiles DEF IInv
    <3>3. \A q \in Planned(run) : Stored(run', q) = Stored(run, q)
      BY <2>4 DEF Stored
    <3> QED BY <1>1, <2>4, <2>5, <3>1, <3>2, <3>3 DEF RunOK, SourceOK
  <2>8. HistoryOK(run', source')
    <3>1. \A q \in Planned(run) : Settled(run, q) => Settled(run', q)
      BY <2>3, <2>4, <2>5 DEF Settled
    <3>2. \A q \in Planned(run) : run.flips[q] \in 1..2 => flips[q] \in 1..2
      BY <2>3, <2>5
    <3>3. run.pc = "validate" => \A q \in Planned(run) :
            source'[q] = run.shot[q] \/ flips[q] \in 1..2
      BY <1>1, <1>4, <2>3, <2>5, <3>2 DEF RunOK, HistoryOK
    <3>4. run.pc = "revalidate" => \A q \in Planned(run) :
            Settled(run', q) \/ (source'[q] # run.shot[q] /\ flips[q] \in 1..2)
      <4> SUFFICES ASSUME run.pc = "revalidate", NEW q \in Planned(run)
                   PROVE  Settled(run', q) \/ (source'[q] # run.shot[q] /\ flips[q] \in 1..2)
        OBVIOUS
      <4>1. Settled(run, q) \/ (source[q] # run.shot[q] /\ run.flips[q] \in 1..2)
        BY <1>1 DEF RunOK, HistoryOK
      <4>2. CASE q = p
        BY <2>3, <2>4, <3>1, <4>1, <4>2 DEF Settled
      <4>3. CASE q # p
        BY <1>4, <2>5, <3>1, <3>2, <4>1, <4>3
      <4> QED BY <4>2, <4>3
    <3> QED BY <1>1, <2>2, <2>3, <2>4, <2>5, <3>1, <3>3, <3>4 DEF RunOK, HistoryOK
  <2> QED BY <1>1, <1>4, <2>4, <2>6, <2>7, <2>8, NextOK DEF RunOK
<1> QED BY <1>5, <1>6

-----------------------------------------------------------------------------
(* The invariant, and what follows from it *)

LEMMA StepOK == IInv /\ [Next]_vars => IInv'
<1> SUFFICES ASSUME IInv, [Next]_vars PROVE IInv' OBVIOUS
<1>1. CASE Begin \/ Hang \/ Release \/ Commit
  BY <1>1, BeginOK, HangOK, ReleaseOK, CommitOK
<1>2. CASE Step
  BY <1>2, PlanManifestsOK, PlanLocksOK, SnapshotOK, ValidateOK, RevalidateOK,
     AddWorktreeOK, CommandOK, CommandsDoneOK, RestorePinsOK, TimeOutOK, CollectOK,
     CompareOK, CheckOK, AllCheckedOK, StoreOK, AllStoredOK, UndoOK, AllUndoneOK,
     FailOK, ReturnOK DEF Step
<1>3. ASSUME NEW p \in Editable, Edit(p) PROVE IInv'
  BY <1>3, EditOK
<1>4. CASE UNCHANGED vars
  BY <1>4, NextOK DEF vars, IInv
<1> QED BY <1>1, <1>2, <1>3, <1>4 DEF Next

THEOREM Invariance == Spec => []IInv
BY InitOK, StepOK, PTL DEF Spec

\* Every reachable state is well typed: worktrees are checkouts, snapshots
\* hold the planned files, and there are at most two regenerations.
THEOREM TypeCorrect == Spec => []TypeOK
<1>1. ASSUME IInv PROVE TypeOK
  <2>1. RunOK(run, source)
    BY <1>1 DEF IInv
  <2>2. /\ run.pc \in Steps /\ run.outcome \in Outcomes /\ run.entries \subseteq repo.entries
        /\ DOMAIN run.before \in {{}, Manifests(run.entries)}
        /\ DOMAIN run.shot \in {{}, Planned(run)}
    BY <2>1 DEF RunOK, PlanOK, Nothing
  <2>3. /\ run.pc \in {"command", "hung", "held", "restore", "collect"} =>
             run.tree \in Checkouts /\ run.commit \in Checkouts
        /\ Len(run.left) = Len(run.made)
    BY <2>1 DEF RunOK, WorktreesOK, InWorktree, Regenerating
  <2>4. Len(run.made) <= 2
    <3> DEFINE n == Len(run.made)
    <3>1. n \in Nat
      BY <2>1, LenProperties DEF RunOK, WorktreesOK
    <3>2. n <= 1 \/ n = 2 \/ n = 0
      BY <2>1 DEF RunOK, WorktreesOK, Revalidated
    <3> HIDE DEF n
    <3>3. n <= 2
      BY <3>1, <3>2
    <3> QED BY <3>3 DEF n
  <2> QED BY <1>1, <2>2, <2>3, <2>4 DEF IInv, TypeOK
<1> QED BY <1>1, Invariance, PTL

\* After a write the checkout holds, on every planned path nobody edited since,
\* what both regenerations were left with (lockfiles.go:66-69).
THEOREM WritesReproduced == Spec => []Reproduced
<1>1. IInv => Reproduced
  BY DEF IInv, RunOK, SourceOK, Written, Reproduced
<1> QED BY <1>1, Invariance, PTL

\* A write brings the approved manifests and a lockfile for each, whatever the
\* package managers did (docs/lockfile-updates.md:13-15).
THEOREM WritesApproved == Spec => []ApprovedAndLocked
<1>1. ASSUME IInv, run.pc = "done", run.outcome = "written"
      PROVE  /\ \A f \in DOMAIN run.before \ run.edited : source[f] = Approved(run.before[f])
             /\ \A p \in Required(run.groups) \ run.edited : source[p] # Absent
  <2>1. /\ RunOK(run, source) /\ Written(run) /\ repo \in Repositories
        /\ Required(run.groups) \subseteq Planned(run)
        /\ DOMAIN run.before \subseteq Planned(run)
    BY <1>1, PlannedOK DEF IInv, RunOK, Written
  <2>2. \A p \in Planned(run) \ run.edited : source[p] = run.left[1][p]
    BY <2>1 DEF RunOK, SourceOK
  <2>3. /\ \A f \in DOMAIN run.before : run.left[1][f] = Approved(run.before[f])
        /\ \A p \in Required(run.groups) : run.left[1][p] # Absent
    <3>1. Len(run.made) = 2 /\ 1 \in 1..2
      BY <2>1 DEF RunOK, WorktreesOK
    <3> QED BY <2>1, <3>1 DEF RunOK, CollectedOK
  <2> QED BY <2>1, <2>2, <2>3
<1>2. IInv => ApprovedAndLocked
  BY <1>1 DEF ApprovedAndLocked
<1> QED BY <1>2, Invariance, PTL

\* A run replaces only what was committed when it validated the checkout, and in
\* a rollback what it wrote itself; but for a file edited after writePlans had
\* checked it, or taken back and edited again within the run: what
\* apply.go:103-106 and lockfiles.go:109-117 leave open of
\* docs/lockfile-updates.md:20-22.
THEOREM LocalWorkKept == Spec => ReplacesCommitted
<1> DEFINE Allowed(p) ==
      \/ source[p] \in {Absent, run.committed[p]}
      \/ run.pc = "undo" /\ source[p] = run.made[1][p]
      \/ run.pc \in {"store", "undo"} /\ p \in run.edited
      \/ run.flips[p] = 2
<1>1. ASSUME IInv, NEW p \in run.files, Store(p) \/ Undo(p),
             NEW q \in Paths, source'[q] # source[q]
      PROVE  Allowed(q)
  <2>1. /\ run.pc \in {"store", "undo"} /\ RunOK(run, source) /\ source \in Checkouts
        /\ p \in Planned(run) /\ p \in DOMAIN run.made[1]
    <3>1. run.pc \in {"store", "undo"}
      BY <1>1 DEF Store, Undo, At
    <3> QED BY <1>1, <3>1, WritingHere, WritingFiles
  <2>2. q = p /\ (run.pc = "undo" => source'[p] = run.shot[p])
    BY <1>1, <2>1 DEF Store, Undo, At, Quiet, Checkouts
  <2>3. Settled(run, p)
    BY <2>1 DEF RunOK, HistoryOK, Revalidated
  <2>4. CASE run.pc = "store" /\ p \notin run.edited
    <3>1. source[p] = run.shot[p]
      BY <1>1, <2>1, <2>4 DEF RunOK, SourceOK, Stored
    <3> QED BY <2>2, <2>3, <3>1 DEF Settled
  <2>5. CASE run.pc = "undo" /\ p \notin run.edited
    <3>1. source[p] \in {run.shot[p], run.made[1][p]}
      BY <1>1, <2>1, <2>5 DEF RunOK, SourceOK
    <3> QED BY <1>1, <2>2, <2>5, <3>1
  <2>6. CASE p \in run.edited
    BY <2>1, <2>2, <2>6
  <2> QED BY <2>1, <2>4, <2>5, <2>6
\* Every other step of a run leaves the checkout alone.
<1>2. ASSUME Step, NEW q \in Paths, source'[q] # source[q]
      PROVE  \E p \in run.files : Store(p) \/ Undo(p)
  BY <1>2 DEF Step, PlanManifests, PlanLocks, Snapshot, Validate, Revalidate,
     AddWorktree, Command, CommandsDone, RestorePins, TimeOut, Collect, Compare,
     Check, AllChecked, AllStored, AllUndone, Fail, Return, Quiet, Goto
<1>3. ASSUME IInv, Next, edits' = edits, NEW q \in Paths, source'[q] # source[q]
      PROVE  Allowed(q)
  <2>1. CASE Step
    BY <1>1, <1>2, <1>3, <2>1
  <2>2. CASE Begin \/ Hang \/ Release
    BY <1>3, <2>2 DEF Begin, Hang, Release, Quiet, Goto
  <2>3. CASE Commit \/ \E p \in Editable : Edit(p)
    <3>1. edits \in Nat
      BY <1>3, MaxEditsAssumption DEF IInv
    <3>2. edits' = edits + 1
      BY <2>3 DEF Commit, Edit
    <3> QED BY <1>3, <3>1, <3>2
  <2> QED BY <1>3, <2>1, <2>2, <2>3 DEF Next
<1>4. IInv /\ [Next]_vars =>
        [edits' = edits => \A p \in Paths : source'[p] # source[p] => Allowed(p)]_vars
  BY <1>3
<1> QED BY <1>4, Invariance, PTL DEF Spec, ReplacesCommitted
=============================================================================
