----------------------------- MODULE SourceWrite -----------------------------
(***************************************************************************)
(* `hooneedsupdates apply --plan`: update.ApplyPlan carries a saved plan   *)
(* into a checkout (internal/update/plan.go), with writePlans, atomicWrite *)
(* and rollback (internal/update/apply.go).  Every system call is a step:  *)
(* it may fail, the process may die before it, and a person may edit a     *)
(* planned file before it.                                                 *)
(*                                                                         *)
(* `apply --write` without --plan and `automation` reach the same writes:  *)
(* the former saves a plan in memory first (main.go:336-341).              *)
(*                                                                         *)
(* The model has no power loss.  It keeps, for each file, what a loss of   *)
(* power at this moment could leave there.                                 *)
(***************************************************************************)
EXTENDS Naturals

CONSTANTS
  N,              \* the number of planned files, numbered by path
  Created,        \* those the plan creates (PlanFile.Existed is false)
  SyncsDirectory  \* syncDirectory flushes: TRUE on Unix, FALSE on Windows

ASSUME NAssumption == N \in Nat \ {0}
ASSUME CreatedAssumption == Created \subseteq 1..N
ASSUME PlatformAssumption == SyncsDirectory \in BOOLEAN

VARIABLES
  disk,      \* what each planned path holds
  survives,  \* what each could hold after a loss of power now
  run,       \* the locals of ApplyPlan, writePlans, atomicWrite and rollback
  report     \* what the last apply reported

vars == <<disk, survives, run, report>>

-----------------------------------------------------------------------------
Files == 1..N

\* Bytes, mode and kind of a path, as far as validateWritePlans can tell them
\* apart.  "torn" is a file whose bytes never reached the disk.
Contents == {"absent", "before", "after", "edited"}

Source == [i \in Files |-> IF i \in Created THEN "absent" ELSE "before"]

Steps == {"idle", "read", "check", "stage", "sync", "rename", "flush",
          "remove", "done"}
Outcomes == {"written", "refused", "restored", "partial"}

\* at is the index of the loop the run is in, back whether that is rollback's.
\* base and late are history: the files as the run found or a person left
\* them, and the files a person edited after the run's last look at them.
Runs == [pc : Steps, write : BOOLEAN, at : Files, back : BOOLEAN,
         synced : BOOLEAN, failed : SUBSET Files, outcome : Outcomes,
         base : [Files -> Contents], late : SUBSET Files]

Idle == [pc |-> "idle", write |-> FALSE, at |-> 1, back |-> FALSE,
         synced |-> FALSE, failed |-> {}, outcome |-> "refused",
         base |-> Source, late |-> {}]

Goto(r, pc) == [r EXCEPT !.pc = pc]
Finish(r, outcome) == [r EXCEPT !.pc = "done", !.outcome = outcome]

-----------------------------------------------------------------------------
(* Mistakes the properties must catch: forms of definitions below, named by  *)
(* what they get wrong.  The specification does not use them.                *)

WriteNextPastEnd(r) == [r EXCEPT !.pc = "stage", !.at = r.at + 1]
UndoKeepingCreated(r, i) ==
  IF i = 0 \/ i \in Created THEN Finish(r, "restored")
  ELSE [r EXCEPT !.pc = "stage", !.at = i, !.synced = FALSE]
FirstUndoneBefore(r) == r.at - 1
NothingFlushedFor(i) == survives
StagedUnsynced(r) == Goto(r, "rename")
ReadAllUnchecked(r) ==
  IF r.write THEN [r EXCEPT !.pc = "stage", !.at = 1] ELSE Finish(r, "refused")

-----------------------------------------------------------------------------
(* Where each loop goes next *)

\* The last file of ApplyPlan's reads: only a run with write goes on.
ReadAll(r) ==
  IF r.write THEN [r EXCEPT !.pc = "check", !.at = 1] ELSE Finish(r, "refused")

WriteNext(r) ==
  IF r.at = N THEN Finish(r, "written")
  ELSE [r EXCEPT !.pc = "stage", !.at = r.at + 1, !.synced = FALSE]

\* rollback at file i, or past its last one.
Undo(r, i) ==
  IF i = 0 THEN Finish(r, IF r.failed = {} THEN "restored" ELSE "partial")
  ELSE [r EXCEPT !.pc = IF i \in Created THEN "remove" ELSE "stage",
                 !.at = i, !.synced = FALSE]

\* writePlans undoes the file that failed too: its rename may have happened.
FirstUndone(r) == r.at

\* atomicWrite returns: nil, or an error.
Stored(r) == IF r.back THEN Undo(r, r.at - 1) ELSE WriteNext(r)
Failed(r) ==
  IF r.back THEN Undo([r EXCEPT !.failed = r.failed \cup {r.at}], r.at - 1)
  ELSE Undo([r EXCEPT !.back = TRUE], FirstUndone(r))

\* atomicWrite has written the temporary file, and must flush it next.
Staged(r) == Goto(r, "sync")

\* What atomicWrite was asked to store.
Payload(r) == IF r.back THEN "before" ELSE "after"

-----------------------------------------------------------------------------
(* The steps of one apply *)

At(pc) == run.pc = pc /\ UNCHANGED report

\* A step that leaves the planned paths alone.
Quiet(r) == run' = r /\ UNCHANGED <<disk, survives>>

Begin(write) ==
  /\ At("idle")
  /\ Quiet([Goto(Idle, "read") EXCEPT !.write = write, !.base = disk])

\* ApplyPlan's loop over the plan: a file must still be what it was made from.
Read ==
  /\ At("read")
  /\ \/ Quiet(Finish(run, "refused")) \* stale, or the path cannot be read
     \/ /\ disk[run.at] = Source[run.at]
        /\ Quiet(IF run.at = N THEN ReadAll(run)
                 ELSE [run EXCEPT !.at = run.at + 1])

\* validateWritePlans' loop, before the first write.
Check ==
  /\ At("check")
  /\ \/ Quiet(Finish(run, "refused"))
     \/ /\ disk[run.at] = Source[run.at]
        /\ Quiet(IF run.at = N
                 THEN [run EXCEPT !.pc = "stage", !.at = 1, !.synced = FALSE]
                 ELSE [run EXCEPT !.at = run.at + 1])

\* atomicWrite's CreateTemp, Chmod and Write, on a file of its own.
Stage == At("stage") /\ (Quiet(Staged(run)) \/ Quiet(Failed(run)))

Sync ==
  /\ At("sync")
  /\ \/ Quiet([Goto(run, "rename") EXCEPT !.synced = TRUE])
     \/ Quiet(Failed(run))

\* Until the directory is flushed, a loss of power may bring back what the
\* name stood for before, and show the new file without the bytes unflushed.
Rename ==
  /\ At("rename")
  /\ \/ /\ disk' = [disk EXCEPT ![run.at] = Payload(run)]
        /\ survives' = [survives EXCEPT ![run.at] =
                          @ \cup IF run.synced THEN {Payload(run)} ELSE {"torn"}]
        /\ run' = Goto(run, "flush")
     \/ Quiet(Failed(run))

\* What syncDirectory makes of a loss of power after the rename at i.
FlushedFor(i) ==
  IF SyncsDirectory THEN [survives EXCEPT ![i] = {disk[i]}] ELSE survives

\* A failure of syncDirectory leaves the rename in place.
Flush ==
  /\ At("flush")
  /\ \/ survives' = FlushedFor(run.at) /\ run' = Stored(run) /\ UNCHANGED disk
     \/ SyncsDirectory /\ Quiet(Failed(run))

\* rollback removes a created file, or finds none; nothing flushes a removal.
Remove ==
  /\ At("remove")
  /\ \/ /\ disk' = [disk EXCEPT ![run.at] = "absent"]
        /\ survives' = [survives EXCEPT ![run.at] = @ \cup {"absent"}]
        /\ run' = Undo(run, run.at - 1)
     \/ Quiet(Failed(run))

Return ==
  /\ run.pc = "done"
  /\ report' = run.outcome
  /\ Quiet(Idle)

\* The process dies; the paths keep what they have.
Crash ==
  /\ run.pc # "idle"
  /\ report' = "partial"
  /\ Quiet(Idle)

\* The run will not look at file i again before it replaces it.
LastLookAt(i) ==
  \/ run.pc \notin {"idle", "read", "check"}
  \/ run.pc = "check" /\ i < run.at

\* A person saves, deletes or restores a planned file, and it reaches the disk.
Edit(i) ==
  /\ \E c \in {"edited", "absent", Source[i]} \ {disk[i]} :
       /\ disk' = [disk EXCEPT ![i] = c]
       /\ survives' = [survives EXCEPT ![i] = {c}]
       /\ run' = IF run.pc = "idle" THEN run
                 ELSE [run EXCEPT !.base[i] = c,
                                  !.late = IF LastLookAt(i) THEN @ \cup {i} ELSE @]
  /\ UNCHANGED report

Init ==
  /\ disk \in [Files -> Contents]
  /\ survives = [i \in Files |-> {disk[i]}]
  /\ run = Idle
  /\ report = "none"

Next ==
  \/ \E write \in BOOLEAN : Begin(write)
  \/ Read \/ Check \/ Stage \/ Sync \/ Rename \/ Flush \/ Remove
  \/ Return \/ Crash
  \/ \E i \in Files : Edit(i)

Spec == Init /\ [][Next]_vars

-----------------------------------------------------------------------------
(* Properties *)

TypeOK ==
  /\ disk \in [Files -> Contents]
  /\ survives \in [Files -> SUBSET (Contents \cup {"torn"})]
  /\ run \in Runs
  /\ report \in Outcomes \cup {"none"}

\* No loss of power leaves a file with less than all its bytes: atomicWrite
\* flushes the temporary file before the rename shows it (apply.go:353-359).
FilesWhole == \A i \in Files : "torn" \notin survives[i]

\* On Unix a reported success outlives a loss of power (docs/saved-plans.md:
\* 67, "Unix writes flush file contents and directory metadata").
SuccessDurable ==
  run.pc = "done" /\ run.outcome = "written" /\ SyncsDirectory =>
    \A i \in Files \ run.late : survives[i] = {"after"}

\* The report can be acted on: after success every file is written, and after
\* an error each file not named by "rollback also failed" is as it was
\* (apply.go:102-116, 226-244; docs/saved-plans.md:61-64).
ReportHonest ==
  run.pc = "done" =>
    \A i \in Files \ (run.late \cup run.failed) :
      disk[i] = IF run.outcome = "written" THEN "after" ELSE run.base[i]

Edits == \E i \in Files : Edit(i)

\* A run replaces a file only in the state the plan was made from, and rollback
\* also in the planned one, except for an edit made after the run's last look
\* (plan.go:267, apply.go:246-283; docs/saved-plans.md:56-58: a plan fits once).
OnlyLateEditsReplaced ==
  [][Edits \/ \A i \in Files :
       \/ disk'[i] = disk[i]
       \/ disk[i] \in {Source[i]} \cup (IF run.back THEN {"after"} ELSE {})
       \/ i \in run.late]_vars

\* All the steps between two reports amount to one step of AllOrNothing.
Promise == INSTANCE AllOrNothing WITH
  After <- "after",
  files <- IF run.pc = "idle" THEN disk ELSE run.base,
  report <- IF run.pc = "idle" THEN report ELSE "applying",
  late <- run.late
KeepsPromise == Promise!Spec
=============================================================================
