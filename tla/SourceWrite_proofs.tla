------------------------- MODULE SourceWrite_proofs -------------------------
(***************************************************************************)
(* For any number of planned files, of which any are created, on either    *)
(* kind of platform: the properties of SourceWrite, and that it implements *)
(* AllOrNothing.                                                           *)
(***************************************************************************)
EXTENDS SourceWrite, TLAPS

USE NAssumption, CreatedAssumption, PlatformAssumption

-----------------------------------------------------------------------------
(* The inductive invariant: where the run stands in its loops tells what     *)
(* each file d[i] holds, compared with its base.                             *)

Storing == {"stage", "sync", "rename", "flush"}
Changing == Storing \cup {"remove"}

Untouched(d, r, i) == d[i] = r.base[i]
Written(d, r, i) == d[i] = "after" \/ (i \in r.late /\ Untouched(d, r, i))
Undone(d, r, i) == Untouched(d, r, i) \/ (i \in r.late /\ d[i] = Source[i])
Left(d, r, i) ==
  /\ Undone(d, r, i) \/ Written(d, r, i)
  /\ i \notin r.failed => Undone(d, r, i)

\* The run has seen file i as the plan's source, if it was not edited since.
Known(r, i) == i \in r.late \/ r.base[i] = Source[i]

Looking(d, r) ==
  r.pc \in {"read", "check"} =>
    /\ ~r.back /\ r.failed = {}
    /\ \A i \in Files : Untouched(d, r, i)
    /\ r.pc = "check" => \A i \in Files : i < r.at => Known(r, i)

Writing(d, r) ==
  r.pc \in Changing /\ ~r.back =>
    /\ r.pc # "remove" /\ r.failed = {}
    /\ \A i \in Files :
         /\ Known(r, i)
         /\ i < r.at => Written(d, r, i)
         /\ i > r.at => Untouched(d, r, i)
         /\ i = r.at => IF r.pc = "flush" THEN Written(d, r, i)
                        ELSE Untouched(d, r, i)

UndoingAt(d, r, k) ==
  \A i \in Files :
    /\ Known(r, i)
    /\ i < k => Written(d, r, i)
    /\ i = k => Undone(d, r, i) \/ Written(d, r, i)
    /\ i > k => Left(d, r, i)

Undoing(d, r) ==
  r.pc \in Changing /\ r.back =>
    /\ UndoingAt(d, r, r.at)
    /\ r.pc = "remove" <=> r.at \in Created
    /\ r.pc = "flush" => Undone(d, r, r.at)

Ended(d, r) ==
  r.pc = "done" =>
    \A i \in Files :
      /\ r.outcome = "written" => Known(r, i) /\ Written(d, r, i)
      /\ r.outcome = "refused" => Untouched(d, r, i)
      /\ r.outcome = "restored" => Known(r, i) /\ Undone(d, r, i)
      /\ r.outcome = "partial" => Known(r, i) /\ Left(d, r, i)
      /\ r.outcome # "partial" => r.failed = {}

Progress(d, r) ==
  Looking(d, r) /\ Writing(d, r) /\ Undoing(d, r) /\ Ended(d, r)

Flushed(s, r) ==
  \A i \in Files \ r.late :
    /\ SyncsDirectory
    /\ \/ r.pc \in Storing /\ ~r.back /\ i < r.at
       \/ r.pc = "done" /\ r.outcome = "written"
    => s[i] = {"after"}

IdleClean == run.pc = "idle" => run = Idle

RenameSynced(r) == r.pc = "rename" => r.synced

IInv == /\ TypeOK /\ FilesWhole /\ IdleClean /\ RenameSynced(run)
        /\ Progress(disk, run) /\ Flushed(survives, run)

-----------------------------------------------------------------------------
(* The operators the steps are made of *)

LEMMA SourceType == Source \in [Files -> Contents]
  BY DEF Source, Contents, Files

LEMMA IdleType == Idle \in Runs
  BY SourceType DEF Idle, Runs, Steps, Outcomes, Files

\* Each of them keeps a run a run.
LEMMA OperatorTypes ==
  ASSUME NEW r \in Runs
  PROVE  /\ \A pc \in Steps : Goto(r, pc) \in Runs
         /\ \A o \in Outcomes : Finish(r, o) \in Runs
         /\ \A i \in 0..N : Undo(r, i) \in Runs
         /\ ReadAll(r) \in Runs /\ WriteNext(r) \in Runs
         /\ Stored(r) \in Runs /\ Failed(r) \in Runs
<1>1. \A pc \in Steps : Goto(r, pc) \in Runs
  BY DEF Goto, Runs
<1>2. \A o \in Outcomes : Finish(r, o) \in Runs
  BY DEF Finish, Runs, Steps
<1>3. \A q \in Runs : \A i \in 0..N : Undo(q, i) \in Runs
  <2> SUFFICES ASSUME NEW q \in Runs, NEW i \in 0..N PROVE Undo(q, i) \in Runs
    OBVIOUS
  <2>1. CASE i = 0
    BY <2>1 DEF Undo, Finish, Runs, Steps, Outcomes
  <2>2. CASE i # 0
    <3> DEFINE pc == IF i \in Created THEN "remove" ELSE "stage"
    <3>1. pc \in Steps /\ i \in Files
      BY <2>2 DEF Steps, Files
    <3>2. [q EXCEPT !.pc = pc, !.at = i, !.synced = FALSE] \in Runs
      <4> HIDE DEF pc
      <4> QED BY <3>1 DEF Runs
    <3> QED BY <2>2, <3>2 DEF Undo
  <2> QED BY <2>1, <2>2
<1>4. ReadAll(r) \in Runs
  <2>1. 1 \in Files /\ "check" \in Steps
    BY DEF Files, Steps
  <2>2. [r EXCEPT !.pc = "check", !.at = 1] \in Runs
    BY <2>1 DEF Runs
  <2> QED BY <1>2, <2>2 DEF ReadAll, Outcomes
<1>5. WriteNext(r) \in Runs
  <2>1. r.at # N => r.at + 1 \in Files
    BY DEF Runs, Files
  <2>2. r.at # N => [r EXCEPT !.pc = "stage", !.at = r.at + 1, !.synced = FALSE] \in Runs
    BY <2>1 DEF Runs, Steps
  <2> QED BY <1>2, <2>2 DEF WriteNext, Outcomes
<1>6. r.at \in 1..N /\ r.at - 1 \in 0..N /\ r.at \in 0..N
  BY DEF Runs, Files
<1>7. Stored(r) \in Runs
  BY <1>3, <1>5, <1>6 DEF Stored
<1>8. Failed(r) \in Runs
  <2>1. [r EXCEPT !.failed = r.failed \cup {r.at}] \in Runs
    BY DEF Runs
  <2>2. [r EXCEPT !.back = TRUE] \in Runs
    BY DEF Runs
  <2> QED BY <1>3, <1>6, <2>1, <2>2 DEF Failed, FirstUndone
<1> QED BY <1>1, <1>2, <1>3, <1>4, <1>5, <1>7, <1>8

\* rollback goes on at file k, or returns.
LEMMA UndoProgress ==
  ASSUME NEW d \in [Files -> Contents], NEW r \in Runs, NEW k \in 0..N,
         r.back, UndoingAt(d, r, k), \A i \in Files : Known(r, i)
  PROVE  Progress(d, Undo(r, k)) /\ RenameSynced(Undo(r, k))
<1> DEFINE u == Undo(r, k)
<1>1. /\ u.base = r.base /\ u.late = r.late /\ u.failed = r.failed
      /\ u.back = r.back
  BY DEF Undo, Finish, Runs
<1>2. CASE k = 0
  <2>1. /\ u.pc = "done"
        /\ u.outcome = IF r.failed = {} THEN "restored" ELSE "partial"
    BY <1>2 DEF Undo, Finish, Runs
  <2>2. \A i \in Files : Left(d, r, i)
    BY <1>2 DEF UndoingAt, Files
  <2>3. Ended(d, u)
    BY <1>1, <2>1, <2>2 DEF Ended, Left, Known, Undone, Written, Untouched
  <2> QED
    BY <2>1, <2>3
    DEF Progress, Looking, Writing, Undoing, Changing, Storing, RenameSynced
<1>3. CASE k # 0
  <2>1. /\ u.pc = IF k \in Created THEN "remove" ELSE "stage"
        /\ u.at = k
    BY <1>3 DEF Undo, Runs
  <2>2. UndoingAt(d, u, k)
    BY <1>1 DEF UndoingAt, Left, Known, Undone, Written, Untouched
  <2> QED
    BY <1>1, <2>1, <2>2
    DEF Progress, Looking, Writing, Undoing, Ended, Changing, Storing, RenameSynced
<1> QED BY <1>2, <1>3

\* A failing call starts rollback, or is written down by it.
LEMMA FailedProgress ==
  ASSUME NEW d \in [Files -> Contents], NEW r \in Runs,
         r.pc \in Changing, Progress(d, r)
  PROVE  Progress(d, Failed(r)) /\ RenameSynced(Failed(r))
<1>0. r.at \in 1..N /\ r.at \in 0..N /\ r.at - 1 \in 0..N
  BY DEF Runs, Files
<1>1. CASE r.back
  <2> DEFINE q == [r EXCEPT !.failed = r.failed \cup {r.at}]
  <2>1. /\ q \in Runs /\ q.back /\ q.base = r.base /\ q.late = r.late
        /\ q.failed = r.failed \cup {r.at}
    BY <1>1 DEF Runs
  <2>2. UndoingAt(d, r, r.at)
    BY <1>1 DEF Progress, Undoing
  <2>3. UndoingAt(d, q, r.at - 1)
    BY <1>0, <2>1, <2>2
    DEF UndoingAt, Left, Known, Undone, Written, Untouched, Files
  <2>4. \A i \in Files : Known(q, i)
    BY <2>3 DEF UndoingAt
  <2> QED BY <1>0, <1>1, <2>1, <2>3, <2>4, UndoProgress DEF Failed
<1>2. CASE ~r.back
  <2> DEFINE q == [r EXCEPT !.back = TRUE]
  <2>1. /\ q \in Runs /\ q.back /\ q.base = r.base /\ q.late = r.late
        /\ q.failed = r.failed
    BY DEF Runs
  <2>2. UndoingAt(d, q, r.at)
    BY <1>0, <1>2, <2>1
    DEF Progress, Writing, UndoingAt, Left, Known, Undone, Written, Untouched,
        Files, Changing
  <2>3. \A i \in Files : Known(q, i)
    BY <2>2 DEF UndoingAt
  <2> QED BY <1>0, <1>2, <2>1, <2>2, <2>3, UndoProgress DEF Failed, FirstUndone
<1> QED BY <1>1, <1>2

\* The rename at r.at has been flushed.
LEMMA StoredProgress ==
  ASSUME NEW d \in [Files -> Contents], NEW r \in Runs,
         r.pc = "flush", Progress(d, r)
  PROVE  Progress(d, Stored(r)) /\ RenameSynced(Stored(r))
<1>0. r.at \in 1..N /\ r.at - 1 \in 0..N
  BY DEF Runs, Files
<1>1. CASE r.back
  <2>1. UndoingAt(d, r, r.at) /\ Undone(d, r, r.at)
    BY <1>1 DEF Progress, Undoing, Changing, Storing
  <2>2. UndoingAt(d, r, r.at - 1)
    BY <1>0, <2>1 DEF UndoingAt, Left, Files
  <2>3. \A i \in Files : Known(r, i)
    BY <2>1 DEF UndoingAt
  <2> QED BY <1>0, <1>1, <2>2, <2>3, UndoProgress DEF Stored
<1>2. CASE ~r.back
  <2> DEFINE w == WriteNext(r)
  <2>1. \A i \in Files :
          /\ Known(r, i)
          /\ i <= r.at => Written(d, r, i)
          /\ i > r.at => Untouched(d, r, i)
    BY <1>0, <1>2 DEF Progress, Writing, Changing, Storing, Files
  <2>2. /\ w.base = r.base /\ w.late = r.late /\ w.failed = r.failed
        /\ w.back = r.back /\ r.failed = {}
    BY <1>2 DEF WriteNext, Finish, Runs, Progress, Writing, Changing, Storing
  <2>3. CASE r.at = N
    <3>1. w.pc = "done" /\ w.outcome = "written"
      BY <2>3 DEF WriteNext, Finish, Runs
    <3>2. Ended(d, w)
      BY <2>1, <2>2, <2>3, <3>1 DEF Ended, Known, Written, Untouched, Files
    <3> QED
      BY <1>2, <3>1, <3>2
      DEF Stored, Progress, Looking, Writing, Undoing, Changing, Storing, RenameSynced
  <2>4. CASE r.at # N
    <3>1. w.pc = "stage" /\ w.at = r.at + 1
      BY <2>4 DEF WriteNext, Runs
    <3>2. Writing(d, w)
      BY <1>0, <2>1, <2>2, <3>1
      DEF Writing, Known, Written, Untouched, Changing, Storing, Files
    <3> QED
      BY <1>2, <2>2, <3>1, <3>2
      DEF Stored, Progress, Looking, Undoing, Ended, Changing, Storing, RenameSynced
  <2> QED BY <2>3, <2>4
<1> QED BY <1>1, <1>2

-----------------------------------------------------------------------------
(* Each step preserves the invariant *)

\* A quiet step that keeps history, progress and flushed files.
LEMMA QuietStep ==
  ASSUME IInv, UNCHANGED report, NEW r \in Runs, Quiet(r), r.pc # "idle",
         Progress(disk, r), RenameSynced(r), Flushed(survives, r)
  PROVE  IInv'
<1>1. run' = r /\ disk' = disk /\ survives' = survives
  BY DEF Quiet
<1>2. TypeOK' /\ FilesWhole' /\ IdleClean'
  BY <1>1 DEF IInv, TypeOK, FilesWhole, IdleClean
<1>3. Progress(disk, run)' /\ Flushed(survives, run)' /\ RenameSynced(run)'
  BY <1>1
  DEF Progress, Looking, Writing, Undoing, UndoingAt, Ended, Left, Written,
      Undone, Untouched, Known, Flushed, RenameSynced
<1> QED BY <1>2, <1>3 DEF IInv

\* Neither failing nor going on after a flush claims more flushed files than
\* there are.
LEMMA FailedFlushed ==
  ASSUME NEW r \in Runs, NEW s
  PROVE  Flushed(s, Failed(r)) /\ Failed(r).pc # "idle"
<1>1. \A q \in Runs : \A k \in 0..N :
        q.back => Flushed(s, Undo(q, k)) /\ Undo(q, k).pc # "idle"
  <2> SUFFICES ASSUME NEW q \in Runs, NEW k \in 0..N, q.back
               PROVE  Flushed(s, Undo(q, k)) /\ Undo(q, k).pc # "idle"
    OBVIOUS
  <2>1. Undo(q, k).back
    BY DEF Undo, Finish, Runs
  <2>2. /\ Undo(q, k).pc = "done" => Undo(q, k).outcome # "written"
        /\ Undo(q, k).pc # "idle"
    BY DEF Undo, Finish, Runs
  <2> QED BY <2>1, <2>2 DEF Flushed
<1>2. r.at \in 0..N /\ r.at - 1 \in 0..N
  BY DEF Runs, Files
<1>3. CASE r.back
  <2>1. /\ [r EXCEPT !.failed = r.failed \cup {r.at}] \in Runs
        /\ [r EXCEPT !.failed = r.failed \cup {r.at}].back
    BY <1>3 DEF Runs
  <2> QED BY <1>1, <1>2, <1>3, <2>1 DEF Failed
<1>4. CASE ~r.back
  <2>1. /\ [r EXCEPT !.back = TRUE] \in Runs
        /\ [r EXCEPT !.back = TRUE].back
    BY DEF Runs
  <2> QED BY <1>1, <1>2, <1>4, <2>1 DEF Failed, FirstUndone
<1> QED BY <1>3, <1>4

\* A failing call changes no file.
LEMMA FailedStep ==
  ASSUME IInv, run.pc \in Changing, UNCHANGED report, Quiet(Failed(run))
  PROVE  IInv'
<1>1. run \in Runs /\ disk \in [Files -> Contents] /\ Progress(disk, run)
  BY DEF IInv, TypeOK
<1>2. Failed(run) \in Runs
  BY <1>1, OperatorTypes
<1>3. Progress(disk, Failed(run)) /\ RenameSynced(Failed(run))
  BY <1>1, FailedProgress
<1>4. Flushed(survives, Failed(run)) /\ Failed(run).pc # "idle"
  BY <1>1, FailedFlushed
<1> QED BY <1>2, <1>3, <1>4, QuietStep

LEMMA BeginStep ==
  ASSUME IInv, NEW write \in BOOLEAN, Begin(write)
  PROVE  IInv'
<1> DEFINE r == [Goto(Idle, "read") EXCEPT !.write = write, !.base = disk]
<1>1. /\ r \in Runs /\ r.pc = "read" /\ r.base = disk /\ r.late = {}
      /\ ~r.back /\ r.failed = {}
  <2> DEFINE q == Goto(Idle, "read")
  <2>1. q \in Runs
    BY IdleType, OperatorTypes DEF Steps
  <2>2. q.pc = "read" /\ q.late = {} /\ ~q.back /\ q.failed = {}
    BY DEF Goto, Idle
  <2>3. disk \in [Files -> Contents]
    BY DEF IInv, TypeOK
  <2>4. r = [q EXCEPT !.write = write, !.base = disk]
    OBVIOUS
  <2> HIDE DEF q, r
  <2> QED BY <2>1, <2>2, <2>3, <2>4 DEF Runs
<1>2. Progress(disk, r) /\ RenameSynced(r) /\ Flushed(survives, r)
  BY <1>1
  DEF Progress, Looking, Writing, Undoing, Ended, Untouched, Changing, Storing,
      RenameSynced, Flushed
<1>3. Quiet(r) /\ UNCHANGED report
  BY DEF Begin, At
<1> QED BY <1>1, <1>2, <1>3, QuietStep

\* The two loops that only look share their ways to end.
LEMMA RefuseStep ==
  ASSUME IInv, run.pc \in {"read", "check"}, UNCHANGED report,
         Quiet(Finish(run, "refused"))
  PROVE  IInv'
<1> DEFINE r == Finish(run, "refused")
<1>1. run \in Runs /\ Looking(disk, run)
  BY DEF IInv, TypeOK, Progress
<1>2. /\ r \in Runs /\ r.pc = "done" /\ r.outcome = "refused"
      /\ r.base = run.base /\ r.late = run.late /\ r.failed = {}
  BY <1>1 DEF Finish, Runs, Steps, Outcomes, Looking
<1>3. Progress(disk, r) /\ RenameSynced(r) /\ Flushed(survives, r)
  BY <1>1, <1>2
  DEF Progress, Looking, Writing, Undoing, Ended, Untouched, Changing, Storing,
      RenameSynced, Flushed
<1> QED BY <1>2, <1>3, QuietStep

LEMMA ReadStep ==
  ASSUME IInv, Read
  PROVE  IInv'
<1>1. /\ run \in Runs /\ run.pc = "read" /\ Looking(disk, run)
      /\ UNCHANGED report
  BY DEF IInv, TypeOK, Progress, Read, At
<1>2. CASE Quiet(Finish(run, "refused"))
  BY <1>1, <1>2, RefuseStep
<1>3. CASE run.at = N /\ Quiet(ReadAll(run))
  <2>1. CASE run.write
    <3> DEFINE r == ReadAll(run)
    <3>1. /\ r \in Runs /\ r.pc = "check" /\ r.at = 1
          /\ r.base = run.base /\ r.late = run.late
          /\ r.back = run.back /\ r.failed = run.failed
      BY <1>1, <2>1, OperatorTypes DEF ReadAll, Runs
    <3>2. Progress(disk, r) /\ RenameSynced(r) /\ Flushed(survives, r)
      BY <1>1, <3>1
      DEF Progress, Looking, Writing, Undoing, Ended, Untouched, Changing,
          Storing, RenameSynced, Flushed, Files
    <3> QED BY <1>1, <1>3, <3>1, <3>2, QuietStep
  <2>2. CASE ~run.write
    BY <1>1, <1>3, <2>2, RefuseStep DEF ReadAll
  <2> QED BY <2>1, <2>2
<1>4. CASE run.at # N /\ Quiet([run EXCEPT !.at = run.at + 1])
  <2> DEFINE r == [run EXCEPT !.at = run.at + 1]
  <2>1. run.at + 1 \in Files
    BY <1>1, <1>4 DEF Runs, Files
  <2>2. /\ r \in Runs /\ r.pc = "read"
        /\ r.base = run.base /\ r.late = run.late
        /\ r.back = run.back /\ r.failed = run.failed
    BY <1>1, <2>1 DEF Runs
  <2>3. Progress(disk, r) /\ RenameSynced(r) /\ Flushed(survives, r)
    BY <1>1, <2>2
    DEF Progress, Looking, Writing, Undoing, Ended, Untouched, Changing,
        Storing, RenameSynced, Flushed
  <2> QED BY <1>1, <1>4, <2>2, <2>3, QuietStep
<1> QED BY <1>2, <1>3, <1>4 DEF Read

LEMMA CheckStep ==
  ASSUME IInv, Check
  PROVE  IInv'
<1>1. /\ run \in Runs /\ run.pc = "check" /\ Looking(disk, run)
      /\ UNCHANGED report
  BY DEF IInv, TypeOK, Progress, Check, At
<1>2. CASE Quiet(Finish(run, "refused"))
  BY <1>1, <1>2, RefuseStep
<1> SUFFICES ASSUME disk[run.at] = Source[run.at],
                    Quiet(IF run.at = N
                          THEN [run EXCEPT !.pc = "stage", !.at = 1, !.synced = FALSE]
                          ELSE [run EXCEPT !.at = run.at + 1])
             PROVE  IInv'
  BY <1>2 DEF Check
<1>3. \A i \in Files : i <= run.at => Known(run, i)
  <2>1. run.base[run.at] = Source[run.at]
    BY <1>1 DEF Looking, Untouched, Runs
  <2> QED BY <1>1, <2>1 DEF Looking, Known, Runs, Files
<1>4. CASE run.at = N
  <2> DEFINE r == [run EXCEPT !.pc = "stage", !.at = 1, !.synced = FALSE]
  <2>1. 1 \in Files
    BY DEF Files
  <2>2. /\ r \in Runs /\ r.pc = "stage" /\ r.at = 1
        /\ r.base = run.base /\ r.late = run.late
        /\ r.back = run.back /\ r.failed = run.failed
    BY <1>1, <2>1 DEF Runs, Steps
  <2>3. Progress(disk, r) /\ RenameSynced(r) /\ Flushed(survives, r)
    BY <1>1, <1>3, <1>4, <2>2
    DEF Progress, Looking, Writing, Undoing, Ended, Untouched, Known, Changing,
        Storing, RenameSynced, Flushed, Files
  <2> QED BY <1>1, <1>4, <2>2, <2>3, QuietStep
<1>5. CASE run.at # N
  <2> DEFINE r == [run EXCEPT !.at = run.at + 1]
  <2>1. run.at + 1 \in Files
    BY <1>1, <1>5 DEF Runs, Files
  <2>2. /\ r \in Runs /\ r.pc = "check" /\ r.at = run.at + 1
        /\ r.base = run.base /\ r.late = run.late
        /\ r.back = run.back /\ r.failed = run.failed
    BY <1>1, <2>1 DEF Runs
  <2>3. Progress(disk, r) /\ RenameSynced(r) /\ Flushed(survives, r)
    BY <1>1, <1>3, <2>2
    DEF Progress, Looking, Writing, Undoing, Ended, Untouched, Known, Changing,
        Storing, RenameSynced, Flushed, Files, Runs
  <2> QED BY <1>1, <1>5, <2>2, <2>3, QuietStep
<1> QED BY <1>4, <1>5

LEMMA StageStep ==
  ASSUME IInv, Stage
  PROVE  IInv'
<1>1. run \in Runs /\ run.pc = "stage" /\ UNCHANGED report
  BY DEF IInv, TypeOK, Stage, At
<1>2. CASE Quiet(Failed(run))
  BY <1>1, <1>2, FailedStep DEF Changing, Storing
<1>3. CASE Quiet(Staged(run))
  <2> DEFINE r == Staged(run)
  <2>1. /\ r \in Runs /\ r.pc = "sync" /\ r.at = run.at
        /\ r.base = run.base /\ r.late = run.late
        /\ r.back = run.back /\ r.failed = run.failed
    BY <1>1 DEF Staged, Goto, Runs, Steps
  <2>2. Progress(disk, r) /\ RenameSynced(r) /\ Flushed(survives, r)
    BY <1>1, <2>1
    DEF IInv, Progress, Looking, Writing, Undoing, UndoingAt, Ended, Left,
        Written, Undone, Untouched, Known, Changing, Storing, RenameSynced, Flushed
  <2> QED BY <1>1, <1>3, <2>1, <2>2, QuietStep
<1> QED BY <1>2, <1>3 DEF Stage

LEMMA SyncStep ==
  ASSUME IInv, Sync
  PROVE  IInv'
<1>1. run \in Runs /\ run.pc = "sync" /\ UNCHANGED report
  BY DEF IInv, TypeOK, Sync, At
<1>2. CASE Quiet(Failed(run))
  BY <1>1, <1>2, FailedStep DEF Changing, Storing
<1>3. CASE Quiet([Goto(run, "rename") EXCEPT !.synced = TRUE])
  <2> DEFINE r == [Goto(run, "rename") EXCEPT !.synced = TRUE]
  <2>1. /\ r \in Runs /\ r.pc = "rename" /\ r.at = run.at /\ r.synced
        /\ r.base = run.base /\ r.late = run.late
        /\ r.back = run.back /\ r.failed = run.failed
    BY <1>1 DEF Goto, Runs, Steps
  <2>2. Progress(disk, r) /\ RenameSynced(r) /\ Flushed(survives, r)
    BY <1>1, <2>1
    DEF IInv, Progress, Looking, Writing, Undoing, UndoingAt, Ended, Left,
        Written, Undone, Untouched, Known, Changing, Storing, RenameSynced, Flushed
  <2> QED BY <1>1, <1>3, <2>1, <2>2, QuietStep
<1> QED BY <1>2, <1>3 DEF Sync

LEMMA RenameStep ==
  ASSUME IInv, Rename
  PROVE  IInv'
<1>1. /\ run \in Runs /\ run.pc = "rename" /\ run.synced /\ UNCHANGED report
      /\ run.at \in Files /\ disk \in [Files -> Contents]
      /\ survives \in [Files -> SUBSET (Contents \cup {"torn"})]
  BY DEF IInv, TypeOK, Rename, At, RenameSynced, Runs
<1>2. CASE Quiet(Failed(run))
  BY <1>1, <1>2, FailedStep DEF Changing, Storing
<1>3. CASE /\ disk' = [disk EXCEPT ![run.at] = Payload(run)]
           /\ survives' = [survives EXCEPT ![run.at] =
                             @ \cup IF run.synced THEN {Payload(run)} ELSE {"torn"}]
           /\ run' = Goto(run, "flush")
  <2>1. /\ run' \in Runs /\ run'.pc = "flush" /\ run'.at = run.at
        /\ run'.base = run.base /\ run'.late = run.late
        /\ run'.back = run.back /\ run'.failed = run.failed
    BY <1>1, <1>3 DEF Goto, Runs, Steps
  <2>2. Payload(run) \in Contents /\ Payload(run) # "torn"
    BY DEF Payload, Contents
  <2>3. TypeOK' /\ FilesWhole' /\ IdleClean' /\ RenameSynced(run)'
    BY <1>1, <1>3, <2>1, <2>2
    DEF IInv, TypeOK, FilesWhole, IdleClean, RenameSynced
  <2>4. Flushed(survives, run)'
    BY <1>1, <1>3, <2>1 DEF IInv, Flushed, Storing, Files
  <2>5. \A i \in Files : disk'[i] = IF i = run.at THEN Payload(run) ELSE disk[i]
    BY <1>1, <1>3
  <2>6. CASE run.back
    <3>1. UndoingAt(disk, run, run.at) /\ run.at \notin Created
      BY <1>1, <2>6 DEF IInv, Progress, Undoing, Changing, Storing
    <3>2. disk'[run.at] = Source[run.at]
      BY <1>1, <2>5, <2>6, <3>1 DEF Payload, Source
    <3>3. UndoingAt(disk', run', run'.at) /\ Undone(disk', run', run'.at)
      BY <1>1, <2>1, <2>5, <3>1, <3>2
      DEF UndoingAt, Left, Written, Undone, Untouched, Known, Files
    <3>4. Progress(disk', run')
      BY <2>1, <2>6, <3>1, <3>3
      DEF Progress, Looking, Writing, Undoing, Ended, Changing, Storing
    <3> QED BY <2>3, <2>4, <3>4 DEF IInv
  <2>7. CASE ~run.back
    <3>1. Writing(disk', run')
      BY <1>1, <2>1, <2>5, <2>7
      DEF IInv, Progress, Writing, Payload, Written, Untouched, Known, Changing,
          Storing, Files
    <3>2. Progress(disk', run')
      BY <2>1, <2>7, <3>1
      DEF Progress, Looking, Undoing, Ended, Changing, Storing
    <3> QED BY <2>3, <2>4, <3>2 DEF IInv
  <2> QED BY <2>6, <2>7
<1> QED BY <1>2, <1>3 DEF Rename

LEMMA FlushStep ==
  ASSUME IInv, Flush
  PROVE  IInv'
<1>1. /\ run \in Runs /\ run.pc = "flush" /\ UNCHANGED report
      /\ run.at \in Files /\ disk \in [Files -> Contents]
      /\ survives \in [Files -> SUBSET (Contents \cup {"torn"})]
      /\ Progress(disk, run)
  BY DEF IInv, TypeOK, Flush, At, Runs
<1>2. CASE Quiet(Failed(run))
  BY <1>1, <1>2, FailedStep DEF Changing, Storing
<1>3. CASE survives' = FlushedFor(run.at) /\ run' = Stored(run) /\ UNCHANGED disk
  <2>1. Stored(run) \in Runs
    BY <1>1, OperatorTypes
  <2>2. Progress(disk, Stored(run)) /\ RenameSynced(Stored(run))
    BY <1>1, StoredProgress
  <2>3. Progress(disk, run)' /\ RenameSynced(run)'
    BY <1>3, <2>2
    DEF Progress, Looking, Writing, Undoing, UndoingAt, Ended, Left, Written,
        Undone, Untouched, Known, RenameSynced
  <2>4. /\ \A i \in Files : survives'[i] \in {survives[i], {disk[i]}}
        /\ \A i \in Files : i # run.at => survives'[i] = survives[i]
        /\ SyncsDirectory => survives'[run.at] = {disk[run.at]}
    BY <1>1, <1>3 DEF FlushedFor
  <2>5. TypeOK'
    <3>1. survives' \in [Files -> SUBSET (Contents \cup {"torn"})]
      BY <1>1, <1>3 DEF FlushedFor
    <3> QED BY <1>1, <1>3, <2>1, <3>1 DEF IInv, TypeOK
  <2>8. FilesWhole'
    <3>1. \A i \in Files : disk[i] # "torn"
      BY <1>1 DEF Contents
    <3> QED BY <2>4, <3>1 DEF IInv, FilesWhole
  <2>6. CASE run.back
    <3>1. run.at - 1 \in 0..N
      BY <1>1 DEF Files
    <3>2. Stored(run).pc # "idle" /\ Flushed(survives', Stored(run))
      <4>1. Undo(run, run.at - 1).back
        BY <1>1, <2>6 DEF Undo, Finish, Runs
      <4>2. /\ Undo(run, run.at - 1).pc = "done"
                => Undo(run, run.at - 1).outcome # "written"
            /\ Undo(run, run.at - 1).pc # "idle"
        BY <1>1 DEF Undo, Finish, Runs
      <4> QED BY <2>6, <4>1, <4>2 DEF Stored, Flushed
    <3>3. IdleClean' /\ Flushed(survives, run)'
      BY <1>3, <3>2 DEF IdleClean, Flushed
    <3> QED BY <2>3, <2>5, <2>8, <3>3 DEF IInv
  <2>7. CASE ~run.back
    <3> DEFINE w == WriteNext(run)
    <3>1. /\ w.late = run.late /\ w.back = run.back /\ w.pc # "idle"
          /\ w.pc \in Storing => w.at = run.at + 1
          /\ w.pc = "done" => run.at = N
      BY <1>1 DEF WriteNext, Finish, Runs, Storing
    <3>2. \A i \in Files \ run.late :
            SyncsDirectory /\ i <= run.at => survives'[i] = {"after"}
      <4>1. \A i \in Files \ run.late :
              SyncsDirectory /\ i < run.at => survives[i] = {"after"}
        BY <1>1, <2>7 DEF IInv, Flushed, Storing
      <4>2. run.at \notin run.late => disk[run.at] = "after"
        BY <1>1, <2>7 DEF Progress, Writing, Written, Changing, Storing
      <4>3. SUFFICES ASSUME NEW i \in Files \ run.late, SyncsDirectory, i <= run.at
                     PROVE  survives'[i] = {"after"}
        OBVIOUS
      <4>4. CASE i = run.at
        BY <2>4, <4>2, <4>3, <4>4
      <4>5. CASE i # run.at
        <5>1. i < run.at
          BY <1>1, <4>3, <4>5 DEF Files
        <5> QED BY <2>4, <4>1, <4>3, <4>5, <5>1
      <4> QED BY <4>4, <4>5
    <3>3. Flushed(survives', w)
      BY <1>1, <3>1, <3>2 DEF Flushed, Files
    <3>4. Stored(run) = w
      BY <2>7 DEF Stored
    <3>5. IdleClean' /\ Flushed(survives, run)'
      BY <1>3, <3>1, <3>3, <3>4 DEF IdleClean, Flushed
    <3> QED BY <2>3, <2>5, <2>8, <3>5 DEF IInv
  <2> QED BY <2>6, <2>7
<1> QED BY <1>2, <1>3 DEF Flush

LEMMA RemoveStep ==
  ASSUME IInv, Remove
  PROVE  IInv'
<1>1. /\ run \in Runs /\ run.pc = "remove" /\ UNCHANGED report
      /\ run.at \in Files /\ disk \in [Files -> Contents]
      /\ survives \in [Files -> SUBSET (Contents \cup {"torn"})]
      /\ run.at - 1 \in 0..N
  BY DEF IInv, TypeOK, Remove, At, Runs, Files
<1>2. run.back /\ run.at \in Created /\ UndoingAt(disk, run, run.at)
  BY <1>1 DEF IInv, Progress, Writing, Undoing, Changing
<1>3. CASE Quiet(Failed(run))
  BY <1>1, <1>3, FailedStep DEF Changing
<1>4. CASE /\ disk' = [disk EXCEPT ![run.at] = "absent"]
           /\ survives' = [survives EXCEPT ![run.at] = @ \cup {"absent"}]
           /\ run' = Undo(run, run.at - 1)
  <2>1. run' \in Runs
    BY <1>1, <1>4, OperatorTypes
  <2>2. /\ disk' \in [Files -> Contents]
        /\ survives' \in [Files -> SUBSET (Contents \cup {"torn"})]
        /\ \A i \in Files : i # run.at => disk'[i] = disk[i]
        /\ disk'[run.at] = "absent"
        /\ \A i \in Files : survives'[i] \subseteq survives[i] \cup {"absent"}
    BY <1>1, <1>4 DEF Contents
  <2>3. UndoingAt(disk', run, run.at - 1)
    <3>1. Undone(disk', run, run.at)
      BY <1>1, <1>2, <2>2 DEF UndoingAt, Known, Undone, Untouched, Source
    <3> QED
      BY <1>1, <1>2, <2>2, <3>1
      DEF UndoingAt, Left, Written, Undone, Untouched, Known, Files
  <2>4. \A i \in Files : Known(run, i)
    BY <1>2 DEF UndoingAt
  <2>5. Progress(disk', run') /\ RenameSynced(run')
    BY <1>1, <1>2, <1>4, <2>2, <2>3, <2>4, UndoProgress
  <2>6. run'.pc # "idle" /\ Flushed(survives', run')
    <3>1. run'.back
      BY <1>1, <1>2, <1>4 DEF Undo, Finish, Runs
    <3>2. /\ run'.pc = "done" => run'.outcome # "written"
          /\ run'.pc # "idle"
      BY <1>1, <1>4 DEF Undo, Finish, Runs
    <3> QED BY <3>1, <3>2 DEF Flushed
  <2>7. TypeOK' /\ FilesWhole' /\ IdleClean'
    BY <1>1, <2>1, <2>2, <2>6 DEF IInv, TypeOK, FilesWhole, IdleClean
  <2> QED BY <2>5, <2>6, <2>7 DEF IInv
<1> QED BY <1>3, <1>4 DEF Remove

\* Return and Crash leave an idle run.
LEMMA StopStep ==
  ASSUME IInv, Quiet(Idle), report' \in Outcomes
  PROVE  IInv'
<1>1. /\ run' = Idle /\ run' \in Runs /\ run'.pc = "idle"
      /\ disk' = disk /\ survives' = survives
  BY IdleType DEF Quiet, Idle
<1>2. TypeOK' /\ FilesWhole' /\ IdleClean'
  BY <1>1 DEF IInv, TypeOK, FilesWhole, IdleClean
<1>3. Progress(disk, run)' /\ Flushed(survives, run)' /\ RenameSynced(run)'
  BY <1>1
  DEF Progress, Looking, Writing, Undoing, Ended, Flushed, RenameSynced,
      Changing, Storing
<1> QED BY <1>2, <1>3 DEF IInv

\* An edit during a run makes its file untouched, and late once it is known.
LEMMA EditStep ==
  ASSUME IInv, NEW f \in Files, Edit(f)
  PROVE  IInv'
<1>1. PICK c \in {"edited", "absent", Source[f]} \ {disk[f]} :
        /\ disk' = [disk EXCEPT ![f] = c]
        /\ survives' = [survives EXCEPT ![f] = {c}]
        /\ run' = IF run.pc = "idle" THEN run
                  ELSE [run EXCEPT !.base[f] = c,
                                   !.late = IF LastLookAt(f) THEN @ \cup {f} ELSE @]
  BY DEF Edit
<1>2. /\ run \in Runs /\ disk \in [Files -> Contents] /\ UNCHANGED report
      /\ survives \in [Files -> SUBSET (Contents \cup {"torn"})]
  BY DEF IInv, TypeOK, Edit
<1>3. c \in Contents /\ c # "torn"
  BY SourceType DEF Contents
<1>4. /\ disk' \in [Files -> Contents] /\ disk'[f] = c
      /\ \A i \in Files : i # f => disk'[i] = disk[i] /\ survives'[i] = survives[i]
      /\ survives' \in [Files -> SUBSET (Contents \cup {"torn"})]
      /\ survives'[f] = {c}
  BY <1>1, <1>2, <1>3
<1>5. CASE run.pc = "idle"
  <2>1. run' = run
    BY <1>1, <1>5
  <2>2. TypeOK' /\ FilesWhole' /\ IdleClean' /\ RenameSynced(run)'
    BY <1>2, <1>3, <1>4, <2>1
    DEF IInv, TypeOK, FilesWhole, IdleClean, RenameSynced
  <2>3. Progress(disk, run)' /\ Flushed(survives, run)'
    BY <1>5, <2>1
    DEF Progress, Looking, Writing, Undoing, Ended, Flushed, Changing, Storing
  <2> QED BY <2>2, <2>3 DEF IInv
<1>6. CASE run.pc # "idle"
  <2> DEFINE late == IF LastLookAt(f) THEN run.late \cup {f} ELSE run.late
  <2>1. late \in SUBSET Files /\ run.base \in [Files -> Contents]
    BY <1>2 DEF Runs
  <2>2. run' = [run EXCEPT !.base[f] = c, !.late = late]
    BY <1>1, <1>6
  <2>3. /\ run' \in Runs /\ run'.pc = run.pc /\ run'.at = run.at
        /\ run'.back = run.back /\ run'.failed = run.failed
        /\ run'.synced = run.synced /\ run'.outcome = run.outcome
        /\ run'.base[f] = c /\ run'.late = late
        /\ \A i \in Files : i # f => run'.base[i] = run.base[i]
    <3> HIDE DEF late
    <3> QED BY <1>2, <1>3, <2>1, <2>2 DEF Runs
  <2>4. TypeOK' /\ FilesWhole' /\ IdleClean' /\ RenameSynced(run)'
    BY <1>2, <1>3, <1>4, <1>6, <2>3
    DEF IInv, TypeOK, FilesWhole, IdleClean, RenameSynced
  <2>5. /\ Untouched(disk', run', f)
        /\ \A i \in Files \ {f} :
             /\ Untouched(disk', run', i) <=> Untouched(disk, run, i)
             /\ i \in run'.late <=> i \in run.late
             /\ Known(run', i) <=> Known(run, i)
             /\ Written(disk', run', i) <=> Written(disk, run, i)
             /\ Undone(disk', run', i) <=> Undone(disk, run, i)
             /\ Left(disk', run', i) <=> Left(disk, run, i)
    BY <1>4, <2>3 DEF Untouched, Known, Written, Undone, Left
  <2>6. LastLookAt(f) =>
          /\ f \in run'.late /\ Known(run', f) /\ Written(disk', run', f)
          /\ Undone(disk', run', f) /\ Left(disk', run', f)
    BY <2>3, <2>5 DEF Known, Written, Undone, Left
  <2>7. CASE run.pc = "read"
    <3>1. Looking(disk', run')
      BY <2>3, <2>5, <2>7 DEF IInv, Progress, Looking
    <3> QED
      BY <2>3, <2>4, <2>7, <3>1
      DEF IInv, Progress, Writing, Undoing, Ended, Flushed, Changing, Storing
  <2>8. CASE run.pc = "check"
    <3>1. f < run.at => LastLookAt(f)
      BY <2>8 DEF LastLookAt
    <3>2. Looking(disk', run')
      BY <2>3, <2>5, <2>6, <2>8, <3>1 DEF IInv, Progress, Looking
    <3> QED
      BY <2>3, <2>4, <2>8, <3>2
      DEF IInv, Progress, Writing, Undoing, Ended, Flushed, Changing, Storing
  <2>9. CASE run.pc \notin {"read", "check"}
    <3>1. LastLookAt(f)
      BY <1>6, <2>9 DEF LastLookAt
    <3>2. Looking(disk', run')
      BY <2>3, <2>9 DEF Looking
    <3>3. Writing(disk', run')
      BY <2>3, <2>5, <2>6, <3>1 DEF IInv, Progress, Writing
    <3>4. Undoing(disk', run')
      <4>1. UndoingAt(disk, run, run.at) => UndoingAt(disk', run', run.at)
        BY <2>5, <2>6, <3>1 DEF UndoingAt
      <4>2. Undone(disk, run, run.at) => Undone(disk', run', run.at)
        BY <1>2, <2>5, <2>6, <3>1 DEF Runs
      <4> QED BY <2>3, <4>1, <4>2 DEF IInv, Progress, Undoing
    <3>5. Ended(disk', run')
      BY <2>3, <2>5, <2>6, <3>1 DEF IInv, Progress, Ended
    <3>6. Flushed(survives', run')
      BY <1>4, <2>3, <2>5, <2>6, <3>1 DEF IInv, Flushed
    <3> QED BY <2>4, <3>2, <3>3, <3>4, <3>5, <3>6 DEF IInv, Progress
  <2> QED BY <2>7, <2>8, <2>9
<1> QED BY <1>5, <1>6

-----------------------------------------------------------------------------
(* The theorems *)

\* Init establishes the invariant, and every step preserves it.
LEMMA InitInvariant == Init => IInv
<1> SUFFICES ASSUME Init PROVE IInv
  OBVIOUS
<1>1. run = Idle /\ run.pc = "idle" /\ run \in Runs
  BY IdleType DEF Init, Idle
<1>2. TypeOK /\ FilesWhole
  BY <1>1 DEF Init, TypeOK, FilesWhole, Contents
<1>3. Progress(disk, run) /\ Flushed(survives, run) /\ RenameSynced(run)
  BY <1>1
  DEF Progress, Looking, Writing, Undoing, Ended, Flushed, RenameSynced,
      Changing, Storing
<1> QED BY <1>1, <1>2, <1>3 DEF IInv, IdleClean

LEMMA NextInvariant == IInv /\ [Next]_vars => IInv'
<1> SUFFICES ASSUME IInv, [Next]_vars PROVE IInv'
  OBVIOUS
<1>1. ASSUME NEW write \in BOOLEAN, Begin(write) PROVE IInv'
  BY <1>1, BeginStep
<1>2. CASE Read BY <1>2, ReadStep
<1>3. CASE Check BY <1>3, CheckStep
<1>4. CASE Stage BY <1>4, StageStep
<1>5. CASE Sync BY <1>5, SyncStep
<1>6. CASE Rename BY <1>6, RenameStep
<1>7. CASE Flush BY <1>7, FlushStep
<1>8. CASE Remove BY <1>8, RemoveStep
<1>9. CASE Return
  <2>1. report' \in Outcomes
    BY <1>9 DEF Return, IInv, TypeOK, Runs
  <2> QED BY <1>9, <2>1, StopStep DEF Return
<1>10. CASE Crash
  BY <1>10, StopStep DEF Crash, Outcomes
<1>11. ASSUME NEW i \in Files, Edit(i) PROVE IInv'
  BY <1>11, EditStep
<1>12. CASE UNCHANGED vars
  BY <1>12
  DEF vars, IInv, TypeOK, FilesWhole, IdleClean, RenameSynced, Progress, Looking,
      Writing, Undoing, UndoingAt, Ended, Left, Written, Undone, Untouched,
      Known, Flushed
<1> QED
  BY <1>1, <1>2, <1>3, <1>4, <1>5, <1>6, <1>7, <1>8, <1>9, <1>10, <1>11, <1>12
  DEF Next

\* IInv holds in every state of every behaviour.
THEOREM Invariance == Spec => []IInv
  BY InitInvariant, NextInvariant, PTL DEF Spec

\* Every state is well typed.
THEOREM TypeCorrect == Spec => []TypeOK
<1>1. IInv => TypeOK
  BY DEF IInv
<1> QED BY <1>1, Invariance, PTL

\* Whenever power is lost, every planned file has all its bytes: the temporary
\* file is flushed before it is renamed.
THEOREM Whole == Spec => []FilesWhole
<1>1. IInv => FilesWhole
  BY DEF IInv
<1> QED BY <1>1, Invariance, PTL

\* A success reported on Unix survives a loss of power.
THEOREM Durable == Spec => []SuccessDurable
<1>1. IInv => SuccessDurable
  BY DEF IInv, Flushed, SuccessDurable
<1> QED BY <1>1, Invariance, PTL

\* Whichever calls fail, the report says truly which files are written, which
\* are as they were, and which a failed rollback left changed.
THEOREM Honest == Spec => []ReportHonest
<1>1. IInv => ReportHonest
  BY DEF IInv, TypeOK, Runs, Outcomes, Progress, Ended, Left, Written, Undone,
         Untouched, ReportHonest
<1> QED BY <1>1, Invariance, PTL

\* A run replaces a file only as it expects it, or one edited too late to see.
THEOREM EditsSafe == Spec => OnlyLateEditsReplaced
<1> DEFINE Kept == \A i \in Files :
             \/ disk'[i] = disk[i]
             \/ disk[i] \in {Source[i]} \cup (IF run.back THEN {"after"} ELSE {})
             \/ i \in run.late
<1>1. IInv /\ [Next]_vars => [Edits \/ Kept]_vars
  <2> SUFFICES ASSUME IInv, Next PROVE Edits \/ Kept
    OBVIOUS
  <2>1. run \in Runs /\ run.at \in Files /\ disk \in [Files -> Contents]
    BY DEF IInv, TypeOK, Runs
  <2>2. CASE UNCHANGED disk
    BY <2>2
  <2>3. CASE Rename /\ disk' = [disk EXCEPT ![run.at] = Payload(run)]
    <3>1. CASE run.back
      BY <2>1, <2>3, <3>1
      DEF Rename, At, IInv, Progress, Undoing, UndoingAt, Undone, Written,
          Untouched, Known, Changing, Storing
    <3>2. CASE ~run.back
      BY <2>1, <2>3, <3>2
      DEF Rename, At, IInv, Progress, Writing, Untouched, Known, Changing, Storing
    <3> QED BY <3>1, <3>2
  <2>4. CASE Remove /\ disk' = [disk EXCEPT ![run.at] = "absent"]
    <3>1. run.back
      BY <2>4 DEF Remove, At, IInv, Progress, Writing, Changing
    <3> QED
      BY <2>1, <2>4, <3>1
      DEF Remove, At, IInv, Progress, Undoing, UndoingAt, Undone, Written,
          Untouched, Known, Changing
  <2>5. CASE \E i \in Files : Edit(i)
    BY <2>5 DEF Edits
  <2> QED
    BY <2>2, <2>3, <2>4, <2>5
    DEF Next, Begin, Read, Check, Stage, Sync, Rename, Flush, Remove, Return,
        Crash, Quiet
<1>2. Spec => [][Edits \/ Kept]_vars
  BY <1>1, Invariance, PTL DEF Spec
<1> QED BY <1>2 DEF OnlyLateEditsReplaced

-----------------------------------------------------------------------------
(* Refinement *)

\* What a run that may end has done, seen as one step of AllOrNothing.
LEMMA StepRefines ==
  ASSUME IInv, [Next]_vars
  PROVE  [Promise!Next]_(Promise!vars)
<1>1. /\ run \in Runs /\ disk \in [Files -> Contents]
      /\ report \in Outcomes \cup {"none"} /\ Progress(disk, run)
      /\ run.pc = "idle" => run = Idle
  BY DEF IInv, TypeOK, IdleClean
<1>2. ASSUME run.pc # "idle", run'.pc # "idle",
             run'.base = run.base, run'.late = run.late
      PROVE  UNCHANGED Promise!vars
  BY <1>2 DEF Promise!vars
<1>3. ASSUME NEW write \in BOOLEAN, Begin(write)
      PROVE  Promise!Begin
  <2>1. /\ run.pc = "idle" /\ run.late = {} /\ report # "applying"
    BY <1>1, <1>3 DEF Begin, At, Idle, Outcomes
  <2>2. run'.pc = "read" /\ run'.base = disk /\ run'.late = {}
    BY <1>3 DEF Begin, Quiet, Goto, Idle
  <2> QED BY <2>1, <2>2 DEF Promise!Begin
<1>4. CASE Read \/ Check \/ Stage \/ Sync \/ Rename \/ Flush \/ Remove
  <2>1. run.pc # "idle"
    BY <1>4 DEF Read, Check, Stage, Sync, Rename, Flush, Remove, At
  <2>2. \A q \in Runs : \A k \in 0..N :
          /\ Undo(q, k).pc # "idle"
          /\ Undo(q, k).base = q.base /\ Undo(q, k).late = q.late
    BY DEF Undo, Finish, Runs
  <2>3. run.at - 1 \in 0..N /\ run.at \in 0..N
    BY <1>1 DEF Runs, Files
  <2>4. /\ Failed(run).pc # "idle"
        /\ Failed(run).base = run.base /\ Failed(run).late = run.late
    <3>1. /\ [run EXCEPT !.failed = run.failed \cup {run.at}] \in Runs
          /\ [run EXCEPT !.failed = run.failed \cup {run.at}].base = run.base
          /\ [run EXCEPT !.failed = run.failed \cup {run.at}].late = run.late
      BY <1>1 DEF Runs
    <3>2. /\ [run EXCEPT !.back = TRUE] \in Runs
          /\ [run EXCEPT !.back = TRUE].base = run.base
          /\ [run EXCEPT !.back = TRUE].late = run.late
      BY <1>1 DEF Runs
    <3> QED BY <2>2, <2>3, <3>1, <3>2 DEF Failed, FirstUndone
  <2>5. /\ Stored(run).pc # "idle"
        /\ Stored(run).base = run.base /\ Stored(run).late = run.late
    <3>1. /\ WriteNext(run).pc # "idle"
          /\ WriteNext(run).base = run.base /\ WriteNext(run).late = run.late
      BY <1>1 DEF WriteNext, Finish, Runs
    <3> QED BY <1>1, <2>2, <2>3, <3>1 DEF Stored
  <2>6. run'.pc # "idle" /\ run'.base = run.base /\ run'.late = run.late
    <3>1. CASE run' = Failed(run) \/ run' = Stored(run) \/ run' = Undo(run, run.at - 1)
      BY <1>1, <2>2, <2>3, <2>4, <2>5, <3>1
    <3>2. CASE run' = Finish(run, "refused")
      BY <1>1, <3>2 DEF Finish, Runs
    <3>3. CASE run' = ReadAll(run)
      BY <1>1, <3>3 DEF ReadAll, Finish, Runs
    <3>4. CASE run' = [run EXCEPT !.at = run.at + 1]
      BY <1>1, <2>1, <3>4 DEF Runs
    <3>5. CASE run' = [run EXCEPT !.pc = "stage", !.at = 1, !.synced = FALSE]
      BY <1>1, <3>5 DEF Runs
    <3>6. CASE \/ run' = Staged(run) \/ run' = Goto(run, "flush")
               \/ run' = [Goto(run, "rename") EXCEPT !.synced = TRUE]
      BY <1>1, <3>6 DEF Staged, Goto, Runs
    <3> QED
      BY <1>4, <3>1, <3>2, <3>3, <3>4, <3>5, <3>6
      DEF Read, Check, Stage, Sync, Rename, Flush, Remove, Quiet
  <2> QED BY <1>2, <2>1, <2>6
\* The facts about each file that Return and Crash report.
<1>5. ASSUME run.pc # "idle", run' = Idle, UNCHANGED disk, report' \in Outcomes
      PROVE  /\ Promise!End(report')
             /\ \A i \in Files : Untouched(disk, run, i) => disk'[i] = run.base[i]
  BY <1>5 DEF Promise!End, Idle, Untouched
<1> DEFINE files == IF run.pc = "idle" THEN disk ELSE run.base
<1>6. ASSUME run.pc # "idle", run' = Idle, UNCHANGED disk
      PROVE  files = run.base /\ files' = disk /\ files' \in [Files -> Contents]
  BY <1>1, <1>6 DEF Idle
<1>7. CASE Return
  <2>1. /\ run.pc = "done" /\ run' = Idle /\ UNCHANGED disk
        /\ report' = run.outcome /\ run.outcome \in Outcomes
    BY <1>1, <1>7 DEF Return, Quiet, Runs
  <2>2. Promise!End(report') /\ files = run.base /\ files' = disk
        /\ files' \in [Files -> Contents]
    BY <1>5, <1>6, <2>1
  <2>3. Ended(disk, run)
    BY <1>1 DEF Progress
  <2>4. CASE run.outcome = "written"
    <3>1. Promise!Write
      BY <1>1, <2>1, <2>2, <2>3, <2>4
      DEF Promise!Write, Promise!Fresh, Ended, Known, Written, Untouched
    <3> QED BY <3>1 DEF Promise!Next
  <2>5. CASE run.outcome = "refused"
    <3>1. disk = run.base
      BY <1>1, <2>1, <2>3, <2>5 DEF Ended, Untouched, Runs
    <3>2. Promise!Refuse
      BY <2>1, <2>2, <2>5, <3>1 DEF Promise!Refuse
    <3> QED BY <3>2 DEF Promise!Next
  <2>6. CASE run.outcome = "restored"
    <3>1. Promise!Restore
      BY <1>1, <2>1, <2>2, <2>3, <2>6
      DEF Promise!Restore, Promise!Fresh, Ended, Known, Undone, Untouched
    <3> QED BY <3>1 DEF Promise!Next
  <2>7. CASE run.outcome = "partial"
    <3>1. Promise!Break
      BY <1>1, <2>1, <2>2, <2>3, <2>7
      DEF Promise!Break, Promise!Fresh, Ended, Known, Left, Undone, Written,
          Untouched
    <3> QED BY <3>1 DEF Promise!Next
  <2> QED BY <2>1, <2>4, <2>5, <2>6, <2>7 DEF Outcomes
<1>8. CASE Crash
  <2>1. /\ run.pc # "idle" /\ run' = Idle /\ UNCHANGED disk
        /\ report' = "partial"
    BY <1>8 DEF Crash, Quiet
  <2>2. Promise!End("partial") /\ files = run.base /\ files' = disk
        /\ files' \in [Files -> Contents]
    BY <1>5, <1>6, <2>1 DEF Outcomes
  <2>3. CASE disk = run.base
    <3>1. Promise!Break
      BY <2>1, <2>2, <2>3 DEF Promise!Break
    <3> QED BY <3>1 DEF Promise!Next
  <2>4. CASE disk # run.base
    <3>1. \A i \in Files :
            /\ Known(run, i)
            /\ Undone(disk, run, i) \/ Written(disk, run, i)
      <4>1. CASE run.pc \in {"read", "check"}
        BY <1>1, <2>4, <4>1 DEF Progress, Looking, Untouched, Runs
      <4>2. CASE run.pc \in Changing /\ ~run.back
        <5>1. \A i \in Files : i < run.at \/ i = run.at \/ i > run.at
          BY <1>1 DEF Runs, Files
        <5> QED BY <1>1, <4>2, <5>1 DEF Progress, Writing, Undone, Written
      <4>3. CASE run.pc \in Changing /\ run.back
        <5>1. \A i \in Files : i < run.at \/ i = run.at \/ i > run.at
          BY <1>1 DEF Runs, Files
        <5> QED BY <1>1, <4>3, <5>1 DEF Progress, Undoing, UndoingAt, Left
      <4>4. CASE run.pc = "done"
        <5>1. run.outcome # "refused"
          BY <1>1, <2>4, <4>4 DEF Progress, Ended, Untouched, Runs
        <5> QED
          BY <1>1, <4>4, <5>1 DEF Progress, Ended, Left, Runs, Outcomes
      <4> QED BY <1>1, <2>1, <4>1, <4>2, <4>3, <4>4 DEF Runs, Steps, Changing, Storing
    <3>2. Promise!Break
      BY <1>1, <2>1, <2>2, <3>1
      DEF Promise!Break, Promise!Fresh, Known, Undone, Written, Untouched
    <3> QED BY <3>2 DEF Promise!Next
  <2> QED BY <2>3, <2>4
<1>9. ASSUME NEW f \in Files, Edit(f)
      PROVE  \E c \in Contents : Promise!Edit(f, c)
  <2>1. PICK c \in {"edited", "absent", Source[f]} \ {disk[f]} :
          /\ disk' = [disk EXCEPT ![f] = c]
          /\ run' = IF run.pc = "idle" THEN run
                    ELSE [run EXCEPT !.base[f] = c,
                                     !.late = IF LastLookAt(f) THEN @ \cup {f} ELSE @]
    BY <1>9 DEF Edit
  <2>2. c \in Contents /\ UNCHANGED report
    BY <1>9, SourceType DEF Contents, Edit
  <2>3. CASE run.pc = "idle"
    <3>1. Promise!Edit(f, c)
      BY <2>1, <2>2, <2>3 DEF Promise!Edit
    <3> QED BY <2>2, <3>1
  <2>4. CASE run.pc # "idle"
    <3>1. /\ run'.pc = run.pc /\ run'.base = [run.base EXCEPT ![f] = c]
          /\ run'.late = run.late \/ run'.late = run.late \cup {f}
      BY <1>1, <2>1, <2>4 DEF Runs
    <3>2. Promise!Edit(f, c)
      BY <2>2, <2>4, <3>1 DEF Promise!Edit
    <3> QED BY <2>2, <3>2
  <2> QED BY <2>3, <2>4
<1>10. CASE UNCHANGED vars
  BY <1>10 DEF vars, Promise!vars
<1> QED
  BY <1>3, <1>4, <1>7, <1>8, <1>9, <1>10 DEF Next, Promise!Next

\* SourceWrite implements AllOrNothing.
THEOREM Implements == Spec => KeepsPromise
<1>1. Init => Promise!Init
  BY DEF Init, Idle, Promise!Init
<1>2. Spec => [][Promise!Next]_(Promise!vars)
  BY StepRefines, Invariance, PTL DEF Spec
<1> QED BY <1>1, <1>2, PTL DEF Spec, KeepsPromise, Promise!Spec
=============================================================================
