------------------------------ MODULE SavedPlan ------------------------------
(***************************************************************************)
(* The life of a plan file: `scan --plan` makes it (CreatePlan, SavePlan), *)
(* `apply --plan` reads it (LoadPlan) and applies it, first for a preview  *)
(* (runScan and runApply in main.go, internal/update/plan.go).  A fresh    *)
(* `apply --write` creates the same plan and keeps it in memory.           *)
(*                                                                         *)
(* SourceWrite has the steps of ApplyPlan.  Here one command runs at a     *)
(* time; people put files where the plan is, take them away, and edit the  *)
(* planned files.  There is one plan: the one made of Source.              *)
(***************************************************************************)
EXTENDS SourceWrite

VARIABLES
  artifact,  \* what the plan's path holds
  task       \* the command that runs

planVars == <<vars, artifact, task>>

\* "partial" is the file SavePlan has opened and not finished; "other" is
\* whatever LoadPlan does not take for a plan, or somebody else's.
Artifacts == {"none", "partial", "plan", "other"}

Stages == {"idle", "create", "open", "store", "saved", "preview", "previewing",
           "write", "writing"}

\* shown is whether the preview found every file as planned.  spoilt is
\* history: somebody changed the artifact while SavePlan was writing it.
Tasks == [stage : Stages, save : BOOLEAN, write : BOOLEAN, shown : BOOLEAN,
          spoilt : BOOLEAN]
NoTask == [stage |-> "idle", save |-> FALSE, write |-> FALSE, shown |-> FALSE,
           spoilt |-> FALSE]

Enter(stage) == task' = [task EXCEPT !.stage = stage]
During(stage) == task.stage = stage /\ run.pc = "idle"

-----------------------------------------------------------------------------
(* A mistake the property must catch: to truncate what is there.             *)

OpenableAlways == TRUE

-----------------------------------------------------------------------------
(* Making a plan *)

\* The report, and the output of Apply or ApplyWithLockfiles without write.
Scan(save) ==
  /\ During("idle") /\ disk = Source
  /\ task' = [NoTask EXCEPT !.stage = "create", !.save = save]
  /\ UNCHANGED <<vars, artifact>>

\* CreatePlan looks again at the files that exist, and not for those it creates.
Create ==
  /\ During("create")
  /\ \/ /\ \A i \in Files \ Created : disk[i] = Source[i]
        /\ Enter(IF task.save THEN "open" ELSE "write")
     \/ task' = NoTask
  /\ UNCHANGED <<vars, artifact>>

\* O_EXCL.
Openable == artifact = "none"

Open ==
  /\ During("open")
  /\ \/ Openable /\ artifact' = "partial" /\ Enter("store")
     \/ task' = NoTask /\ UNCHANGED artifact
  /\ UNCHANGED vars

\* Write, Sync and Close.  When one fails SavePlan removes what is at the path;
\* what it wrote to a file that is no longer there is lost.
Store ==
  /\ During("store")
  /\ \/ artifact' = (IF artifact = "partial" THEN "plan" ELSE artifact) /\ Enter("saved")
     \/ artifact' \in {"none", artifact} /\ task' = NoTask
  /\ UNCHANGED vars

\* runScan prints the report; its exit code depends on --fail-on.
Exit == During("saved") /\ task' = NoTask /\ UNCHANGED <<vars, artifact>>

-----------------------------------------------------------------------------
(* Applying it *)

\* LoadPlan takes nothing but a whole plan.
Load(write) ==
  /\ During("idle") /\ artifact = "plan"
  /\ task' = [NoTask EXCEPT !.stage = "preview", !.write = write]
  /\ UNCHANGED <<vars, artifact>>

\* ApplyPlan without write, and with it.
Preview == During("preview") /\ Begin(FALSE) /\ Enter("previewing") /\ UNCHANGED artifact
WritePlan == During("write") /\ Begin(TRUE) /\ Enter("writing") /\ UNCHANGED artifact

\* A preview is good when the last file, too, was as planned.
Seen ==
  /\ Read
  /\ \/ UNCHANGED task
     \/ /\ task.stage = "previewing" /\ run.at = N /\ disk[N] = Source[N]
        /\ task' = [task EXCEPT !.shown = TRUE]
  /\ UNCHANGED artifact

Work == (Check \/ Stage \/ Sync \/ Rename \/ Flush \/ Remove) /\ UNCHANGED <<artifact, task>>

\* After the preview the diff is printed, and --write goes on.
Done ==
  /\ Return
  /\ IF task.stage = "previewing" /\ task.shown /\ task.write THEN Enter("write")
     ELSE task' = NoTask
  /\ UNCHANGED artifact

Die ==
  /\ task # NoTask /\ task' = NoTask
  /\ Crash \/ (run.pc = "idle" /\ UNCHANGED vars)
  /\ UNCHANGED artifact

-----------------------------------------------------------------------------
(* People *)

SomeoneEdits(i) == Edit(i) /\ UNCHANGED <<artifact, task>>

\* Another file is put there, or what is there is damaged or taken away.
SomeoneReplaces ==
  /\ artifact' \in {"none", "other"} \ {artifact}
  /\ task' = [task EXCEPT !.spoilt = @ \/ task.stage \in {"store", "saved"}]
  /\ UNCHANGED vars

-----------------------------------------------------------------------------
PlanInit == Init /\ artifact \in {"none", "other"} /\ task = NoTask

PlanNext ==
  \/ \E save \in BOOLEAN : Scan(save)
  \/ Create \/ Open \/ Store \/ Exit
  \/ \E write \in BOOLEAN : Load(write)
  \/ Preview \/ WritePlan \/ Seen \/ Work \/ Done \/ Die
  \/ \E i \in Files : SomeoneEdits(i)
  \/ SomeoneReplaces

PlanSpec == PlanInit /\ [][PlanNext]_planVars

-----------------------------------------------------------------------------
\* The tool alone never changes what it found at the plan's path, nor a plan it
\* finished, whatever fails and whenever it dies; and when it says that it
\* saved the plan, the plan is there (plan.go:187-207; docs/saved-plans.md:45-46,
\* "An existing artifact is never overwritten").
ArtifactsKept ==
  [][SomeoneReplaces \/ task.spoilt \/
     /\ artifact' # artifact => artifact = "none" \/ (artifact = "partial" /\ task.stage = "store")
     /\ task'.stage = "saved" => artifact' = "plan"]_planVars
=============================================================================
