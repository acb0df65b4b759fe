--------------------------- MODULE SavedPlan_proofs ---------------------------
(* Proofs about SavedPlan, for any number of planned files.                  *)
EXTENDS SavedPlan, TLAPS

\* Whatever is done with the plan file, the planned files go through the steps
\* of SourceWrite and no others: all that SourceWrite_proofs proves of its Spec
\* holds of the commands around it (main.go:249-271, 306-341).
THEOREM Carries == PlanSpec => Spec
<1>1. PlanInit => Init
  BY DEF PlanInit
<1>2. ASSUME [PlanNext]_planVars PROVE [Next]_vars
  <2>1. CASE UNCHANGED planVars
    BY <2>1 DEF planVars
  <2>2. CASE Preview \/ WritePlan
    BY <2>2 DEF Preview, WritePlan, Next
  <2>3. CASE Seen \/ Work \/ Done
    BY <2>3 DEF Seen, Work, Done, Next
  <2>4. CASE Die
    BY <2>4 DEF Die, Next
  <2>5. CASE \E i \in Files : SomeoneEdits(i)
    BY <2>5 DEF SomeoneEdits, Next
  <2>6. CASE \/ \E save \in BOOLEAN : Scan(save)
             \/ Create \/ Open \/ Store \/ Exit
             \/ \E write \in BOOLEAN : Load(write)
             \/ SomeoneReplaces
    BY <2>6 DEF Scan, Create, Open, Store, Exit, Load, SomeoneReplaces
  <2> QED BY <1>2, <2>1, <2>2, <2>3, <2>4, <2>5, <2>6 DEF PlanNext
<1> QED BY <1>1, <1>2, PTL DEF PlanSpec, Spec

-----------------------------------------------------------------------------
\* SavePlan finds its own file when it ends, and the plan there afterwards,
\* unless somebody took it away.
Mine == ~task.spoilt => /\ task.stage = "store" => artifact = "partial"
                        /\ task.stage = "saved" => artifact = "plan"

TInv == task \in Tasks /\ Mine

LEMMA Resting == NoTask \in Tasks /\ NoTask.stage = "idle"
BY DEF NoTask, Tasks, Stages

\* To enter a stage leaves the rest of the task as it was.
LEMMA Entering ==
  ASSUME task \in Tasks, NEW s \in Stages, Enter(s)
  PROVE  task' \in Tasks /\ task'.stage = s /\ task'.spoilt = task.spoilt
BY DEF Enter, Tasks

LEMMA Started == PlanInit => TInv
BY Resting DEF PlanInit, TInv, Mine

LEMMA Kept == TInv /\ [PlanNext]_planVars => TInv'
<1> SUFFICES ASSUME TInv, [PlanNext]_planVars PROVE TInv'
  OBVIOUS
<1> USE Resting, Entering DEF TInv, Mine, During, Stages
<1>1. CASE UNCHANGED planVars
  BY <1>1 DEF planVars
<1>2. ASSUME NEW save \in BOOLEAN, Scan(save) PROVE TInv'
  BY <1>2 DEF Scan, Tasks, NoTask
<1>3. CASE Create
  BY <1>3 DEF Create
<1>4. CASE Open
  BY <1>4 DEF Open
<1>5. CASE Store
  BY <1>5 DEF Store
<1>6. CASE Exit
  BY <1>6 DEF Exit
<1>7. ASSUME NEW write \in BOOLEAN, Load(write) PROVE TInv'
  BY <1>7 DEF Load, Tasks, NoTask
<1>8. CASE Preview
  BY <1>8 DEF Preview
<1>9. CASE WritePlan
  BY <1>9 DEF WritePlan
<1>10. CASE Seen
  BY <1>10 DEF Seen, Tasks
<1>11. CASE Work
  BY <1>11 DEF Work
<1>12. CASE Done
  BY <1>12 DEF Done
<1>13. CASE Die
  BY <1>13 DEF Die
<1>14. ASSUME NEW i \in Files, SomeoneEdits(i) PROVE TInv'
  BY <1>14 DEF SomeoneEdits
<1>15. CASE SomeoneReplaces
  BY <1>15 DEF SomeoneReplaces, Tasks
<1> QED
  BY <1>1, <1>2, <1>3, <1>4, <1>5, <1>6, <1>7, <1>8, <1>9, <1>10, <1>11, <1>12,
     <1>13, <1>14, <1>15 DEF PlanNext

\* The tool alone never changes what it found at the plan's path nor a plan it
\* finished, and a plan it says it saved is there.
THEOREM ArtifactSafe == PlanSpec => ArtifactsKept
<1> DEFINE Keeps == \/ SomeoneReplaces \/ task.spoilt
                    \/ /\ artifact' # artifact =>
                            artifact = "none" \/ (artifact = "partial" /\ task.stage = "store")
                       /\ task'.stage = "saved" => artifact' = "plan"
<1>1. ASSUME TInv, PlanNext PROVE Keeps \/ UNCHANGED planVars
  <2> USE <1>1, Resting, Entering DEF TInv, Mine, Stages, During
  <2>1. CASE Open
    BY <2>1 DEF Open, Openable
  <2>2. CASE Store
    BY <2>2 DEF Store
  <2>3. CASE \/ \E save \in BOOLEAN : Scan(save)
             \/ Create \/ Exit
             \/ \E write \in BOOLEAN : Load(write)
    <3>1. artifact' = artifact
      BY <2>3 DEF Scan, Create, Exit, Load
    <3>2. CASE Create
      BY <3>1, <3>2 DEF Create
    <3>3. CASE Exit
      BY <3>1, <3>3 DEF Exit
    <3>4. CASE \/ \E save \in BOOLEAN : Scan(save)
               \/ \E write \in BOOLEAN : Load(write)
      <4>1. task'.stage \in {"create", "preview"}
        BY <3>4 DEF Scan, Load, NoTask
      <4> QED BY <3>1, <4>1
    <3> QED BY <2>3, <3>2, <3>3, <3>4
  <2>4. CASE Preview \/ WritePlan \/ Done \/ Die
    BY <2>4 DEF Preview, WritePlan, Done, Die
  <2>5. ASSUME \/ Seen \/ Work \/ \E i \in Files : SomeoneEdits(i)
        PROVE  Keeps
    <3>1. artifact' = artifact
      BY <2>5 DEF Seen, Work, SomeoneEdits
    <3>2. task'.stage = task.stage
      BY <2>5 DEF Seen, Work, SomeoneEdits, Tasks
    <3> QED BY <3>1, <3>2
  <2>6. CASE SomeoneReplaces
    BY <2>6
  <2> QED BY <1>1, <2>1, <2>2, <2>3, <2>4, <2>5, <2>6 DEF PlanNext
<1> QED BY <1>1, Started, Kept, PTL DEF PlanSpec, ArtifactsKept
=============================================================================
