---------------------------- MODULE AllOrNothing ----------------------------
(***************************************************************************)
(* What applying a saved plan to a checkout promises, whatever the number  *)
(* of its files and the steps each takes: every file is replaced, or none  *)
(* is, and the report says which; only a failed rollback or a crash leaves *)
(* a mixture, of old and new files and nothing else.  People may edit the  *)
(* files meanwhile; of a file edited late, when the apply has had its last *)
(* look at it, less is promised.                                           *)
(***************************************************************************)
CONSTANTS
  Files,     \* the planned files
  Contents,  \* what a file can hold
  Source,    \* what each file held when the plan was made
  After      \* what every file shall hold

VARIABLES
  files,     \* what each file holds, but for writes not yet reported
  report,    \* what the last apply reported
  late       \* the files edited late in the current apply

vars == <<files, report, late>>

\* The plan is not stale: every file holds what the plan was made from.
Fresh == \A i \in Files \ late : files[i] = Source[i]

Begin ==
  /\ report # "applying" /\ report' = "applying"
  /\ UNCHANGED <<files, late>>

Edit(i, c) ==
  /\ files' = [files EXCEPT ![i] = c]
  /\ late' = late \/ (report = "applying" /\ late' = late \cup {i})
  /\ UNCHANGED report

End(outcome) == report = "applying" /\ report' = outcome /\ late' = {}

\* Every file is written; one edited late may have been edited afterwards.
Write ==
  /\ End("written") /\ Fresh
  /\ files' \in [Files -> Contents]
  /\ \A i \in Files : files'[i] = After \/ (i \in late /\ files'[i] = files[i])

\* A preview, or a plan that is stale or cannot be read.
Refuse == End("refused") /\ UNCHANGED files

\* Whatever was written is taken back, an edit made late with it.
Restore ==
  /\ End("restored") /\ Fresh
  /\ files' \in [Files -> Contents]
  /\ \A i \in Files : files'[i] = files[i] \/ (i \in late /\ files'[i] = Source[i])

\* The apply stopped half way.
Break ==
  /\ End("partial")
  /\ UNCHANGED files \/ Fresh
  /\ files' \in [Files -> Contents]
  /\ \A i \in Files : \/ files'[i] \in {files[i], After}
                      \/ i \in late /\ files'[i] = Source[i]

Init ==
  /\ files \in [Files -> Contents]
  /\ report = "none" /\ late = {}

Next ==
  \/ Begin \/ Write \/ Refuse \/ Restore \/ Break
  \/ \E i \in Files, c \in Contents : Edit(i, c)

Spec == Init /\ [][Next]_vars
=============================================================================
