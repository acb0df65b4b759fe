----------------------------- MODULE MCSavedPlan -----------------------------
(* Three planned files, the second one created by the plan. *)
EXTENDS SavedPlan

CreatedFiles == {2}
=============================================================================
