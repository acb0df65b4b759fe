------------------------------ MODULE MCEdits ------------------------------
(* Manifests of three dependencies for the selections of MCSelection.        *)
EXTENDS MCSelection, Edits

MCTokens ==
  {"blank", "#", "newline", "return", "x", "y", "z", "mine", "why", "v1", "1", "new"}
    \cup UNION {{"old " \o n, n, n \o " 2"} : n \in {"a", "b", "c"}}

\* Values of one token each, a then b then c, at these positions.
Manifest(text, p, q, r) ==
  [text |-> text,
   start |-> [d \in MCDeps |-> CASE d = a -> p [] d = b -> q [] d = c -> r],
   end |-> [d \in MCDeps |-> (CASE d = a -> p [] d = b -> q [] d = c -> r) + 1],
   value |-> [d \in MCDeps |-> <<CASE d = a -> "old a" [] d = b -> "old b" [] d = c -> "old c">>],
   versions |-> [d \in MCDeps |-> {<<"v1">>, <<"1">>}],
   new |-> [d \in MCDeps |-> <<"new", CASE d = a -> "a" [] d = b -> "b" [] d = c -> "c">>],
   note |-> [d \in MCDeps |-> CASE d = a -> "a 2" [] d = b -> "b 2" [] d = c -> "c 2"],
   actions |-> {}]

Lines == Manifest(<<"x", "old a", "newline", "old b", "old c", "y">>, 1, 3, 4)

\* Steps of a workflow, with every kind of comment and line end.
Workflow ==
  [Manifest(<<"x", "old a", "blank", "#", "blank", "blank", "v1", "return", "newline",
              "old b", "return", "newline", "#", "old c">>, 1, 9, 13)
     EXCEPT !.actions = {a, b, c}]
Remarks ==
  [Manifest(<<"old a", "#", "why", "newline", "old b", "#", "newline", "old c">>, 0, 4, 7)
     EXCEPT !.actions = {a, b, c}]

\* Two actions on one line, without a comment and with one for both.
Flow == [Manifest(<<"old a", "x", "old b", "newline", "old c">>, 0, 2, 4) EXCEPT !.actions = {a, b}]
FlowNoted ==
  [Manifest(<<"old a", "old b", "blank", "#", "1", "newline", "old c">>, 0, 1, 6)
     EXCEPT !.actions = {a, b}]

\* One property for two packages, and a value inside another.
Same == [Manifest(<<"x", "old a", "old c">>, 1, 1, 2) EXCEPT !.value[b] = <<"old a">>]
Nested ==
  [Manifest(<<"old a", "old b", "x", "old c">>, 0, 1, 3)
     EXCEPT !.end[a] = 2, !.value[a] = <<"old a", "old b">>]

\* Edited since the scan: elsewhere, in a value, and cut short.
Remarked == [Lines EXCEPT !.text[6] = "z"]
Changed == [Lines EXCEPT !.text[4] = "mine"]
Cut == [Lines EXCEPT !.text = SubSeq(@, 1, 4)]

NoDigest == [Lines EXCEPT !.new[b] = <<>>]

MCLayouts ==
  {Lines, Workflow, Remarks, Flow, FlowNoted, Same, Nested, Remarked, Changed, Cut, NoDigest}
=============================================================================
