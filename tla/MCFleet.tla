------------------------------ MODULE MCFleet ------------------------------
(* Three repositories, one with two spellings.                              *)
EXTENDS Fleet

MCNames == 1..4
MCRepos == {"a", "b", "c"}
MCFold == <<"b", "a", "b", "c">>

\* All of them out of order, two, and a list that names one twice.
MCScheduled == <<4, 2, 1>>
MCRequests == {MCScheduled, <<3, 2>>, <<3, 1>>}

Status(path, code) == [path |-> path, code |-> code]

\* An edited manifest with a new lockfile, one that Git ignores, a file nobody
\* returned, one that was deleted, and a name no commit may hold.
MCLeaves ==
  [good |-> [files |-> {"m", "l"}, status |-> {Status("m", " M"), Status("l", "??")}],
   ignored |-> [files |-> {"m", "l"}, status |-> {Status("m", " M")}],
   stray |-> [files |-> {"m"}, status |-> {Status("m", " M"), Status("x", "??")}],
   deleted |-> [files |-> {"m"}, status |-> {Status("m", " D")}],
   unsafe |-> [files |-> {"u"}, status |-> {Status("u", " M")}]]
MCPlans == DOMAIN MCLeaves
MCUnsafe == {"u"}
=============================================================================
