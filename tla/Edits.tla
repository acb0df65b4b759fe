-------------------------------- MODULE Edits --------------------------------
(***************************************************************************)
(* What a complete selection does to a manifest: planUpdates, buildEdits,  *)
(* applyEdits and actionCommentEdit (internal/update/apply.go).            *)
(*                                                                         *)
(* A text is a sequence of tokens; the rules see line ends, carriage       *)
(* returns, blanks and comment marks, and everything else is a name.  All  *)
(* dependencies are in one manifest: planReport takes each file by itself, *)
(* and refuses the report when it refuses a file.                          *)
(***************************************************************************)
EXTENDS Selection, SequencesExt

CONSTANTS
  Tokens,  \* what a text is made of
  Layouts  \* what the manifest may be

LineEnds == {"newline", "return"}

\* text is the manifest when it is planned.  From the scan: start and end of the
\* value of each dependency, the value, and which dependencies are actions.  A
\* value is replaced by new, empty when there is no safe replacement.  In a
\* comment any of the versions is the current one, and note takes its place.
\* In a file with actions no value has a line end (extract_actions.go:14-16).
ASSUME TokensAssumption == IsFiniteSet(Deps) /\ {"blank", "#"} \subseteq Tokens
ASSUME LayoutsAssumption ==
  \A l \in Layouts :
    /\ l.text \in Seq(Tokens) /\ l.actions \subseteq Deps
    /\ \A d \in Deps :
         /\ l.end[d] \in Nat /\ l.start[d] \in 0..(l.end[d] - 1)
         /\ l.actions # {} => LineEnds \cap Range(l.value[d]) = {}
         /\ l.new[d] \in Seq(Tokens) /\ l.note[d] \in Tokens
         /\ <<>> \notin l.versions[d]

VARIABLES
  layout,    \* the manifest, none until it is planned
  plan       \* what planReport makes of it

editVars == <<vars, layout, plan>>

-----------------------------------------------------------------------------
(* A mistake the property must catch: the first edit moves what follows it.  *)

Forwards(e, f) == e.start < f.start

-----------------------------------------------------------------------------
(* Token k is between the positions k - 1 and k of a text.                   *)

Between(text, from, to) == SubSeq(text, from + 1, to)

\* The first position from p on where the text goes on with one of these, or q.
Upto(text, tokens, p, q) ==
  Min({q} \cup {k \in p..(q - 1) : text[k + 1] \in tokens})

LineStart(text, p) == Max({0} \cup {k \in 1..p : text[k] = "newline"})
LineEnd(text, p) == Upto(text, {"newline"}, p, Len(text))

Edit(l, d, comment, start, end, new) ==
  [of |-> d, comment |-> comment, start |-> start, end |-> end,
   old |-> Between(l.text, start, end), new |-> new]

\* actionCommentEdit: a line without a comment gets one, and a comment that
\* does not begin with the current version stays.
CommentEdits(l, d) ==
  LET from == LineStart(l.text, l.start[d])
      to == LineEnd(l.text, l.end[d])
      mark == Upto(l.text, {"#"}, from, to)
      last == IF to > from /\ l.text[to] = "return" THEN to - 1 ELSE to
      start == Upto(l.text, Range(l.text) \ {"blank"}, mark + 1, to)
      end == Upto(l.text, {"blank", "return"}, start, to)
  IN IF mark = to THEN {Edit(l, d, TRUE, last, last, <<"blank", "#", "blank", l.note[d]>>)}
     ELSE {e \in {Edit(l, d, TRUE, start, end, <<l.note[d]>>)} : e.old \in l.versions[d]}

EditsOf(l, d) ==
  {Edit(l, d, FALSE, l.start[d], l.end[d], l.new[d])}
    \cup IF d \in l.actions THEN CommentEdits(l, d) ELSE {}

\* buildEdits: the value is where the scan saw it, and has a replacement.
Editable(l, d) ==
  /\ l.end[d] <= Len(l.text)
  /\ Between(l.text, l.start[d], l.end[d]) = l.value[d]
  /\ l.new[d] # <<>>

\* The last edit comes first; sort.Slice leaves equal starts in any order, which
\* only shows between dependencies: two edits of one would overlap.
Backwards(e, f) == e.start > f.start

Precedes(e, f, rank) ==
  \/ Backwards(e, f)
  \/ /\ e.start = f.start
     /\ rank[e.of] > rank[f.of] \/ (e.of = f.of /\ e.comment /\ ~f.comment)

Sorted(edits, rank) ==
  [k \in 1..Cardinality(edits) |->
     CHOOSE e \in edits : Cardinality({f \in edits : Precedes(f, e, rank)}) = k - 1]

\* applyEdits' loop.
ApplyEdit(made, e) ==
  IF /\ made.ok /\ e.end <= made.last
     /\ Between(made.text, e.start, e.end) = e.old
  THEN [ok |-> TRUE, last |-> e.start,
        text |-> Between(made.text, 0, e.start) \o e.new
                   \o Between(made.text, e.end, Len(made.text))]
  ELSE [made EXCEPT !.ok = FALSE]

Applied(l, order) ==
  LET made[k \in 0..Len(order)] ==
        IF k = 0 THEN [ok |-> TRUE, last |-> Len(l.text) + 1, text |-> l.text]
        ELSE ApplyEdit(made[k - 1], order[k])
  IN made[Len(order)]

Ranks == {r \in [Deps -> 1..Cardinality(Deps)] : IsInjective(r)}
EditsIn(l) == UNION {EditsOf(l, d) : d \in Offered}

\* planReport.  A person may have edited the manifest since the scan.
Plan ==
  /\ Complete /\ Offered # {} /\ plan.stage = "none"
  /\ layout' \in Layouts
  /\ plan' \in
       IF \E d \in Offered : ~Editable(layout', d) THEN {[stage |-> "refused", text |-> <<>>]}
       ELSE {LET made == Applied(layout', Sorted(EditsIn(layout'), rank))
             IN IF made.ok THEN [stage |-> "made", text |-> made.text]
                ELSE [stage |-> "refused", text |-> <<>>] : rank \in Ranks}
  /\ UNCHANGED vars

EditInit == Init /\ layout = <<>> /\ plan = [stage |-> "none", text |-> <<>>]

EditNext == Plan \/ (Next /\ UNCHANGED <<layout, plan>>)

EditSpec == EditInit /\ [][EditNext]_editVars

-----------------------------------------------------------------------------
(* Properties *)

\* All edits at once: what is inserted at a position, then what replaces the
\* token behind it, which stays if no edit covers it.
Inserted(edits, rank, p) ==
  FlattenSeq([i \in 1..Cardinality(Deps) |->
    LET here == {e \in edits : e.start = p /\ e.end = p /\ rank[e.of] = i}
    IN IF here = {} THEN <<>> ELSE (CHOOSE e \in here : TRUE).new])

Replaced(l, edits, p) ==
  LET over == {e \in edits : p \in e.start..(e.end - 1)}
  IN IF \E e \in over : e.start = p THEN (CHOOSE e \in over : e.start = p).new
     ELSE IF p = Len(l.text) \/ over # {} THEN <<>>
     ELSE <<l.text[p + 1]>>

Together(l, edits, rank) ==
  FlattenSeq([k \in 1..(Len(l.text) + 1) |->
    Inserted(edits, rank, k - 1) \o Replaced(l, edits, k - 1)])

Disjoint(edits) ==
  \A e, f \in edits : e # f => e.end <= f.start \/ f.end <= e.start

\* A manifest is planned if, and only if, the values offered are where the scan
\* saw them, have a replacement, and no two edits overlap; then it is the
\* manifest as it is now with the approved edits and nothing else changed, in
\* whatever order they were made (README.md:214, "Apply verifies original byte
\* ranges and rejects overlapping edits").
EditsExact ==
  /\ plan.stage = "made" =>
       /\ Disjoint(EditsIn(layout))
       /\ \E rank \in Ranks : plan.text = Together(layout, EditsIn(layout), rank)
  /\ plan.stage = "refused" =>
       \/ \E d \in Offered : ~Editable(layout, d)
       \/ ~Disjoint(EditsIn(layout))
=============================================================================
