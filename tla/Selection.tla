------------------------------ MODULE Selection ------------------------------
(***************************************************************************)
(* From what is known of each dependency to the report that may be applied *)
(* (internal/update/policy.go, scan.go:85-117, 138-190 and 201-236,        *)
(* internal/automation/selection.go): package rules, update groups, and    *)
(* the selection of automation.selection.                                  *)
(*                                                                         *)
(* Dependencies, groups and versions are names.  A rule's age and version  *)
(* limits are the set of dependencies whose target passes them; patterns   *)
(* and manager lists are the set of dependencies they match.               *)
(***************************************************************************)
EXTENDS Naturals

CONSTANTS
  None, Unknown,  \* no value; a target that normalizeVersion cannot read
  Deps,           \* the dependencies found
  Groups,         \* names of groups
  Channels,       \* release channels
  Targets,        \* normalized versions
  R,              \* the number of package rules
  RuleLists,      \* the lists of package rules considered
  Results         \* the findings considered

Statuses == {"current", "outdated", "unresolved", "ignored", "blocked", "unsupported"}
Incomplete == {"unresolved", "blocked", "unsupported"}
Actionable == {"current", "outdated"}

\* config.PackageRule, which asks for a shared version only within a group.
Rules == {r \in [deps : SUBSET Deps, group : Groups \cup {None}, shared : BOOLEAN,
                 channel : Channels \cup {None}, admits : SUBSET Deps] :
            r.shared => r.group # None}

\* What a worker enters if no rules contradict each other, and the target it
\* was told; there is none without a resolution.
Findings == {f \in [status : Statuses \ {"blocked"}, target : Targets \cup {Unknown}] :
               f.status \in {"unresolved", "unsupported"} => f.target = Unknown}

ASSUME NameAssumption == None \notin Groups \cup Channels /\ Unknown \notin Targets
ASSUME RuleAssumption == R \in Nat /\ RuleLists \subseteq [1..R -> Rules]
ASSUME ResultAssumption == Results \subseteq Findings

VARIABLES
  rules,     \* config.packageRules
  found,     \* what the workers find about each dependency
  named,     \* the dependencies the selection's managers and patterns match
  typed,     \* those with an update type the selection allows
  stage,     \* the step that was done last
  group,     \* the Group of each entry
  status,    \* the Status of each entry in the report of Scan
  listed,    \* the entries of the report after the selection
  selected   \* the Status of each entry after the selection

input == <<rules, found, named, typed>>
vars == <<input, stage, group, status, listed, selected>>

Matching(d) == {r \in 1..R : d \in rules[r].deps}
Grouping(d) == {r \in Matching(d) : rules[r].group # None}

\* policyChannel finds two groups or two channels.
Conflicting(d) ==
  \E q, r \in Matching(d) :
    \/ rules[q].group # rules[r].group /\ None \notin {rules[q].group, rules[r].group}
    \/ rules[q].channel # rules[r].channel /\ None \notin {rules[q].channel, rules[r].channel}

\* Contradictions are looked for in what is neither unsupported nor ignored by a
\* rule for ignoring; what classifyResolved ignores has a target, and a known one.
LookedUp(d) ==
  found[d].status # "unsupported" /\ ~(found[d].status = "ignored" /\ found[d].target = Unknown)

\* The entries the workers make.
Classify ==
  /\ stage = "extracted" /\ stage' = "classified"
  /\ status' = [d \in Deps |->
                  IF LookedUp(d) /\ Conflicting(d) THEN "blocked" ELSE found[d].status]
  /\ UNCHANGED <<input, group, listed, selected>>

\* The last matching rule that names a group names the entry's.
GroupOf(d) ==
  IF Grouping(d) = {} THEN None
  ELSE rules[CHOOSE r \in Grouping(d) : \A q \in Grouping(d) : q <= r].group

\* A mistake: one rule that is satisfied is enough.
AdmittedByOne(d) == Matching(d) = {} \/ \E r \in Matching(d) : d \in rules[r].admits

Admitted(d) == \A r \in Matching(d) : d \in rules[r].admits

\* applyPackagePolicy on every entry.
Police ==
  /\ stage = "classified" /\ stage' = "policed"
  /\ group' = [d \in Deps |-> GroupOf(d)]
  /\ status' = [d \in Deps |-> IF status[d] = "outdated" /\ ~Admitted(d)
                               THEN "blocked" ELSE status[d]]
  /\ UNCHANGED <<input, listed, selected>>

Members(g) == {d \in Deps : group[d] = g}
Shared(g) == \E d \in Members(g) : \E r \in Matching(d) : rules[r].shared

\* A mistake: members that a policy blocks do not count.
HasGapButBlocked(g) == \E d \in Members(g) : status[d] \notin Actionable \cup {"blocked"}

HasGap(g) == \E d \in Members(g) : status[d] \notin Actionable

Agreeing(g) ==
  /\ \A d \in Members(g) : found[d].target # Unknown
  /\ \A d, e \in Members(g) : found[d].target = found[e].target

Broken(g) == HasGap(g) \/ (Shared(g) /\ ~Agreeing(g))

\* enforceGroups: one member that cannot be updated blocks the others.
Close ==
  /\ stage = "policed" /\ stage' = "closed"
  /\ status' = [d \in Deps |->
                  IF group[d] # None /\ Broken(group[d]) /\ status[d] \in Actionable
                  THEN "blocked" ELSE status[d]]
  /\ UNCHANGED <<input, group, listed, selected>>

\* A mistake: the update type is asked of every entry.
KeptByType(d) == d \in named /\ d \in typed

\* The predicate of SelectReport.
Keep(d) == d \in named /\ (status[d] = "outdated" => d \in typed)

Split(g) == g # None /\ \E d, e \in Members(g) : Keep(d) /\ ~Keep(e)

SplitStatus == "blocked"

\* SelectReport and FilterReport.
Select ==
  /\ stage = "closed" /\ stage' = "selected"
  /\ listed' = {d \in Deps : Split(group[d]) \/ Keep(d)}
  /\ selected' = [d \in Deps |-> IF Split(group[d]) THEN SplitStatus ELSE status[d]]
  /\ UNCHANGED <<input, group, status>>

Init ==
  /\ rules \in RuleLists /\ found \in [Deps -> Results]
  /\ named \in SUBSET Deps /\ typed \in SUBSET Deps
  /\ stage = "extracted" /\ group = [d \in Deps |-> None]
  /\ status = [d \in Deps |-> "unresolved"]
  /\ listed = {} /\ selected = [d \in Deps |-> "unresolved"]

Next == Classify \/ Police \/ Close \/ Select

Spec == Init /\ [][Next]_vars

-----------------------------------------------------------------------------
TypeOK ==
  /\ rules \in [1..R -> Rules] /\ found \in [Deps -> Findings]
  /\ named \subseteq Deps /\ typed \subseteq Deps
  /\ stage \in {"extracted", "classified", "policed", "closed", "selected"}
  /\ group \in [Deps -> Groups \cup {None}]
  /\ status \in [Deps -> Statuses] /\ selected \in [Deps -> Statuses]
  /\ listed \subseteq Deps

\* RequireComplete, which every write and every auto-merge asks for.
Complete == stage = "selected" /\ \A d \in listed : selected[d] \notin Incomplete

\* The updates the selected report offers; they are applied if it is complete.
Offered == {d \in listed : stage = "selected" /\ selected[d] = "outdated"}

\* An update is offered together with the rest of its group, which has no gap
\* and, if its version is shared, one target (docs/update-policy.md:68-71).
FamilyWhole ==
  \A d \in Offered : group[d] # None =>
    /\ Members(group[d]) \subseteq listed
    /\ \A e \in Members(group[d]) :
         /\ selected[e] \in Actionable
         /\ Shared(group[d]) => found[e].target = found[d].target

\* An update that is offered was chosen, and passes every rule that matches it,
\* of which no two contradict each other (docs/update-policy.md:45-46).
OfferedWithinPolicy ==
  \A d \in Offered :
    /\ d \in named \cap typed /\ found[d].status = "outdated"
    /\ \A q, r \in Matching(d) :
         /\ d \in rules[r].admits
         /\ None \in {rules[q].group, rules[r].group} \/ rules[q].group = rules[r].group
         /\ None \in {rules[q].channel, rules[r].channel} \/ rules[q].channel = rules[r].channel

\* What cannot be updated stays in sight if its name is selected, whatever the
\* update types, and then nothing can be applied (docs/update-policy.md:72-73,
\* runner_test.go:375).
FailuresStayVisible ==
  stage = "selected" =>
    \A d \in named : status[d] \in Incomplete => d \in listed /\ ~Complete

\* docs/update-policy.md:29, a group is a "Named family that must remain complete
\* during selection and apply"; everyone a matching rule puts into it belongs to it.
FamilyComplete ==
  Complete =>
    \A d \in Offered : \A r \in Grouping(d) :
      \A e \in Deps : (\E q \in Matching(e) : rules[q].group = rules[r].group) => e \in listed
=============================================================================
