---------------------------- MODULE MCSelection ----------------------------
(* Selection for TLC: three dependencies, two rules, two groups.            *)
EXTENDS Selection

CONSTANTS a, b, c, g, h, stable, pre, v1, v2

MCDeps == {a, b, c}
MCGroups == {g, h}
MCChannels == {stable, pre}
MCTargets == {v1, v2}

Rule(deps, name) == [deps |-> deps, group |-> name, shared |-> FALSE,
                     channel |-> None, admits |-> MCDeps]
All == Rule(MCDeps, None)

\* One group, with and without a shared version, with limits, beside another
\* group, overlapping it, and with channels that contradict each other.
MCRuleLists ==
  {<<Rule({a, b, c}, g), All>>,
   <<[Rule({a, b}, g) EXCEPT !.shared = TRUE], All>>,
   <<[Rule({a, b}, g) EXCEPT !.shared = TRUE], Rule({c}, g)>>,
   <<Rule({a, b}, g), [All EXCEPT !.admits = {b, c}]>>,
   <<Rule({a}, h), Rule({b, c}, g)>>,
   <<Rule({a, b}, g), Rule({b, c}, h)>>,
   <<[Rule({a, b}, g) EXCEPT !.channel = stable], [All EXCEPT !.deps = {b, c}, !.channel = pre]>>}

\* Every status with the targets that matter to it.
Finding(s, t) == [status |-> s, target |-> t]
MCResults ==
  {Finding("unresolved", Unknown), Finding("unsupported", Unknown),
   Finding("ignored", Unknown), Finding("ignored", v2), Finding("current", v1),
   Finding("outdated", v1), Finding("outdated", v2), Finding("outdated", Unknown)}
=============================================================================
