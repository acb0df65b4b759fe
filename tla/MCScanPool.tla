----------------------------- MODULE MCScanPool -----------------------------
(* ScanPool for TLC: four candidates, two questions, three workers.         *)
EXTENDS ScanPool

CONSTANTS k1, k2, v1

MCKeys == {k1, k2}
MCLimits == {1, 2}
MCResolutions == {v1}

\* One question for all but one, before or after the other; two twice; and a
\* candidate that needs no answer, first, in between or last, or all of them.
MCInventories ==
  {<<k1, k1, k1, k2>>, <<k1, k2, k2, k2>>, <<k1, k2, k1, k2>>, <<None, k1, k1, k2>>,
   <<k1, None, k1, k2>>, <<k1, k2, k1, None>>, <<None, None, None, None>>}
=============================================================================
