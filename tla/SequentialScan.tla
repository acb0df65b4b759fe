--------------------------- MODULE SequentialScan ---------------------------
(***************************************************************************)
(* What one scan of a repository promises, whatever the number of its      *)
(* workers: every registry question is asked once, every candidate gets    *)
(* the answer to its own question, and the outcome depends on the answers  *)
(* alone.  A scan that was cancelled in time returns no report, and one    *)
(* that met a rate limit returns the latest one it met.                    *)
(***************************************************************************)
EXTENDS Naturals

CONSTANTS
  None, Skipped,  \* no value; the entry of a candidate that needs no answer
  Candidates,     \* the dependencies the extractor found
  Keys,           \* the questions a resolver can be asked
  Inventories,    \* what the extractor may find: candidates' questions
  Resolutions,    \* the answers that name a version
  Failed,         \* any error but a rate limit
  Limits          \* rate limits, each by its RetryAt

VARIABLES
  wanted,     \* the question of each candidate, or None
  answered,   \* the answer to each question asked so far
  cancelled,  \* whether the context of the scan was cancelled
  result,     \* how the scan returned
  limit,      \* the rate limit it returned
  report      \* the report it returned

vars == <<wanted, answered, cancelled, result, limit, report>>

Answers == Resolutions \cup {Failed} \cup Limits
Needed == {wanted[i] : i \in Candidates} \ {None}
Met == {answered[k] : k \in Needed} \cap Limits

Running == result = "none"
Complete == Running /\ ~cancelled /\ \A k \in Needed : answered[k] # None

Ask(k) ==
  /\ Running /\ k \in Needed /\ answered[k] = None
  /\ \E a \in Answers : answered' = [answered EXCEPT ![k] = a]
  /\ UNCHANGED <<wanted, cancelled, result, limit, report>>

Cancel ==
  /\ Running /\ ~cancelled /\ cancelled' = TRUE
  /\ UNCHANGED <<wanted, answered, result, limit, report>>

Abort ==
  /\ Running /\ cancelled /\ result' = "cancelled"
  /\ UNCHANGED <<wanted, answered, cancelled, limit, report>>

Defer ==
  /\ Complete /\ result' = "limited"
  /\ limit' \in Met /\ \A l \in Met : l <= limit'
  /\ UNCHANGED <<wanted, answered, cancelled, report>>

Report ==
  /\ Complete /\ Met = {} /\ result' = "report"
  /\ report' = [i \in Candidates |->
                  IF wanted[i] = None THEN Skipped ELSE answered[wanted[i]]]
  /\ UNCHANGED <<wanted, answered, cancelled, limit>>

Init ==
  /\ wanted \in Inventories
  /\ answered = [k \in Keys |-> None]
  /\ cancelled = FALSE /\ result = "none" /\ limit = None
  /\ report = [i \in Candidates |-> None]

Next == Cancel \/ Abort \/ Defer \/ Report \/ \E k \in Keys : Ask(k)

Spec == Init /\ [][Next]_vars
=============================================================================
