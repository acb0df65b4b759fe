------------------------------ MODULE ScanPool ------------------------------
(***************************************************************************)
(* Scanner.Scan (internal/update/scan.go) from the extracted candidates to *)
(* its return: a dispatcher that hands candidates to a pool of workers     *)
(* over an unbuffered channel, a cache that lets one worker ask each       *)
(* question while others wait for its answer, rate limits and cancelling.  *)
(*                                                                         *)
(* A question is the cache key: what identifies a dependency, its current  *)
(* version, and what policyChannel says.  How an answer is classified, and *)
(* what policies and groups make of the entries at the end, concerns each  *)
(* report as a whole and is left out: an entry is the answer it is made of.*)
(***************************************************************************)
EXTENDS Naturals

CONSTANTS
  None, Pending, Skipped,  \* no value; an open cache entry; an entry without answer
  N,                       \* the number of candidates
  Concurrency,             \* config.Concurrency
  Keys,                    \* the questions a resolver can be asked
  Inventories,             \* what the extractor may find: candidates' questions
  Resolutions,             \* the answers that name a version
  Failed,                  \* any error but a rate limit
  Limits                   \* rate limits, each by its RetryAt

Candidates == 1..N
Marks == {None, Pending, Skipped, Failed}
Answers == Resolutions \cup {Failed} \cup Limits

ASSUME SizeAssumption == N \in Nat /\ Concurrency \in Nat \ {0}
ASSUME InventoryAssumption == Inventories \subseteq [Candidates -> Keys \cup {None}]
ASSUME LimitAssumption == Limits \subseteq Nat
ASSUME NameAssumption ==
  /\ Pending # None /\ Skipped \notin {None, Pending}
  /\ Failed \notin {None, Pending, Skipped}
  /\ None \notin Keys
  /\ (Resolutions \cup Limits) \cap Marks = {}
  /\ Resolutions \cap Limits = {}

Workers == 1..(IF Concurrency > N THEN N ELSE Concurrency)

VARIABLES
  wanted,     \* the question of each candidate, or None if it needs no answer
  cancelled,  \* ctx.Err() # nil
  next,       \* the candidate the dispatcher offers
  open,       \* whether the channel jobs is open
  worker,     \* how far each worker is, with its task and resolution
  cache,      \* the cache: for each question None, Pending or its answer
  updates,    \* the entries of the report
  fatal,      \* fatalErr
  result      \* how Scan returned

shared == <<cache, updates, fatal>>
vars == <<wanted, cancelled, next, open, worker, shared, result>>

Steps == {"receive", "begin", "lookup", "wait", "resolve", "settle", "exited"}
WorkerStates == [pc : Steps, task : Candidates \cup {0}, got : Answers \cup {None}]

Idle == [pc |-> "receive", task |-> 0, got |-> None]

At(w, pc) == worker[w].pc = pc
Goto(w, pc) == worker' = [worker EXCEPT ![w] = [worker[w] EXCEPT !.pc = pc]]
Got(w, a) == worker' = [worker EXCEPT ![w] = [pc |-> "settle", task |-> worker[w].task, got |-> a]]
Done(w) == worker' = [worker EXCEPT ![w] = Idle]
Key(w) == wanted[worker[w].task]

-----------------------------------------------------------------------------
(* The dispatcher.                                                         *)

\* A mistake: the loop runs one candidate too far.
OffersBeyond == next <= N + 1

Offers == next <= N

\* jobs <- job{index}: the dispatcher and a worker meet.
Handoff(w) ==
  /\ open /\ Offers /\ At(w, "receive")
  /\ worker' = [worker EXCEPT ![w] = [pc |-> "begin", task |-> next, got |-> None]]
  /\ next' = next + 1
  /\ UNCHANGED <<wanted, cancelled, open, shared, result>>

\* The loop ends, or ctx.Done() breaks it; close(jobs).
CloseJobs ==
  /\ open /\ (next > N \/ cancelled) /\ open' = FALSE
  /\ UNCHANGED <<wanted, cancelled, next, worker, shared, result>>

Outcome == IF cancelled THEN "cancelled" ELSE IF fatal # None THEN "limited" ELSE "report"

\* workers.Wait(), and the two errors that are looked at before the report.
Finish ==
  /\ ~open /\ result = "none" /\ \A w \in Workers : At(w, "exited")
  /\ result' = Outcome
  /\ UNCHANGED <<wanted, cancelled, next, open, worker, shared>>

-----------------------------------------------------------------------------
(* A worker.                                                               *)

\* for task := range jobs ends with the channel.
Exit(w) ==
  /\ ~open /\ At(w, "receive") /\ Goto(w, "exited")
  /\ UNCHANGED <<wanted, cancelled, next, open, shared, result>>

\* The candidate is dropped if the context is cancelled by now; ignored,
\* unsupported and contradictory candidates need no resolution.
Begin(w) ==
  /\ At(w, "begin")
  /\ IF cancelled
     THEN Done(w) /\ UNCHANGED updates
     ELSE IF Key(w) = None
     THEN Done(w) /\ updates' = [updates EXCEPT ![worker[w].task] = Skipped]
     ELSE Goto(w, "lookup") /\ UNCHANGED updates
  /\ UNCHANGED <<wanted, cancelled, next, open, cache, fatal, result>>

\* resolveCached under cacheMu: the first worker to ask becomes the resolver.
Lookup(w) ==
  /\ At(w, "lookup")
  /\ IF cache[Key(w)] = None
     THEN Goto(w, "resolve") /\ cache' = [cache EXCEPT ![Key(w)] = Pending]
     ELSE Goto(w, "wait") /\ UNCHANGED cache
  /\ UNCHANGED <<wanted, cancelled, next, open, updates, fatal, result>>

\* A mistake: an error returns before the entry is completed.
CompletedIfFound(w, a) ==
  IF a = Failed THEN cache ELSE [cache EXCEPT ![Key(w)] = a]

Completed(w, a) == [cache EXCEPT ![Key(w)] = a]

\* Resolver.Resolve returns, a cancelled one with any answer, and the entry is
\* completed: close(pending.done) releases everyone who waits for it.
Resolve(w) ==
  /\ At(w, "resolve")
  /\ \E a \in Answers : Got(w, a) /\ cache' = Completed(w, a)
  /\ UNCHANGED <<wanted, cancelled, next, open, updates, fatal, result>>

\* select between existing.done and ctx.Done(); both may be ready.
Wait(w) ==
  /\ At(w, "wait")
  /\ \/ cache[Key(w)] \in Answers /\ Got(w, cache[Key(w)])
     \/ cancelled /\ Got(w, Failed)
  /\ UNCHANGED <<wanted, cancelled, next, open, shared, result>>

\* A mistake: the first rate limit is kept.
FirstLimit(l) == IF fatal = None THEN l ELSE fatal

\* fatalErr keeps the rate limit that lasts longest, under fatalMu.
LaterLimit(l) == IF fatal = None \/ l > fatal THEN l ELSE fatal

\* A mistake: a rate limit ends the worker, not its task.
GivenUp(w) == IF worker[w].got \in Limits THEN [Idle EXCEPT !.pc = "exited"] ELSE Idle

Released(w) == Idle

Settle(w) ==
  /\ At(w, "settle") /\ worker' = [worker EXCEPT ![w] = Released(w)]
  /\ IF worker[w].got \in Limits
     THEN fatal' = LaterLimit(worker[w].got) /\ UNCHANGED updates
     ELSE updates' = [updates EXCEPT ![worker[w].task] = worker[w].got] /\ UNCHANGED fatal
  /\ UNCHANGED <<wanted, cancelled, next, open, cache, result>>

-----------------------------------------------------------------------------
\* The user interrupts, or the caller's deadline passes.
Cancel ==
  /\ result = "none" /\ ~cancelled /\ cancelled' = TRUE
  /\ UNCHANGED <<wanted, next, open, worker, shared, result>>

\* Scan has returned.
Returned == result # "none" /\ UNCHANGED vars

Init ==
  /\ wanted \in Inventories
  /\ cancelled = FALSE /\ next = 1 /\ open = TRUE
  /\ worker = [w \in Workers |-> Idle]
  /\ cache = [k \in Keys |-> None]
  /\ updates = [i \in Candidates |-> None]
  /\ fatal = None /\ result = "none"

Dispatch == CloseJobs \/ \E w \in Workers : Handoff(w)
Work(w) == Exit(w) \/ Begin(w) \/ Lookup(w) \/ Resolve(w) \/ Wait(w) \/ Settle(w)

Next == Dispatch \/ Finish \/ Cancel \/ Returned \/ \E w \in Workers : Work(w)

Spec == Init /\ [][Next]_vars

\* Goroutines that can run do run, and a resolver's requests time out.
FairSpec ==
  /\ Spec /\ WF_vars(Dispatch) /\ WF_vars(Finish)
  /\ \A w \in Workers : WF_vars(Work(w))

-----------------------------------------------------------------------------
TypeOK ==
  /\ wanted \in [Candidates -> Keys \cup {None}]
  /\ cancelled \in BOOLEAN /\ open \in BOOLEAN
  /\ next \in 1..(N + 1)
  /\ worker \in [Workers -> WorkerStates]
  /\ cache \in [Keys -> Answers \cup {None, Pending}]
  /\ updates \in [Candidates -> Answers \cup {None, Skipped}]
  /\ fatal \in Limits \cup {None}
  /\ result \in {"none", "cancelled", "limited", "report"}

\* Whoever waits for an answer waits for a worker that is getting it, so no
\* worker is left waiting when the others have exited (scan.go:61-77).
WaitersHaveResolver ==
  \A w \in Workers :
    At(w, "wait") /\ cache[Key(w)] = Pending =>
      \E v \in Workers : At(v, "resolve") /\ Key(v) = Key(w)

\* A report is returned only when no candidate was dropped, by cancelling or by
\* a rate limit (reliability_test.go:35, scan_test.go:68).
NoPartialReport ==
  result = "report" =>
    \A i \in Candidates :
      updates[i] = IF wanted[i] = None THEN Skipped ELSE cache[wanted[i]]

\* Every scan returns, cancelled or not (scan.go:121-136).
ScanReturns == <>(result # "none")

\* What a scan looks like from outside: answers are known when they are in the
\* cache, and a report or a rate limit when Scan has returned it.
Answered == [k \in Keys |-> IF cache[k] = Pending THEN None ELSE cache[k]]
LimitReturned == IF result = "limited" THEN fatal ELSE None
ReportReturned == IF result = "report" THEN updates ELSE [i \in Candidates |-> None]

\* The outcome is that of asking one question after the other, however many
\* workers there are and whatever the order they run in.
Sequential == INSTANCE SequentialScan WITH
  answered <- Answered, limit <- LimitReturned, report <- ReportReturned
ActsSequentially == Sequential!Spec
=============================================================================
