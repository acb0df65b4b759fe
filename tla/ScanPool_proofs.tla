--------------------------- MODULE ScanPool_proofs ---------------------------
(***************************************************************************)
(* That a scan with any number of workers acts as a sequential one.        *)
(***************************************************************************)
EXTENDS ScanPool, TLAPS

-----------------------------------------------------------------------------
(* The inductive invariant.                                                *)

Busy(w) == worker[w].pc \notin {"receive", "exited"}
Asking == {"lookup", "wait", "resolve", "settle"}

\* What a worker is doing is a candidate that was handed over, and what it is
\* about to settle is the answer in the cache, unless it stopped waiting.
TasksOK ==
  \A w \in Workers :
    /\ Busy(w) => worker[w].task \in Candidates /\ worker[w].task < next
    /\ worker[w].pc \in Asking => Key(w) # None
    /\ At(w, "wait") => cache[Key(w)] # None
    /\ At(w, "settle") => /\ worker[w].got \in Answers
                          /\ \/ worker[w].got = cache[Key(w)]
                             \/ cancelled /\ worker[w].got = Failed

\* A question that is being asked is asked by one worker.
ResolversOK ==
  /\ \A w \in Workers : At(w, "resolve") => cache[Key(w)] = Pending
  /\ \A v, w \in Workers : At(v, "resolve") /\ At(w, "resolve") /\ Key(v) = Key(w) => v = w
  /\ \A k \in Keys : cache[k] = Pending => \E w \in Workers : At(w, "resolve") /\ Key(w) = k

\* What becomes of a candidate that was handed over.
Settled(i) ==
  /\ wanted[i] # None => cache[wanted[i]] \in Resolutions \cup {Failed}
  /\ updates[i] = IF wanted[i] = None THEN Skipped ELSE cache[wanted[i]]
Deferred(i) ==
  /\ wanted[i] # None /\ cache[wanted[i]] \in Limits
  /\ fatal # None /\ cache[wanted[i]] <= fatal
InWork(i) == \E w \in Workers : Busy(w) /\ worker[w].task = i

NothingLost ==
  ~cancelled =>
    \A i \in Candidates : i < next => Settled(i) \/ Deferred(i) \/ InWork(i)

\* The rate limit that is kept is one that was met.
FatalMet ==
  fatal # None => \E i \in Candidates : wanted[i] # None /\ cache[wanted[i]] = fatal

\* The scan ends in order: the channel, the workers, the result.
EndOK ==
  /\ ~open => next > N \/ cancelled
  /\ \A w \in Workers : At(w, "exited") => ~open
  /\ result # "none" => ~open /\ \A w \in Workers : At(w, "exited")
  /\ result = "report" => ~cancelled /\ fatal = None
  /\ result = "limited" => ~cancelled /\ fatal # None

IInv == TypeOK /\ TasksOK /\ ResolversOK /\ NothingLost /\ FatalMet /\ EndOK

-----------------------------------------------------------------------------
(* What the steps have in common                                            *)

\* The names are told apart.
LEMMA Distinct ==
  /\ None \notin Answers \cup Keys \cup {Pending, Skipped}
  /\ Pending \notin Answers \cup {Skipped} /\ Skipped \notin Answers
  /\ Failed \notin Limits
  /\ Resolutions \cup {Failed} = Answers \ Limits
  BY NameAssumption DEF Answers, Marks

\* The states a worker is given are states of a worker.
LEMMA WorkerTypes ==
  ASSUME TypeOK, NEW w \in Workers
  PROVE  /\ Idle \in WorkerStates
         /\ \A pc \in Steps : /\ [worker[w] EXCEPT !.pc = pc] \in WorkerStates
                              /\ [worker[w] EXCEPT !.pc = pc].pc = pc
                              /\ [worker[w] EXCEPT !.pc = pc].task = worker[w].task
         /\ \A a \in Answers :
              [pc |-> "settle", task |-> worker[w].task, got |-> a] \in WorkerStates
         /\ \A i \in Candidates : [pc |-> "begin", task |-> i, got |-> None] \in WorkerStates
<1>1. worker[w] \in WorkerStates
  BY DEF TypeOK
<1> QED BY <1>1 DEF Idle, WorkerStates, Steps

\* A worker that is asking has a candidate with a question.
LEMMA AskingKey ==
  ASSUME TypeOK, TasksOK, NEW w \in Workers, Busy(w)
  PROVE  /\ worker[w].task \in Candidates
         /\ worker[w].pc \in Asking => Key(w) \in Keys
  BY DEF TypeOK, TasksOK, Key

\* The other workers stay where they are.
LEMMA Moved ==
  ASSUME TypeOK, NEW w \in Workers, NEW s \in WorkerStates,
         worker' = [worker EXCEPT ![w] = s]
  PROVE  /\ worker' \in [Workers -> WorkerStates] /\ worker'[w] = s
         /\ \A v \in Workers : v # w => worker'[v] = worker[v]
  BY DEF TypeOK

LEMMA InitIInv == Init => IInv
<1> SUFFICES ASSUME Init PROVE IInv
  OBVIOUS
<1>1. TypeOK
  <2>1. Idle \in WorkerStates
    BY DEF Idle, WorkerStates, Steps
  <2>2. worker \in [Workers -> WorkerStates]
    BY <2>1 DEF Init
  <2>3. next \in 1..(N + 1)
    BY SizeAssumption DEF Init
  <2> QED BY <2>2, <2>3, InventoryAssumption DEF Init, TypeOK
<1>2. \A w \in Workers : worker[w] = Idle
  BY DEF Init
<1>3. TasksOK /\ EndOK
  BY <1>2 DEF Init, TasksOK, EndOK, Busy, Asking, At, Idle
<1>4. ResolversOK
  BY <1>2, NameAssumption DEF Init, ResolversOK, At, Idle
<1>5. NothingLost /\ FatalMet
  BY DEF Init, NothingLost, FatalMet, Candidates
<1> QED BY <1>1, <1>3, <1>4, <1>5 DEF IInv

-----------------------------------------------------------------------------
(* The steps of the dispatcher, and those that concern everyone            *)

LEMMA HandoffStep ==
  ASSUME IInv, NEW w \in Workers, Handoff(w) PROVE IInv'
<1> DEFINE s == [pc |-> "begin", task |-> next, got |-> None]
<1>1. next \in Candidates /\ next' \in 1..(N + 1) /\ next' = next + 1
  BY SizeAssumption DEF IInv, TypeOK, Handoff, Offers, Candidates
<1>2. s \in WorkerStates
  BY <1>1, WorkerTypes DEF IInv
<1>3. /\ worker' \in [Workers -> WorkerStates] /\ worker'[w] = s
      /\ \A v \in Workers : v # w => worker'[v] = worker[v]
  BY <1>2, Moved DEF IInv, Handoff
<1>4. UNCHANGED <<wanted, cancelled, open, cache, updates, fatal, result>> /\ At(w, "receive")
  BY DEF Handoff, shared
<1> HIDE DEF s
<1>5. s.pc = "begin" /\ s.task = next
  BY DEF s
<1>6. TypeOK'
  BY <1>1, <1>3, <1>4 DEF IInv, TypeOK
<1>7. TasksOK'
  BY <1>1, <1>3, <1>4, <1>5 DEF IInv, TypeOK, TasksOK, Busy, Asking, At, Key, Candidates
<1>8. ResolversOK'
  BY <1>3, <1>4, <1>5 DEF IInv, ResolversOK, At, Key
<1>9. NothingLost'
  <2> SUFFICES ASSUME ~cancelled, NEW i \in Candidates, i < next'
               PROVE Settled(i)' \/ Deferred(i)' \/ InWork(i)'
    BY <1>4 DEF NothingLost
  <2>1. CASE i = next
    BY <2>1, <1>3, <1>5 DEF InWork, Busy
  <2>2. CASE i < next
    <3>1. InWork(i) => InWork(i)'
      BY <1>3, <1>4 DEF InWork, Busy, At
    <3> QED BY <3>1, <2>2, <1>4 DEF IInv, NothingLost, Settled, Deferred
  <2> QED BY <2>1, <2>2, <1>1 DEF Candidates
<1>10. FatalMet'
  BY <1>4 DEF IInv, FatalMet
<1>11. EndOK'
  BY <1>1, <1>3, <1>4, <1>5 DEF IInv, TypeOK, EndOK, At, Handoff
<1> QED BY <1>6, <1>7, <1>8, <1>9, <1>10, <1>11 DEF IInv

LEMMA CloseStep ==
  ASSUME IInv, CloseJobs PROVE IInv'
<1>1. UNCHANGED <<wanted, cancelled, next, worker, cache, updates, fatal, result>>
      /\ open' = FALSE
  BY DEF CloseJobs, shared
<1>2. TypeOK' /\ TasksOK' /\ ResolversOK' /\ FatalMet'
  BY <1>1 DEF IInv, TypeOK, TasksOK, ResolversOK, FatalMet, Busy, At, Key
<1>3. NothingLost'
  BY <1>1 DEF IInv, NothingLost, Settled, Deferred, InWork, Busy
<1>4. EndOK'
  BY <1>1 DEF IInv, EndOK, At, CloseJobs
<1> QED BY <1>2, <1>3, <1>4 DEF IInv

LEMMA FinishStep ==
  ASSUME IInv, Finish PROVE IInv'
<1>1. UNCHANGED <<wanted, cancelled, next, open, worker, cache, updates, fatal>>
  BY DEF Finish, shared
<1>2. TypeOK' /\ TasksOK' /\ ResolversOK' /\ FatalMet'
  BY <1>1 DEF IInv, TypeOK, TasksOK, ResolversOK, FatalMet, Busy, At, Key, Finish, Outcome
<1>3. NothingLost'
  BY <1>1 DEF IInv, NothingLost, Settled, Deferred, InWork, Busy
<1>4. EndOK'
  BY <1>1 DEF IInv, EndOK, At, Finish, Outcome
<1> QED BY <1>2, <1>3, <1>4 DEF IInv

LEMMA CancelStep ==
  ASSUME IInv, Cancel PROVE IInv'
<1>1. UNCHANGED <<wanted, next, open, worker, cache, updates, fatal, result>>
      /\ cancelled' = TRUE
  BY DEF Cancel, shared
<1>2. TypeOK' /\ TasksOK' /\ ResolversOK' /\ FatalMet' /\ NothingLost'
  BY <1>1 DEF IInv, TypeOK, TasksOK, ResolversOK, FatalMet, NothingLost, Busy, At, Key
<1>3. EndOK'
  BY <1>1 DEF IInv, EndOK, At, Cancel
<1> QED BY <1>2, <1>3 DEF IInv

LEMMA StutterStep ==
  ASSUME IInv, UNCHANGED vars PROVE IInv'
<1>1. UNCHANGED <<wanted, cancelled, next, open, worker, cache, updates, fatal, result>>
  BY DEF vars, shared
<1>2. TypeOK' /\ TasksOK' /\ ResolversOK' /\ FatalMet' /\ EndOK'
  BY <1>1 DEF IInv, TypeOK, TasksOK, ResolversOK, FatalMet, EndOK, Busy, At, Key
<1>3. NothingLost'
  BY <1>1 DEF IInv, NothingLost, Settled, Deferred, InWork, Busy
<1> QED BY <1>2, <1>3 DEF IInv

-----------------------------------------------------------------------------
(* The steps of a worker.  Each changes one worker, and of the rest only a *)
(* little, so that most of the invariant is about that worker.             *)

LEMMA ExitStep ==
  ASSUME IInv, NEW w \in Workers, Exit(w) PROVE IInv'
<1> DEFINE s == [worker[w] EXCEPT !.pc = "exited"]
<1>1. s \in WorkerStates /\ s.pc = "exited"
  BY WorkerTypes DEF IInv, Steps
<1>2. /\ worker' \in [Workers -> WorkerStates] /\ worker'[w] = s
      /\ \A v \in Workers : v # w => worker'[v] = worker[v]
  BY <1>1, Moved DEF IInv, Exit, Goto
<1>3. UNCHANGED <<wanted, cancelled, next, open, cache, updates, fatal, result>>
      /\ At(w, "receive") /\ ~open
  BY DEF Exit, shared
<1> HIDE DEF s
<1>4. TypeOK' /\ FatalMet'
  BY <1>2, <1>3 DEF IInv, TypeOK, FatalMet
<1>5. TasksOK'
  BY <1>1, <1>2, <1>3 DEF IInv, TasksOK, Busy, Asking, At, Key
<1>6. ResolversOK'
  BY <1>1, <1>2, <1>3 DEF IInv, ResolversOK, At, Key
<1>7. \A i \in Candidates : InWork(i) => InWork(i)'
  BY <1>2, <1>3 DEF InWork, Busy, At
<1>8. NothingLost'
  BY <1>3, <1>7 DEF IInv, NothingLost, Settled, Deferred
<1>9. EndOK'
  BY <1>1, <1>2, <1>3 DEF IInv, EndOK, At
<1> QED BY <1>4, <1>5, <1>6, <1>8, <1>9 DEF IInv

LEMMA BeginStep ==
  ASSUME IInv, NEW w \in Workers, Begin(w) PROVE IInv'
<1>1. UNCHANGED <<wanted, cancelled, next, open, cache, fatal, result>> /\ At(w, "begin")
  BY DEF Begin
<1>2. Busy(w) /\ worker[w].task \in Candidates /\ worker[w].task < next /\ result = "none"
  BY <1>1 DEF IInv, TasksOK, EndOK, Busy, At, TypeOK
<1>3. CASE cancelled \/ Key(w) = None
  <2>1. /\ worker' = [worker EXCEPT ![w] = Idle]
        /\ IF cancelled THEN UNCHANGED updates
           ELSE updates' = [updates EXCEPT ![worker[w].task] = Skipped]
    BY <1>3 DEF Begin, Done
  <2>2. /\ worker' \in [Workers -> WorkerStates] /\ worker'[w] = Idle
        /\ \A v \in Workers : v # w => worker'[v] = worker[v]
    BY <2>1, WorkerTypes, Moved DEF IInv
  <2>3. Idle.pc = "receive"
    BY DEF Idle
  <2>4. TypeOK' /\ FatalMet'
    BY <1>1, <1>2, <2>1, <2>2 DEF IInv, TypeOK, FatalMet
  <2>5. TasksOK'
    BY <1>1, <2>2, <2>3 DEF IInv, TasksOK, Busy, Asking, At, Key
  <2>6. ResolversOK'
    BY <1>1, <2>2, <2>3 DEF IInv, ResolversOK, At, Key
  <2>7. NothingLost'
    <3> SUFFICES ASSUME ~cancelled, NEW i \in Candidates, i < next
                 PROVE Settled(i)' \/ Deferred(i)' \/ InWork(i)'
      BY <1>1 DEF NothingLost
    <3>1. CASE i = worker[w].task
      BY <3>1, <1>1, <1>2, <1>3, <2>1 DEF IInv, TypeOK, Settled, Key
    <3>2. CASE i # worker[w].task
      <4>1. InWork(i) => InWork(i)'
        BY <3>2, <2>2 DEF InWork, Busy
      <4>2. updates'[i] = updates[i]
        BY <3>2, <2>1 DEF IInv, TypeOK
      <4> QED BY <4>1, <4>2, <1>1 DEF IInv, NothingLost, Settled, Deferred
    <3> QED BY <3>1, <3>2
  <2>8. EndOK'
    BY <1>1, <1>2, <2>2, <2>3 DEF IInv, EndOK, At
  <2> QED BY <2>4, <2>5, <2>6, <2>7, <2>8 DEF IInv
<1>4. CASE ~cancelled /\ Key(w) # None
  <2> DEFINE s == [worker[w] EXCEPT !.pc = "lookup"]
  <2>1. worker' = [worker EXCEPT ![w] = s] /\ UNCHANGED updates
    BY <1>4 DEF Begin, Goto
  <2>2. s \in WorkerStates /\ s.pc = "lookup" /\ s.task = worker[w].task
    BY WorkerTypes DEF IInv, Steps
  <2> HIDE DEF s
  <2>3. /\ worker' \in [Workers -> WorkerStates] /\ worker'[w] = s
        /\ \A v \in Workers : v # w => worker'[v] = worker[v]
    BY <2>1, <2>2, Moved DEF IInv
  <2>4. TypeOK' /\ FatalMet'
    BY <1>1, <2>1, <2>3 DEF IInv, TypeOK, FatalMet
  <2>5. TasksOK'
    BY <1>1, <1>2, <1>4, <2>2, <2>3 DEF IInv, TasksOK, Busy, Asking, At, Key
  <2>6. ResolversOK'
    BY <1>1, <2>2, <2>3 DEF IInv, ResolversOK, At, Key
  <2>7. \A i \in Candidates : InWork(i) => InWork(i)'
    BY <2>2, <2>3 DEF InWork, Busy
  <2>8. NothingLost'
    BY <1>1, <2>1, <2>7 DEF IInv, NothingLost, Settled, Deferred
  <2>9. EndOK'
    BY <1>1, <1>2, <2>2, <2>3 DEF IInv, EndOK, At
  <2> QED BY <2>4, <2>5, <2>6, <2>8, <2>9 DEF IInv
<1> QED BY <1>3, <1>4

LEMMA LookupStep ==
  ASSUME IInv, NEW w \in Workers, Lookup(w) PROVE IInv'
<1> DEFINE k == Key(w)
           pc == IF cache[k] = None THEN "resolve" ELSE "wait"
           s == [worker[w] EXCEPT !.pc = pc]
<1>1. UNCHANGED <<wanted, cancelled, next, open, updates, fatal, result>> /\ At(w, "lookup")
  BY DEF Lookup
<1>2. /\ Busy(w) /\ worker[w].task \in Candidates /\ worker[w].task < next
      /\ result = "none" /\ k \in Keys /\ k # None
  BY <1>1 DEF IInv, TasksOK, EndOK, Busy, At, TypeOK, Key, Asking
<1>3. /\ worker' = [worker EXCEPT ![w] = s]
      /\ cache' = IF cache[k] = None THEN [cache EXCEPT ![k] = Pending] ELSE cache
  BY DEF Lookup, Goto
<1>4. s \in WorkerStates /\ s.pc = pc /\ s.task = worker[w].task
  BY WorkerTypes DEF IInv, Steps
<1>5. pc \in {"resolve", "wait"} /\ (pc = "resolve" <=> cache[k] = None)
  OBVIOUS
<1> HIDE DEF s, pc
<1>6. /\ worker' \in [Workers -> WorkerStates] /\ worker'[w] = s
      /\ \A v \in Workers : v # w => worker'[v] = worker[v]
  BY <1>3, <1>4, Moved DEF IInv
<1>7. \A v \in Workers : Key(v)' = Key(v)
  BY <1>1, <1>4, <1>6 DEF Key
<1>8. cache'[k] = (IF cache[k] = None THEN Pending ELSE cache[k])
      /\ \A q \in Keys : q # k => cache'[q] = cache[q]
  BY <1>2, <1>3 DEF IInv, TypeOK
<1>9. TypeOK'
  BY <1>1, <1>2, <1>3, <1>6 DEF IInv, TypeOK
<1>10. \A q \in Keys : cache[q] # None => cache'[q] = cache[q]
  BY <1>8
<1>11. TasksOK'
  <2> SUFFICES ASSUME NEW v \in Workers
               PROVE  /\ Busy(v)' => worker'[v].task \in Candidates /\ worker'[v].task < next'
                      /\ worker'[v].pc \in Asking => Key(v)' # None
                      /\ At(v, "wait")' => cache'[Key(v)'] # None
                      /\ At(v, "settle")' =>
                           /\ worker'[v].got \in Answers
                           /\ \/ worker'[v].got = cache'[Key(v)']
                              \/ cancelled' /\ worker'[v].got = Failed
    BY DEF TasksOK
  <2>1. CASE v = w
    BY <2>1, <1>1, <1>2, <1>4, <1>5, <1>6, <1>7, <1>8, Distinct DEF At
  <2>2. CASE v # w
    <3>1. worker'[v] = worker[v]
      BY <2>2, <1>6
    <3>2. At(v, "wait") \/ At(v, "settle") => Key(v) \in Keys
      BY AskingKey DEF IInv, At, Busy, Asking
    <3>3. At(v, "settle") /\ worker[v].got = cache[Key(v)] => cache'[Key(v)] = cache[Key(v)]
      BY <3>2, <1>10, Distinct DEF IInv, TasksOK
    <3>4. At(v, "wait") => cache'[Key(v)] # None
      BY <3>2, <1>10 DEF IInv, TasksOK
    <3> QED BY <3>1, <3>3, <3>4, <1>1, <1>7 DEF IInv, TasksOK, Busy, At
  <2> QED BY <2>1, <2>2
<1>12. ResolversOK'
  <2>1. \A v \in Workers : v # w => (At(v, "resolve")' <=> At(v, "resolve"))
    BY <1>6 DEF At
  <2>2. At(w, "resolve")' <=> cache[k] = None
    BY <1>4, <1>5, <1>6 DEF At
  <2>3. \A v \in Workers : At(v, "resolve") => v # w /\ Key(v) \in Keys /\ cache[Key(v)] = Pending
    BY <1>1, AskingKey DEF IInv, At, Busy, Asking, ResolversOK
  <2>4. \A v \in Workers : At(v, "resolve")' => cache'[Key(v)'] = Pending
    BY <2>1, <2>2, <2>3, <1>7, <1>8, <1>10, Distinct
  <2>5. \A u, v \in Workers :
          At(u, "resolve")' /\ At(v, "resolve")' /\ Key(u)' = Key(v)' => u = v
    BY <2>1, <2>2, <2>3, <1>7, Distinct DEF IInv, ResolversOK
  <2>6. \A q \in Keys : cache'[q] = Pending => \E v \in Workers : At(v, "resolve")' /\ Key(v)' = q
    <3> SUFFICES ASSUME NEW q \in Keys, cache'[q] = Pending
                 PROVE \E v \in Workers : At(v, "resolve")' /\ Key(v)' = q
      OBVIOUS
    <3>1. CASE q = k /\ cache[k] = None
      BY <3>1, <2>2, <1>7
    <3>2. CASE ~(q = k /\ cache[k] = None)
      <4>1. cache[q] = Pending
        BY <3>2, <1>8
      <4>2. PICK v \in Workers : At(v, "resolve") /\ Key(v) = q
        BY <4>1 DEF IInv, ResolversOK
      <4> QED BY <4>2, <2>1, <2>3, <1>7
    <3> QED BY <3>1, <3>2
  <2> QED BY <2>4, <2>5, <2>6 DEF ResolversOK
<1>13. \A i \in Candidates : InWork(i) => InWork(i)'
  BY <1>4, <1>5, <1>6 DEF InWork, Busy
<1>14. \A i \in Candidates : wanted[i] # None => wanted[i] \in Keys
  BY DEF IInv, TypeOK
<1>15. NothingLost'
  <2>1. \A i \in Candidates : Settled(i) => Settled(i)'
    BY <1>1, <1>10, <1>14, Distinct DEF Settled, Answers
  <2>2. \A i \in Candidates : Deferred(i) => Deferred(i)'
    BY <1>1, <1>10, <1>14, Distinct DEF Deferred, Answers
  <2> QED BY <2>1, <2>2, <1>1, <1>13 DEF IInv, NothingLost
<1>16. FatalMet'
  <2> SUFFICES ASSUME fatal # None
               PROVE \E i \in Candidates : wanted[i] # None /\ cache'[wanted[i]] = fatal
    BY <1>1 DEF FatalMet
  <2>1. PICK i \in Candidates : wanted[i] # None /\ cache[wanted[i]] = fatal
    BY DEF IInv, FatalMet
  <2> QED BY <2>1, <1>10, <1>14
<1>17. EndOK'
  BY <1>1, <1>2, <1>4, <1>5, <1>6 DEF IInv, EndOK, At
<1> QED BY <1>9, <1>11, <1>12, <1>15, <1>16, <1>17 DEF IInv

LEMMA ResolveStep ==
  ASSUME IInv, NEW w \in Workers, Resolve(w) PROVE IInv'
<1> DEFINE k == Key(w)
<1>1. UNCHANGED <<wanted, cancelled, next, open, updates, fatal, result>> /\ At(w, "resolve")
  BY DEF Resolve
<1>2. /\ Busy(w) /\ worker[w].task \in Candidates /\ worker[w].task < next
      /\ result = "none" /\ k \in Keys /\ k # None /\ cache[k] = Pending
  BY <1>1 DEF IInv, TasksOK, ResolversOK, EndOK, Busy, At, TypeOK, Key, Asking
<1>3. PICK a \in Answers : Got(w, a) /\ cache' = [cache EXCEPT ![k] = a]
  BY DEF Resolve, Completed
<1> DEFINE s == [pc |-> "settle", task |-> worker[w].task, got |-> a]
<1>4. worker' = [worker EXCEPT ![w] = s] /\ s \in WorkerStates
  BY <1>3, WorkerTypes DEF IInv, Got
<1>5. s.pc = "settle" /\ s.task = worker[w].task /\ s.got = a
  OBVIOUS
<1> HIDE DEF s
<1>6. /\ worker' \in [Workers -> WorkerStates] /\ worker'[w] = s
      /\ \A v \in Workers : v # w => worker'[v] = worker[v]
  BY <1>4, Moved DEF IInv
<1>7. \A v \in Workers : Key(v)' = Key(v)
  BY <1>1, <1>5, <1>6 DEF Key
<1>8. cache'[k] = a /\ \A q \in Keys : q # k => cache'[q] = cache[q]
  BY <1>2, <1>3 DEF IInv, TypeOK
<1>9. TypeOK'
  BY <1>1, <1>2, <1>3, <1>6 DEF IInv, TypeOK
<1>10. \A q \in Keys : cache[q] \in Answers => cache'[q] = cache[q]
  BY <1>2, <1>8, Distinct
<1>11. TasksOK'
  <2> SUFFICES ASSUME NEW v \in Workers
               PROVE  /\ Busy(v)' => worker'[v].task \in Candidates /\ worker'[v].task < next'
                      /\ worker'[v].pc \in Asking => Key(v)' # None
                      /\ At(v, "wait")' => cache'[Key(v)'] # None
                      /\ At(v, "settle")' =>
                           /\ worker'[v].got \in Answers
                           /\ \/ worker'[v].got = cache'[Key(v)']
                              \/ cancelled' /\ worker'[v].got = Failed
    BY DEF TasksOK
  <2>1. CASE v = w
    BY <2>1, <1>1, <1>2, <1>5, <1>6, <1>7, <1>8 DEF At
  <2>2. CASE v # w
    <3>1. worker'[v] = worker[v]
      BY <2>2, <1>6
    <3>2. At(v, "wait") \/ At(v, "settle") => Key(v) \in Keys
      BY AskingKey DEF IInv, At, Busy, Asking
    <3>3. At(v, "settle") /\ worker[v].got = cache[Key(v)] => cache'[Key(v)] = cache[Key(v)]
      BY <3>2, <1>10 DEF IInv, TasksOK
    <3>4. At(v, "wait") => cache'[Key(v)] # None
      BY <3>2, <1>8, Distinct DEF IInv, TasksOK
    <3> QED BY <3>1, <3>3, <3>4, <1>1, <1>7 DEF IInv, TasksOK, Busy, At
  <2> QED BY <2>1, <2>2
<1>12. ResolversOK'
  <2>1. \A v \in Workers : v # w => (At(v, "resolve")' <=> At(v, "resolve"))
    BY <1>6 DEF At
  <2>2. ~At(w, "resolve")'
    BY <1>5, <1>6 DEF At
  <2>3. \A v \in Workers : At(v, "resolve") => Key(v) \in Keys /\ cache[Key(v)] = Pending
    BY AskingKey DEF IInv, At, Busy, Asking, ResolversOK
  <2>4. \A v \in Workers : At(v, "resolve") /\ v # w => Key(v) # k
    BY <1>1 DEF IInv, ResolversOK
  <2>5. \A v \in Workers : At(v, "resolve")' => cache'[Key(v)'] = Pending
    BY <2>1, <2>2, <2>3, <2>4, <1>7, <1>8
  <2>6. \A u, v \in Workers :
          At(u, "resolve")' /\ At(v, "resolve")' /\ Key(u)' = Key(v)' => u = v
    BY <2>1, <2>2, <1>7 DEF IInv, ResolversOK
  <2>7. \A q \in Keys : cache'[q] = Pending => \E v \in Workers : At(v, "resolve")' /\ Key(v)' = q
    <3> SUFFICES ASSUME NEW q \in Keys, cache'[q] = Pending
                 PROVE \E v \in Workers : At(v, "resolve")' /\ Key(v)' = q
      OBVIOUS
    <3>1. q # k /\ cache[q] = Pending
      BY <1>8, Distinct
    <3>2. PICK v \in Workers : At(v, "resolve") /\ Key(v) = q
      BY <3>1 DEF IInv, ResolversOK
    <3> QED BY <3>1, <3>2, <2>1, <1>7
  <2> QED BY <2>5, <2>6, <2>7 DEF ResolversOK
<1>13. \A i \in Candidates : InWork(i) => InWork(i)'
  BY <1>5, <1>6 DEF InWork, Busy
<1>14. \A i \in Candidates : wanted[i] # None => wanted[i] \in Keys
  BY DEF IInv, TypeOK
<1>15. NothingLost'
  <2>1. \A i \in Candidates : Settled(i) => Settled(i)'
    BY <1>1, <1>10, <1>14 DEF Settled, Answers
  <2>2. \A i \in Candidates : Deferred(i) => Deferred(i)'
    BY <1>1, <1>10, <1>14 DEF Deferred, Answers
  <2> QED BY <2>1, <2>2, <1>1, <1>13 DEF IInv, NothingLost
<1>16. FatalMet'
  <2> SUFFICES ASSUME fatal # None
               PROVE \E i \in Candidates : wanted[i] # None /\ cache'[wanted[i]] = fatal
    BY <1>1 DEF FatalMet
  <2>1. PICK i \in Candidates : wanted[i] # None /\ cache[wanted[i]] = fatal
    BY DEF IInv, FatalMet
  <2>2. fatal \in Answers
    BY DEF IInv, TypeOK, Answers
  <2> QED BY <2>1, <2>2, <1>10, <1>14
<1>17. EndOK'
  BY <1>1, <1>2, <1>5, <1>6 DEF IInv, EndOK, At
<1> QED BY <1>9, <1>11, <1>12, <1>15, <1>16, <1>17 DEF IInv

LEMMA WaitStep ==
  ASSUME IInv, NEW w \in Workers, Wait(w) PROVE IInv'
<1>1. UNCHANGED <<wanted, cancelled, next, open, cache, updates, fatal, result>> /\ At(w, "wait")
  BY DEF Wait, shared
<1>2. /\ Busy(w) /\ worker[w].task \in Candidates /\ worker[w].task < next
      /\ result = "none" /\ Key(w) # None
  BY <1>1 DEF IInv, TasksOK, EndOK, Busy, At, TypeOK, Asking
<1>3. PICK a \in Answers : Got(w, a) /\ (a = cache[Key(w)] \/ (cancelled /\ a = Failed))
  BY DEF Wait, Answers
<1> DEFINE s == [pc |-> "settle", task |-> worker[w].task, got |-> a]
<1>4. worker' = [worker EXCEPT ![w] = s] /\ s \in WorkerStates
  BY <1>3, WorkerTypes DEF IInv, Got
<1>5. s.pc = "settle" /\ s.task = worker[w].task /\ s.got = a
  OBVIOUS
<1> HIDE DEF s
<1>6. /\ worker' \in [Workers -> WorkerStates] /\ worker'[w] = s
      /\ \A v \in Workers : v # w => worker'[v] = worker[v]
  BY <1>4, Moved DEF IInv
<1>7. TypeOK' /\ FatalMet'
  BY <1>1, <1>6 DEF IInv, TypeOK, FatalMet
<1>8. TasksOK'
  BY <1>1, <1>2, <1>3, <1>5, <1>6 DEF IInv, TasksOK, Busy, At, Key
<1>9. ResolversOK'
  BY <1>1, <1>5, <1>6 DEF IInv, ResolversOK, At, Key
<1>10. \A i \in Candidates : InWork(i) => InWork(i)'
  BY <1>5, <1>6 DEF InWork, Busy
<1>11. NothingLost'
  BY <1>1, <1>10 DEF IInv, NothingLost, Settled, Deferred
<1>12. EndOK'
  BY <1>1, <1>2, <1>5, <1>6 DEF IInv, EndOK, At
<1> QED BY <1>7, <1>8, <1>9, <1>11, <1>12 DEF IInv

\* LaterLimit keeps the latest.
LEMMA LaterLimitLatest ==
  ASSUME TypeOK, NEW l \in Limits
  PROVE  /\ LaterLimit(l) \in {l, fatal} /\ LaterLimit(l) \in Limits
         /\ l <= LaterLimit(l) /\ (fatal # None => fatal <= LaterLimit(l))
<1>1. l \in Nat /\ l <= l
  BY LimitAssumption
<1>2. CASE fatal = None
  BY <1>1, <1>2 DEF LaterLimit
<1>3. CASE fatal # None
  <2>1. fatal \in Limits /\ fatal \in Nat
    BY <1>3, LimitAssumption DEF TypeOK
  <2>2. CASE l > fatal
    <3>1. LaterLimit(l) = l
      BY <2>2 DEF LaterLimit
    <3> QED BY <1>1, <2>1, <2>2, <3>1
  <2>3. CASE ~(l > fatal)
    <3>1. LaterLimit(l) = fatal
      BY <1>3, <2>3 DEF LaterLimit
    <3> QED BY <1>1, <2>1, <2>3, <3>1
  <2> QED BY <2>2, <2>3
<1> QED BY <1>2, <1>3

LEMMA SettleStep ==
  ASSUME IInv, NEW w \in Workers, Settle(w) PROVE IInv'
<1> DEFINE a == worker[w].got
           t == worker[w].task
<1>1. UNCHANGED <<wanted, cancelled, next, open, cache, result>> /\ At(w, "settle")
  BY DEF Settle
<1>2. /\ Busy(w) /\ t \in Candidates /\ t < next /\ result = "none"
      /\ Key(w) = wanted[t] /\ wanted[t] # None /\ wanted[t] \in Keys
      /\ a \in Answers /\ (a = cache[wanted[t]] \/ (cancelled /\ a = Failed))
  BY <1>1 DEF IInv, TasksOK, EndOK, Busy, At, TypeOK, Key, Asking
<1>3. /\ worker' = [worker EXCEPT ![w] = Idle]
      /\ IF a \in Limits THEN fatal' = LaterLimit(a) /\ UNCHANGED updates
         ELSE updates' = [updates EXCEPT ![t] = a] /\ UNCHANGED fatal
  BY DEF Settle, Released
<1>4. /\ worker' \in [Workers -> WorkerStates] /\ worker'[w] = Idle
      /\ \A v \in Workers : v # w => worker'[v] = worker[v]
  BY <1>3, WorkerTypes, Moved DEF IInv
<1>5. Idle.pc = "receive"
  BY DEF Idle
<1>6. a \in Limits => /\ fatal' \in {a, fatal} /\ fatal' \in Limits /\ a <= fatal'
                      /\ fatal # None => fatal <= fatal'
  BY <1>3, LaterLimitLatest DEF IInv
<1>7. TypeOK'
  <2>1. fatal' \in Limits \cup {None}
    BY <1>3, <1>6 DEF IInv, TypeOK
  <2>2. updates' \in [Candidates -> Answers \cup {None, Skipped}]
    BY <1>2, <1>3 DEF IInv, TypeOK
  <2> QED BY <2>1, <2>2, <1>1, <1>4 DEF IInv, TypeOK
<1>8. TasksOK'
  BY <1>1, <1>4, <1>5 DEF IInv, TasksOK, Busy, Asking, At, Key
<1>9. ResolversOK'
  BY <1>1, <1>4, <1>5 DEF IInv, ResolversOK, At, Key
<1>10. NothingLost'
  <2> SUFFICES ASSUME ~cancelled, NEW i \in Candidates, i < next
               PROVE Settled(i)' \/ Deferred(i)' \/ InWork(i)'
    BY <1>1 DEF NothingLost
  <2>1. Deferred(i) => Deferred(i)'
    <3> SUFFICES ASSUME Deferred(i) PROVE Deferred(i)'
      OBVIOUS
    <3>1. CASE a \in Limits
      <4>1. fatal \in Limits /\ fatal' \in Limits /\ cache[wanted[i]] \in Limits
        BY <3>1, <1>6 DEF Deferred, IInv, TypeOK
      <4>2. cache[wanted[i]] <= fatal /\ fatal <= fatal'
        BY <3>1, <1>6 DEF Deferred
      <4>3. cache[wanted[i]] <= fatal'
        BY <4>1, <4>2, LimitAssumption
      <4> QED BY <4>1, <4>3, <1>1, Distinct DEF Deferred, Answers
    <3>2. CASE a \notin Limits
      BY <3>2, <1>1, <1>3 DEF Deferred
    <3> QED BY <3>1, <3>2
  <2>2. CASE i = t
    <3>1. a = cache[wanted[t]]
      BY <1>2
    <3>2. CASE a \in Limits
      <4>1. fatal' # None
        BY <3>2, <1>6, Distinct DEF Answers
      <4> QED BY <4>1, <2>2, <3>1, <3>2, <1>1, <1>2, <1>6 DEF Deferred
    <3>3. CASE a \notin Limits
      <4>1. updates'[t] = a
        BY <3>3, <1>2, <1>3 DEF IInv, TypeOK
      <4>2. a \in Resolutions \cup {Failed}
        BY <3>3, <1>2 DEF Answers
      <4> QED BY <2>2, <4>1, <4>2, <3>1, <1>1, <1>2 DEF Settled
    <3> QED BY <3>2, <3>3
  <2>3. CASE i # t
    <3>1. InWork(i) => InWork(i)'
      BY <2>3, <1>4 DEF InWork, Busy
    <3>2. updates'[i] = updates[i]
      BY <2>3, <1>3 DEF IInv, TypeOK
    <3>3. Settled(i) => Settled(i)'
      BY <3>2, <1>1 DEF Settled
    <3> QED BY <2>1, <3>1, <3>3 DEF IInv, NothingLost
  <2> QED BY <2>2, <2>3
<1>11. FatalMet'
  <2>1. CASE a \in Limits /\ fatal' = a
    <3>1. a = cache[wanted[t]]
      BY <2>1, <1>2, Distinct
    <3> QED BY <2>1, <3>1, <1>1, <1>2 DEF FatalMet
  <2>2. CASE fatal' = fatal
    BY <2>2, <1>1 DEF IInv, FatalMet
  <2> QED BY <2>1, <2>2, <1>3, <1>6
<1>12. EndOK'
  BY <1>1, <1>2, <1>4, <1>5 DEF IInv, EndOK, At
<1> QED BY <1>7, <1>8, <1>9, <1>10, <1>11, <1>12 DEF IInv

-----------------------------------------------------------------------------
(* The invariant and what follows from it                                  *)

LEMMA StepIInv == IInv /\ [Next]_vars => IInv'
<1> SUFFICES ASSUME IInv, [Next]_vars PROVE IInv'
  OBVIOUS
<1>1. CASE Dispatch
  BY <1>1, HandoffStep, CloseStep DEF Dispatch
<1>2. ASSUME NEW w \in Workers, Work(w) PROVE IInv'
  BY <1>2, ExitStep, BeginStep, LookupStep, ResolveStep, WaitStep, SettleStep DEF Work
<1>3. CASE Finish
  BY <1>3, FinishStep
<1>4. CASE Cancel
  BY <1>4, CancelStep
<1>5. CASE Returned \/ UNCHANGED vars
  BY <1>5, StutterStep DEF Returned
<1> QED BY <1>1, <1>2, <1>3, <1>4, <1>5 DEF Next

\* The invariant holds throughout.
THEOREM Invariance == Spec => []IInv
<1>1. Init => IInv
  BY InitIInv
<1>2. IInv /\ [Next]_vars => IInv'
  BY StepIInv
<1> QED BY <1>1, <1>2, PTL DEF Spec

\* Every variable of the scan has its type.
THEOREM TypeCorrect == Spec => []TypeOK
<1>1. IInv => TypeOK
  BY DEF IInv
<1> QED BY <1>1, Invariance, PTL

\* Nobody waits for an answer that no worker is getting.
THEOREM NobodyWaitsAlone == Spec => []WaitersHaveResolver
<1>1. IInv => WaitersHaveResolver
  BY AskingKey DEF IInv, WaitersHaveResolver, ResolversOK, At, Busy, Asking
<1> QED BY <1>1, Invariance, PTL

\* What the end of the scan means for the candidates.
LEMMA AllHandled ==
  ASSUME IInv, ~open, ~cancelled, \A w \in Workers : At(w, "exited")
  PROVE  \A i \in Candidates : Settled(i) \/ Deferred(i)
<1>1. \A i \in Candidates : i < next
  BY SizeAssumption DEF IInv, TypeOK, EndOK, Candidates
<1>2. \A i \in Candidates : ~InWork(i)
  BY DEF InWork, Busy, At
<1> QED BY <1>1, <1>2 DEF IInv, NothingLost

\* A report has an entry for every candidate, made from the answer to its question.
THEOREM ReportsComplete == Spec => []NoPartialReport
<1>1. IInv => NoPartialReport
  <2> SUFFICES ASSUME IInv, result = "report" PROVE NoPartialReport
    BY DEF NoPartialReport
  <2>1. ~open /\ ~cancelled /\ fatal = None /\ \A w \in Workers : At(w, "exited")
    BY DEF IInv, EndOK
  <2> QED BY <2>1, AllHandled DEF NoPartialReport, Settled, Deferred
<1> QED BY <1>1, Invariance, PTL

-----------------------------------------------------------------------------
(* A pool of workers acts as a sequential scan: an answer put into the cache *)
(* is a question asked, and what else happens before the end is a stutter.   *)

\* A step that returns nothing and answers nothing is not seen from outside.
LEMMA Unseen ==
  ASSUME result = "none", UNCHANGED <<wanted, cancelled, result>>, Answered' = Answered
  PROVE  UNCHANGED Sequential!vars
  BY DEF Sequential!vars, LimitReturned, ReportReturned

LEMMA StepRefines ==
  IInv /\ [Next]_vars => [Sequential!Next]_(Sequential!vars)
<1> SUFFICES ASSUME IInv, [Next]_vars PROVE Sequential!Next \/ UNCHANGED Sequential!vars
  OBVIOUS
<1>1. \A w \in Workers : ~At(w, "exited") => result = "none"
  BY DEF IInv, TypeOK, EndOK
<1>2. ASSUME NEW w \in Workers, Handoff(w) PROVE UNCHANGED Sequential!vars
  BY <1>1, <1>2, Unseen DEF Handoff, At, shared, Answered
<1>3. ASSUME CloseJobs PROVE UNCHANGED Sequential!vars
  BY <1>3, Unseen DEF CloseJobs, shared, Answered, IInv, TypeOK, EndOK
<1>4. ASSUME NEW w \in Workers, Work(w), ~Resolve(w) PROVE UNCHANGED Sequential!vars
  <2>1. ~At(w, "exited") /\ UNCHANGED <<wanted, cancelled, result>>
    BY <1>4 DEF Work, Exit, Begin, Lookup, Wait, Settle, At
  <2>2. CASE UNCHANGED cache
    BY <1>1, <2>1, <2>2, Unseen DEF Answered
  <2>3. CASE Lookup(w) /\ cache[Key(w)] = None
    <3>1. cache' = [cache EXCEPT ![Key(w)] = Pending]
      BY <2>3 DEF Lookup
    <3>2. \A k \in Keys : cache'[k] = cache[k] \/ (cache[k] = None /\ cache'[k] = Pending)
      BY <2>3, <3>1 DEF IInv, TypeOK
    <3>3. Answered' = Answered
      BY <3>2, Distinct DEF Answered
    <3> QED BY <1>1, <2>1, <3>3, Unseen
  <2> QED
    BY <1>4, <2>2, <2>3 DEF Work, Exit, Begin, Lookup, Wait, Settle, shared
<1>5. ASSUME NEW w \in Workers, Resolve(w) PROVE \E k \in Keys : Sequential!Ask(k)
  <2>1. /\ At(w, "resolve") /\ result = "none"
        /\ UNCHANGED <<wanted, cancelled, fatal, updates, result>>
    BY <1>1, <1>5 DEF Resolve, At
  <2>2. /\ worker[w].task \in Candidates /\ Key(w) \in Keys /\ Key(w) # None
        /\ cache[Key(w)] = Pending
    BY <2>1, AskingKey DEF IInv, TasksOK, ResolversOK, At, Busy, Asking
  <2>3. PICK a \in Answers : cache' = [cache EXCEPT ![Key(w)] = a]
    BY <1>5 DEF Resolve, Completed
  <2>4. Answered[Key(w)] = None
    BY <2>2 DEF Answered
  <2>5. Answered' = [Answered EXCEPT ![Key(w)] = a]
    <3>1. \A k \in Keys : cache'[k] = IF k = Key(w) THEN a ELSE cache[k]
      BY <2>2, <2>3 DEF IInv, TypeOK
    <3>2. \A k \in Keys : Answered'[k] = IF k = Key(w) THEN a ELSE Answered[k]
      BY <3>1, Distinct DEF Answered
    <3> QED BY <3>2 DEF Answered
  <2>6. Key(w) \in Sequential!Needed
    BY <2>2 DEF Sequential!Needed, Key
  <2>7. Sequential!Ask(Key(w))
    BY <2>1, <2>4, <2>5, <2>6
    DEF Sequential!Ask, Sequential!Running, Sequential!Answers, Answers, LimitReturned, ReportReturned
  <2> QED BY <2>2, <2>7
<1>6. ASSUME Cancel PROVE Sequential!Cancel
  BY <1>6 DEF Cancel, shared, Sequential!Cancel, Sequential!Running, Answered, LimitReturned,
              ReportReturned
<1>7. ASSUME Finish PROVE Sequential!Next
  <2>1. /\ UNCHANGED <<wanted, cancelled, cache, updates, fatal>> /\ ~open /\ result = "none"
        /\ \A w \in Workers : At(w, "exited")
        /\ result' = Outcome /\ Answered' = Answered
    BY <1>7 DEF Finish, shared, Answered
  <2>2. CASE cancelled
    <3>1. Sequential!Abort
      BY <2>1, <2>2
      DEF Outcome, Sequential!Abort, Sequential!Running, LimitReturned, ReportReturned
    <3> QED BY <3>1 DEF Sequential!Next
  <2>3. ASSUME ~cancelled PROVE Sequential!Next
    <3>1. \A i \in Candidates : Settled(i) \/ Deferred(i)
      BY <2>1, <2>3, AllHandled
    <3>2. \A i \in Candidates :
            wanted[i] # None => /\ wanted[i] \in Keys /\ cache[wanted[i]] \in Answers
                                /\ Answered[wanted[i]] = cache[wanted[i]]
      BY <3>1, Distinct DEF IInv, TypeOK, Settled, Deferred, Answers, Answered
    <3>3. Sequential!Complete
      BY <2>1, <2>3, <3>2, Distinct DEF Sequential!Complete, Sequential!Running, Sequential!Needed
    <3>4. CASE fatal # None
      <4>1. PICK i \in Candidates : wanted[i] # None /\ cache[wanted[i]] = fatal
        BY <3>4 DEF IInv, FatalMet
      <4>2. fatal \in Limits
        BY <3>4 DEF IInv, TypeOK
      <4>3. fatal \in Sequential!Met
        BY <4>1, <4>2, <3>2 DEF Sequential!Met, Sequential!Needed
      <4>4. \A l \in Sequential!Met : l <= fatal
        <5> SUFFICES ASSUME NEW j \in Candidates, wanted[j] # None, cache[wanted[j]] \in Limits
                     PROVE cache[wanted[j]] <= fatal
          BY <3>2 DEF Sequential!Met, Sequential!Needed
        <5>1. ~Settled(j)
          BY Distinct, NameAssumption DEF Settled
        <5> QED BY <3>1, <5>1 DEF Deferred
      <4>5. Sequential!Defer
        BY <2>1, <2>3, <3>3, <3>4, <4>3, <4>4
        DEF Sequential!Defer, Outcome, LimitReturned, ReportReturned
      <4> QED BY <4>5 DEF Sequential!Next
    <3>5. CASE fatal = None
      <4>1. \A i \in Candidates : Settled(i)
        BY <3>1, <3>5 DEF Deferred
      <4>2. Sequential!Met = {}
        BY <3>2, <4>1, Distinct, NameAssumption DEF Sequential!Met, Sequential!Needed, Settled
      <4>3. updates = [i \in Candidates |->
                         IF wanted[i] = None THEN Skipped ELSE Answered[wanted[i]]]
        BY <3>2, <4>1 DEF IInv, TypeOK, Settled
      <4>4. Sequential!Report
        BY <2>1, <2>3, <3>3, <3>5, <4>2, <4>3
        DEF Sequential!Report, Outcome, LimitReturned, ReportReturned
      <4> QED BY <4>4 DEF Sequential!Next
    <3> QED BY <3>4, <3>5
  <2> QED BY <2>2, <2>3
<1>8. ASSUME Returned \/ UNCHANGED vars PROVE UNCHANGED Sequential!vars
  BY <1>8 DEF Returned, vars, shared, Sequential!vars, Answered, LimitReturned, ReportReturned
<1> QED
  BY <1>2, <1>3, <1>4, <1>5, <1>6, <1>7, <1>8 DEF Next, Dispatch, Sequential!Next

\* A scan with any number of workers implements SequentialScan.
THEOREM Implements == Spec => ActsSequentially
<1>1. Init => Sequential!Init
  BY NameAssumption DEF Init, Sequential!Init, Answered, LimitReturned, ReportReturned
<1>2. Spec => [][Sequential!Next]_(Sequential!vars)
  BY StepRefines, Invariance, PTL DEF Spec
<1> QED BY <1>1, <1>2, PTL DEF Spec, ActsSequentially, Sequential!Spec
=============================================================================
