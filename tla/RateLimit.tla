------------------------------ MODULE RateLimit ------------------------------
(***************************************************************************)
(* The GitHub client that every part of the program shares                 *)
(* (internal/githubapi/client.go): concurrent callers of Client.Do behind  *)
(* one mutex, its waits and retries, and the cooldown it keeps in memory   *)
(* and in a state file, over several runs of the program.                  *)
(*                                                                         *)
(* Time is counted in units of one.  saveState replaces the file by a      *)
(* rename, so a process that dies leaves the old file or the new one.      *)
(***************************************************************************)
EXTENDS Integers

CONSTANTS
  None, Absent, Unreadable,  \* no value; a header that is missing, or garbage
  Callers,       \* the goroutines of one run, each with one request to make
  MaxRetries,    \* automation.rateLimit.maxRetries
  MaxWait,       \* automation.rateLimit.maxWait
  BaseDelay,     \* secondaryBaseDelay
  MaxDelay,      \* secondaryMaxDelay
  Replies,       \* the responses GitHub may give
  FirstFiles,    \* what the state file may hold before the first run
  Runs,          \* bound: starts of the program
  Horizon,       \* bound: time passes this instant only for a sleeper
  AttemptLimit   \* bound: limits of one kind in a row

VARIABLES
  now,         \* the clock
  persistent,  \* whether a state file is configured
  runs,        \* starts of the program so far
  up,          \* whether the program runs
  cancelled,   \* whether its context was cancelled
  state,       \* Client.state, the cooldown in memory
  file,        \* the state file
  holder,      \* the caller that holds Client.mu
  call,        \* the locals of that caller's Do
  at,          \* how far each caller is, or what its Do returned
  told,        \* the RetryAt of the RateLimitError each caller was given
  hist         \* history, for the properties only

process == <<persistent, runs, up, cancelled>>
vars == <<now, process, state, file, holder, call, at, told, hist>>

-----------------------------------------------------------------------------
Kinds == {"primary", "secondary"}

Cooldowns == [kind : Kinds, retryAt : Nat, attempts : Nat, updatedAt : Nat]

\* "unreadable" is every file that loadState cannot decode, "foreign" one that
\* names another host, "cleared" one whose Active is false.
Forms == {"missing", "unreadable", "foreign", "cleared", "active"}
Files == [form : Forms \ {"active"}, cooldown : {None}]
           \cup [form : {"active"}, cooldown : Cooldowns]

Holding(cooldown) == [form |-> "active", cooldown |-> cooldown]
Without(form) == [form |-> form, cooldown |-> None]

\* loadState accepts the file, or removes it and goes on.
Loadable(f) ==
  /\ f.form # "unreadable"
  /\ f.form = "active" => /\ f.cooldown.attempts >= 1
                          /\ f.cooldown.retryAt >= f.cooldown.updatedAt

\* A mistake: the program starts without the cooldown it finds.
LoadedNothing(f) == None

\* A mistake: the count of attempts is not carried over a restart.
LoadedAfresh(f) ==
  IF f.form = "active" THEN [f.cooldown EXCEPT !.attempts = 0] ELSE None

Loaded(f) == IF f.form = "active" THEN f.cooldown ELSE None
AfterLoad(f) == IF f.form \in {"foreign", "cleared"} THEN Without("missing") ELSE f

Steps == {"none", "top", "asleep", "sent", "limited", "saving", "recorded", "clearing"}
Calls == [pc : Steps, budget : Int, retries : Nat, wake : Nat,
          kind : Kinds, until : Nat]

Fresh == [pc |-> "none", budget |-> MaxWait, retries |-> 0, wake |-> 0,
          kind |-> "primary", until |-> 0]
Goto(pc) == [call EXCEPT !.pc = pc]

Outcomes == {"idle", "queued", "inside", "ok", "failed", "deferred"}

-----------------------------------------------------------------------------
(* What inspect makes of a response.                                       *)

\* exhausted: X-RateLimit-Remaining is 0.  throttled: the message names a
\* secondary limit or abuse detection.  graphql: the body is a GraphQL result
\* without data whose errors are all rate limits.  after: Retry-After, as a
\* delay; an HTTP date is one too, 0 when it has passed.  reset: the instant in
\* X-RateLimit-Reset.
Responses == [status : {"success", "forbidden", "toomany", "other"},
              exhausted : BOOLEAN, throttled : BOOLEAN, graphql : BOOLEAN,
              after : Nat \cup {Absent, Unreadable}, reset : Nat \cup {Absent}]

Primary(r) == r.exhausted /\ r.status \in {"forbidden", "toomany"}
Secondary(r) == \/ r.status = "toomany"
                \/ r.status = "forbidden" /\ (r.after # Absent \/ r.throttled)
GraphQL(r) == r.status = "success" /\ r.graphql

Limited(r) == Primary(r) \/ Secondary(r) \/ GraphQL(r)
KindOf(r) == IF Primary(r) \/ (GraphQL(r) /\ r.exhausted)
             THEN "primary" ELSE "secondary"

Later(s, t) == IF s < t THEN t ELSE s

\* The loop of secondaryDelay, one turn per further attempt.
SecondaryDelay[n \in 1..AttemptLimit] ==
  IF n = 1 THEN BaseDelay
  ELSE LET delay == SecondaryDelay[n - 1] IN
       IF delay >= MaxDelay THEN delay
       ELSE IF 2 * delay > MaxDelay THEN MaxDelay ELSE 2 * delay

Attempts(kind) == IF state # None /\ state.kind = kind
                  THEN state.attempts + 1 ELSE 1

RetryAt(r) ==
  IF r.after \notin {Absent, Unreadable} THEN now + r.after
  ELSE IF (Primary(r) \/ GraphQL(r)) /\ r.reset # Absent
       THEN Later(now, r.reset + 1)
       ELSE now + SecondaryDelay[Attempts(KindOf(r))]

-----------------------------------------------------------------------------
ASSUME BoundAssumption == {Runs, Horizon, AttemptLimit} \subseteq Nat
ASSUME DurationAssumption ==
  /\ MaxRetries \in Nat /\ MaxWait \in Nat
  /\ BaseDelay \in Nat /\ MaxDelay \in Nat /\ BaseDelay <= MaxDelay
ASSUME RepliesAssumption == Replies \subseteq Responses
ASSUME FirstFilesAssumption == FirstFiles \subseteq Files
ASSUME NoneAssumption == None \notin Callers /\ None \notin Cooldowns

-----------------------------------------------------------------------------
\* promised: until when the last cooldown that reached the file lasts.  kind,
\* count: the limits of that kind in a row that reached it.  own: the file is
\* of this client's writing.  faulty: a save failed in this run of the program.
Hists == [promised : Nat, kind : Kinds, count : Nat, own : BOOLEAN, faulty : BOOLEAN]

FirstPromise(f) == IF f.form = "active" /\ Loadable(f) THEN f.cooldown.retryAt ELSE 0

Init ==
  /\ now = 0 /\ runs = 0 /\ up = FALSE /\ cancelled = FALSE
  /\ persistent \in BOOLEAN
  /\ file \in IF persistent THEN FirstFiles ELSE {Without("missing")}
  /\ state = None /\ holder = None /\ call = Fresh
  /\ at = [c \in Callers |-> "idle"]
  /\ told = [c \in Callers |-> 0]
  /\ hist = [promised |-> FirstPromise(file), kind |-> "primary", count |-> 0,
             own |-> FALSE, faulty |-> FALSE]

\* githubapi.New with loadState; the file is missing or can be used.
Start ==
  /\ ~up /\ runs < Runs
  /\ Loadable(file)
  /\ up' = TRUE /\ runs' = runs + 1 /\ cancelled' = FALSE
  /\ state' = Loaded(file)
  /\ file' = AfterLoad(file)
  /\ UNCHANGED <<now, persistent, holder, call, at, told, hist>>

\* New fails: the file is no valid state, or reading or removing it fails.
Refuse ==
  /\ ~up /\ runs < Runs
  /\ persistent
  /\ runs' = runs + 1
  /\ UNCHANGED <<now, persistent, up, cancelled, state, file, holder, call, at, told, hist>>

\* The operator deletes a file the program refuses.
DeleteState ==
  /\ ~up /\ ~Loadable(file)
  /\ file' = Without("missing")
  /\ UNCHANGED <<now, process, state, holder, call, at, told, hist>>

\* The program ends, or is killed, whatever its callers are doing.
Stop ==
  /\ up
  /\ up' = FALSE
  /\ state' = None /\ holder' = None /\ call' = Fresh
  /\ at' = [c \in Callers |-> "idle"]
  /\ told' = [c \in Callers |-> 0]
  /\ hist' = [hist EXCEPT !.faulty = FALSE]
  /\ UNCHANGED <<now, persistent, runs, cancelled, file>>

\* The context of the whole program is cancelled.
Cancel ==
  /\ up /\ ~cancelled
  /\ cancelled' = TRUE
  /\ UNCHANGED <<now, persistent, runs, up, state, file, holder, call, at, told, hist>>

Tick ==
  /\ now < Horizon \/ (call.pc = "asleep" /\ now < call.wake)
  /\ now' = now + 1
  /\ UNCHANGED <<process, state, file, holder, call, at, told, hist>>

-----------------------------------------------------------------------------
(* Client.Do.                                                              *)

\* A caller reaches c.mu.Lock().
Request(c) ==
  /\ up /\ at[c] = "idle"
  /\ at' = [at EXCEPT ![c] = "queued"]
  /\ UNCHANGED <<now, process, state, file, holder, call, told, hist>>

Acquire(c) ==
  /\ at[c] = "queued" /\ holder = None
  /\ holder' = c
  /\ call' = Goto("top")
  /\ at' = [at EXCEPT ![c] = "inside"]
  /\ UNCHANGED <<now, process, state, file, told, hist>>

\* A mistake: an early return leaves the caller registered as inside.
ReturnUnlocked(outcome) == at' = at /\ holder' = None /\ call' = Fresh

\* The deferred Unlock runs with every return.
Return(outcome) ==
  /\ at' = [at EXCEPT ![holder] = outcome]
  /\ holder' = None
  /\ call' = Fresh

\* rateLimitError.
Defer ==
  /\ Return("deferred")
  /\ told' = [told EXCEPT ![holder] = state.retryAt]
  /\ UNCHANGED <<state, file, hist>>

Fail == Return("failed") /\ UNCHANGED <<state, file, told, hist>>

Advance(next) ==
  /\ call' = next
  /\ UNCHANGED <<state, file, holder, at, told, hist>>

\* A mistake: a cooldown is over one unit early.
CoolingShort == state # None /\ state.retryAt > now + 1

Cooling == state # None /\ state.retryAt > now

\* One turn of the loop, up to c.http.Do.  The clock is read twice in the code,
\* once for the test and once for the delay, and once here.
Top ==
  /\ call.pc = "top"
  /\ \/ cancelled /\ Fail
     \/ ~cancelled /\ Cooling /\ state.retryAt - now > call.budget /\ Defer
     \/ /\ ~cancelled /\ Cooling /\ state.retryAt - now <= call.budget
        /\ Advance([call EXCEPT !.pc = "asleep", !.wake = state.retryAt,
                                !.budget = call.budget - (state.retryAt - now)])
     \/ ~cancelled /\ ~Cooling /\ Advance(Goto("sent"))
  /\ UNCHANGED <<now, process>>

\* The sleep ends; nothing is checked again before the request is sent.
Wake ==
  /\ call.pc = "asleep"
  /\ \/ now >= call.wake /\ Advance(Goto("sent"))
     \/ cancelled /\ Fail
  /\ UNCHANGED <<now, process>>

\* The request cannot be made, times out, or its response cannot be inspected.
TransportFails == call.pc = "sent" /\ Fail /\ UNCHANGED <<now, process>>

\* A response that is no limit, whatever its status, clears the cooldown.
Accept(r) ==
  /\ call.pc = "sent" /\ ~Limited(r)
  /\ state' = None
  /\ IF state = None
     THEN Return("ok")
     ELSE call' = Goto("clearing") /\ UNCHANGED <<holder, at>>
  /\ hist' = [hist EXCEPT !.count = 0]
  /\ UNCHANGED <<now, process, file, told>>

Limit(r) ==
  /\ call.pc = "sent" /\ Limited(r)
  /\ Attempts(KindOf(r)) <= AttemptLimit
  /\ call' = [call EXCEPT !.pc = "limited", !.kind = KindOf(r), !.until = RetryAt(r)]
  /\ hist' = IF hist.kind = KindOf(r) THEN hist
             ELSE [hist EXCEPT !.kind = KindOf(r), !.count = 0]
  /\ UNCHANGED <<now, process, state, file, holder, at, told>>

\* A mistake: record trusts the instant inspect computed.
RecordedUnclamped == [kind |-> call.kind, retryAt |-> call.until,
                      attempts |-> Attempts(call.kind), updatedAt |-> now]

\* record, up to saveState: it reads the clock anew, later than inspect did.
Recorded == [kind |-> call.kind, retryAt |-> Later(now, call.until),
             attempts |-> Attempts(call.kind), updatedAt |-> now]

Record ==
  /\ call.pc = "limited"
  /\ state' = Recorded
  /\ call' = Goto("saving")
  /\ UNCHANGED <<now, process, file, holder, at, told, hist>>

\* A mistake: a file that exists is kept.
SavedOnce(f) == IF persistent /\ file.form = "missing" THEN f ELSE file

\* The file after a saveState that returned no error.
SavedAs(f) == IF persistent THEN f ELSE file

Saved ==
  /\ call.pc = "saving"
  /\ file' = SavedAs(Holding(state))
  /\ hist' = IF ~persistent THEN hist
             ELSE [hist EXCEPT !.promised = state.retryAt, !.count = hist.count + 1,
                                     !.own = TRUE]
  /\ call' = Goto("recorded")
  /\ UNCHANGED <<now, process, state, holder, at, told>>

SaveFails ==
  /\ call.pc = "saving" /\ persistent
  /\ Return("failed")
  /\ hist' = [hist EXCEPT !.faulty = TRUE]
  /\ UNCHANGED <<now, process, state, file, told>>

\* clearStateBestEffort has its saveState behind it, and ignores its error.
Cleared ==
  /\ call.pc = "clearing"
  /\ \/ /\ file' = SavedAs(Without("cleared"))
        /\ hist' = [hist EXCEPT !.own = hist.own \/ persistent]
     \/ persistent /\ UNCHANGED <<file, hist>>
  /\ Return("ok")
  /\ UNCHANGED <<now, process, state, told>>

\* The end of the loop: give the limit to the caller, or go round again.
Exhausted == \/ call.retries >= MaxRetries
             \/ Later(0, state.retryAt - now) > call.budget

\* A mistake: retries are not counted.
RetryUncounted(next) == [next EXCEPT !.pc = "top"]

Retry(next) == [next EXCEPT !.pc = "top", !.retries = next.retries + 1]

Again ==
  /\ call.pc = "recorded"
  /\ \/ Exhausted /\ Defer
     \/ ~Exhausted /\ Advance(Retry(call))
  /\ UNCHANGED <<now, process>>

-----------------------------------------------------------------------------
Do == \/ Top \/ Wake \/ TransportFails \/ Record \/ Saved \/ SaveFails
      \/ Cleared \/ Again
      \/ \E r \in Replies : Accept(r) \/ Limit(r)

Next == \/ Start \/ Refuse \/ DeleteState \/ Stop \/ Cancel \/ Tick
        \/ \E c \in Callers : Request(c) \/ Acquire(c)
        \/ Do

Spec == Init /\ [][Next]_vars

\* Time passes, the holder of the mutex runs on (http.Client.Timeout bounds the
\* request), and the mutex goes to whoever waits for it.
Fairness == WF_vars(Tick) /\ WF_vars(Do) /\ \A c \in Callers : WF_vars(Acquire(c))

FairSpec == Spec /\ Fairness

-----------------------------------------------------------------------------
(* Properties.                                                             *)

\* Every variable keeps its type, and at most one caller is inside Do: the one
\* that holds the mutex.
TypeOK ==
  /\ now \in Nat /\ runs \in Nat
  /\ persistent \in BOOLEAN /\ up \in BOOLEAN /\ cancelled \in BOOLEAN
  /\ state \in Cooldowns \cup {None}
  /\ file \in Files
  /\ holder \in Callers \cup {None}
  /\ call \in Calls
  /\ at \in [Callers -> Outcomes]
  /\ told \in [Callers -> Nat]
  /\ hist \in Hists
  /\ holder = None <=> call.pc = "none"
  /\ \A c \in Callers : at[c] = "inside" <=> holder = c

\* A request reaches GitHub only after the cooldown in memory is over, and after
\* every cooldown that ever reached the state file is: also when the program
\* died and was started again, and when a later save failed.
SentAfterCooldown ==
  call.pc = "sent" => /\ state # None => now >= state.retryAt
                      /\ now >= hist.promised

\* A save that failed leaves an old cooldown in the file.  While the program
\* runs, the file holds no cooldown that is still to be waited for but the one
\* in memory, so the next run never waits for a limit GitHub has lifted.
StaleFileHarmless ==
  up /\ file.form = "active" /\ file.cooldown.retryAt > now => state = file.cooldown

\* What this client wrote, it can read: no timing of record makes a state that
\* loadState rejects and that would stop every later run.
OwnStateLoads == hist.own => Loadable(file)

Outlasts(f, t) == f.form = "active" /\ Loadable(f) /\ f.cooldown.retryAt >= t

\* Unless a save failed, a caller that was told to come back at some time can
\* leave the waiting to the next run: until then the file holds a cooldown at
\* least that long.
DeferralDurable ==
  persistent /\ ~hist.faulty =>
    \A c \in Callers : at[c] = "deferred" => now >= told[c] \/ Outlasts(file, told[c])

\* Limits of one kind in a row are counted on, by the running program and by the
\* next one: the attempts that the next backoff starts from are at least as many
\* as the limits that reached the file since the last other response.
BackoffRemembered ==
  LET Counts(s) == s # None /\ s.kind = hist.kind /\ s.attempts >= hist.count IN
  hist.count > 0 => /\ file.form = "active" /\ Counts(file.cooldown)
                    /\ up => Counts(state)

\* A caller that asks for the mutex gets its answer: no retry, wait or failing
\* save keeps a call, or those queued behind it, from returning.
CallsReturn ==
  \A c \in Callers : at[c] = "queued" ~> at[c] \notin {"queued", "inside"}
=============================================================================
