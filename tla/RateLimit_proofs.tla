--------------------------- MODULE RateLimit_proofs ---------------------------
(***************************************************************************)
(* Proofs about RateLimit: the inductive invariant of the GitHub client    *)
(* and the safety properties that follow from it, for every set of         *)
(* callers, every reply of GitHub and every number of runs.                *)
(***************************************************************************)
EXTENDS RateLimit, WellFoundedInduction, TLAPS

USE NoneAssumption, DurationAssumption
USE DEF Kinds, Cooldowns, Forms, Files, Steps, Calls, Outcomes, Hists, process

(***************************************************************************)
(* The inductive invariant.                                                *)
(***************************************************************************)

\* Nothing of a run outlives it.
OnlyWhileUp == ~up => /\ state = None /\ holder = None
                      /\ \A c \in Callers : at[c] = "idle"

\* What the caller inside Do has established by the time it is at each point.
Local ==
  /\ call.pc \in {"asleep", "saving", "recorded"} => state # None
  /\ call.pc = "asleep" => call.wake = state.retryAt
  /\ call.pc \in {"sent", "limited"} /\ state # None => state.retryAt <= now
  /\ call.pc = "limited" => call.kind = hist.kind
  /\ call.pc = "limited" => Attempts(call.kind) <= AttemptLimit
  /\ call.pc = "saving" => state.kind = hist.kind /\ state.attempts >= hist.count + 1
  /\ call.pc = "clearing" => state = None /\ hist.count = 0

\* From the request to the save, the file's own cooldown is over.
FileElapsed ==
  call.pc \in {"sent", "limited", "saving", "clearing"} /\ file.form = "active"
    => file.cooldown.retryAt <= now

\* The cooldown in memory is one loadState would accept.
StateLoads == state # None => Loadable(Holding(state))

\* A promise still to be kept is in the file.
Promised == hist.promised > now => Outlasts(file, hist.promised)

\* Without a failed save, the file has what memory has.
InFile == persistent /\ ~hist.faulty /\ state # None /\ call.pc # "saving"
            => file = Holding(state)

CountedIsOwn == hist.count > 0 => hist.own

IInv ==
  /\ TypeOK /\ OnlyWhileUp /\ Local
  /\ FileElapsed /\ StateLoads /\ Promised /\ InFile /\ CountedIsOwn
  /\ StaleFileHarmless /\ OwnStateLoads /\ DeferralDurable /\ BackoffRemembered

-----------------------------------------------------------------------------
(***************************************************************************)
(* The delay after limits in a row.                                        *)
(***************************************************************************)

\* A set that has 1, and each number after one of its own, has them all.
LEMMA Induction ==
  ASSUME NEW n \in Nat, NEW S, 1 \in S,
         \A k \in 2..n : k - 1 \in S => k \in S
  PROVE  1..n \subseteq S
<1> DEFINE T == {k \in 1..n : k \notin S}
           Below == OpToRel(<, Nat)
<1>1. SUFFICES ASSUME T # {} PROVE FALSE
  OBVIOUS
<1>2. IsWellFoundedOn(Below, Nat) /\ \A x, y \in Nat : <<y, x>> \in Below <=> y < x
  BY NatLessThanWellFounded DEF OpToRel
<1>3. T \subseteq Nat
  OBVIOUS
<1>4. PICK x \in T : \A y \in T : ~ (<<y, x>> \in Below)
  <2> HIDE DEF T, Below
  <2> QED BY <1>1, <1>2, <1>3, WFMin
<1>5. x \in 2..n /\ x - 1 \in 1..n
  OBVIOUS
<1>6. x - 1 \notin T
  <2>1. x \in Nat /\ x - 1 \in Nat /\ x - 1 < x
    BY <1>5
  <2>2. <<x - 1, x>> \in Below
    <3> HIDE DEF Below, T
    <3> QED BY <1>2, <2>1
  <2> HIDE DEF Below, T
  <2> QED BY <1>4, <2>2
<1> QED BY <1>5, <1>6

\* One turn of the loop of secondaryDelay.
Turn(delay) ==
  IF delay >= MaxDelay THEN delay
  ELSE IF 2 * delay > MaxDelay THEN MaxDelay ELSE 2 * delay

\* f is what the loop computes, for 1 up to m attempts.
Delays(f, m) ==
  \A k \in 1..m : f[k] = IF k = 1 THEN BaseDelay ELSE Turn(f[k - 1])

\* The recursion has a solution, so SecondaryDelay is one.
LEMMA DelaysExist == \A m \in 1..AttemptLimit : \E f : Delays(f, m)
<1> DEFINE T == {m \in 1..AttemptLimit : \E f : Delays(f, m)}
<1>0. AttemptLimit \in Nat BY BoundAssumption
<1>1. CASE AttemptLimit = 0 BY <1>1
<1>2. CASE AttemptLimit # 0
  <2>1. 1 \in T
    <3>1. Delays([k \in 1..1 |-> BaseDelay], 1) BY DEF Delays
    <3> QED BY <1>0, <1>2, <3>1
  <2>2. ASSUME NEW m \in 2..AttemptLimit, m - 1 \in T PROVE m \in T
    <3>1. PICK f : Delays(f, m - 1) BY <2>2
    <3> DEFINE g == [k \in 1..m |-> IF k = m THEN Turn(f[m - 1]) ELSE f[k]]
    <3>2. ASSUME NEW k \in 1..m
          PROVE  g[k] = IF k = 1 THEN BaseDelay ELSE Turn(g[k - 1])
      <4>1. CASE k = m
        <5>1. k # 1 /\ m - 1 \in 1..m /\ m - 1 # m /\ m \in 1..m BY <1>0, <4>1
        <5>2. g[m] = Turn(f[m - 1]) /\ g[m - 1] = f[m - 1] BY <5>1
        <5> HIDE DEF g
        <5> QED BY <4>1, <5>1, <5>2
      <4>2. CASE k # m
        <5>1. k \in 1..(m - 1) BY <1>0, <4>2
        <5>2. g[k] = f[k] BY <4>2
        <5>3. k # 1 => g[k - 1] = f[k - 1] BY <1>0, <5>1
        <5> HIDE DEF g
        <5> QED BY <3>1, <5>1, <5>2, <5>3 DEF Delays
      <4> QED BY <4>1, <4>2
    <3>3. Delays(g, m)
      <4> HIDE DEF g
      <4> QED BY <3>2 DEF Delays
    <3> QED BY <3>3
  <2>3. 1..AttemptLimit \subseteq T
    <3> HIDE DEF T
    <3> QED BY <1>0, <2>1, <2>2, Induction
  <2> QED BY <2>3
<1> QED BY <1>1, <1>2

LEMMA DelayIs == Delays(SecondaryDelay, AttemptLimit)
<1> DEFINE Def(g) == [k \in 1..AttemptLimit |->
                        IF k = 1 THEN BaseDelay ELSE Turn(g[k - 1])]
           made == CHOOSE g : g = Def(g)
<1>0. AttemptLimit \in Nat BY BoundAssumption
<1>1. PICK f : Delays(f, AttemptLimit)
  <2>1. CASE AttemptLimit = 0 BY <2>1 DEF Delays
  <2>2. CASE AttemptLimit # 0 BY <1>0, <2>2, DelaysExist
  <2> QED BY <2>1, <2>2
<1> DEFINE h == [k \in 1..AttemptLimit |-> f[k]]
<1>2. h = Def(h)
  <2>1. ASSUME NEW k \in 1..AttemptLimit
        PROVE  h[k] = IF k = 1 THEN BaseDelay ELSE Turn(h[k - 1])
    <3>1. h[k] = f[k] OBVIOUS
    <3>2. k # 1 => h[k - 1] = f[k - 1] BY <1>0
    <3> HIDE DEF h
    <3> QED BY <1>1, <3>1, <3>2 DEF Delays
  <2> HIDE DEF h
  <2> QED BY <2>1 DEF h
<1>3. made = Def(made)
  <2> HIDE DEF h, Def
  <2> QED BY <1>2
<1>4. SecondaryDelay = made BY DEF SecondaryDelay, Turn
<1>5. ASSUME NEW k \in 1..AttemptLimit
      PROVE  made[k] = IF k = 1 THEN BaseDelay ELSE Turn(made[k - 1])
  <2> HIDE DEF made
  <2> QED BY <1>3
<1> HIDE DEF made
<1> QED BY <1>4, <1>5 DEF Delays

\* secondaryDelay waits secondaryBaseDelay first, never less with each further
\* limit in a row, twice as much while that is under secondaryMaxDelay, and at
\* most secondaryMaxDelay: however many limits come, the loop overshoots nothing.
THEOREM Backoff ==
  \A n \in 1..AttemptLimit :
    /\ SecondaryDelay[n] \in BaseDelay..MaxDelay
    /\ n = 1 => SecondaryDelay[n] = BaseDelay
    /\ n > 1 => LET before == SecondaryDelay[n - 1] IN
                 /\ before <= SecondaryDelay[n]
                 /\ 2 * before <= MaxDelay => SecondaryDelay[n] = 2 * before
                 /\ 2 * before > MaxDelay => SecondaryDelay[n] = MaxDelay
<1> DEFINE T == {n \in 1..AttemptLimit : SecondaryDelay[n] \in BaseDelay..MaxDelay}
<1>0. AttemptLimit \in Nat BY BoundAssumption
<1>1. ASSUME NEW d \in BaseDelay..MaxDelay
      PROVE  /\ Turn(d) \in BaseDelay..MaxDelay /\ d <= Turn(d)
             /\ 2 * d <= MaxDelay => Turn(d) = 2 * d
             /\ 2 * d > MaxDelay => Turn(d) = MaxDelay
  BY DEF Turn
<1>2. 1..AttemptLimit \subseteq T
  <2>1. CASE AttemptLimit = 0 BY <2>1
  <2>2. CASE AttemptLimit # 0
    <3>1. 1 \in T
      <4>1. 1 \in 1..AttemptLimit BY <1>0, <2>2
      <4>2. SecondaryDelay[1] = BaseDelay BY <4>1, DelayIs DEF Delays
      <4> QED BY <4>1, <4>2
    <3>2. ASSUME NEW n \in 2..AttemptLimit, n - 1 \in T PROVE n \in T
      <4>1. n \in 1..AttemptLimit /\ n # 1 BY <1>0
      <4>2. SecondaryDelay[n] = Turn(SecondaryDelay[n - 1]) BY <4>1, DelayIs DEF Delays
      <4>3. SecondaryDelay[n - 1] \in BaseDelay..MaxDelay BY <3>2
      <4> QED BY <1>1, <4>1, <4>2, <4>3
    <3> HIDE DEF T
    <3> QED BY <1>0, <3>1, <3>2, Induction
  <2> QED BY <2>1, <2>2
<1> SUFFICES ASSUME NEW n \in 1..AttemptLimit
             PROVE  /\ SecondaryDelay[n] \in BaseDelay..MaxDelay
                    /\ n = 1 => SecondaryDelay[n] = BaseDelay
                    /\ n > 1 => LET before == SecondaryDelay[n - 1] IN
                         /\ before <= SecondaryDelay[n]
                         /\ 2 * before <= MaxDelay => SecondaryDelay[n] = 2 * before
                         /\ 2 * before > MaxDelay => SecondaryDelay[n] = MaxDelay
  OBVIOUS
<1>3. SecondaryDelay[n] \in BaseDelay..MaxDelay BY <1>2
<1>4. n = 1 => SecondaryDelay[n] = BaseDelay BY DelayIs DEF Delays
<1>5. CASE n > 1
  <2>1. n - 1 \in 1..AttemptLimit /\ n # 1 BY <1>0, <1>5
  <2>2. SecondaryDelay[n - 1] \in BaseDelay..MaxDelay BY <1>2, <2>1
  <2>3. SecondaryDelay[n] = Turn(SecondaryDelay[n - 1]) BY <2>1, DelayIs DEF Delays
  <2> HIDE DEF T
  <2> QED BY <1>1, <1>3, <1>5, <2>1, <2>2, <2>3
<1> QED BY <1>3, <1>4, <1>5

LEMMA DelayType == \A n \in 1..AttemptLimit : SecondaryDelay[n] \in Nat
BY Backoff

-----------------------------------------------------------------------------
(***************************************************************************)
(* Types of what the steps compute.                                        *)
(***************************************************************************)

LEMMA FreshType == Fresh \in Calls
BY DEF Fresh

\* The number of attempts is positive, so that secondaryDelay is defined.
LEMMA AttemptsType ==
  ASSUME TypeOK, StateLoads, NEW kind \in Kinds
  PROVE  Attempts(kind) \in Nat /\ Attempts(kind) >= 1
BY DEF TypeOK, StateLoads, Attempts, Loadable, Holding

\* The instant inspect computes, whichever header it comes from.
LEMMA RetryAtType ==
  ASSUME TypeOK, StateLoads, NEW r \in Replies, Attempts(KindOf(r)) <= AttemptLimit
  PROVE  RetryAt(r) \in Nat
<1>1. KindOf(r) \in Kinds BY DEF KindOf
<1>2. Attempts(KindOf(r)) \in 1..AttemptLimit
  BY <1>1, AttemptsType, BoundAssumption
<1>3. SecondaryDelay[Attempts(KindOf(r))] \in Nat BY <1>2, DelayType
<1>4. /\ r.after \notin {Absent, Unreadable} => r.after \in Nat
      /\ r.reset # Absent => r.reset \in Nat
  BY RepliesAssumption DEF Responses
<1> QED BY <1>3, <1>4 DEF RetryAt, Later, TypeOK

\* What the steps of Do make of its locals.
LEMMA CallType ==
  ASSUME NEW k \in Calls
  PROVE  /\ Retry(k) \in Calls /\ Retry(k).pc = "top"
         /\ \A w \in Nat, b \in Int :
              LET m == [k EXCEPT !.pc = "asleep", !.wake = w, !.budget = b] IN
              m \in Calls /\ m.pc = "asleep" /\ m.wake = w
<1>1. Retry(k) \in Calls /\ Retry(k).pc = "top"
  <2>1. k.retries + 1 \in Nat OBVIOUS
  <2> QED BY <2>1 DEF Retry
<1>2. ASSUME NEW w \in Nat, NEW b \in Int
      PROVE  LET m == [k EXCEPT !.pc = "asleep", !.wake = w, !.budget = b] IN
             m \in Calls /\ m.pc = "asleep" /\ m.wake = w
  OBVIOUS
<1> QED BY <1>1, <1>2

\* What they make of the history.
LEMMA LimitedHist ==
  ASSUME NEW h \in Hists, NEW kind \in Kinds
  PROVE  LET limited == [h EXCEPT !.kind = kind, !.count = 0]
         IN  /\ limited \in Hists /\ limited.kind = kind /\ limited.count = 0
             /\ limited.promised = h.promised /\ limited.own = h.own
             /\ limited.faulty = h.faulty
OBVIOUS

LEMMA SavedHist ==
  ASSUME NEW h \in Hists, NEW t \in Nat
  PROVE  LET saved == [h EXCEPT !.promised = t, !.count = h.count + 1, !.own = TRUE]
         IN  /\ saved \in Hists /\ saved.promised = t /\ saved.count = h.count + 1
             /\ saved.own /\ saved.kind = h.kind /\ saved.faulty = h.faulty
<1>1. h.count + 1 \in Nat OBVIOUS
<1> QED BY <1>1

\* Every return of Do leaves nobody inside.
LEMMA ReturnType ==
  ASSUME TypeOK, holder # None, NEW o \in Outcomes \ {"inside"}, Return(o)
  PROVE  /\ holder' = None /\ call' = Fresh /\ call' \in Calls
         /\ call'.pc = "none"
         /\ at' \in [Callers -> Outcomes]
         /\ \A c \in Callers : at'[c] # "inside"
         /\ \A c \in Callers : at'[c] = IF c = holder THEN o ELSE at[c]
BY FreshType DEF TypeOK, Return, Fresh

-----------------------------------------------------------------------------
(***************************************************************************)
(* The steps that Do's actions are made of.                                *)
(***************************************************************************)

LEMMA FailOK ==
  ASSUME IInv, call.pc \notin {"none", "saving"}, Fail, UNCHANGED <<now, process>>
  PROVE  IInv'
<1>1. Return("failed") /\ UNCHANGED <<now, process, state, file, told, hist>>
  BY DEF Fail
<1>2. /\ holder' = None /\ call' \in Calls /\ call'.pc = "none"
      /\ at' \in [Callers -> Outcomes]
      /\ \A c \in Callers : at'[c] # "inside"
      /\ \A c \in Callers : at'[c] = IF c = holder THEN "failed" ELSE at[c]
  BY <1>1, ReturnType DEF IInv, TypeOK
<1>3. up BY DEF IInv, TypeOK, OnlyWhileUp
<1>4. TypeOK' BY <1>1, <1>2 DEF IInv, TypeOK
<1>5. OnlyWhileUp' /\ Local' BY <1>1, <1>2, <1>3 DEF OnlyWhileUp, Local
<1>6. /\ FileElapsed' /\ StateLoads' /\ Promised' /\ CountedIsOwn'
      /\ StaleFileHarmless' /\ OwnStateLoads' /\ BackoffRemembered'
  BY <1>1, <1>2 DEF IInv, FileElapsed, StateLoads, Promised, CountedIsOwn,
     StaleFileHarmless, OwnStateLoads, BackoffRemembered
<1>7. InFile' BY <1>1 DEF IInv, InFile
<1>8. DeferralDurable' BY <1>1, <1>2 DEF IInv, DeferralDurable
<1> QED BY <1>4, <1>5, <1>6, <1>7, <1>8 DEF IInv

\* The cooldown a deferral names is the one in the file.
LEMMA DeferOK ==
  ASSUME IInv, call.pc \notin {"none", "saving"}, state # None, Defer,
         UNCHANGED <<now, process>>
  PROVE  IInv'
<1>1. /\ Return("deferred") /\ UNCHANGED <<now, process, state, file, hist>>
      /\ told' = [told EXCEPT ![holder] = state.retryAt]
  BY DEF Defer
<1>2. /\ holder' = None /\ call' \in Calls /\ call'.pc = "none"
      /\ at' \in [Callers -> Outcomes]
      /\ \A c \in Callers : at'[c] # "inside"
      /\ \A c \in Callers : at'[c] = IF c = holder THEN "deferred" ELSE at[c]
  BY <1>1, ReturnType DEF IInv, TypeOK
<1>3. up BY DEF IInv, TypeOK, OnlyWhileUp
<1>4. /\ told' \in [Callers -> Nat]
      /\ \A c \in Callers : told'[c] = IF c = holder THEN state.retryAt ELSE told[c]
  BY <1>1 DEF IInv, TypeOK
<1>5. TypeOK' BY <1>1, <1>2, <1>4 DEF IInv, TypeOK
<1>6. OnlyWhileUp' /\ Local' BY <1>1, <1>2, <1>3 DEF OnlyWhileUp, Local
<1>7. /\ FileElapsed' /\ StateLoads' /\ Promised' /\ CountedIsOwn'
      /\ StaleFileHarmless' /\ OwnStateLoads' /\ BackoffRemembered'
  BY <1>1, <1>2 DEF IInv, FileElapsed, StateLoads, Promised, CountedIsOwn,
     StaleFileHarmless, OwnStateLoads, BackoffRemembered
<1>8. InFile' BY <1>1 DEF IInv, InFile
<1>9. DeferralDurable'
  <2>1. persistent /\ ~hist.faulty => Outlasts(file, state.retryAt)
    BY DEF IInv, TypeOK, InFile, StateLoads, Outlasts, Holding
  <2> QED BY <1>1, <1>2, <1>4, <2>1 DEF IInv, DeferralDurable
<1> QED BY <1>5, <1>6, <1>7, <1>8, <1>9 DEF IInv

\* The caller goes on before or after its request, with nothing else changed.
LEMMA AdvanceOK ==
  ASSUME IInv, call.pc \notin {"none", "saving"}, UNCHANGED <<now, process>>,
         NEW next \in Calls, Advance(next), next.pc \in {"top", "asleep", "sent"},
         next.pc = "asleep" => state # None /\ next.wake = state.retryAt,
         next.pc = "sent" /\ state # None => state.retryAt <= now
  PROVE  IInv'
<1>1. call' = next /\ UNCHANGED <<now, process, state, file, holder, at, told, hist>>
  BY DEF Advance
<1>2. up BY DEF IInv, TypeOK, OnlyWhileUp
<1>3. TypeOK' BY <1>1 DEF IInv, TypeOK
<1>4. OnlyWhileUp' /\ Local' BY <1>1, <1>2 DEF OnlyWhileUp, Local
<1>5. FileElapsed'
  BY <1>1, <1>2 DEF IInv, TypeOK, FileElapsed, StaleFileHarmless
<1>6. /\ StateLoads' /\ Promised' /\ CountedIsOwn' /\ InFile' /\ DeferralDurable'
      /\ StaleFileHarmless' /\ OwnStateLoads' /\ BackoffRemembered'
  BY <1>1 DEF IInv, StateLoads, Promised, CountedIsOwn, InFile, DeferralDurable,
     StaleFileHarmless, OwnStateLoads, BackoffRemembered
<1> QED BY <1>3, <1>4, <1>5, <1>6 DEF IInv

-----------------------------------------------------------------------------
(***************************************************************************)
(* The actions of Do.                                                      *)
(***************************************************************************)

LEMMA TopOK == IInv /\ Top => IInv'
<1> SUFFICES ASSUME IInv, Top PROVE IInv' OBVIOUS
<1>1. call.pc = "top" /\ UNCHANGED <<now, process>> BY DEF Top
<1>2. CASE Fail BY <1>1, <1>2, FailOK
<1>3. CASE Cooling /\ Defer BY <1>1, <1>3, DeferOK DEF Cooling
<1>4. ASSUME Cooling, Advance([call EXCEPT !.pc = "asleep", !.wake = state.retryAt,
                                           !.budget = call.budget - (state.retryAt - now)])
      PROVE  IInv'
  <2> DEFINE next == [call EXCEPT !.pc = "asleep", !.wake = state.retryAt,
                                  !.budget = call.budget - (state.retryAt - now)]
  <2>1. /\ next \in Calls /\ next.pc = "asleep"
        /\ state # None /\ next.wake = state.retryAt
    <3>1. state # None /\ state.retryAt \in Nat /\ now \in Nat /\ call \in Calls
      BY <1>4 DEF IInv, TypeOK, Cooling
    <3>2. call.budget - (state.retryAt - now) \in Int BY <3>1
    <3> QED BY <3>1, <3>2, CallType
  <2>2. Advance(next) BY <1>4
  <2> HIDE DEF next
  <2> QED BY <1>1, <2>1, <2>2, AdvanceOK
<1>5. ASSUME ~Cooling, Advance(Goto("sent")) PROVE IInv'
  <2>1. /\ Goto("sent") \in Calls /\ Goto("sent").pc = "sent"
        /\ state # None => state.retryAt <= now
    BY <1>5 DEF IInv, TypeOK, Goto, Cooling
  <2> QED BY <1>1, <1>5, <2>1, AdvanceOK
<1> QED BY <1>2, <1>3, <1>4, <1>5 DEF Top

LEMMA WakeOK == IInv /\ Wake => IInv'
<1> SUFFICES ASSUME IInv, Wake PROVE IInv' OBVIOUS
<1>1. call.pc = "asleep" /\ UNCHANGED <<now, process>> BY DEF Wake
<1>2. CASE Fail BY <1>1, <1>2, FailOK
<1>3. ASSUME now >= call.wake, Advance(Goto("sent")) PROVE IInv'
  <2>1. /\ Goto("sent") \in Calls /\ Goto("sent").pc = "sent"
        /\ state.retryAt <= now
    BY <1>1, <1>3 DEF IInv, TypeOK, Local, Goto
  <2> QED BY <1>1, <1>3, <2>1, AdvanceOK
<1> QED BY <1>2, <1>3 DEF Wake

LEMMA TransportFailsOK == IInv /\ TransportFails => IInv'
BY FailOK DEF TransportFails

LEMMA AgainOK == IInv /\ Again => IInv'
<1> SUFFICES ASSUME IInv, Again PROVE IInv' OBVIOUS
<1>1. call.pc = "recorded" /\ UNCHANGED <<now, process>> BY DEF Again
<1>2. CASE Defer BY <1>1, <1>2, DeferOK DEF IInv, Local
<1>3. CASE Advance(Retry(call))
  <2>1. Retry(call) \in Calls /\ Retry(call).pc = "top"
    BY CallType DEF IInv, TypeOK
  <2> QED BY <1>1, <1>3, <2>1, AdvanceOK
<1> QED BY <1>2, <1>3 DEF Again

\* The cooldown is cleared only after it is over: what is left in the file, or
\* stays there when the save fails, holds nobody up.
LEMMA AcceptOK == ASSUME NEW r \in Replies PROVE IInv /\ Accept(r) => IInv'
<1> SUFFICES ASSUME IInv, Accept(r) PROVE IInv' OBVIOUS
<1>1. /\ call.pc = "sent" /\ state' = None
      /\ hist' = [hist EXCEPT !.count = 0]
      /\ UNCHANGED <<now, process, file, told>>
  BY DEF Accept
<1>2. /\ hist' \in Hists /\ hist'.count = 0 /\ hist'.promised = hist.promised
      /\ hist'.own = hist.own /\ hist'.faulty = hist.faulty
  BY <1>1 DEF IInv, TypeOK
<1>3. up BY <1>1 DEF IInv, TypeOK, OnlyWhileUp
<1>4. /\ call' \in Calls /\ call'.pc \in {"none", "clearing"}
      /\ at' \in [Callers -> Outcomes] /\ holder' \in Callers \cup {None}
      /\ holder' = None <=> call'.pc = "none"
      /\ \A c \in Callers : at'[c] = "inside" <=> holder' = c
      /\ \A c \in Callers : at'[c] = "deferred" => at[c] = "deferred"
  <2>1. CASE Return("ok") BY <1>1, <2>1, ReturnType DEF IInv, TypeOK
  <2>2. CASE call' = Goto("clearing") /\ UNCHANGED <<holder, at>>
    BY <1>1, <2>2 DEF IInv, TypeOK, Goto
  <2> QED BY <2>1, <2>2 DEF Accept
<1>5. TypeOK' BY <1>1, <1>2, <1>4 DEF IInv, TypeOK
<1>6. OnlyWhileUp' /\ Local' BY <1>1, <1>2, <1>3, <1>4 DEF OnlyWhileUp, Local
<1>7. FileElapsed' /\ StaleFileHarmless'
  BY <1>1, <1>3, <1>4 DEF IInv, TypeOK, FileElapsed, StaleFileHarmless
<1>8. /\ StateLoads' /\ Promised' /\ CountedIsOwn' /\ InFile' /\ OwnStateLoads'
      /\ BackoffRemembered'
  BY <1>1, <1>2 DEF IInv, StateLoads, Promised, CountedIsOwn, InFile,
     OwnStateLoads, BackoffRemembered
<1>9. DeferralDurable' BY <1>1, <1>2, <1>4 DEF IInv, DeferralDurable
<1> QED BY <1>5, <1>6, <1>7, <1>8, <1>9 DEF IInv

LEMMA LimitOK == ASSUME NEW r \in Replies PROVE IInv /\ Limit(r) => IInv'
<1> SUFFICES ASSUME IInv, Limit(r) PROVE IInv' OBVIOUS
<1>1. /\ call.pc = "sent" /\ Attempts(KindOf(r)) <= AttemptLimit
      /\ call' = [call EXCEPT !.pc = "limited", !.kind = KindOf(r), !.until = RetryAt(r)]
      /\ hist' = IF hist.kind = KindOf(r) THEN hist
                 ELSE [hist EXCEPT !.kind = KindOf(r), !.count = 0]
      /\ UNCHANGED <<now, process, state, file, holder, at, told>>
  BY DEF Limit
<1>2. KindOf(r) \in Kinds BY DEF KindOf
<1>3. /\ hist' \in Hists /\ hist'.kind = KindOf(r) /\ hist'.promised = hist.promised
      /\ hist'.own = hist.own /\ hist'.faulty = hist.faulty
      /\ hist'.count > 0 => hist' = hist
  <2>1. CASE hist.kind = KindOf(r) BY <1>1, <2>1 DEF IInv, TypeOK
  <2>2. CASE hist.kind # KindOf(r)
    <3>1. hist \in Hists BY DEF IInv, TypeOK
    <3>2. hist' = [hist EXCEPT !.kind = KindOf(r), !.count = 0] BY <1>1, <2>2
    <3>3. /\ hist' \in Hists /\ hist'.kind = KindOf(r) /\ hist'.count = 0
          /\ hist'.promised = hist.promised /\ hist'.own = hist.own
          /\ hist'.faulty = hist.faulty
      BY <1>2, <3>1, <3>2, LimitedHist
    <3> QED BY <3>3
  <2> QED BY <2>1, <2>2
<1>4. /\ call' \in Calls /\ call'.pc = "limited" /\ call'.kind = KindOf(r)
  <2>1. RetryAt(r) \in Nat BY <1>1, RetryAtType DEF IInv
  <2> QED BY <1>1, <1>2, <2>1 DEF IInv, TypeOK
<1>5. TypeOK' BY <1>1, <1>3, <1>4 DEF IInv, TypeOK
<1>6. OnlyWhileUp' /\ Local'
  BY <1>1, <1>3, <1>4 DEF IInv, OnlyWhileUp, Local, Attempts
<1>7. /\ FileElapsed' /\ StateLoads' /\ Promised' /\ CountedIsOwn' /\ InFile'
      /\ StaleFileHarmless' /\ OwnStateLoads' /\ DeferralDurable'
  BY <1>1, <1>3, <1>4 DEF IInv, FileElapsed, StateLoads, Promised, CountedIsOwn,
     InFile, StaleFileHarmless, OwnStateLoads, DeferralDurable
<1>8. BackoffRemembered' BY <1>1, <1>3 DEF IInv, BackoffRemembered
<1> QED BY <1>5, <1>6, <1>7, <1>8 DEF IInv

\* Whatever the clock did between inspect and record, the new cooldown does not
\* end before it was written down; and it counts one attempt more.
LEMMA RecordOK == IInv /\ Record => IInv'
<1> SUFFICES ASSUME IInv, Record PROVE IInv' OBVIOUS
<1>1. /\ call.pc = "limited" /\ state' = Recorded /\ call' = Goto("saving")
      /\ UNCHANGED <<now, process, file, holder, at, told, hist>>
  BY DEF Record
<1>2. call' \in Calls /\ call'.pc = "saving" BY <1>1 DEF IInv, TypeOK, Goto
<1>3. Attempts(call.kind) \in Nat /\ Attempts(call.kind) >= 1
  BY AttemptsType DEF IInv, TypeOK
<1>4. /\ state' \in Cooldowns /\ state'.kind = call.kind
      /\ state'.attempts = Attempts(call.kind)
      /\ state'.retryAt >= state'.updatedAt
  BY <1>1, <1>3 DEF IInv, TypeOK, Recorded, Later
<1>5. /\ up /\ call.kind = hist.kind
      /\ Attempts(call.kind) >= hist.count + 1
  <2>1. up BY <1>1 DEF IInv, TypeOK, OnlyWhileUp
  <2>2. call.kind = hist.kind BY <1>1 DEF IInv, Local
  <2>3. hist.count > 0 => Attempts(call.kind) >= hist.count + 1
    BY <2>1, <2>2 DEF IInv, TypeOK, BackoffRemembered, Attempts
  <2> QED BY <1>3, <2>1, <2>2, <2>3 DEF IInv, TypeOK
<1>6. TypeOK' BY <1>1, <1>2, <1>4 DEF IInv, TypeOK
<1>7. OnlyWhileUp' /\ Local' BY <1>1, <1>2, <1>4, <1>5 DEF OnlyWhileUp, Local
<1>8. FileElapsed' /\ StaleFileHarmless'
  BY <1>1, <1>2 DEF IInv, TypeOK, FileElapsed, StaleFileHarmless
<1>9. /\ StateLoads' /\ InFile'
  BY <1>1, <1>2, <1>3, <1>4 DEF StateLoads, Loadable, Holding, InFile
<1>10. /\ Promised' /\ CountedIsOwn' /\ OwnStateLoads' /\ DeferralDurable'
  BY <1>1 DEF IInv, Promised, CountedIsOwn, OwnStateLoads, DeferralDurable
<1>11. BackoffRemembered'
  BY <1>1, <1>4, <1>5 DEF IInv, TypeOK, BackoffRemembered
<1> QED BY <1>6, <1>7, <1>8, <1>9, <1>10, <1>11 DEF IInv

\* The save replaces a cooldown that is over, so it breaks no older promise.
LEMMA SavedOK == IInv /\ Saved => IInv'
<1> SUFFICES ASSUME IInv, Saved PROVE IInv' OBVIOUS
<1>1. /\ call.pc = "saving" /\ call' = Goto("recorded")
      /\ UNCHANGED <<now, process, state, holder, at, told>>
  BY DEF Saved
<1>2. call' \in Calls /\ call'.pc = "recorded" BY <1>1 DEF IInv, TypeOK, Goto
<1>3. /\ up /\ state \in Cooldowns /\ Loadable(Holding(state))
      /\ state.kind = hist.kind /\ state.attempts >= hist.count + 1
  BY <1>1 DEF IInv, TypeOK, OnlyWhileUp, Local, StateLoads
<1>4. CASE ~persistent
  <2>1. file' = file /\ hist' = hist BY <1>4 DEF Saved, SavedAs
  <2>2. TypeOK' BY <1>1, <1>2, <2>1 DEF IInv, TypeOK
  <2>3. OnlyWhileUp' /\ Local' /\ FileElapsed'
    BY <1>1, <1>2, <1>3, <2>1 DEF IInv, OnlyWhileUp, Local, FileElapsed
  <2>4. /\ StateLoads' /\ Promised' /\ CountedIsOwn' /\ InFile'
        /\ StaleFileHarmless' /\ OwnStateLoads' /\ DeferralDurable' /\ BackoffRemembered'
    BY <1>1, <1>4, <2>1 DEF IInv, StateLoads, Promised, CountedIsOwn, InFile,
       StaleFileHarmless, OwnStateLoads, DeferralDurable, BackoffRemembered
  <2> QED BY <2>2, <2>3, <2>4 DEF IInv
<1>5. CASE persistent
  <2>1. file' = Holding(state) BY <1>5 DEF Saved, SavedAs
  <2>2. /\ file' \in Files /\ file'.form = "active" /\ file'.cooldown = state
    BY <1>3, <2>1 DEF Holding
  <2>3. /\ hist' \in Hists /\ hist'.promised = state.retryAt
        /\ hist'.count = hist.count + 1 /\ hist'.own
        /\ hist'.kind = hist.kind /\ hist'.faulty = hist.faulty
    BY <1>3, <1>5, SavedHist DEF Saved, IInv, TypeOK
  <2>4. TypeOK' BY <1>1, <1>2, <2>2, <2>3 DEF IInv, TypeOK
  <2>5. OnlyWhileUp' /\ Local' /\ FileElapsed'
    BY <1>1, <1>2, <1>3 DEF IInv, TypeOK, OnlyWhileUp, Local, FileElapsed
  <2>6. /\ StateLoads' /\ Promised' /\ CountedIsOwn' /\ InFile'
        /\ StaleFileHarmless' /\ OwnStateLoads'
    BY <1>1, <1>3, <2>1, <2>2, <2>3 DEF IInv, StateLoads, Promised, Outlasts,
       CountedIsOwn, InFile, StaleFileHarmless, OwnStateLoads
  <2>7. DeferralDurable'
    <3>1. ASSUME NEW c \in Callers, ~hist.faulty, at[c] = "deferred"
          PROVE  now >= told[c]
      BY <1>1, <1>5, <3>1 DEF IInv, TypeOK, DeferralDurable, Outlasts, FileElapsed
    <3> QED BY <1>1, <2>3, <3>1 DEF DeferralDurable
  <2>8. BackoffRemembered'
    BY <1>1, <1>3, <2>2, <2>3 DEF IInv, TypeOK, BackoffRemembered
  <2> QED BY <2>4, <2>5, <2>6, <2>7, <2>8 DEF IInv
<1> QED BY <1>4, <1>5

LEMMA SaveFailsOK == IInv /\ SaveFails => IInv'
<1> SUFFICES ASSUME IInv, SaveFails PROVE IInv' OBVIOUS
<1>1. /\ call.pc = "saving" /\ Return("failed")
      /\ hist' = [hist EXCEPT !.faulty = TRUE]
      /\ UNCHANGED <<now, process, state, file, told>>
  BY DEF SaveFails
<1>2. /\ holder' = None /\ call' \in Calls /\ call'.pc = "none"
      /\ at' \in [Callers -> Outcomes]
      /\ \A c \in Callers : at'[c] # "inside"
  BY <1>1, ReturnType DEF IInv, TypeOK
<1>3. /\ hist' \in Hists /\ hist'.faulty /\ hist'.promised = hist.promised
      /\ hist'.kind = hist.kind /\ hist'.count = hist.count /\ hist'.own = hist.own
  BY <1>1 DEF IInv, TypeOK
<1>4. up BY <1>1 DEF IInv, TypeOK, OnlyWhileUp
<1>5. TypeOK' BY <1>1, <1>2, <1>3 DEF IInv, TypeOK
<1>6. OnlyWhileUp' /\ Local' /\ FileElapsed'
  BY <1>1, <1>2, <1>4 DEF OnlyWhileUp, Local, FileElapsed
<1>7. /\ StateLoads' /\ Promised' /\ CountedIsOwn' /\ InFile' /\ DeferralDurable'
      /\ StaleFileHarmless' /\ OwnStateLoads' /\ BackoffRemembered'
  BY <1>1, <1>3 DEF IInv, StateLoads, Promised, CountedIsOwn, InFile, DeferralDurable,
     StaleFileHarmless, OwnStateLoads, BackoffRemembered
<1> QED BY <1>5, <1>6, <1>7 DEF IInv

LEMMA ClearedOK == IInv /\ Cleared => IInv'
<1> SUFFICES ASSUME IInv, Cleared PROVE IInv' OBVIOUS
<1>1. /\ call.pc = "clearing" /\ Return("ok")
      /\ UNCHANGED <<now, process, state, told>>
  BY DEF Cleared
<1>2. /\ holder' = None /\ call' \in Calls /\ call'.pc = "none"
      /\ at' \in [Callers -> Outcomes]
      /\ \A c \in Callers : at'[c] # "inside"
      /\ \A c \in Callers : at'[c] = IF c = holder THEN "ok" ELSE at[c]
  BY <1>1, ReturnType DEF IInv, TypeOK
<1>3. /\ up /\ state = None /\ hist.count = 0
      /\ file.form = "active" => file.cooldown.retryAt <= now
  BY <1>1 DEF IInv, TypeOK, OnlyWhileUp, Local, FileElapsed
<1>4. hist.promised <= now
  BY <1>3 DEF IInv, TypeOK, Promised, Outlasts
<1>5. /\ file' = file \/ file' = Without("cleared")
      /\ hist' \in Hists /\ hist'.promised = hist.promised /\ hist'.count = hist.count
      /\ hist'.faulty = hist.faulty
      /\ hist'.own => hist.own \/ file' = Without("cleared")
  BY DEF Cleared, SavedAs, IInv, TypeOK
<1>6. /\ file' \in Files
      /\ file'.form = "active" => file' = file
  BY <1>5 DEF IInv, TypeOK, Without
<1>7. TypeOK' BY <1>1, <1>2, <1>5, <1>6 DEF IInv, TypeOK
<1>8. OnlyWhileUp' /\ Local' /\ FileElapsed'
  BY <1>1, <1>2, <1>3 DEF OnlyWhileUp, Local, FileElapsed
<1>9. StateLoads' /\ Promised' /\ InFile' /\ StaleFileHarmless' /\ BackoffRemembered'
  BY <1>1, <1>3, <1>4, <1>5, <1>6 DEF IInv, TypeOK, StateLoads, Promised, InFile,
     StaleFileHarmless, BackoffRemembered
<1>10. CountedIsOwn' BY <1>3, <1>5 DEF CountedIsOwn
<1>11. OwnStateLoads'
  BY <1>5 DEF IInv, OwnStateLoads, Loadable, Without
<1>12. DeferralDurable'
  <2>1. ASSUME NEW c \in Callers, persistent, ~hist.faulty, at[c] = "deferred"
        PROVE  now >= told[c]
    BY <1>3, <2>1 DEF IInv, TypeOK, DeferralDurable, Outlasts
  <2> QED BY <1>1, <1>2, <1>5, <2>1 DEF DeferralDurable
<1> QED BY <1>7, <1>8, <1>9, <1>10, <1>11, <1>12 DEF IInv

-----------------------------------------------------------------------------
(***************************************************************************)
(* The program around Do.                                                  *)
(***************************************************************************)

LEMMA InitOK == Init => IInv
<1> SUFFICES ASSUME Init PROVE IInv OBVIOUS
<1>1. /\ now = 0 /\ runs = 0 /\ up = FALSE /\ cancelled = FALSE /\ persistent \in BOOLEAN
      /\ state = None /\ holder = None /\ call = Fresh
      /\ at = [c \in Callers |-> "idle"] /\ told = [c \in Callers |-> 0]
  BY DEF Init
<1>2. call \in Calls /\ call.pc = "none" BY <1>1, FreshType DEF Fresh
<1>3. file \in Files BY FirstFilesAssumption DEF Init, Without
<1>4. /\ FirstPromise(file) \in Nat
      /\ FirstPromise(file) > 0 => Outlasts(file, FirstPromise(file))
  BY <1>3 DEF FirstPromise, Outlasts
<1>5. /\ hist \in Hists /\ hist.promised = FirstPromise(file)
      /\ hist.count = 0 /\ ~hist.own
  BY <1>4 DEF Init
<1>6. TypeOK BY <1>1, <1>2, <1>3, <1>5 DEF TypeOK
<1>7. OnlyWhileUp /\ Local /\ FileElapsed BY <1>1, <1>2 DEF OnlyWhileUp, Local, FileElapsed
<1>8. /\ StateLoads /\ Promised /\ InFile /\ CountedIsOwn /\ StaleFileHarmless
      /\ OwnStateLoads /\ DeferralDurable /\ BackoffRemembered
  BY <1>1, <1>4, <1>5 DEF StateLoads, Promised, InFile, CountedIsOwn, StaleFileHarmless,
     OwnStateLoads, DeferralDurable, BackoffRemembered
<1> QED BY <1>6, <1>7, <1>8 DEF IInv

\* A run starts with exactly the cooldown its predecessor left in the file.
LEMMA StartOK == IInv /\ Start => IInv'
<1> SUFFICES ASSUME IInv, Start PROVE IInv' OBVIOUS
<1>1. /\ ~up /\ up' = TRUE /\ runs' = runs + 1 /\ cancelled' = FALSE /\ Loadable(file)
      /\ state' = Loaded(file) /\ file' = AfterLoad(file)
      /\ UNCHANGED <<now, persistent, holder, call, at, told, hist>>
  BY DEF Start
<1>2. /\ holder = None /\ call.pc = "none" /\ \A c \in Callers : at[c] = "idle"
  BY <1>1 DEF IInv, TypeOK, OnlyWhileUp
<1>3. /\ up' \in BOOLEAN /\ cancelled' \in BOOLEAN /\ persistent' \in BOOLEAN
      /\ runs' \in Nat /\ now' \in Nat
  <2>1. up' \in BOOLEAN /\ cancelled' \in BOOLEAN BY <1>1
  <2>2. persistent' \in BOOLEAN /\ now' \in Nat BY <1>1 DEF IInv, TypeOK
  <2>3. runs' \in Nat BY <1>1 DEF IInv, TypeOK
  <2> QED BY <2>1, <2>2, <2>3
<1>4. /\ holder' \in Callers \cup {None} /\ call' \in Calls
      /\ at' \in [Callers -> Outcomes] /\ told' \in [Callers -> Nat] /\ hist' \in Hists
      /\ holder' = None <=> call'.pc = "none"
      /\ \A c \in Callers : at'[c] = "inside" <=> holder' = c
  BY <1>1 DEF IInv, TypeOK
<1>5. CASE file.form = "active"
  <2>1. file' = file /\ state' = file.cooldown /\ state' \in Cooldowns /\ file = Holding(state')
    BY <1>1, <1>5 DEF Loaded, AfterLoad, Holding, IInv, TypeOK
  <2>2. TypeOK'
    <3>1. file' \in Files /\ state' \in Cooldowns \cup {None}
      BY <2>1 DEF IInv, TypeOK
    <3> QED BY <1>3, <1>4, <3>1 DEF TypeOK
  <2>3. OnlyWhileUp' /\ Local' /\ FileElapsed'
    BY <1>1, <1>2 DEF OnlyWhileUp, Local, FileElapsed
  <2>4. /\ StateLoads' /\ Promised' /\ InFile' /\ CountedIsOwn' /\ StaleFileHarmless'
        /\ OwnStateLoads' /\ BackoffRemembered'
    BY <1>1, <2>1 DEF IInv, StateLoads, Promised, InFile, CountedIsOwn,
       StaleFileHarmless, OwnStateLoads, BackoffRemembered
  <2>5. DeferralDurable' BY <1>1, <1>2 DEF DeferralDurable
  <2> QED BY <2>2, <2>3, <2>4, <2>5 DEF IInv
<1>6. CASE file.form # "active"
  <2>1. /\ state' = None /\ file' \in Files /\ file'.form # "active" /\ Loadable(file')
    BY <1>1, <1>6 DEF Loaded, AfterLoad, Without, Loadable, IInv, TypeOK
  <2>2. hist.promised <= now /\ hist.count = 0
    BY <1>6 DEF IInv, TypeOK, Promised, Outlasts, BackoffRemembered
  <2>3. TypeOK' BY <1>3, <1>4, <2>1 DEF TypeOK
  <2>4. OnlyWhileUp' /\ Local' /\ FileElapsed'
    BY <1>1, <1>2 DEF OnlyWhileUp, Local, FileElapsed
  <2>5. /\ StateLoads' /\ Promised' /\ InFile' /\ CountedIsOwn' /\ StaleFileHarmless'
        /\ OwnStateLoads' /\ BackoffRemembered'
    BY <1>1, <2>1, <2>2 DEF IInv, TypeOK, StateLoads, Promised, InFile, CountedIsOwn,
       StaleFileHarmless, OwnStateLoads, BackoffRemembered
  <2>6. DeferralDurable' BY <1>1, <1>2 DEF DeferralDurable
  <2> QED BY <2>3, <2>4, <2>5, <2>6 DEF IInv
<1> QED BY <1>5, <1>6

\* No cooldown the client saved is in a file that has to be deleted.
LEMMA DeleteStateOK == IInv /\ DeleteState => IInv'
<1> SUFFICES ASSUME IInv, DeleteState PROVE IInv' OBVIOUS
<1>1. /\ ~up /\ ~Loadable(file) /\ file' = Without("missing")
      /\ UNCHANGED <<now, process, state, holder, call, at, told, hist>>
  BY DEF DeleteState
<1>2. /\ file' \in Files /\ file'.form # "active" /\ Loadable(file')
  BY <1>1 DEF Without, Loadable
<1>3. /\ state = None /\ holder = None /\ call.pc = "none"
      /\ \A c \in Callers : at[c] = "idle"
  BY <1>1 DEF IInv, TypeOK, OnlyWhileUp
<1>4. hist.promised <= now /\ hist.count = 0
  BY <1>1 DEF IInv, TypeOK, Promised, Outlasts, CountedIsOwn, OwnStateLoads
<1>5. TypeOK' BY <1>1, <1>2 DEF IInv, TypeOK
<1>6. OnlyWhileUp' /\ Local' /\ FileElapsed'
  BY <1>1, <1>3 DEF OnlyWhileUp, Local, FileElapsed
<1>7. /\ StateLoads' /\ Promised' /\ InFile' /\ CountedIsOwn' /\ StaleFileHarmless'
      /\ OwnStateLoads' /\ BackoffRemembered'
  BY <1>1, <1>2, <1>3, <1>4 DEF IInv, TypeOK, StateLoads, Promised, InFile, CountedIsOwn,
     StaleFileHarmless, OwnStateLoads, BackoffRemembered
<1>8. DeferralDurable' BY <1>1, <1>3 DEF DeferralDurable
<1> QED BY <1>5, <1>6, <1>7, <1>8 DEF IInv

LEMMA StopOK == IInv /\ Stop => IInv'
<1> SUFFICES ASSUME IInv, Stop PROVE IInv' OBVIOUS
<1>1. /\ up' = FALSE /\ state' = None /\ holder' = None /\ call' = Fresh
      /\ at' = [c \in Callers |-> "idle"] /\ told' = [c \in Callers |-> 0]
      /\ hist' = [hist EXCEPT !.faulty = FALSE]
      /\ UNCHANGED <<now, persistent, runs, cancelled, file>>
  BY DEF Stop
<1>2. call' \in Calls /\ call'.pc = "none" BY <1>1, FreshType DEF Fresh
<1>3. /\ hist' \in Hists /\ hist'.promised = hist.promised /\ hist'.kind = hist.kind
      /\ hist'.count = hist.count /\ hist'.own = hist.own
  BY <1>1 DEF IInv, TypeOK
<1>4. TypeOK' BY <1>1, <1>2, <1>3 DEF IInv, TypeOK
<1>5. OnlyWhileUp' /\ Local' /\ FileElapsed'
  BY <1>1, <1>2 DEF OnlyWhileUp, Local, FileElapsed
<1>6. /\ StateLoads' /\ Promised' /\ InFile' /\ CountedIsOwn' /\ StaleFileHarmless'
      /\ OwnStateLoads' /\ DeferralDurable' /\ BackoffRemembered'
  BY <1>1, <1>3 DEF IInv, StateLoads, Promised, InFile, CountedIsOwn, StaleFileHarmless,
     OwnStateLoads, DeferralDurable, BackoffRemembered
<1> QED BY <1>4, <1>5, <1>6 DEF IInv

\* Neither the context nor the number of runs matters to the invariant.
LEMMA RefuseOK == IInv /\ (Refuse \/ Cancel) => IInv'
<1> SUFFICES ASSUME IInv, Refuse \/ Cancel PROVE IInv' OBVIOUS
<1>1. /\ runs' \in Nat /\ cancelled' \in BOOLEAN
      /\ UNCHANGED <<now, persistent, up, state, file, holder, call, at, told, hist>>
  <2>1. CASE Refuse BY <2>1 DEF Refuse, IInv, TypeOK
  <2>2. CASE Cancel BY <2>2 DEF Cancel, IInv, TypeOK
  <2> QED BY <2>1, <2>2
<1>2. TypeOK' BY <1>1 DEF IInv, TypeOK
<1>3. OnlyWhileUp' /\ Local' /\ FileElapsed'
  BY <1>1 DEF IInv, OnlyWhileUp, Local, FileElapsed, Attempts
<1>4. /\ StateLoads' /\ Promised' /\ InFile' /\ CountedIsOwn' /\ StaleFileHarmless'
      /\ OwnStateLoads' /\ DeferralDurable' /\ BackoffRemembered'
  BY <1>1 DEF IInv, StateLoads, Promised, InFile, CountedIsOwn, StaleFileHarmless,
     OwnStateLoads, DeferralDurable, BackoffRemembered
<1> QED BY <1>2, <1>3, <1>4 DEF IInv

LEMMA TickOK == IInv /\ Tick => IInv'
<1> SUFFICES ASSUME IInv, Tick PROVE IInv' OBVIOUS
<1>1. /\ now' = now + 1 /\ now \in Nat
      /\ UNCHANGED <<process, state, file, holder, call, at, told, hist>>
  BY DEF Tick, IInv, TypeOK
<1>2. TypeOK' BY <1>1 DEF IInv, TypeOK
<1>3. OnlyWhileUp' /\ Local' /\ FileElapsed'
  BY <1>1 DEF IInv, TypeOK, OnlyWhileUp, Local, FileElapsed, Attempts
<1>4. StateLoads' /\ InFile' /\ CountedIsOwn' /\ OwnStateLoads' /\ BackoffRemembered'
  BY <1>1 DEF IInv, StateLoads, InFile, CountedIsOwn, OwnStateLoads, BackoffRemembered
<1>5. Promised' /\ StaleFileHarmless'
  BY <1>1 DEF IInv, TypeOK, Promised, StaleFileHarmless
<1>6. DeferralDurable' BY <1>1 DEF IInv, TypeOK, DeferralDurable
<1> QED BY <1>2, <1>3, <1>4, <1>5, <1>6 DEF IInv

LEMMA RequestOK == ASSUME NEW c \in Callers PROVE IInv /\ Request(c) => IInv'
<1> SUFFICES ASSUME IInv, Request(c) PROVE IInv' OBVIOUS
<1>1. /\ up /\ at[c] = "idle" /\ at' = [at EXCEPT ![c] = "queued"]
      /\ UNCHANGED <<now, process, state, file, holder, call, told, hist>>
  BY DEF Request
<1>2. TypeOK' BY <1>1 DEF IInv, TypeOK
<1>3. OnlyWhileUp' /\ Local' /\ FileElapsed'
  BY <1>1 DEF IInv, OnlyWhileUp, Local, FileElapsed, Attempts
<1>4. /\ StateLoads' /\ Promised' /\ InFile' /\ CountedIsOwn' /\ StaleFileHarmless'
      /\ OwnStateLoads' /\ BackoffRemembered'
  BY <1>1 DEF IInv, StateLoads, Promised, InFile, CountedIsOwn, StaleFileHarmless,
     OwnStateLoads, BackoffRemembered
<1>5. DeferralDurable' BY <1>1 DEF IInv, TypeOK, DeferralDurable
<1> QED BY <1>2, <1>3, <1>4, <1>5 DEF IInv

LEMMA AcquireOK == ASSUME NEW c \in Callers PROVE IInv /\ Acquire(c) => IInv'
<1> SUFFICES ASSUME IInv, Acquire(c) PROVE IInv' OBVIOUS
<1>1. /\ at[c] = "queued" /\ holder = None /\ holder' = c /\ call' = Goto("top")
      /\ at' = [at EXCEPT ![c] = "inside"]
      /\ UNCHANGED <<now, process, state, file, told, hist>>
  BY DEF Acquire
<1>2. call' \in Calls /\ call'.pc = "top" BY <1>1 DEF IInv, TypeOK, Goto
<1>3. up /\ call.pc = "none" BY <1>1 DEF IInv, TypeOK, OnlyWhileUp
<1>4. TypeOK' BY <1>1, <1>2 DEF IInv, TypeOK
<1>5. OnlyWhileUp' /\ Local' /\ FileElapsed'
  BY <1>1, <1>2, <1>3 DEF OnlyWhileUp, Local, FileElapsed
<1>6. /\ StateLoads' /\ Promised' /\ InFile' /\ CountedIsOwn' /\ StaleFileHarmless'
      /\ OwnStateLoads' /\ BackoffRemembered'
  BY <1>1, <1>3 DEF IInv, StateLoads, Promised, InFile, CountedIsOwn, StaleFileHarmless,
     OwnStateLoads, BackoffRemembered
<1>7. DeferralDurable' BY <1>1 DEF IInv, TypeOK, DeferralDurable
<1> QED BY <1>4, <1>5, <1>6, <1>7 DEF IInv

-----------------------------------------------------------------------------
(***************************************************************************)
(* The theorems.                                                           *)
(***************************************************************************)

LEMMA DoOK == IInv /\ Do => IInv'
BY TopOK, WakeOK, TransportFailsOK, RecordOK, SavedOK, SaveFailsOK, ClearedOK, AgainOK,
   AcceptOK, LimitOK DEF Do

\* Every step of the client, of the program around it, of the clock and of the
\* operator preserves the inductive invariant.
THEOREM Invariance == Spec => []IInv
<1>1. IInv /\ UNCHANGED vars => IInv'
  <2> SUFFICES ASSUME IInv, UNCHANGED vars PROVE IInv' OBVIOUS
  <2>1. UNCHANGED <<now, process, state, file, holder, call, at, told, hist>>
    BY DEF vars
  <2>2. TypeOK' BY <2>1 DEF IInv, TypeOK
  <2>3. OnlyWhileUp' /\ Local' /\ FileElapsed'
    BY <2>1 DEF IInv, OnlyWhileUp, Local, FileElapsed, Attempts
  <2>4. /\ StateLoads' /\ Promised' /\ InFile' /\ CountedIsOwn' /\ StaleFileHarmless'
        /\ OwnStateLoads' /\ DeferralDurable' /\ BackoffRemembered'
    BY <2>1 DEF IInv, StateLoads, Promised, InFile, CountedIsOwn, StaleFileHarmless,
       OwnStateLoads, DeferralDurable, BackoffRemembered
  <2> QED BY <2>2, <2>3, <2>4 DEF IInv
<1>2. IInv /\ Next => IInv'
  BY StartOK, RefuseOK, DeleteStateOK, StopOK, TickOK, RequestOK, AcquireOK, DoOK DEF Next
<1>3. IInv /\ [Next]_vars => IInv' BY <1>1, <1>2
<1> QED BY InitOK, <1>3, PTL DEF Spec

\* Every variable keeps its type, and only the holder of the mutex is inside Do.
THEOREM TypeCorrect == Spec => []TypeOK
<1>1. IInv => TypeOK BY DEF IInv
<1> QED BY <1>1, Invariance, PTL

\* No request is sent inside a cooldown, be it one in memory or one that any
\* earlier run of the program got as far as saving.
THEOREM NeverEarly == Spec => []SentAfterCooldown
<1>1. IInv => SentAfterCooldown
  <2> SUFFICES ASSUME IInv, call.pc = "sent" PROVE SentAfterCooldown
    BY DEF SentAfterCooldown
  <2>1. state # None => now >= state.retryAt BY DEF IInv, TypeOK, Local
  <2>2. file.form = "active" => file.cooldown.retryAt <= now BY DEF IInv, FileElapsed
  <2>3. now >= hist.promised BY <2>2 DEF IInv, TypeOK, Promised, Outlasts
  <2> QED BY <2>1, <2>3 DEF SentAfterCooldown
<1> QED BY <1>1, Invariance, PTL

\* What a failed save leaves in the file holds no later run up.
THEOREM StaleHarmless == Spec => []StaleFileHarmless
<1>1. IInv => StaleFileHarmless BY DEF IInv
<1> QED BY <1>1, Invariance, PTL

\* The client never writes a state that its next start would refuse.
THEOREM OwnLoads == Spec => []OwnStateLoads
<1>1. IInv => OwnStateLoads BY DEF IInv
<1> QED BY <1>1, Invariance, PTL

\* Unless a save failed, a deferral can be left to the next run.
THEOREM Durable == Spec => []DeferralDurable
<1>1. IInv => DeferralDurable BY DEF IInv
<1> QED BY <1>1, Invariance, PTL

\* The backoff goes on where the last run left it.
THEOREM Remembered == Spec => []BackoffRemembered
<1>1. IInv => BackoffRemembered BY DEF IInv
<1> QED BY <1>1, Invariance, PTL

=============================================================================
