------------------------ MODULE BackendGuardProofs ------------------------
(***************************************************************************)
(* Proofs about the two guards of the backend: the circuit breaker, for    *)
(* any set of callers, thresholds, timeout and number of attempts, and the *)
(* HTTP rate limiter, for any set of requests and any limit.  They share   *)
(* no variable.  Liveness stays with the model checker.                    *)
(***************************************************************************)
EXTENDS CircuitBreaker, RateLimiter, FiniteSetTheorems, TLAPS

---------------------------------------------------------------------------
(* The circuit breaker: types *)

CircuitOK ==
  \/ \E n \in Below(FailureThreshold) : state = Closed(n)
  \/ \E n \in 0 .. Timeout : state = Open(n)
  \/ \E n \in Below(SuccessThreshold) : state = HalfOpen(n)

CallersOK ==
  /\ pc \in [Caller -> {"idle", "checking", "queueing", "requesting", "answered", "sleeping"}]
  /\ attempt \in [Caller -> 0 .. MaxAttempts]
  /\ answer \in [Caller -> Answer]

\* A caller that sleeps has an attempt left: the loop counter stays in range.
SleepersRetry == \A c \in Caller : pc[c] = "sleeping" => attempt[c] < MaxAttempts

LEMMA TypeParts == TypeOK <=> CircuitOK /\ CallersOK /\ up \in BOOLEAN
  BY DEF TypeOK, CircuitOK, CallersOK

---------------------------------------------------------------------------
(* The circuit breaker: the three states and their counts *)

LEMMA FreshCircuit ==
  \A s : s = Closed(0) \/ s = Open(0) \/ s = HalfOpen(0) =>
    \/ \E n \in Below(FailureThreshold) : s = Closed(n)
    \/ \E n \in 0 .. Timeout : s = Open(n)
    \/ \E n \in Below(SuccessThreshold) : s = HalfOpen(n)
  <1>1. 0 \in Below(FailureThreshold) /\ 0 \in Below(SuccessThreshold)
    BY DEF Below
  <1>2. 0 \in 0 .. Timeout
    BY BreakerConstants
  <1>3. QED BY <1>1, <1>2

\* A success counts in a half-open circuit and closes any other.
LEMMA AfterSuccessOK ==
  ASSUME CircuitOK, state' = AfterSuccess(state) PROVE CircuitOK'
  <1>1. CASE state.is = "HalfOpen" /\ state.n + 1 < SuccessThreshold
    <2>1. state' = HalfOpen(state.n + 1)
      BY <1>1 DEF AfterSuccess
    <2>2. state.n \in Nat
      BY <1>1, BreakerConstants DEF CircuitOK, Closed, Open, HalfOpen, Below
    <2>3. state.n + 1 \in Below(SuccessThreshold)
      BY <1>1, <2>2, BreakerConstants DEF Below
    <2>4. QED BY <2>1, <2>3 DEF CircuitOK
  <1>2. CASE ~(state.is = "HalfOpen" /\ state.n + 1 < SuccessThreshold)
    <2>1. state' = Closed(0)
      BY <1>2 DEF AfterSuccess
    <2>2. QED BY <2>1, FreshCircuit DEF CircuitOK
  <1>3. QED BY <1>1, <1>2

\* A failure counts in a closed circuit, opens a half-open one, and leaves an
\* open one as it was.
LEMMA AfterFailureOK ==
  ASSUME CircuitOK, state' = AfterFailure(state) PROVE CircuitOK'
  <1>1. ASSUME NEW n \in Below(FailureThreshold), state = Closed(n) PROVE CircuitOK'
    <2>1. state' = IF n + 1 >= FailureThreshold THEN Open(0) ELSE Closed(n + 1)
      BY <1>1 DEF AfterFailure, Closed
    <2>2. n \in Nat
      BY BreakerConstants DEF Below
    <2>3. CASE n + 1 >= FailureThreshold
      BY <2>1, <2>3, FreshCircuit DEF CircuitOK
    <2>4. CASE ~(n + 1 >= FailureThreshold)
      <3>1. n + 1 \in Below(FailureThreshold)
        BY <2>2, <2>4, BreakerConstants DEF Below
      <3>2. QED BY <2>1, <2>4, <3>1 DEF CircuitOK
    <2>5. QED BY <2>3, <2>4
  <1>2. ASSUME NEW n \in 0 .. Timeout, state = Open(n) PROVE CircuitOK'
    <2>1. state' = state
      BY <1>2 DEF AfterFailure, Open
    <2>2. QED BY <2>1 DEF CircuitOK
  <1>3. ASSUME NEW n \in Below(SuccessThreshold), state = HalfOpen(n) PROVE CircuitOK'
    <2>1. state' = Open(0)
      BY <1>3 DEF AfterFailure, HalfOpen
    <2>2. QED BY <2>1, FreshCircuit DEF CircuitOK
  <1>4. QED BY <1>1, <1>2, <1>3 DEF CircuitOK

LEMMA NextCircuitOK == TypeOK /\ [Next]_vars => CircuitOK'
  <1> SUFFICES ASSUME CircuitOK, [Next]_vars PROVE CircuitOK'
    BY TypeParts
  <1>1. ASSUME UNCHANGED state PROVE CircuitOK'
    BY <1>1 DEF CircuitOK
  <1>2. ASSUME NEW c \in Caller, Start(c) \/ Acquire(c) \/ Respond(c) \/ Wake(c) \/ Drop(c)
        PROVE  UNCHANGED state
    BY <1>2 DEF Start, Acquire, Respond, Wake, Drop
  <1>3. ASSUME NEW c \in Caller, CheckOpen(c) PROVE CircuitOK'
    BY <1>1, <1>3, FreshCircuit DEF CheckOpen, Admit, Refuse, CircuitOK
  <1>4. ASSUME NEW c \in Caller, Report(c) PROVE CircuitOK'
    BY <1>1, <1>4, AfterSuccessOK, AfterFailureOK DEF Report
  <1>5. CASE Tick
    <2>1. state.n \in Nat /\ state.n + 1 \in 0 .. Timeout
      BY <1>5, BreakerConstants DEF Tick, CircuitOK, Closed, Open, HalfOpen, Below
    <2>2. state' = Open(state.n + 1)
      BY <1>5 DEF Tick
    <2>3. QED BY <2>1, <2>2 DEF CircuitOK
  <1>6. CASE Outage \/ UNCHANGED vars
    BY <1>1, <1>6 DEF Outage, vars
  <1>7. QED
    BY <1>1, <1>2, <1>3, <1>4, <1>5, <1>6, BreakerConstants DEF Next, Proceed

---------------------------------------------------------------------------
(* The circuit breaker: the callers *)

LEMMA NextCallersOK ==
  CallersOK /\ SleepersRetry /\ [Next]_vars => CallersOK' /\ SleepersRetry'
  <1> SUFFICES ASSUME CallersOK, SleepersRetry, [Next]_vars
               PROVE  CallersOK' /\ SleepersRetry'
    OBVIOUS
  <1>1. ASSUME NEW c \in Caller, Start(c) PROVE CallersOK' /\ SleepersRetry'
    <2>1. 1 \in 0 .. MaxAttempts
      BY BreakerConstants
    <2>2. QED BY <1>1, <2>1 DEF Start, GoTo, CallersOK, SleepersRetry
  <1>2. ASSUME NEW c \in Caller, CheckOpen(c) PROVE CallersOK' /\ SleepersRetry'
    BY <1>2 DEF CheckOpen, Admit, Refuse, GoTo, CallersOK, SleepersRetry
  <1>3. ASSUME NEW c \in Caller, Acquire(c) \/ Respond(c)
        PROVE  CallersOK' /\ SleepersRetry'
    BY <1>3 DEF Acquire, Respond, GoTo, CallersOK, SleepersRetry, Answer, Failure
  <1>4. ASSUME NEW c \in Caller, Report(c) PROVE CallersOK' /\ SleepersRetry'
    BY <1>4 DEF Report, Retries, GoTo, CallersOK, SleepersRetry, Answer
  <1>5. ASSUME NEW c \in Caller, Wake(c) PROVE CallersOK' /\ SleepersRetry'
    <2>1. attempt[c] \in 0 .. MaxAttempts /\ attempt[c] < MaxAttempts
      BY <1>5 DEF Wake, CallersOK, SleepersRetry
    <2>2. attempt[c] + 1 \in 0 .. MaxAttempts
      BY <2>1, BreakerConstants
    <2>3. QED BY <1>5, <2>2 DEF Wake, GoTo, CallersOK, SleepersRetry
  <1>6. ASSUME NEW c \in Caller, Drop(c) PROVE CallersOK' /\ SleepersRetry'
    BY <1>6 DEF Drop, GoTo, CallersOK, SleepersRetry, Answer
  <1>7. CASE Tick \/ Outage \/ UNCHANGED vars
    BY <1>7 DEF Tick, Outage, vars, CallersOK, SleepersRetry
  <1>8. QED
    BY <1>1, <1>2, <1>3, <1>4, <1>5, <1>6, <1>7, BreakerConstants DEF Next, Proceed

LEMMA NextUpOK == up \in BOOLEAN /\ [Next]_vars => up' \in BOOLEAN
  <1> SUFFICES ASSUME up \in BOOLEAN, [Next]_vars PROVE up' \in BOOLEAN
    OBVIOUS
  <1>1. ASSUME NEW c \in Caller, Start(c) \/ Proceed(c) \/ Drop(c) PROVE up' = up
    BY <1>1 DEF Start, Proceed, CheckOpen, Admit, Refuse, Acquire, Respond, Report, Wake, Drop
  <1>2. CASE Tick \/ UNCHANGED vars
    BY <1>2 DEF Tick, vars
  <1>3. CASE Outage
    BY <1>3 DEF Outage
  <1>4. QED BY <1>1, <1>2, <1>3, BreakerConstants DEF Next

\* Counts stay below the thresholds that end their states, and no loop runs
\* past its attempts.
THEOREM TypeCorrect == Spec => []TypeOK
  <1>1. Init => TypeOK /\ SleepersRetry
    <2>1. ASSUME Init PROVE CircuitOK
      BY <2>1, FreshCircuit DEF Init, CircuitOK
    <2>2. ASSUME Init PROVE CallersOK /\ SleepersRetry /\ up \in BOOLEAN
      BY <2>2, BreakerConstants DEF Init, CallersOK, SleepersRetry, Answer
    <2>3. QED BY <2>1, <2>2, TypeParts
  <1>2. TypeOK /\ SleepersRetry /\ [Next]_vars => TypeOK' /\ SleepersRetry'
    <2> SUFFICES ASSUME TypeOK, SleepersRetry, [Next]_vars PROVE TypeOK' /\ SleepersRetry'
      OBVIOUS
    <2>1. CircuitOK'
      BY NextCircuitOK
    <2>2. CallersOK' /\ SleepersRetry'
      BY TypeParts, NextCallersOK
    <2>3. up' \in BOOLEAN
      BY TypeParts, NextUpOK
    <2>4. TypeOK'
      BY <2>1, <2>2, <2>3 DEF TypeOK, CircuitOK, CallersOK
    <2>5. QED BY <2>2, <2>4
  <1>3. QED BY <1>1, <1>2, PTL DEF Spec

---------------------------------------------------------------------------
(* The circuit breaker: what a step may not do *)

\* No late failure puts off the probe of an open circuit.
THEOREM OpeningTimeKept == Spec => OpenKeepsItsTime
  <1> DEFINE Kept == state.is = "Open" /\ state'.is = "Open" => state'.n >= state.n
  <1>1. TypeOK /\ [Next]_vars => [Kept]_vars
    <2> SUFFICES ASSUME TypeOK, Next, state.is = "Open", state'.is = "Open"
                 PROVE  state'.n >= state.n
      OBVIOUS
    <2>1. state.n \in Nat
      BY BreakerConstants DEF TypeOK, Closed, Open, HalfOpen, Below
    <2>2. ASSUME UNCHANGED state PROVE state'.n >= state.n
      BY <2>1, <2>2
    <2>3. ASSUME NEW c \in Caller, Report(c) PROVE UNCHANGED state
      <3>1. AfterFailure(state) = state
        BY DEF AfterFailure
      <3>2. AfterSuccess(state).is # "Open"
        BY DEF AfterSuccess, Closed
      <3>3. QED BY <2>3, <3>1, <3>2 DEF Report
    <2>4. ASSUME NEW c \in Caller, CheckOpen(c) PROVE UNCHANGED state
      BY <2>4 DEF CheckOpen, Admit, Refuse, HalfOpen
    <2>5. ASSUME NEW c \in Caller,
                 Start(c) \/ Acquire(c) \/ Respond(c) \/ Wake(c) \/ Drop(c)
          PROVE  UNCHANGED state
      BY <2>5 DEF Start, Acquire, Respond, Wake, Drop
    <2>6. CASE Tick
      BY <2>1, <2>6 DEF Tick, Open
    <2>7. CASE Outage
      BY <2>2, <2>7 DEF Outage
    <2>8. QED
      BY <2>2, <2>3, <2>4, <2>5, <2>6, <2>7, BreakerConstants DEF Next, Proceed
  <1>2. QED BY <1>1, TypeCorrect, PTL DEF Spec, OpenKeepsItsTime

\* A circuit closes only when a success is reported.
THEOREM ClosedBySuccess == Spec => OnlySuccessCloses
  <1> DEFINE Closes ==
        state.is # "Closed" /\ state'.is = "Closed" =>
          \E c \in Caller : pc[c] = "answered" /\ answer[c] = "Ok" /\ pc'[c] # "answered"
  <1>1. TypeOK /\ [Next]_vars => [Closes]_vars
    <2> SUFFICES ASSUME TypeOK, Next, state.is # "Closed", state'.is = "Closed"
                 PROVE  \E c \in Caller :
                          pc[c] = "answered" /\ answer[c] = "Ok" /\ pc'[c] # "answered"
      OBVIOUS
    <2>1. PICK c \in Caller : Report(c)
      <3>1. ASSUME NEW d \in Caller,
                   Start(d) \/ Acquire(d) \/ Respond(d) \/ Wake(d) \/ Drop(d)
            PROVE  FALSE
        BY <3>1 DEF Start, Acquire, Respond, Wake, Drop
      <3>2. ASSUME NEW d \in Caller, CheckOpen(d) PROVE FALSE
        BY <3>2 DEF CheckOpen, Admit, Refuse, HalfOpen
      <3>3. ~Tick /\ ~Outage
        BY DEF Tick, Outage, Open
      <3>4. QED BY <3>1, <3>2, <3>3, BreakerConstants DEF Next, Proceed
    <2>2. state.is \in {"Open", "HalfOpen"}
      BY DEF TypeOK, Closed, Open, HalfOpen
    <2>3. AfterFailure(state).is # "Closed"
      BY <2>2 DEF AfterFailure, Open
    <2>4. answer[c] = "Ok"
      BY <2>1, <2>3 DEF Report
    <2>5. pc'[c] # "answered"
      BY <2>1 DEF Report, GoTo, TypeOK
    <2>6. QED BY <2>1, <2>4, <2>5 DEF Report
  <1>2. QED BY <1>1, TypeCorrect, PTL DEF Spec, OnlySuccessCloses

\* The finding of run breaker_open states what does not hold; this is what does.
\* An open circuit ends by its timeout, with a caller that is let through to
\* probe, or by the report of a success of a request sent before it opened.
OpenEndsByProbeOrSuccess ==
  [][state.is = "Open" /\ state'.is # "Open" =>
       \E c \in Caller :
         \/ /\ state.n >= Timeout
            /\ state' = HalfOpen(0)
            /\ pc[c] = "checking" /\ pc'[c] = "queueing"
         \/ /\ state' = Closed(0)
            /\ pc[c] = "answered" /\ answer[c] = "Ok"]_vars

\* However the checks, reports and ticks of the callers interleave, nothing
\* else ends it: no failure, no refused call and no passing of time alone.
THEOREM OpenEnds == Spec => OpenEndsByProbeOrSuccess
  <1> DEFINE Ends ==
        state.is = "Open" /\ state'.is # "Open" =>
          \E c \in Caller :
            \/ /\ state.n >= Timeout
               /\ state' = HalfOpen(0)
               /\ pc[c] = "checking" /\ pc'[c] = "queueing"
            \/ /\ state' = Closed(0)
               /\ pc[c] = "answered" /\ answer[c] = "Ok"
  <1>1. TypeOK /\ [Next]_vars => [Ends]_vars
    <2> SUFFICES ASSUME TypeOK, Next, state.is = "Open", state'.is # "Open" PROVE Ends
      OBVIOUS
    <2>1. ASSUME NEW c \in Caller,
                 Start(c) \/ Acquire(c) \/ Respond(c) \/ Wake(c) \/ Drop(c)
          PROVE  FALSE
      BY <2>1 DEF Start, Acquire, Respond, Wake, Drop
    <2>2. ~Tick /\ ~Outage
      BY DEF Tick, Outage, Open
    <2>3. ASSUME NEW c \in Caller, CheckOpen(c) PROVE Ends
      <3>1. /\ pc[c] = "checking" /\ pc'[c] = "queueing"
            /\ TimedOut(state) /\ state' = HalfOpen(0)
        BY <2>3 DEF CheckOpen, Admit, Refuse, GoTo, TypeOK
      <3>2. QED BY <3>1 DEF TimedOut
    <2>4. ASSUME NEW c \in Caller, Report(c) PROVE Ends
      <3>1. AfterFailure(state) = state
        BY DEF AfterFailure
      <3>2. pc[c] = "answered" /\ answer[c] = "Ok" /\ state' = AfterSuccess(state)
        BY <2>4, <3>1 DEF Report
      <3>3. state' = Closed(0)
        BY <3>2 DEF AfterSuccess
      <3>4. QED BY <3>2, <3>3
    <2>5. QED BY <2>1, <2>2, <2>3, <2>4, BreakerConstants DEF Next, Proceed
  <1>2. QED BY <1>1, TypeCorrect, PTL DEF Spec, OpenEndsByProbeOrSuccess

---------------------------------------------------------------------------
(* The circuit breaker: how long a call can be *)

\* The steps a call can still take: five for each attempt it has left, and
\* those of the attempt it is in.
Stage ==
  [checking |-> 5, queueing |-> 4, requesting |-> 3, answered |-> 2, sleeping |-> 1]

StepsLeft(c) ==
  IF pc[c] = "idle" THEN 0 ELSE 5 * (MaxAttempts - attempt[c]) + Stage[pc[c]]

\* A call that is not over has begun its first attempt.
CallsBegun == \A c \in Caller : pc[c] # "idle" => attempt[c] >= 1

CallInv == CallersOK /\ SleepersRetry /\ CallsBegun

LEMMA NextCallsBegun == CallersOK /\ CallsBegun /\ [Next]_vars => CallsBegun'
  <1> SUFFICES ASSUME CallersOK, CallsBegun, [Next]_vars PROVE CallsBegun'
    OBVIOUS
  <1>1. ASSUME NEW c \in Caller, Start(c) PROVE CallsBegun'
    BY <1>1 DEF Start, GoTo, CallersOK, CallsBegun
  <1>2. ASSUME NEW c \in Caller, CheckOpen(c) \/ Acquire(c) \/ Respond(c) \/ Report(c) \/ Drop(c)
        PROVE  CallsBegun'
    <2>1. pc[c] # "idle" /\ attempt' = attempt /\ \E place : GoTo(c, place)
      BY <1>2 DEF CheckOpen, Admit, Refuse, Acquire, Respond, Report, Drop
    <2>2. QED BY <2>1 DEF GoTo, CallersOK, CallsBegun
  <1>3. ASSUME NEW c \in Caller, Wake(c) PROVE CallsBegun'
    <2>1. attempt[c] \in 0 .. MaxAttempts /\ attempt'[c] = attempt[c] + 1
      BY <1>3 DEF Wake, CallersOK
    <2>2. attempt'[c] >= 1
      BY <2>1, BreakerConstants
    <2>3. QED BY <1>3, <2>2 DEF Wake, GoTo, CallersOK, CallsBegun
  <1>4. CASE Tick \/ Outage \/ UNCHANGED vars
    BY <1>4 DEF Tick, Outage, vars, CallsBegun
  <1>5. QED BY <1>1, <1>2, <1>3, <1>4, BreakerConstants DEF Next, Proceed

LEMMA CallInvariant == Spec => []CallInv
  <1>1. Init => CallInv
    BY BreakerConstants DEF Init, CallInv, CallersOK, SleepersRetry, CallsBegun, Answer
  <1>2. CallInv /\ [Next]_vars => CallInv'
    BY NextCallersOK, NextCallsBegun DEF CallInv
  <1>3. QED BY <1>1, <1>2, PTL DEF Spec

\* A step of a call brings its end nearer, and nothing takes it further away.
CallsShorten ==
  [][\A c \in Caller : pc[c] # "idle" =>
       IF pc'[c] = pc[c] THEN StepsLeft(c)' = StepsLeft(c)
                         ELSE StepsLeft(c)' < StepsLeft(c)]_vars

LEMMA StepsLeftBounded ==
  ASSUME CallInv, NEW c \in Caller
  PROVE  StepsLeft(c) \in 0 .. 5 * MaxAttempts
  <1>1. MaxAttempts \in Nat \ {0} /\ attempt[c] \in 0 .. MaxAttempts
    BY BreakerConstants DEF CallInv, CallersOK
  <1>2. CASE pc[c] = "idle"
    BY <1>1, <1>2 DEF StepsLeft
  <1>3. CASE pc[c] # "idle"
    <2>1. Stage[pc[c]] \in 1 .. 5
      BY <1>3 DEF CallInv, CallersOK, Stage
    <2>2. attempt[c] >= 1
      BY <1>3 DEF CallInv, CallsBegun
    <2>3. QED BY <1>1, <1>3, <2>1, <2>2 DEF StepsLeft
  <1>4. QED BY <1>2, <1>3

\* The half of CallsReturn that needs no fairness: a call takes at most five
\* steps for each of the attempts with_retry allows, whatever the breaker and
\* the other callers do in between.
THEOREM CallsAreBounded ==
  Spec => /\ [](\A c \in Caller : StepsLeft(c) \in 0 .. 5 * MaxAttempts)
          /\ CallsShorten
  <1> DEFINE Shorter(c) ==
               IF pc'[c] = pc[c] THEN StepsLeft(c)' = StepsLeft(c)
                                 ELSE StepsLeft(c)' < StepsLeft(c)
             Shorten == \A c \in Caller : pc[c] # "idle" => Shorter(c)
  <1>1. CallInv => \A c \in Caller : StepsLeft(c) \in 0 .. 5 * MaxAttempts
    BY StepsLeftBounded
  <1>2. CallInv /\ [Next]_vars => [Shorten]_vars
    <2> SUFFICES ASSUME CallInv, Next, NEW c \in Caller, pc[c] # "idle" PROVE Shorter(c)
      OBVIOUS
    <2>0. /\ MaxAttempts \in Nat \ {0} /\ attempt[c] \in 0 .. MaxAttempts
          /\ pc[c] \in {"checking", "queueing", "requesting", "answered", "sleeping"}
      BY BreakerConstants DEF CallInv, CallersOK
    <2>1. ASSUME UNCHANGED <<pc, attempt>> PROVE Shorter(c)
      BY <2>1 DEF StepsLeft
    <2>2. ASSUME NEW d \in Caller, d # c, Start(d) \/ Proceed(d) \/ Drop(d)
          PROVE  Shorter(c)
      <3>1. pc'[c] = pc[c] /\ attempt'[c] = attempt[c]
        BY <2>2 DEF Start, Proceed, CheckOpen, Admit, Refuse, Acquire, Respond, Report, Wake,
           Drop, GoTo, CallInv, CallersOK
      <3>2. QED BY <3>1 DEF StepsLeft
    <2>3. ~Start(c)
      BY DEF Start
    <2>4. CASE CheckOpen(c) \/ Acquire(c) \/ Respond(c) \/ Report(c) \/ Drop(c)
      <3>1. /\ attempt' = attempt
            /\ \/ pc[c] = "checking" /\ pc'[c] = "queueing"
               \/ pc[c] = "queueing" /\ pc'[c] \in {"requesting", "answered"}
               \/ pc[c] = "requesting" /\ pc'[c] = "answered"
               \/ pc[c] = "answered" /\ pc'[c] = "sleeping"
               \/ pc'[c] = "idle"
        BY <2>4 DEF CheckOpen, Admit, Refuse, Acquire, Respond, Report, Drop, GoTo, CallInv,
           CallersOK
      <3>2. QED BY <2>0, <3>1 DEF StepsLeft, Stage
    <2>5. CASE Wake(c)
      <3>1. /\ attempt'[c] = attempt[c] + 1
            /\ pc[c] = "sleeping" /\ pc'[c] = "checking"
        BY <2>5 DEF Wake, GoTo, CallInv, CallersOK
      <3>2. QED BY <2>0, <3>1 DEF StepsLeft, Stage
    <2>6. CASE Tick \/ Outage
      BY <2>1, <2>6 DEF Tick, Outage
    <2>7. QED
      BY <2>2, <2>3, <2>4, <2>5, <2>6, BreakerConstants DEF Next, Proceed
  <1>3. QED BY <1>1, <1>2, CallInvariant, PTL DEF Spec, CallsShorten

---------------------------------------------------------------------------
(* The circuit breaker: the way back *)

\* The failures of requests that have been answered and not yet reported.
FailuresHeld == {c \in Caller : pc[c] = "answered" /\ answer[c] # "Ok"}

\* How far the breaker is from an open circuit to a closed one.
Recovered(s) ==
  CASE s.is = "Open" -> s.n
    [] s.is = "HalfOpen" -> Timeout + 1 + s.n
    [] s.is = "Closed" -> Timeout + SuccessThreshold + 2

RecoveryAdvances ==
  [][up => /\ FailuresHeld' \subseteq FailuresHeld
           /\ FailuresHeld = {} => Recovered(state') >= Recovered(state)]_vars

LEMMA ReportRecovers ==
  ASSUME TypeOK, NEW c \in Caller, Report(c), answer[c] = "Ok"
  PROVE  Recovered(state') >= Recovered(state)
  <1>1. state' = AfterSuccess(state)
    BY DEF Report
  <1>2. Timeout \in Nat /\ SuccessThreshold \in Nat
    BY BreakerConstants
  <1>3. CASE \E n \in Below(FailureThreshold) : state = Closed(n)
    BY <1>1, <1>2, <1>3 DEF AfterSuccess, Closed, Recovered
  <1>4. CASE \E n \in 0 .. Timeout : state = Open(n)
    BY <1>1, <1>2, <1>4 DEF AfterSuccess, Closed, Open, Recovered
  <1>5. ASSUME NEW n \in Below(SuccessThreshold), state = HalfOpen(n)
        PROVE  Recovered(state') >= Recovered(state)
    <2>1. n \in 0 .. SuccessThreshold \/ n = 0
      BY <1>2 DEF Below
    <2>2. Recovered(state) = Timeout + 1 + n
      BY <1>5 DEF HalfOpen, Recovered
    <2>3. \/ state' = HalfOpen(n + 1) /\ Recovered(state') = Timeout + 1 + (n + 1)
          \/ state' = Closed(0) /\ Recovered(state') = Timeout + SuccessThreshold + 2
      BY <1>1, <1>5 DEF AfterSuccess, HalfOpen, Closed, Recovered
    <2>4. QED BY <1>2, <2>1, <2>2, <2>3
  <1>6. QED BY <1>3, <1>4, <1>5 DEF TypeOK

\* The half of RecoversWhenUp that needs no fairness: while the endpoint works
\* no failure is added to those in flight, and when the last of these has been
\* reported the circuit only goes on from open through half-open to closed.
THEOREM RecoveryOnlyAdvances == Spec => RecoveryAdvances
  <1> DEFINE Advances ==
        up => /\ FailuresHeld' \subseteq FailuresHeld
              /\ FailuresHeld = {} => Recovered(state') >= Recovered(state)
  <1>1. TypeOK /\ [Next]_vars => [Advances]_vars
    <2> SUFFICES ASSUME TypeOK, Next, up PROVE Advances
      OBVIOUS
    <2>0. /\ Timeout \in Nat
          /\ Recovered(state) \in Nat
      <3>1. Timeout \in Nat /\ SuccessThreshold \in Nat
        BY BreakerConstants
      <3>2. QED BY <3>1 DEF TypeOK, Below, Closed, Open, HalfOpen, Recovered
    <2>1. ASSUME NEW c \in Caller,
                 Start(c) \/ Wake(c) \/ Acquire(c) \/ Respond(c) \/ Drop(c)
          PROVE  Advances
      <3>1. state' = state
        BY <2>1 DEF Start, Wake, Acquire, Respond, Drop
      <3>2. FailuresHeld' \subseteq FailuresHeld
        BY <2>1 DEF Start, Wake, Acquire, Respond, Drop, GoTo, FailuresHeld, TypeOK
      <3>3. QED BY <2>0, <3>1, <3>2
    <2>2. ASSUME NEW c \in Caller, CheckOpen(c) PROVE Advances
      <3>1. FailuresHeld' \subseteq FailuresHeld
        BY <2>2 DEF CheckOpen, Admit, Refuse, GoTo, FailuresHeld, TypeOK
      <3>2. CASE state' = state
        BY <2>0, <3>1, <3>2
      <3>3. CASE TimedOut(state) /\ state' = HalfOpen(0)
        <4>1. \E n \in 0 .. Timeout : state = Open(n)
          BY <3>3 DEF TimedOut, TypeOK, Closed, HalfOpen
        <4>2. Recovered(state') = Timeout + 1 /\ Recovered(state) \in 0 .. Timeout
          BY <2>0, <3>3, <4>1 DEF Recovered, HalfOpen, Open
        <4>3. QED BY <2>0, <3>1, <4>2
      <3>4. QED BY <2>2, <3>2, <3>3 DEF CheckOpen, Admit, Refuse
    <2>3. ASSUME NEW c \in Caller, Report(c) PROVE Advances
      <3>1. FailuresHeld' \subseteq FailuresHeld
        BY <2>3 DEF Report, GoTo, FailuresHeld, TypeOK
      <3>2. FailuresHeld = {} => answer[c] = "Ok"
        BY <2>3 DEF Report, FailuresHeld
      <3>3. QED BY <2>3, <3>1, <3>2, ReportRecovers
    <2>4. CASE Tick
      <3>1. /\ FailuresHeld' = FailuresHeld
            /\ state.is = "Open" /\ state' = Open(state.n + 1)
        BY <2>4 DEF Tick, FailuresHeld
      <3>2. \E n \in 0 .. Timeout : state = Open(n)
        BY <3>1 DEF TypeOK, Closed, HalfOpen
      <3>3. Recovered(state') = state.n + 1 /\ Recovered(state) = state.n /\ state.n \in Nat
        BY <2>0, <3>1, <3>2 DEF Recovered, Open
      <3>4. QED BY <3>1, <3>3
    <2>5. CASE Outage
      BY <2>0, <2>5 DEF Outage, FailuresHeld
    <2>6. QED
      BY <2>1, <2>2, <2>3, <2>4, <2>5, BreakerConstants DEF Next, Proceed
  <1>2. QED BY <1>1, TypeCorrect, PTL DEF Spec, RecoveryAdvances

---------------------------------------------------------------------------
(* The rate limiter: requests that have read the counter *)

\* The requests that will be let in on what they read, a failed read apart.
Pending == {t \in Task : command[t] = "incr" /\ ~misread[t] /\ LetIn(current[t] + 1)}

\* Up to the request that takes the counter to one below the limit, no more
\* are let in than counted.  From then on only those pass that had read the
\* counter before, and the request that took it there is not one of them.
OvershootInv ==
  IF counter < Limit - 1
  THEN passed <= counter
  ELSE passed + Cardinality(Pending) <= Limit - 1 + (Cardinality(Task) - 1)

\* No more are let in by the counter in memory than it counted.
MemoryInv == passedInMemory <= memory.count

LimiterInv == LimiterTypeOK /\ OvershootInv /\ MemoryInv

\* Only finitely many requests are served at a time, so they can be counted.
LEMMA PendingCounts ==
  /\ IsFiniteSet(Pending)
  /\ Cardinality(Pending) \in Nat /\ Cardinality(Task) \in Nat \ {0}
  <1>1. IsFiniteSet(Task) /\ Cardinality(Task) \in Nat \ {0}
    BY LimiterConstants, FS_CardinalityType, FS_EmptySet
  <1>2. IsFiniteSet(Pending) /\ Cardinality(Pending) \in Nat
    BY <1>1, FS_Subset, FS_CardinalityType DEF Pending
  <1>3. QED BY <1>1, <1>2

\* A request that moves on, but for one that has just read, is pending no more.
LEMMA PendingLeaves ==
  ASSUME LimiterTypeOK, NEW t \in Task, NEW where, where # "incr",
         \/ Leaves(t, where)
         \/ Goes(t, where) /\ UNCHANGED <<current, misread>>
  PROVE  /\ Pending' = Pending \ {t}
         /\ Cardinality(Pending') =
              IF t \in Pending THEN Cardinality(Pending) - 1 ELSE Cardinality(Pending)
         /\ Cardinality(Pending') <= Cardinality(Task) - 1
  <1>1. Pending' = Pending \ {t}
    BY DEF LimiterTypeOK, Leaves, Goes, Pending, LetIn
  <1>2. Cardinality(Pending') =
          IF t \in Pending THEN Cardinality(Pending) - 1 ELSE Cardinality(Pending)
    BY <1>1, PendingCounts, FS_RemoveElement
  <1>3. Cardinality(Pending \ {t}) <= Cardinality(Task) - 1
    <2>1. IsFiniteSet(Task \ {t}) /\ Cardinality(Task \ {t}) = Cardinality(Task) - 1
      BY LimiterConstants, FS_RemoveElement
    <2>2. Pending \ {t} \in SUBSET (Task \ {t})
      BY DEF Pending
    <2>3. QED BY <2>1, <2>2, FS_Subset
  <1>4. QED BY <1>1, <1>2, <1>3

---------------------------------------------------------------------------
(* The rate limiter: types *)

\* What becomes of the counter when an answer is lost.
LEMMA LostFacts ==
  ASSUME LimiterTypeOK, NEW t \in Task, Lost(t)
  PROVE  /\ command[t] \in {"incr", "expire"}
         /\ UNCHANGED passed
         /\ counter' = counter \/ (command[t] = "incr" /\ Counted(t))
         /\ counter' \in 0 .. MaxCount
         /\ ttl' \in {"none", "set", "ending"} /\ forgotten' \in BOOLEAN
  <1>1. /\ command[t] \in {"incr", "expire"}
        /\ UNCHANGED passed
        /\ counter' = counter \/ (command[t] = "incr" /\ Counted(t))
    BY DEF Lost, StartWindow, redisVars
  <1>2. counter' \in 0 .. MaxCount
    BY <1>1, LimiterConstants DEF LimiterTypeOK, Counted
  <1>3. /\ ttl' \in {ttl, "set", "none"}
        /\ forgotten' \in {forgotten, FALSE, forgotten \/ counter = 0,
                            forgotten \/ (counter # 0 /\ ttl = "none")}
    BY DEF Lost, StartWindow, redisVars
  <1>4. ttl' \in {"none", "set", "ending"}
    BY <1>3 DEF LimiterTypeOK
  <1>5. forgotten' \in BOOLEAN
    BY <1>3, Zenon DEF LimiterTypeOK
  <1>6. QED BY <1>1, <1>2, <1>4, <1>5

LEMMA LeavesTypeOK ==
  ASSUME LimiterTypeOK, NEW t \in Task,
         NEW where \in {"idle", "get", "incr", "expire", "memory"}, Leaves(t, where)
  PROVE  /\ command' \in [Task -> {"idle", "get", "incr", "expire", "memory"}]
         /\ current' \in [Task -> 0 .. Limit - 1]
         /\ misread' \in [Task -> BOOLEAN]
  BY LimiterConstants DEF LimiterTypeOK, Leaves, Goes

LEMMA InitLimiterInv == LimiterInit => LimiterInv
  <1> SUFFICES ASSUME LimiterInit PROVE LimiterInv
    OBVIOUS
  <1>1. LimiterTypeOK /\ MemoryInv
    <2>1. 0 \in 0 .. Limit /\ 0 \in 0 .. Limit - 1 /\ 0 \in 0 .. MaxCount /\ 0 \in Nat
      BY LimiterConstants
    <2>2. LimiterTypeOK
      BY <2>1 DEF LimiterInit, LimiterTypeOK
    <2>3. MemoryInv
      BY LimiterConstants DEF LimiterInit, MemoryInv
    <2>4. QED BY <2>2, <2>3
  <1>2. Pending = {}
    BY DEF LimiterInit, Pending
  <1>3. OvershootInv
    BY <1>2, FS_EmptySet, PendingCounts, LimiterConstants DEF LimiterInit, OvershootInv
  <1>4. QED BY <1>1, <1>3 DEF LimiterInv

\* A request that counts: until the counter is at the limit's last place, as
\* many are let in as counted; after that it was pending or had misread.
LEMMA CountedKeepsOvershoot ==
  ASSUME LimiterInv, NEW t \in Task, command[t] = "incr", Counted(t),
         NEW where, where # "incr", Leaves(t, where),
         \/ UNCHANGED passed
         \/ passed' = IF LetIn(current[t] + 1) /\ ~misread[t] THEN passed + 1 ELSE passed
  PROVE  OvershootInv'
  <1>1. /\ Limit \in Nat \ {0} /\ MaxCount \in Nat /\ MaxCount >= Limit
        /\ counter \in 0 .. MaxCount /\ passed \in Nat
        /\ counter' = IF counter < MaxCount THEN counter + 1 ELSE counter
        /\ \/ passed' = passed
           \/ passed' = passed + 1 /\ t \in Pending
    BY LimiterConstants DEF LimiterInv, LimiterTypeOK, Counted, Pending
  <1>2. /\ Cardinality(Pending) \in Nat /\ Cardinality(Pending') \in Int
        /\ Cardinality(Task) \in Nat \ {0}
        /\ Cardinality(Pending') <= Cardinality(Task) - 1
        /\ Cardinality(Pending') <= Cardinality(Pending)
        /\ t \in Pending => Cardinality(Pending') = Cardinality(Pending) - 1
    BY PendingCounts, PendingLeaves DEF LimiterInv
  <1>3. CASE counter >= Limit - 1
    <2>1. passed + Cardinality(Pending) <= Limit - 1 + (Cardinality(Task) - 1)
      BY <1>1, <1>3 DEF LimiterInv, OvershootInv
    <2>2. passed' + Cardinality(Pending') <= Limit - 1 + (Cardinality(Task) - 1)
      BY <1>1, <1>2, <2>1
    <2>3. ~(counter' < Limit - 1)
      BY <1>1, <1>3
    <2>4. QED BY <2>2, <2>3 DEF OvershootInv
  <1>4. CASE counter < Limit - 1
    <2>1. passed <= counter
      BY <1>4 DEF LimiterInv, OvershootInv
    <2>2. counter' = counter + 1 /\ passed' <= counter' /\ counter' <= Limit - 1
      BY <1>1, <1>4, <2>1
    <2>3. ~(counter' < Limit - 1) =>
            passed' + Cardinality(Pending') <= Limit - 1 + (Cardinality(Task) - 1)
      BY <1>1, <1>2, <1>4, <2>2
    <2>4. QED BY <2>2, <2>3 DEF OvershootInv
  <1>5. QED BY <1>1, <1>3, <1>4

\* A request that does not count leaves no more of them pending.
LEMMA UncountedKeepsOvershoot ==
  ASSUME LimiterInv, NEW t \in Task, UNCHANGED <<counter, passed>>,
         NEW where, where # "incr",
         \/ Leaves(t, where)
         \/ Goes(t, where) /\ UNCHANGED <<current, misread>>
  PROVE  OvershootInv'
  <1>1. Cardinality(Pending') \in Int /\ Cardinality(Pending') <= Cardinality(Pending)
    BY PendingCounts, PendingLeaves DEF LimiterInv
  <1>2. QED
    BY <1>1, PendingCounts, LimiterConstants DEF LimiterInv, LimiterTypeOK, OvershootInv

---------------------------------------------------------------------------
(* The rate limiter: one lemma per command *)

LEMMA GetKeepsInv == ASSUME LimiterInv, NEW t \in Task, Get(t) PROVE LimiterInv'
  <1>1. PICK failed \in BOOLEAN :
          LET read == IF failed THEN 0 ELSE counter
          IN IF read >= Limit
             THEN /\ Goes(t, "idle")
                  /\ UNCHANGED <<current, misread>>
             ELSE /\ Goes(t, "incr")
                  /\ current' = [current EXCEPT ![t] = read]
                  /\ misread' = [misread EXCEPT ![t] = failed]
    BY DEF Get
  <1> DEFINE read == IF failed THEN 0 ELSE counter
  <1>2. UNCHANGED redisVars /\ UNCHANGED memoryVars
    BY DEF Get
  <1>3. read \in Nat /\ counter \in Nat /\ Limit \in Nat \ {0}
    BY LimiterConstants DEF LimiterInv, LimiterTypeOK
  <1>4. MemoryInv'
    BY <1>2 DEF LimiterInv, MemoryInv, memoryVars
  <1>5. CASE read >= Limit
    <2>1. Goes(t, "idle") /\ UNCHANGED <<current, misread>>
      BY <1>1, <1>5
    <2>2. LimiterTypeOK'
      BY <1>2, <2>1 DEF LimiterInv, LimiterTypeOK, Goes, redisVars, memoryVars
    <2>3. OvershootInv'
      BY <1>2, <2>1, UncountedKeepsOvershoot DEF redisVars
    <2>4. QED BY <1>4, <2>2, <2>3 DEF LimiterInv
  <1>6. CASE ~(read >= Limit)
    <2>1. /\ Goes(t, "incr")
          /\ current' = [current EXCEPT ![t] = read]
          /\ misread' = [misread EXCEPT ![t] = failed]
      BY <1>1, <1>6
    <2>2. read \in 0 .. Limit - 1
      BY <1>3, <1>6
    <2>3. LimiterTypeOK'
      BY <1>2, <2>1, <2>2 DEF LimiterInv, LimiterTypeOK, Goes, redisVars, memoryVars
    <2>4. ASSUME counter >= Limit - 1 PROVE Pending' = Pending
      <3>1. \A u \in Task \ {t} : u \in Pending' <=> u \in Pending
        BY <2>1 DEF LimiterInv, LimiterTypeOK, Goes, Pending, LetIn
      <3>2. t \notin Pending
        BY DEF Get, Pending
      <3>3. command'[t] = "incr" /\ current'[t] = read /\ misread'[t] = failed
        BY <2>1 DEF LimiterInv, LimiterTypeOK, Goes
      <3>4. failed \/ ~LetIn(read + 1)
        BY <1>3, <2>4 DEF LetIn
      <3>5. t \notin Pending'
        BY <3>3, <3>4 DEF Pending, LetIn
      <3>6. QED BY <3>1, <3>2, <3>5 DEF Pending
    <2>5. OvershootInv'
      BY <1>2, <1>3, <2>4 DEF LimiterInv, OvershootInv, redisVars
    <2>6. QED BY <1>4, <2>3, <2>5 DEF LimiterInv
  <1>7. QED BY <1>5, <1>6

LEMMA IncrKeepsInv == ASSUME LimiterInv, NEW t \in Task, Incr(t) PROVE LimiterInv'
  <1> DEFINE where == IF FirstInWindow(current[t]) THEN "expire" ELSE "idle"
  <1>1. /\ command[t] = "incr" /\ Counted(t) /\ Leaves(t, where)
        /\ passed' = IF LetIn(current[t] + 1) /\ ~misread[t] THEN passed + 1 ELSE passed
        /\ forgotten' = (forgotten \/ (counter = 0 /\ current[t] # 0))
        /\ UNCHANGED <<ttl, memoryVars>>
    BY DEF Incr
  <1>2. where \in {"idle", "expire"}
    OBVIOUS
  <1>3. OvershootInv'
    <2>1. where # "incr"
      BY <1>2
    <2> HIDE DEF where
    <2>2. QED BY <1>1, <2>1, CountedKeepsOvershoot
  <1>4. LimiterTypeOK'
    <2>1. counter' \in 0 .. MaxCount /\ passed' \in Nat
      BY <1>1, LimiterConstants DEF LimiterInv, LimiterTypeOK, Counted
    <2>2. /\ command' \in [Task -> {"idle", "get", "incr", "expire", "memory"}]
          /\ current' \in [Task -> 0 .. Limit - 1]
          /\ misread' \in [Task -> BOOLEAN]
      BY <1>1, <1>2, LeavesTypeOK DEF LimiterInv
    <2>3. QED BY <1>1, <2>1, <2>2 DEF LimiterInv, LimiterTypeOK, memoryVars
  <1>5. MemoryInv'
    BY <1>1 DEF LimiterInv, MemoryInv, memoryVars
  <1>6. QED BY <1>3, <1>4, <1>5 DEF LimiterInv

LEMMA LostKeepsInv ==
  ASSUME LimiterInv, NEW t \in Task, NEW where \in {"idle", "memory"},
         \/ Lost(t)
         \/ UNCHANGED redisVars,
         Leaves(t, where), UNCHANGED memoryVars
  PROVE  LimiterInv'
  <1>1. /\ UNCHANGED passed
        /\ counter' = counter \/ (command[t] = "incr" /\ Counted(t))
        /\ counter' \in 0 .. MaxCount
        /\ ttl' \in {"none", "set", "ending"} /\ forgotten' \in BOOLEAN
    BY LostFacts DEF LimiterInv, LimiterTypeOK, redisVars
  <1>2. LimiterTypeOK'
    BY <1>1, LeavesTypeOK DEF LimiterInv, LimiterTypeOK, memoryVars
  <1>3. OvershootInv'
    BY <1>1, CountedKeepsOvershoot, UncountedKeepsOvershoot
  <1>4. MemoryInv'
    BY DEF LimiterInv, MemoryInv, memoryVars
  <1>5. QED BY <1>2, <1>3, <1>4 DEF LimiterInv

LEMMA CheckMemoryKeepsInv ==
  ASSUME LimiterInv, NEW t \in Task, CheckMemory(t) PROVE LimiterInv'
  <1>1. Goes(t, "idle") /\ UNCHANGED <<current, misread, redisVars>>
    BY DEF CheckMemory
  <1>2. OvershootInv'
    BY <1>1, UncountedKeepsOvershoot DEF redisVars
  <1>3. /\ Limit \in Nat \ {0}
        /\ memory \in [count : 0 .. Limit, over : BOOLEAN] /\ passedInMemory \in Nat
        /\ passedInMemory <= memory.count
    BY LimiterConstants DEF LimiterInv, LimiterTypeOK, MemoryInv
  <1>4. memory' \in [count : 0 .. Limit, over : BOOLEAN] /\ MemoryInv'
    <2>1. CASE memory.over
      <3>1. memory' = [count |-> 1, over |-> FALSE] /\ passedInMemory' = 1
        BY <2>1 DEF CheckMemory
      <3>2. 1 \in 0 .. Limit
        BY <1>3
      <3>3. QED BY <3>1, <3>2 DEF MemoryInv
    <2>2. CASE ~memory.over /\ memory.count >= Limit
      BY <1>3, <2>2 DEF CheckMemory, MemoryInv, LimiterInv, memoryVars
    <2>3. CASE ~memory.over /\ ~(memory.count >= Limit)
      <3>1. /\ memory' = [memory EXCEPT !.count = @ + 1]
            /\ passedInMemory' =
                 passedInMemory + (IF LetIn(memory.count + 1) THEN 1 ELSE 0)
        BY <2>3 DEF CheckMemory
      <3>2. memory' \in [count : 0 .. Limit, over : BOOLEAN]
            /\ memory'.count = memory.count + 1
        BY <1>3, <2>3, <3>1
      <3>3. QED BY <1>3, <3>1, <3>2 DEF LetIn, MemoryInv, LimiterInv
    <2>4. QED BY <2>1, <2>2, <2>3
  <1>5. passedInMemory' \in 0 .. Limit
    BY <1>3, <1>4, LimiterConstants DEF CheckMemory, MemoryInv, LimiterInv, LimiterTypeOK, memoryVars, LetIn
  <1>6. LimiterTypeOK'
    BY <1>1, <1>4, <1>5 DEF LimiterInv, LimiterTypeOK, Goes, redisVars
  <1>7. QED BY <1>2, <1>4, <1>6 DEF LimiterInv

\* A new window starts with nobody let in: only a limit of one is reached at
\* once, and then nobody waits to be let in.
LEMMA ExpiresKeepsInv == ASSUME LimiterInv, Expires PROVE LimiterInv'
  <1>1. LimiterTypeOK' /\ MemoryInv'
    <2>1. 0 \in 0 .. MaxCount
      BY LimiterConstants
    <2>2. LimiterTypeOK'
      BY <2>1 DEF Expires, LimiterInv, LimiterTypeOK, memoryVars
    <2>3. MemoryInv'
      BY DEF Expires, LimiterInv, MemoryInv, memoryVars
    <2>4. QED BY <2>2, <2>3
  <1>2. Limit = 1 => Pending' = {}
    BY LimiterConstants DEF Expires, LimiterInv, LimiterTypeOK, Pending, LetIn
  <1>3. OvershootInv'
    BY <1>2, FS_EmptySet, PendingCounts, LimiterConstants DEF Expires, OvershootInv
  <1>4. QED BY <1>1, <1>3 DEF LimiterInv

LEMMA NextLimiterInv == LimiterInv /\ [LimiterNext]_limiterVars => LimiterInv'
  <1> SUFFICES ASSUME LimiterInv, [LimiterNext]_limiterVars PROVE LimiterInv'
    OBVIOUS
  <1>1. ASSUME NEW t \in Task, Arrive(t) PROVE LimiterInv'
    <2>1. LimiterTypeOK' /\ MemoryInv'
      BY <1>1 DEF Arrive, Goes, LimiterInv, LimiterTypeOK, MemoryInv, redisVars, memoryVars
    <2>2. OvershootInv'
      BY <1>1, UncountedKeepsOvershoot DEF Arrive, redisVars
    <2>3. QED BY <2>1, <2>2 DEF LimiterInv
  <1>2. ASSUME NEW t \in Task, Expire(t) PROVE LimiterInv'
    <2>1. LimiterTypeOK' /\ MemoryInv'
      BY <1>2 DEF Expire, StartWindow, Goes, LimiterInv, LimiterTypeOK, MemoryInv, memoryVars
    <2>2. OvershootInv'
      BY <1>2, UncountedKeepsOvershoot DEF Expire, StartWindow
    <2>3. QED BY <2>1, <2>2 DEF LimiterInv
  <1>3. ASSUME NEW t \in Task, Fail(t) \/ HangUp(t) PROVE LimiterInv'
    BY <1>3, LostKeepsInv DEF Fail, HangUp
  <1>4. CASE MemoryExpires \/ Ages
    <2>1. LimiterTypeOK' /\ MemoryInv'
      BY <1>4 DEF MemoryExpires, Ages, memoryVars, LimiterInv, LimiterTypeOK, MemoryInv, redisVars
    <2>2. OvershootInv'
      BY <1>4 DEF MemoryExpires, Ages, LimiterInv, OvershootInv, Pending, LetIn, redisVars
    <2>3. QED BY <2>1, <2>2 DEF LimiterInv
  <1>5. CASE UNCHANGED limiterVars
    BY <1>5 DEF limiterVars, LimiterInv, LimiterTypeOK, OvershootInv, MemoryInv, Pending, LetIn
  <1>6. QED
    BY <1>1, <1>2, <1>3, <1>4, <1>5, GetKeepsInv, IncrKeepsInv, CheckMemoryKeepsInv,
       ExpiresKeepsInv DEF LimiterNext

LEMMA LimiterInvariant == LimiterSpec => []LimiterInv
  <1>1. QED BY InitLimiterInv, NextLimiterInv, PTL DEF LimiterSpec

\* Requests keep what they read as long as they have not used it, and neither
\* counter passes its bound.
THEOREM LimiterTypeCorrect == LimiterSpec => []LimiterTypeOK
  <1>1. LimiterInv => LimiterTypeOK
    BY DEF LimiterInv
  <1>2. QED BY <1>1, LimiterInvariant, PTL

\* Whatever the commands of concurrent requests fail, lose or overtake, the
\* limit is exceeded by no more than the other requests under way, failed
\* reads apart; the counter in memory never exceeds it.
THEOREM OvershootCorrect == LimiterSpec => []OvershootBounded
  <1>1. LimiterInv => OvershootBounded
    <2> SUFFICES ASSUME LimiterInv PROVE OvershootBounded
      OBVIOUS
    <2>1. /\ Limit \in Nat \ {0} /\ counter \in Nat /\ passed \in Nat
          /\ Cardinality(Pending) \in Nat /\ Cardinality(Task) \in Nat \ {0}
      BY PendingCounts, LimiterConstants DEF LimiterInv, LimiterTypeOK
    <2>2. passedInMemory <= Limit
      BY <2>1 DEF LimiterInv, LimiterTypeOK
    <2>3. passed <= Limit + (Cardinality(Task) - 1)
      BY <2>1 DEF LimiterInv, OvershootInv
    <2>4. QED BY <2>2, <2>3 DEF OvershootBounded
  <1>2. QED BY <1>1, LimiterInvariant, PTL

---------------------------------------------------------------------------
(* The rate limiter: the expiry of the key *)

\* A counter without a time to live has a request that is about to give it
\* one, unless the command that would have was lost, or the counter was made
\* by a request that had read the one before it (rate_limit.rs:327).
ExpiryIsDue ==
  counter # 0 /\ ttl = "none" /\ ~forgotten => \E t \in Task : command[t] = "expire"

LEMMA NextExpiryIsDue ==
  LimiterTypeOK /\ ExpiryIsDue /\ [LimiterNext]_limiterVars => ExpiryIsDue'
  <1> SUFFICES ASSUME LimiterTypeOK, ExpiryIsDue, [LimiterNext]_limiterVars,
                      counter' # 0, ttl' = "none", ~forgotten'
               PROVE  \E t \in Task : command'[t] = "expire"
    BY DEF ExpiryIsDue
  <1>1. ASSUME NEW t \in Task, Arrive(t) \/ Get(t) \/ CheckMemory(t)
        PROVE  \E u \in Task : command'[u] = "expire"
    <2>1. command[t] # "expire" /\ UNCHANGED redisVars /\ \E where : Goes(t, where)
      BY <1>1 DEF Arrive, Get, CheckMemory
    <2>2. QED BY <2>1 DEF LimiterTypeOK, ExpiryIsDue, Goes, redisVars
  <1>2. ASSUME NEW t \in Task, Incr(t)
        PROVE  \E u \in Task : command'[u] = "expire"
    <2>1. CASE current[t] = 0
      BY <1>2, <2>1 DEF Incr, FirstInWindow, Leaves, Goes, LimiterTypeOK
    <2>2. CASE current[t] # 0
      <3>1. counter # 0 /\ ttl = "none" /\ ~forgotten
        BY <1>2, <2>2 DEF Incr, LimiterTypeOK
      <3>2. PICK u \in Task : command[u] = "expire"
        BY <3>1 DEF ExpiryIsDue
      <3>3. u # t
        BY <1>2, <3>2 DEF Incr
      <3>4. QED BY <1>2, <3>2, <3>3 DEF Incr, Leaves, Goes, LimiterTypeOK
    <2>3. QED BY <2>1, <2>2
  <1>3. ASSUME NEW t \in Task, Expire(t) PROVE FALSE
    BY <1>3 DEF Expire, StartWindow
  <1>4. ASSUME NEW t \in Task, Fail(t) \/ HangUp(t)
        PROVE  \E u \in Task : command'[u] = "expire"
    <2>1. counter # 0 /\ ttl = "none" /\ ~forgotten /\ command[t] # "expire"
      BY <1>4 DEF Fail, HangUp, Lost, StartWindow, LimiterTypeOK, redisVars
    <2>2. PICK u \in Task : command[u] = "expire" /\ u # t
      BY <2>1 DEF ExpiryIsDue
    <2>3. QED BY <1>4, <2>2 DEF Fail, HangUp, Leaves, Goes, LimiterTypeOK
  <1>5. CASE Expires \/ Ages
    BY <1>5 DEF Expires, Ages
  <1>6. CASE MemoryExpires \/ UNCHANGED limiterVars
    BY <1>6 DEF MemoryExpires, limiterVars, redisVars, ExpiryIsDue
  <1>7. QED BY <1>1, <1>2, <1>3, <1>4, <1>5, <1>6 DEF LimiterNext

\* So a counter stands for ever in the cases that `forgotten` names and no
\* others: the half of LimitLifts that needs no fairness.
THEOREM ExpiryCorrect == LimiterSpec => []ExpiryIsDue
  <1>1. LimiterInit => ExpiryIsDue
    BY DEF LimiterInit, ExpiryIsDue
  <1>2. LimiterInv /\ ExpiryIsDue /\ [LimiterNext]_limiterVars => ExpiryIsDue'
    BY NextExpiryIsDue DEF LimiterInv
  <1>3. QED BY <1>1, <1>2, LimiterInvariant, PTL DEF LimiterSpec
===========================================================================
