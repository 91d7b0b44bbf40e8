-------------------------- MODULE CircuitBreaker --------------------------
(***************************************************************************)
(* The RPC client's circuit breaker, backend/src/rpc/circuit_breaker.rs,   *)
(* shared by every task that calls the Stellar endpoints through           *)
(* with_retry, backend/src/rpc/error.rs.                                   *)
(*                                                                         *)
(* The breaker's state is behind a mutex, but CircuitBreaker::call takes   *)
(* that mutex twice, and in between the caller waits for a token of the    *)
(* client's own rate limiter and then for its response.  Any other task    *)
(* may run at each await: CheckOpen, Acquire, Respond and Report are steps *)
(* of their own.                                                           *)
(* The clock is abstracted to the ticks since the circuit opened.          *)
(***************************************************************************)
EXTENDS Integers

CONSTANTS
  Caller,             \* the tasks that use the client
  HttpCaller,         \* those that run in an HTTP handler: a disconnecting
                      \* client drops them at any await
  FailureThreshold,
  SuccessThreshold,
  Timeout,            \* timeout_duration, in ticks
  MaxAttempts         \* max_retries + 1

ASSUME BreakerConstants ==
  /\ HttpCaller \subseteq Caller
  /\ FailureThreshold \in Nat
  /\ SuccessThreshold \in Nat
  /\ Timeout \in Nat
  /\ MaxAttempts \in Nat \ {0}

VARIABLES
  state,      \* CircuitState
  pc,         \* where each caller's with_retry loop is
  attempt,    \* its loop counter
  answer,     \* the result it is about to report, "Ok" while it has none
  up          \* whether requests succeed: the endpoint works, with room in
              \* the rate limiter's queue

vars == <<state, pc, attempt, answer, up>>

\* CircuitState, n being failure_count, the ticks since opened_at (counted up
\* to Timeout) and success_count.
Closed(n) == [is |-> "Closed", n |-> n]
Open(n) == [is |-> "Open", n |-> n]
HalfOpen(n) == [is |-> "HalfOpen", n |-> n]

\* RpcError, by what is_transient and is_retryable make of it: Transient is
\* both, a ServerError of 500 or more is only retryable, Rejected is neither.
Failure == {"Transient", "ServerError", "Rejected"}
Answer == {"Ok"} \cup Failure
Retryable == {"Transient", "ServerError"}

---------------------------------------------------------------------------
Init ==
  /\ state = Closed(0)
  /\ pc = [c \in Caller |-> "idle"]
  /\ attempt = [c \in Caller |-> 0]
  /\ answer = [c \in Caller |-> "Ok"]
  /\ up \in BOOLEAN

GoTo(c, place) == pc' = [pc EXCEPT ![c] = place]

Start(c) ==
  /\ pc[c] = "idle"
  /\ GoTo(c, "checking")
  /\ attempt' = [attempt EXCEPT ![c] = 1]
  /\ UNCHANGED <<state, answer, up>>

TimedOut(s) == s.is = "Open" /\ s.n >= Timeout

\* is_open answers false, and the caller queues for a token.
Admit(c) ==
  /\ \/ /\ state.is # "Open"
        /\ UNCHANGED state
     \/ /\ TimedOut(state)
        /\ state' = HalfOpen(0)
  /\ GoTo(c, "queueing")
  /\ UNCHANGED <<attempt, answer, up>>

\* is_open answers true; CircuitBreakerOpen is not transient, so with_retry
\* returns it.
Refuse(c) ==
  /\ state.is = "Open" /\ ~TimedOut(state)
  /\ GoTo(c, "idle")
  /\ UNCHANGED <<state, attempt, answer, up>>

CheckOpen(c) == pc[c] = "checking" /\ (Admit(c) \/ Refuse(c))

\* The token is there, however long after the check, and the request is sent
\* without another look at the circuit; or the queue was full, which is a
\* RateLimitError.
Acquire(c) ==
  /\ pc[c] = "queueing"
  /\ \/ /\ GoTo(c, "requesting")
        /\ UNCHANGED answer
     \/ /\ ~up
        /\ answer' = [answer EXCEPT ![c] = "Transient"]
        /\ GoTo(c, "answered")
  /\ UNCHANGED <<state, attempt, up>>

Respond(c) ==
  /\ pc[c] = "requesting"
  /\ \E a \in Answer :
       /\ up <=> a = "Ok"
       /\ answer' = [answer EXCEPT ![c] = a]
  /\ GoTo(c, "answered")
  /\ UNCHANGED <<state, attempt, up>>

\* Fault: a half-open success is not counted.
AfterSuccessUncounted(s) ==
  IF s.is = "HalfOpen" /\ 1 < SuccessThreshold THEN HalfOpen(0) ELSE Closed(0)

AfterSuccess(s) ==
  IF s.is = "HalfOpen" /\ s.n + 1 < SuccessThreshold
  THEN HalfOpen(s.n + 1)
  ELSE Closed(0)

\* Faults: the threshold is passed, not reached; the placeholder that
\* mem::replace leaves behind stays in place of an open state; an open circuit
\* opens anew.
AfterFailureLate(s) ==
  CASE s.is = "Closed" -> IF s.n + 1 > FailureThreshold THEN Open(0) ELSE Closed(s.n + 1)
    [] s.is = "HalfOpen" -> Open(0)
    [] s.is = "Open" -> s

AfterFailureForgotten(s) ==
  CASE s.is = "Closed" -> IF s.n + 1 >= FailureThreshold THEN Open(0) ELSE Closed(s.n + 1)
    [] s.is = "HalfOpen" -> Open(0)
    [] s.is = "Open" -> Closed(0)

AfterFailureReopens(s) ==
  CASE s.is = "Closed" -> IF s.n + 1 >= FailureThreshold THEN Open(0) ELSE Closed(s.n + 1)
    [] s.is = "HalfOpen" -> Open(0)
    [] s.is = "Open" -> Open(0)

AfterFailure(s) ==
  CASE s.is = "Closed" -> IF s.n + 1 >= FailureThreshold THEN Open(0) ELSE Closed(s.n + 1)
    [] s.is = "HalfOpen" -> Open(0)
    [] s.is = "Open" -> s

Retries(c) == answer[c] = "Transient" /\ attempt[c] < MaxAttempts

\* The rest of call, and what with_retry does with its result.
Report(c) ==
  /\ pc[c] = "answered"
  /\ state' = IF answer[c] = "Ok" THEN AfterSuccess(state)
              ELSE IF answer[c] \in Retryable THEN AfterFailure(state)
              ELSE state
  /\ GoTo(c, IF Retries(c) THEN "sleeping" ELSE "idle")
  /\ answer' = [answer EXCEPT ![c] = "Ok"]
  /\ UNCHANGED <<attempt, up>>

\* Fault: the attempt is not counted.
WakeUncounted(c) ==
  /\ pc[c] = "sleeping"
  /\ GoTo(c, "checking")
  /\ UNCHANGED <<state, attempt, answer, up>>

\* The backoff ends.
Wake(c) ==
  /\ pc[c] = "sleeping"
  /\ GoTo(c, "checking")
  /\ attempt' = [attempt EXCEPT ![c] = @ + 1]
  /\ UNCHANGED <<state, answer, up>>

\* The handler's future is dropped: nothing is reported.
Drop(c) ==
  /\ pc[c] # "idle"
  /\ GoTo(c, "idle")
  /\ answer' = [answer EXCEPT ![c] = "Ok"]
  /\ UNCHANGED <<state, attempt, up>>

Tick ==
  /\ state.is = "Open" /\ state.n < Timeout
  /\ state' = Open(state.n + 1)
  /\ UNCHANGED <<pc, attempt, answer, up>>

Outage == up' = ~up /\ UNCHANGED <<state, pc, attempt, answer>>

Proceed(c) == CheckOpen(c) \/ Acquire(c) \/ Respond(c) \/ Report(c) \/ Wake(c)

Next ==
  \/ \E c \in Caller : Start(c) \/ Proceed(c)
  \/ \E c \in HttpCaller : Drop(c)
  \/ Tick
  \/ Outage

Spec == Init /\ [][Next]_vars

\* A task that has begun goes on: locks are held for no await, the HTTP client
\* gives up after 30 s, backoffs are bounded, and the rate limiter is taken to
\* give a waiting task its token.  Background jobs call again and again; HTTP
\* handlers need not.  Nothing makes an outage end.
Fairness ==
  /\ \A c \in Caller : WF_vars(Proceed(c))
  /\ \A c \in Caller \ HttpCaller : WF_vars(Start(c))
  /\ WF_vars(Tick)

FairSpec == Spec /\ Fairness

---------------------------------------------------------------------------
(* Properties *)

Below(threshold) == {0} \cup 0 .. threshold - 1

\* Each variable has its type, and no count stays at the threshold that ends
\* its state (a threshold of 0 acts as 1).
TypeOK ==
  /\ \/ \E n \in Below(FailureThreshold) : state = Closed(n)
     \/ \E n \in 0 .. Timeout : state = Open(n)
     \/ \E n \in Below(SuccessThreshold) : state = HalfOpen(n)
  /\ pc \in [Caller -> {"idle", "checking", "queueing", "requesting", "answered", "sleeping"}]
  /\ attempt \in [Caller -> 0 .. MaxAttempts]
  /\ answer \in [Caller -> Answer]
  /\ up \in BOOLEAN

\* An open circuit keeps the time it opened at: failures reported late, of
\* requests admitted before it opened and sent before or after, do not put off
\* the probe that its timeout promises.
OpenKeepsItsTime ==
  [][state.is = "Open" /\ state'.is = "Open" => state'.n >= state.n]_vars

\* A circuit that is not closed becomes closed only in the step in which a
\* successful request is reported: failures reported late, by callers that
\* were admitted before it opened, never do that.
OnlySuccessCloses ==
  [][state.is # "Closed" /\ state'.is = "Closed" =>
       \E c \in Caller : pc[c] = "answered" /\ answer[c] = "Ok" /\ pc'[c] # "answered"]_vars

\* with_retry returns: refused, dropped, or after its attempts.
CallsReturn == \A c \in Caller : pc[c] # "idle" ~> pc[c] = "idle"

\* Once the endpoint works for good the circuit closes for good, however many
\* failures were in flight, because background jobs keep probing it.
RecoversWhenUp == <>[]up => <>[](state.is = "Closed")

\* The module comment of circuit_breaker.rs: "After a configurable number of
\* failures, the circuit opens and requests fail fast. After a timeout, the
\* circuit moves to half-open".
OpenUntilTimeout ==
  [][state.is = "Open" /\ state'.is # "Open" => state.n >= Timeout]_vars
===========================================================================
