---------------------------- MODULE RateLimiter ----------------------------
(***************************************************************************)
(* The HTTP rate limiter, backend/src/rate_limit.rs, for the requests of   *)
(* one client to one endpoint, which is not white-listed: the counter in   *)
(* Redis, read, incremented and given its expiry by separate commands, and *)
(* the counter in memory that is used when one of those commands fails.    *)
(*                                                                         *)
(* Requests are served concurrently.  A command may fail before or after   *)
(* Redis has executed it, and a request whose client hangs up is dropped   *)
(* at the command it waits for.  Time is the two windows of 60 seconds,    *)
(* each of which may end between any two steps; the one in Redis passes in *)
(* two stages, because every EXPIRE starts it again.                       *)
(***************************************************************************)
EXTENDS Integers, FiniteSets

CONSTANTS
  Task,       \* bound: requests served at a time
  Limit,      \* the limit of the client's tier
  MaxCount    \* bound: where the counter in Redis stops; from Limit on all
              \* values are alike

ASSUME LimiterConstants ==
  /\ IsFiniteSet(Task) /\ Task # {}
  /\ Limit \in Nat \ {0}
  /\ MaxCount \in Nat /\ MaxCount >= Limit

VARIABLES
  command,    \* the command a request waits for, or the fallback it goes to
  current,    \* what it read, until it has used it
  misread,    \* history: the read had failed
  counter,    \* in Redis; 0: there is no such key
  ttl,        \* its time to live: "none", "set", or "ending"
  memory,     \* fallback_memory_store: the count, and whether its time is over
  passed,     \* history: requests let in by the present counter, but for those
              \* whose read had failed
  passedInMemory,  \* history: requests let in by the counter in memory
  forgotten   \* history: the command that would have given the counter its
              \* expiry was lost, or the counter was made by a request that
              \* had read the one before it

limiterVars == <<command, current, misread, counter, ttl, memory,
                 passed, passedInMemory, forgotten>>

redisVars == <<counter, ttl, passed, forgotten>>
memoryVars == <<memory, passedInMemory>>

LimiterTypeOK ==
  /\ command \in [Task -> {"idle", "get", "incr", "expire", "memory"}]
  /\ current \in [Task -> 0 .. Limit - 1]
  /\ misread \in [Task -> BOOLEAN]
  /\ counter \in 0 .. MaxCount
  /\ ttl \in {"none", "set", "ending"}
  /\ memory \in [count : 0 .. Limit, over : BOOLEAN]
  /\ passed \in Nat
  /\ passedInMemory \in 0 .. Limit
  /\ forgotten \in BOOLEAN

LimiterInit ==
  /\ command = [t \in Task |-> "idle"]
  /\ current = [t \in Task |-> 0]
  /\ misread = [t \in Task |-> FALSE]
  /\ counter = 0
  /\ ttl = "none"
  /\ memory = [count |-> 0, over |-> FALSE]
  /\ passed = 0 /\ passedInMemory = 0
  /\ forgotten = FALSE

Goes(t, where) == command' = [command EXCEPT ![t] = where]

\* Request t goes on without what it had read.
Leaves(t, where) ==
  /\ Goes(t, where)
  /\ current' = [current EXCEPT ![t] = 0]
  /\ misread' = [misread EXCEPT ![t] = FALSE]

---------------------------------------------------------------------------
(* check_redis_limit *)

\* Whether the request that brings the count to n is let in.
LetIn(n) == n < Limit

\* Whether a request that read c sets the expiry.  Fault: the count is taken
\* to be the one after the increment.
SecondInWindow(c) == c = 1
FirstInWindow(c) == c = 0

Arrive(t) ==
  /\ command[t] = "idle"
  /\ Goes(t, "get")
  /\ UNCHANGED <<current, misread, redisVars, memoryVars>>

\* GET, of which an error reads as zero, and the TTL for the headers.
Get(t) ==
  /\ command[t] = "get"
  /\ \E failed \in BOOLEAN :
       LET read == IF failed THEN 0 ELSE counter
       IN IF read >= Limit
          THEN /\ Goes(t, "idle")
               /\ UNCHANGED <<current, misread>>
          ELSE /\ Goes(t, "incr")
               /\ current' = [current EXCEPT ![t] = read]
               /\ misread' = [misread EXCEPT ![t] = failed]
  /\ UNCHANGED <<redisVars, memoryVars>>

\* Fault: what was read plus one is written back.
CountedFromRead(t) == counter' = current[t] + 1

Counted(t) == counter' = IF counter < MaxCount THEN counter + 1 ELSE counter

Incr(t) ==
  /\ command[t] = "incr"
  /\ Counted(t)
  /\ Leaves(t, IF FirstInWindow(current[t]) THEN "expire" ELSE "idle")
  /\ passed' = IF LetIn(current[t] + 1) /\ ~misread[t] THEN passed + 1 ELSE passed
  /\ forgotten' = (forgotten \/ (counter = 0 /\ current[t] # 0))
  /\ UNCHANGED <<ttl, memoryVars>>

\* EXPIRE gives the key all of its 60 seconds, whatever it had left of them,
\* and does nothing if the key is gone.
StartWindow ==
  /\ ttl' = IF counter # 0 THEN "set" ELSE "none"
  /\ forgotten' = FALSE
  /\ UNCHANGED <<counter, passed>>

Expire(t) ==
  /\ command[t] = "expire"
  /\ StartWindow
  /\ Goes(t, "idle")
  /\ UNCHANGED <<current, misread, memoryVars>>

\* INCR or EXPIRE ends without an answer for request t.
Lost(t) ==
  \/ /\ command[t] = "incr"
     /\ \/ UNCHANGED redisVars
        \/ /\ Counted(t)
           /\ forgotten' = (forgotten \/ counter = 0)
           /\ UNCHANGED <<ttl, passed>>
  \/ /\ command[t] = "expire"
     /\ \/ /\ forgotten' = (forgotten \/ (counter # 0 /\ ttl = "none"))
           /\ UNCHANGED <<counter, ttl, passed>>
        \/ StartWindow

\* An error of INCR or EXPIRE sends the request to the counter in memory.
Fail(t) ==
  /\ Lost(t)
  /\ Leaves(t, "memory")
  /\ UNCHANGED memoryVars

HangUp(t) ==
  /\ Lost(t) \/ (command[t] \in {"get", "memory"} /\ UNCHANGED redisVars)
  /\ Leaves(t, "idle")
  /\ UNCHANGED memoryVars

---------------------------------------------------------------------------
\* check_memory_limit, under the lock of the store.
CheckMemory(t) ==
  /\ command[t] = "memory"
  /\ IF memory.over
     THEN /\ memory' = [count |-> 1, over |-> FALSE]
          /\ passedInMemory' = 1
     ELSE IF memory.count >= Limit
     THEN UNCHANGED memoryVars
     ELSE /\ memory' = [memory EXCEPT !.count = @ + 1]
          /\ passedInMemory' = passedInMemory + (IF LetIn(memory.count + 1) THEN 1 ELSE 0)
  /\ Goes(t, "idle")
  /\ UNCHANGED <<current, misread, redisVars>>

\* The 60 seconds pass, if no EXPIRE starts them again before they are over,
\* and Redis drops the key.
Ages ==
  /\ ttl = "set"
  /\ ttl' = "ending"
  /\ UNCHANGED <<command, current, misread, counter, passed, forgotten, memoryVars>>

Expires ==
  /\ ttl = "ending"
  /\ counter' = 0
  /\ ttl' = "none"
  /\ passed' = 0
  /\ forgotten' = FALSE
  /\ UNCHANGED <<command, current, misread, memoryVars>>

\* The clock passes `expiry`.
MemoryExpires ==
  /\ memory.count # 0 /\ ~memory.over
  /\ memory' = [memory EXCEPT !.over = TRUE]
  /\ UNCHANGED <<command, current, misread, redisVars, passedInMemory>>

LimiterNext ==
  \/ \E t \in Task :
       Arrive(t) \/ Get(t) \/ Incr(t) \/ Expire(t) \/ Fail(t) \/ HangUp(t) \/ CheckMemory(t)
  \/ Ages \/ Expires \/ MemoryExpires

LimiterSpec == LimiterInit /\ [][LimiterNext]_limiterVars

\* Redis drops a key whose time to live is over, and a command that was sent
\* is executed or fails; clients owe nothing.
FairLimiterSpec ==
  /\ LimiterSpec
  /\ WF_limiterVars(Ages) /\ WF_limiterVars(Expires)
  /\ \A t \in Task : WF_limiterVars(Expire(t) \/ Fail(t))

---------------------------------------------------------------------------
(* Properties *)

\* How far the limit may be exceeded (rate_limit.rs:316).  However requests
\* overtake each other between their GET and their INCR, a counter lets in no
\* more than the limit, and one for each other request that had read it, or
\* the counter before it, too early; requests whose read failed and was taken
\* for zero come on top.  The counter in memory never exceeds the limit.
OvershootBounded ==
  /\ passed <= Limit + (Cardinality(Task) - 1)
  /\ passedInMemory <= Limit

ReadFails == \E t \in Task : ~misread[t] /\ misread'[t]

\* A client at its limit is let in again, if reads do not go on failing for
\* ever: each failed read has the window started again (rate_limit.rs:326).
\* The counter falls below the limit, but for a counter that has no expiry
\* because the command that sets it was lost after the increment, or because
\* the counter expired between the read of a request and its increment, which
\* then made it anew (rate_limit.rs:327).
LimitLifts ==
  <>[][~ReadFails]_limiterVars =>
    (counter >= Limit ~> (counter < Limit \/ forgotten))

\* "First 10 requests should succeed" (tests/rate_limit_tests.rs:69), with a
\* limit of 10 and the counter in memory: a request that this counter counts,
\* which it does up to the limit, is let in.
FirstRequestsSucceed == passedInMemory = memory.count
=============================================================================
