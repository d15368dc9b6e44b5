---------------------------- MODULE NodeActivity ----------------------------
(***************************************************************************)
(* One agent node of the order pipeline run as a Temporal activity:        *)
(* multi._run with chaos.maybe_inject, under the retry policy and timeouts *)
(* of temporal/retry.py.  Temporal gives up on an attempt that is silent   *)
(* for too long, but nothing stops the thread that runs it: it goes on     *)
(* beside its successors and its late report is dropped.                   *)
(***************************************************************************)
EXTENDS Integers

CONSTANTS
    MaxAttempts,  \* temporal.activity.retry.maximum_attempts
    ChaosSpecs    \* the chaos specs a run may carry

Modes == {"none", "transient_error", "permanent_error", "latency"}

ASSUME ActivityAssumption ==
    /\ MaxAttempts \in Nat \ {0}
    /\ ChaosSpecs \subseteq [targeted : BOOLEAN, mode : Modes, attempts : Nat]

Attempts == 1..MaxAttempts

VARIABLES
    chaos,    \* the spec in the run's state; targeted = its target is this role
    state,    \* the activity on the server
    attempt,  \* its current attempt, 1-based
    thread,   \* thread[k]: where the worker's thread of attempt k is
    winner,   \* the attempt whose result completed the activity, 0 before
    injected, \* failures reported by injected errors
    faults    \* failures of any other kind: LLM errors, timeouts, worker crashes

vars == <<chaos, state, attempt, thread, winner, injected, faults>>

Init ==
    /\ chaos \in ChaosSpecs
    /\ state = "scheduled"
    /\ attempt = 1
    /\ thread = [k \in Attempts |-> "none"]
    /\ winner = 0
    /\ injected = 0
    /\ faults = 0

-----------------------------------------------------------------------------

\* _applies_this_attempt. Fault: applied on one attempt too many.
AppliesOnceMore(k) == chaos.attempts = 0 \/ k <= chaos.attempts + 1
AppliesTo(k) == chaos.attempts = 0 \/ k <= chaos.attempts

\* maybe_inject does something on attempt k: target, mode, then attempts.
Injects(k) == chaos.targeted /\ chaos.mode # "none" /\ AppliesTo(k)
Raises(k)  == Injects(k) /\ chaos.mode \in {"transient_error", "permanent_error"}
Sleeps(k)  == Injects(k) /\ chaos.mode = "latency"

\* The server hears that the current attempt failed. Fault: one retry too many.
RetryTooOften ==
    \/ attempt <= MaxAttempts /\ attempt' = attempt + 1 /\ state' = "scheduled"
    \/ attempt > MaxAttempts /\ state' = "failed" /\ UNCHANGED attempt
Retry ==
    \/ attempt < MaxAttempts /\ attempt' = attempt + 1 /\ state' = "scheduled"
    \/ attempt = MaxAttempts /\ state' = "failed" /\ UNCHANGED attempt

\* A report counts only for the attempt the server waits for.
Current(k) == state = "started" /\ k = attempt

\* A worker polls the task.
StartAttempt ==
    /\ state = "scheduled"
    /\ state' = "started"
    /\ thread' = [thread EXCEPT ![attempt] = "injecting"]
    /\ UNCHANGED <<chaos, attempt, winner, injected, faults>>

\* maybe_inject raises ChaosError, which is retryable.
InjectError(k) ==
    /\ thread[k] = "injecting" /\ Raises(k)
    /\ thread' = [thread EXCEPT ![k] = "ended"]
    /\ \/ Current(k) /\ Retry /\ injected' = injected + 1
       \/ ~Current(k) /\ UNCHANGED <<state, attempt, injected>>
    /\ UNCHANGED <<chaos, winner, faults>>

\* maybe_inject sleeps and returns, or does nothing: the LLM is called next.
PassInjection(k) ==
    /\ thread[k] \in {"injecting", "sleeping"} /\ ~Raises(k)
    /\ thread' = [thread EXCEPT ![k] = IF @ = "injecting" /\ Sleeps(k) THEN "sleeping" ELSE "llm"]
    /\ UNCHANGED <<chaos, state, attempt, winner, injected, faults>>

\* Fault: a late thread's answer is taken.
AnsweredLate(k) ==
    /\ thread[k] = "llm"
    /\ thread' = [thread EXCEPT ![k] = "ended"]
    /\ \/ state = "started" /\ state' = "completed" /\ winner' = k
       \/ state # "started" /\ UNCHANGED <<state, winner>>
    /\ UNCHANGED <<chaos, attempt, injected, faults>>

\* The LLM answers: the node returns its stage's text.
Answered(k) ==
    /\ thread[k] = "llm"
    /\ thread' = [thread EXCEPT ![k] = "ended"]
    /\ \/ Current(k) /\ state' = "completed" /\ winner' = k
       \/ ~Current(k) /\ UNCHANGED <<state, winner>>
    /\ UNCHANGED <<chaos, attempt, injected, faults>>

\* The LLM call raises, with an error of non_retryable_error_types or another.
LlmFails(k) ==
    /\ thread[k] = "llm"
    /\ thread' = [thread EXCEPT ![k] = "ended"]
    /\ \/ /\ Current(k) /\ faults' = faults + 1
          /\ Retry \/ (state' = "failed" /\ UNCHANGED attempt)
       \/ ~Current(k) /\ UNCHANGED <<state, attempt, faults>>
    /\ UNCHANGED <<chaos, winner, injected>>

\* start_to_close or heartbeat timeout; the thread may be dead with its worker or not.
AttemptTimesOut ==
    /\ state = "started"
    /\ Retry
    /\ faults' = faults + 1
    /\ \/ UNCHANGED thread
       \/ thread' = [k \in Attempts |-> IF thread[k] = "none" THEN "none" ELSE "ended"]
    /\ UNCHANGED <<chaos, winner, injected>>

Next ==
    \/ StartAttempt \/ AttemptTimesOut
    \/ \E k \in Attempts : InjectError(k) \/ PassInjection(k) \/ Answered(k) \/ LlmFails(k)

\* Temporal dispatches a scheduled attempt and times a started one out.
Fairness == WF_vars(StartAttempt) /\ WF_vars(AttemptTimesOut)

Spec == Init /\ [][Next]_vars /\ Fairness

-----------------------------------------------------------------------------

\* The type invariant.
TypeOK ==
    /\ chaos \in ChaosSpecs
    /\ state \in {"scheduled", "started", "completed", "failed"}
    /\ attempt \in Attempts
    /\ thread \in [Attempts -> {"none", "injecting", "sleeping", "llm", "ended"}]
    /\ winner \in 0..MaxAttempts
    /\ injected \in Nat
    /\ faults \in Nat

\* Chaos alone fails an order only when the spec says so: an error injected on the
\* first N attempts exhausts a policy of more than N only together with as many
\* other faults as attempts are left ("fail on the first N attempts, then succeed").
ChaosExhaustsOnlyIfAsked ==
    state = "failed" /\ faults = 0 =>
        \A k \in Attempts : Raises(k)

\* An activity that ran out of attempts failed on every one of them.
FailuresAreAccounted ==
    /\ attempt - 1 <= injected + faults
    /\ injected + faults <= attempt
    /\ chaos.attempts # 0 => injected <= chaos.attempts

\* The result that counts is the current attempt's, one chaos did not hit; threads
\* Temporal gave up on never complete the activity.
ResultIsCurrent ==
    state = "completed" => winner = attempt /\ ~Raises(winner) /\ thread[winner] = "ended"

\* chaos.py:9 "permanent_error: fail on every attempt (activity exhausts retries and
\* the workflow fails)".
PermanentErrorFails ==
    chaos.targeted /\ chaos.mode = "permanent_error" => state # "completed"
=============================================================================
