------------------------------ MODULE Transport ------------------------------
(***************************************************************************)
(* The SDK's transport: one command of the CLI, the requests it sends      *)
(* through Client.send, and what the network and the server make of them.  *)
(*                                                                         *)
(*   idle -> ready -> flying -> answered -> ended                          *)
(*             ^        |  |       |          ^                            *)
(*             |        |  +-------|----------+   no further attempt       *)
(*             +- pausing <-+      |              (or ended in the pause)  *)
(*             +-------------------+              next call of the command *)
(*                                                                         *)
(* A request that its sender has given up may still reach the server: wire *)
(* holds the attempts of the current call that have been neither served    *)
(* nor lost.  The command runs under one deadline, each attempt under the  *)
(* time limit of http.Client as well, and a signal may end it at any time. *)
(***************************************************************************)
EXTENDS Integers, FiniteSets

CONSTANTS
    Attempts,     \* defaultMaxAttempt, 3
    Deadline,     \* --timeout, 20 s; for all calls of a command together
    HttpTimeout,  \* http.Client.Timeout; the CLI gives it the same value
    Replies       \* what is answered: records of the code in the envelope and the status

\* The server's errors with a status of 4xx, and the others; bad_response is the
\* SDK's own, for what is no envelope or of another version.
Refusals == {"bad_request", "unauthorized", "forbidden", "not_found", "conflict",
             "too_large", "validation_failed", "rate_limited"}
Codes == Refusals \cup {"internal", "unavailable", "bad_response"}

ASSUME TransportAssumption ==
    /\ Attempts \in Nat \ {0}
    /\ Deadline \in Nat
    /\ HttpTimeout \in Nat
    /\ Replies \subseteq [code : Codes, status : Nat]
    /\ \A r \in Replies : r.code \in Refusals => r.status \in 400 .. 499

VARIABLES
    stage,
    write,      \* not idempotent: score, upload, key new, key revoke
    attempt,    \* of the current call
    spent,      \* time since the command began
    timer,      \* what is left of the attempt's time, or of the pause
    cancelled,  \* the process got SIGINT or SIGTERM
    outcome,    \* the error's code, "ok", or "none" before the end
    wire, done  \* the server's side of the current call; done: times performed

callVars == <<stage, write, attempt, spent, timer, cancelled, outcome, wire, done>>

Stages == {"idle", "ready", "flying", "pausing", "answered", "ended"}
Failures == Codes \cup {"network", "canceled"}

TransportTypeOK ==
    /\ stage \in Stages
    /\ write \in BOOLEAN
    /\ attempt \in 0 .. Attempts
    /\ spent \in 0 .. Deadline
    /\ timer \in Nat
    /\ cancelled \in BOOLEAN
    /\ outcome \in Failures \cup {"none", "ok"}
    /\ wire \subseteq 1 .. Attempts
    /\ done \in Nat

TransportInit ==
    /\ stage = "idle"
    /\ write \in BOOLEAN
    /\ attempt = 0
    /\ spent = 0
    /\ timer = 0
    /\ cancelled = FALSE
    /\ outcome = "none"
    /\ wire = {}
    /\ done = 0

-----------------------------------------------------------------------------
(* Plausible bugs, used to test the properties below *)

MayResend(code, status) == code \in {"network", "internal", "unavailable"}
NeverOverdue == FALSE

-----------------------------------------------------------------------------
(* The rules of send *)

RetryableStatus(status) == status \in {500, 502, 503, 504}

ShouldRetry(code, status) ==
    \/ code = "network"
    \/ /\ code \in {"rate_limited", "internal", "unavailable", "bad_response"}
       /\ status = 0 \/ RetryableStatus(status)

\* Only a request declared idempotent is sent again.
Resend(code, status) == ~write /\ ShouldRetry(code, status)

\* 1 s, 2 s, 4 s, ...
Backoff(n) == <<1, 2, 4, 8, 16>>[IF n > 5 THEN 5 ELSE n]

ContextDone == cancelled \/ spent = Deadline

\* ctx.Err() as classifyError names it.
ContextCode == IF cancelled THEN "canceled" ELSE "unavailable"

\* The attempt that fails is followed by a pause and another, or it was the last.
GiveUpOrPause(code, status) ==
    IF Resend(code, status) /\ attempt < Attempts
    THEN /\ stage' = "pausing"
         /\ timer' = Backoff(attempt)
         /\ UNCHANGED outcome
    ELSE /\ stage' = "ended"
         /\ timer' = 0
         /\ outcome' = code

-----------------------------------------------------------------------------
(* The client *)

Begin ==
    /\ stage = "idle"
    /\ stage' = "ready"
    /\ UNCHANGED <<write, attempt, spent, timer, cancelled, outcome, wire, done>>

\* The request goes out; with the context done, http.Client.Do fails on the spot.
Attempt ==
    /\ stage = "ready"
    /\ attempt' = attempt + 1
    /\ stage' = "flying"
    /\ timer' = IF ContextDone THEN 0 ELSE HttpTimeout
    /\ wire' = IF ContextDone THEN wire ELSE wire \cup {attempt'}
    /\ UNCHANGED <<write, spent, cancelled, outcome, done>>

\* The connection fails, before or after the request has got through.
ConnectionFails ==
    /\ stage = "flying"
    /\ GiveUpOrPause("network", 0)
    /\ UNCHANGED <<write, attempt, spent, cancelled, wire, done>>

\* One of the two time limits ends the attempt, or the signal does.
Overdue == timer = 0 \/ ContextDone
TimesOut == Overdue /\ ConnectionFails

Wake ==
    /\ stage = "pausing"
    /\ timer = 0
    /\ stage' = "ready"
    /\ UNCHANGED <<write, attempt, spent, timer, cancelled, outcome, wire, done>>

\* sleepCtx returns ctx.Err(): the pause is cut short and the command ends.
CutShort ==
    /\ stage = "pausing"
    /\ ContextDone
    /\ stage' = "ended"
    /\ timer' = 0
    /\ outcome' = ContextCode
    /\ UNCHANGED <<write, attempt, spent, cancelled, wire, done>>

\* A command that consists of several calls goes on to the next one; those are reads.
NextCall ==
    /\ stage = "answered"
    /\ ~write
    /\ stage' = "ready"
    /\ attempt' = 0
    /\ wire' = {}
    /\ done' = 0
    /\ UNCHANGED <<write, spent, timer, cancelled, outcome>>

Finish ==
    /\ stage = "answered"
    /\ stage' = "ended"
    /\ outcome' = "ok"
    /\ UNCHANGED <<write, attempt, spent, timer, cancelled, wire, done>>

Signal ==
    /\ stage \notin {"idle", "ended"}
    /\ ~cancelled
    /\ cancelled' = TRUE
    /\ UNCHANGED <<stage, write, attempt, spent, timer, outcome, wire, done>>

\* Time passes only while the command waits for a timer that has not fired.
Tick ==
    /\ stage \in {"flying", "pausing"}
    /\ timer > 0
    /\ ~ContextDone
    /\ spent' = spent + 1
    /\ timer' = timer - 1
    /\ UNCHANGED <<stage, write, attempt, cancelled, outcome, wire, done>>

-----------------------------------------------------------------------------
(* The network and the server *)

\* The attempts on the wire once attempt a has been served.
Served(a) == wire \ {a}

\* The request in flight is performed and its reply arrives.
Answer ==
    /\ stage = "flying"
    /\ attempt \in wire
    /\ stage' = "answered"
    /\ timer' = 0
    /\ wire' = Served(attempt)
    /\ done' = done + 1
    /\ UNCHANGED <<write, attempt, spent, cancelled, outcome>>

\* An error is answered.  A 4xx is decided before anything is changed; behind
\* any other status the change may have been made, or, when a gateway answers
\* in the server's place, may be made later.
AnswerError(r) ==
    /\ stage = "flying"
    /\ attempt \in wire
    /\ \/ wire' = Served(attempt) /\ done' = done
       \/ /\ r.status \notin 400 .. 499
          /\ wire' = Served(attempt) /\ done' = done + 1
       \/ /\ r.status \in {502, 504}
          /\ UNCHANGED <<wire, done>>
    /\ GiveUpOrPause(r.code, r.status)
    /\ UNCHANGED <<write, attempt, spent, cancelled>>

\* A request is performed, but its reply is lost or nobody waits for it any more.
PerformUnheard(a) ==
    /\ a \in wire
    /\ wire' = Served(a)
    /\ done' = done + 1
    /\ UNCHANGED <<stage, write, attempt, spent, timer, cancelled, outcome>>

LoseRequest(a) ==
    /\ a \in wire
    /\ wire' = wire \ {a}
    /\ UNCHANGED <<stage, write, attempt, spent, timer, cancelled, outcome, done>>

-----------------------------------------------------------------------------

\* What the code of the outcome tells a caller who sent a write.
Verdict == CASE outcome = "none" -> "nothing"
             [] outcome = "ok" -> "ok"
             [] outcome \in Refusals -> "refused"
             [] outcome \in Failures \ Refusals -> "unknown"
Told == IF write THEN Verdict ELSE "nothing"

\* The requests of a call and the server's side of them: a write goes out once, is
\* on its way or performed but not both, and has a verdict only when it is neither.
WireInv ==
    /\ wire \subseteq 1 .. attempt
    /\ stage = "idle" => attempt = 0 /\ done = 0
    /\ stage \in {"idle", "ready", "pausing"} => attempt < Attempts
    /\ stage = "flying" => attempt > 0
    /\ stage = "ended" <=> outcome # "none"
    /\ write =>
          /\ attempt <= 1 /\ stage # "pausing"
          /\ stage = "ready" => attempt = 0 /\ done = 0
          /\ done <= 1 /\ (done = 1 => wire = {})
          /\ stage = "answered" \/ outcome = "ok" => done = 1
          /\ outcome \in Refusals => done = 0 /\ wire = {}
=============================================================================
