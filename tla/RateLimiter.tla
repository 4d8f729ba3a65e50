---------------------------- MODULE RateLimiter ----------------------------
(***************************************************************************)
(* ratelimit.Limiter: fixed windows per (tier, endpoint, subject).  Allow  *)
(* and GC read the clock before they take the lock, so a call is judged by *)
(* the time it read, which may be behind the time another call, or GC, has *)
(* already acted on; the wait a refused call is told comes from a third    *)
(* reading, made under the lock.                                           *)
(***************************************************************************)
EXTENDS Integers

CONSTANTS
    Calls,     \* requests under way in the server
    Keys,      \* buckets
    LimitOf,   \* by bucket: calls per window; none configured is 0, no limit
    Win,       \* length of a window
    Second,    \* ticks of the clock in a second, the unit of Retry-After
    Lag,       \* how long a call may wait for the lock
    MaxClock,  \* bound of the model
    None

ASSUME LimiterAssumption ==
    /\ LimitOf \in [Keys -> Nat]
    /\ Win \in Nat \ {0} /\ Second \in Nat \ {0}
    /\ Lag \in Nat /\ Lag <= Win
    /\ MaxClock \in Nat
    /\ None \notin [count : Nat, until : Int]
    /\ None \notin [key : Keys, now : Nat]
    /\ None \notin Nat

VARIABLES
    clock,
    hits,      \* by bucket: the slot, or None
    asked,     \* by call: the bucket asked for and the time read, while it waits for the lock
    gc,        \* the time GC has read, while it waits for the lock
    \* history only
    window,    \* by bucket: the last slot there was, whether or not GC has dropped it
    told       \* by bucket: times refused calls were told to come back at, since it last let one in

limiterVars == <<clock, hits, asked, gc, window, told>>

Slots == [count : Nat, until : Int]

LimInit ==
    /\ clock = 0
    /\ hits = [k \in Keys |-> None]
    /\ asked = [c \in Calls |-> None]
    /\ gc = None
    /\ window = [k \in Keys |-> None]
    /\ told = [k \in Keys |-> {}]
-----------------------------------------------------------------------------
(* Time.  Nobody waits for the lock longer than Lag. *)

InTime(t) == clock + 1 <= t + Lag

Tick ==
    /\ clock < MaxClock
    /\ \A c \in Calls : asked[c] # None => InTime(asked[c].now)
    /\ gc # None => InTime(gc)
    /\ clock' = clock + 1
    /\ UNCHANGED <<hits, asked, gc, window, told>>
-----------------------------------------------------------------------------
(* Allow, for a bucket that has a limit *)

ReadClock(c, k) ==
    /\ asked[c] = None
    /\ asked' = [asked EXCEPT ![c] = [key |-> k, now |-> clock]]
    /\ UNCHANGED <<clock, hits, gc, window, told>>

\* now.After(until) is strict: the window includes its last instant.
Running(k, now) == hits[k] # None /\ now <= hits[k].until

FullOneLate(k) == hits[k].count > LimitOf[k]

Full(k) == hits[k].count >= LimitOf[k]

RenewedSlot(k, now) ==
    [count |-> IF Running(k, now) THEN hits[k].count + 1 ELSE 1, until |-> now + Win]

\* The slot after a call that is let in: a new one, or one more in the old.
NextSlot(k, now) ==
    IF Running(k, now) THEN [hits[k] EXCEPT !.count = @ + 1]
    ELSE [count |-> 1, until |-> now + Win]

Admit(c) ==
    /\ asked[c] # None
    /\ LET k == asked[c].key
           slot == NextSlot(k, asked[c].now)
       IN  /\ ~(Running(k, asked[c].now) /\ Full(k))
           /\ hits' = [hits EXCEPT ![k] = slot]
           /\ window' = [window EXCEPT ![k] = slot]
           /\ told' = [told EXCEPT ![k] = {}]
    /\ asked' = [asked EXCEPT ![c] = None]
    /\ UNCHANGED <<clock, gc>>

RetryAfterCut(wait) == (wait \div Second) * Second

\* renderErr: a wait that is positive is told in whole seconds, rounded up; any
\* other is not told at all.
RetryAfter(wait) == ((wait + Second - 1) \div Second) * Second

Told(wait) == IF wait > 0 THEN {clock + RetryAfter(wait)} ELSE {}

Refuse(c) ==
    /\ asked[c] # None
    /\ LET k == asked[c].key
       IN  /\ Running(k, asked[c].now) /\ Full(k)
           /\ told' = [told EXCEPT ![k] = @ \cup Told(hits[k].until - clock)]
    /\ asked' = [asked EXCEPT ![c] = None]
    /\ UNCHANGED <<clock, hits, gc, window>>
-----------------------------------------------------------------------------
(* GC, every ten minutes *)

GCRead ==
    /\ gc = None
    /\ gc' = clock
    /\ UNCHANGED <<clock, hits, asked, window, told>>

ExpiredAtEnd(k, now) == hits[k] # None /\ now >= hits[k].until

Expired(k, now) == hits[k] # None /\ now > hits[k].until

GCSweep ==
    /\ gc # None
    /\ hits' = [k \in Keys |-> IF Expired(k, gc) THEN None ELSE hits[k]]
    /\ gc' = None
    /\ UNCHANGED <<clock, asked, window, told>>

LimNext ==
    \/ Tick \/ GCRead \/ GCSweep
    \/ \E c \in Calls :
          \/ \E k \in Keys : LimitOf[k] > 0 /\ ReadClock(c, k)
          \/ Admit(c) \/ Refuse(c)

LimSpec == LimInit /\ [][LimNext]_limiterVars
-----------------------------------------------------------------------------
(* Properties *)

\* The limiter as a sequence of windows that nothing forgets: GC cannot be
\* noticed, nor in which order calls get the lock.
Windows == INSTANCE Quota WITH now <- clock

OneWindowAtATime == Windows!QuotaSpec

\* A caller that comes back later than it was told is let in, unless another
\* call of the same bucket was let in between.
RetryAfterHonoured ==
    [][\A c \in Calls : Refuse(c) =>
          \A t \in told[asked[c].key] : asked[c].now <= t]_limiterVars

\* Every 429 says when to come back (contract_test.go:757).
RefusalSaysWhen ==
    [][\A c \in Calls : Refuse(c) => hits[asked[c].key].until > clock]_limiterVars
-----------------------------------------------------------------------------
(* The inductive invariant *)

LimTypeOK ==
    /\ clock \in Nat
    /\ hits \in [Keys -> Slots \cup {None}]
    /\ asked \in [Calls -> [key : Keys, now : Nat] \cup {None}]
    /\ gc \in Nat \cup {None}
    /\ window \in [Keys -> Slots \cup {None}]
    /\ told \in [Keys -> SUBSET Int]

\* What a waiting call, or GC, has read is at most Lag old.
RecentlyRead ==
    /\ \A c \in Calls : asked[c] # None =>
          /\ LimitOf[asked[c].key] > 0
          /\ asked[c].now <= clock /\ clock <= asked[c].now + Lag
    /\ gc # None => gc <= clock

\* A slot is the last window, and is only missing when that is over.
SlotIsWindow ==
    \A k \in Keys :
        /\ hits[k] # None => hits[k] = window[k]
        /\ hits[k] = None /\ window[k] # None => clock > window[k].until

ToldAfterEnd ==
    \A k \in Keys : hits[k] # None => \A t \in told[k] : hits[k].until <= t

LimInv == LimTypeOK /\ RecentlyRead /\ SlotIsWindow /\ ToldAfterEnd
=============================================================================
