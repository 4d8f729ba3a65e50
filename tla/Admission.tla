----------------------------- MODULE Admission ------------------------------
(***************************************************************************)
(* What a request meets before its handler, and what is counted after it.  *)
(*                                                                         *)
(*   route(e)       degradeMW(e) -> limitMW(e) -> handler                  *)
(*   writeRoute(e)  bodyMW -> authMW -> limitMW(e) -> handler              *)
(*   register       bodyMW -> route("keys")                                *)
(*                                                                         *)
(* inside metricsMW, which adds the bytes of the answer to BytesOut when   *)
(* the handler has returned, and recoverMW, which answers for a handler    *)
(* that panics.  RateLimiter is behind limitMW; Watchdog reads BytesOut    *)
(* and sets the flag degradeMW tests.                                      *)
(*                                                                         *)
(*   idle -> limit -> run -> answer -> idle                                *)
(*     \_______\____________/^                                             *)
(***************************************************************************)
EXTENDS RateLimiter, Watchdog, FiniteSets

CONSTANTS
    Routes,
    EndpointOf,  \* by route: the name degradeMW and limitMW get
    Guarded,     \* routes made with writeRoute, the others are made with route
    WithBody,    \* routes behind bodyMW
    Degrade,     \* bandwidth.degrade: endpoints shed when bandwidth is short
    Callers,     \* [ip, name]: an address, and the name of the key sent, NoKey if none is good for the route
    NoKey,
    ErrorBytes, FullBytes  \* size of an error, and of an answer with a body

Bucket(tier, e, subject) == [tier |-> tier, endpoint |-> e, subject |-> subject]

Buckets ==
    {Bucket("anon", EndpointOf[r], c.ip) : r \in Routes, c \in Callers}
        \cup {Bucket("auth", EndpointOf[r], c.name) :
                 r \in Routes, c \in {x \in Callers : x.name # NoKey}}

ASSUME AdmissionAssumption ==
    /\ Keys = Buckets
    /\ Guarded \subseteq WithBody /\ WithBody \subseteq Routes
    /\ ErrorBytes \in Nat /\ FullBytes \in Nat

VARIABLES
    req,    \* by call: the stage a request is at
    served  \* history only: by subject, when requests with a quota reached their handler

vars == <<limiterVars, watchdogVars, req, served>>

IdleReq == [at |-> "idle"]
Under(at, r, who) == [at |-> at, route |-> r, caller |-> who]
Answer(bytes) == [at |-> "answer", bytes |-> bytes]

Init == LimInit /\ WdInit /\ req = [c \in Calls |-> IdleReq] /\ served = [k \in Keys |-> <<>>]

\* Whose calls are held against each other, by the documented quotas: those made
\* with one key, and those made from one address where no key is asked for.
Subject(x) ==
    IF x.route \in Guarded THEN Bucket("auth", EndpointOf[x.route], x.caller.name)
    ELSE Bucket("anon", EndpointOf[x.route], x.caller.ip)

\* identityOf: set by authMW alone, so empty on every route that is not guarded.
Identity(r, who) == IF r \in Guarded THEN who.name ELSE NoKey

KeyByAddress(r, who) == Bucket("anon", EndpointOf[r], who.ip)

\* limitMW
KeyOf(r, who) ==
    IF Identity(r, who) = NoKey THEN Bucket("anon", EndpointOf[r], who.ip)
    ELSE Bucket("auth", EndpointOf[r], Identity(r, who))

ShedsWrites(r) == r \in Guarded /\ EndpointOf[r] \in Degrade /\ degraded

Sheds(r) == r \notin Guarded /\ EndpointOf[r] \in Degrade /\ degraded

\* bodyMW: the body is longer than maxBodyBytes.
TooLarge(c, r, who) ==
    /\ r \in WithBody
    /\ req' = [req EXCEPT ![c] = Answer(ErrorBytes)]
    /\ UNCHANGED <<limiterVars, watchdogVars, served>>

Shed(c, r, who) ==
    /\ Sheds(r)
    /\ req' = [req EXCEPT ![c] = Answer(ErrorBytes)]
    /\ UNCHANGED <<limiterVars, watchdogVars, served>>

Unauthorized(c, r, who) ==
    /\ r \in Guarded /\ who.name = NoKey
    /\ req' = [req EXCEPT ![c] = Answer(ErrorBytes)]
    /\ UNCHANGED <<limiterVars, watchdogVars, served>>

Unlimited(c, r, who) ==
    /\ LimitOf[KeyOf(r, who)] = 0
    /\ req' = [req EXCEPT ![c] = Under("run", r, who)]
    /\ UNCHANGED <<limiterVars, watchdogVars, served>>

AskLimiter(c, r, who) ==
    /\ LimitOf[KeyOf(r, who)] > 0
    /\ ReadClock(c, KeyOf(r, who))
    /\ req' = [req EXCEPT ![c] = Under("limit", r, who)]
    /\ UNCHANGED <<watchdogVars, served>>

\* The flag is read at one moment and the clock at a later one; nothing that
\* happens between depends on either order.
Arrive(c, r, who) ==
    /\ req[c] = IdleReq
    /\ \/ TooLarge(c, r, who)
       \/ Shed(c, r, who)
       \/ Unauthorized(c, r, who)
       \/ /\ ~Sheds(r) /\ (r \in Guarded => who.name # NoKey)
          /\ Unlimited(c, r, who) \/ AskLimiter(c, r, who)

Admitted(c) ==
    /\ Admit(c)
    /\ req' = [req EXCEPT ![c].at = "run"]
    /\ served' = [served EXCEPT ![Subject(req[c])] = Append(@, clock)]
    /\ UNCHANGED watchdogVars

Refused(c) ==
    /\ Refuse(c)
    /\ req' = [req EXCEPT ![c] = Answer(ErrorBytes)]
    /\ UNCHANGED <<watchdogVars, served>>

\* A 304 has no body, an error of the handler a short one.
Handle(c) ==
    /\ req[c].at = "run"
    /\ \E n \in {0, ErrorBytes, FullBytes} :
          req' = [req EXCEPT ![c] = Answer(n)]
    /\ UNCHANGED <<limiterVars, watchdogVars, served>>

\* The panic passes metricsMW, and the answer recoverMW writes is not counted.
Panic(c) ==
    /\ req[c].at = "run"
    /\ req' = [req EXCEPT ![c] = IdleReq]
    /\ UNCHANGED <<limiterVars, watchdogVars, served>>

Count(c) ==
    /\ req[c].at = "answer"
    /\ CountBytes(req[c].bytes)
    /\ req' = [req EXCEPT ![c] = IdleReq]
    /\ UNCHANGED <<limiterVars, served>>

TakeSample ==
    /\ \E gap \in Gaps : Sample(gap)
    /\ UNCHANGED <<limiterVars, req, served>>

Background == (Tick \/ GCRead \/ GCSweep) /\ UNCHANGED <<watchdogVars, req, served>>

Next ==
    \/ \E c \in Calls :
          \/ \E r \in Routes, who \in Callers : Arrive(c, r, who)
          \/ Admitted(c) \/ Refused(c) \/ Handle(c) \/ Panic(c) \/ Count(c)
    \/ TakeSample \/ Background

Spec == Init /\ [][Next]_vars

\* The watchdog's goroutine goes on taking samples.
FairSpec == Spec /\ WF_vars(TakeSample)
-----------------------------------------------------------------------------
(* Properties *)

Served(k, from) == Cardinality({i \in DOMAIN served[k] : served[k][i] >= from})

\* How much reaches the handlers during any Win + 1 instants: a window that ends,
\* and those that open one after the other.  With no wait for the lock that is
\* twice the limit.  But a call judged by an old clock opens a window that ends
\* early, and once GC has forgotten a window such a call opens the next: windows
\* can follow each other after Win - Lag + 1 instants.
QuotaKept ==
    \A k \in Keys : LimitOf[k] > 0 =>
        Served(k, clock - Win) <= (2 + Win \div (Win - Lag + 1)) * LimitOf[k]

\* A 429 is never another's fault: who gets it has had as many requests handled
\* as the quota allows, in the length of a window and the waits for the lock.
RefusedHadItsShare ==
    [][\A c \in Calls : Refused(c) =>
          LET k == Subject(req[c]) IN Served(k, clock - Win - Lag) >= LimitOf[k]]_vars

\* What is shed lets bandwidth recover: degradation ends again and again, unless
\* endpoints that are not shed go on being asked for.
CoreRuns == \E c \in Calls :
    /\ req[c].at = "run"
    /\ req[c].route \in Guarded \/ EndpointOf[req[c].route] \notin Degrade

SheddingRecovers == []<>~degraded \/ []<>CoreRuns

\* A caller with a key is refused only when the quota of that key is used up
\* (api.md, the table of quotas; middleware.go:257).
KeyHolderHasItsQuota ==
    [][\A c \in Calls : Refused(c) /\ req[c].caller.name # NoKey =>
          LET k == Bucket("auth", EndpointOf[req[c].route], req[c].caller.name)
          IN  Running(k, asked[c].now) /\ Full(k)]_vars

\* No more than the limit in any window's length (server.md, "sliding window").
SlidingQuota ==
    \A k \in Keys : LimitOf[k] > 0 => Served(k, clock - Win + 1) <= LimitOf[k]
-----------------------------------------------------------------------------
Reqs == {IdleReq} \cup {Answer(n) : n \in {0, ErrorBytes, FullBytes}}
        \cup [at : {"limit", "run"}, route : Routes, caller : Callers]

TypeOK ==
    /\ WdTypeOK
    /\ req \in [Calls -> Reqs]
    /\ served \in [Keys -> Seq(Nat)]

\* A request waits for the limiter exactly while the limiter has been asked, and
\* for the bucket of its subject.
Asking ==
    \A c \in Calls :
        /\ asked[c] # None <=> req[c].at = "limit"
        /\ asked[c] # None => asked[c].key = Subject(req[c])

\* As many requests of a slot's subject have been handled since it was opened as
\* it counts.
SlotCountsServed ==
    \A k \in Keys : hits[k] # None =>
        /\ hits[k].until <= clock + Win
        /\ Served(k, hits[k].until - Win) >= hits[k].count

RequestInv == TypeOK /\ LimInv /\ Asking /\ SlotCountsServed

\* Behind QuotaKept: the times of a bucket are in order, ...
InOrder ==
    \A k \in Keys : \A j \in DOMAIN served[k] :
        served[k][j] <= clock /\ \A i \in 1 .. j : served[k][i] <= served[k][j]

\* ... the last of them are those of the last window, ...
Opened(k) == Len(served[k]) - window[k].count + 1

\* ... and with so many of them between an earlier call and that window that n
\* windows were full, n windows apart it is.
Apart(k) ==
    \A i \in DOMAIN served[k], n \in 0 .. Len(served[k]) :
        i + n * LimitOf[k] < Opened(k)
            => served[k][Opened(k)] >= served[k][i] + n * (Win - Lag + 1)

WindowsApart ==
    \A k \in Keys :
        /\ window[k] = None => served[k] = <<>>
        /\ window[k] # None =>
              /\ window[k].count \in 1 .. LimitOf[k] /\ window[k].count <= Len(served[k])
              /\ served[k][Opened(k)] <= window[k].until - Win + Lag
              /\ Apart(k)

AdmissionInv == RequestInv /\ InOrder /\ WindowsApart
=============================================================================
