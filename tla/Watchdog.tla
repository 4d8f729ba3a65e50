------------------------------ MODULE Watchdog ------------------------------
(***************************************************************************)
(* metrics.Watchdog: once an interval it turns the bytes counted since the *)
(* last sample into a rate, keeps the rates of the last Window samples in a *)
(* ring, and sets the flag degraded when their mean is above the limit.    *)
(* Rates are exact: a rate is held multiplied by Scale.                    *)
(***************************************************************************)
EXTENDS Integers, Sequences

CONSTANTS
    Window,    \* samples in the ring, 60 in the code
    Gaps,      \* intervals that may lie between two samples: a late receiver misses ticks
    Scale,     \* a multiple of every gap
    MaxRate,   \* maxBps, per interval
    MaxFresh   \* bound of the model: bytes counted between two samples

ASSUME WatchdogAssumption ==
    /\ Window \in Nat \ {0}
    /\ Gaps \subseteq Nat
    /\ Scale \in Nat \ {0}
    /\ \A g \in Gaps \ {0} : Scale % g = 0
    /\ MaxRate \in Nat /\ MaxFresh \in Nat

VARIABLES
    fresh,     \* BytesOut - prev
    samples, idx, filled,
    degraded,  \* Registry.degraded
    lately     \* history only: the last rates, at most Window, oldest first

watchdogVars == <<fresh, samples, idx, filled, degraded, lately>>

WdInit ==
    /\ fresh = 0
    /\ samples = [i \in 0 .. Window - 1 |-> 0]
    /\ idx = 0 /\ filled = 0
    /\ degraded = FALSE
    /\ lately = <<>>

\* BytesOut.Add, when a request has been answered
CountBytes(n) ==
    /\ fresh + n <= MaxFresh
    /\ fresh' = fresh + n
    /\ UNCHANGED <<samples, idx, filled, degraded, lately>>

\* secs <= 0 counts as a second.  Times of ticks grow, so that can only be the
\* first: the ticker is made before prevAt is read.
Rate(n, gap) == (n * Scale) \div (IF gap = 0 THEN 1 ELSE gap)

LastIdx == IF idx + 1 < Window THEN idx + 1 ELSE idx

NextIdx == (idx + 1) % Window

FilledShort == IF filled + 1 < Window THEN filled + 1 ELSE filled

NextFilled == IF filled < Window THEN filled + 1 ELSE filled

\* sum += w.samples[i]: n rates, one after the other
Total(rates, first, n) ==
    LET sum[i \in 0 .. n] == IF i = 0 THEN 0 ELSE sum[i - 1] + rates[first + i - 1]
    IN  sum[n]

\* avg > maxBps, over the samples there are
Above(ring, n) == Total(ring, 0, n) > MaxRate * Scale * n

Sample(gap) ==
    /\ gap = 0 => filled = 0
    /\ LET rate == Rate(fresh, gap)
           ring == [samples EXCEPT ![idx] = rate]
       IN  /\ samples' = ring
           /\ degraded' = Above(ring, NextFilled)
           /\ lately' = (IF Len(lately) < Window THEN lately ELSE Tail(lately)) \o <<rate>>
    /\ idx' = NextIdx
    /\ filled' = NextFilled
    /\ fresh' = 0

WdTypeOK ==
    /\ fresh \in 0 .. MaxFresh
    /\ samples \in [0 .. Window - 1 -> Nat]
    /\ idx \in 0 .. Window - 1 /\ filled \in 0 .. Window
    /\ degraded \in BOOLEAN
    /\ lately \in Seq(Nat)

\* The flag is the comparison of the mean of the latest rates with the limit,
\* while the ring fills and after it has turned.
DegradedIsMean ==
    degraded = (Total(lately, 1, Len(lately)) > MaxRate * Scale * Len(lately))

\* Where the j-th of the latest rates stands in the ring.
Place(j) ==
    LET i == (IF filled < Window THEN 0 ELSE idx) + j - 1
    IN  IF i < Window THEN i ELSE i - Window

\* Behind it: the ring holds the latest rates, oldest first from where the next
\* sample goes once it is full, and nothing older is summed (metrics.go:115-126).
RingInv ==
    /\ Len(lately) = filled /\ (filled < Window => idx = filled)
    /\ \A j \in 1 .. filled : lately[j] = samples[Place(j)]
    /\ Total(samples, 0, filled) = Total(lately, 1, filled)
    /\ degraded = Above(samples, filled)
=============================================================================
