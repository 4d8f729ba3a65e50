-------------------------- MODULE AdmissionProofs --------------------------
(***************************************************************************)
(* Proofs about RateLimiter, Watchdog and Admission, for all routes,       *)
(* callers, limits, windows and waits.  The limiter: LimInv is inductive;  *)
(* that GC and the order at the lock cannot be noticed, and that the times *)
(* told are kept, follow from it.  The server: what a request does to the  *)
(* limiter is a step of RateLimiter, so its theorems carry over; RequestInv *)
(* is inductive, and a refused caller has had its share; so is             *)
(* AdmissionInv, which bounds every burst by the windows it overlaps.  The *)
(* watchdog: RingInv is inductive, and the flag is that of the mean.       *)
(*                                                                         *)
(* What a loop or a function by recursion on n computes is proved over the *)
(* set of the numbers for which it holds (NatSet), by well-founded         *)
(* induction.                                                              *)
(***************************************************************************)
EXTENDS Admission, FiniteSetTheorems, WellFoundedInduction, TLAPS

-----------------------------------------------------------------------------
(* The limiter *)

\* A slot is not None, nor is a call that waits, nor a time.
LEMMA NoneIsNothing ==
    /\ \A s \in Slots : s # None
    /\ \A n \in Nat : n # None
    /\ \A k \in Keys, n \in Nat : [key |-> k, now |-> n] # None
BY LimiterAssumption DEF Slots

\* What Admit writes is a slot.
LEMMA NextSlotIsSlot ==
    ASSUME hits \in [Keys -> Slots \cup {None}], NEW k \in Keys, NEW now \in Nat
    PROVE  /\ NextSlot(k, now) \in Slots
           /\ Running(k, now) =>
                /\ hits[k] \in Slots
                /\ NextSlot(k, now) = [count |-> hits[k].count + 1, until |-> hits[k].until]
           /\ ~Running(k, now) => NextSlot(k, now) = [count |-> 1, until |-> now + Win]
<1>1. CASE Running(k, now)
  <2>1. hits[k] \in Slots
    BY <1>1 DEF Running
  <2>2. NextSlot(k, now) = [count |-> hits[k].count + 1, until |-> hits[k].until]
    BY <1>1, <2>1 DEF NextSlot, Slots
  <2>. QED
    BY <1>1, <2>1, <2>2 DEF Slots
<1>2. CASE ~Running(k, now)
  BY <1>2, LimiterAssumption DEF NextSlot, Slots
<1>. QED
  BY <1>1, <1>2

\* A positive wait is told in full: the seconds are rounded up.
LEMMA RetryAfterCovers ==
    ASSUME NEW wait \in Int PROVE RetryAfter(wait) \in Int /\ RetryAfter(wait) >= wait
<1>. DEFINE q == (wait + Second - 1) \div Second
<1>1. Second \in Nat /\ Second > 0
  BY LimiterAssumption
<1>2. q \in Int /\ q * Second <= wait + Second - 1 /\ wait + Second - 1 < q * Second + Second
  BY <1>1, SMTT(30)
<1>. QED
  BY <1>1, <1>2 DEF RetryAfter

LEMMA LimInitInv == LimInit => LimInv
<1>. SUFFICES ASSUME LimInit PROVE LimInv
  OBVIOUS
<1>. QED
  BY DEF LimInit, LimInv, LimTypeOK, RecentlyRead, SlotIsWindow, ToldAfterEnd

-----------------------------------------------------------------------------
LEMMA TickInv == LimInv /\ Tick => LimInv'
<1>. SUFFICES ASSUME LimInv, Tick PROVE LimInv'
  OBVIOUS
<1>. USE DEF LimInv, Tick
<1>1. LimTypeOK'
  BY DEF LimTypeOK
<1>2. RecentlyRead'
  BY LimiterAssumption DEF LimTypeOK, RecentlyRead, InTime
<1>3. SlotIsWindow'
  BY DEF LimTypeOK, SlotIsWindow, Slots
<1>4. ToldAfterEnd'
  BY DEF ToldAfterEnd
<1>. QED
  BY <1>1, <1>2, <1>3, <1>4

LEMMA ReadInv ==
    ASSUME LimInv, NEW c \in Calls, NEW k \in Keys, LimitOf[k] > 0, ReadClock(c, k)
    PROVE  LimInv'
<1>. USE DEF LimInv, ReadClock
<1>1. LimTypeOK'
  BY DEF LimTypeOK
<1>2. RecentlyRead'
  <2>. SUFFICES ASSUME NEW d \in Calls, asked'[d] # None
                PROVE  /\ LimitOf[asked'[d].key] > 0
                       /\ asked'[d].now <= clock /\ clock <= asked'[d].now + Lag
    BY DEF RecentlyRead
  <2>1. CASE d = c
    BY <2>1, LimiterAssumption DEF LimTypeOK
  <2>2. CASE d # c
    BY <2>2 DEF LimTypeOK, RecentlyRead
  <2>. QED
    BY <2>1, <2>2
<1>3. SlotIsWindow' /\ ToldAfterEnd'
  BY DEF SlotIsWindow, ToldAfterEnd
<1>. QED
  BY <1>1, <1>2, <1>3

\* A call that leaves takes only its own reading with it.
LEMMA LeaveRecent ==
    ASSUME LimInv, NEW c \in Calls, asked' = [asked EXCEPT ![c] = None],
           UNCHANGED <<clock, gc>>
    PROVE  /\ RecentlyRead'
           /\ asked' \in [Calls -> [key : Keys, now : Nat] \cup {None}]
BY DEF LimInv, LimTypeOK, RecentlyRead

LEMMA AdmitInv ==
    ASSUME LimInv, NEW c \in Calls, Admit(c)
    PROVE  LimInv'
<1>. DEFINE k == asked[c].key
            slot == NextSlot(k, asked[c].now)
<1>1. k \in Keys /\ asked[c].now \in Nat
  BY DEF LimInv, LimTypeOK, Admit
<1>2. /\ hits' = [hits EXCEPT ![k] = slot]
      /\ window' = [window EXCEPT ![k] = slot]
      /\ told' = [told EXCEPT ![k] = {}]
      /\ asked' = [asked EXCEPT ![c] = None]
      /\ UNCHANGED <<clock, gc>>
  BY DEF Admit
<1>3. slot \in Slots
  BY <1>1, NextSlotIsSlot DEF LimInv, LimTypeOK
<1>. HIDE DEF slot, k
<1>4. LimTypeOK'
  BY <1>1, <1>2, <1>3, LeaveRecent DEF LimInv, LimTypeOK
<1>5. RecentlyRead'
  BY <1>2, LeaveRecent
<1>6. SlotIsWindow'
  BY <1>1, <1>2, <1>3, NoneIsNothing DEF LimInv, LimTypeOK, SlotIsWindow
<1>7. ToldAfterEnd'
  BY <1>1, <1>2 DEF LimInv, LimTypeOK, ToldAfterEnd
<1>. QED
  BY <1>4, <1>5, <1>6, <1>7 DEF LimInv

LEMMA RefuseInv ==
    ASSUME LimInv, NEW c \in Calls, Refuse(c)
    PROVE  LimInv'
<1>. DEFINE k == asked[c].key
<1>1. k \in Keys /\ hits[k] \in Slots
  BY DEF LimInv, LimTypeOK, Refuse, Running
<1>2. /\ told' = [told EXCEPT ![k] = @ \cup Told(hits[k].until - clock)]
      /\ asked' = [asked EXCEPT ![c] = None]
      /\ UNCHANGED <<clock, hits, gc, window>>
  BY DEF Refuse
<1>. HIDE DEF k
<1>3. \A t \in Told(hits[k].until - clock) : t \in Int /\ hits[k].until <= t
  <2>1. hits[k].until \in Int /\ clock \in Int
    BY <1>1 DEF LimInv, LimTypeOK, Slots
  <2>. QED
    BY <2>1, RetryAfterCovers DEF Told
<1>4. LimTypeOK'
  BY <1>1, <1>2, <1>3, LeaveRecent DEF LimInv, LimTypeOK
<1>5. RecentlyRead'
  BY <1>2, LeaveRecent
<1>6. SlotIsWindow'
  BY <1>2 DEF LimInv, SlotIsWindow
<1>7. ToldAfterEnd'
  BY <1>1, <1>2, <1>3 DEF LimInv, LimTypeOK, ToldAfterEnd
<1>. QED
  BY <1>4, <1>5, <1>6, <1>7 DEF LimInv

LEMMA GCReadInv == LimInv /\ GCRead => LimInv'
BY DEF LimInv, GCRead, LimTypeOK, RecentlyRead, SlotIsWindow, ToldAfterEnd

LEMMA GCSweepInv == LimInv /\ GCSweep => LimInv'
<1>. SUFFICES ASSUME LimInv, GCSweep PROVE LimInv'
  OBVIOUS
<1>1. /\ hits' = [k \in Keys |-> IF Expired(k, gc) THEN None ELSE hits[k]]
      /\ gc' = None /\ gc \in Nat /\ gc <= clock
      /\ UNCHANGED <<clock, asked, window, told>>
  BY DEF GCSweep, LimInv, LimTypeOK, RecentlyRead
<1>2. LimTypeOK'
  BY <1>1 DEF LimInv, LimTypeOK
<1>3. RecentlyRead'
  BY <1>1 DEF LimInv, RecentlyRead
<1>4. SlotIsWindow'
  BY <1>1 DEF LimInv, LimTypeOK, SlotIsWindow, Expired, Slots
<1>5. ToldAfterEnd'
  BY <1>1 DEF LimInv, ToldAfterEnd
<1>. QED
  BY <1>2, <1>3, <1>4, <1>5 DEF LimInv

LEMMA LimStutter == LimInv /\ UNCHANGED limiterVars => LimInv'
BY DEF LimInv, limiterVars, LimTypeOK, RecentlyRead, SlotIsWindow, ToldAfterEnd

LEMMA LimNextInv == LimInv /\ [LimNext]_limiterVars => LimInv'
<1>. SUFFICES ASSUME LimInv, [LimNext]_limiterVars PROVE LimInv'
  OBVIOUS
<1>1. CASE Tick
  BY <1>1, TickInv
<1>2. CASE GCRead
  BY <1>2, GCReadInv
<1>3. CASE GCSweep
  BY <1>3, GCSweepInv
<1>4. ASSUME NEW c \in Calls, NEW k \in Keys, LimitOf[k] > 0, ReadClock(c, k)
      PROVE  LimInv'
  BY <1>4, ReadInv
<1>5. ASSUME NEW c \in Calls, Admit(c) PROVE LimInv'
  BY <1>5, AdmitInv
<1>6. ASSUME NEW c \in Calls, Refuse(c) PROVE LimInv'
  BY <1>6, RefuseInv
<1>7. CASE UNCHANGED limiterVars
  BY <1>7, LimStutter
<1>. QED
  BY <1>1, <1>2, <1>3, <1>4, <1>5, <1>6, <1>7 DEF LimNext

\* The inductive invariant: slots and last windows agree, readings are recent,
\* and no refused call was told a time before the end of its window.
THEOREM LimiterInvariant == LimSpec => []LimInv
BY LimInitInv, LimNextInv, PTL DEF LimSpec
-----------------------------------------------------------------------------
(* Refinement of Quota *)

LEMMA WindowsInit == LimInit => Windows!QuotaInit
BY DEF LimInit, Windows!QuotaInit

\* A call is let in either as the first of a window, and then the last is over,
\* or as one more of the running one.
LEMMA AdmitIsQuota ==
    ASSUME LimInv, NEW c \in Calls, Admit(c)
    PROVE  Windows!QuotaNext
<1>. DEFINE k == asked[c].key
            n == asked[c].now
<1>1. k \in Keys /\ n \in Nat /\ LimitOf[k] > 0 /\ n <= clock /\ clock <= n + Lag
  BY DEF LimInv, LimTypeOK, RecentlyRead, Admit
<1>2. /\ ~(Running(k, n) /\ Full(k))
      /\ window' = [window EXCEPT ![k] = NextSlot(k, n)]
      /\ UNCHANGED clock
  BY DEF Admit
<1>3. /\ window \in [Keys -> Slots \cup {None}] /\ hits \in [Keys -> Slots \cup {None}]
      /\ clock \in Nat
      /\ hits[k] # None => hits[k] = window[k]
      /\ hits[k] = None /\ window[k] # None => clock > window[k].until
  BY <1>1 DEF LimInv, LimTypeOK, SlotIsWindow
<1>. HIDE DEF k, n
<1>4. CASE Running(k, n)
  <2>1. /\ hits[k] \in Slots /\ window[k] = hits[k]
        /\ NextSlot(k, n) = [count |-> hits[k].count + 1, until |-> hits[k].until]
    BY <1>1, <1>3, <1>4, NextSlotIsSlot, NoneIsNothing DEF Running
  <2>2. window[k] # None /\ n <= window[k].until /\ window[k].count < LimitOf[k]
    BY <1>1, <1>2, <1>4, <2>1, LimiterAssumption DEF Running, Full, Slots
  <2>3. NextSlot(k, n) = [window[k] EXCEPT !.count = @ + 1]
    BY <2>1 DEF Slots
  <2>4. clock <= window[k].until + Lag
    BY <1>1, <1>3, <2>1, <2>2, LimiterAssumption DEF Slots
  <2>5. Windows!Use(k)
    BY <1>2, <2>2, <2>3, <2>4 DEF Windows!Use
  <2>. QED
    BY <1>1, <2>5 DEF Windows!QuotaNext
<1>5. CASE ~Running(k, n)
  <2>1. NextSlot(k, n) = [count |-> 1, until |-> n + Win]
    BY <1>1, <1>3, <1>5, NextSlotIsSlot
  <2>2. window[k] = None \/ clock > window[k].until
    BY <1>1, <1>3, <1>5 DEF Running, Slots
  <2>3. n + Win \in (clock + Win - Lag) .. (clock + Win)
    BY <1>1, <1>3, LimiterAssumption
  <2>4. Windows!Open(k)
    BY <1>2, <2>1, <2>2, <2>3 DEF Windows!Open, Windows!Over
  <2>. QED
    BY <1>1, <2>4 DEF Windows!QuotaNext
<1>. QED
  BY <1>4, <1>5

LEMMA StepIsQuota == LimInv /\ [LimNext]_limiterVars => [Windows!QuotaNext]_(Windows!quotaVars)
<1>. SUFFICES ASSUME LimInv, [LimNext]_limiterVars
              PROVE  [Windows!QuotaNext]_(Windows!quotaVars)
  OBVIOUS
<1>. USE DEF Windows!quotaVars
<1>1. CASE Tick
  BY <1>1 DEF Tick, Windows!QuotaNext, Windows!Pass
<1>2. CASE GCRead \/ GCSweep
  BY <1>2 DEF GCRead, GCSweep
<1>3. ASSUME NEW c \in Calls, NEW k \in Keys, ReadClock(c, k)
      PROVE  [Windows!QuotaNext]_(Windows!quotaVars)
  BY <1>3 DEF ReadClock
<1>4. ASSUME NEW c \in Calls, Admit(c) PROVE Windows!QuotaNext
  BY <1>4, AdmitIsQuota
<1>5. ASSUME NEW c \in Calls, Refuse(c) PROVE [Windows!QuotaNext]_(Windows!quotaVars)
  BY <1>5 DEF Refuse
<1>6. CASE UNCHANGED limiterVars
  BY <1>6 DEF limiterVars
<1>. QED
  BY <1>1, <1>2, <1>3, <1>4, <1>5, <1>6 DEF LimNext

\* A bucket has one window at a time, opened when the last is over, and each lets
\* in at most the limit, whatever GC drops and in whatever order calls get the lock.
THEOREM LimiterKeepsQuota == LimSpec => OneWindowAtATime
<1>1. LimSpec => []LimInv
  BY LimiterInvariant
<1>. QED
  BY <1>1, WindowsInit, StepIsQuota, PTL DEF LimSpec, OneWindowAtATime, Windows!QuotaSpec
-----------------------------------------------------------------------------
(* Retry-After *)

LEMMA RefusedInTime ==
    LimInv => \A c \in Calls : Refuse(c) =>
        \A t \in told[asked[c].key] : asked[c].now <= t
<1>. SUFFICES ASSUME LimInv, NEW c \in Calls, Refuse(c), NEW t \in told[asked[c].key]
              PROVE  asked[c].now <= t
  OBVIOUS
<1>. DEFINE k == asked[c].key
<1>1. k \in Keys /\ asked[c].now \in Nat /\ hits[k] \in Slots /\ asked[c].now <= hits[k].until
  BY DEF LimInv, LimTypeOK, Refuse, Running
<1>2. t \in Int /\ hits[k].until <= t
  BY <1>1, NoneIsNothing DEF LimInv, LimTypeOK, ToldAfterEnd
<1>. QED
  BY <1>1, <1>2 DEF Slots

\* Whoever comes back later than a 429 told is let in, unless another call of the
\* bucket was let in between.
THEOREM LimiterHonoursRetryAfter == LimSpec => RetryAfterHonoured
<1>1. LimInv /\ [LimNext]_limiterVars =>
        [\A c \in Calls : Refuse(c) =>
            \A t \in told[asked[c].key] : asked[c].now <= t]_limiterVars
  BY RefusedInTime
<1>. QED
  BY <1>1, LimiterInvariant, PTL DEF LimSpec, RetryAfterHonoured

-----------------------------------------------------------------------------
(* Counting what a bucket has been served *)

\* How many of the times in s are from "from" on.
CountFrom(s, from) == Cardinality({i \in DOMAIN s : s[i] >= from})

LEMMA ServedCounts == \A k, from : Served(k, from) = CountFrom(served[k], from)
BY DEF Served, CountFrom

LEMMA CountedIsFinite ==
    ASSUME NEW s \in Seq(Nat), NEW from \in Int
    PROVE  IsFiniteSet({i \in DOMAIN s : s[i] >= from})
<1>1. IsFiniteSet(1 .. Len(s))
  BY FS_Interval
<1>2. {i \in DOMAIN s : s[i] >= from} \subseteq 1 .. Len(s)
  OBVIOUS
<1>. QED
  BY <1>1, <1>2, FS_Subset

LEMMA CountIsNat == \A s \in Seq(Nat), from \in Int : CountFrom(s, from) \in Nat
BY CountedIsFinite, FS_CardinalityType DEF CountFrom

\* Looking further back counts no less.
LEMMA CountMonotone ==
    ASSUME NEW s \in Seq(Nat), NEW from \in Int, NEW earlier \in Int, earlier <= from
    PROVE  CountFrom(s, from) <= CountFrom(s, earlier)
<1>1. {i \in DOMAIN s : s[i] >= from} \subseteq {i \in DOMAIN s : s[i] >= earlier}
  OBVIOUS
<1>. QED
  BY <1>1, CountedIsFinite, FS_Subset DEF CountFrom

\* One more, when it is late enough.
LEMMA CountAppend ==
    ASSUME NEW s \in Seq(Nat), NEW t \in Nat, NEW from \in Int, from <= t
    PROVE  CountFrom(Append(s, t), from) = CountFrom(s, from) + 1
<1>. DEFINE A == {i \in DOMAIN s : s[i] >= from}
            r == Append(s, t)
<1>1. {i \in DOMAIN r : r[i] >= from} = A \cup {Len(s) + 1}
  <2>1. DOMAIN r = (DOMAIN s) \cup {Len(s) + 1}
    OBVIOUS
  <2>2. r[Len(s) + 1] = t /\ \A i \in DOMAIN s : r[i] = s[i]
    OBVIOUS
  <2>. QED
    BY <2>1, <2>2
<1>2. Len(s) + 1 \notin A
  OBVIOUS
<1>3. IsFiniteSet(A)
  BY CountedIsFinite
<1>. QED
  BY <1>1, <1>2, <1>3, FS_AddElement DEF CountFrom

-----------------------------------------------------------------------------
(* The limiter of Admission is RateLimiter *)

LEMMA KeyOfIsKey ==
    ASSUME NEW r \in Routes, NEW who \in Callers, r \in Guarded => who.name # NoKey
    PROVE  KeyOf(r, who) \in Keys
<1>1. CASE r \in Guarded
  BY <1>1, AdmissionAssumption DEF KeyOf, Identity, Buckets
<1>2. CASE r \notin Guarded
  BY <1>2, AdmissionAssumption DEF KeyOf, Identity, Buckets
<1>. QED
  BY <1>1, <1>2

\* The bucket limitMW takes is that of the subject the quotas are written for.
LEMMA KeyOfSubject ==
    ASSUME NEW r, NEW who, NEW at, r \in Guarded => who.name # NoKey
    PROVE  Subject(Under(at, r, who)) = KeyOf(r, who)
BY DEF Subject, Under, KeyOf, Identity

LEMMA StepIsLimiter == [Next]_vars => [LimNext]_limiterVars
<1>. SUFFICES ASSUME [Next]_vars PROVE [LimNext]_limiterVars
  OBVIOUS
<1>1. ASSUME NEW c \in Calls, NEW r \in Routes, NEW who \in Callers, Arrive(c, r, who)
      PROVE  [LimNext]_limiterVars
  <2>1. CASE TooLarge(c, r, who) \/ Shed(c, r, who) \/ Unauthorized(c, r, who) \/ Unlimited(c, r, who)
    BY <2>1 DEF TooLarge, Shed, Unauthorized, Unlimited
  <2>2. CASE (r \in Guarded => who.name # NoKey) /\ AskLimiter(c, r, who)
    BY <2>2, KeyOfIsKey DEF AskLimiter, LimNext
  <2>. QED
    BY <1>1, <2>1, <2>2 DEF Arrive
<1>2. ASSUME NEW c \in Calls, Admitted(c) \/ Refused(c) PROVE [LimNext]_limiterVars
  BY <1>2 DEF Admitted, Refused, LimNext
<1>3. ASSUME NEW c \in Calls, Handle(c) \/ Panic(c) \/ Count(c) PROVE [LimNext]_limiterVars
  BY <1>3 DEF Handle, Panic, Count
<1>4. CASE TakeSample
  BY <1>4 DEF TakeSample
<1>5. CASE Background
  BY <1>5 DEF Background, LimNext
<1>6. CASE UNCHANGED vars
  BY <1>6 DEF vars
<1>. QED
  BY <1>1, <1>2, <1>3, <1>4, <1>5, <1>6 DEF Next

\* Requests use the limiter as RateLimiter says, so what is proved of it holds of
\* the server.
THEOREM AdmissionUsesLimiter == Spec => LimSpec
<1>1. Init => LimInit
  BY DEF Init
<1>. QED
  BY <1>1, StepIsLimiter, PTL DEF Spec, LimSpec

\* The server keeps one window at a time for each bucket (OneWindowAtATime), and
\* the times it tells refused callers (RetryAfterHonoured).
THEOREM ServerKeepsQuota == Spec => OneWindowAtATime /\ RetryAfterHonoured
BY AdmissionUsesLimiter, LimiterKeepsQuota, LimiterHonoursRetryAfter, PTL

-----------------------------------------------------------------------------
(* The watchdog: its types *)

LEMMA DivIsNat ==
    ASSUME NEW m \in Nat, NEW d \in Nat, d > 0 PROVE m \div d \in Nat
<1>. DEFINE q == m \div d
<1>1. q \in Int /\ q * d <= m /\ m < q * d + d
  BY SMTT(30)
<1>. HIDE DEF q
<1>2. q < 0 => q * d + d <= 0
  BY <1>1, SMTT(30)
<1>. QED
  BY <1>1, <1>2 DEF q

LEMMA RateIsNat ==
    ASSUME NEW n \in Nat, NEW gap \in Gaps PROVE Rate(n, gap) \in Nat
<1>. DEFINE d == IF gap = 0 THEN 1 ELSE gap
<1>1. d \in Nat /\ d > 0
  BY WatchdogAssumption
<1>2. n * Scale \in Nat
  BY WatchdogAssumption
<1>. QED
  BY <1>1, <1>2, DivIsNat DEF Rate

LEMMA CountTypes ==
    ASSUME WdTypeOK, NEW n \in Nat, CountBytes(n) PROVE WdTypeOK'
BY WatchdogAssumption DEF WdTypeOK, CountBytes

LEMMA SampleTypes ==
    ASSUME WdTypeOK, NEW gap \in Gaps, Sample(gap) PROVE WdTypeOK'
<1>. DEFINE rate == Rate(fresh, gap)
<1>1. Window \in Nat /\ Window > 0 /\ MaxFresh \in Nat
  BY WatchdogAssumption
<1>2. rate \in Nat
  BY SMTT(30), RateIsNat, <1>1 DEF WdTypeOK
<1>3. /\ samples' = [samples EXCEPT ![idx] = rate]
      /\ idx' = NextIdx /\ filled' = NextFilled /\ fresh' = 0
      /\ lately' = (IF Len(lately) < Window THEN lately ELSE Tail(lately)) \o <<rate>>
  BY DEF Sample
<1>4. degraded' \in BOOLEAN
  BY DEF Sample, Above
<1>. HIDE DEF rate
<1>5. samples' \in [0 .. Window - 1 -> Nat]
  BY <1>2, <1>3 DEF WdTypeOK
<1>6. idx' \in 0 .. Window - 1 /\ filled' \in 0 .. Window /\ fresh' \in 0 .. MaxFresh
  BY SMTT(30), <1>1, <1>3 DEF WdTypeOK, NextIdx, NextFilled
<1>7. lately' \in Seq(Nat)
  <2>1. (IF Len(lately) < Window THEN lately ELSE Tail(lately)) \in Seq(Nat)
    BY <1>1 DEF WdTypeOK
  <2>. QED
    BY <2>1, <1>2, <1>3
<1>. QED
  BY <1>4, <1>5, <1>6, <1>7 DEF WdTypeOK

-----------------------------------------------------------------------------
(* RequestInv, action by action *)

LEMMA InitInv == Init => RequestInv
<1>. SUFFICES ASSUME Init PROVE RequestInv
  OBVIOUS
<1>1. LimInv
  BY LimInitInv DEF Init
<1>2. WdTypeOK
  <2>1. samples \in [0 .. Window - 1 -> Nat]
    BY WatchdogAssumption DEF Init, WdInit
  <2>2. fresh \in 0 .. MaxFresh /\ idx \in 0 .. Window - 1 /\ filled \in 0 .. Window
    BY WatchdogAssumption DEF Init, WdInit
  <2>3. degraded \in BOOLEAN
    BY DEF Init, WdInit
  <2>4. lately \in Seq(Nat)
    BY DEF Init, WdInit
  <2>. QED
    BY <2>1, <2>2, <2>3, <2>4 DEF WdTypeOK
<1>3. TypeOK
  BY <1>2 DEF Init, TypeOK, Reqs
<1>4. Asking
  BY DEF Init, LimInit, Asking, IdleReq
<1>5. SlotCountsServed
  BY DEF Init, LimInit, SlotCountsServed
<1>. QED
  BY <1>1, <1>3, <1>4, <1>5 DEF RequestInv

\* While neither the slots, nor the clock, nor the history change, they agree.
LEMMA SlotsKept ==
    SlotCountsServed /\ UNCHANGED <<clock, hits, served>> => SlotCountsServed'
BY DEF SlotCountsServed, Served

\* A request that changes its stage without the limiter.
LEMMA MoveInv ==
    ASSUME RequestInv, NEW c \in Calls, NEW new \in Reqs,
           asked[c] = None, new.at # "limit", req' = [req EXCEPT ![c] = new],
           UNCHANGED <<limiterVars, served>>, WdTypeOK'
    PROVE  RequestInv'
<1>1. LimInv'
  BY LimStutter DEF RequestInv
<1>2. TypeOK'
  BY DEF RequestInv, TypeOK
<1>3. Asking'
  BY DEF RequestInv, TypeOK, Asking, limiterVars
<1>4. SlotCountsServed'
  BY SlotsKept DEF RequestInv, limiterVars
<1>. QED
  BY <1>1, <1>2, <1>3, <1>4 DEF RequestInv

LEMMA WatchdogKept == WdTypeOK /\ UNCHANGED watchdogVars => WdTypeOK'
BY DEF WdTypeOK, watchdogVars

\* The answers there are.
LEMMA AnswersAreReqs ==
    /\ IdleReq \in Reqs /\ IdleReq.at = "idle"
    /\ \A n \in {0, ErrorBytes, FullBytes} : Answer(n) \in Reqs /\ Answer(n).at = "answer"
    /\ \A at \in {"limit", "run"}, r \in Routes, who \in Callers :
          Under(at, r, who) \in Reqs /\ Under(at, r, who).at = at
BY DEF Reqs, IdleReq, Answer, Under

LEMMA ArriveInv ==
    ASSUME RequestInv, NEW c \in Calls, NEW r \in Routes, NEW who \in Callers,
           Arrive(c, r, who)
    PROVE  RequestInv'
<1>1. asked[c] = None
  BY DEF RequestInv, Asking, Arrive, IdleReq
<1>2. WdTypeOK'
  BY WatchdogKept DEF RequestInv, TypeOK, Arrive, TooLarge, Shed, Unauthorized,
     Unlimited, AskLimiter
<1>3. CASE TooLarge(c, r, who) \/ Shed(c, r, who) \/ Unauthorized(c, r, who)
  <2>1. req' = [req EXCEPT ![c] = Answer(ErrorBytes)] /\ UNCHANGED <<limiterVars, served>>
    BY <1>3 DEF TooLarge, Shed, Unauthorized
  <2>. QED
    BY <1>1, <1>2, <2>1, MoveInv, AnswersAreReqs
<1>4. CASE Unlimited(c, r, who)
  <2>1. req' = [req EXCEPT ![c] = Under("run", r, who)] /\ UNCHANGED <<limiterVars, served>>
    BY <1>4 DEF Unlimited
  <2>. QED
    BY <1>1, <1>2, <2>1, MoveInv, AnswersAreReqs
<1>5. CASE (r \in Guarded => who.name # NoKey) /\ AskLimiter(c, r, who)
  <2>. DEFINE k == KeyOf(r, who)
  <2>1. k \in Keys /\ k = Subject(Under("limit", r, who))
    BY <1>5, KeyOfIsKey, KeyOfSubject
  <2>2. /\ LimitOf[k] > 0 /\ ReadClock(c, k)
        /\ req' = [req EXCEPT ![c] = Under("limit", r, who)]
        /\ UNCHANGED <<watchdogVars, served>>
    BY <1>5 DEF AskLimiter
  <2>. HIDE DEF k
  <2>3. LimInv'
    BY <2>1, <2>2, ReadInv DEF RequestInv
  <2>4. TypeOK'
    BY <2>2, <1>2, AnswersAreReqs DEF RequestInv, TypeOK
  <2>5. Asking'
    <3>1. asked' = [asked EXCEPT ![c] = [key |-> k, now |-> clock]] /\ UNCHANGED <<clock, hits>>
      BY <2>2 DEF ReadClock
    <3>2. asked'[c] # None /\ asked'[c].key = k
      BY <3>1, <2>1, NoneIsNothing DEF RequestInv, LimInv, LimTypeOK
    <3>3. req'[c] = Under("limit", r, who) /\ req'[c].at = "limit"
      BY <2>2, AnswersAreReqs DEF RequestInv, TypeOK
    <3>4. \A d \in Calls \ {c} : asked'[d] = asked[d] /\ req'[d] = req[d]
      BY <3>1, <2>2 DEF RequestInv, LimInv, LimTypeOK, TypeOK
    <3>. QED
      BY <3>2, <3>3, <3>4, <2>1 DEF RequestInv, Asking
  <2>6. SlotCountsServed'
    BY <2>2, SlotsKept DEF RequestInv, ReadClock
  <2>. QED
    BY <2>3, <2>4, <2>5, <2>6 DEF RequestInv
<1>. QED
  BY <1>3, <1>4, <1>5 DEF Arrive
\* A call in the limiter's hands, and what it asked for.
LEMMA Waiting ==
    ASSUME RequestInv, NEW c \in Calls, asked[c] # None
    PROVE  /\ asked[c].key \in Keys /\ asked[c].now \in Nat
           /\ asked[c].key = Subject(req[c])
           /\ req[c] \in [at : {"limit", "run"}, route : Routes, caller : Callers]
<1>1. asked[c].key \in Keys /\ asked[c].now \in Nat
  BY DEF RequestInv, LimInv, LimTypeOK
<1>2. req[c].at = "limit" /\ asked[c].key = Subject(req[c])
  BY DEF RequestInv, Asking
<1>3. req[c] \in Reqs
  BY DEF RequestInv, TypeOK
<1>. QED
  BY <1>1, <1>2, <1>3, AnswersAreReqs DEF Reqs

\* The limiter lets a call go: that call stops waiting, the others wait on.
LEMMA LeaveAsking ==
    ASSUME RequestInv, NEW c \in Calls, NEW new \in Reqs, new.at # "limit",
           asked' = [asked EXCEPT ![c] = None], req' = [req EXCEPT ![c] = new]
    PROVE  Asking'
<1>1. asked'[c] = None /\ req'[c] = new
  BY DEF RequestInv, LimInv, LimTypeOK, TypeOK
<1>2. \A d \in Calls \ {c} : asked'[d] = asked[d] /\ req'[d] = req[d]
  BY DEF RequestInv, LimInv, LimTypeOK, TypeOK
<1>. QED
  BY <1>1, <1>2 DEF RequestInv, Asking

LEMMA AdmittedInv ==
    ASSUME RequestInv, NEW c \in Calls, Admitted(c) PROVE RequestInv'
<1>. DEFINE k == asked[c].key
            now == asked[c].now
            slot == NextSlot(k, now)
<1>1. /\ asked[c] # None /\ clock' = clock
      /\ hits' = [hits EXCEPT ![k] = slot]
      /\ asked' = [asked EXCEPT ![c] = None]
      /\ req' = [req EXCEPT ![c].at = "run"]
      /\ served' = [served EXCEPT ![Subject(req[c])] = Append(@, clock)]
      /\ UNCHANGED watchdogVars
  BY DEF Admitted, Admit
<1>2. /\ k \in Keys /\ now \in Nat /\ k = Subject(req[c])
      /\ req[c] \in [at : {"limit", "run"}, route : Routes, caller : Callers]
  BY <1>1, Waiting
<1>3. /\ clock \in Nat /\ now <= clock
      /\ hits \in [Keys -> Slots \cup {None}]
      /\ served \in [Keys -> Seq(Nat)] /\ req \in [Calls -> Reqs]
  BY <1>1 DEF RequestInv, LimInv, LimTypeOK, RecentlyRead, TypeOK
<1>4. LimInv'
  BY AdmitInv DEF RequestInv, Admitted
<1>5. req'[c] \in Reqs /\ req'[c].at = "run" /\ req' = [req EXCEPT ![c] = req'[c]]
  <2>1. req' = [req EXCEPT ![c] = [req[c] EXCEPT !.at = "run"]]
    BY <1>1
  <2>2. /\ [req[c] EXCEPT !.at = "run"] \in [at : {"limit", "run"}, route : Routes, caller : Callers]
        /\ [req[c] EXCEPT !.at = "run"].at = "run"
    BY <1>2
  <2>. HIDE DEF k, now, slot
  <2>. QED
    BY <2>1, <2>2, <1>3 DEF Reqs
<1>6. served' = [served EXCEPT ![k] = Append(served[k], clock)]
  BY <1>1, <1>2
<1>7. TypeOK'
  <2>1. WdTypeOK'
    BY <1>1, WatchdogKept DEF RequestInv, TypeOK
  <2>2. Append(served[k], clock) \in Seq(Nat)
    BY <1>2, <1>3
  <2>3. served' \in [Keys -> Seq(Nat)]
    BY <2>2, <1>6, <1>3
  <2>. QED
    BY <2>1, <2>3, <1>3, <1>5 DEF TypeOK
<1>8. Asking'
  BY <1>1, <1>5, LeaveAsking
<1>9. SlotCountsServed'
  <2>. SUFFICES ASSUME NEW j \in Keys, hits'[j] # None
                PROVE  /\ hits'[j].until <= clock + Win
                       /\ CountFrom(served'[j], hits'[j].until - Win) >= hits'[j].count
    BY <1>1 DEF SlotCountsServed, Served, CountFrom
  <2>1. CASE j # k
    BY <2>1, <1>1, <1>2, <1>3, <1>6, ServedCounts DEF RequestInv, SlotCountsServed
  <2>2. CASE j = k
    <3>1. hits'[j] = slot /\ served'[j] = Append(served[k], clock)
      BY <2>2, <1>1, <1>2, <1>3, <1>6
    <3>2. served[k] \in Seq(Nat) /\ Win \in Nat
      BY <1>2, <1>3, LimiterAssumption
    <3>3. CASE Running(k, now)
      <4>1. hits[k] # None /\ hits[k] \in Slots
        BY <3>3, <1>2, <1>3 DEF Running
      <4>2. slot.count = hits[k].count + 1 /\ slot.until = hits[k].until
        BY <3>3, <1>2, <1>3, NextSlotIsSlot
      <4>3. hits[k].until <= clock + Win /\ CountFrom(served[k], hits[k].until - Win) >= hits[k].count
        BY <4>1, <1>2, ServedCounts DEF RequestInv, SlotCountsServed
      <4>4. hits[k].until \in Int /\ hits[k].count \in Nat
        BY <4>1 DEF Slots
      <4>. HIDE DEF k, now, slot
      <4>5. CountFrom(served'[j], hits[k].until - Win) = CountFrom(served[k], hits[k].until - Win) + 1
        BY <3>1, <3>2, <4>3, <4>4, <1>3, CountAppend
      <4>6. CountFrom(served[k], hits[k].until - Win) \in Nat
        <5>1. hits[k].until - Win \in Int
          BY <3>2, <4>4
        <5>. QED
          BY <3>2, <5>1, CountIsNat
      <4>. QED
        BY <3>1, <4>2, <4>3, <4>4, <4>5, <4>6
    <3>4. CASE ~Running(k, now)
      <4>1. slot.count = 1 /\ slot.until = now + Win
        BY <3>4, <1>2, <1>3, NextSlotIsSlot
      <4>. HIDE DEF k, now, slot
      <4>2. CountFrom(served'[j], now) = CountFrom(served[k], now) + 1
        <5>1. now \in Int /\ now <= clock /\ clock \in Nat
          BY <1>2, <1>3
        <5>. QED
          BY <3>1, <3>2, <5>1, CountAppend
      <4>3. CountFrom(served[k], now) \in Nat
        <5>1. now \in Int
          BY <1>2
        <5>. QED
          BY <3>2, <5>1, CountIsNat
      <4>4. slot.until - Win = now /\ slot.until <= clock + Win
        BY <4>1, <3>2, <1>2, <1>3
      <4>. QED
        BY <3>1, <4>1, <4>2, <4>3, <4>4
    <3>. QED
      BY <3>3, <3>4
  <2>. QED
    BY <2>1, <2>2
<1>. QED
  BY <1>4, <1>7, <1>8, <1>9 DEF RequestInv

LEMMA RefusedInv ==
    ASSUME RequestInv, NEW c \in Calls, Refused(c) PROVE RequestInv'
<1>1. /\ asked' = [asked EXCEPT ![c] = None]
      /\ req' = [req EXCEPT ![c] = Answer(ErrorBytes)]
      /\ UNCHANGED <<clock, hits, served, watchdogVars>>
  BY DEF Refused, Refuse
<1>2. LimInv'
  BY RefuseInv DEF RequestInv, Refused
<1>3. TypeOK'
  BY <1>1, WatchdogKept, AnswersAreReqs DEF RequestInv, TypeOK
<1>4. Asking'
  BY <1>1, LeaveAsking, AnswersAreReqs
<1>5. SlotCountsServed'
  BY <1>1, SlotsKept DEF RequestInv
<1>. QED
  BY <1>2, <1>3, <1>4, <1>5 DEF RequestInv

\* The handler, a panic, the counting: none of them is the limiter's.
LEMMA AfterLimiterInv ==
    ASSUME RequestInv, NEW c \in Calls, Handle(c) \/ Panic(c) \/ Count(c)
    PROVE  RequestInv'
<1>1. asked[c] = None
  BY DEF RequestInv, Asking, Handle, Panic, Count
<1>2. UNCHANGED <<limiterVars, served>>
  BY DEF Handle, Panic, Count
<1>3. CASE Handle(c)
  <2>1. PICK n \in {0, ErrorBytes, FullBytes} : req' = [req EXCEPT ![c] = Answer(n)]
    BY <1>3 DEF Handle
  <2>2. WdTypeOK'
    BY <1>3, WatchdogKept DEF Handle, RequestInv, TypeOK
  <2>. QED
    BY <1>1, <1>2, <2>1, <2>2, MoveInv, AnswersAreReqs
<1>4. CASE Panic(c)
  <2>1. WdTypeOK' /\ req' = [req EXCEPT ![c] = IdleReq]
    BY <1>4, WatchdogKept DEF Panic, RequestInv, TypeOK
  <2>. QED
    BY <1>1, <1>2, <2>1, MoveInv, AnswersAreReqs
<1>5. CASE Count(c)
  <2>1. req' = [req EXCEPT ![c] = IdleReq] /\ CountBytes(req[c].bytes) /\ req[c].at = "answer"
    BY <1>5 DEF Count
  <2>2. req[c].bytes \in Nat
    <3>1. req[c] \in Reqs
      BY DEF RequestInv, TypeOK
    <3>2. PICK n \in {0, ErrorBytes, FullBytes} : req[c] = Answer(n)
      BY <2>1, <3>1, AnswersAreReqs DEF Reqs
    <3>. QED
      BY <3>2, AdmissionAssumption DEF Answer
  <2>3. WdTypeOK'
    BY <2>1, <2>2, CountTypes DEF RequestInv, TypeOK
  <2>. QED
    BY <1>1, <1>2, <2>1, <2>3, MoveInv, AnswersAreReqs
<1>. QED
  BY <1>3, <1>4, <1>5

LEMMA TakeSampleInv == RequestInv /\ TakeSample => RequestInv'
<1>. SUFFICES ASSUME RequestInv, TakeSample PROVE RequestInv'
  OBVIOUS
<1>1. UNCHANGED <<limiterVars, req, served>>
  BY DEF TakeSample
<1>2. WdTypeOK'
  BY SampleTypes DEF TakeSample, RequestInv, TypeOK
<1>3. TypeOK'
  BY <1>1, <1>2 DEF RequestInv, TypeOK
<1>4. LimInv'
  BY <1>1, LimStutter DEF RequestInv
<1>5. Asking' /\ SlotCountsServed'
  BY <1>1, SlotsKept DEF RequestInv, Asking, limiterVars
<1>. QED
  BY <1>3, <1>4, <1>5 DEF RequestInv

LEMMA BackgroundInv == RequestInv /\ Background => RequestInv'
<1>. SUFFICES ASSUME RequestInv, Background PROVE RequestInv'
  OBVIOUS
<1>1. UNCHANGED <<watchdogVars, req, served>>
  BY DEF Background
<1>2. TypeOK'
  BY <1>1, WatchdogKept DEF RequestInv, TypeOK
<1>3. LimInv'
  BY TickInv, GCReadInv, GCSweepInv DEF RequestInv, Background
<1>4. Asking'
  BY <1>1 DEF RequestInv, Asking, Background, Tick, GCRead, GCSweep
<1>5. SlotCountsServed'
  <2>. SUFFICES ASSUME NEW k \in Keys, hits'[k] # None
                PROVE  /\ hits'[k].until <= clock' + Win
                       /\ CountFrom(served'[k], hits'[k].until - Win) >= hits'[k].count
    BY DEF SlotCountsServed, Served, CountFrom
  <2>1. hits'[k] = hits[k]
    BY DEF Background, Tick, GCRead, GCSweep
  <2>2. /\ hits[k].until <= clock + Win
        /\ CountFrom(served[k], hits[k].until - Win) >= hits[k].count
    BY <2>1, ServedCounts DEF RequestInv, SlotCountsServed
  <2>3. clock \in Nat /\ clock' \in Nat /\ clock <= clock' /\ hits[k].until \in Int
    BY <2>1 DEF RequestInv, LimInv, LimTypeOK, Slots, Background, Tick, GCRead, GCSweep
  <2>. QED
    BY <2>1, <2>2, <2>3, <1>1, LimiterAssumption
<1>. QED
  BY <1>2, <1>3, <1>4, <1>5 DEF RequestInv

LEMMA VarsStutter == RequestInv /\ UNCHANGED vars => RequestInv'
<1>. SUFFICES ASSUME RequestInv, UNCHANGED vars PROVE RequestInv'
  OBVIOUS
<1>. USE DEF vars
<1>1. TypeOK'
  BY WatchdogKept DEF RequestInv, TypeOK
<1>2. LimInv'
  BY LimStutter DEF RequestInv
<1>3. Asking' /\ SlotCountsServed'
  BY SlotsKept DEF RequestInv, Asking, limiterVars
<1>. QED
  BY <1>1, <1>2, <1>3 DEF RequestInv

LEMMA NextInv == RequestInv /\ [Next]_vars => RequestInv'
<1>. SUFFICES ASSUME RequestInv, [Next]_vars PROVE RequestInv'
  OBVIOUS
<1>. QED
  BY ArriveInv, AdmittedInv, RefusedInv, AfterLimiterInv, TakeSampleInv, BackgroundInv,
     VarsStutter DEF Next

\* The state of the limiter, the requests and the watchdog agree at any time: a
\* request waits for the limiter exactly while the limiter has its question, and
\* a slot counts no more than what has reached the handlers.
LEMMA RequestInvariant == Spec => []RequestInv
BY InitInv, NextInv, PTL DEF Spec

-----------------------------------------------------------------------------
\* Who is refused has had its share handled (RefusedHadItsShare): the slot that
\* refuses it counts no more than was handled, and is hardly older than a window.
LEMMA ShareStep ==
    ASSUME RequestInv, NEW c \in Calls, Refused(c)
    PROVE  Served(Subject(req[c]), clock - Win - Lag) >= LimitOf[Subject(req[c])]
<1>. DEFINE k == asked[c].key
<1>1. asked[c] # None /\ Running(k, asked[c].now) /\ Full(k)
  BY DEF Refused, Refuse
<1>2. k \in Keys /\ asked[c].now \in Nat /\ k = Subject(req[c])
  BY <1>1, Waiting
<1>3. /\ hits[k] # None /\ hits[k].until \in Int /\ hits[k].count \in Nat
      /\ asked[c].now <= hits[k].until /\ hits[k].count >= LimitOf[k]
  BY <1>1, <1>2 DEF Running, Full, RequestInv, LimInv, LimTypeOK, Slots
<1>4. clock <= asked[c].now + Lag /\ clock \in Nat /\ served[k] \in Seq(Nat)
  BY <1>1, <1>2 DEF RequestInv, LimInv, LimTypeOK, RecentlyRead, TypeOK
<1>5. CountFrom(served[k], hits[k].until - Win) >= hits[k].count
  BY <1>2, <1>3, ServedCounts DEF RequestInv, SlotCountsServed
<1>6. Win \in Nat /\ Lag \in Nat /\ LimitOf[k] \in Nat
  BY <1>2, LimiterAssumption
<1>. HIDE DEF k
<1>7. clock - Win - Lag <= hits[k].until - Win
  BY <1>2, <1>3, <1>4, <1>6
<1>8. CountFrom(served[k], hits[k].until - Win) <= CountFrom(served[k], clock - Win - Lag)
  BY <1>3, <1>4, <1>6, <1>7, CountMonotone
<1>9. /\ CountFrom(served[k], hits[k].until - Win) \in Nat
      /\ CountFrom(served[k], clock - Win - Lag) \in Nat
  <2>1. hits[k].until - Win \in Int /\ clock - Win - Lag \in Int
    BY <1>3, <1>4, <1>6
  <2>. QED
    BY <2>1, <1>4, CountIsNat
<1>10. CountFrom(served[k], clock - Win - Lag) >= LimitOf[k]
  BY <1>3, <1>5, <1>6, <1>8, <1>9
<1>. QED
  BY <1>2, <1>10, ServedCounts

\* RefusedHadItsShare, for all routes, limits, windows and waits: nobody gets a 429
\* for what others have asked for.
THEOREM RefusalIsFair == Spec => RefusedHadItsShare
<1>1. RequestInv /\ [Next]_vars =>
        [\A c \in Calls : Refused(c) =>
            LET k == Subject(req[c]) IN Served(k, clock - Win - Lag) >= LimitOf[k]]_vars
  BY ShareStep
<1>. QED
  BY <1>1, RequestInvariant, PTL DEF Spec, RefusedHadItsShare

-----------------------------------------------------------------------------
(* QuotaKept: windows one after the other *)

\* How windows lie apart, for numbers alone.
LEMMA Products ==
    ASSUME NEW n \in Nat, NEW x \in Nat
    PROVE  /\ n * x \in Nat
           /\ x > 0 => n <= n * x
           /\ n > 0 => (n - 1) * x = n * x - x
           /\ n = 0 => n * x = 0
<1>1. n * x \in Nat
  OBVIOUS
<1>2. x > 0 => n <= n * x
  <2>. SUFFICES ASSUME x > 0 PROVE n <= n * x
    OBVIOUS
  <2>1. n * x = n + n * (x - 1)
    OBVIOUS
  <2>2. n * (x - 1) \in Nat
    OBVIOUS
  <2>. QED
    BY <2>1, <2>2
<1>. QED
  BY <1>1, <1>2

LEMMA Numbers ==
    ASSUME NEW k \in Keys
    PROVE  /\ LimitOf[k] \in Nat /\ Win \in Nat /\ Lag \in Nat
           /\ Win - Lag + 1 \in Nat /\ Win - Lag + 1 > 0
BY LimiterAssumption

LEMMA QuotaInit == Init => InOrder /\ WindowsApart
BY DEF Init, LimInit, InOrder, WindowsApart

\* Time, and all that is not let in, leave the windows as they are.
LEMMA WindowsKept ==
    ASSUME TypeOK, clock \in Nat, clock' \in Nat, clock <= clock', UNCHANGED <<window, served>>,
           InOrder, WindowsApart
    PROVE  InOrder' /\ WindowsApart'
<1>1. InOrder'
  <2>1. \A k \in Keys : \A j \in DOMAIN served[k] : served[k][j] \in Nat
    BY DEF TypeOK
  <2>. QED
    BY <2>1 DEF InOrder
<1>2. WindowsApart'
  BY DEF WindowsApart, Opened, Apart
<1>. QED
  BY <1>1, <1>2

\* One call more, now, at the end of a list in order.
LEMMA AppendInOrder ==
    ASSUME NEW s \in Seq(Nat), NEW t \in Nat,
           \A j \in DOMAIN s : s[j] <= t /\ \A i \in 1 .. j : s[i] <= s[j],
           NEW j \in DOMAIN Append(s, t)
    PROVE  /\ Append(s, t)[j] <= t
           /\ \A i \in 1 .. j : Append(s, t)[i] <= Append(s, t)[j]
OBVIOUS

\* Apart, of any list of times: with n times L of them between one before first and
\* first, n times D has passed.
IsApart(s, first, L, D) ==
    \A i \in DOMAIN s, n \in 0 .. Len(s) : i + n * L < first => s[first] >= s[i] + n * D

LEMMA ApartIs == \A k : Apart(k) <=> IsApart(served[k], Opened(k), LimitOf[k], Win - Lag + 1)
BY DEF Apart, IsApart

\* One call more leaves an earlier one as it is, ...
LEMMA ApartUse ==
    ASSUME NEW s \in Seq(Nat), NEW t \in Nat, NEW L \in Nat \ {0}, NEW D \in Nat,
           NEW first \in 1 .. Len(s), IsApart(s, first, L, D)
    PROVE  IsApart(Append(s, t), first, L, D)
<1>. DEFINE r == Append(s, t)
<1>1. /\ DOMAIN r = 1 .. Len(s) + 1 /\ Len(r) = Len(s) + 1
      /\ \A i \in 1 .. Len(s) : r[i] = s[i]
  OBVIOUS
<1>. HIDE DEF r
<1>2. ASSUME NEW i \in DOMAIN r, NEW n \in 0 .. Len(r), i + n * L < first
      PROVE  r[first] >= r[i] + n * D
  <2>1. PICK x \in Nat : x = n * L /\ n <= x
    BY <1>1, Products
  <2>2. i \in 1 .. Len(s) /\ n \in 0 .. Len(s)
    <3>1. i + x < first
      BY <1>2, <2>1
    <3>. QED
      BY SMTT(30), <1>1, <2>1, <3>1
  <2>3. s[first] >= s[i] + n * D
    BY <1>2, <2>2 DEF IsApart
  <2>. QED
    BY <1>1, <2>2, <2>3
<1>. QED
  BY <1>2 DEF IsApart, r

\* ... and is itself apart, as the first of a new window, when the last window was
\* opened D before and has let in L at most.
LEMMA ApartOpen ==
    ASSUME NEW s \in Seq(Nat), NEW t \in Nat, NEW L \in Nat \ {0}, NEW D \in Nat,
           \A i \in DOMAIN s : s[i] <= t,
           NEW last \in Int,
           s # <<>> => /\ last \in 1 .. Len(s) /\ Len(s) + 1 - L <= last
                       /\ t >= s[last] + D
                       /\ IsApart(s, last, L, D)
    PROVE  IsApart(Append(s, t), Len(s) + 1, L, D)
<1>. DEFINE r == Append(s, t)
<1>1. /\ DOMAIN r = 1 .. Len(s) + 1 /\ Len(r) = Len(s) + 1 /\ r[Len(s) + 1] = t
      /\ \A i \in 1 .. Len(s) : r[i] = s[i]
  OBVIOUS
<1>. HIDE DEF r
<1>2. PICK len \in Nat : len = Len(s)
  OBVIOUS
<1>3. ASSUME NEW i \in DOMAIN r, NEW n \in 0 .. Len(r), i + n * L < Len(s) + 1
      PROVE  t >= r[i] + n * D
  <2>1. PICK x \in Nat : x = n * L
    BY <1>1, <1>2, Products
  <2>2. i \in 1 .. len + 1 /\ n \in 0 .. len + 1
    BY <1>1, <1>2
  <2>3. i + x < len + 1
    BY <1>2, <1>3, <2>1
  <2>4. n <= x
    BY <2>1, <2>2, Products
  <2>5. i \in 1 .. len /\ n \in 0 .. len
    BY <2>2, <2>3, <2>4
  <2>6. r[i] = s[i] /\ s[i] \in Nat /\ s[i] <= t
    BY <1>1, <1>2, <2>5
  <2>7. CASE n = 0
    <3>1. n * D = 0
      BY <2>7, Products
    <3>. QED
      BY <2>6, <3>1
  <2>8. CASE n > 0
    <3>1. PICK y \in Nat : y = n * D
      BY <2>5, Products
    <3>2. (n - 1) * D = y - D /\ (n - 1) * L = x - L
      BY <2>1, <2>5, <2>8, <3>1, Products
    <3>3. /\ last \in 1 .. len /\ len + 1 - L <= last
          /\ t >= s[last] + D /\ IsApart(s, last, L, D)
      BY <1>2, <2>5
    <3>4. s[last] \in Nat
      BY <1>2, <3>3
    <3>5. i + (x - L) < last /\ n - 1 \in 0 .. len
      BY <2>3, <2>5, <2>8, <3>3
    <3>6. s[last] >= s[i] + (n - 1) * D
      <4>1. i + (n - 1) * L < last
        BY <3>2, <3>5
      <4>2. PICK m \in Nat : m = n - 1
        BY <3>5
      <4>3. m \in 0 .. Len(s) /\ i \in DOMAIN s /\ i + m * L < last
        BY <1>2, <2>5, <3>5, <4>1, <4>2
      <4>4. s[last] >= s[i] + m * D
        BY <3>3, <4>3 DEF IsApart
      <4>. QED
        BY <4>2, <4>4
    <3>7. s[last] >= s[i] + (y - D)
      BY <3>2, <3>6
    <3>8. t >= s[i] + y
      <4>1. PICK a \in Nat : a = s[i]
        BY <2>6
      <4>2. PICK b \in Nat : b = s[last]
        BY <3>4
      <4>3. b >= a + (y - D) /\ t >= b + D
        BY <3>3, <3>7, <4>1, <4>2
      <4>4. t >= a + y
        BY <4>3
      <4>. QED
        BY <4>1, <4>4
    <3>. QED
      BY <2>6, <3>1, <3>8
  <2>. QED
    BY <2>5, <2>7, <2>8
<1>. QED
  BY <1>1, <1>3 DEF IsApart, r

\* What Admit does to the window of a bucket: one call more, or a new window once
\* the last is over.
LEMMA AdmitWindow ==
    ASSUME RequestInv, WindowsApart, NEW c \in Calls, Admitted(c)
    PROVE  \E k \in Keys :
              /\ LimitOf[k] > 0
              /\ served' = [served EXCEPT ![k] = Append(served[k], clock)]
              /\ \A j \in Keys \ {k} : window'[j] = window[j]
              /\ \/ /\ window[k] # None /\ window[k].count < LimitOf[k]
                    /\ window'[k] # None /\ window'[k].until = window[k].until
                    /\ window'[k].count = window[k].count + 1
                 \/ /\ window[k] # None => clock > window[k].until
                    /\ window'[k] # None /\ clock <= window'[k].until - Win + Lag
                    /\ window'[k].count = 1
<1>. DEFINE k == asked[c].key
            now == asked[c].now
            slot == NextSlot(k, now)
<1>1. /\ asked[c] # None /\ ~(Running(k, now) /\ Full(k))
      /\ window' = [window EXCEPT ![k] = slot]
      /\ served' = [served EXCEPT ![Subject(req[c])] = Append(@, clock)]
  BY DEF Admitted, Admit
<1>2. k \in Keys /\ now \in Nat /\ k = Subject(req[c])
  BY <1>1, Waiting
<1>3. /\ hits \in [Keys -> Slots \cup {None}] /\ window \in [Keys -> Slots \cup {None}]
      /\ served \in [Keys -> Seq(Nat)]
      /\ clock \in Nat /\ now <= clock /\ clock <= now + Lag /\ LimitOf[k] > 0
  BY <1>1 DEF RequestInv, LimInv, LimTypeOK, RecentlyRead, TypeOK
<1>4. served' = [served EXCEPT ![k] = Append(served[k], clock)]
  BY <1>1, <1>2
<1>5. window'[k] = slot /\ \A j \in Keys \ {k} : window'[j] = window[j]
  BY <1>1, <1>2, <1>3
<1>6. CASE Running(k, now)
  <2>1. hits[k] # None /\ hits[k] = window[k] /\ hits[k].count < LimitOf[k]
    <3>1. hits[k] # None /\ hits[k] = window[k]
      BY <1>2, <1>6 DEF Running, RequestInv, LimInv, SlotIsWindow
    <3>2. hits[k].count \in Nat /\ LimitOf[k] \in Nat /\ ~(hits[k].count >= LimitOf[k])
      BY <1>1, <1>2, <1>3, <1>6, <3>1, LimiterAssumption DEF Full, Slots
    <3>. QED
      BY <3>1, <3>2
  <2>2. slot # None /\ slot.count = hits[k].count + 1 /\ slot.until = hits[k].until
    BY <1>2, <1>3, <1>6, NextSlotIsSlot, NoneIsNothing
  <2>. HIDE DEF k, now, slot
  <2>. QED
    BY <1>2, <1>3, <1>4, <1>5, <2>1, <2>2 DEF k
<1>7. CASE ~Running(k, now)
  <2>1. slot # None /\ slot.count = 1 /\ slot.until = now + Win
    BY <1>2, <1>3, <1>7, NextSlotIsSlot, NoneIsNothing
  <2>2. ASSUME window[k] # None PROVE clock > window[k].until
    <3>1. CASE hits[k] = None
      BY <1>2, <2>2, <3>1 DEF RequestInv, LimInv, SlotIsWindow
    <3>2. CASE hits[k] # None
      <4>1. hits[k] = window[k] /\ hits[k].until \in Int
        BY <1>2, <1>3, <3>2 DEF RequestInv, LimInv, SlotIsWindow, Slots
      <4>. QED
        BY <1>2, <1>3, <1>7, <3>2, <4>1 DEF Running
    <3>. QED
      BY <3>1, <3>2
  <2>3. clock <= slot.until - Win + Lag
    BY <1>2, <1>3, <2>1, LimiterAssumption
  <2>. HIDE DEF k, now, slot
  <2>. QED
    BY <1>2, <1>3, <1>4, <1>5, <2>1, <2>2, <2>3 DEF k
<1>. QED
  BY <1>6, <1>7

LEMMA AdmittedWindows ==
    ASSUME RequestInv, InOrder, WindowsApart, NEW c \in Calls, Admitted(c)
    PROVE  InOrder' /\ WindowsApart'
<1>. DEFINE Used(k) == /\ window[k] # None /\ window[k].count < LimitOf[k]
                       /\ window'[k] # None /\ window'[k].until = window[k].until
                       /\ window'[k].count = window[k].count + 1
            New(k) == /\ window[k] # None => clock > window[k].until
                      /\ window'[k] # None /\ clock <= window'[k].until - Win + Lag
                      /\ window'[k].count = 1
            D == Win - Lag + 1
<1>1. PICK k \in Keys : /\ LimitOf[k] > 0
                        /\ served' = [served EXCEPT ![k] = Append(served[k], clock)]
                        /\ \A j \in Keys \ {k} : window'[j] = window[j]
                        /\ Used(k) \/ New(k)
  BY AdmitWindow
<1>. HIDE DEF Used, New
<1>2. /\ served \in [Keys -> Seq(Nat)] /\ clock \in Nat /\ clock' = clock
      /\ window[k] # None => window[k].count \in Nat /\ window[k].until \in Int
  BY DEF RequestInv, LimInv, LimTypeOK, TypeOK, Slots, Admitted, Admit
<1>3. LimitOf[k] \in Nat \ {0} /\ Win \in Nat /\ Lag \in Nat /\ D \in Nat
  BY <1>1, Numbers
<1>4. /\ served[k] \in Seq(Nat)
      /\ \A j \in DOMAIN served[k] :
           served[k][j] <= clock /\ \A i \in 1 .. j : served[k][i] <= served[k][j]
  BY <1>2 DEF InOrder
<1>5. /\ served'[k] = Append(served[k], clock)
      /\ \A j \in Keys \ {k} : served'[j] = served[j]
  BY <1>1, <1>2
<1>6. InOrder'
  <2>. SUFFICES ASSUME NEW j \in Keys, NEW n \in DOMAIN served'[j]
                PROVE  /\ served'[j][n] <= clock
                       /\ \A i \in 1 .. n : served'[j][i] <= served'[j][n]
    BY <1>2 DEF InOrder
  <2>1. CASE j = k
    BY <1>2, <1>4, <1>5, <2>1, AppendInOrder
  <2>2. CASE j # k
    BY <1>5, <2>2 DEF InOrder
  <2>. QED
    BY <2>1, <2>2
<1>7. /\ Len(served'[k]) = Len(served[k]) + 1
      /\ served'[k][Len(served[k]) + 1] = clock
      /\ \A i \in 1 .. Len(served[k]) : served'[k][i] = served[k][i]
  BY <1>2, <1>4, <1>5
<1>8. /\ window[k] = None => served[k] = <<>>
      /\ window[k] # None =>
            /\ window[k].count \in 1 .. LimitOf[k] /\ window[k].count <= Len(served[k])
            /\ Opened(k) = Len(served[k]) - window[k].count + 1
            /\ served[k][Opened(k)] <= window[k].until - Win + Lag
            /\ IsApart(served[k], Opened(k), LimitOf[k], D)
  BY ApartIs DEF WindowsApart, Opened
<1>9. /\ window'[k] # None
      /\ window'[k].count \in 1 .. LimitOf[k] /\ window'[k].count <= Len(served'[k])
      /\ served'[k][Opened(k)'] <= window'[k].until - Win + Lag
      /\ IsApart(served'[k], Opened(k)', LimitOf[k], D)
  <2>. PICK len \in Nat : len = Len(served[k])
    BY <1>4
  <2>. PICK lim \in Nat \ {0} : lim = LimitOf[k]
    BY <1>3
  <2>. HIDE DEF D
  <2>1. CASE Used(k)
    <3>1. /\ window[k] # None /\ window[k].count < lim
          /\ window'[k] # None /\ window'[k].until = window[k].until
          /\ window'[k].count = window[k].count + 1
      BY <2>1 DEF Used
    <3>2. PICK count \in Nat : count = window[k].count
      BY <1>2, <3>1
    <3>3. count >= 1 /\ count <= len /\ count < lim
      BY <1>8, <3>1, <3>2
    <3>4. window'[k].count = count + 1 /\ Len(served'[k]) = len + 1
      BY <1>7, <3>1, <3>2
    <3>5. Opened(k) = len - count + 1
      BY <3>2 DEF Opened
    <3>6. Opened(k)' = Opened(k) /\ Opened(k) \in 1 .. len
      <4>1. Opened(k)' = (len + 1) - (count + 1) + 1
        BY <3>4 DEF Opened
      <4>2. (len + 1) - (count + 1) + 1 = len - count + 1 /\ len - count + 1 \in 1 .. len
        BY <3>3
      <4>. QED
        BY <3>5, <4>1, <4>2
    <3>7. window'[k].count \in 1 .. LimitOf[k] /\ window'[k].count <= Len(served'[k])
      BY <3>3, <3>4
    <3>8. served'[k][Opened(k)'] <= window'[k].until - Win + Lag
      <4>1. served'[k][Opened(k)'] = served[k][Opened(k)]
        BY <1>7, <3>6
      <4>2. served[k][Opened(k)] <= window[k].until - Win + Lag
        BY <1>8, <3>1
      <4>. QED
        BY <3>1, <4>1, <4>2
    <3>9. IsApart(served[k], Opened(k), LimitOf[k], D)
      BY <1>8, <3>1
    <3>10. IsApart(served'[k], Opened(k)', LimitOf[k], D)
      <4>1. IsApart(Append(served[k], clock), Opened(k), LimitOf[k], D)
        BY <1>2, <1>3, <1>4, <3>6, <3>9, ApartUse
      <4>. QED
        BY <1>5, <3>6, <4>1
    <3>. QED
      BY <3>1, <3>7, <3>8, <3>10
  <2>2. CASE New(k)
    <3>1. /\ window[k] # None => clock > window[k].until
          /\ window'[k] # None /\ clock <= window'[k].until - Win + Lag
          /\ window'[k].count = 1
      BY <2>2 DEF New
    <3>2. Len(served'[k]) = len + 1
      BY <1>7
    <3>3. Opened(k)' = len + 1
      <4>1. Opened(k)' = len + 1 - 1 + 1
        BY <3>1, <3>2 DEF Opened
      <4>. QED
        BY <4>1
    <3>4. window'[k].count \in 1 .. LimitOf[k] /\ window'[k].count <= Len(served'[k])
      BY <3>1, <3>2
    <3>5. ASSUME served[k] # <<>>
          PROVE  /\ Opened(k) \in 1 .. Len(served[k])
                 /\ Len(served[k]) + 1 - LimitOf[k] <= Opened(k)
                 /\ clock >= served[k][Opened(k)] + D
                 /\ IsApart(served[k], Opened(k), LimitOf[k], D)
      <4>1. window[k] # None
        BY <1>8, <3>5
      <4>2. PICK count \in Nat : count = window[k].count
        BY <1>2, <4>1
      <4>3. count >= 1 /\ count <= len /\ count <= lim
        BY <1>8, <4>1, <4>2
      <4>4. Opened(k) = len - count + 1
        BY <4>2 DEF Opened
      <4>5. Opened(k) \in 1 .. len /\ len + 1 - lim <= Opened(k)
        BY <4>3, <4>4
      <4>6. PICK until \in Int : until = window[k].until
        BY <1>2, <4>1
      <4>7. PICK s \in Nat : s = served[k][Opened(k)]
        BY <1>4, <4>5
      <4>8. clock > until /\ s <= until - Win + Lag
        BY <1>8, <3>1, <4>1, <4>6, <4>7
      <4>9. clock >= s + D
        BY <1>2, <1>3, <4>8 DEF D
      <4>10. IsApart(served[k], Opened(k), LimitOf[k], D)
        BY <1>8, <4>1
      <4>. QED
        BY <4>5, <4>7, <4>9, <4>10
    <3>6. \A i \in DOMAIN served[k] : served[k][i] <= clock
      BY <1>4
    <3>7. PICK last \in Int :
            served[k] # <<>> => /\ last \in 1 .. Len(served[k])
                                /\ Len(served[k]) + 1 - LimitOf[k] <= last
                                /\ clock >= served[k][last] + D
                                /\ IsApart(served[k], last, LimitOf[k], D)
      <4>1. CASE served[k] = <<>>
        BY <4>1
      <4>2. CASE served[k] # <<>>
        <5>1. Opened(k) \in Int
          BY <3>5, <4>2
        <5>. QED
          BY <3>5, <4>2, <5>1
      <4>. QED
        BY <4>1, <4>2
    <3>8. IsApart(served'[k], Opened(k)', LimitOf[k], D)
      <4>1. IsApart(Append(served[k], clock), Len(served[k]) + 1, LimitOf[k], D)
        BY <1>2, <1>3, <1>4, <3>6, <3>7, ApartOpen
      <4>. QED
        BY <1>5, <3>3, <4>1
    <3>9. served'[k][Opened(k)'] = clock
      BY <1>7, <3>3
    <3>. QED
      BY <3>1, <3>4, <3>8, <3>9
  <2>. QED
    BY <1>1, <2>1, <2>2
<1>10. WindowsApart'
  <2>1. ASSUME NEW j \in Keys, j # k
        PROVE  /\ window'[j] = None => served'[j] = <<>>
               /\ window'[j] # None =>
                    /\ window'[j].count \in 1 .. LimitOf[j] /\ window'[j].count <= Len(served'[j])
                    /\ served'[j][Opened(j)'] <= window'[j].until - Win + Lag
                    /\ Apart(j)'
    <3>1. served'[j] = served[j] /\ window'[j] = window[j]
      BY <1>1, <1>5, <2>1
    <3>. QED
      BY <3>1 DEF WindowsApart, Apart, Opened
  <2>2. Apart(k)'
    BY <1>9 DEF Apart, IsApart
  <2>. QED
    BY <1>9, <2>1, <2>2 DEF WindowsApart
<1>. QED
  BY <1>6, <1>10

\* Whatever lets no request in leaves time to go on, at most.
LEMMA OthersWindows ==
    ASSUME RequestInv, InOrder, WindowsApart, [Next]_vars, ~\E c \in Calls : Admitted(c)
    PROVE  InOrder' /\ WindowsApart'
<1>1. TypeOK /\ clock \in Nat
  BY DEF RequestInv, LimInv, LimTypeOK
<1>2. UNCHANGED <<window, served>> /\ clock' \in Nat /\ clock <= clock'
  <2>1. CASE \E c \in Calls, r \in Routes, who \in Callers : Arrive(c, r, who)
    BY <1>1, <2>1 DEF Arrive, TooLarge, Shed, Unauthorized, Unlimited, AskLimiter, ReadClock,
       limiterVars
  <2>2. CASE \E c \in Calls : Refused(c) \/ Handle(c) \/ Panic(c) \/ Count(c)
    BY <1>1, <2>2 DEF Refused, Refuse, Handle, Panic, Count, limiterVars
  <2>3. CASE TakeSample
    BY <1>1, <2>3 DEF TakeSample, limiterVars
  <2>4. CASE Background
    BY <1>1, <2>4 DEF Background, Tick, GCRead, GCSweep
  <2>5. CASE UNCHANGED vars
    BY <1>1, <2>5 DEF vars, limiterVars
  <2>. QED
    BY <2>1, <2>2, <2>3, <2>4, <2>5 DEF Next
<1>. QED
  BY <1>1, <1>2, WindowsKept

\* All that the limiter promises at any time: what has been let in is in order, and
\* windows that were full lie apart.
THEOREM AdmissionInvariant == Spec => []AdmissionInv
<1>1. Init => AdmissionInv
  BY InitInv, QuotaInit DEF AdmissionInv
<1>2. AdmissionInv /\ [Next]_vars => AdmissionInv'
  <2>. SUFFICES ASSUME AdmissionInv, [Next]_vars PROVE InOrder' /\ WindowsApart'
    BY NextInv DEF AdmissionInv
  <2>. QED
    BY AdmittedWindows, OthersWindows DEF AdmissionInv
<1>. QED
  BY <1>1, <1>2, PTL DEF Spec

LEMMA Division ==
    ASSUME NEW w \in Nat, NEW d \in Nat \ {0}
    PROVE  w \div d \in Nat /\ (1 + w \div d) * d > w
OBVIOUS

\* Of a list in order whose last window opened among the last L, no more than
\* 2 + W \div D times L are of the last W: one before those would be W ago.
LEMMA CountBound ==
    ASSUME NEW s \in Seq(Nat), NEW t \in Nat, NEW L \in Nat \ {0}, NEW D \in Nat \ {0},
           NEW W \in Nat, NEW first \in 1 .. Len(s),
           Len(s) + 1 - L <= first, s[first] <= t, IsApart(s, first, L, D)
    PROVE  CountFrom(s, t - W) <= (2 + W \div D) * L
<1>. DEFINE S == {i \in DOMAIN s : s[i] >= t - W}
<1>1. PICK len \in Nat : len = Len(s)
  OBVIOUS
<1>2. PICK n \in Nat : n = 1 + W \div D
  <2>1. W \div D \in Nat
    BY Division
  <2>. QED
    BY <2>1
<1>3. PICK x \in Nat : x = n * L
  BY <1>2, Products
<1>4. PICK y \in Nat : y = n * D
  BY <1>2, Products
<1>5. y > W
  BY <1>2, <1>4, Division
<1>6. (2 + W \div D) * L = x + L
  <2>1. (2 + W \div D) = n + 1
    BY <1>2, Division
  <2>2. (n + 1) * L = n * L + L
    OBVIOUS
  <2>. QED
    BY <1>3, <2>1, <2>2
<1>7. S \subseteq (len - (x + L) + 1) .. len
  <2>. SUFFICES ASSUME NEW i \in DOMAIN s, s[i] >= t - W, i <= len - (x + L) PROVE FALSE
    BY <1>1
  <2>1. i \in 1 .. len /\ s[i] \in Nat
    BY SMTT(30), <1>1
  <2>2. i + x < first
    BY <1>1, <2>1
  <2>3. n <= x
    BY SMTT(30), <1>2, <1>3, Products
  <2>4. n \in 0 .. Len(s)
    BY <1>1, <1>2, <2>1, <2>2, <2>3
  <2>5. i + n * L < first
    BY <1>3, <2>2
  <2>6. s[first] >= s[i] + n * D
    BY <2>4, <2>5 DEF IsApart
  <2>7. PICK a \in Nat : a = s[i]
    BY <2>1
  <2>8. PICK b \in Nat : b = s[first]
    OBVIOUS
  <2>9. b >= a + y /\ b <= t /\ a >= t - W
    BY <1>4, <2>6, <2>7, <2>8
  <2>. QED
    BY <1>5, <2>9
<1>8. /\ IsFiniteSet((len - (x + L) + 1) .. len)
      /\ Cardinality((len - (x + L) + 1) .. len) = x + L
  <2>1. PICK a \in Int : a = len - (x + L) + 1
    OBVIOUS
  <2>2. ~(a > len) /\ len - a + 1 = x + L
    BY <2>1
  <2>3. IsFiniteSet(a .. len) /\ Cardinality(a .. len) = IF a > len THEN 0 ELSE len - a + 1
    <3>. len \in Int
      OBVIOUS
    <3>. QED
      BY FS_Interval
  <2>. QED
    BY <2>1, <2>2, <2>3
<1>9. Cardinality(S) <= x + L
  <2>. HIDE DEF S
  <2>. QED
    BY <1>7, <1>8, FS_Subset
<1>. QED
  BY <1>6, <1>9 DEF CountFrom

\* QuotaKept, for all limits, windows and waits for the lock.
THEOREM QuotaIsKept == Spec => []QuotaKept
<1>1. AdmissionInv => QuotaKept
  <2>. SUFFICES ASSUME AdmissionInv, NEW k \in Keys, LimitOf[k] > 0
                PROVE  CountFrom(served[k], clock - Win)
                         <= (2 + Win \div (Win - Lag + 1)) * LimitOf[k]
    BY ServedCounts DEF QuotaKept
  <2>1. /\ LimitOf[k] \in Nat \ {0} /\ Win \in Nat /\ Win - Lag + 1 \in Nat \ {0}
    BY Numbers
  <2>2. clock \in Nat /\ served[k] \in Seq(Nat)
    BY DEF AdmissionInv, RequestInv, LimInv, LimTypeOK, TypeOK
  <2>3. CASE window[k] = None
    <3>1. served[k] = <<>>
      BY <2>3 DEF AdmissionInv, WindowsApart
    <3>2. {i \in DOMAIN served[k] : served[k][i] >= clock - Win} = {}
      BY <3>1
    <3>3. CountFrom(served[k], clock - Win) = 0
      BY <3>2, FS_EmptySet DEF CountFrom
    <3>4. Win \div (Win - Lag + 1) \in Nat
      BY <2>1, Division
    <3>5. (2 + Win \div (Win - Lag + 1)) * LimitOf[k] \in Nat
      <4>1. 2 + Win \div (Win - Lag + 1) \in Nat
        BY <3>4
      <4>. QED
        BY <2>1, <4>1, Products
    <3>. QED
      BY <3>3, <3>5
  <2>4. CASE window[k] # None
    <3>1. /\ window[k].count \in 1 .. LimitOf[k] /\ window[k].count <= Len(served[k])
          /\ IsApart(served[k], Opened(k), LimitOf[k], Win - Lag + 1)
      BY <2>4, ApartIs DEF AdmissionInv, WindowsApart
    <3>2. PICK len \in Nat : len = Len(served[k])
      BY <2>2
    <3>3. PICK count \in Nat : count = window[k].count
      BY <2>1, <3>1
    <3>4. Opened(k) = len - count + 1
      BY <3>2, <3>3 DEF Opened
    <3>5. Opened(k) \in 1 .. Len(served[k]) /\ Len(served[k]) + 1 - LimitOf[k] <= Opened(k)
      <4>1. PICK limit \in Nat : limit = LimitOf[k]
        BY <2>1
      <4>2. count \in 1 .. limit /\ count <= len
        BY <3>1, <3>2, <3>3, <4>1
      <4>3. len - count + 1 \in 1 .. len /\ len + 1 - limit <= len - count + 1
        BY <4>2
      <4>. QED
        BY <3>2, <3>4, <4>1, <4>3
    <3>6. served[k][Opened(k)] <= clock
      BY <2>2, <3>5 DEF AdmissionInv, InOrder
    <3>. QED
      BY <2>1, <2>2, <3>1, <3>5, <3>6, CountBound
  <2>. QED
    BY <2>3, <2>4
<1>. QED
  BY <1>1, AdmissionInvariant, PTL

-----------------------------------------------------------------------------
(* Sums of rates *)

\* Induction, said of a set.
LEMMA NatSetInduction ==
    ASSUME NEW T \in SUBSET Nat, 0 \in T, \A n \in T : n + 1 \in T
    PROVE  T = Nat
<1>. SUFFICES ASSUME Nat \ T # {} PROVE FALSE
  OBVIOUS
<1>1. PICK x \in Nat \ T : \A y \in Nat \ T : ~ (<<y, x>> \in OpToRel(<, Nat))
  BY NatLessThanWellFounded, WFMin
<1>2. x - 1 \in Nat \ T
  OBVIOUS
<1>3. <<x-1, x>> \in OpToRel(<, Nat)
  BY <1>2 DEF OpToRel
<1>. QED
  BY <1>1, <1>2, <1>3

\* The sums of the first 0, 1, .. n rates.
Loop(rates, first, n, f) ==
    [i \in 0 .. n |-> IF i = 0 THEN 0 ELSE f[i - 1] + rates[first + i - 1]]

IsLoop(rates, first, n, f) == f = Loop(rates, first, n, f)

LEMMA LoopIs ==
    ASSUME NEW rates, NEW first \in Int, NEW n \in Nat, NEW f, IsLoop(rates, first, n, f)
    PROVE  /\ f[0] = 0
           /\ \A i \in 0 .. n : i < n => f[i + 1] = f[i] + rates[first + i]
<1>1. f[0] = Loop(rates, first, n, f)[0]
  BY DEF IsLoop
<1>2. ASSUME NEW i \in 0 .. n, i < n PROVE f[i + 1] = f[i] + rates[first + i]
  <2>1. f[i + 1] = Loop(rates, first, n, f)[i + 1]
    BY DEF IsLoop
  <2>2. i + 1 \in 0 .. n /\ i + 1 # 0 /\ (i + 1) - 1 = i
    BY <1>2
  <2>3. Loop(rates, first, n, f)[i + 1] = f[(i + 1) - 1] + rates[first + (i + 1) - 1]
    BY <2>2 DEF Loop
  <2>. QED
    BY <2>1, <2>2, <2>3
<1>. QED
  BY <1>1, <1>2 DEF Loop

LEMMA LoopExists ==
    ASSUME NEW rates, NEW first \in Int
    PROVE  \A n \in Nat : \E f : IsLoop(rates, first, n, f)
<1>. DEFINE T == {n \in Nat : \E f : IsLoop(rates, first, n, f)}
<1>1. 0 \in T
  <2>. DEFINE f == [i \in 0 .. 0 |-> 0]
  <2>1. IsLoop(rates, first, 0, f)
    BY DEF IsLoop, Loop
  <2>. QED
    BY <2>1
<1>2. ASSUME NEW n \in T PROVE n + 1 \in T
  <2>1. PICK f : IsLoop(rates, first, n, f)
    OBVIOUS
  <2>2. f[0] = 0 /\ \A i \in 0 .. n : i < n => f[i + 1] = f[i] + rates[first + i]
    BY <2>1, LoopIs
  <2>. DEFINE g == [i \in 0 .. n + 1 |-> IF i = n + 1 THEN f[n] + rates[first + n] ELSE f[i]]
  <2>3. \A i \in 0 .. n + 1 : g[i] = Loop(rates, first, n + 1, g)[i]
    <3>. TAKE i \in 0 .. n + 1
    <3>1. CASE i = 0
      BY <2>2, <3>1 DEF Loop
    <3>2. CASE i # 0
      <4>1. i - 1 \in 0 .. n /\ (i - 1) + 1 = i /\ first + (i - 1) = first + i - 1
        BY <3>2
      <4>2. g[i - 1] = f[i - 1]
        BY <4>1
      <4>3. Loop(rates, first, n + 1, g)[i] = g[i - 1] + rates[first + i - 1]
        BY <3>2 DEF Loop
      <4>4. CASE i = n + 1
        BY <4>1, <4>2, <4>3, <4>4
      <4>5. CASE i # n + 1
        <5>1. i - 1 < n
          BY <4>1, <4>5
        <5>2. f[i] = f[i - 1] + rates[first + (i - 1)]
          BY <2>2, <4>1, <5>1
        <5>3. g[i] = f[i]
          BY <4>5
        <5>. QED
          BY <4>1, <4>2, <4>3, <5>2, <5>3
      <4>. QED
        BY <4>4, <4>5
    <3>. QED
      BY <3>1, <3>2
  <2>4. IsLoop(rates, first, n + 1, g)
    BY <2>3 DEF IsLoop, Loop
  <2>. QED
    BY <2>4
<1>3. T = Nat
  <2>. HIDE DEF T
  <2>1. T \subseteq Nat
    BY DEF T
  <2>. QED
    BY <1>1, <1>2, <2>1, NatSetInduction
<1>. QED
  BY <1>3

\* However far a loop goes, its sums are the same.
LEMMA LoopUnique ==
    ASSUME NEW rates, NEW first \in Int, NEW n \in Nat, NEW m \in Nat, n <= m,
           NEW f, IsLoop(rates, first, n, f), NEW g, IsLoop(rates, first, m, g)
    PROVE  f[n] = g[n]
<1>1. /\ f[0] = 0 /\ \A i \in 0 .. n : i < n => f[i + 1] = f[i] + rates[first + i]
      /\ g[0] = 0 /\ \A i \in 0 .. m : i < m => g[i + 1] = g[i] + rates[first + i]
  BY LoopIs
<1>. DEFINE T == {k \in Nat : k <= n => f[k] = g[k]}
<1>2. 0 \in T
  BY <1>1
<1>3. ASSUME NEW k \in T PROVE k + 1 \in T
  BY <1>1
<1>4. T = Nat
  <2>. HIDE DEF T
  <2>1. T \subseteq Nat
    BY DEF T
  <2>. QED
    BY <1>2, <1>3, <2>1, NatSetInduction
<1>. QED
  BY <1>4

LEMMA TotalStep ==
    ASSUME NEW rates, NEW first \in Int, NEW n \in Nat
    PROVE  /\ Total(rates, first, 0) = 0
           /\ Total(rates, first, n + 1) = Total(rates, first, n) + rates[first + n]
<1>. DEFINE sum(k) == CHOOSE f : IsLoop(rates, first, k, f)
<1>1. \A k \in Nat : Total(rates, first, k) = sum(k)[k]
  BY DEF Total, IsLoop, Loop
<1>2. \A k \in Nat : IsLoop(rates, first, k, sum(k))
  BY LoopExists
<1>. HIDE DEF sum
<1>3. sum(0)[0] = 0
  <2>1. IsLoop(rates, first, 0, sum(0))
    BY <1>2
  <2>. QED
    BY <2>1, LoopIs
<1>4. sum(n)[n] = sum(n + 1)[n]
  BY <1>2, LoopUnique
<1>5. sum(n + 1)[n + 1] = sum(n + 1)[n] + rates[first + n]
  BY <1>2, LoopIs
<1>. QED
  BY <1>1, <1>3, <1>4, <1>5

\* Sums of the same rates are the same, wherever they are kept.
LEMMA TotalSame ==
    ASSUME NEW a, NEW i \in Int, NEW b, NEW j \in Int, NEW n \in Nat,
           \A k \in Nat : k < n => a[i + k] = b[j + k]
    PROVE  Total(a, i, n) = Total(b, j, n)
<1>. DEFINE T == {k \in Nat : k <= n => Total(a, i, k) = Total(b, j, k)}
<1>1. 0 \in T
  BY TotalStep
<1>2. ASSUME NEW k \in T PROVE k + 1 \in T
  BY TotalStep
<1>3. T = Nat
  <2>. HIDE DEF T
  <2>1. T \subseteq Nat
    BY DEF T
  <2>. QED
    BY <1>1, <1>2, <2>1, NatSetInduction
<1>. QED
  BY <1>3

LEMMA TotalIsNat ==
    ASSUME NEW a, NEW i \in Int, NEW n \in Nat, \A k \in Nat : k < n => a[i + k] \in Nat
    PROVE  Total(a, i, n) \in Nat
<1>. DEFINE T == {k \in Nat : k <= n => Total(a, i, k) \in Nat}
<1>1. 0 \in T
  BY TotalStep
<1>2. ASSUME NEW k \in T PROVE k + 1 \in T
  BY TotalStep
<1>3. T = Nat
  <2>. HIDE DEF T
  <2>1. T \subseteq Nat
    BY DEF T
  <2>. QED
    BY <1>1, <1>2, <2>1, NatSetInduction
<1>. QED
  BY <1>3

\* A sum without its first rate.
LEMMA TotalFirst ==
    ASSUME NEW a, NEW i \in Int, NEW n \in Nat, \A k \in Nat : k <= n => a[i + k] \in Nat
    PROVE  Total(a, i, n + 1) = a[i] + Total(a, i + 1, n)
<1>. DEFINE T == {k \in Nat : k <= n => Total(a, i, k + 1) = a[i] + Total(a, i + 1, k)}
<1>1. 0 \in T
  <2>1. Total(a, i, 0 + 1) = 0 + a[i + 0] /\ Total(a, i + 1, 0) = 0
    BY TotalStep
  <2>2. a[i + 0] \in Nat /\ i + 0 = i
    <3>1. PICK z \in Nat : z = 0 /\ z <= n
      OBVIOUS
    <3>2. a[i + z] \in Nat
      BY <3>1
    <3>. QED
      BY <3>1, <3>2
  <2>. QED
    BY <2>1, <2>2
<1>2. ASSUME NEW k \in T PROVE k + 1 \in T
  <2>. SUFFICES ASSUME k + 1 <= n
                PROVE  Total(a, i, (k + 1) + 1) = a[i] + Total(a, i + 1, k + 1)
    OBVIOUS
  <2>1. PICK x : x = Total(a, i + 1, k)
    OBVIOUS
  <2>2. x \in Nat
    BY <2>1, TotalIsNat
  <2>3. Total(a, i, (k + 1) + 1) = Total(a, i, k + 1) + a[i + (k + 1)]
    BY TotalStep
  <2>4. Total(a, i + 1, k + 1) = x + a[(i + 1) + k]
    BY <2>1, TotalStep
  <2>5. (i + 1) + k = i + (k + 1) /\ a[i + (k + 1)] \in Nat
    OBVIOUS
  <2>6. a[i] \in Nat
    <3>1. a[i + 0] \in Nat /\ i + 0 = i
      OBVIOUS
    <3>. QED
      BY <3>1
  <2>7. Total(a, i, k + 1) = a[i] + x
    BY <2>1
  <2>. QED
    BY <2>2, <2>3, <2>4, <2>5, <2>6, <2>7
<1>3. T = Nat
  <2>. HIDE DEF T
  <2>1. T \subseteq Nat
    BY DEF T
  <2>. QED
    BY <1>1, <1>2, <2>1, NatSetInduction
<1>. QED
  BY <1>3

\* A sum in which one rate has been replaced.
LEMMA TotalReplaced ==
    ASSUME NEW n \in Nat, NEW ring \in [0 .. n - 1 -> Nat], NEW k \in 0 .. n - 1, NEW v \in Nat
    PROVE  Total([ring EXCEPT ![k] = v], 0, n) = Total(ring, 0, n) - ring[k] + v
<1>. DEFINE new == [ring EXCEPT ![k] = v]
            T == {m \in Nat : m <= n => Total(new, 0, m)
                     = IF k < m THEN Total(ring, 0, m) - ring[k] + v ELSE Total(ring, 0, m)}
<1>0. /\ new[k] = v /\ ring[k] \in Nat
      /\ \A m \in Nat : m < n => ring[m] \in Nat /\ (m # k => new[m] = ring[m])
  OBVIOUS
<1>1. 0 \in T
  BY TotalStep
<1>. HIDE DEF new
<1>2. ASSUME NEW m \in T PROVE m + 1 \in T
  <2>. SUFFICES ASSUME m + 1 <= n
                PROVE  Total(new, 0, m + 1) = IF k < m + 1 THEN Total(ring, 0, m + 1) - ring[k] + v
                                              ELSE Total(ring, 0, m + 1)
    OBVIOUS
  <2>1. PICK x : x = Total(ring, 0, m)
    OBVIOUS
  <2>2. x \in Nat
    BY <1>0, <2>1, TotalIsNat
  <2>3. Total(new, 0, m + 1) = Total(new, 0, m) + new[m] /\ Total(ring, 0, m + 1) = x + ring[m]
    <3>1. PICK z \in Int : z = 0
      OBVIOUS
    <3>2. Total(new, z, m + 1) = Total(new, z, m) + new[z + m]
      BY TotalStep
    <3>3. Total(ring, z, m + 1) = Total(ring, z, m) + ring[z + m]
      BY TotalStep
    <3>4. z + m = m
      BY <3>1
    <3>. QED
      BY <2>1, <3>1, <3>2, <3>3, <3>4
  <2>4. Total(new, 0, m) = IF k < m THEN x - ring[k] + v ELSE x
    BY <2>1
  <2>5. ring[m] \in Nat /\ new[m] = IF m = k THEN v ELSE ring[m]
    BY <1>0
  <2>. QED
    BY <1>0, <2>2, <2>3, <2>4, <2>5
<1>3. T = Nat
  <2>. HIDE DEF T
  <2>1. T \subseteq Nat
    BY DEF T
  <2>. QED
    BY <1>1, <1>2, <2>1, NatSetInduction
<1>4. Total(new, 0, n) = Total(ring, 0, n) - ring[k] + v
  BY <1>3
<1>. QED
  BY <1>4 DEF new

-----------------------------------------------------------------------------
(* The ring of the watchdog *)

LEMMA RingInit == Init => RingInv
<1>. SUFFICES ASSUME Init PROVE RingInv
  OBVIOUS
<1>1. filled = 0 /\ idx = 0 /\ lately = <<>> /\ degraded = FALSE /\ Window \in Nat
  BY WatchdogAssumption DEF Init, WdInit
<1>2. Total(samples, 0, 0) = 0 /\ Total(lately, 1, 0) = 0
  BY TotalStep
<1>3. MaxRate * Scale * 0 = 0
  BY WatchdogAssumption
<1>4. (Total(samples, 0, 0) > MaxRate * Scale * 0) = FALSE
  BY <1>2, <1>3
<1>5. degraded = Above(samples, filled)
  BY <1>1, <1>4 DEF Above
<1>. QED
  BY <1>1, <1>2, <1>5 DEF RingInv

LEMMA RoundTheRing ==
    ASSUME NEW n \in Nat \ {0}, NEW i \in 0 .. n - 1
    PROVE  (i + 1) % n = IF i + 1 < n THEN i + 1 ELSE 0
<1>1. CASE i + 1 < n
  <2>. DEFINE q == (i + 1) \div n
  <2>1. q \in Int /\ q * n <= i + 1 /\ i + 1 < q * n + n /\ (i + 1) % n = i + 1 - q * n
    BY SMTT(30)
  <2>. HIDE DEF q
  <2>2. q >= 1 => q * n >= n
    BY <2>1, SMTT(30)
  <2>3. q <= -1 => q * n + n <= 0
    BY <2>1, SMTT(30)
  <2>4. q = 0
    BY <1>1, <2>1, <2>2, <2>3
  <2>. QED
    BY <1>1, <2>1, <2>4
<1>2. CASE ~(i + 1 < n)
  <2>1. i + 1 = n
    BY <1>2
  <2>. QED
    BY <1>2, <2>1
<1>. QED
  BY <1>1, <1>2

LEMMA RingKept ==
    ASSUME RingInv, UNCHANGED <<samples, idx, filled, degraded, lately>> PROVE RingInv'
BY DEF RingInv, Place, Above

\* The oldest rate leaves the ring where the new one comes in.
LEMMA SampleRing ==
    ASSUME WdTypeOK, RingInv, NEW gap \in Gaps, Sample(gap) PROVE RingInv'
<1>1. Window \in Nat /\ Window > 0
  BY WatchdogAssumption
<1>2. PICK rate \in Nat : rate = Rate(fresh, gap)
  BY RateIsNat, <1>1, WatchdogAssumption DEF WdTypeOK
<1>3. /\ samples' = [samples EXCEPT ![idx] = rate]
      /\ lately' = (IF Len(lately) < Window THEN lately ELSE Tail(lately)) \o <<rate>>
      /\ idx' = NextIdx /\ filled' = NextFilled
      /\ degraded' = Above(samples', filled')
  BY <1>2 DEF Sample
<1>4. /\ samples \in [0 .. Window - 1 -> Nat] /\ lately \in Seq(Nat)
      /\ idx \in 0 .. Window - 1 /\ filled \in 0 .. Window /\ Len(lately) = filled
  BY DEF WdTypeOK, RingInv
<1>5. /\ \A j \in 1 .. filled : lately[j] = samples[Place(j)]
      /\ filled < Window => idx = filled
      /\ Total(samples, 0, filled) = Total(lately, 1, filled)
  BY DEF RingInv
<1>6. idx' = IF idx + 1 < Window THEN idx + 1 ELSE 0
  <2>1. Window \in Nat \ {0} /\ idx \in 0 .. Window - 1 /\ idx' = (idx + 1) % Window
    BY <1>1, <1>3, <1>4 DEF NextIdx
  <2>. QED
    BY <2>1, RoundTheRing
<1>7. /\ Len(lately') = filled'
      /\ filled' < Window => idx' = filled'
      /\ \A j \in 1 .. filled' : lately'[j] = samples'[Place(j)']
      /\ Total(samples', 0, filled') = Total(lately', 1, filled')
  <2>1. CASE filled < Window
    <3>1. /\ filled' = filled + 1 /\ lately' = lately \o <<rate>> /\ idx = filled
          /\ filled' < Window => idx' = filled'
          /\ filled' = Window => idx' = 0
      BY <1>1, <1>3, <1>4, <1>5, <1>6, <2>1 DEF NextFilled
    <3>2. /\ Len(lately') = filled + 1 /\ lately'[filled + 1] = rate
          /\ \A j \in 1 .. filled : lately'[j] = lately[j]
      <4>1. /\ Len(lately \o <<rate>>) = Len(lately) + 1
            /\ (lately \o <<rate>>)[Len(lately) + 1] = rate
            /\ \A j \in 1 .. Len(lately) : (lately \o <<rate>>)[j] = lately[j]
        BY <1>4
      <4>. QED
        BY <1>4, <3>1, <4>1
    <3>3. samples'[filled] = rate /\ \A i \in 0 .. filled - 1 : samples'[i] = samples[i]
      BY <1>3, <1>4, <2>1, <3>1
    <3>4. \A j \in 1 .. filled : Place(j) = j - 1
      BY <1>1, <1>4, <2>1 DEF Place
    <3>5. \A j \in 1 .. filled + 1 : Place(j)' = j - 1
      <4>. TAKE j \in 1 .. filled + 1
      <4>1. CASE filled' < Window
        BY <1>1, <1>4, <2>1, <3>1, <4>1 DEF Place
      <4>2. CASE ~(filled' < Window)
        BY <1>1, <1>4, <2>1, <3>1, <4>2 DEF Place
      <4>. QED
        BY <4>1, <4>2
    <3>6. \A j \in 1 .. filled' : lately'[j] = samples'[Place(j)']
      <4>. TAKE j \in 1 .. filled'
      <4>1. CASE j = filled + 1
        BY <1>4, <3>1, <3>2, <3>3, <3>5, <4>1
      <4>2. CASE j # filled + 1
        <5>1. j \in 1 .. filled /\ j - 1 \in 0 .. filled - 1
          BY <1>4, <3>1, <4>2
        <5>. QED
          BY <1>5, <3>1, <3>2, <3>3, <3>4, <3>5, <5>1
      <4>. QED
        BY <4>1, <4>2
    <3>7. Total(samples', 0, filled + 1) = Total(samples, 0, filled) + rate
      <4>3. PICK z \in Int : z = 0
        OBVIOUS
      <4>1. \A k \in Nat : k < filled => samples'[z + k] = samples[z + k]
        BY <1>4, <3>3, <4>3
      <4>6. filled \in Nat
        BY <1>1, <1>4
      <4>2. Total(samples', z, filled) = Total(samples, z, filled)
        BY <4>1, <4>6, TotalSame
      <4>4. Total(samples', z, filled + 1) = Total(samples', z, filled) + samples'[z + filled]
        BY <4>6, TotalStep
      <4>5. z + filled = filled
        BY <1>4, <4>3
      <4>. QED
        BY <3>3, <4>2, <4>3, <4>4, <4>5
    <3>8. Total(lately', 1, filled + 1) = Total(lately, 1, filled) + rate
      <4>1. \A k \in Nat : k < filled => lately'[1 + k] = lately[1 + k]
        BY <1>4, <3>2
      <4>2. Total(lately', 1, filled) = Total(lately, 1, filled)
        BY <1>4, <4>1, TotalSame
      <4>3. Total(lately', 1, filled + 1) = Total(lately', 1, filled) + lately'[1 + filled]
        BY SMTT(30), <1>4, TotalStep
      <4>. QED
        BY <1>4, <3>2, <4>2, <4>3
    <3>. QED
      BY <1>5, <3>1, <3>2, <3>6, <3>7, <3>8
  <2>2. CASE ~(filled < Window)
    <3>1. filled = Window /\ filled' = Window /\ lately' = Tail(lately) \o <<rate>>
      BY SMTT(30), <1>1, <1>3, <1>4, <2>2 DEF NextFilled
    <3>2. /\ Len(lately') = Window /\ lately'[Window] = rate
          /\ \A j \in 1 .. Window - 1 : lately'[j] = lately[j + 1]
      BY <1>1, <1>4, <3>1
    <3>3. samples'[idx] = rate /\ \A i \in 0 .. Window - 1 : i # idx => samples'[i] = samples[i]
      BY <1>3, <1>4
    <3>4. Place(1) = idx /\ Place(Window)' = idx
      BY <1>1, <1>4, <1>6, <3>1 DEF Place
    <3>5. \A j \in 1 .. Window - 1 :
             Place(j)' = Place(j + 1) /\ Place(j + 1) # idx /\ Place(j + 1) \in 0 .. Window - 1
      BY <1>1, <1>4, <1>6, <3>1 DEF Place
    <3>6. \A j \in 1 .. Window : lately'[j] = samples'[Place(j)']
      <4>. TAKE j \in 1 .. Window
      <4>1. CASE j = Window
        BY <3>2, <3>3, <3>4, <4>1
      <4>2. CASE j # Window
        <5>1. j \in 1 .. Window - 1 /\ j + 1 \in 1 .. Window
          BY <1>1, <4>2
        <5>2. lately[j + 1] = samples[Place(j + 1)]
          BY <1>5, <3>1, <5>1
        <5>. QED
          BY <3>2, <3>3, <3>5, <5>1, <5>2
      <4>. QED
        BY <4>1, <4>2
    <3>7. lately[1] = samples[idx] /\ samples[idx] \in Nat
      <4>1. 1 \in 1 .. filled
        BY <1>1, <3>1
      <4>. QED
        BY <1>4, <1>5, <3>4, <4>1
    <3>8. Total(samples', 0, Window) = Total(samples, 0, Window) - samples[idx] + rate
      BY <1>1, <1>3, <1>4, TotalReplaced
    <3>9. PICK n \in Nat : Window = n + 1
      <4>1. Window - 1 \in Nat /\ Window = (Window - 1) + 1
        BY <1>1
      <4>. QED
        BY <4>1
    <3>10. Total(lately, 1, n + 1) = lately[1] + Total(lately, 2, n)
      <4>1. PICK one \in Int : one = 1
        OBVIOUS
      <4>2. \A k \in Nat : k <= n => lately[one + k] \in Nat
        <5>. SUFFICES ASSUME NEW k \in Nat, k <= n PROVE lately[1 + k] \in Nat
          BY <4>1
        <5>1. 1 + k \in 1 .. Len(lately)
          BY <1>4, <3>1, <3>9
        <5>. QED
          BY <1>4, <5>1
      <4>3. Total(lately, one, n + 1) = lately[one] + Total(lately, one + 1, n)
        BY <4>2, TotalFirst
      <4>4. one + 1 = 2
        BY <4>1
      <4>. QED
        BY <4>1, <4>3, <4>4
    <3>11. Total(lately', 1, n + 1) = Total(lately', 1, n) + rate
      <4>1. Total(lately', 1, n + 1) = Total(lately', 1, n) + lately'[1 + n]
        BY TotalStep
      <4>2. 1 + n = Window
        BY <3>9
      <4>. QED
        BY <3>2, <4>1, <4>2
    <3>12. Total(lately', 1, n) = Total(lately, 2, n)
      <4>1. \A k \in Nat : k < n => lately'[1 + k] = lately[2 + k]
        <5>. SUFFICES ASSUME NEW k \in Nat, k < n PROVE lately'[1 + k] = lately[2 + k]
          OBVIOUS
        <5>1. 1 + k \in 1 .. Window - 1 /\ (1 + k) + 1 = 2 + k
          BY <3>9
        <5>. QED
          BY <3>2, <5>1
      <4>. QED
        BY <4>1, TotalSame
    <3>13. PICK x \in Nat : x = Total(lately, 2, n)
      <4>1. \A k \in Nat : k < n => lately[2 + k] \in Nat
        BY <1>4, <3>1, <3>9
      <4>2. Total(lately, 2, n) \in Nat
        BY <4>1, TotalIsNat
      <4>. QED
        BY <4>2
    <3>14. Total(samples', 0, Window) = Total(lately', 1, Window)
      <4>1. Total(samples, 0, Window) = lately[1] + x
        BY <1>5, <3>1, <3>9, <3>10, <3>13
      <4>2. Total(samples', 0, Window) = x + rate
        BY <3>7, <3>8, <4>1
      <4>. QED
        BY <3>9, <3>11, <3>12, <3>13, <4>2
    <3>. QED
      BY <3>1, <3>2, <3>6, <3>14
  <2>. QED
    BY <2>1, <2>2
<1>. QED
  BY <1>3, <1>7 DEF RingInv

LEMMA RingNext ==
    ASSUME TypeOK, RingInv, [Next]_vars PROVE RingInv'
<1>1. CASE TakeSample
  BY <1>1, SampleRing DEF TakeSample, TypeOK
<1>2. CASE ~TakeSample
  <2>1. UNCHANGED <<samples, idx, filled, degraded, lately>>
    <3>1. CASE \E c \in Calls, r \in Routes, who \in Callers : Arrive(c, r, who)
      BY <3>1 DEF Arrive, TooLarge, Shed, Unauthorized, Unlimited, AskLimiter, watchdogVars
    <3>2. CASE \E c \in Calls : Admitted(c) \/ Refused(c) \/ Handle(c) \/ Panic(c) \/ Count(c)
      BY <3>2 DEF Admitted, Refused, Handle, Panic, Count, CountBytes, watchdogVars
    <3>3. CASE Background
      BY <3>3 DEF Background, watchdogVars
    <3>4. CASE UNCHANGED vars
      BY <3>4 DEF vars, watchdogVars
    <3>. QED
      BY <1>2, <3>1, <3>2, <3>3, <3>4 DEF Next
  <2>. QED
    BY <2>1, RingKept
<1>. QED
  BY <1>1, <1>2

\* The ring of metrics.go Run holds the latest rates, oldest first from where the
\* next sample goes, while it fills and however often it has turned.
THEOREM RingInvariant == Spec => []RingInv
<1>1. Init => RingInv
  BY RingInit
<1>2. RequestInv /\ RingInv /\ [Next]_vars => RingInv'
  BY RingNext DEF RequestInv
<1>. QED
  BY <1>1, <1>2, RequestInvariant, PTL DEF Spec

\* The flag shows the mean of the latest rates (metrics.go Run), for every length
\* of the ring, every limit and all that is counted.
THEOREM FlagIsMean == Spec => []DegradedIsMean
<1>1. RingInv => DegradedIsMean
  BY DEF RingInv, DegradedIsMean, Above
<1>. QED
  BY <1>1, RingInvariant, PTL
=============================================================================
