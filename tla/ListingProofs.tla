---------------------------- MODULE ListingProofs ----------------------------
(***************************************************************************)
(* Proofs about Transport and Listing, for every catalogue, page size,     *)
(* number of attempts and deadline: ListInv is inductive; a write keeps    *)
(* its promise (RemoteWrite); a list leaves out and repeats only what the  *)
(* catalogue has moved under it.                                           *)
(***************************************************************************)
EXTENDS Listing, FiniteSetTheorems, TLAPS

-----------------------------------------------------------------------------
(* Places in the order of ids *)

LEMMA SubsetIsFinite == ASSUME NEW S \in SUBSET Ids PROVE IsFiniteSet(S)
BY FS_Subset, ListingAssumption

LEMMA PlaceType == ASSUME NEW S \in SUBSET Ids, NEW p \in Ids PROVE Place(p, S) \in Nat
<1>1. IsFiniteSet({q \in S : q < p})
  <2>1. {q \in S : q < p} \in SUBSET Ids
    OBVIOUS
  <2> QED BY <2>1, SubsetIsFinite
<1> QED BY <1>1, FS_CardinalityType DEF Place

\* A larger catalogue moves nothing forward.
LEMMA PlaceMonotone ==
    ASSUME NEW S \in SUBSET Ids, NEW T \in SUBSET Ids, S \subseteq T, NEW p \in Ids
    PROVE  Place(p, S) <= Place(p, T)
<1>1. {q \in T : q < p} \in SUBSET Ids
  OBVIOUS
<1>2. IsFiniteSet({q \in T : q < p})
  BY <1>1, SubsetIsFinite
<1>3. {q \in S : q < p} \subseteq {q \in T : q < p}
  OBVIOUS
<1> QED BY <1>2, <1>3, FS_Subset DEF Place

\* What comes or goes behind a prompt leaves its place alone.
LEMMA PlaceUnmoved ==
    ASSUME NEW S, NEW T, NEW p, \A q \in S : q < p => q \in T,
           \A q \in T : q < p => q \in S
    PROVE  Place(p, S) = Place(p, T)
<1>1. {q \in S : q < p} = {q \in T : q < p}
  OBVIOUS
<1> QED BY <1>1 DEF Place

\* A prompt that is there has its place below the number of prompts.
LEMMA PlaceBelow ==
    ASSUME NEW S \in SUBSET Ids, NEW p \in S
    PROVE  Place(p, S) < Cardinality(S)
<1> DEFINE F == {q \in S : q < p}
<1>1. IsFiniteSet(S) /\ IsFiniteSet(F)
  <2>1. F \in SUBSET Ids
    OBVIOUS
  <2> QED BY <2>1, SubsetIsFinite
<1>2. p \notin F
  BY ListingAssumption
<1>3. F \subseteq S /\ F # S
  BY <1>2
<1>4. Cardinality(F) < Cardinality(S)
  <2>1. F \in SUBSET S
    BY <1>3
  <2>2. Cardinality(F) <= Cardinality(S) /\ Cardinality(F) # Cardinality(S)
    BY <1>1, <1>3, <2>1, FS_Subset
  <2>3. Cardinality(F) \in Nat /\ Cardinality(S) \in Nat
    BY <1>1, FS_CardinalityType
  <2> QED BY <2>2, <2>3
<1> QED BY <1>4 DEF Place

LEMMA LimitType == Limit \in Nat \ {0}
BY ListingAssumption DEF Limit

\* The places before the first page, and those with one page more.
LEMMA PagesOfLimit ==
    ASSUME NEW n \in Nat, NEW lim \in Nat
    PROVE  0 * lim = 0 /\ (n + 1) * lim = n * lim + lim
OBVIOUS

-----------------------------------------------------------------------------
(* Types *)

LEMMA BackoffType == ASSUME NEW n \in Nat \ {0} PROVE Backoff(n) \in Nat
<1>1. CASE n > 5
  BY <1>1 DEF Backoff
<1>2. CASE n <= 5
  BY <1>2 DEF Backoff
<1> QED BY <1>1, <1>2

LEMMA RepliesType ==
    ASSUME NEW r \in Replies
    PROVE  /\ r.code \in Codes /\ r.status \in Nat
           /\ r.code \in Refusals => r.status \in 400 .. 499
BY TransportAssumption

\* The end of an attempt without the answer asked for.
LEMMA GiveUpType ==
    ASSUME TransportTypeOK, WireInv, stage = "flying",
           NEW c \in Failures, NEW st \in Nat, GiveUpOrPause(c, st)
    PROVE  /\ stage' \in {"pausing", "ended"}
           /\ stage' = "pausing" => attempt < Attempts /\ ~write /\ outcome' = "none"
           /\ stage' = "ended" => outcome' = c
           /\ timer' \in Nat
<1>1. outcome = "none"
  BY DEF WireInv
<1>2. CASE Resend(c, st) /\ attempt < Attempts
  <2>1. stage' = "pausing" /\ timer' = Backoff(attempt) /\ outcome' = outcome
    BY <1>2 DEF GiveUpOrPause
  <2>2. ~write
    BY <1>2 DEF Resend
  <2>3. timer' \in Nat
    <3>1. attempt \in Nat \ {0}
      BY TransportAssumption DEF TransportTypeOK, WireInv
    <3> QED BY <3>1, <2>1, BackoffType
  <2> QED BY <1>1, <1>2, <2>1, <2>2, <2>3
<1>3. CASE ~(Resend(c, st) /\ attempt < Attempts)
  BY <1>3 DEF GiveUpOrPause
<1> QED BY <1>2, <1>3
-----------------------------------------------------------------------------
(* The transport *)

CallNext ==
    \/ Begin \/ Attempt \/ ConnectionFails \/ Wake \/ CutShort \/ NextCall \/ Finish
    \/ Signal \/ Tick \/ Answer
    \/ \E r \in Replies : AnswerError(r)
    \/ \E a \in wire : PerformUnheard(a) \/ LoseRequest(a)

LEMMA NextIsCallNext == [Next]_vars => [CallNext]_callVars
BY DEF Next, vars, Process, Environment, CallNext, TimesOut, NextPage, ListDone, Publish,
       TakeDown, ListPage, WriteAnswer

\* The request of the first attempt, when it is on the wire, is alone there.
LEMMA FirstOnWire ==
    ASSUME wire \subseteq 1 .. attempt, attempt = 1, wire # {}
    PROVE  wire = {1}
<1>1. \A a \in wire : a = 1
  OBVIOUS
<1> QED BY <1>1

LEMMA TransportInitial == TransportInit => TransportTypeOK /\ WireInv
<1> SUFFICES ASSUME TransportInit PROVE TransportTypeOK /\ WireInv
  OBVIOUS
<1> USE TransportAssumption DEF TransportInit
<1>1. TransportTypeOK
  <2>1. stage \in Stages /\ write \in BOOLEAN /\ cancelled \in BOOLEAN
    BY Zenon DEF Stages
  <2>2. attempt \in 0 .. Attempts /\ spent \in 0 .. Deadline /\ timer \in Nat /\ done \in Nat
    OBVIOUS
  <2>3. outcome \in Failures \cup {"none", "ok"} /\ wire \subseteq 1 .. Attempts
    BY Zenon
  <2> QED BY Zenon, <2>1, <2>2, <2>3 DEF TransportTypeOK
<1>2. "none" \notin Refusals
  BY DEF Refusals
<1>3. WireInv
  BY <1>2 DEF WireInv
<1> QED BY <1>1, <1>3

LEMMA TransportStep ==
    ASSUME TransportTypeOK, WireInv, [CallNext]_callVars
    PROVE  TransportTypeOK' /\ WireInv'
<1> USE TransportAssumption DEF TransportTypeOK, WireInv, Stages
<1>1. CASE Begin
  BY <1>1 DEF Begin
<1>2. CASE Attempt
  <2>1. outcome = "none" /\ "none" \notin Refusals
    BY <1>2 DEF Attempt, Refusals
  <2>2. attempt' \in 1 .. Attempts /\ attempt' = attempt + 1
    BY <1>2 DEF Attempt
  <2>3. wire' \subseteq wire \cup {attempt'}
    BY <1>2 DEF Attempt
  <2>4. wire' \subseteq 1 .. attempt'
    BY <2>2, <2>3
  <2>5. timer' \in Nat
    BY <1>2 DEF Attempt
  <2>6. stage' = "flying" /\ UNCHANGED <<write, spent, cancelled, outcome, done>>
    BY <1>2 DEF Attempt
  <2>7. TransportTypeOK'
    BY <2>2, <2>4, <2>5, <2>6
  <2>8. write => attempt = 0 /\ done = 0
    BY <1>2 DEF Attempt
  <2> QED BY <2>1, <2>2, <2>4, <2>6, <2>7, <2>8
<1>3. CASE ConnectionFails
  <2>1. "network" \in Failures /\ "network" \notin Refusals /\ "network" # "ok" /\ 0 \in Nat
    BY DEF Failures, Refusals
  <2>2. /\ stage' \in {"pausing", "ended"}
        /\ stage' = "pausing" => attempt < Attempts /\ ~write /\ outcome' = "none"
        /\ stage' = "ended" => outcome' = "network"
        /\ timer' \in Nat
    BY <1>3, <2>1, GiveUpType DEF ConnectionFails
  <2> QED BY <1>3, <2>1, <2>2 DEF ConnectionFails
<1>4. CASE Wake
  BY <1>4 DEF Wake
<1>5. CASE CutShort
  BY <1>5 DEF CutShort, ContextCode, Failures, Codes, Refusals
<1>6. CASE NextCall
  BY <1>6 DEF NextCall
<1>7. CASE Finish
  BY <1>7 DEF Finish, Refusals
<1>8. CASE Signal
  BY <1>8 DEF Signal
<1>9. CASE Tick
  BY <1>9 DEF Tick, ContextDone
<1>10. CASE Answer
  BY <1>10 DEF Answer, Served
<1>11. ASSUME NEW r \in Replies, AnswerError(r) PROVE TransportTypeOK' /\ WireInv'
  <2>1. /\ r.code \in Failures /\ r.code # "ok" /\ r.code # "none" /\ r.status \in Nat
        /\ r.code \in Refusals => r.status \in 400 .. 499
    BY RepliesType DEF Failures, Codes, Refusals
  <2>2. /\ stage' \in {"pausing", "ended"}
        /\ stage' = "pausing" => attempt < Attempts /\ ~write /\ outcome' = "none"
        /\ stage' = "ended" => outcome' = r.code
        /\ timer' \in Nat
    BY <1>11, <2>1, GiveUpType DEF AnswerError
  <2>3. /\ wire' \subseteq wire /\ done' \in {done, done + 1}
        /\ done' = done + 1 => wire' = wire \ {attempt} /\ attempt \in wire
        /\ r.status \in 400 .. 499 => done' = done /\ wire' = wire \ {attempt}
        /\ attempt \in wire
    BY <1>11 DEF AnswerError, Served
  <2>4. UNCHANGED <<write, attempt, spent, cancelled>> /\ stage = "flying"
    BY <1>11 DEF AnswerError
  <2>5. TransportTypeOK'
    BY <2>1, <2>2, <2>3, <2>4
  <2>6. ASSUME write PROVE wire = {1} /\ attempt = 1 /\ done = 0
    <3>1. attempt = 1
      BY <2>4, <2>6
    <3>2. wire # {}
      BY <2>3
    <3>3. done = 0
      <4>1. done <= 1 /\ done # 1
        BY <2>6, <3>2
      <4> QED BY <4>1
    <3>4. wire = {1}
      BY <3>1, <3>2, FirstOnWire
    <3> QED BY <3>1, <3>3, <3>4
  <2>7. write => done' <= 1 /\ (done' = 1 => wire' = {})
                /\ (r.status \in 400 .. 499 => done' = 0 /\ wire' = {})
    BY <2>3, <2>6
  <2> QED BY <2>1, <2>2, <2>3, <2>4, <2>5, <2>7
<1>12. ASSUME NEW a \in wire, PerformUnheard(a) PROVE TransportTypeOK' /\ WireInv'
  BY <1>12 DEF PerformUnheard, Served
<1>13. ASSUME NEW a \in wire, LoseRequest(a) PROVE TransportTypeOK' /\ WireInv'
  BY <1>13 DEF LoseRequest
<1>14. CASE UNCHANGED callVars
  BY <1>14 DEF callVars
<1> QED BY <1>1, <1>2, <1>3, <1>4, <1>5, <1>6, <1>7, <1>8, <1>9, <1>10, <1>11, <1>12, <1>13,
           <1>14 DEF CallNext
-----------------------------------------------------------------------------
(* A write and its promise *)

LEMMA ToldOfWrite ==
    ASSUME write, outcome \in Failures \cup {"none", "ok"}
    PROVE  /\ outcome = "none" => Told = "nothing"
           /\ outcome = "ok" => Told = "ok"
           /\ outcome \in Refusals => Told = "refused"
           /\ outcome \notin Refusals \cup {"none", "ok"} => Told = "unknown"
BY DEF Told, Verdict, Refusals, Failures, Codes

LEMMA ToldOfRead == ASSUME ~write PROVE Told = "nothing"
BY DEF Told

LEMMA PromiseInitial == TransportInit => Promise!Init
<1> SUFFICES ASSUME TransportInit PROVE Promise!Init
  OBVIOUS
<1>1. outcome = "none" /\ done = 0
  BY DEF TransportInit
<1>2. Told = "nothing"
  BY <1>1 DEF Told, Verdict, Refusals, Failures, Codes
<1> QED BY <1>1, <1>2 DEF Promise!Init

LEMMA WriteIsFixed == [CallNext]_callVars => write' = write
BY DEF CallNext, callVars, Begin, Attempt, ConnectionFails, Wake, CutShort, NextCall, Finish,
       Signal, Tick, Answer, AnswerError, PerformUnheard, LoseRequest

\* A step of the transport keeps the promise.
LEMMA PromiseStep ==
    ASSUME TransportTypeOK, WireInv, TransportTypeOK', WireInv', [CallNext]_callVars
    PROVE  [Promise!Next]_(Promise!promiseVars)
<1>1. write' = write
  BY WriteIsFixed
<1>2. CASE ~write
  <2>1. Told = "nothing"
    BY <1>2, ToldOfRead
  <2>2. Told' = "nothing"
    BY <1>1, <1>2 DEF Told
  <2> QED BY <1>1, <1>2, <2>1, <2>2 DEF Promise!promiseVars
<1>3. CASE write
  <2>1. write'
    BY <1>1, <1>3
  <2>2. /\ outcome = "none" => Told = "nothing"
        /\ outcome = "ok" => Told = "ok"
        /\ outcome \in Refusals => Told = "refused"
        /\ outcome \notin Refusals \cup {"none", "ok"} => Told = "unknown"
    BY <1>3, ToldOfWrite DEF TransportTypeOK
  <2>3. /\ outcome' = "none" => Told' = "nothing"
        /\ outcome' = "ok" => Told' = "ok"
        /\ outcome' \in Refusals => Told' = "refused"
        /\ outcome' \notin Refusals \cup {"none", "ok"} => Told' = "unknown"
    BY <2>1 DEF Told, Verdict, Refusals, Failures, Codes, TransportTypeOK
  <2> DEFINE Quiet == outcome' = outcome /\ done' = done
             Late == outcome' = outcome /\ outcome \notin Refusals \cup {"ok"} /\ done = 0 /\ done' = 1
             End == /\ outcome = "none" /\ outcome' # "none"
                    /\ done' \in {done, 1}
                    /\ outcome' = "ok" => done' = 1
                    /\ outcome' \in Refusals => done' = 0
  <2>4. ASSUME Quiet PROVE UNCHANGED Promise!promiseVars
    <3>1. Told' = Told
      BY <1>1, <2>4 DEF Told, Verdict
    <3> QED BY <1>1, <2>4, <3>1 DEF Promise!promiseVars
  <2>5. ASSUME Late PROVE Promise!Next
    <3>1. Told' = Told
      BY <1>1, <2>5 DEF Told, Verdict
    <3>2. Told \in {"nothing", "unknown"}
      BY <2>2, <2>5
    <3> QED BY <1>3, <2>1, <2>5, <3>1, <3>2 DEF Promise!Next, Promise!Perform
  <2>6. ASSUME End PROVE Promise!Next
    <3>1. Told = "nothing"
      BY <2>2, <2>6
    <3>2. \/ Told' = "ok" /\ done' = 1
          \/ Told' = "refused" /\ done' = 0
          \/ Told' = "unknown"
      BY <2>3, <2>6
    <3> QED BY <1>3, <2>1, <2>6, <3>1, <3>2 DEF Promise!Next, Promise!Tell
  <2>7. "none" \notin Refusals /\ "ok" \notin Refusals /\ "network" \notin Refusals
    BY DEF Refusals
  <2>8. Quiet \/ Late \/ End
    <3>1. CASE Begin \/ Attempt \/ Wake \/ Signal \/ Tick \/ UNCHANGED callVars
      BY <3>1 DEF Begin, Attempt, Wake, Signal, Tick, callVars
    <3>2. CASE ConnectionFails
      <4>1. outcome = "none" /\ stage' = "ended" /\ outcome' = "network" /\ done' = done
        BY <3>2, <1>3 DEF ConnectionFails, GiveUpOrPause, Resend, WireInv
      <4> QED BY <4>1, <2>7
    <3>3. CASE CutShort
      BY <3>3, <1>3 DEF CutShort, WireInv
    <3>4. CASE NextCall
      BY <3>4, <1>3 DEF NextCall
    <3>5. CASE Finish
      BY <3>5, <1>3, <2>7 DEF Finish, WireInv
    <3>6. CASE Answer
      <4>1. outcome = "none" /\ outcome' = outcome /\ done' = done + 1
        BY <3>6 DEF Answer, WireInv
      <4>2. done = 0
        <5>1. done # 1 /\ done <= 1 /\ done \in Nat
          BY <3>6, <1>3 DEF Answer, WireInv, TransportTypeOK
        <5> QED BY <5>1
      <4> QED BY <4>1, <4>2, <2>7
    <3>7. ASSUME NEW r \in Replies, AnswerError(r) PROVE End
      <4>1. outcome = "none" /\ stage' = "ended" /\ outcome' = r.code
        BY <3>7, <1>3 DEF AnswerError, GiveUpOrPause, Resend, WireInv
      <4>2. r.code \notin {"none", "ok"}
        BY RepliesType DEF Codes, Refusals
      <4>3. done' \in {done, done + 1} /\ wire # {}
        BY <3>7 DEF AnswerError
      <4>4. done = 0
        <5>1. done # 1 /\ done <= 1 /\ done \in Nat
          BY <4>3, <1>3 DEF WireInv, TransportTypeOK
        <5> QED BY <5>1
      <4>5. outcome' \in Refusals => done' = 0
        BY <2>1 DEF WireInv
      <4> QED BY <4>1, <4>2, <4>3, <4>4, <4>5
    <3>8. ASSUME NEW a \in wire, PerformUnheard(a) PROVE Late
      <4>1. outcome' = outcome /\ done' = done + 1
        BY <3>8 DEF PerformUnheard
      <4>2. done = 0
        <5>1. done # 1 /\ done <= 1 /\ done \in Nat
          BY <1>3 DEF WireInv, TransportTypeOK
        <5> QED BY <5>1
      <4>3. outcome \notin Refusals \cup {"ok"}
        BY <1>3, <4>2 DEF WireInv
      <4> QED BY <4>1, <4>2, <4>3
    <3>9. ASSUME NEW a \in wire, LoseRequest(a) PROVE Quiet
      BY <3>9 DEF LoseRequest
    <3> QED BY <3>1, <3>2, <3>3, <3>4, <3>5, <3>6, <3>7, <3>8, <3>9 DEF CallNext
  <2> HIDE DEF Quiet, Late, End
  <2> QED BY <2>4, <2>5, <2>6, <2>8
<1> QED BY <1>2, <1>3
-----------------------------------------------------------------------------
(* The pages *)

LEMMA ListInitial == Init => ListInv
<1> SUFFICES ASSUME Init PROVE ListInv
  OBVIOUS
<1>1. TransportTypeOK /\ WireInv
  BY TransportInitial DEF Init
<1>2. ListTypeOK
  <2>1. {public, start, came, gone} \subseteq SUBSET Ids /\ {all, more} \subseteq BOOLEAN
    BY DEF Init
  <2>2. offset \in Nat /\ pages \in 0 .. MaxPages /\ listed \in [Ids -> Nat]
    BY ListingAssumption DEF Init
  <2> QED BY <1>1, <2>1, <2>2 DEF ListTypeOK
<1>3. HistoryInv
  BY DEF Init, HistoryInv
<1>4. SeenInv
  <2> SUFFICES ASSUME NEW p \in Ids
               PROVE  listed[p] = 0 /\ Place(p, public) >= Seen /\ ~(Seen > offset)
    BY DEF SeenInv
  <2>1. Seen = 0 /\ offset = 0
    BY DEF Seen, Init, TransportInit
  <2>2. Place(p, public) \in Nat
    BY <1>2, PlaceType DEF ListTypeOK
  <2> QED BY <2>1, <2>2 DEF Init
<1>5. PagesInv
  <2>1. Seen = 0 /\ pages = 0
    BY DEF Seen, Init, TransportInit
  <2>2. Seen = pages * Limit
    BY <2>1, LimitType, PagesOfLimit
  <2> QED BY <2>2, ListingAssumption DEF PagesInv, Init, TransportInit
<1> QED BY <1>1, <1>2, <1>3, <1>4, <1>5 DEF ListInv

\* What a step of the transport that does not touch the pages means for them.
Aside ==
    /\ (stage' = "answered" \/ outcome' = "ok") <=> (stage = "answered" \/ outcome = "ok")
    /\ stage' \in {"idle", "ready", "flying", "pausing"} =>
           stage \in {"idle", "ready", "flying", "pausing"}
    /\ stage' = "idle" => stage = "idle"
    /\ outcome' = "ok" => outcome = "ok" \/ write \/ ~GoesOn
    /\ write' = write

LEMMA AsideStep ==
    ASSUME ListInv, TransportTypeOK', WireInv', UNCHANGED listVars, Aside
    PROVE  ListInv'
<1>1. ListTypeOK'
  BY DEF ListInv, ListTypeOK, listVars
<1>2. HistoryInv'
  BY DEF ListInv, HistoryInv, listVars, Aside
<1>3. Seen' = Seen
  BY DEF Seen, Aside, listVars, Limit
<1>4. SeenInv'
  <2> SUFFICES ASSUME NEW p \in Ids
               PROVE  /\ ~write /\ p \in start \ gone /\ listed[p] = 0 =>
                           \/ \E q \in gone : q < p
                           \/ Place(p, public') >= Seen /\ (Seen > offset => more)
                      /\ listed[p] > 0 =>
                           \/ \E q \in came : q < p
                           \/ listed[p] = 1 /\ Place(p, public') < Seen
    BY <1>3 DEF SeenInv, listVars, Aside, Place
  <2>1. public' = public
    BY DEF listVars
  <2> QED BY <2>1 DEF ListInv, SeenInv
<1>5. PagesInv'
  <2>1. ~write' => Seen' = pages' * Limit'
    BY <1>3 DEF ListInv, PagesInv, Aside, listVars, Limit
  <2> QED BY <2>1 DEF ListInv, PagesInv, Aside, listVars, GoesOn
<1> QED BY <1>1, <1>2, <1>4, <1>5 DEF ListInv

\* Such steps: all but those that end an attempt or a call with an answer.
LEMMA AsideIs ==
    ASSUME ListInv,
           \/ Begin \/ Attempt \/ ConnectionFails \/ Wake \/ CutShort \/ Tick \/ Signal
           \/ \E r \in Replies : AnswerError(r)
           \/ \E a \in wire : PerformUnheard(a) \/ LoseRequest(a)
           \/ (write \/ ~GoesOn) /\ Finish
    PROVE  Aside
<1>1. WireInv /\ TransportTypeOK
  BY DEF ListInv, ListTypeOK
<1>2. CASE Begin \/ Attempt \/ Wake \/ Tick \/ Signal
  BY <1>2 DEF Begin, Attempt, Wake, Tick, Signal, Aside
<1>3. CASE ConnectionFails
  <2>1. "network" \in Failures /\ 0 \in Nat
    BY DEF Failures
  <2>2. /\ stage' \in {"pausing", "ended"}
        /\ stage' = "pausing" => outcome' = "none"
        /\ stage' = "ended" => outcome' = "network"
    BY <1>1, <1>3, <2>1, GiveUpType DEF ConnectionFails
  <2>3. stage = "flying" /\ outcome = "none" /\ write' = write
    BY <1>1, <1>3 DEF ConnectionFails, WireInv
  <2> QED BY <2>2, <2>3 DEF Aside
<1>4. CASE CutShort
  BY <1>1, <1>4 DEF CutShort, ContextCode, Aside, WireInv
<1>5. ASSUME NEW r \in Replies, AnswerError(r) PROVE Aside
  <2>1. r.code \in Failures /\ r.code # "ok" /\ r.status \in Nat
    BY RepliesType DEF Failures, Codes, Refusals
  <2>2. /\ stage' \in {"pausing", "ended"}
        /\ stage' = "pausing" => outcome' = "none"
        /\ stage' = "ended" => outcome' = r.code
    BY <1>1, <1>5, <2>1, GiveUpType DEF AnswerError
  <2>3. stage = "flying" /\ outcome = "none" /\ write' = write
    BY <1>1, <1>5 DEF AnswerError, WireInv
  <2> QED BY <2>1, <2>2, <2>3 DEF Aside
<1>6. ASSUME NEW a \in wire, PerformUnheard(a) \/ LoseRequest(a) PROVE Aside
  BY <1>6 DEF PerformUnheard, LoseRequest, Aside
<1>7. CASE (write \/ ~GoesOn) /\ Finish
  BY <1>7 DEF Finish, Aside
<1> QED BY <1>2, <1>3, <1>4, <1>5, <1>6, <1>7
\* The cursor stands where the page ended.
LEMMA NextPageStep ==
    ASSUME ListInv, TransportTypeOK', WireInv', NextPage
    PROVE  ListInv'
<1>1. /\ stage = "answered" /\ stage' = "ready" /\ ~write /\ write' = write
      /\ outcome' = outcome /\ outcome = "none" /\ GoesOn
      /\ offset' = offset + Limit
      /\ UNCHANGED <<public, all, more, pages, listed, start, came, gone>>
  BY DEF NextPage, NextCall, NextOffset, ListInv, WireInv
<1>2. ListTypeOK'
  BY <1>1, LimitType DEF ListInv, ListTypeOK
<1>3. HistoryInv'
  BY <1>1 DEF ListInv, HistoryInv
<1>4. Seen' = Seen
  <2>1. offset \in Nat /\ Limit \in Nat
    BY LimitType DEF ListInv, ListTypeOK
  <2> QED BY <1>1, <2>1 DEF Seen, Limit
<1>5. Seen' = offset'
  BY <1>1, <1>4, LimitType DEF Seen, ListInv, ListTypeOK
<1>6. SeenInv'
  <2> SUFFICES ASSUME NEW p \in Ids
               PROVE  /\ p \in start \ gone /\ listed[p] = 0 =>
                           \/ \E q \in gone : q < p
                           \/ Place(p, public) >= Seen
                      /\ listed[p] > 0 =>
                           \/ \E q \in came : q < p
                           \/ listed[p] = 1 /\ Place(p, public) < Seen
    <3>1. Seen' = Seen /\ ~(Seen' > offset')
      BY <1>4, <1>5, <1>2 DEF ListTypeOK
    <3>2. UNCHANGED <<public, listed, start, came, gone>>
      BY <1>1
    <3>3. \A p \in Ids : Place(p, public') = Place(p, public)
      BY <3>2
    <3> QED BY <3>1, <3>2, <3>3 DEF SeenInv, Place
  <2> QED BY <1>1 DEF ListInv, SeenInv
<1>7. PagesInv'
  <2>1. Seen' = pages' * Limit'
    BY <1>1, <1>4 DEF ListInv, PagesInv, Limit
  <2> QED BY <1>1, <2>1, ListingAssumption DEF GoesOn, PagesInv, ListInv, ListTypeOK
<1> QED BY <1>2, <1>3, <1>6, <1>7 DEF ListInv

LEMMA WriteAnswerStep ==
    ASSUME ListInv, TransportTypeOK', WireInv', WriteAnswer
    PROVE  ListInv'
<1>1. /\ stage = "flying" /\ stage' = "answered" /\ write /\ write' = write
      /\ outcome' = outcome /\ outcome = "none"
      /\ UNCHANGED listVars
  BY DEF WriteAnswer, Answer, ListInv, WireInv
<1>2. ListTypeOK'
  BY <1>1 DEF ListInv, ListTypeOK, listVars
<1>3. HistoryInv'
  BY <1>1 DEF ListInv, HistoryInv, listVars
<1>4. Seen' = offset + Limit /\ Seen = offset
  BY <1>1, LimitType DEF Seen, listVars, Limit, ListInv, ListTypeOK
<1>5. SeenInv'
  <2> SUFFICES ASSUME NEW p \in Ids, listed[p] > 0
               PROVE  \/ \E q \in came : q < p
                      \/ listed[p] = 1 /\ Place(p, public) < offset + Limit
    BY <1>1, <1>4 DEF SeenInv, listVars, Place
  <2>1. \/ \E q \in came : q < p
        \/ listed[p] = 1 /\ Place(p, public) < offset
    BY <1>4 DEF ListInv, SeenInv
  <2>2. Place(p, public) \in Nat /\ offset \in Nat /\ Limit \in Nat
    BY PlaceType, LimitType DEF ListInv, ListTypeOK
  <2> QED BY <2>1, <2>2
<1>6. PagesInv'
  BY <1>1 DEF ListInv, PagesInv, listVars, GoesOn
<1> QED BY <1>2, <1>3, <1>5, <1>6 DEF ListInv

\* A page lists the places it covers, and says that there is more behind them.
LEMMA ListPageStep ==
    ASSUME ListInv, TransportTypeOK', WireInv', ListPage
    PROVE  ListInv'
<1>1. /\ stage = "flying" /\ stage' = "answered" /\ ~write /\ write' = write
      /\ outcome' = outcome /\ outcome = "none"
      /\ listed' = [p \in Ids |-> listed[p] + (IF OnPage(offset, p) THEN 1 ELSE 0)]
      /\ more' = HasMore(offset) /\ pages' = pages + 1
      /\ UNCHANGED <<public, all, offset, start, came, gone>>
  BY DEF ListPage, Answer, ListInv, WireInv
<1>2. public \in SUBSET Ids /\ offset \in Nat /\ listed \in [Ids -> Nat] /\ Limit \in Nat \ {0}
  BY LimitType DEF ListInv, ListTypeOK
<1>3. ListTypeOK'
  <2>1. listed' \in [Ids -> Nat]
    BY <1>1, <1>2
  <2>2. more' \in BOOLEAN
    BY <1>1 DEF HasMore
  <2>3. pages' \in 0 .. MaxPages
    BY <1>1, ListingAssumption DEF ListInv, ListTypeOK, PagesInv
  <2> QED BY <1>1, <2>1, <2>2, <2>3 DEF ListInv, ListTypeOK
<1>4. HistoryInv'
  BY <1>1 DEF ListInv, HistoryInv
<1>5. Seen' = offset + Limit /\ Seen = offset
  BY <1>1, <1>2 DEF Seen, Limit
<1>6. ASSUME NEW p \in Ids
      PROVE  /\ p \in start \ gone /\ listed'[p] = 0 =>
                  \/ \E q \in gone : q < p
                  \/ Place(p, public) >= offset + Limit /\ HasMore(offset)
             /\ listed'[p] > 0 =>
                  \/ \E q \in came : q < p
                  \/ listed'[p] = 1 /\ Place(p, public) < offset + Limit
  <2>1. Place(p, public) \in Nat
    BY <1>2, PlaceType
  <2>2. listed'[p] = listed[p] + (IF OnPage(offset, p) THEN 1 ELSE 0) /\ listed[p] \in Nat
    BY <1>1, <1>2
  <2>3. ASSUME p \in start \ gone, listed'[p] = 0, ~ \E q \in gone : q < p
        PROVE  Place(p, public) >= offset + Limit /\ HasMore(offset)
    <3>1. p \in public
      BY <2>3 DEF ListInv, HistoryInv
    <3>2. ~OnPage(offset, p) /\ listed[p] = 0
      BY <2>2, <2>3
    <3>3. Place(p, public) >= offset
      BY <1>1, <1>5, <2>3, <3>2 DEF ListInv, SeenInv
    <3>4. Place(p, public) >= offset + Limit
      BY <1>2, <2>1, <3>1, <3>2, <3>3 DEF OnPage
    <3>5. Place(p, public) < Cardinality(public)
      BY <1>2, <3>1, PlaceBelow
    <3>6. Cardinality(public) \in Nat
      BY <1>2, SubsetIsFinite, FS_CardinalityType
    <3>7. Cardinality(public) > offset + Limit
      BY <1>2, <2>1, <3>4, <3>5, <3>6
    <3> QED BY <3>4, <3>7 DEF HasMore
  <2>4. ASSUME listed'[p] > 0, ~ \E q \in came : q < p
        PROVE  listed'[p] = 1 /\ Place(p, public) < offset + Limit
    <3>1. listed[p] > 0 => listed[p] = 1 /\ Place(p, public) < offset
      BY <1>5, <2>4 DEF ListInv, SeenInv
    <3>2. OnPage(offset, p) =>
             Place(p, public) >= offset /\ Place(p, public) < offset + Limit
      BY <1>2, <2>1 DEF OnPage
    <3> QED BY <1>2, <2>1, <2>2, <2>4, <3>1, <3>2
  <2> QED BY <2>3, <2>4
<1>7. SeenInv'
  <2>1. \A p \in Ids : Place(p, public') = Place(p, public)
    BY <1>1
  <2>2. start' = start /\ gone' = gone /\ came' = came /\ more' = HasMore(offset)
    BY <1>1
  <2> QED BY <1>5, <1>6, <2>1, <2>2 DEF SeenInv, Place
<1>8. PagesInv'
  <2>1. Seen = pages * Limit /\ pages \in Nat
    BY <1>1, ListingAssumption DEF ListInv, ListTypeOK, PagesInv
  <2>2. Seen' = pages' * Limit
    BY <1>1, <1>2, <1>5, <2>1, PagesOfLimit
  <2> QED BY <1>1, <2>2 DEF PagesInv, Limit
<1> QED BY <1>3, <1>4, <1>7, <1>8 DEF ListInv
-----------------------------------------------------------------------------
(* The catalogue moves *)

LEMMA PublishStep ==
    ASSUME ListInv, NEW p \in Ids, Publish(p)
    PROVE  ListInv'
<1>1. /\ p \notin public /\ public' = public \cup {p}
      /\ came' = Since(came, p)
      /\ start' = IF stage = "idle" THEN public' ELSE start
      /\ UNCHANGED <<callVars, all, offset, more, pages, listed, gone>>
  BY DEF Publish
<1>2. /\ public \in SUBSET Ids /\ public' \in SUBSET Ids /\ public \subseteq public'
      /\ came' \in SUBSET Ids /\ start' \in SUBSET Ids
      /\ offset \in Nat /\ listed \in [Ids -> Nat] /\ Limit \in Nat \ {0}
  BY <1>1, LimitType DEF ListInv, ListTypeOK, Since
<1>3. TransportTypeOK' /\ WireInv'
  BY <1>1 DEF ListInv, ListTypeOK, TransportTypeOK, WireInv, callVars
<1>4. ListTypeOK'
  BY <1>1, <1>2, <1>3 DEF ListInv, ListTypeOK
<1>5. HistoryInv'
  BY <1>1, <1>2 DEF ListInv, HistoryInv, callVars, Since
<1>6. Seen' = Seen /\ write' = write
  BY <1>1 DEF Seen, callVars, Limit
<1>7. ASSUME NEW r \in Ids
      PROVE  /\ ~write /\ r \in start' \ gone /\ listed[r] = 0 =>
                  \/ \E q \in gone : q < r
                  \/ Place(r, public') >= Seen /\ (Seen > offset => more)
             /\ listed[r] > 0 =>
                  \/ \E q \in came' : q < r
                  \/ listed[r] = 1 /\ Place(r, public') < Seen
  <2>1. Place(r, public) \in Nat /\ Place(r, public') \in Nat
        /\ Place(r, public) <= Place(r, public')
    BY <1>2, PlaceType, PlaceMonotone
  <2>2. Seen \in Nat
    BY <1>2 DEF Seen
  <2>3. CASE stage = "idle"
    <3>1. Seen = 0 /\ offset = 0 /\ listed[r] = 0
      BY <2>3 DEF ListInv, HistoryInv, Seen, WireInv
    <3> QED BY <3>1, <2>1
  <2>4. CASE stage # "idle"
    <3>1. start' = start /\ came' = came \cup {p}
      BY <1>1, <2>4 DEF Since
    <3>2. ASSUME ~write, r \in start \ gone, listed[r] = 0, ~ \E q \in gone : q < r
          PROVE  Place(r, public') >= Seen /\ (Seen > offset => more)
      <4>1. Place(r, public) >= Seen /\ (Seen > offset => more)
        BY <3>2 DEF ListInv, SeenInv
      <4> QED BY <4>1, <2>1, <2>2
    <3>3. ASSUME listed[r] > 0, ~ \E q \in came' : q < r
          PROVE  listed[r] = 1 /\ Place(r, public') < Seen
      <4>1. ~(p < r) /\ ~ \E q \in came : q < r
        BY <3>1, <3>3
      <4>2. listed[r] = 1 /\ Place(r, public) < Seen
        BY <3>3, <4>1 DEF ListInv, SeenInv
      <4>3. Place(r, public') = Place(r, public)
        BY <1>1, <4>1, PlaceUnmoved
      <4> QED BY <4>2, <4>3
    <3> QED BY <3>1, <3>2, <3>3
  <2> QED BY <2>3, <2>4
<1>8. SeenInv'
  <2>1. UNCHANGED <<listed, gone, more, offset>>
    BY <1>1
  <2> QED BY <1>6, <1>7, <2>1 DEF SeenInv, Place
<1>9. PagesInv'
  <2>1. ~write' => Seen' = pages' * Limit'
    BY <1>1, <1>6 DEF ListInv, PagesInv, Limit
  <2> QED BY <1>1, <2>1 DEF ListInv, PagesInv, callVars, GoesOn
<1> QED BY <1>3, <1>4, <1>5, <1>8, <1>9 DEF ListInv

LEMMA TakeDownStep ==
    ASSUME ListInv, NEW p \in Ids, TakeDown(p)
    PROVE  ListInv'
<1>1. /\ public' = public \ {p}
      /\ gone' = Since(gone, p)
      /\ start' = IF stage = "idle" THEN public' ELSE start
      /\ UNCHANGED <<callVars, all, offset, more, pages, listed, came>>
  BY DEF TakeDown
<1>2. /\ public \in SUBSET Ids /\ public' \in SUBSET Ids /\ public' \subseteq public
      /\ gone' \in SUBSET Ids /\ start' \in SUBSET Ids
      /\ offset \in Nat /\ listed \in [Ids -> Nat] /\ Limit \in Nat \ {0}
  BY <1>1, LimitType DEF ListInv, ListTypeOK, Since
<1>3. TransportTypeOK' /\ WireInv'
  BY <1>1 DEF ListInv, ListTypeOK, TransportTypeOK, WireInv, callVars
<1>4. ListTypeOK'
  BY <1>1, <1>2, <1>3 DEF ListInv, ListTypeOK
<1>5. HistoryInv'
  BY <1>1, <1>2 DEF ListInv, HistoryInv, callVars, Since
<1>6. Seen' = Seen /\ write' = write
  BY <1>1 DEF Seen, callVars, Limit
<1>7. ASSUME NEW r \in Ids
      PROVE  /\ ~write /\ r \in start' \ gone' /\ listed[r] = 0 =>
                  \/ \E q \in gone' : q < r
                  \/ Place(r, public') >= Seen /\ (Seen > offset => more)
             /\ listed[r] > 0 =>
                  \/ \E q \in came : q < r
                  \/ listed[r] = 1 /\ Place(r, public') < Seen
  <2>1. Place(r, public) \in Nat /\ Place(r, public') \in Nat
        /\ Place(r, public') <= Place(r, public)
    BY <1>2, PlaceType, PlaceMonotone
  <2>2. Seen \in Nat
    BY <1>2 DEF Seen
  <2>3. CASE stage = "idle"
    <3>1. Seen = 0 /\ offset = 0 /\ listed[r] = 0
      BY <2>3 DEF ListInv, HistoryInv, Seen, WireInv
    <3> QED BY <3>1, <2>1
  <2>4. CASE stage # "idle"
    <3>1. start' = start /\ gone' = gone \cup {p}
      BY <1>1, <2>4 DEF Since
    <3>2. ASSUME ~write, r \in start \ gone', listed[r] = 0, ~ \E q \in gone' : q < r
          PROVE  Place(r, public') >= Seen /\ (Seen > offset => more)
      <4>1. ~(p < r) /\ r \in start \ gone /\ ~ \E q \in gone : q < r
        BY <3>1, <3>2
      <4>2. Place(r, public) >= Seen /\ (Seen > offset => more)
        BY <3>2, <4>1 DEF ListInv, SeenInv
      <4>3. Place(r, public') = Place(r, public)
        BY <1>1, <4>1, PlaceUnmoved
      <4> QED BY <4>2, <4>3
    <3>3. ASSUME listed[r] > 0, ~ \E q \in came : q < r
          PROVE  listed[r] = 1 /\ Place(r, public') < Seen
      <4>1. listed[r] = 1 /\ Place(r, public) < Seen
        BY <3>3 DEF ListInv, SeenInv
      <4> QED BY <4>1, <2>1, <2>2
    <3> QED BY <3>1, <3>2, <3>3
  <2> QED BY <2>3, <2>4
<1>8. SeenInv'
  <2>1. UNCHANGED <<listed, came, more, offset>>
    BY <1>1
  <2> QED BY <1>6, <1>7, <2>1 DEF SeenInv, Place
<1>9. PagesInv'
  <2>1. ~write' => Seen' = pages' * Limit'
    BY <1>1, <1>6 DEF ListInv, PagesInv, Limit
  <2> QED BY <1>1, <2>1 DEF ListInv, PagesInv, callVars, GoesOn
<1> QED BY <1>3, <1>4, <1>5, <1>8, <1>9 DEF ListInv

-----------------------------------------------------------------------------
(* The theorems *)

LEMMA ListStep == ListInv /\ [Next]_vars => ListInv'
<1> SUFFICES ASSUME ListInv, [Next]_vars PROVE ListInv'
  OBVIOUS
<1>1. TransportTypeOK' /\ WireInv'
  BY NextIsCallNext, TransportStep DEF ListInv, ListTypeOK
<1>2. CASE (Begin \/ Attempt \/ TimesOut \/ Wake \/ CutShort \/ Tick) /\ UNCHANGED listVars
  BY <1>1, <1>2, AsideIs, AsideStep DEF TimesOut
<1>3. CASE NextPage
  BY <1>1, <1>3, NextPageStep
<1>4. CASE ListDone
  BY <1>1, <1>4, AsideIs, AsideStep DEF ListDone
<1>5. CASE (ConnectionFails \/ Signal) /\ UNCHANGED listVars
  BY <1>1, <1>5, AsideIs, AsideStep
<1>6. CASE \E r \in Replies : AnswerError(r) /\ UNCHANGED listVars
  BY <1>1, <1>6, AsideIs, AsideStep
<1>7. CASE \E a \in wire : (PerformUnheard(a) \/ LoseRequest(a)) /\ UNCHANGED listVars
  BY <1>1, <1>7, AsideIs, AsideStep
<1>8. CASE ListPage
  BY <1>1, <1>8, ListPageStep
<1>9. CASE WriteAnswer
  BY <1>1, <1>9, WriteAnswerStep
<1>10. CASE \E p \in Ids : Publish(p) \/ TakeDown(p)
  BY <1>10, PublishStep, TakeDownStep
<1>11. CASE UNCHANGED vars
  <2>1. Seen' = Seen /\ UNCHANGED <<listVars, callVars>>
    BY <1>11 DEF vars, Seen, listVars, callVars, Limit
  <2>2. Aside
    BY <2>1 DEF Aside, callVars
  <2> QED BY <1>1, <2>1, <2>2, AsideStep
<1> QED BY <1>2, <1>3, <1>4, <1>5, <1>6, <1>7, <1>8, <1>9, <1>10, <1>11
        DEF Next, Process, Environment

\* The types, the whereabouts of requests and what has been looked at, for every
\* catalogue, page size and bound (client.go:182, commands.go:160).
THEOREM ListInvariant == Spec => []ListInv
BY ListInitial, ListStep, PTL DEF Spec

\* A list that ends well leaves out of the prompts public all the while those that moved
\* forward under it and, where it was cut off at its last page, those behind it: nothing
\* before the cut is lost (commands.go:160, handlers.go:60).
THEOREM ListComplete == Spec => []NothingSkipped
<1>1. ListInv => NothingSkipped
  <2> SUFFICES ASSUME ListInv, Succeeded, NEW p \in start \ gone,
                      listed[p] = 0, ~ \E q \in gone : q < p
               PROVE  more /\ (all => pages = MaxPages) /\ Place(p, public) >= pages * Limit
    BY DEF NothingSkipped, ListInv, ListTypeOK
  <2>1. p \in Ids /\ ~write /\ outcome = "ok"
    BY DEF ListInv, ListTypeOK, Succeeded
  <2>2. Seen > offset
    BY <2>1, LimitType DEF Seen, ListInv, ListTypeOK
  <2>3. more /\ Place(p, public) >= Seen
    BY <2>1, <2>2 DEF ListInv, SeenInv
  <2>4. ~GoesOn /\ Seen = pages * Limit
    BY <2>1 DEF ListInv, PagesInv
  <2>5. all => pages = MaxPages
    BY <2>3, <2>4, ListingAssumption DEF GoesOn, ListInv, ListTypeOK
  <2> QED BY <2>3, <2>4, <2>5
<1> QED BY <1>1, ListInvariant, PTL

\* A prompt is listed twice only if it moved back under the list (handlers.go:70).
THEOREM ListDistinct == Spec => []NothingRepeated
<1>1. ListInv => NothingRepeated
  BY DEF ListInv, SeenInv, NothingRepeated, ListTypeOK
<1> QED BY <1>1, ListInvariant, PTL

\* A command that changes something keeps the promise of RemoteWrite: it is done once
\* at most, and never after a refusal (client.go:198).
THEOREM WritesKeepTheirPromise == Spec => ImplementsRemoteWrite
<1>1. Init => Promise!Init
  BY PromiseInitial DEF Init
<1>2. ListInv /\ ListInv' /\ [Next]_vars => [Promise!Next]_(Promise!promiseVars)
  BY NextIsCallNext, PromiseStep DEF ListInv, ListTypeOK
<1> QED BY <1>1, <1>2, ListInvariant, PTL DEF Spec, ImplementsRemoteWrite, Promise!Spec
=============================================================================
