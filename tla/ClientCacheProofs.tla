-------------------------- MODULE ClientCacheProofs --------------------------
(***************************************************************************)
(* Proofs about ClientCache, for all sets of prompts, devices and calls.   *)
(* As long as one process at a time uses the file, an installation has one *)
(* device id (DeviceInv).  If its stores are whole too, the cache is       *)
(* transparent (AnswersInv), and the window of random --fresh holds the    *)
(* ids drawn last (WindowInv, with the lemmas about Latest and Take, which *)
(* are proved by induction over the places of a list).                     *)
(***************************************************************************)
EXTENDS ClientCache, FiniteSetTheorems, WellFoundedInduction, TLAPS

\* The situation cache.go describes: one process, one connection.
OneProcess == \A c, d \in Procs : c = d

\* No process ends, and no statement fails, between those that store one answer.
Sequential == OneProcess /\ ~Torn

LEMMA ShownTyped ==
    ASSUME TypeOK, NEW r
    PROVE  Shown(r) \in Views /\ Shown(r) # None /\ Shown(r) \in Answers
<1>1. \A p \in Ids : server[p].version \in Nat
  BY DEF TypeOK, ServerRows
<1>2. Shown(r) \in Views
  BY <1>1 DEF Shown, Views
<1>. QED
  BY <1>2, ServedAssumption DEF Answers

LEMMA InitTypes == Init => TypeOK
<1>. SUFFICES ASSUME Init PROVE TypeOK
  OBVIOUS
<1>1. IdleCall \in Calls
  BY CacheAssumption DEF IdleCall, NewCall, Calls, Steps, Answers
<1>2. server \in [Ids -> ServerRows]
  BY DEF Init, ServedInit, ServerRows
<1>. QED
  BY <1>1, <1>2, CacheAssumption DEF Init, TypeOK, Answers

LEMMA BecomesTyped ==
    ASSUME TypeOK, NEW c \in Procs, NEW new \in Calls, Becomes(c, new)
    PROVE  call' \in [Procs -> Calls]
BY DEF TypeOK, Becomes

LEMMA EndTyped ==
    ASSUME TypeOK, NEW c \in Procs, End(c)
    PROVE  call' \in [Procs -> Calls]
<1>1. IdleCall \in Calls
  BY CacheAssumption DEF IdleCall, NewCall, Steps, Answers, Calls
<1>. QED
  BY <1>1, BecomesTyped DEF End

LEMMA GoTyped ==
    ASSUME TypeOK, NEW c \in Procs, NEW at \in Steps, Go(c, at)
    PROVE  call' \in [Procs -> Calls]
<1>1. [call[c] EXCEPT !.at = at] \in Calls
  BY DEF TypeOK, Calls
<1>. QED
  BY <1>1, BecomesTyped DEF Go

LEMMA AfterStoreTyped ==
    ASSUME TypeOK, NEW c \in Procs, AfterStore(c)
    PROVE  call' \in [Procs -> Calls]
BY GoTyped, EndTyped DEF AfterStore, Steps

LEMMA ReadTypes == ASSUME TypeOK, NEW c \in Procs, ReadStep(c) PROVE TypeOK'
<1>0. call[c] \in Calls
  BY DEF TypeOK
<1>1. ASSUME NEW r \in Resources, StartRead(c, r) PROVE TypeOK'
  <2>1. NewCall("read", "ask", r, tag[r], None) \in Calls
    BY CacheAssumption DEF NewCall, Calls, Steps, Answers, TypeOK
  <2>2. call' \in [Procs -> Calls]
    BY <1>1, <2>1, BecomesTyped DEF StartRead, Begin
  <2>. QED
    BY <1>1, <2>2 DEF StartRead, Quiet, fileVars, TypeOK
<1>2. CASE ServeNotModified(c) \/ ServeRead(c)
  <2>. DEFINE x == Shown(call[c].res)
  <2>1. /\ [call[c] EXCEPT !.at = "confirmed", !.reply = x] \in Calls
        /\ [call[c] EXCEPT !.at = "tag", !.reply = x] \in Calls
    BY <1>0, ShownTyped DEF Calls, Steps
  <2>2. call' \in [Procs -> Calls]
    BY <1>2, <2>1, BecomesTyped DEF ServeNotModified, ServeRead
  <2>. QED
    BY <1>2, <2>2 DEF ServeNotModified, ServeRead, Quiet, fileVars, TypeOK
<1>3. CASE ReadCopy(c)
  <2>1. NewCall("read", "ask", call[c].res, None, None) \in Calls
    BY <1>0, CacheAssumption DEF NewCall, Calls, Steps, Answers
  <2>2. call' \in [Procs -> Calls]
    BY <1>3, <2>1, BecomesTyped, EndTyped DEF ReadCopy
  <2>. QED
    BY <1>3, <2>2 DEF ReadCopy, Quiet, fileVars, TypeOK
<1>4. CASE StoreTag(c)
  <2>1. call' \in [Procs -> Calls]
    BY <1>4, GoTyped DEF StoreTag, Steps
  <2>2. tag' \in [Resources -> Answers]
    BY <1>0, <1>4 DEF StoreTag, TypeOK, Calls
  <2>. QED
    BY <1>4, <2>1, <2>2 DEF StoreTag, Quiet, TypeOK
<1>. QED
  BY <1>1, <1>2, <1>3, <1>4 DEF ReadStep

LEMMA StoreTypes == ASSUME TypeOK, NEW c \in Procs, StoreStep(c) PROVE TypeOK'
<1>0. call[c] \in Calls
  BY DEF TypeOK
<1>1. CASE SelectOld(c)
  <2>1. [call[c] EXCEPT !.at = "insert", !.changed = copy[call[c].res] # call[c].reply] \in Calls
    BY <1>0 DEF Calls, Steps
  <2>2. call' \in [Procs -> Calls]
    BY <1>1, <2>1, BecomesTyped DEF SelectOld
  <2>. QED
    BY <1>1, <2>2 DEF SelectOld, Quiet, fileVars, TypeOK
<1>2. CASE Insert(c)
  <2>1. call' \in [Procs -> Calls]
    BY <1>2, GoTyped, AfterStoreTyped DEF Insert, Steps
  <2>2. copy' \in [Resources -> Answers]
    BY <1>0, <1>2 DEF Insert, TypeOK, Calls
  <2>. QED
    BY <1>2, <2>1, <2>2 DEF Insert, Quiet, TypeOK
<1>3. CASE EraseTag(c)
  <2>1. call' \in [Procs -> Calls]
    BY <1>3, AfterStoreTyped DEF EraseTag
  <2>. QED
    BY <1>3, <2>1 DEF EraseTag, Quiet, TypeOK, Answers
<1>. QED
  BY <1>1, <1>2, <1>3 DEF StoreStep

LEMMA SyncTypes == ASSUME TypeOK, NEW c \in Procs, SyncStep(c) PROVE TypeOK'
<1>0. call[c] \in Calls
  BY DEF TypeOK
<1>1. ASSUME NEW p \in Ids, StartSync(c, p) PROVE TypeOK'
  <2>1. NewCall("sync", "ask", p, None, None) \in Calls
    BY CacheAssumption DEF NewCall, Calls, Steps, Answers, Resources
  <2>2. call' \in [Procs -> Calls]
    BY <1>1, <2>1, BecomesTyped DEF StartSync, Begin
  <2>. QED
    BY <1>1, <2>2 DEF StartSync, Quiet, fileVars, TypeOK
<1>2. CASE ServeDelta(c)
  <2>1. [call[c] EXCEPT !.at = "select", !.reply = Shown(call[c].res)] \in Calls
    BY <1>0, ShownTyped DEF Calls, Steps
  <2>2. call' \in [Procs -> Calls]
    BY <1>2, <2>1, BecomesTyped, GoTyped DEF ServeDelta, Steps
  <2>. QED
    BY <1>2, <2>2 DEF ServeDelta, Quiet, fileVars, TypeOK
<1>3. CASE DeleteRow(c)
  <2>1. call' \in [Procs -> Calls]
    BY <1>3, EndTyped DEF DeleteRow
  <2>. QED
    BY <1>3, <2>1 DEF DeleteRow, Quiet, TypeOK, Answers
<1>. QED
  BY <1>1, <1>2, <1>3 DEF SyncStep

LEMMA RandomTypes == ASSUME TypeOK, NEW c \in Procs, RandomStep(c) PROVE TypeOK'
<1>0. call[c] \in Calls
  BY DEF TypeOK
<1>1. ASSUME NEW fresh \in BOOLEAN, StartRandom(c, fresh) PROVE TypeOK'
  <2>1. NewCall("random", "ask", None, None, None) \in Calls
    BY CacheAssumption DEF NewCall, Calls, Steps, Answers
  <2>2. call' \in [Procs -> Calls]
    BY <1>1, <2>1, BecomesTyped DEF StartRandom, Begin
  <2>. QED
    BY <1>1, <2>2 DEF StartRandom, fileVars, TypeOK
<1>2. CASE ServeRandom(c)
  <2>1. PICK p \in Ids : Becomes(c, [call[c] EXCEPT !.at = "select", !.res = p, !.reply = Shown(p)])
    BY <1>2 DEF ServeRandom, Candidates
  <2>2. [call[c] EXCEPT !.at = "select", !.res = p, !.reply = Shown(p)] \in Calls
    BY <1>0, ShownTyped DEF Calls, Steps, Resources
  <2>3. call' \in [Procs -> Calls]
    BY <2>1, <2>2, BecomesTyped
  <2>. QED
    BY <1>2, <2>3 DEF ServeRandom, fileVars, TypeOK
<1>3. CASE ReadWindow(c) \/ WriteWindow(c)
  <2>1. call' \in [Procs -> Calls]
    BY <1>3, EndTyped, GoTyped DEF ReadWindow, WriteWindow, Steps
  <2>. QED
    BY <1>3, <2>1 DEF ReadWindow, WriteWindow, fileVars, TypeOK
<1>. QED
  BY <1>1, <1>2, <1>3 DEF RandomStep

LEMMA ScoreTypes == 
    ASSUME TypeOK, NEW c \in Procs, ScoreStep(c), call[c].at = "post" => call[c].dev # None
    PROVE  TypeOK'
<1>0. call[c] \in Calls
  BY DEF TypeOK
<1>1. CASE StartScore(c)
  <2>1. NewCall("score", IF device = None THEN "draw" ELSE "post",
                          None, None, device) \in Calls
    BY CacheAssumption DEF NewCall, Calls, Steps, Answers, TypeOK
  <2>2. call' \in [Procs -> Calls]
    BY <1>1, <2>1, BecomesTyped DEF StartScore, Begin
  <2>. QED
    BY <1>1, <2>2 DEF StartScore, Quiet, fileVars, TypeOK
<1>2. CASE DrawDevice(c)
  <2>1. PICK d \in Devices : Becomes(c, [call[c] EXCEPT !.at = "keep", !.dev = d])
    BY <1>2 DEF DrawDevice
  <2>2. [call[c] EXCEPT !.at = "keep", !.dev = d] \in Calls
    BY <1>0 DEF Calls, Steps
  <2>3. call' \in [Procs -> Calls]
    BY <2>1, <2>2, BecomesTyped
  <2>. QED
    BY <1>2, <2>3 DEF DrawDevice, Quiet, fileVars, TypeOK
<1>3. CASE KeepDevice(c)
  <2>1. call' \in [Procs -> Calls]
    BY <1>3, GoTyped DEF KeepDevice, Steps
  <2>. QED
    BY <1>0, <1>3, <2>1 DEF KeepDevice, Quiet, TypeOK, Calls
<1>4. CASE Post(c)
  <2>1. call' \in [Procs -> Calls]
    BY <1>4, EndTyped DEF Post
  <2>2. call[c].dev \in Devices
    BY <1>0, <1>4 DEF Post, At, Calls
  <2>. QED
    BY <1>4, <2>1, <2>2 DEF Post, fileVars, TypeOK
<1>. QED
  BY <1>1, <1>2, <1>3, <1>4 DEF ScoreStep

LEMMA PurgeTypes == ASSUME TypeOK, NEW c \in Procs, PurgeStep(c) PROVE TypeOK'
<1>1. CASE PurgeRows(c)
  <2>1. NewCall("purge", "kv", None, None, None) \in Calls
    BY CacheAssumption DEF NewCall, Calls, Steps, Answers
  <2>2. call' \in [Procs -> Calls]
    BY <1>1, <2>1, BecomesTyped DEF PurgeRows, Begin
  <2>. QED
    BY <1>1, <2>2 DEF PurgeRows, Quiet, TypeOK, Answers
<1>2. CASE PurgeKV(c)
  <2>1. call' \in [Procs -> Calls]
    BY <1>2, EndTyped DEF PurgeKV
  <2>. QED
    BY <1>2, <2>1 DEF PurgeKV, TypeOK, Answers
<1>3. CASE ClearRecent(c)
  BY <1>3 DEF ClearRecent, TypeOK
<1>. QED
  BY <1>1, <1>2, <1>3 DEF PurgeStep

LEMMA FaultTypes == ASSUME TypeOK, NEW c \in Procs, FaultStep(c) PROVE TypeOK'
<1>0. call[c] \in Calls
  BY DEF TypeOK
<1>1. CASE Retry(c)
  <2>1. [call[c] EXCEPT !.tries = @ + 1] \in Calls
    BY <1>0, <1>1, CacheAssumption DEF Retry, Calls
  <2>2. call' \in [Procs -> Calls]
    BY <1>1, <2>1, BecomesTyped DEF Retry
  <2>. QED
    BY <1>1, <2>2 DEF Retry, Quiet, fileVars, TypeOK
<1>2. CASE GiveUp(c)
  <2>1. call' \in [Procs -> Calls]
    BY <1>2, EndTyped DEF GiveUp
  <2>. QED
    BY <1>2, <2>1 DEF GiveUp, fileVars, TypeOK
<1>3. CASE Stop(c)
  <2>1. call' \in [Procs -> Calls]
    BY <1>3, EndTyped DEF Stop
  <2>. QED
    BY <1>3, <2>1, CacheAssumption DEF Stop, fileVars, TypeOK
<1>4. CASE StatementFails(c)
  <2>1. call' \in [Procs -> Calls]
    BY <1>4, GoTyped DEF StatementFails, Steps
  <2>. QED
    BY <1>4, <2>1, CacheAssumption DEF StatementFails, fileVars, TypeOK
<1>. QED
  BY <1>1, <1>2, <1>3, <1>4 DEF FaultStep

LEMMA ReviewTypes == TypeOK /\ Review => TypeOK'
<1>. SUFFICES ASSUME TypeOK, NEW p \in Ids, NEW public \in BOOLEAN, Change(p, public),
                     UNCHANGED <<fileVars, call, list, faults, drawn, used>>
              PROVE  TypeOK'
  BY DEF Review
<1>1. [version |-> server[p].version + 1, public |-> public] \in ServerRows
  BY DEF TypeOK, ServerRows
<1>2. server' \in [Ids -> ServerRows]
  BY <1>1 DEF Change, TypeOK
<1>. QED
  BY <1>2 DEF fileVars, TypeOK

LEMMA InvInit == Init => AnswersInv
<1>. SUFFICES ASSUME Init PROVE AnswersInv
  OBVIOUS
<1>1. TypeOK
  BY InitTypes
<1>2. FileInv
  BY DEF Init, FileInv, TagSound, About, Resources
<1>3. \A c \in Procs : AnswerInv(c) /\ CallInv(c)
  BY DEF Init, AnswerInv, CallInv, DrawInv, At, IdleCall, NewCall
<1>. QED
  BY <1>1, <1>2, <1>3 DEF Init, AnswersInv

-----------------------------------------------------------------------------
(* The invariant, one process c at a time *)

\* AnswersInv without the types, said of the only process.
Kept(c) ==
    /\ \A p \in Ids : About(p, tag[p])
    /\ \A r \in Resources : TagSound(r) \/ Between(c, r)
    /\ AnswerInv(c) /\ CallInv(c)
    /\ used \subseteq {device}

\* What the server answers about a public prompt is about that prompt, and no
\* older than the ETag kept for it.
LEMMA ShownAbout ==
    ASSUME TypeOK, NEW p \in Ids, Public(p), About(p, tag[p])
    PROVE  /\ About(p, Shown(p)) /\ Shown(p) # None
           /\ tag[p] # None => tag[p][p] <= Shown(p)[p]
<1>1. server[p].version \in Nat
  BY DEF TypeOK, ServerRows
<1>2. Shown(p)[p] = server[p].version
  BY DEF Shown
<1>3. \A q \in Ids \ {p} : Shown(p)[q] = 0
  BY ServedAssumption DEF Shown
<1>4. About(p, Shown(p))
  BY <1>1, <1>2, <1>3 DEF About
<1>5. tag[p] # None => tag[p][p] <= Shown(p)[p]
  BY <1>2 DEF About
<1>. QED
  BY <1>4, <1>5, ShownTyped

LEMMA KeptIsInv ==
    ASSUME Sequential, NEW c \in Procs
    PROVE  AnswersInv <=> TypeOK /\ Kept(c)
<1>1. \A d \in Procs : d = c
  BY DEF Sequential, OneProcess
<1>. QED
  BY <1>1 DEF AnswersInv, FileInv, Kept

\* Steps that leave the file alone and end the call, or take it from one step to
\* the next, disturb what is said of the call only.
LEMMA FileUntouched ==
    ASSUME NEW c \in Procs, Kept(c), UNCHANGED <<server, fileVars, used>>,
           \A r \in Resources : Between(c, r) => Between(c, r)' \/ TagSound(r),
           AnswerInv(c)', CallInv(c)'
    PROVE  Kept(c)'
BY DEF Kept, fileVars, About, TagSound, Dead

LEMMA EndKeeps ==
    ASSUME TypeOK, NEW c \in Procs, Kept(c), UNCHANGED <<server, fileVars, used>>, End(c),
           call[c].op # "read" \/ call[c].at \notin {"select", "insert"}
    PROVE  Kept(c)'
<1>1. call'[c] = IdleCall
  BY DEF TypeOK, End, Becomes
<1>2. AnswerInv(c)' /\ CallInv(c)'
  BY <1>1 DEF AnswerInv, CallInv, DrawInv, At, IdleCall, NewCall
<1>. QED
  BY <1>2, FileUntouched DEF Between

LEMMA ReadKeeps ==
    ASSUME TypeOK, NEW c \in Procs, Kept(c), ReadStep(c)
    PROVE  Kept(c)'
<1>. DEFINE r == call[c].res
<1>0. call[c] \in Calls
  BY DEF TypeOK
<1>1. ASSUME NEW q \in Resources, StartRead(c, q) PROVE Kept(c)'
  <2>1. /\ call[c] = IdleCall
        /\ call'[c] = NewCall("read", "ask", q, tag[q], None)
        /\ UNCHANGED <<server, fileVars, used>>
    BY <1>1 DEF StartRead, Begin, Becomes, Quiet, TypeOK
  <2>2. AnswerInv(c)' /\ CallInv(c)'
    BY <2>1 DEF AnswerInv, CallInv, DrawInv, At, NewCall, fileVars
  <2>. QED
    BY <2>1, <2>2, FileUntouched DEF Between, IdleCall, NewCall
<1>2. CASE ServeNotModified(c)
  <2>. DEFINE x == Shown(r)
  <2>1. /\ At(c, "read", "ask") /\ call[c].cond = x /\ Found(r)
        /\ call'[c] = [call[c] EXCEPT !.at = "confirmed", !.reply = x]
        /\ UNCHANGED <<server, fileVars, used>>
    BY <1>2 DEF ServeNotModified, Becomes, Matches, Quiet, TypeOK
  <2>2. r \in Resources /\ tag[r] = x /\ tag[r] # None
    BY <2>1, ShownTyped DEF Kept, CallInv, DrawInv, At
  <2>3. ~Dead(r)
    BY <2>1, <2>2 DEF Dead, Found, Shown, Public, TypeOK, ServerRows
  <2>4. copy[r] \in {None, x}
    BY <2>1, <2>2, <2>3 DEF Kept, TagSound, Between, At
  <2>5. /\ call'[c].at = "confirmed" /\ call'[c].op = "read" /\ call'[c].reply = x
        /\ call'[c].res = r /\ call'[c].changed = call[c].changed
    BY <2>1, <1>0 DEF Calls, At
  <2>6. AnswerInv(c)' /\ CallInv(c)'
    BY <2>1, <2>2, <2>4, <2>5 DEF AnswerInv, CallInv, DrawInv, At, Kept, fileVars
  <2>. QED
    BY <2>1, <2>6, FileUntouched DEF Between, At
<1>3. CASE ServeRead(c)
  <2>. DEFINE x == Shown(r)
  <2>1. /\ At(c, "read", "ask") /\ Found(r)
        /\ call'[c] = [call[c] EXCEPT !.at = "tag", !.reply = x]
        /\ UNCHANGED <<server, fileVars, used>>
    BY <1>3 DEF ServeRead, Becomes, Quiet, TypeOK
  <2>2. /\ call'[c].at = "tag" /\ call'[c].op = "read" /\ call'[c].reply = x
        /\ call'[c].res = r /\ r \in Resources
        /\ call'[c].changed = call[c].changed
    BY <2>1, <1>0 DEF Calls, At, Kept, CallInv, DrawInv
  <2>3. r \in Ids => /\ About(r, x) /\ x[r] = server[r].version
                     /\ tag[r] # None => tag[r][r] <= x[r]
    BY <2>1, ServedAssumption DEF Found, Shown, Public, About, Kept, TypeOK, ServerRows
  <2>4. AnswerInv(c)' /\ CallInv(c)'
    BY <2>1, <2>2, <2>3, ShownTyped DEF AnswerInv, CallInv, DrawInv, Kept, At, fileVars, About
  <2>. QED
    BY <2>1, <2>4, FileUntouched DEF Between, At
<1>4. CASE ReadCopy(c)
  <2>1. CASE End(c)
    BY <1>4, <2>1, EndKeeps DEF ReadCopy, At, Quiet
  <2>2. CASE ~End(c)
    <3>1. /\ At(c, "read", "confirmed")
          /\ call'[c] = NewCall("read", "ask", r, None, None)
          /\ UNCHANGED <<server, fileVars, used>>
      BY <1>4, <2>2 DEF ReadCopy, Becomes, Quiet, TypeOK
    <3>2. AnswerInv(c)' /\ CallInv(c)'
      BY <3>1 DEF AnswerInv, CallInv, DrawInv, At, NewCall, Kept
    <3>. QED
      BY <3>1, <3>2, FileUntouched DEF Between, At
  <2>. QED
    BY <2>1, <2>2
<1>5. CASE StoreTag(c)
  <2>r. PICK s : s = call[c].res
    OBVIOUS
  <2>x. PICK x : x = call[c].reply
    OBVIOUS
  <2>1. /\ At(c, "read", "tag")
        /\ tag' = [tag EXCEPT ![s] = x]
        /\ call'[c] = [call[c] EXCEPT !.at = IF s = Meta THEN "insert" ELSE "select"]
        /\ UNCHANGED <<server, copy, device, used>>
    BY <2>r, <2>x, <1>5 DEF StoreTag, Go, Becomes, Quiet, TypeOK
  <2>2. /\ call'[c].at = IF s = Meta THEN "insert" ELSE "select"
        /\ call'[c].op = "read" /\ call'[c].reply = x /\ call'[c].res = s
        /\ call'[c].changed = call[c].changed
    BY <2>r, <2>x, <2>1, <1>0 DEF Calls, At
  <2>3. /\ s \in Resources /\ x # None
        /\ s \in Ids => About(s, x)
    BY <2>r, <2>x, <2>1 DEF At, Kept, AnswerInv
  <2>4. tag'[s] = x /\ \A z \in Resources \ {s} : tag'[z] = tag[z]
    BY <2>r, <2>x, <2>1, <2>3 DEF TypeOK
  <2>5. \A p \in Ids : About(p, tag[p])'
    BY <2>r, <2>x, <2>1, <2>3, <2>4 DEF Kept, About, Resources
  <2>6. \A z \in Resources : TagSound(z)' \/ Between(c, z)'
    <3>1. Between(c, s)'
      BY <2>r, <2>x, <2>2 DEF Between
    <3>2. ASSUME NEW z \in Resources \ {s} PROVE TagSound(z)'
      BY <2>r, <2>x, <2>1, <2>4, <3>2 DEF Kept, Between, At, TagSound, Dead
    <3>. QED
      BY <3>1, <3>2
  <2>7. x \in Views /\ (s \in Ids => x[s] \in Nat)
    BY <2>r, <2>x, <1>0, <2>3 DEF Calls, Answers, Views
  <2>8. AnswerInv(c)'
    BY <2>r, <2>x, <2>1, <2>2, <2>3, <2>4, <2>7 DEF AnswerInv, About, Resources
  <2>9. CallInv(c)'
    BY <2>r, <2>x, <2>2, <2>3, <2>4 DEF CallInv, DrawInv, Kept, At
  <2>. QED
    BY <2>r, <2>x, <2>1, <2>5, <2>6, <2>8, <2>9 DEF Kept
<1>. QED
  BY <1>1, <1>2, <1>3, <1>4, <1>5 DEF ReadStep

LEMMA StoreKeeps ==
    ASSUME TypeOK, NEW c \in Procs, Kept(c), StoreStep(c)
    PROVE  Kept(c)'
<1>r. PICK r : r = call[c].res
  OBVIOUS
<1>x. PICK x : x = call[c].reply
  OBVIOUS
<1>0. call[c] \in Calls
  BY <1>r, <1>x DEF TypeOK
<1>1. CASE SelectOld(c)
  <2>1. /\ call[c].at = "select"
        /\ call'[c] = [call[c] EXCEPT !.at = "insert", !.changed = copy[r] # x]
        /\ UNCHANGED <<server, fileVars, used>>
    BY <1>r, <1>x, <1>1 DEF SelectOld, Becomes, Quiet, TypeOK
  <2>2. /\ call'[c].at = "insert" /\ call'[c].reply = x /\ call'[c].res = r
        /\ call'[c].op = call[c].op /\ call'[c].changed = (copy[r] # x)
    BY <1>r, <1>x, <2>1, <1>0 DEF Calls
  <2>3. r \in Ids /\ r \in Resources /\ r # Meta
    BY <1>r, <1>x, <2>1, ServedAssumption DEF Kept, AnswerInv, Resources
  <2>4. AnswerInv(c)'
    BY <1>r, <1>x, <2>1, <2>2, <2>3 DEF Kept, AnswerInv, fileVars, About
  <2>5. CallInv(c)'
    BY <1>r, <1>x, <2>1, <2>2, <2>3 DEF CallInv, DrawInv, At, fileVars
  <2>. QED
    <3>1. \A q \in Resources : Between(c, q) => Between(c, q)'
      BY <1>r, <2>1, <2>2 DEF Between
    <3>. QED
      BY <2>1, <2>4, <2>5, <3>1, FileUntouched
<1>2. CASE Insert(c)
  <2>1. /\ call[c].at = "insert"
        /\ copy' = [copy EXCEPT ![r] = x]
        /\ UNCHANGED <<server, tag, device, used>>
        /\ IF call[c].changed THEN Go(c, "erase") ELSE AfterStore(c)
    BY <1>r, <1>x, <1>2 DEF Insert, Quiet
  <2>2. r \in Resources /\ x # None
    BY <1>r, <1>x, <2>1 DEF Kept, AnswerInv
  <2>3. copy'[r] = x /\ \A q \in Resources \ {r} : copy'[q] = copy[q]
    BY <1>r, <1>x, <2>1, <2>2 DEF TypeOK
  <2>4. TagSound(r)'
    <3>1. CASE r = Meta
      BY <1>r, <1>x, <2>1, <2>3, <3>1 DEF Kept, CallInv, DrawInv, TagSound
    <3>2. CASE r \in Ids /\ tag[r] # None
      <4>1. /\ tag[r] \in Views /\ x \in Views
            /\ About(r, tag[r]) /\ About(r, x) /\ tag[r][r] <= x[r]
        BY <1>r, <1>x, <1>0, <2>1, <2>2, <3>2 DEF Kept, AnswerInv, TypeOK, Calls, Answers
      <4>2. CASE tag[r][r] = x[r]
        <5>1. \A q \in Ids : tag[r][q] = x[q]
          BY <1>r, <1>x, <2>2, <3>2, <4>1, <4>2 DEF About
        <5>2. tag[r] = x
          BY <1>r, <1>x, <4>1, <5>1 DEF Views
        <5>. QED
          BY <1>r, <1>x, <2>1, <2>3, <5>2 DEF TagSound
      <4>3. CASE tag[r][r] < x[r]
        <5>1. /\ x[r] <= server[r].version /\ tag[r][r] \in Nat /\ x[r] \in Nat
              /\ server[r].version \in Nat
          BY <1>r, <1>x, <2>2, <3>2, <4>1 DEF About, Views, TypeOK, ServerRows
        <5>2. tag[r][r] < server[r].version
          BY <1>r, <1>x, <4>3, <5>1
        <5>. QED
          BY <1>r, <1>x, <2>1, <3>2, <5>2 DEF TagSound, Dead
      <4>4. tag[r][r] \in Nat /\ x[r] \in Nat
        BY <1>r, <1>x, <3>2, <4>1 DEF Views
      <4>. QED
        BY <1>r, <1>x, <4>1, <4>2, <4>3, <4>4
    <3>3. CASE tag[r] = None
      BY <1>r, <1>x, <2>1, <3>3 DEF TagSound
    <3>. QED
      BY <1>r, <1>x, <2>2, <3>1, <3>2, <3>3 DEF Resources
  <2>5. \A q \in Resources : TagSound(q)'
    <3>1. ASSUME NEW q \in Resources \ {r} PROVE TagSound(q)'
      BY <1>r, <1>x, <2>1, <2>3, <3>1 DEF Kept, TagSound, Dead, Between
    <3>. QED
      BY <1>r, <1>x, <2>4, <3>1
  <2>6. AnswerInv(c)' /\ CallInv(c)'
    <3>1. CASE call[c].changed
      <4>0. call'[c] = [call[c] EXCEPT !.at = "erase"]
        BY <2>1, <3>1 DEF Go, Becomes, TypeOK
      <4>1. /\ call'[c].at = "erase" /\ call'[c].reply = x /\ call'[c].res = r
            /\ call'[c].op = call[c].op /\ call'[c].changed = call[c].changed
        BY <1>r, <1>x, <1>0, <4>0 DEF Calls
      <4>2. r \in Ids
        <5>1. call[c].changed => r # Meta
          BY <1>r, <1>x, <2>1, <3>1 DEF Kept, CallInv, DrawInv
        <5>. QED
          BY <1>r, <1>x, <2>2, <3>1, <5>1 DEF Resources
      <4>. QED
        BY <1>r, <1>x, <2>1, <2>2, <2>3, <4>1, <4>2, ServedAssumption
           DEF Kept, AnswerInv, CallInv, DrawInv, At, About
    <3>2. CASE ~call[c].changed
      <4>1. \/ call'[c] = IdleCall
            \/ /\ call'[c].at = "window" /\ call'[c].op = "random"
               /\ call'[c].res = r /\ call'[c].changed = call[c].changed
        BY <1>r, <1>x, <1>0, <2>1, <3>2
           DEF AfterStore, Go, End, Becomes, Calls, TypeOK
      <4>. QED
        BY <1>r, <1>x, <4>1 DEF AnswerInv, CallInv, DrawInv, Kept, At, IdleCall, NewCall
    <3>. QED
      BY <1>r, <1>x, <3>1, <3>2
  <2>. QED
    BY <1>r, <1>x, <2>1, <2>5, <2>6 DEF Kept, About
<1>3. CASE EraseTag(c)
  <2>1. /\ call[c].at = "erase"
        /\ tag' = [tag EXCEPT ![r] = None]
        /\ UNCHANGED <<server, copy, device, used>>
        /\ AfterStore(c)
    BY <1>r, <1>x, <1>3 DEF EraseTag, Quiet
  <2>2. \A q \in Resources : tag'[q] = None \/ tag'[q] = tag[q]
    BY <1>r, <1>x, <2>1 DEF TypeOK
  <2>3. \A q \in Resources : TagSound(q)'
    BY <1>r, <1>x, <2>1, <2>2 DEF Kept, TagSound, Dead, Between
  <2>4. \/ call'[c] = IdleCall
        \/ /\ call'[c].at = "window" /\ call'[c].op = "random"
           /\ call'[c].res = r /\ call'[c].changed = call[c].changed
    BY <1>r, <1>x, <1>0, <2>1 DEF AfterStore, Go, End, Becomes, Calls, TypeOK
  <2>5. AnswerInv(c)' /\ CallInv(c)'
    BY <1>r, <1>x, <2>4 DEF AnswerInv, CallInv, DrawInv, Kept, At, IdleCall, NewCall
  <2>. QED
    BY <1>r, <1>x, <2>1, <2>2, <2>3, <2>5 DEF Kept, About, Resources
<1>. QED
  BY <1>r, <1>x, <1>1, <1>2, <1>3 DEF StoreStep

LEMMA SyncKeeps ==
    ASSUME TypeOK, NEW c \in Procs, Kept(c), SyncStep(c)
    PROVE  Kept(c)'
<1>r. PICK r : r = call[c].res
  OBVIOUS
<1>0. call[c] \in Calls
  BY DEF TypeOK
<1>1. ASSUME NEW p \in Ids, StartSync(c, p) PROVE Kept(c)'
  <2>1. /\ call[c] = IdleCall
        /\ call'[c] = NewCall("sync", "ask", p, None, None)
        /\ UNCHANGED <<server, fileVars, used>>
    BY <1>1 DEF StartSync, Begin, Becomes, Quiet, TypeOK
  <2>2. AnswerInv(c)' /\ CallInv(c)'
    BY <2>1 DEF AnswerInv, CallInv, DrawInv, At, NewCall
  <2>. QED
    BY <2>1, <2>2, FileUntouched DEF Between, IdleCall, NewCall
<1>2. CASE ServeDelta(c)
  <2>x. PICK x : x = Shown(r)
    OBVIOUS
  <2>1. /\ At(c, "sync", "ask") /\ r \in Ids
        /\ UNCHANGED <<server, fileVars, used>>
    BY <1>r, <1>2 DEF ServeDelta, Quiet, Kept, CallInv, DrawInv
  <2>2. CASE Public(r)
    <3>1. call'[c] = [call[c] EXCEPT !.at = "select", !.reply = x]
      BY <1>r, <1>2, <2>2, <2>x DEF ServeDelta, Becomes, TypeOK
    <3>2. /\ call'[c].at = "select" /\ call'[c].op = "sync" /\ call'[c].reply = x
          /\ call'[c].res = r /\ call'[c].changed = call[c].changed
      BY <1>r, <1>0, <2>1, <3>1 DEF Calls, At
    <3>3. /\ About(r, x) /\ x # None
          /\ tag[r] # None => tag[r][r] <= x[r]
      BY <2>1, <2>2, <2>x, ShownAbout DEF Kept
    <3>4. r # Meta /\ r \in Ids /\ r \in Resources /\ UNCHANGED <<server, tag>>
      BY <2>1, ServedAssumption DEF Resources, fileVars
    <3>5. About(r, x)'
      BY <3>3, <3>4 DEF About
    <3>6. AnswerInv(c)'
      BY <3>2, <3>3, <3>4, <3>5 DEF AnswerInv, About
    <3>7. CallInv(c)'
      BY <3>2, <3>4 DEF CallInv, DrawInv, At
    <3>. QED
      BY <2>1, <3>6, <3>7, FileUntouched DEF Between, At
  <2>3. CASE ~Public(r)
    <3>1. call'[c] = [call[c] EXCEPT !.at = "delete"]
      BY <1>r, <1>2, <2>3 DEF ServeDelta, Go, Becomes, TypeOK
    <3>2. /\ call'[c].at = "delete" /\ call'[c].op = "sync"
          /\ call'[c].res = r /\ call'[c].changed = call[c].changed
      BY <1>r, <1>0, <2>1, <3>1 DEF Calls, At
    <3>3. AnswerInv(c)' /\ CallInv(c)'
      BY <1>r, <2>1, <3>2 DEF AnswerInv, CallInv, DrawInv, Kept, At
    <3>. QED
      BY <2>1, <3>3, FileUntouched DEF Between, At
  <2>. QED
    BY <2>2, <2>3
<1>3. CASE DeleteRow(c)
  <2>1. /\ At(c, "sync", "delete") /\ r \in Ids
        /\ tag' = [tag EXCEPT ![r] = None] /\ copy' = [copy EXCEPT ![r] = None]
        /\ call'[c] = IdleCall
        /\ UNCHANGED <<server, device, used>>
    BY <1>r, <1>3 DEF DeleteRow, End, Becomes, Quiet, Kept, CallInv, DrawInv, TypeOK
  <2>2. \A q \in Resources : \/ tag'[q] = None
                             \/ tag'[q] = tag[q] /\ copy'[q] = copy[q]
    BY <2>1 DEF TypeOK
  <2>3. \A q \in Resources : TagSound(q)'
    BY <2>1, <2>2 DEF Kept, TagSound, Dead, Between, At
  <2>4. AnswerInv(c)' /\ CallInv(c)'
    BY <2>1 DEF AnswerInv, CallInv, DrawInv, At, IdleCall, NewCall
  <2>. QED
    BY <2>1, <2>2, <2>3, <2>4 DEF Kept, About, Resources
<1>. QED
  BY <1>1, <1>2, <1>3 DEF SyncStep

LEMMA RandomKeeps ==
    ASSUME TypeOK, NEW c \in Procs, Kept(c), RandomStep(c)
    PROVE  Kept(c)'
<1>0. call[c] \in Calls
  BY DEF TypeOK
<1>1. ASSUME NEW fresh \in BOOLEAN, StartRandom(c, fresh) PROVE Kept(c)'
  <2>1. /\ call[c] = IdleCall
        /\ call'[c] = NewCall("random", "ask", None, None, None)
        /\ UNCHANGED <<server, fileVars, used>>
    BY <1>1 DEF StartRandom, Begin, Becomes, TypeOK
  <2>2. AnswerInv(c)' /\ CallInv(c)'
    BY <2>1 DEF AnswerInv, CallInv, DrawInv, At, NewCall
  <2>. QED
    BY <2>1, <2>2, FileUntouched DEF Between, IdleCall, NewCall
<1>2. CASE ServeRandom(c)
  <2>1. PICK p \in Ids :
           Public(p) /\ Becomes(c, [call[c] EXCEPT !.at = "select", !.res = p,
                                                   !.reply = Shown(p)])
    BY <1>2 DEF ServeRandom, Candidates
  <2>x. PICK x : x = Shown(p)
    OBVIOUS
  <2>2. /\ At(c, "random", "ask")
        /\ call'[c] = [call[c] EXCEPT !.at = "select", !.res = p, !.reply = x]
        /\ UNCHANGED <<server, fileVars, used>>
    BY <1>2, <2>1, <2>x DEF ServeRandom, Becomes, TypeOK
  <2>3. /\ call'[c].at = "select" /\ call'[c].op = "random" /\ call'[c].reply = x
        /\ call'[c].res = p
    BY <1>0, <2>2 DEF Calls, At
  <2>p. Public(p)
    BY <2>1
  <2>4. /\ About(p, x) /\ x # None
        /\ tag[p] # None => tag[p][p] <= x[p]
    BY <2>p, <2>x, ShownAbout DEF Kept
  <2>5. p \in Resources /\ p # Meta
    BY ServedAssumption DEF Resources
  <2>6. About(p, x)' /\ UNCHANGED <<server, tag>>
    BY <2>2, <2>4 DEF About, fileVars
  <2>7. AnswerInv(c)'
    BY <2>3, <2>4, <2>5, <2>6 DEF AnswerInv, About
  <2>8. CallInv(c)'
    BY <2>3, <2>5 DEF CallInv, DrawInv, At
  <2>. QED
    BY <2>2, <2>7, <2>8, FileUntouched DEF Between, At
<1>3. CASE ReadWindow(c)
  <2>1. /\ At(c, "random", "window")
        /\ call'[c] = [call[c] EXCEPT !.at = "push"]
        /\ UNCHANGED <<server, fileVars, used>>
    BY <1>3 DEF ReadWindow, Go, Becomes, TypeOK
  <2>2. /\ call'[c].at = "push" /\ call'[c].op = "random"
        /\ call'[c].res = call[c].res /\ call'[c].changed = call[c].changed
    BY <1>0, <2>1 DEF Calls, At
  <2>3. AnswerInv(c)' /\ CallInv(c)'
    BY <2>2 DEF AnswerInv, CallInv, DrawInv, Kept, At
  <2>. QED
    BY <2>1, <2>3, FileUntouched DEF Between, At
<1>4. CASE WriteWindow(c)
  <2>1. /\ At(c, "random", "push") /\ call'[c] = IdleCall
        /\ UNCHANGED <<server, tag, copy, device, used>>
    BY <1>4 DEF WriteWindow, End, Becomes, TypeOK
  <2>2. AnswerInv(c)' /\ CallInv(c)'
    BY <2>1 DEF AnswerInv, CallInv, DrawInv, At, IdleCall, NewCall
  <2>3. \A q \in Resources : TagSound(q)'
    BY <2>1 DEF Kept, TagSound, Dead, Between, At
  <2>. QED
    BY <2>1, <2>2, <2>3 DEF Kept, About
<1>. QED
  BY <1>1, <1>2, <1>3, <1>4 DEF RandomStep

LEMMA ScoreKeeps ==
    ASSUME TypeOK, NEW c \in Procs, Kept(c), ScoreStep(c)
    PROVE  Kept(c)'
<1>0. call[c] \in Calls
  BY DEF TypeOK
<1>1. CASE StartScore(c)
  <2>1. /\ call[c] = IdleCall
        /\ call'[c] = NewCall("score", IF device = None THEN "draw" ELSE "post",
                              None, None, device)
        /\ UNCHANGED <<server, fileVars, used>>
    BY <1>1 DEF StartScore, Begin, Becomes, Quiet, TypeOK
  <2>2. AnswerInv(c)' /\ CallInv(c)'
    BY <2>1 DEF AnswerInv, CallInv, DrawInv, At, NewCall, fileVars
  <2>. QED
    BY <2>1, <2>2, FileUntouched DEF Between, IdleCall, NewCall
<1>2. CASE DrawDevice(c)
  <2>1. PICK d \in Devices : Becomes(c, [call[c] EXCEPT !.at = "keep", !.dev = d])
    BY <1>2 DEF DrawDevice
  <2>2. /\ At(c, "score", "draw")
        /\ call'[c] = [call[c] EXCEPT !.at = "keep", !.dev = d]
        /\ UNCHANGED <<server, fileVars, used>>
    BY <1>2, <2>1 DEF DrawDevice, Becomes, Quiet, TypeOK
  <2>3. /\ call'[c].at = "keep" /\ call'[c].op = "score" /\ call'[c].dev = d
        /\ call'[c].res = call[c].res /\ call'[c].changed = call[c].changed
    BY <1>0, <2>2 DEF Calls, At
  <2>4. AnswerInv(c)' /\ CallInv(c)'
    BY <2>2, <2>3, CacheAssumption DEF AnswerInv, CallInv, DrawInv, Kept, At, fileVars
  <2>. QED
    BY <2>2, <2>4, FileUntouched DEF Between, At
<1>3. CASE KeepDevice(c)
  <2>1. /\ At(c, "score", "keep") /\ device' = call[c].dev
        /\ call'[c] = [call[c] EXCEPT !.at = "post"]
        /\ UNCHANGED <<server, tag, copy, used>>
    BY <1>3 DEF KeepDevice, Go, Becomes, Quiet, TypeOK
  <2>2. /\ call'[c].at = "post" /\ call'[c].op = "score" /\ call'[c].dev = call[c].dev
        /\ call'[c].res = call[c].res /\ call'[c].changed = call[c].changed
    BY <1>0, <2>1 DEF Calls, At
  <2>3. device = None /\ used = {}
    BY <2>1, CacheAssumption DEF Kept, CallInv, DrawInv, At, TypeOK
  <2>4. AnswerInv(c)' /\ CallInv(c)'
    BY <2>1, <2>2 DEF AnswerInv, CallInv, DrawInv, Kept, At
  <2>5. \A q \in Resources : TagSound(q)'
    BY <2>1 DEF Kept, TagSound, Dead, Between, At
  <2>. QED
    BY <2>1, <2>3, <2>4, <2>5 DEF Kept, About
<1>4. CASE Post(c)
  <2>1. /\ At(c, "score", "post") /\ used' = used \cup {call[c].dev}
        /\ call'[c] = IdleCall
        /\ UNCHANGED <<server, fileVars>>
    BY <1>4 DEF Post, End, Becomes, TypeOK
  <2>2. AnswerInv(c)' /\ CallInv(c)'
    BY <2>1 DEF AnswerInv, CallInv, DrawInv, At, IdleCall, NewCall
  <2>3. \A q \in Resources : TagSound(q)'
    BY <2>1 DEF Kept, TagSound, Dead, Between, At, fileVars
  <2>. QED
    BY <2>1, <2>2, <2>3 DEF Kept, About, CallInv, DrawInv, At, fileVars
<1>. QED
  BY <1>1, <1>2, <1>3, <1>4 DEF ScoreStep

LEMMA PurgeKeeps ==
    ASSUME TypeOK, NEW c \in Procs, Kept(c), PurgeStep(c)
    PROVE  Kept(c)'
<1>1. CASE PurgeRows(c)
  <2>1. /\ call[c] = IdleCall
        /\ call'[c] = NewCall("purge", "kv", None, None, None)
        /\ copy' = [r \in Resources |-> IF r = Meta THEN copy[r] ELSE None]
        /\ UNCHANGED <<server, tag, device, used>>
    BY <1>1 DEF PurgeRows, Begin, Becomes, Quiet, TypeOK
  <2>2. AnswerInv(c)' /\ CallInv(c)'
    BY <2>1 DEF AnswerInv, CallInv, DrawInv, At, NewCall
  <2>3. \A q \in Resources : TagSound(q)'
    BY <2>1 DEF Kept, TagSound, Dead, Between, IdleCall, NewCall
  <2>. QED
    BY <2>1, <2>2, <2>3 DEF Kept, About
<1>2. CASE PurgeKV(c)
  <2>1. /\ tag' = [r \in Resources |-> None] /\ call'[c] = IdleCall
        /\ UNCHANGED <<server, device, used>>
    BY <1>2 DEF PurgeKV, End, Becomes, TypeOK
  <2>2. AnswerInv(c)' /\ CallInv(c)'
    BY <2>1 DEF AnswerInv, CallInv, DrawInv, At, IdleCall, NewCall
  <2>. QED
    BY <2>1, <2>2 DEF Kept, About, TagSound, Resources
<1>3. CASE ClearRecent(c)
  BY <1>3 DEF ClearRecent, Kept, About, TagSound, Dead, Between, AnswerInv, CallInv, DrawInv, At
<1>. QED
  BY <1>1, <1>2, <1>3 DEF PurgeStep

LEMMA FaultKeeps ==
    ASSUME TypeOK, ~Torn, NEW c \in Procs, Kept(c), FaultStep(c)
    PROVE  Kept(c)'
<1>0. call[c] \in Calls
  BY DEF TypeOK
<1>1. CASE Retry(c)
  <2>1. /\ call[c].at = "ask"
        /\ call'[c] = [call[c] EXCEPT !.tries = @ + 1]
        /\ UNCHANGED <<server, fileVars, used>>
    BY <1>1 DEF Retry, Becomes, Quiet, TypeOK
  <2>2. /\ call'[c].at = "ask" /\ call'[c].op = call[c].op /\ call'[c].res = call[c].res
        /\ call'[c].cond = call[c].cond /\ call'[c].reply = call[c].reply
        /\ call'[c].changed = call[c].changed
    BY <1>0, <2>1 DEF Calls
  <2>3. AnswerInv(c)' /\ CallInv(c)'
    BY <2>1, <2>2 DEF AnswerInv, CallInv, DrawInv, Kept, At, fileVars
  <2>. QED
    BY <2>1, <2>3, FileUntouched DEF Between
<1>2. CASE GiveUp(c)
  BY <1>2, EndKeeps DEF GiveUp
<1>3. CASE Stop(c)
  BY <1>3, EndKeeps DEF Stop, Storing
<1>4. CASE StatementFails(c)
  <2>1. CASE /\ At(c, "read", "tag") /\ (Torn \/ call[c].res # Meta)
             /\ Go(c, IF call[c].res = Meta THEN "insert" ELSE "select")
    <3>r. PICK r, x : r = call[c].res /\ x = call[c].reply
      OBVIOUS
    <3>1. /\ At(c, "read", "tag") /\ r # Meta
          /\ call'[c] = [call[c] EXCEPT !.at = IF r = Meta THEN "insert" ELSE "select"]
          /\ UNCHANGED <<server, fileVars, used>>
      <4>1. /\ At(c, "read", "tag") /\ r # Meta
            /\ Go(c, IF r = Meta THEN "insert" ELSE "select")
        BY <2>1, <3>r
      <4>2. UNCHANGED <<server, fileVars, used>>
        BY <1>4 DEF StatementFails
      <4>. QED
        BY <4>1, <4>2 DEF Go, Becomes, TypeOK
    <3>2. /\ call'[c].at = "select" /\ call'[c].op = "read" /\ call'[c].res = r
          /\ call'[c].reply = x /\ call'[c].changed = call[c].changed
      BY <1>0, <3>r, <3>1 DEF Calls, At
    <3>3. /\ r \in Ids /\ r \in Resources /\ x # None
          /\ About(r, x) /\ (tag[r] # None => tag[r][r] <= x[r])
          /\ UNCHANGED <<server, tag>>
      BY <3>1, <3>r DEF Kept, AnswerInv, At, Resources, fileVars
    <3>4. About(r, x)'
      BY <3>3 DEF About
    <3>5. AnswerInv(c)'
      BY <3>1, <3>2, <3>3, <3>4 DEF AnswerInv, About
    <3>6. CallInv(c)'
      BY <3>1, <3>2, <3>3 DEF CallInv, DrawInv, At
    <3>. QED
      BY <3>1, <3>5, <3>6, FileUntouched DEF Between, At
  <2>2. CASE /\ call[c].op = "random" /\ call[c].at \in {"select", "insert", "erase"}
             /\ Go(c, "window")
    <3>1. /\ call'[c] = [call[c] EXCEPT !.at = "window"]
          /\ UNCHANGED <<server, fileVars, used>>
      BY <1>4, <2>2 DEF StatementFails, Go, Becomes, TypeOK
    <3>2. /\ call'[c].at = "window" /\ call'[c].op = "random" /\ call'[c].res = call[c].res
          /\ call'[c].changed = call[c].changed
      BY <1>0, <2>2, <3>1 DEF Calls
    <3>3. AnswerInv(c)' /\ CallInv(c)'
      BY <3>2 DEF AnswerInv, CallInv, DrawInv, Kept, At
    <3>. QED
      BY <2>2, <3>1, <3>3, FileUntouched DEF Between
  <2>. QED
    BY <1>4, <2>1, <2>2 DEF StatementFails
<1>. QED
  BY <1>1, <1>2, <1>3, <1>4 DEF FaultStep

\* Versions only grow: what was dead stays dead.
LEMMA ReviewKeeps ==
    ASSUME TypeOK, NEW c \in Procs, Kept(c), Review
    PROVE  Kept(c)'
<1>1. /\ \A p \in Ids : server'[p].version >= server[p].version
      /\ UNCHANGED <<tag, copy, device, call, used>>
  BY DEF Review, Change, fileVars, TypeOK, ServerRows
<1>2. \A p \in Ids : server[p].version \in Nat /\ server'[p].version \in Nat
  BY ReviewTypes DEF TypeOK, ServerRows
<1>3. ASSUME NEW p \in Ids, NEW x \in Answers, About(p, x) PROVE About(p, x)'
  BY <1>1, <1>2, <1>3 DEF About, Answers, Views
<1>4. \A p \in Ids : About(p, tag[p])'
  BY <1>1, <1>3 DEF Kept, TypeOK, Resources
<1>5. ASSUME NEW q \in Resources, TagSound(q) PROVE TagSound(q)'
  <2>1. CASE Dead(q)
    <3>1. tag[q][q] \in Nat
      BY <2>1 DEF Dead, TypeOK, Resources, Answers, Views
    <3>. QED
      BY <1>1, <1>2, <2>1, <3>1 DEF Dead, TagSound
  <2>. QED
    BY <1>1, <1>5, <2>1 DEF TagSound
<1>6. \A q \in Resources : TagSound(q)' \/ Between(c, q)'
  BY <1>1, <1>5 DEF Kept, Between
<1>7. AnswerInv(c)'
  <2>. PICK r, x : r = call[c].res /\ x = call[c].reply
    OBVIOUS
  <2>1. x \in Answers
    BY DEF TypeOK, Calls
  <2>2. r \in Ids /\ About(r, x) => About(r, x)'
    BY <1>3, <2>1
  <2>. QED
    BY <1>1, <2>2 DEF Kept, AnswerInv
<1>8. CallInv(c)'
  BY <1>1 DEF Kept, CallInv, DrawInv, At
<1>. QED
  BY <1>1, <1>4, <1>6, <1>7, <1>8 DEF Kept

LEMMA StepTypes ==
    ASSUME TypeOK, Next, \A c \in Procs : DrawInv(c)
    PROVE  TypeOK'
<1>1. CASE Review
  BY <1>1, ReviewTypes
<1>2. ASSUME NEW c \in Procs, ScoreStep(c) PROVE TypeOK'
  <2>1. call[c].at = "post" => call[c].dev # None
    BY DEF DrawInv
  <2>. QED
    BY <1>2, <2>1, ScoreTypes
<1>. QED
  BY <1>1, <1>2, ReadTypes, StoreTypes, SyncTypes, RandomTypes, PurgeTypes, FaultTypes
     DEF Next

LEMMA StepKeeps ==
    ASSUME Sequential, TypeOK, NEW c \in Procs, Kept(c), Next
    PROVE  Kept(c)'
<1>1. CASE Review
  BY <1>1, ReviewKeeps
<1>2. \A d \in Procs : d = c
  BY DEF Sequential, OneProcess
<1>. QED
  BY <1>1, <1>2, ReadKeeps, StoreKeeps, SyncKeeps, RandomKeeps, ScoreKeeps, PurgeKeeps,
     FaultKeeps DEF Next, Sequential, OneProcess

\* With no process at all, the file stays as it was created.
LEMMA NobodyKeeps ==
    ASSUME TypeOK, FileInv, used \subseteq {device}, Procs = {}, Review
    PROVE  FileInv' /\ used' \subseteq {device'}
<1>1. /\ \A p \in Ids : server'[p].version >= server[p].version
      /\ UNCHANGED <<tag, copy, device, used>>
  BY DEF Review, Change, fileVars, TypeOK, ServerRows
<1>2. \A p \in Ids : server[p].version \in Nat /\ server'[p].version \in Nat
  BY ReviewTypes DEF TypeOK, ServerRows
<1>3. \A p \in Ids : tag[p] \in Answers
  BY DEF TypeOK, Resources
<1>4. \A p \in Ids : About(p, tag[p])'
  BY <1>1, <1>2, <1>3 DEF FileInv, About, Answers, Views
<1>5. ASSUME NEW q \in Resources PROVE TagSound(q)'
  <2>1. TagSound(q)
    BY DEF FileInv
  <2>2. CASE Dead(q)
    <3>1. tag[q][q] \in Nat
      BY <1>3, <2>2 DEF Dead, Answers, Views
    <3>. QED
      BY <1>1, <1>2, <2>2, <3>1 DEF Dead, TagSound
  <2>. QED
    BY <1>1, <2>1, <2>2 DEF TagSound
<1>. QED
  BY <1>1, <1>4, <1>5 DEF FileInv

LEMMA InvNext == ASSUME Sequential, AnswersInv, [Next]_vars PROVE AnswersInv'
<1>1. CASE UNCHANGED vars
  BY <1>1 DEF vars, fileVars, AnswersInv, TypeOK, FileInv, TagSound, Dead, About, Between,
              AnswerInv, CallInv, DrawInv, At
<1>2. CASE Next
  <2>1. TypeOK'
    BY <1>2, StepTypes DEF AnswersInv, CallInv
  <2>2. CASE Procs = {}
    <3>1. Review
      BY <1>2, <2>2 DEF Next
    <3>. QED
      BY <2>1, <2>2, <3>1, NobodyKeeps DEF AnswersInv
  <2>3. ASSUME NEW c \in Procs PROVE AnswersInv'
    <3>1. TypeOK /\ Kept(c)
      BY KeptIsInv
    <3>2. Kept(c)'
      BY <1>2, <3>1, StepKeeps
    <3>3. \A d \in Procs : d = c
      BY DEF Sequential, OneProcess
    <3>4. FileInv'
      BY <3>2 DEF Kept, FileInv
    <3>5. \A d \in Procs : AnswerInv(d)' /\ CallInv(d)'
      BY <3>2, <3>3 DEF Kept
    <3>. QED
      BY <2>1, <3>2, <3>4, <3>5 DEF AnswersInv, Kept
  <2>. QED
    BY <2>2, <2>3
<1>. QED
  BY <1>1, <1>2

LEMMA AnswersInvariant ==
    ASSUME Sequential
    PROVE  Spec => []AnswersInv
<1>1. Init => AnswersInv
  BY InvInit
<1>2. AnswersInv /\ [Next]_vars => AnswersInv'
  BY InvNext
<1>. QED
  BY <1>1, <1>2, PTL DEF Spec

\* A step that draws, keeps and sends no id leaves the three as they are.
LEMMA NoDeviceStep ==
    ASSUME NEW c \in Procs, UNCHANGED <<device, used>>, used \subseteq {device},
           DrawInv(c), call'[c] = call[c] \/ call'[c].at \notin {"draw", "keep", "post"}
    PROVE  used' \subseteq {device'} /\ DrawInv(c)'
BY DEF DrawInv

LEMMA OtherStepsDraw ==
    ASSUME TypeOK, NEW c \in Procs,
           \/ ReadStep(c) \/ StoreStep(c) \/ SyncStep(c) \/ RandomStep(c)
           \/ PurgeStep(c) \/ FaultStep(c)
    PROVE  /\ UNCHANGED <<device, used>>
           /\ call'[c] = call[c] \/ call'[c].at \notin {"draw", "keep", "post"}
<1>0. call[c] \in Calls /\ call \in [Procs -> Calls]
  BY DEF TypeOK
<1>a. ASSUME NEW new \in Calls, Becomes(c, new) PROVE call'[c] = new
  BY <1>0, <1>a DEF Becomes
<1>b. ASSUME NEW at \in Steps, Go(c, at) PROVE call'[c].at = at
  BY <1>0, <1>b DEF Go, Becomes, Calls
<1>c. End(c) => call'[c].at = "idle"
  BY <1>0 DEF End, Becomes, IdleCall, NewCall
<1>d. AfterStore(c) => call'[c].at \in {"window", "idle"}
  BY <1>b, <1>c DEF AfterStore, Steps
<1>1. CASE ReadStep(c)
  <2>1. ASSUME NEW r \in Resources, StartRead(c, r) PROVE call'[c].at = "ask"
    BY <1>0, <2>1 DEF StartRead, Begin, Becomes, NewCall
  <2>2. ServeNotModified(c) => call'[c].at = "confirmed"
    BY <1>0 DEF ServeNotModified, Becomes, Calls
  <2>3. ServeRead(c) => call'[c].at = "tag"
    BY <1>0 DEF ServeRead, Becomes, Calls
  <2>4. ReadCopy(c) => call'[c].at \in {"idle", "ask"}
    BY <1>0, <1>c DEF ReadCopy, Becomes, NewCall
  <2>5. StoreTag(c) => call'[c].at \in {"insert", "select"}
    BY <1>b DEF StoreTag, Steps
  <2>. QED
    BY <1>1, <2>1, <2>2, <2>3, <2>4, <2>5
       DEF ReadStep, StartRead, ServeNotModified, ServeRead, ReadCopy, StoreTag, fileVars, Quiet
<1>2. CASE StoreStep(c)
  <2>1. SelectOld(c) => call'[c].at = "insert"
    BY <1>0 DEF SelectOld, Becomes, Calls
  <2>2. Insert(c) => call'[c].at \in {"erase", "window", "idle"}
    BY <1>b, <1>d DEF Insert, Steps
  <2>3. EraseTag(c) => call'[c].at \in {"window", "idle"}
    BY <1>d DEF EraseTag
  <2>. QED
    BY <1>2, <2>1, <2>2, <2>3 DEF StoreStep, SelectOld, Insert, EraseTag, fileVars, Quiet
<1>3. CASE SyncStep(c)
  <2>1. ASSUME NEW p \in Ids, StartSync(c, p) PROVE call'[c].at = "ask"
    BY <1>0, <2>1 DEF StartSync, Begin, Becomes, NewCall
  <2>2. ServeDelta(c) => call'[c].at \in {"select", "delete"}
    BY <1>0, <1>b DEF ServeDelta, Becomes, Calls, Steps
  <2>. QED
    BY <1>3, <2>1, <2>2, <1>c DEF SyncStep, StartSync, ServeDelta, DeleteRow, fileVars, Quiet
<1>4. CASE RandomStep(c)
  <2>1. ASSUME NEW fresh \in BOOLEAN, StartRandom(c, fresh) PROVE call'[c].at = "ask"
    BY <1>0, <2>1 DEF StartRandom, Begin, Becomes, NewCall
  <2>2. ServeRandom(c) => call'[c].at = "select"
    BY <1>0 DEF ServeRandom, Becomes, Calls
  <2>3. ReadWindow(c) => call'[c].at = "push"
    BY <1>b DEF ReadWindow, Steps
  <2>. QED
    BY <1>4, <2>1, <2>2, <2>3, <1>c
       DEF RandomStep, StartRandom, ServeRandom, ReadWindow, WriteWindow, fileVars
<1>5. CASE PurgeStep(c)
  <2>1. PurgeRows(c) => call'[c].at = "kv"
    BY <1>0 DEF PurgeRows, Begin, Becomes, NewCall
  <2>. QED
    BY <1>5, <2>1, <1>c DEF PurgeStep, PurgeRows, PurgeKV, ClearRecent, Quiet
<1>6. CASE FaultStep(c)
  <2>1. Retry(c) => call'[c].at = "ask"
    BY <1>0 DEF Retry, Becomes, Calls
  <2>2. StatementFails(c) => call'[c].at \in {"insert", "select", "window"}
    BY <1>b DEF StatementFails, Steps
  <2>. QED
    BY <1>6, <2>1, <2>2, <1>c DEF FaultStep, Retry, GiveUp, Stop, StatementFails, fileVars, Quiet
<1>. QED
  BY <1>1, <1>2, <1>3, <1>4, <1>5, <1>6

\* The id drawn is kept before it is sent, and only one process draws.
LEMMA ScoreDraws ==
    ASSUME DeviceInv, NEW c \in Procs, ScoreStep(c)
    PROVE  used' \subseteq {device'} /\ DrawInv(c)'
<1>0. call[c] \in Calls /\ used \subseteq {device} /\ DrawInv(c)
  BY DEF DeviceInv, TypeOK
<1>1. CASE StartScore(c)
  <2>1. call'[c] = NewCall("score", IF device = None THEN "draw" ELSE "post", None, None, device)
    BY <1>1 DEF StartScore, Begin, Becomes, DeviceInv, TypeOK
  <2>2. UNCHANGED <<device, used>>
    BY <1>1 DEF StartScore, fileVars, Quiet
  <2>. QED
    BY <1>0, <2>1, <2>2 DEF DrawInv, NewCall
<1>2. CASE DrawDevice(c)
  <2>1. PICK d \in Devices : call'[c] = [call[c] EXCEPT !.at = "keep", !.dev = d]
    BY <1>2 DEF DrawDevice, Becomes, DeviceInv, TypeOK
  <2>2. call'[c].at = "keep" /\ call'[c].dev = d /\ d # None
    BY <1>0, <2>1, CacheAssumption DEF Calls
  <2>3. device = None /\ UNCHANGED <<device, used>>
    BY <1>0, <1>2 DEF DrawDevice, fileVars, Quiet, DrawInv, At
  <2>. QED
    BY <1>0, <2>2, <2>3 DEF DrawInv
<1>3. CASE KeepDevice(c)
  <2>1. /\ device' = call[c].dev /\ call[c].dev # None /\ device = None
        /\ used' = used
    BY <1>0, <1>3 DEF KeepDevice, At, DrawInv, Quiet
  <2>2. call'[c].at = "post" /\ call'[c].dev = call[c].dev
    BY <1>0, <1>3 DEF KeepDevice, Go, Becomes, Calls, DeviceInv, TypeOK
  <2>3. used = {}
    BY <1>0, <2>1, CacheAssumption DEF DeviceInv, TypeOK
  <2>. QED
    BY <2>1, <2>2, <2>3 DEF DrawInv
<1>4. CASE Post(c)
  <2>1. call'[c].at = "idle"
    BY <1>4 DEF Post, End, Becomes, IdleCall, NewCall, DeviceInv, TypeOK
  <2>2. used' = used \cup {call[c].dev} /\ call[c].dev = device /\ device' = device
    BY <1>0, <1>4 DEF Post, At, DrawInv, fileVars
  <2>. QED
    BY <1>0, <2>1, <2>2 DEF DrawInv
<1>. QED
  BY <1>1, <1>2, <1>3, <1>4 DEF ScoreStep

LEMMA DeviceNext == ASSUME OneProcess, DeviceInv, [Next]_vars PROVE DeviceInv'
<1>0. TypeOK /\ used \subseteq {device} /\ \A c \in Procs : DrawInv(c)
  BY DEF DeviceInv
<1>1. CASE UNCHANGED vars
  BY <1>0, <1>1 DEF vars, fileVars, DeviceInv, TypeOK, DrawInv
<1>2. CASE Next
  <2>1. TypeOK'
    BY <1>0, <1>2, StepTypes
  <2>2. CASE Review
    BY <1>0, <2>1, <2>2 DEF Review, fileVars, DeviceInv, DrawInv
  <2>3. ASSUME NEW c \in Procs,
               \/ ReadStep(c) \/ StoreStep(c) \/ SyncStep(c) \/ RandomStep(c)
               \/ ScoreStep(c) \/ PurgeStep(c) \/ FaultStep(c)
        PROVE  DeviceInv'
    <3>1. used' \subseteq {device'} /\ DrawInv(c)'
      BY <1>0, <2>3, OtherStepsDraw, NoDeviceStep, ScoreDraws
    <3>2. \A d \in Procs : d = c
      BY DEF OneProcess
    <3>. QED
      BY <2>1, <3>1, <3>2 DEF DeviceInv
  <2>. QED
    BY <1>2, <2>2, <2>3 DEF Next
<1>. QED
  BY <1>1, <1>2

\* One device id per installation (cache.go DeviceID, client.go Score), through
\* Purge, failed attempts, statements that fail and ends of the process anywhere,
\* as long as one process at a time uses the file.
THEOREM DeviceIsOne ==
    ASSUME OneProcess
    PROVE  Spec => []OneDevice
<1>1. Init => DeviceInv
  BY InitTypes DEF Init, DeviceInv, DrawInv, IdleCall, NewCall
<1>2. DeviceInv /\ [Next]_vars => DeviceInv'
  BY DeviceNext
<1>3. DeviceInv => OneDevice
  <2>. SUFFICES ASSUME DeviceInv PROVE OneDevice
    OBVIOUS
  <2>1. /\ IsFiniteSet({device}) /\ Cardinality({device}) = 1
    BY FS_Singleton
  <2>2. Cardinality(used) <= Cardinality({device})
    BY <2>1, FS_Subset DEF DeviceInv
  <2>. QED
    BY <2>1, <2>2 DEF OneDevice
<1>. QED
  BY <1>1, <1>2, <1>3, PTL DEF Spec

-----------------------------------------------------------------------------
(* ClientCache implements Reader *)

\* With one process, what it asked and got is all there is to map.
LEMMA OnlyOne ==
    ASSUME Sequential, NEW c \in Procs, NEW a, NEW g
    PROVE  /\ Asked'[c] = a => Asked' = [Asked EXCEPT ![c] = a]
           /\ Got'[c] = g => Got' = [Got EXCEPT ![c] = g]
<1>1. Procs = {c}
  BY DEF Sequential, OneProcess
<1>2. Asked' = [d \in {c} |-> Asked'[d]] /\ Got' = [d \in {c} |-> Got'[d]]
  BY <1>1 DEF Asked, Got
<1>3. DOMAIN Asked = {c} /\ DOMAIN Got = {c}
  BY <1>1 DEF Asked, Got
<1>. QED
  BY <1>2, <1>3

\* A step that neither reads nor is about to read, or goes on reading with the
\* same answer, is a stutter of Reader.
LEMMA Unnoticed ==
    ASSUME Sequential, NEW c \in Procs, UNCHANGED server,
           \/ ~Reading(c) /\ ~Reading(c)'
           \/ /\ Reading(c) /\ Reading(c)' /\ call'[c].res = call[c].res
              /\ Got'[c] = Got[c]
    PROVE  UNCHANGED <<server, Asked, Got>>
<1>1. Procs = {c}
  BY DEF Sequential, OneProcess
<1>2. Asked'[c] = Asked[c] /\ Got'[c] = Got[c]
  BY DEF Asked, Got, Reading
<1>3. Asked' = [d \in {c} |-> Asked'[d]] /\ Got' = [d \in {c} |-> Got'[d]]
  BY <1>1 DEF Asked, Got
<1>4. Asked = [d \in {c} |-> Asked[d]] /\ Got = [d \in {c} |-> Got[d]]
  BY <1>1 DEF Asked, Got
<1>. QED
  BY <1>2, <1>3, <1>4

LEMMA Returned ==
    ASSUME Sequential, NEW c \in Procs, AnswersInv, Reading(c), call'[c] = IdleCall,
           UNCHANGED server
    PROVE  NoCache!Return(c)
<1>1. Asked[c] # None
  BY ServedAssumption DEF Asked, AnswersInv, CallInv, DrawInv, Reading
<1>2. Asked'[c] = None /\ Got'[c] = None
  BY DEF Asked, Got, Reading, IdleCall, NewCall
<1>. QED
  BY <1>1, <1>2, OnlyOne DEF NoCache!Return

LEMMA ReadMaps ==
    ASSUME Sequential, AnswersInv, AnswersInv', NEW c \in Procs, ReadStep(c)
    PROVE  NoCache!ReaderNext \/ UNCHANGED <<server, Asked, Got>>
<1>0. call[c] \in Calls /\ CallInv(c) /\ CallInv(c)' /\ AnswerInv(c)
  BY DEF AnswersInv, TypeOK
<1>1. ASSUME NEW q \in Resources, StartRead(c, q) PROVE NoCache!ReaderNext
  <2>1. /\ call[c] = IdleCall
        /\ call'[c] = NewCall("read", "ask", q, tag[q], None)
        /\ UNCHANGED server
    BY <1>1 DEF StartRead, Begin, Becomes, AnswersInv, TypeOK
  <2>2. Asked[c] = None /\ Asked'[c] = q /\ Got[c] = None /\ Got'[c] = None
    BY <2>1 DEF Asked, Got, Reading, IdleCall, NewCall
  <2>3. Got' = Got
    <3>1. Got' = [Got EXCEPT ![c] = None]
      BY <2>2, OnlyOne
    <3>. QED
      BY <2>2, <3>1 DEF Got
  <2>4. NoCache!Ask(c, q)
    BY <2>1, <2>2, <2>3, OnlyOne DEF NoCache!Ask
  <2>. QED
    BY <2>4 DEF NoCache!ReaderNext, NoCache!Resources, Resources
<1>2. CASE ServeNotModified(c) \/ ServeRead(c)
  <2>r. PICK r, x : r = call[c].res /\ x = Shown(call[c].res)
    OBVIOUS
  <2>1. PICK at \in {"confirmed", "tag"} :
           /\ At(c, "read", "ask") /\ Found(r)
           /\ call'[c] = [call[c] EXCEPT !.at = at, !.reply = x]
           /\ UNCHANGED <<server, fileVars>>
    BY <1>2, <2>r DEF ServeNotModified, ServeRead, Becomes, AnswersInv, TypeOK
  <2>2. /\ call'[c].at = at /\ call'[c].op = "read" /\ call'[c].reply = x
        /\ call'[c].res = r
    BY <1>0, <2>1, <2>r DEF Calls, At
  <2>3. Asked[c] = r /\ Asked'[c] = r /\ Got[c] = None /\ r # None
    BY <1>0, <2>1, <2>2, <2>r, ServedAssumption DEF Asked, Got, Reading, At, CallInv, DrawInv
  <2>4. Got'[c] = x \/ Got'[c] = None
    BY <1>0, <2>2 DEF Got, Reading, CallInv, DrawInv, At
  <2>5. CASE Got'[c] = x
    <3>1. NoCache!Found(r) /\ NoCache!Shown(r) = x
      BY <2>1, <2>r DEF NoCache!Found, NoCache!Shown, NoCache!Public, Found, Shown, Public
    <3>2. Asked' = Asked
      BY <2>3, OnlyOne DEF Asked
    <3>3. NoCache!Answer(c)
      BY <2>1, <2>3, <2>5, <3>1, <3>2, OnlyOne DEF NoCache!Answer
    <3>. QED
      BY <3>3 DEF NoCache!ReaderNext
  <2>6. CASE Got'[c] = None
    BY <2>1, <2>2, <2>3, <2>6, <2>r, Unnoticed DEF Reading, At
  <2>. QED
    BY <2>4, <2>5, <2>6
<1>3. CASE ReadCopy(c)
  <2>1. /\ At(c, "read", "confirmed") /\ UNCHANGED <<server, copy>>
        /\ \/ call'[c] = IdleCall
           \/ /\ copy[call[c].res] = None
              /\ call'[c] = NewCall("read", "ask", call[c].res, None, None)
    BY <1>3 DEF ReadCopy, End, Becomes, AnswersInv, TypeOK, fileVars
  <2>2. CASE call'[c] = IdleCall
    BY <2>1, <2>2, Returned DEF NoCache!ReaderNext, Reading, At
  <2>3. CASE call'[c] # IdleCall
    <3>1. /\ Got[c] = None /\ Got'[c] = None
          /\ Reading(c) /\ Reading(c)' /\ call'[c].res = call[c].res
      BY <2>1, <2>3 DEF Got, Reading, At, NewCall
    <3>. QED
      BY <2>1, <3>1, Unnoticed
  <2>. QED
    BY <2>2, <2>3
<1>4. CASE StoreTag(c)
  <2>1. PICK at \in {"insert", "select"} :
           /\ At(c, "read", "tag") /\ UNCHANGED server
           /\ call'[c] = [call[c] EXCEPT !.at = at]
    BY <1>4 DEF StoreTag, Go, Becomes, AnswersInv, TypeOK
  <2>2. /\ call'[c].at = at /\ call'[c].op = "read" /\ call'[c].res = call[c].res
        /\ call'[c].reply = call[c].reply
    BY <1>0, <2>1 DEF Calls, At
  <2>3. Reading(c) /\ Reading(c)' /\ Got'[c] = Got[c]
    BY <2>1, <2>2 DEF Got, Reading, At
  <2>. QED
    BY <2>1, <2>2, <2>3, Unnoticed
<1>. QED
  BY <1>1, <1>2, <1>3, <1>4 DEF ReadStep

LEMMA StoreMaps ==
    ASSUME Sequential, AnswersInv, NEW c \in Procs, StoreStep(c)
    PROVE  NoCache!ReaderNext \/ UNCHANGED <<server, Asked, Got>>
<1>0. call[c] \in Calls
  BY DEF AnswersInv, TypeOK
<1>1. /\ UNCHANGED server /\ call[c].at \in {"select", "insert", "erase"}
      /\ \/ call'[c] = IdleCall
         \/ /\ call'[c].at \in {"insert", "erase"} /\ call'[c].op = call[c].op
            /\ call'[c].res = call[c].res /\ call'[c].reply = call[c].reply
         \/ call[c].op = "random" /\ call'[c].op = "random"
  <2>1. CASE SelectOld(c)
    BY <1>0, <2>1 DEF SelectOld, Becomes, Calls, AnswersInv, TypeOK, fileVars
  <2>2. CASE Insert(c)
    BY <1>0, <2>2 DEF Insert, AfterStore, Go, End, Becomes, Calls, AnswersInv, TypeOK
  <2>3. CASE EraseTag(c)
    BY <1>0, <2>3 DEF EraseTag, AfterStore, Go, End, Becomes, Calls, AnswersInv, TypeOK
  <2>. QED
    BY <2>1, <2>2, <2>3 DEF StoreStep
<1>2. CASE call'[c] = IdleCall /\ Reading(c)
  BY <1>1, <1>2, Returned DEF NoCache!ReaderNext
<1>3. CASE call'[c] = IdleCall /\ ~Reading(c)
  BY <1>1, <1>3, Unnoticed DEF Reading, IdleCall, NewCall
<1>4. CASE call'[c] # IdleCall /\ Reading(c)
  <2>1. Reading(c)' /\ call'[c].res = call[c].res /\ Got'[c] = Got[c]
    BY <1>1, <1>4 DEF Reading, Got
  <2>. QED
    BY <1>1, <1>4, <2>1, Unnoticed
<1>5. CASE call'[c] # IdleCall /\ ~Reading(c)
  BY <1>1, <1>5, Unnoticed DEF Reading
<1>. QED
  BY <1>2, <1>3, <1>4, <1>5

\* A call other than Get or Meta begins, goes on or ends.
LEMMA NotReading ==
    ASSUME NEW c \in Procs, call \in [Procs -> Calls],
           \/ \E at, r, d : \E op \in {"sync", "random", "score", "purge"} :
                 Begin(c, NewCall(op, at, r, None, d))
           \/ /\ ~Reading(c)
              /\ \/ End(c)
                 \/ \E at : Go(c, at)
                 \/ call'[c].op = call[c].op
    PROVE  ~Reading(c) /\ ~Reading(c)'
<1>1. CASE \E at, r, d : \E op \in {"sync", "random", "score", "purge"} :
               Begin(c, NewCall(op, at, r, None, d))
  BY <1>1 DEF Begin, Becomes, NewCall, IdleCall, Reading
<1>2. CASE ~Reading(c) /\ End(c)
  BY <1>2 DEF End, Becomes, NewCall, IdleCall, Reading
<1>3. CASE ~Reading(c) /\ \E at : Go(c, at)
  <2>1. PICK at : call' = [call EXCEPT ![c] = [call[c] EXCEPT !.at = at]]
    BY <1>3 DEF Go, Becomes
  <2>2. call'[c] = [call[c] EXCEPT !.at = at]
    BY <2>1
  <2>3. call'[c].op = call[c].op
    BY <2>2 DEF Calls
  <2>. QED
    BY <1>3, <2>3 DEF Reading
<1>. QED
  BY <1>1, <1>2, <1>3 DEF Reading

\* Sync, Random, Score and Purge leave the calls of Get and Meta alone.
LEMMA OthersMap ==
    ASSUME Sequential, AnswersInv, NEW c \in Procs,
           SyncStep(c) \/ RandomStep(c) \/ ScoreStep(c) \/ PurgeStep(c)
    PROVE  UNCHANGED <<server, Asked, Got>>
<1>0. call \in [Procs -> Calls] /\ call[c] \in Calls
  BY DEF AnswersInv, TypeOK
<1>1. CASE \/ \E p \in Ids : StartSync(c, p)
           \/ \E fresh \in BOOLEAN : StartRandom(c, fresh)
           \/ StartScore(c) \/ PurgeRows(c)
  <2>1. UNCHANGED server
    BY <1>1 DEF StartSync, StartRandom, StartScore, PurgeRows
  <2>2. \E at, r, d : \E op \in {"sync", "random", "score", "purge"} :
           Begin(c, NewCall(op, at, r, None, d))
    BY <1>1 DEF StartSync, StartRandom, StartScore, PurgeRows
  <2>. QED
    BY <1>0, <2>1, <2>2, NotReading, Unnoticed
<1>2. CASE \/ DeleteRow(c) \/ ReadWindow(c) \/ WriteWindow(c)
           \/ KeepDevice(c) \/ Post(c) \/ PurgeKV(c)
  <2>1. UNCHANGED server /\ ~Reading(c)
    BY <1>2 DEF DeleteRow, ReadWindow, WriteWindow, KeepDevice, Post, PurgeKV, At, Reading
  <2>2. End(c) \/ \E at : Go(c, at)
    BY <1>2 DEF DeleteRow, ReadWindow, WriteWindow, KeepDevice, Post, PurgeKV
  <2>. QED
    BY <1>0, <2>1, <2>2, NotReading, Unnoticed
<1>3. CASE ServeDelta(c) \/ ServeRandom(c) \/ DrawDevice(c)
  <2>1. UNCHANGED server /\ ~Reading(c)
    BY <1>3 DEF ServeDelta, ServeRandom, DrawDevice, At, Reading
  <2>2. call'[c].op = call[c].op
    <3>1. CASE ServeDelta(c)
      BY <1>0, <3>1 DEF ServeDelta, Go, Becomes, Calls
    <3>2. CASE ServeRandom(c)
      BY <1>0, <3>2 DEF ServeRandom, Becomes, Calls
    <3>3. CASE DrawDevice(c)
      BY <1>0, <3>3 DEF DrawDevice, Becomes, Calls
    <3>. QED
      BY <1>3, <3>1, <3>2, <3>3
  <2>. QED
    BY <1>0, <2>1, <2>2, NotReading, Unnoticed
<1>4. CASE ClearRecent(c)
  BY <1>4 DEF ClearRecent, Asked, Got, Reading
<1>. QED
  BY <1>1, <1>2, <1>3, <1>4 DEF SyncStep, RandomStep, ScoreStep, PurgeStep

LEMMA FaultMaps ==
    ASSUME Sequential, AnswersInv, NEW c \in Procs, FaultStep(c)
    PROVE  NoCache!ReaderNext \/ UNCHANGED <<server, Asked, Got>>
<1>0. call \in [Procs -> Calls] /\ call[c] \in Calls
  BY DEF AnswersInv, TypeOK
<1>1. CASE UNCHANGED server /\ call'[c] = IdleCall
  <2>1. CASE Reading(c)
    BY <1>1, <2>1, Returned DEF NoCache!ReaderNext
  <2>2. CASE ~Reading(c)
    BY <1>1, <2>2, Unnoticed DEF Reading, IdleCall, NewCall
  <2>. QED
    BY <2>1, <2>2
<1>2. CASE Retry(c)
  <2>1. /\ UNCHANGED server /\ call[c].at = "ask" /\ call'[c].at = "ask"
        /\ call'[c].op = call[c].op /\ call'[c].res = call[c].res
        /\ call'[c].reply = call[c].reply
    BY <1>0, <1>2 DEF Retry, Becomes, Calls
  <2>2. Got'[c] = Got[c]
    BY <2>1 DEF Got, Reading
  <2>. QED
    BY <2>1, <2>2, Unnoticed DEF Reading
<1>3. CASE GiveUp(c) \/ Stop(c)
  BY <1>0, <1>1, <1>3 DEF GiveUp, Stop, End, Becomes
<1>4. CASE StatementFails(c)
  <2>1. /\ UNCHANGED server
        /\ call[c].at \notin {"ask", "confirmed"}
        /\ call'[c].at # "confirmed" /\ call'[c].op = call[c].op
        /\ call'[c].res = call[c].res /\ call'[c].reply = call[c].reply
    <3>1. PICK at \in {"insert", "select", "window"} : Go(c, at)
      BY <1>4 DEF StatementFails
    <3>. QED
      BY <1>0, <1>4, <3>1 DEF StatementFails, Go, Becomes, At, Calls
  <2>2. Got'[c] = Got[c]
    BY <2>1 DEF Got, Reading
  <2>. QED
    BY <2>1, <2>2, Unnoticed DEF Reading
<1>. QED
  BY <1>2, <1>3, <1>4 DEF FaultStep

LEMMA StepMaps ==
    ASSUME Sequential, AnswersInv, AnswersInv', [Next]_vars
    PROVE  NoCache!ReaderNext \/ UNCHANGED <<server, Asked, Got>>
<1>1. CASE UNCHANGED vars
  BY <1>1 DEF vars, fileVars, Asked, Got, Reading
<1>2. CASE Review
  <2>1. UNCHANGED <<Asked, Got>>
    BY <1>2 DEF Review, fileVars, Asked, Got, Reading
  <2>2. PICK p \in Ids, public \in BOOLEAN : Change(p, public)
    BY <1>2 DEF Review
  <2>3. NoCache!Change(p, public)
    BY <2>2 DEF Change, NoCache!Change
  <2>. QED
    BY <2>1, <2>3 DEF NoCache!ReaderNext, NoCache!Publish
<1>. QED
  BY <1>1, <1>2, ReadMaps, StoreMaps, OthersMap, FaultMaps DEF Next

\* The SDK's cache is not noticed: each Get and Meta (client.go), answered from
\* the copy after a 304 or not, returns what the server had to show during the
\* call, or an error.
THEOREM CacheIsTransparent ==
    ASSUME Sequential
    PROVE  Spec => Transparent
<1>1. Init => NoCache!ReaderInit
  BY DEF Init, ServedInit, NoCache!ReaderInit, NoCache!ServedInit, Asked, Got, Reading,
         IdleCall, NewCall
<1>2. AnswersInv /\ AnswersInv' /\ [Next]_vars =>
         [NoCache!ReaderNext]_(NoCache!readerVars)
  BY StepMaps DEF NoCache!readerVars
<1>. QED
  BY <1>1, <1>2, AnswersInvariant, PTL DEF Spec, Transparent, NoCache!ReaderSpec

-----------------------------------------------------------------------------
(* Lists of ids without repetition *)

\* Induction, said of a set.
LEMMA NatSetInduction ==
    ASSUME NEW T \in SUBSET Nat, 0 \in T, \A n \in T : n + 1 \in T
    PROVE  T = Nat
<1>. SUFFICES ASSUME Nat \ T # {} PROVE FALSE
  OBVIOUS
<1>1. PICK x \in Nat \ T : \A y \in Nat \ T : ~ (<<y, x>> \in OpToRel(<, Nat))
  BY NatLessThanWellFounded, WFMin
<1>2. x - 1 \in Nat \ T
  OBVIOUS
<1>3. <<x-1, x>> \in OpToRel(<, Nat)
  BY <1>2 DEF OpToRel
<1>. QED BY <1>1, <1>2, <1>3

\* No id twice, and p, if it is there, at m; past the end if it is not.
Once(ids) == \A i, j \in DOMAIN ids : ids[i] = ids[j] => i = j

Place(p, ids, m) ==
    /\ m \in 1 .. Len(ids) + 1
    /\ \A i \in DOMAIN ids : ids[i] = p <=> i = m

LEMMA HasPlace ==
    ASSUME NEW S, NEW ids \in Seq(S), Once(ids), NEW p
    PROVE  \E m \in 1 .. Len(ids) + 1 : Place(p, ids, m)
<1>1. CASE \E i \in DOMAIN ids : ids[i] = p
  BY <1>1 DEF Once, Place
<1>2. CASE ~ \E i \in DOMAIN ids : ids[i] = p
  <2>1. Len(ids) + 1 \in 1 .. Len(ids) + 1 /\ \A i \in DOMAIN ids : i # Len(ids) + 1
    OBVIOUS
  <2>. QED
    BY <1>2, <2>1 DEF Place
<1>. QED
  BY <1>1, <1>2

\* The first n ids but the one at m.
Skip(ids, m, n) ==
    [j \in 1 .. (IF m <= n THEN n - 1 ELSE n) |-> IF j < m THEN ids[j] ELSE ids[j + 1]]

LEMMA SkipStep ==
    ASSUME NEW S, NEW ids \in Seq(S), NEW p, NEW m \in 1 .. Len(ids) + 1, Place(p, ids, m),
           NEW n \in 1 .. Len(ids)
    PROVE  Skip(ids, m, n) = IF ids[n] = p THEN Skip(ids, m, n - 1)
                             ELSE Append(Skip(ids, m, n - 1), ids[n])
<1>1. ids[n] = p <=> n = m
  BY DEF Place
<1>2. CASE n = m
  BY <1>1, <1>2 DEF Skip
<1>3. CASE n < m
  <2>1. Skip(ids, m, n) = [j \in 1 .. n |-> ids[j]]
    BY <1>3 DEF Skip
  <2>2. Skip(ids, m, n - 1) = [j \in 1 .. n - 1 |-> ids[j]]
    BY <1>3 DEF Skip
  <2>3. Append([j \in 1 .. n - 1 |-> ids[j]], ids[n]) = [j \in 1 .. n |-> ids[j]]
    OBVIOUS
  <2>. QED
    BY SMTT(30), <1>1, <1>3, <2>1, <2>2, <2>3
<1>4. CASE n > m
  <2>. DEFINE e(j) == IF j < m THEN ids[j] ELSE ids[j + 1]
              all == [j \in 1 .. n - 1 |-> e(j)]
              but == [j \in 1 .. n - 2 |-> e(j)]
  <2>1. Skip(ids, m, n) = all
    BY <1>4 DEF Skip
  <2>2. Skip(ids, m, n - 1) = but
    BY <1>4 DEF Skip
  <2>3. Append(but, ids[n]) = all
    BY <1>4
  <2>. HIDE DEF e, all, but
  <2>. QED
    BY <1>1, <1>4, <2>1, <2>2, <2>3
<1>. QED
  BY <1>2, <1>3, <1>4

LEMMA WithoutIs ==
    ASSUME NEW S, NEW ids \in Seq(S), NEW p, NEW m \in 1 .. Len(ids) + 1, Place(p, ids, m)
    PROVE  Without(p, ids) = Skip(ids, m, Len(ids))
<1>. DEFINE Loop(f) == [n \in 0 .. Len(ids) |->
                          IF n = 0 THEN <<>>
                          ELSE IF ids[n] = p THEN f[n - 1] ELSE Append(f[n - 1], ids[n])]
            g == [n \in 0 .. Len(ids) |-> Skip(ids, m, n)]
            out == CHOOSE f : f = Loop(f)
<1>1. Without(p, ids) = out[Len(ids)]
  BY DEF Without
<1>2. g = Loop(g)
  <2>1. Skip(ids, m, 0) = <<>>
    BY DEF Skip
  <2>2. \A n \in 0 .. Len(ids) : g[n] = Loop(g)[n]
    <3>. TAKE n \in 0 .. Len(ids)
    <3>1. CASE n = 0
      BY <3>1, <2>1
    <3>2. CASE n # 0
      <4>1. n \in 1 .. Len(ids) /\ n - 1 \in 0 .. Len(ids)
        BY <3>2
      <4>. QED
        BY <3>2, <4>1, SkipStep
    <3>. QED
      BY <3>1, <3>2
  <2>. QED
    BY <2>2
<1>3. out = Loop(out)
  <2>. HIDE DEF g, Loop
  <2>. QED
    BY <1>2
<1>. HIDE DEF out
<1>4. \A n \in 0 .. Len(ids) : out[n] = g[n]
  <2>. DEFINE T == {n \in Nat : n <= Len(ids) => out[n] = g[n]}
  <2>1. 0 \in T
    <3>1. \A f : Loop(f)[0] = <<>>
      OBVIOUS
    <3>. HIDE DEF g, Loop
    <3>. QED
      BY <1>2, <1>3, <3>1
  <2>2. ASSUME NEW n \in T PROVE n + 1 \in T
    <3>. SUFFICES ASSUME n + 1 <= Len(ids) PROVE out[n + 1] = g[n + 1]
      OBVIOUS
    <3>1. n \in Nat /\ n \in 0 .. Len(ids) /\ n + 1 \in 0 .. Len(ids) /\ n + 1 # 0 /\ (n + 1) - 1 = n
      OBVIOUS
    <3>2. out[n] = g[n]
      OBVIOUS
    <3>3. ASSUME NEW f, f = Loop(f)
          PROVE  f[n + 1] = IF ids[n + 1] = p THEN f[n] ELSE Append(f[n], ids[n + 1])
      <4>1. f[n + 1] = Loop(f)[n + 1]
        BY <3>3
      <4>2. Loop(f)[n + 1] = IF ids[n + 1] = p THEN f[n] ELSE Append(f[n], ids[n + 1])
        BY <3>1
      <4>. QED
        BY <4>1, <4>2
    <3>. HIDE DEF g, Loop
    <3>. QED
      BY <1>2, <1>3, <3>2, <3>3
  <2>3. T = Nat
    <3>. HIDE DEF T
    <3>1. T \subseteq Nat
      BY DEF T
    <3>. QED
      BY <2>1, <2>2, <3>1, NatSetInduction
  <2>. HIDE DEF g
  <2>. QED
    BY <2>3
<1>. QED
  BY <1>1, <1>4

LEMMA LatestIs ==
    ASSUME NEW S, NEW ids \in Seq(S), NEW p \in S, NEW m \in 1 .. Len(ids) + 1, Place(p, ids, m)
    PROVE  /\ Latest(p, ids) \in Seq(S)
           /\ Len(Latest(p, ids)) = IF m <= Len(ids) THEN Len(ids) ELSE Len(ids) + 1
           /\ Latest(p, ids)[1] = p
           /\ \A j \in 2 .. Len(Latest(p, ids)) :
                 Latest(p, ids)[j] = IF j - 1 < m THEN ids[j - 1] ELSE ids[j]
<1>. DEFINE rest == Skip(ids, m, Len(ids))
            len == IF m <= Len(ids) THEN Len(ids) - 1 ELSE Len(ids)
<1>1. Latest(p, ids) = <<p>> \o rest
  BY WithoutIs DEF Latest
<1>2. len \in Nat /\ DOMAIN rest = 1 .. len
  BY DEF Skip
<1>3. \A j \in 1 .. len : rest[j] = (IF j < m THEN ids[j] ELSE ids[j + 1]) /\ rest[j] \in S
  BY DEF Skip
<1>4. rest \in Seq(S) /\ Len(rest) = len
  <2>1. rest = [j \in 1 .. len |-> rest[j]]
    BY DEF Skip
  <2>. HIDE DEF rest, len
  <2>. QED
    BY SMTT(30), <1>2, <1>3, <2>1
<1>5. /\ <<p>> \o rest \in Seq(S) /\ Len(<<p>> \o rest) = 1 + len /\ (<<p>> \o rest)[1] = p
      /\ \A j \in 2 .. 1 + len : (<<p>> \o rest)[j] = rest[j - 1]
  <2>. HIDE DEF rest, len
  <2>. QED
    BY <1>2, <1>4
<1>6. \A j \in 2 .. 1 + len : j - 1 \in 1 .. len /\ (j - 1) + 1 = j
  <2>. HIDE DEF len
  <2>. QED
    BY <1>2
<1>7. 1 + len = IF m <= Len(ids) THEN Len(ids) ELSE Len(ids) + 1
  OBVIOUS
<1>. HIDE DEF rest, len
<1>. QED
  BY <1>1, <1>3, <1>5, <1>6, <1>7

\* What is in front comes once, and all others as before.
LEMMA LatestOnce ==
    ASSUME NEW S, NEW ids \in Seq(S), Once(ids), NEW p \in S
    PROVE  Latest(p, ids) \in Seq(S) /\ Once(Latest(p, ids))
<1>1. PICK m \in 1 .. Len(ids) + 1 : Place(p, ids, m)
  BY HasPlace
<1>2. PICK r : r = Latest(p, ids)
  OBVIOUS
<1>3. /\ r \in Seq(S) /\ r[1] = p
      /\ Len(r) = IF m <= Len(ids) THEN Len(ids) ELSE Len(ids) + 1
      /\ \A j \in 2 .. Len(r) : r[j] = IF j - 1 < m THEN ids[j - 1] ELSE ids[j]
  BY <1>1, <1>2, LatestIs
<1>4. ASSUME NEW j \in 2 .. Len(r)
      PROVE  \E i \in DOMAIN ids : i # m /\ r[j] = ids[i] /\ i = IF j - 1 < m THEN j - 1 ELSE j
  BY <1>3
<1>5. ASSUME NEW i \in DOMAIN r, NEW j \in DOMAIN r, r[i] = r[j] PROVE i = j
  <2>1. ASSUME NEW k \in 2 .. Len(r) PROVE r[k] # p
    BY <1>1, <1>4 DEF Place
  <2>2. CASE i = 1 \/ j = 1
    BY <1>3, <1>5, <2>1, <2>2
  <2>3. CASE i # 1 /\ j # 1
    <3>0. i \in 2 .. Len(r) /\ j \in 2 .. Len(r)
      BY <1>3, <2>3
    <3>1. PICK a \in DOMAIN ids : a # m /\ r[i] = ids[a] /\ a = IF i - 1 < m THEN i - 1 ELSE i
      BY <1>4, <3>0
    <3>2. PICK b \in DOMAIN ids : b # m /\ r[j] = ids[b] /\ b = IF j - 1 < m THEN j - 1 ELSE j
      BY <1>4, <3>0
    <3>3. a = b
      BY <1>5, <3>1, <3>2 DEF Once
    <3>. QED
      BY <3>0, <3>1, <3>2, <3>3
  <2>. QED
    BY <2>2, <2>3
<1>. QED
  BY <1>2, <1>3, <1>5 DEF Once

LEMMA TakeIs ==
    ASSUME NEW S, NEW ids \in Seq(S), NEW n \in Nat
    PROVE  /\ Take(n, ids) \in Seq(S)
           /\ Len(Take(n, ids)) = IF Len(ids) < n THEN Len(ids) ELSE n
           /\ \A j \in 1 .. Len(Take(n, ids)) : Take(n, ids)[j] = ids[j]
BY DEF Take

\* A window of the latest is enough to tell the next one.
LEMMA TakeLatest ==
    ASSUME NEW S, NEW ids \in Seq(S), Once(ids), NEW p \in S, NEW n \in Nat \ {0}
    PROVE  Take(n, Latest(p, Take(n, ids))) = Take(n, Latest(p, ids))
<1>1. PICK m \in 1 .. Len(ids) + 1 : Place(p, ids, m)
  BY HasPlace
<1>2. PICK few : few = Take(n, ids)
  OBVIOUS
<1>3. CASE Len(ids) <= n
  <2>1. few = ids
    BY <1>2, <1>3 DEF Take
  <2>. QED
    BY <1>2, <2>1
<1>4. CASE Len(ids) > n
  <2>1. few \in Seq(S) /\ Len(few) = n /\ \A j \in 1 .. n : few[j] = ids[j]
    BY <1>2, <1>4, TakeIs
  <2>2. PICK k \in 1 .. Len(few) + 1 : k = IF m <= n THEN m ELSE n + 1
    BY <2>1
  <2>3. Place(p, few, k)
    BY <1>1, <1>4, <2>1, <2>2 DEF Place
  <2>4. PICK r : r = Latest(p, ids)
    OBVIOUS
  <2>5. /\ r \in Seq(S) /\ r[1] = p
        /\ Len(r) = IF m <= Len(ids) THEN Len(ids) ELSE Len(ids) + 1
        /\ \A j \in 2 .. Len(r) : r[j] = IF j - 1 < m THEN ids[j - 1] ELSE ids[j]
    BY <1>1, <2>4, LatestIs
  <2>6. PICK w : w = Latest(p, few)
    OBVIOUS
  <2>7. /\ w \in Seq(S) /\ w[1] = p
        /\ Len(w) = IF k <= Len(few) THEN Len(few) ELSE Len(few) + 1
        /\ \A j \in 2 .. Len(w) : w[j] = IF j - 1 < k THEN few[j - 1] ELSE few[j]
    BY <2>1, <2>2, <2>3, <2>6, LatestIs
  <2>8. Len(w) >= n /\ Len(r) >= n
    BY <1>4, <2>1, <2>5, <2>7
  <2>9. \A j \in 1 .. n : w[j] = r[j]
    <3>. TAKE j \in 1 .. n
    <3>1. CASE j = 1
      BY <2>5, <2>7, <3>1
    <3>2. CASE j # 1
      <4>1. j \in 2 .. Len(w) /\ j \in 2 .. Len(r) /\ j - 1 \in 1 .. n /\ j \in 1 .. n
        BY SMTT(30), <2>5, <2>7, <2>8, <3>2
      <4>2. j - 1 < k <=> j - 1 < m
        BY <2>2, <4>1
      <4>. QED
        BY <2>1, <2>5, <2>7, <4>1, <4>2
    <3>. QED
      BY <3>1, <3>2
  <2>10. Take(n, w) = [j \in 1 .. n |-> w[j]] /\ Take(n, r) = [j \in 1 .. n |-> r[j]]
    BY <2>5, <2>7, <2>8 DEF Take
  <2>11. Take(n, w) = Take(n, r)
    BY <2>9, <2>10
  <2>. QED
    BY <1>2, <2>4, <2>6, <2>11
<1>. QED
  BY <1>3, <1>4

-----------------------------------------------------------------------------
(* The window of Random *)

LEMMA WindowInit == Init => WindowInv
<1>. SUFFICES ASSUME Init PROVE WindowInv
  OBVIOUS
<1>1. \A c \in Procs : ~Drawing(c)
  BY DEF Init, Drawing, IdleCall, NewCall
<1>2. drawn = <<>> /\ recent = <<>> /\ DOMAIN list = Procs
  BY DEF Init
<1>3. Take(RecentKeep, <<>>) = <<>>
  BY CacheAssumption DEF Take
<1>. QED
  BY <1>1, <1>2, <1>3 DEF WindowInv

\* Nothing is drawn, and the window stays.
LEMMA NothingDrawn ==
    ASSUME Sequential, WindowInv, NEW c \in Procs, UNCHANGED <<recent, drawn>>,
           DOMAIN list' = Procs, ~Drawing(c), ~Drawing(c)'
    PROVE  WindowInv'
BY DEF WindowInv, Sequential, OneProcess, Drawing

\* A Random that has its answer goes on to a step before it has read the window.
LEMMA DrawnOn ==
    ASSUME Sequential, WindowInv, NEW c \in Procs, UNCHANGED <<recent, drawn, list>>,
           call[c].op = "random", call'[c].op = "random", call'[c].res = call[c].res,
           call[c].at \in {"select", "insert", "erase"},
           call'[c].at \in {"insert", "erase", "window"}
    PROVE  WindowInv'
<1>1. \A d \in Procs : d = c
  BY DEF Sequential, OneProcess
<1>2. Drawing(c) /\ Drawing(c)' /\ call[c].at # "push" /\ call'[c].at # "push"
  BY DEF Drawing
<1>3. Pushed(call[c].res, recent) = Take(RecentKeep, drawn)
  BY <1>2 DEF WindowInv
<1>4. (Pushed(call[c].res, recent) = Take(RecentKeep, drawn))'
  BY <1>3 DEF Pushed
<1>. QED
  BY <1>1, <1>2, <1>4 DEF WindowInv

LEMMA StoreWindow ==
    ASSUME Sequential, TypeOK, WindowInv, NEW c \in Procs, StoreStep(c)
    PROVE  WindowInv'
<1>0. call[c] \in Calls /\ UNCHANGED <<recent, drawn, list>> /\ DOMAIN list' = Procs
  BY DEF TypeOK, StoreStep, SelectOld, Insert, EraseTag, Quiet, fileVars, WindowInv
<1>1. /\ call[c].at \in {"select", "insert", "erase"}
      /\ \/ call'[c] = IdleCall /\ call[c].op # "random"
         \/ /\ call'[c].at \in {"insert", "erase", "window"} /\ call'[c].op = call[c].op
            /\ call'[c].res = call[c].res
  <2>1. CASE SelectOld(c)
    BY <1>0, <2>1 DEF SelectOld, Becomes, Calls, TypeOK
  <2>2. CASE Insert(c)
    BY <1>0, <2>2 DEF Insert, AfterStore, Go, End, Becomes, Calls, TypeOK
  <2>3. CASE EraseTag(c)
    BY <1>0, <2>3 DEF EraseTag, AfterStore, Go, End, Becomes, Calls, TypeOK
  <2>. QED
    BY <2>1, <2>2, <2>3 DEF StoreStep
<1>2. CASE call[c].op = "random"
  BY <1>0, <1>1, <1>2, DrawnOn
<1>3. CASE call[c].op # "random"
  BY <1>0, <1>1, <1>3, NothingDrawn DEF Drawing, IdleCall, NewCall
<1>. QED
  BY <1>2, <1>3

LEMMA RandomWindow ==
    ASSUME Sequential, TypeOK, WindowInv, NEW c \in Procs, RandomStep(c)
    PROVE  WindowInv'
<1>0. /\ call[c] \in Calls /\ DOMAIN list' = Procs
      /\ \A d \in Procs : d = c
  BY DEF TypeOK, RandomStep, StartRandom, ServeRandom, ReadWindow, WriteWindow, WindowInv,
         Sequential, OneProcess
<1>1. ASSUME NEW fresh \in BOOLEAN, StartRandom(c, fresh) PROVE WindowInv'
  <2>1. ~Drawing(c) /\ ~Drawing(c)' /\ UNCHANGED <<recent, drawn>>
    BY <1>1 DEF StartRandom, Begin, Becomes, IdleCall, NewCall, Drawing, fileVars, TypeOK
  <2>. QED
    BY <1>0, <2>1, NothingDrawn
<1>2. CASE ServeRandom(c)
  <2>1. PICK p \in Ids : /\ Becomes(c, [call[c] EXCEPT !.at = "select", !.res = p, !.reply = Shown(p)])
                         /\ drawn' = Latest(p, drawn) /\ UNCHANGED recent
    BY <1>2 DEF ServeRandom, Candidates, fileVars
  <2>2. /\ call'[c].op = "random" /\ call'[c].at = "select" /\ call'[c].res = p
        /\ ~Drawing(c) /\ Drawing(c)'
    BY <1>0, <1>2, <2>1 DEF ServeRandom, At, Becomes, Calls, Drawing, TypeOK
  <2>3. recent = Take(RecentKeep, drawn) /\ drawn \in Seq(Ids) /\ Once(drawn)
    BY <1>0, <2>2 DEF WindowInv, Once
  <2>4. drawn' \in Seq(Ids) /\ \A i, j \in DOMAIN drawn' : drawn'[i] = drawn'[j] => i = j
    BY <2>1, <2>3, LatestOnce DEF Once
  <2>5. Pushed(p, recent') = Take(RecentKeep, drawn')
    BY <2>1, <2>3, TakeLatest, CacheAssumption DEF Pushed
  <2>6. ASSUME NEW d \in Procs
        PROVE  /\ Drawing(d)' /\ call'[d].at = "select"
               /\ Pushed(call'[d].res, recent') = Take(RecentKeep, drawn')
    BY <1>0, <2>2, <2>5
  <2>. QED
    BY <1>0, <2>4, <2>6 DEF WindowInv, Pushed
<1>3. CASE ReadWindow(c)
  <2>1. /\ call'[c].op = "random" /\ call'[c].at = "push" /\ call'[c].res = call[c].res
        /\ Drawing(c) /\ Drawing(c)' /\ call[c].at = "window"
        /\ UNCHANGED <<recent, drawn>>
    BY <1>0, <1>3 DEF ReadWindow, At, Go, Becomes, Calls, Drawing, TypeOK, fileVars
  <2>2. list'[c] = recent
    BY <1>3 DEF ReadWindow, WindowInv
  <2>3. Pushed(call[c].res, recent) = Take(RecentKeep, drawn)
    BY <2>1 DEF WindowInv
  <2>4. Pushed(call'[c].res, list'[c]) = Take(RecentKeep, drawn')
    BY <2>1, <2>2, <2>3
  <2>. QED
    BY <1>0, <2>1, <2>4 DEF WindowInv, Pushed
<1>4. CASE WriteWindow(c)
  <2>1. /\ Drawing(c) /\ call[c].at = "push" /\ call'[c] = IdleCall
        /\ recent' = Pushed(call[c].res, list[c]) /\ UNCHANGED drawn
    BY <1>4 DEF WriteWindow, At, End, Becomes, Drawing, TypeOK
  <2>2. recent' = Take(RecentKeep, drawn')
    BY <2>1 DEF WindowInv
  <2>3. ~Drawing(c)'
    BY <2>1 DEF Drawing, IdleCall, NewCall
  <2>. QED
    BY <1>0, <2>1, <2>2, <2>3 DEF WindowInv
<1>. QED
  BY <1>1, <1>2, <1>3, <1>4 DEF RandomStep

LEMMA OtherWindow ==
    ASSUME Sequential, TypeOK, WindowInv, NEW c \in Procs,
           ReadStep(c) \/ SyncStep(c) \/ ScoreStep(c)
    PROVE  WindowInv'
<1>0. call[c] \in Calls /\ UNCHANGED <<recent, drawn, list>> /\ DOMAIN list' = Procs
  BY DEF TypeOK, ReadStep, SyncStep, ScoreStep, StartRead, ServeNotModified, ServeRead, ReadCopy,
         StoreTag, StartSync, ServeDelta, DeleteRow, StartScore, DrawDevice, KeepDevice, Post,
         Quiet, fileVars, WindowInv
<1>1. ASSUME NEW op \in {"read", "sync", "score"}, NEW at, NEW r, NEW cond, NEW d,
             Begin(c, NewCall(op, at, r, cond, d))
      PROVE  call[c].op # "random" /\ call'[c].op # "random"
  BY <1>1 DEF Begin, Becomes, IdleCall, NewCall, TypeOK
<1>2. ASSUME call[c].op \in {"read", "sync", "score"}, End(c) \/ \E at : Go(c, at)
      PROVE  call[c].op # "random" /\ call'[c].op # "random"
  <2>1. CASE End(c)
    BY <1>2, <2>1 DEF End, Becomes, IdleCall, NewCall, TypeOK
  <2>2. CASE \E at : Go(c, at)
    <3>1. PICK at : call'[c] = [call[c] EXCEPT !.at = at]
      BY <2>2 DEF Go, Becomes, TypeOK
    <3>2. call'[c].op = call[c].op
      BY <1>0, <3>1 DEF Calls
    <3>. QED
      BY <1>2, <3>2
  <2>. QED
    BY <1>2, <2>1, <2>2
<1>3. CASE ReadStep(c)
  <2>1. CASE \E r \in Resources : StartRead(c, r)
    BY <1>0, <1>1, <2>1, NothingDrawn DEF StartRead, Drawing
  <2>2. CASE ServeNotModified(c) \/ ServeRead(c)
    <3>1. call[c].op = "read" /\ call'[c].op = "read"
      BY <1>0, <2>2 DEF ServeNotModified, ServeRead, At, Becomes, Calls, TypeOK
    <3>. QED
      BY <1>0, <3>1, NothingDrawn DEF Drawing
  <2>3. CASE ReadCopy(c)
    <3>1. call[c].op = "read" /\ (End(c) \/ Becomes(c, NewCall("read", "ask", call[c].res, None, None)))
      BY <2>3 DEF ReadCopy, At
    <3>2. call'[c].op # "random"
      BY <3>1 DEF End, Becomes, IdleCall, NewCall, TypeOK
    <3>. QED
      BY <1>0, <3>1, <3>2, NothingDrawn DEF Drawing
  <2>4. CASE StoreTag(c)
    <3>1. call[c].op = "read" /\ \E at : Go(c, at)
      BY <2>4 DEF StoreTag, At
    <3>. QED
      BY <1>0, <1>2, <3>1, NothingDrawn DEF Drawing
  <2>. QED
    BY <1>3, <2>1, <2>2, <2>3, <2>4 DEF ReadStep
<1>4. CASE SyncStep(c)
  <2>1. CASE \E p \in Ids : StartSync(c, p)
    BY <1>0, <1>1, <2>1, NothingDrawn DEF StartSync, Drawing
  <2>2. CASE ServeDelta(c)
    <3>1. call[c].op = "sync" /\ call'[c].op = "sync"
      <4>1. /\ call[c].op = "sync"
            /\ \/ call'[c] = [call[c] EXCEPT !.at = "select", !.reply = Shown(call[c].res)]
               \/ call'[c] = [call[c] EXCEPT !.at = "delete"]
        BY <2>2 DEF ServeDelta, At, Go, Becomes, TypeOK
      <4>2. call'[c].op = call[c].op
        BY <1>0, <4>1 DEF Calls
      <4>. QED
        BY <4>1, <4>2
    <3>. QED
      BY <1>0, <3>1, NothingDrawn DEF Drawing
  <2>3. CASE DeleteRow(c)
    <3>1. call[c].op = "sync" /\ End(c)
      BY <2>3 DEF DeleteRow, At
    <3>. QED
      BY <1>0, <1>2, <3>1, NothingDrawn DEF Drawing
  <2>. QED
    BY <1>4, <2>1, <2>2, <2>3 DEF SyncStep
<1>5. CASE ScoreStep(c)
  <2>1. CASE StartScore(c)
    BY <1>0, <1>1, <2>1, NothingDrawn DEF StartScore, Drawing
  <2>2. CASE DrawDevice(c)
    <3>1. call[c].op = "score" /\ call'[c].op = "score"
      BY <1>0, <2>2 DEF DrawDevice, At, Becomes, Calls, TypeOK
    <3>. QED
      BY <1>0, <3>1, NothingDrawn DEF Drawing
  <2>3. CASE KeepDevice(c) \/ Post(c)
    <3>1. call[c].op = "score" /\ (End(c) \/ \E at : Go(c, at))
      BY <2>3 DEF KeepDevice, Post, At
    <3>. QED
      BY <1>0, <1>2, <3>1, NothingDrawn DEF Drawing
  <2>. QED
    BY <1>5, <2>1, <2>2, <2>3 DEF ScoreStep
<1>. QED
  BY <1>3, <1>4, <1>5

LEMMA PurgeWindow ==
    ASSUME Sequential, TypeOK, WindowInv, NEW c \in Procs, PurgeStep(c)
    PROVE  WindowInv'
<1>0. call[c] \in Calls /\ UNCHANGED list /\ \A d \in Procs : d = c
  BY DEF TypeOK, PurgeStep, PurgeRows, PurgeKV, ClearRecent, Quiet, Sequential, OneProcess
<1>1. ~Drawing(c) /\ ~Drawing(c)'
  BY <1>0 DEF PurgeStep, PurgeRows, PurgeKV, ClearRecent, Begin, End, Becomes, At, IdleCall,
     NewCall, Drawing, TypeOK
<1>2. CASE PurgeRows(c)
  BY <1>0, <1>1, <1>2, NothingDrawn DEF PurgeRows, Quiet, WindowInv
<1>3. CASE PurgeKV(c) \/ ClearRecent(c)
  <2>1. recent' = <<>> /\ drawn' = <<>>
    BY <1>3 DEF PurgeKV, ClearRecent
  <2>2. Take(RecentKeep, <<>>) = <<>>
    BY CacheAssumption DEF Take
  <2>. QED
    BY <1>0, <1>1, <2>1, <2>2 DEF WindowInv
<1>. QED
  BY <1>2, <1>3 DEF PurgeStep

LEMMA FaultWindow ==
    ASSUME Sequential, TypeOK, WindowInv, NEW c \in Procs, FaultStep(c)
    PROVE  WindowInv'
<1>0. call[c] \in Calls /\ UNCHANGED <<recent, drawn>> /\ DOMAIN list' = Procs
  BY DEF TypeOK, FaultStep, Retry, GiveUp, Stop, StatementFails, Quiet, fileVars, WindowInv
<1>1. CASE Retry(c) \/ GiveUp(c)
  <2>1. call[c].at = "ask" /\ (call'[c].at = "ask" \/ call'[c] = IdleCall)
    BY <1>0, <1>1 DEF Retry, GiveUp, End, Becomes, Calls, TypeOK
  <2>. QED
    BY <1>0, <2>1, NothingDrawn DEF Drawing, IdleCall, NewCall
<1>2. CASE Stop(c)
  <2>1. ~Storing(c) /\ call'[c] = IdleCall
    BY <1>2 DEF Stop, Sequential, OneProcess, End, Becomes, TypeOK
  <2>2. ~Drawing(c)
    BY <2>1 DEF Storing, Drawing, WindowInv
  <2>. QED
    BY <1>0, <2>1, <2>2, NothingDrawn DEF Drawing, IdleCall, NewCall
<1>3. CASE StatementFails(c)
  <2>1. PICK at \in {"insert", "select", "window"} : Go(c, at)
    BY <1>3 DEF StatementFails
  <2>2. call'[c].op = call[c].op /\ call'[c].res = call[c].res /\ call'[c].at = at
    BY <1>0, <2>1 DEF Go, Becomes, Calls, TypeOK
  <2>3. CASE call[c].op = "random"
    <3>1. call[c].at \in {"select", "insert", "erase"} /\ Go(c, "window") /\ UNCHANGED list
      BY <1>3, <2>3 DEF StatementFails, At
    <3>2. call'[c].at = "window"
      BY <1>0, <3>1 DEF Go, Becomes, Calls, TypeOK
    <3>. QED
      BY <1>0, <2>2, <2>3, <3>1, <3>2, DrawnOn
  <2>4. CASE call[c].op # "random"
    BY <1>0, <2>2, <2>4, NothingDrawn DEF Drawing
  <2>. QED
    BY <2>3, <2>4
<1>. QED
  BY <1>1, <1>2, <1>3 DEF FaultStep

LEMMA WindowNext ==
    ASSUME Sequential, TypeOK, WindowInv, [Next]_vars
    PROVE  WindowInv'
<1>1. CASE UNCHANGED vars
  BY <1>1 DEF vars, fileVars, WindowInv, Drawing
<1>2. CASE Review
  BY <1>2 DEF Review, fileVars, WindowInv, Drawing
<1>. QED
  BY <1>1, <1>2, StoreWindow, RandomWindow, OtherWindow, PurgeWindow, FaultWindow DEF Next

\* What is kept stays good: an ETag left in the cache file confirms the copy
\* beside it or nothing (client.go Get and Meta, cache.go UpsertPrompt,
\* DeletePrompts, Purge, SetETag), and the votes were sent with the device id kept.
THEOREM CacheInvariant ==
    ASSUME Sequential
    PROVE  Spec => []CacheInv
<1>1. Init => WindowInv
  BY WindowInit
<1>2. AnswersInv /\ WindowInv /\ [Next]_vars => WindowInv'
  BY WindowNext DEF AnswersInv
<1>. QED
  BY <1>1, <1>2, AnswersInvariant, PTL DEF Spec, CacheInv

\* The window of `random --fresh` (cache.go PushRecent) holds the ids drawn last,
\* RecentKeep of them at most, none twice and none forgotten, whatever has failed
\* or ended between the draws.
THEOREM FreshWindow ==
    ASSUME Sequential
    PROVE  Spec => []WindowIsLatest
<1>1. CacheInv => WindowIsLatest
  BY DEF CacheInv, WindowInv, WindowIsLatest, Drawing
<1>. QED
  BY <1>1, CacheInvariant, PTL
=============================================================================
