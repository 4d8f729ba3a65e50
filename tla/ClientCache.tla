----------------------------- MODULE ClientCache -----------------------------
(***************************************************************************)
(* What an SDK client keeps beside the catalogue in its cache file, and    *)
(* the calls that use it: the ETags and copies Get and Meta answer a 304   *)
(* from, the ids drawn lately for `random --fresh`, and the device id      *)
(* votes are counted by.                                                   *)
(*                                                                         *)
(* A row of prompt_cache and its ETag are two statements, as are meta_json *)
(* and its ETag, and a row is written by Get, Random and Sync alike:       *)
(*                                                                         *)
(*   Get     ask -> tag -> select -> insert [-> erase]        a new answer *)
(*           ask -> confirmed                                 304          *)
(*   Meta    ask -> tag -> insert,  ask -> confirmed                       *)
(*   Random  ask -> select -> insert [-> erase] -> window -> push          *)
(*   Sync    ask -> select -> insert [-> erase],  ask -> delete            *)
(*   Score   [draw -> keep ->] post             Purge   (rows) -> kv       *)
(*                                                                         *)
(* CatalogSync has the rounds of Sync; here it is one row at a time, read  *)
(* at the server at one moment and written at a later one.                 *)
(***************************************************************************)
EXTENDS Served, Sequences

CONSTANTS
    Procs,      \* processes and goroutines that share the cache file
    Devices,    \* ids DeviceID may draw
    Ops,        \* calls made: some of "read", "random", "sync", "score", "purge"
    Torn,       \* a process may end, or a statement fail, inside a store
    RecentKeep, \* recentKeep, 50 in the code
    Attempts,   \* defaultMaxAttempt, 3 in the code
    MaxFaults   \* bound of the model: ends of processes and failed statements

ASSUME CacheAssumption ==
    /\ None \notin Devices
    /\ Torn \in BOOLEAN
    /\ RecentKeep \in Nat /\ RecentKeep >= 2
    /\ Attempts \in Nat \ {0} /\ MaxFaults \in Nat

VARIABLES
    \* the cache file
    tag,     \* kv etag:<id> and etag:meta
    copy,    \* prompt_cache, and kv meta_json
    recent,  \* kv recent_random
    device,  \* kv device_id
    call,    \* by process: the call under way
    list,    \* by process: the ids Random excludes, then the window PushRecent read
    faults,
    \* history only
    drawn,   \* every id Random has drawn since the window was emptied, latest first
    used     \* device ids the server has seen

fileVars == <<tag, copy, recent, device>>
vars == <<server, fileVars, call, list, faults, drawn, used>>

Answers == Views \cup {None}

Steps == {"idle", "ask", "confirmed", "tag", "select", "insert", "erase", "delete",
          "window", "push", "draw", "keep", "post", "kv"}

Calls == [op: {"none", "read", "random", "sync", "score", "purge"}, at: Steps,
          res: Resources \cup {None},
          cond: Answers,      \* If-None-Match
          reply: Answers, changed: BOOLEAN, tries: 0 .. Attempts,
          dev: Devices \cup {None}]

NewCall(op, at, r, cond, d) ==
    [op |-> op, at |-> at, res |-> r, cond |-> cond, reply |-> None, changed |-> FALSE,
     tries |-> 0, dev |-> d]

IdleCall == NewCall("none", "idle", None, None, None)

TypeOK ==
    /\ server \in [Ids -> ServerRows]
    /\ tag \in [Resources -> Answers]
    /\ copy \in [Resources -> Answers]
    /\ device \in Devices \cup {None}
    /\ call \in [Procs -> Calls]
    /\ faults \in 0 .. MaxFaults
    /\ used \subseteq Devices

Init ==
    /\ ServedInit
    /\ tag = [r \in Resources |-> None]
    /\ copy = [r \in Resources |-> None]
    /\ recent = <<>>
    /\ device = None
    /\ call = [c \in Procs |-> IdleCall]
    /\ list = [c \in Procs |-> <<>>]
    /\ faults = 0
    /\ drawn = <<>>
    /\ used = {}

-----------------------------------------------------------------------------
(* Steps of a call *)

At(c, op, at) == call[c].op = op /\ call[c].at = at

Becomes(c, new) == call' = [call EXCEPT ![c] = new]

Begin(c, new) ==
    /\ call[c] = IdleCall /\ new.op \in Ops
    /\ Becomes(c, new)

Go(c, at) == Becomes(c, [call[c] EXCEPT !.at = at])

End(c) == Becomes(c, IdleCall)

\* Get and Sync are through when a row is stored, Random goes on to its window.
AfterStore(c) == IF call[c].op = "random" THEN Go(c, "window") ELSE End(c)

Quiet == UNCHANGED <<list, faults, drawn, used>>

\* The loop of PushRecent: one id after the other is taken over, but for p.
Without(p, ids) ==
    LET out[n \in 0 .. Len(ids)] ==
          IF n = 0 THEN <<>>
          ELSE IF ids[n] = p THEN out[n - 1]
          ELSE Append(out[n - 1], ids[n])
    IN  out[Len(ids)]

\* An id in front, and nowhere else.
Latest(p, ids) == <<p>> \o Without(p, ids)

\* The first n of a list.
Take(n, ids) == SubSeq(ids, 1, IF Len(ids) < n THEN Len(ids) ELSE n)

-----------------------------------------------------------------------------
(* Plausible bugs, used to test the properties below *)

MatchesAny(r, cond) == cond # None
PushedOneMore(p, ids) == Take(RecentKeep + 1, Latest(p, ids))
StoreIfAbsent(c) ==
    /\ call[c].at = "insert"
    /\ copy' = [copy EXCEPT ![call[c].res] = IF @ = None THEN call[c].reply ELSE @]
    /\ IF call[c].changed THEN Go(c, "erase") ELSE AfterStore(c)
    /\ UNCHANGED <<server, tag, recent, device>> /\ Quiet
PurgeAll(c) ==
    /\ At(c, "purge", "kv")
    /\ tag' = [r \in Resources |-> None]
    /\ copy' = [copy EXCEPT ![Meta] = None]
    /\ recent' = <<>> /\ drawn' = <<>> /\ device' = None
    /\ End(c)
    /\ UNCHANGED <<server, list, faults, used>>

-----------------------------------------------------------------------------
(* Get and Meta *)

\* GetETag: the condition of the request.
StartRead(c, r) ==
    /\ Begin(c, NewCall("read", "ask", r, tag[r], None))
    /\ UNCHANGED <<server, fileVars>> /\ Quiet

\* matchETag.
Matches(r, cond) == cond = Shown(r)

\* 304.
ServeNotModified(c) ==
    /\ At(c, "read", "ask")
    /\ Found(call[c].res) /\ Matches(call[c].res, call[c].cond)
    /\ Becomes(c, [call[c] EXCEPT !.at = "confirmed", !.reply = Shown(call[c].res)])
    /\ UNCHANGED <<server, fileVars>> /\ Quiet

\* 200 with an ETag.
ServeRead(c) ==
    /\ At(c, "read", "ask")
    /\ Found(call[c].res) /\ ~Matches(call[c].res, call[c].cond)
    /\ Becomes(c, [call[c] EXCEPT !.at = "tag", !.reply = Shown(call[c].res)])
    /\ UNCHANGED <<server, fileVars>> /\ Quiet

\* GetPrompt, or meta_json: answered from the copy; without one, asked again
\* with no condition.
ReadCopy(c) ==
    /\ At(c, "read", "confirmed")
    /\ \/ copy[call[c].res] # None /\ End(c)
       \/ /\ copy[call[c].res] = None
          /\ Becomes(c, NewCall("read", "ask", call[c].res, None, None))
    /\ UNCHANGED <<server, fileVars>> /\ Quiet

\* SetETag comes before the answer is stored.
StoreTag(c) ==
    /\ At(c, "read", "tag")
    /\ tag' = [tag EXCEPT ![call[c].res] = call[c].reply]
    /\ Go(c, IF call[c].res = Meta THEN "insert" ELSE "select")
    /\ UNCHANGED <<server, copy, recent, device>> /\ Quiet

-----------------------------------------------------------------------------
(* UpsertPrompt, and SetKV(meta_json), which is "insert" alone *)

SelectOld(c) ==
    /\ call[c].at = "select"
    /\ Becomes(c, [call[c] EXCEPT !.at = "insert",
                                  !.changed = copy[call[c].res] # call[c].reply])
    /\ UNCHANGED <<server, fileVars>> /\ Quiet

Insert(c) ==
    /\ call[c].at = "insert"
    /\ copy' = [copy EXCEPT ![call[c].res] = call[c].reply]
    /\ IF call[c].changed THEN Go(c, "erase") ELSE AfterStore(c)
    /\ UNCHANGED <<server, tag, recent, device>> /\ Quiet

\* A changed row makes its ETag void, the one Get has just stored too.
EraseTag(c) ==
    /\ call[c].at = "erase"
    /\ tag' = [tag EXCEPT ![call[c].res] = None]
    /\ AfterStore(c)
    /\ UNCHANGED <<server, copy, recent, device>> /\ Quiet

-----------------------------------------------------------------------------
(* Sync, a row at a time *)

StartSync(c, p) ==
    /\ Begin(c, NewCall("sync", "ask", p, None, None))
    /\ UNCHANGED <<server, fileVars>> /\ Quiet

\* The row is among the changes of a delta, or among its deleted ids.
ServeDelta(c) ==
    /\ At(c, "sync", "ask")
    /\ IF Public(call[c].res)
       THEN Becomes(c, [call[c] EXCEPT !.at = "select", !.reply = Shown(call[c].res)])
       ELSE Go(c, "delete")
    /\ UNCHANGED <<server, fileVars>> /\ Quiet

\* DeletePrompts: the row and its ETag, in one transaction.
DeleteRow(c) ==
    /\ At(c, "sync", "delete")
    /\ copy' = [copy EXCEPT ![call[c].res] = None]
    /\ tag' = [tag EXCEPT ![call[c].res] = None]
    /\ End(c)
    /\ UNCHANGED <<server, recent, device>> /\ Quiet

-----------------------------------------------------------------------------
(* Random *)

\* --fresh excludes RecentIDs.
StartRandom(c, fresh) ==
    /\ Begin(c, NewCall("random", "ask", None, None, None))
    /\ list' = [list EXCEPT ![c] = IF fresh THEN recent ELSE <<>>]
    /\ UNCHANGED <<server, fileVars, faults, drawn, used>>

Candidates(c) == {p \in Ids : Public(p)} \ {list[c][i] : i \in DOMAIN list[c]}

ServeRandom(c) ==
    /\ At(c, "random", "ask")
    /\ \E p \in Candidates(c) :
          /\ Becomes(c, [call[c] EXCEPT !.at = "select", !.res = p, !.reply = Shown(p)])
          /\ drawn' = Latest(p, drawn)
    /\ list' = [list EXCEPT ![c] = <<>>]
    /\ UNCHANGED <<server, fileVars, faults, used>>

\* The list PushRecent writes: newest first, without repetition, cut at the end.
Pushed(p, ids) == Take(RecentKeep, Latest(p, ids))

\* PushRecent is RecentIDs ...
ReadWindow(c) ==
    /\ At(c, "random", "window")
    /\ Go(c, "push")
    /\ list' = [list EXCEPT ![c] = recent]
    /\ UNCHANGED <<server, fileVars, faults, drawn, used>>

\* ... and SetKV.
WriteWindow(c) ==
    /\ At(c, "random", "push")
    /\ recent' = Pushed(call[c].res, list[c])
    /\ list' = [list EXCEPT ![c] = <<>>]
    /\ End(c)
    /\ UNCHANGED <<server, tag, copy, device, faults, drawn, used>>

-----------------------------------------------------------------------------
(* Score, and RegisterKey as far as the device id goes *)

\* DeviceID reads the id kept ...
StartScore(c) ==
    /\ Begin(c, NewCall("score", IF device = None THEN "draw" ELSE "post", None, None, device))
    /\ UNCHANGED <<server, fileVars>> /\ Quiet

\* ... or draws one nobody has, ...
DrawDevice(c) ==
    /\ At(c, "score", "draw")
    /\ \E d \in Devices \ (used \cup {device} \cup {call[e].dev : e \in Procs}) :
          Becomes(c, [call[c] EXCEPT !.at = "keep", !.dev = d])
    /\ UNCHANGED <<server, fileVars>> /\ Quiet

\* ... keeps it, ...
KeepDevice(c) ==
    /\ At(c, "score", "keep")
    /\ device' = call[c].dev
    /\ Go(c, "post")
    /\ UNCHANGED <<server, tag, copy, recent>> /\ Quiet

\* ... and the vote is sent with it, once: a POST is not idempotent.
Post(c) ==
    /\ At(c, "score", "post")
    /\ used' = used \cup {call[c].dev}
    /\ End(c)
    /\ UNCHANGED <<server, fileVars, list, faults, drawn>>

-----------------------------------------------------------------------------
(* Purge: DELETE FROM prompt_cache; DELETE FROM kv WHERE k <> 'device_id' *)

PurgeRows(c) ==
    /\ Begin(c, NewCall("purge", "kv", None, None, None))
    /\ copy' = [r \in Resources |-> IF r = Meta THEN copy[r] ELSE None]
    /\ UNCHANGED <<server, tag, recent, device>> /\ Quiet

PurgeKV(c) ==
    /\ At(c, "purge", "kv")
    /\ tag' = [r \in Resources |-> None]
    /\ copy' = [copy EXCEPT ![Meta] = None]
    /\ recent' = <<>> /\ drawn' = <<>>
    /\ End(c)
    /\ UNCHANGED <<server, device, list, faults, used>>

ClearRecent(c) ==
    /\ call[c] = IdleCall /\ "purge" \in Ops
    /\ recent' = <<>> /\ drawn' = <<>>
    /\ UNCHANGED <<server, tag, copy, device, call, list, faults, used>>

-----------------------------------------------------------------------------
(* What goes wrong *)

\* send: an attempt fails on the network or with a 5xx, and is repeated.
Retry(c) ==
    /\ call[c].at = "ask" /\ call[c].tries + 1 < Attempts
    /\ Becomes(c, [call[c] EXCEPT !.tries = @ + 1])
    /\ UNCHANGED <<server, fileVars>> /\ Quiet

\* The last attempt fails, or the server has nothing to answer (404).
GiveUp(c) ==
    /\ call[c].at = "ask"
    /\ \/ call[c].tries + 1 = Attempts
       \/ call[c].op = "read" /\ ~Found(call[c].res)
       \/ call[c].op = "random" /\ Candidates(c) = {}
    /\ End(c)
    /\ list' = [list EXCEPT ![c] = <<>>]
    /\ UNCHANGED <<server, fileVars, faults, drawn, used>>

\* Between the statements that store one answer.
Storing(c) ==
    \/ call[c].op = "read" /\ call[c].at \in {"select", "insert"}
    \/ call[c].op = "random" /\ call[c].at \notin {"idle", "ask"}

\* The process dies, or its context is cancelled.
Stop(c) ==
    /\ call[c] # IdleCall
    /\ Torn \/ ~Storing(c)
    /\ faults < MaxFaults /\ faults' = faults + 1
    /\ End(c)
    /\ list' = [list EXCEPT ![c] = <<>>]
    /\ UNCHANGED <<server, fileVars, drawn, used>>

\* One statement fails.  Get, Meta and Random go on as if nothing had happened,
\* Sync and the rest return the error, which is a Stop.
StatementFails(c) ==
    /\ faults < MaxFaults /\ faults' = faults + 1
    /\ \/ /\ At(c, "read", "tag")
          /\ Torn \/ call[c].res # Meta
          /\ Go(c, IF call[c].res = Meta THEN "insert" ELSE "select")
       \/ /\ call[c].op = "random" /\ call[c].at \in {"select", "insert", "erase"}
          /\ Go(c, "window")
    /\ UNCHANGED <<server, fileVars, list, drawn, used>>

-----------------------------------------------------------------------------
(* The specification *)

Review ==
    /\ \E p \in Ids, public \in BOOLEAN : Change(p, public)
    /\ UNCHANGED <<fileVars, call, list, faults, drawn, used>>

ReadStep(c) ==
    \/ \E r \in Resources : StartRead(c, r)
    \/ ServeNotModified(c) \/ ServeRead(c) \/ ReadCopy(c) \/ StoreTag(c)

StoreStep(c) == SelectOld(c) \/ Insert(c) \/ EraseTag(c)

SyncStep(c) == (\E p \in Ids : StartSync(c, p)) \/ ServeDelta(c) \/ DeleteRow(c)

RandomStep(c) ==
    \/ \E fresh \in BOOLEAN : StartRandom(c, fresh)
    \/ ServeRandom(c) \/ ReadWindow(c) \/ WriteWindow(c)

ScoreStep(c) == StartScore(c) \/ DrawDevice(c) \/ KeepDevice(c) \/ Post(c)

PurgeStep(c) == PurgeRows(c) \/ PurgeKV(c) \/ ClearRecent(c)

FaultStep(c) == Retry(c) \/ GiveUp(c) \/ Stop(c) \/ StatementFails(c)

Next ==
    \/ Review
    \/ \E c \in Procs :
          \/ ReadStep(c) \/ StoreStep(c) \/ SyncStep(c) \/ RandomStep(c)
          \/ ScoreStep(c) \/ PurgeStep(c) \/ FaultStep(c)

Spec == Init /\ [][Next]_vars

-----------------------------------------------------------------------------
(* Properties *)

\* The cache is transparent: whatever else the client does, its Get and Meta
\* answer what a client without a cache could have been answered.  A 304 is
\* answered from the copy, so the copy must be what the server confirmed.
Reading(c) == call[c].op = "read"

Asked == [c \in Procs |-> IF Reading(c) THEN call[c].res ELSE None]
Got == [c \in Procs |->
          IF ~Reading(c) THEN None
          ELSE IF call[c].at = "confirmed" THEN copy[call[c].res]
          ELSE call[c].reply]

NoCache == INSTANCE Reader WITH asked <- Asked, got <- Got

Transparent == NoCache!ReaderSpec

\* `random --fresh` keeps its word: between calls the window is the RecentKeep
\* ids drawn last, none of them twice and none forgotten.
WindowIsLatest ==
    (\A c \in Procs : call[c].op \notin {"random", "purge"})
        => recent = Take(RecentKeep, drawn)

\* All votes of an installation carry one device id, so the server counts a
\* second vote for a prompt instead of the first, over Purge too.
OneDevice == Cardinality(used) <= 1

\* A prompt that Get has stored is asked for with a condition the next time.
RowHasTag ==
    (\A c \in Procs : call[c] = IdleCall)
        => \A p \in Ids : copy[p] # None => tag[p] # None

\* `random --fresh` finds a prompt as long as there is one.
FreshFinds == (\E p \in Ids : Public(p)) => \E p \in Ids :
    Public(p) /\ \A i \in DOMAIN recent : recent[i] # p
-----------------------------------------------------------------------------
(* The inductive invariants.  AnswersInv and WindowInv take one process at *)
(* a time and whole stores, DeviceInv only one process.                    *)

\* An ETag left in the file confirms the copy, or nothing ever again: the
\* server has gone on to a later version.
Dead(r) == r \in Ids /\ tag[r] # None /\ tag[r][r] < server[r].version

TagSound(r) == tag[r] = None \/ copy[r] \in {None, tag[r]} \/ Dead(r)

\* What is kept about a prompt, or on its way to the file, shows that prompt
\* alone, in a version the server has had.
About(p, x) ==
    x # None => /\ x[p] <= server[p].version
                /\ \A q \in Ids \ {p} : x[q] = 0

\* A Get or Meta that has stored its ETag and not yet the answer.
Between(c, r) ==
    call[c].op = "read" /\ call[c].at \in {"select", "insert"} /\ call[c].res = r

FileInv ==
    /\ \A p \in Ids : About(p, tag[p])
    /\ \A r \in Resources : TagSound(r) \/ \E c \in Procs : Between(c, r)

\* The ETag kept when an answer about a prompt arrives is not of a later version.
AnswerInv(c) ==
    LET r == call[c].res
    IN  call[c].at \in {"tag", "select", "insert", "erase"} =>
           /\ r \in Resources /\ call[c].reply # None
           /\ call[c].at \in {"select", "erase"} => r \in Ids
           /\ r = Meta => call[c].op = "read"
           /\ r \in Ids => About(r, call[c].reply)
           /\ r \in Ids /\ tag[r] # None => tag[r][r] <= call[c].reply[r]

\* A device id is drawn while there is none, and a vote carries the one kept.
DrawInv(c) ==
    /\ call[c].at \in {"draw", "keep"} => device = None
    /\ call[c].at = "post" => call[c].dev = device /\ device # None
    /\ call[c].at = "keep" => call[c].dev # None

DeviceInv == TypeOK /\ used \subseteq {device} /\ \A c \in Procs : DrawInv(c)

CallInv(c) ==
    LET r == call[c].res
    IN  /\ call[c].op = "read" => r \in Resources
        /\ At(c, "read", "ask") =>
              call[c].cond \in {None, tag[r]} /\ call[c].reply = None
        /\ At(c, "read", "confirmed") => copy[r] \in {None, call[c].reply}
        /\ At(c, "sync", "ask") \/ At(c, "sync", "delete") => r \in Ids
        /\ call[c].changed => r # Meta
        /\ call[c].at = "insert" /\ r = Meta => tag[r] = call[c].reply
        /\ call[c].at = "insert" /\ r # Meta /\ ~call[c].changed =>
              copy[r] = call[c].reply
        /\ call[c].at = "erase" => copy[r] = call[c].reply
        /\ DrawInv(c)

AnswersInv ==
    /\ TypeOK
    /\ FileInv
    /\ \A c \in Procs : AnswerInv(c) /\ CallInv(c)
    /\ used \subseteq {device}

\* Behind WindowIsLatest: a Random that has its answer will make the window what
\* it should be, from the one in the file or the one it has read.
Drawing(c) == call[c].op = "random" /\ call[c].at # "ask"

WindowInv ==
    /\ DOMAIN list = Procs
    /\ drawn \in Seq(Ids) /\ \A i, j \in DOMAIN drawn : drawn[i] = drawn[j] => i = j
    /\ (\A c \in Procs : ~Drawing(c)) => recent = Take(RecentKeep, drawn)
    /\ \A c \in Procs : Drawing(c) =>
          /\ call[c].at \in {"select", "insert", "erase", "window", "push"}
          /\ Pushed(call[c].res, IF call[c].at = "push" THEN list[c] ELSE recent)
                = Take(RecentKeep, drawn)

CacheInv == AnswersInv /\ WindowInv
=============================================================================
