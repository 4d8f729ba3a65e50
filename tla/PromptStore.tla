---------------------------- MODULE PromptStore ----------------------------
(***************************************************************************)
(* Uploads and scores.  An upload is one transaction: it looks for the     *)
(* client id, then for a prompt of the same content hash, then writes.  It *)
(* holds the server's only connection (SetMaxOpenConns(1)) from its first  *)
(* statement to its last; an operator's process may write in between, and  *)
(* SQLite then refuses the transaction its first write (SQLITE_BUSY).  A   *)
(* score is three statements in autocommit, with anything between them.    *)
(***************************************************************************)
EXTENDS Naturals, FiniteSets

CONSTANTS
    Calls,        \* requests under way at one time
    Ids,          \* what NewID may draw
    Texts, Digests,
    DigestOf,     \* ContentHash: SHA-256 of the text with its white space folded
    Clients, Devices,
    Values,       \* scores given, of 1 .. 5
    Submissions,  \* the texts users upload, with the clientId they send along
    Outcomes,     \* statuses an operator sets
    NoPrompt, None

Statuses == {"pending", "approved", "rejected", "featured"}
PublicStatuses == {"approved", "featured"}
Prompts == [text: Texts, status: Statuses]
NoVote == 0

ASSUME DigestAssumption == DigestOf \in [Texts -> Digests]
ASSUME ValuesAssumption == Values \subseteq 1 .. 5
ASSUME SubmissionsAssumption ==
    Submissions \subseteq [text: Texts, client: Clients \cup {None}]
ASSUME OutcomesAssumption == Outcomes \subseteq Statuses
ASSUME NonesAssumption ==
    None \notin Ids \cup Clients \cup Calls \cup Digests \cup Devices \cup Texts
ASSUME NoPromptAssumption == NoPrompt \notin Prompts

VARIABLES
    prompt,     \* table prompts, by id
    upload,     \* table uploads: the prompt of a client id
    vote,       \* table scores, by prompt and device
    published,  \* history: the prompts that have been public
    conn,       \* the call whose transaction holds the server's connection
    stale,      \* has another process written since it began?
    call        \* by call: how far it is, its arguments, its answer

vars == <<prompt, upload, vote, published, conn, stale, call>>

Steps == {"idle", "upload", "read", "score", "public", "written", "answered"}
Answers == {"none", "created", "reused", "internal", "notfound", "scored"}
CallStates ==
    [step: Steps, answer: Answers, text: Texts \cup {None}, client: Clients \cup {None},
     id: Ids \cup {None}, device: Devices \cup {None}, value: Values \cup {NoVote}]
IdleCall == [step |-> "idle", answer |-> "none", text |-> None, client |-> None,
             id |-> None, device |-> None, value |-> NoVote]

TypeOK ==
    /\ prompt \in [Ids -> Prompts \cup {NoPrompt}]
    /\ upload \in [Clients -> Ids \cup {None}]
    /\ vote \in [Ids -> [Devices -> Values \cup {NoVote}]]
    /\ published \subseteq Ids
    /\ conn \in Calls \cup {None}
    /\ stale \in BOOLEAN
    /\ call \in [Calls -> CallStates]

Init ==
    /\ prompt = [i \in Ids |-> NoPrompt]
    /\ upload = [c \in Clients |-> None]
    /\ vote = [i \in Ids |-> [d \in Devices |-> NoVote]]
    /\ published = {}
    /\ conn = None
    /\ stale = FALSE
    /\ call = [r \in Calls |-> IdleCall]

Exists(i) == prompt[i] # NoPrompt

\* Plausible bugs, used to test the properties below.
ExistingPrompt(i) == Exists(i)
SameIfPublic(t) ==
    {i \in Ids : Exists(i) /\ prompt[i].status = "approved" /\ DigestOf[prompt[i].text] = DigestOf[t]}
SameByShortHash(t) == {i \in Ids : Exists(i)} \* as if eight digits told texts apart

Public(i) == Exists(i) /\ prompt[i].status \in PublicStatuses
Digest(i) == DigestOf[prompt[i].text]
Same(t) == {i \in Ids : Exists(i) /\ Digest(i) = DigestOf[t]}
Bound(c) == c # None /\ upload[c] # None

-----------------------------------------------------------------------------
(* Uploads *)

At(r, step) == call[r].step = step

\* The caller of POST /v1/prompts; a lost reply may be asked for again.
SendUpload(r, s) ==
    /\ At(r, "idle")
    /\ call' = [call EXCEPT ![r] =
          [IdleCall EXCEPT !.step = "upload", !.text = s.text, !.client = s.client]]
    /\ UNCHANGED <<prompt, upload, vote, published, conn, stale>>

\* Commit or rollback: the connection is free for others.
Finish(r, answer, i) ==
    /\ call' = [call EXCEPT ![r] = [@ EXCEPT !.step = "answered", !.answer = answer, !.id = i]]
    /\ conn' = None
    /\ stale' = FALSE

\* ORDER BY public DESC, id LIMIT 1; which id is smaller is a matter of chance.
First(ids) == {i \in ids : Public(i) \/ \A j \in ids : ~Public(j)}

\* BEGIN, the SELECT of the client id, the SELECT of the content hash.
UploadRead(r) ==
    LET c == call[r].client  same == Same(call[r].text)
    IN  /\ At(r, "upload")
        /\ conn = None
        /\ IF Bound(c) THEN Finish(r, "reused", upload[c])
           ELSE IF same # {} /\ c = None THEN \E i \in First(same) : Finish(r, "reused", i)
           ELSE /\ call' \in {[call EXCEPT ![r] = [@ EXCEPT !.step = "read", !.id = i]] :
                                i \in IF same = {} THEN {None} ELSE First(same)}
                /\ conn' = r
                /\ stale' = FALSE
        /\ UNCHANGED <<prompt, upload, vote, published>>

\* INSERT (OR IGNORE) INTO uploads.
Record(c, i) == IF c = None \/ Bound(c) THEN upload ELSE [upload EXCEPT ![c] = i]

\* The INSERTs and COMMIT.  NewID may draw an id that is taken.
UploadWrite(r) ==
    LET c == call[r].client
    IN  /\ At(r, "read")
        /\ UNCHANGED <<vote, published>>
        /\ IF stale
           THEN Finish(r, "internal", None) /\ UNCHANGED <<prompt, upload>>
           ELSE IF call[r].id # None
           THEN /\ upload' = Record(c, call[r].id)
                /\ Finish(r, "reused", call[r].id)
                /\ UNCHANGED prompt
           ELSE \E i \in Ids :
                IF Exists(i)
                THEN Finish(r, "internal", None) /\ UNCHANGED <<prompt, upload>>
                ELSE /\ prompt' = [prompt EXCEPT ![i] =
                                      [text |-> call[r].text, status |-> "pending"]]
                     /\ upload' = Record(c, i)
                     /\ Finish(r, "created", i)

-----------------------------------------------------------------------------
(* Review, in a process of the operator *)

SetStatus(i, status) ==
    /\ Exists(i)
    /\ prompt' = [prompt EXCEPT ![i].status = status]
    /\ published' = IF status \in PublicStatuses THEN published \cup {i} ELSE published
    /\ stale' = (conn # None)
    /\ UNCHANGED <<upload, vote, conn, call>>

-----------------------------------------------------------------------------
(* Scores *)

SendScore(r, i, d, v) ==
    /\ At(r, "idle")
    /\ call' = [call EXCEPT ![r] =
          [IdleCall EXCEPT !.step = "score", !.id = i, !.device = d, !.value = v]]
    /\ UNCHANGED <<prompt, upload, vote, published, conn, stale>>

\* AssertPublic.
ScoreCheck(r) ==
    /\ At(r, "score")
    /\ conn = None
    /\ call' = [call EXCEPT ![r] =
          IF Public(call[r].id) THEN [@ EXCEPT !.step = "public"]
          ELSE [@ EXCEPT !.step = "answered", !.answer = "notfound"]]
    /\ UNCHANGED <<prompt, upload, vote, published, conn, stale>>

\* INSERT ... ON CONFLICT DO UPDATE.
ScoreWrite(r) ==
    /\ At(r, "public")
    /\ conn = None
    /\ vote' = [vote EXCEPT ![call[r].id][call[r].device] = call[r].value]
    /\ call' = [call EXCEPT ![r] = [@ EXCEPT !.step = "written"]]
    /\ UNCHANGED <<prompt, upload, published, conn, stale>>

\* SELECT AVG(value), COUNT(*), and the answer.
ScoreStats(r) ==
    /\ At(r, "written")
    /\ conn = None
    /\ call' = [call EXCEPT ![r] = [@ EXCEPT !.step = "answered", !.answer = "scored"]]
    /\ UNCHANGED <<prompt, upload, vote, published, conn, stale>>

-----------------------------------------------------------------------------

Receive(r) ==
    /\ At(r, "answered")
    /\ call' = [call EXCEPT ![r] = IdleCall]
    /\ UNCHANGED <<prompt, upload, vote, published, conn, stale>>

\* The caller gives up or dies, or the server does, at any point: a POST is not
\* repeated, an open transaction is rolled back, what is committed stays.
LoseReply(r) ==
    /\ ~At(r, "idle")
    /\ call' = [call EXCEPT ![r] = IdleCall]
    /\ conn' = IF conn = r THEN None ELSE conn
    /\ stale' = (stale /\ conn # r)
    /\ UNCHANGED <<prompt, upload, vote, published>>

Upload(r) ==
    \/ \E s \in Submissions : SendUpload(r, s)
    \/ UploadRead(r) \/ UploadWrite(r)

Score(r) ==
    \/ \E i \in Ids, d \in Devices, v \in Values : SendScore(r, i, d, v)
    \/ ScoreCheck(r) \/ ScoreWrite(r) \/ ScoreStats(r)

Next ==
    \/ \E r \in Calls : Upload(r) \/ Score(r) \/ Receive(r) \/ LoseReply(r)
    \/ \E i \in Ids, status \in Outcomes : SetStatus(i, status)

Spec == Init /\ [][Next]_vars

-----------------------------------------------------------------------------
(* Properties *)

\* Texts that differ in white space only are one prompt, whoever uploads them,
\* whenever, and whatever becomes of the prompt (no index enforces it).
OneRowPerText ==
    \A i, j \in Ids : Exists(i) /\ Exists(j) /\ Digest(i) = Digest(j) => i = j

\* What a transaction has read is still so when it writes, and an answer given
\* names a prompt that is stored, the one its client id stands for.
UploadSound(r) ==
    /\ At(r, "read") <=> conn = r
    /\ call[r].step \in {"upload", "read"} => call[r].text \in Texts
    /\ call[r].answer # "none" => At(r, "answered")
    /\ At(r, "read") =>
          /\ ~Bound(call[r].client)
          /\ IF call[r].id = None THEN Same(call[r].text) = {}
             ELSE call[r].id \in Same(call[r].text)
    /\ call[r].answer \in {"created", "reused"} =>
          /\ call[r].id \in Ids /\ Exists(call[r].id)
          /\ call[r].client # None => upload[call[r].client] = call[r].id

UploadInv ==
    /\ OneRowPerText
    /\ \A c \in Clients : upload[c] # None => Exists(upload[c])
    /\ \A r \in Calls : UploadSound(r)

\* A prompt that was never public has no votes, although a review may come between
\* AssertPublic and the INSERT; an answer given counts the caller's vote.
VoteSound(r) ==
    /\ call[r].step \in {"score", "public", "written"} =>
          /\ call[r].id \in Ids /\ call[r].device \in Devices /\ call[r].value \in Values
    /\ At(r, "public") => call[r].id \in published
    /\ At(r, "written") => vote[call[r].id][call[r].device] # NoVote

VoteInv ==
    /\ \A i \in Ids : Public(i) => i \in published
    /\ \A i \in Ids, d \in Devices : vote[i][d] # NoVote => i \in published
    /\ \A r \in Calls : VoteSound(r)

StoreInv == TypeOK /\ UploadInv /\ VoteInv

\* The text of an upload that is answered with success is stored under the id it
\* was answered with, up to white space.
AcceptedIsStored ==
    \A r \in Calls :
        call[r].answer \in {"created", "reused"} =>
            DigestOf[prompt[call[r].id].text] = DigestOf[call[r].text]

DigestAt == [i \in Ids |-> IF Exists(i) THEN Digest(i) ELSE None]

Intaken == INSTANCE Intake WITH digest <- DigestAt, bound <- upload

\* The transaction of an upload, with its rollbacks and lost replies, is one atomic
\* step of Intake or nothing.
ImplementsIntake == Intaken!IntakeSpec

\* Without a client id that is bound, only a public prompt of the same text is
\* reused.
ReusedIsPublic ==
    [][\A r \in Calls :
          call'[r].answer = "reused" /\ call[r].answer = "none" /\ ~Bound(call[r].client)
              => Public(call'[r].id)]_vars

\* An upload fails only because another process writes: an id that is taken is
\* drawn again.
CollisionRetried ==
    [][\A r \in Calls :
          call'[r].answer = "internal" /\ call[r].answer = "none" => stale]_vars

\* The transitions of the status that are documented.
DocumentedTransitions ==
    [][\A i \in Ids :
          Exists(i) /\ prompt'[i].status # prompt[i].status =>
              \/ prompt[i].status = "pending" /\ prompt'[i].status \in {"approved", "rejected"}
              \/ prompt[i].status = "approved" /\ prompt'[i].status = "featured"]_vars
=============================================================================
