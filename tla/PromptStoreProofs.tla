------------------------- MODULE PromptStoreProofs -------------------------
(***************************************************************************)
(* Proofs about PromptStore, for all sets of calls, texts, client ids and  *)
(* devices.  StoreInv is inductive; that the transaction of an upload is   *)
(* atomic, and that an accepted text is stored, follow from it.            *)
(***************************************************************************)
EXTENDS PromptStore, TLAPS

LEMMA NoneIsNobody ==
    None \notin Ids /\ None \notin Clients /\ None \notin Calls /\ None \notin Digests
BY NonesAssumption

LEMMA NoVoteIsNone == NoVote \notin Values
BY ValuesAssumption DEF NoVote

LEMMA InitInv == Init => StoreInv
<1>. SUFFICES ASSUME Init PROVE StoreInv
  OBVIOUS
<1>1. TypeOK
  BY DEF Init, TypeOK, IdleCall, CallStates, Steps, Answers
<1>2. UploadInv
  BY NoneIsNobody DEF Init, UploadInv, OneRowPerText, UploadSound, At, IdleCall, Exists
<1>3. VoteInv
  BY DEF Init, VoteInv, VoteSound, At, IdleCall, Public, Exists
<1>. QED
  BY <1>1, <1>2, <1>3 DEF StoreInv

-----------------------------------------------------------------------------
(* Types *)

LEMMA CallTyped ==
    ASSUME TypeOK, NEW r \in Calls, NEW s \in Steps, NEW a \in Answers,
           NEW i \in Ids \cup {None}
    PROVE  /\ IdleCall \in CallStates
           /\ [call[r] EXCEPT !.step = s] \in CallStates
           /\ [call[r] EXCEPT !.step = s, !.id = i] \in CallStates
           /\ [call[r] EXCEPT !.step = s, !.answer = a] \in CallStates
           /\ [call[r] EXCEPT !.step = s, !.answer = a, !.id = i] \in CallStates
BY DEF TypeOK, CallStates, IdleCall, Steps, Answers

\* What Finish makes of a call and of the connection.
LEMMA Finished ==
    ASSUME TypeOK, NEW r \in Calls, NEW a \in Answers, NEW i \in Ids \cup {None}, Finish(r, a, i)
    PROVE  /\ call' \in [Calls -> CallStates] /\ conn' = None /\ stale' = FALSE
           /\ call'[r].step = "answered" /\ call'[r].answer = a /\ call'[r].id = i
           /\ call'[r].text = call[r].text /\ call'[r].client = call[r].client
           /\ \A q \in Calls : q # r => call'[q] = call[q]
<1>1. call' \in [Calls -> CallStates]
  BY CallTyped DEF Finish, TypeOK, Steps
<1>. QED
  BY <1>1 DEF Finish, TypeOK, CallStates

\* A call that begins is typed, and the others stay as they are.
LEMMA Begun ==
    ASSUME TypeOK, NEW r \in Calls,
           \/ \E s \in Submissions : SendUpload(r, s)
           \/ \E i \in Ids, d \in Devices, v \in Values : SendScore(r, i, d, v)
    PROVE  /\ TypeOK'
           /\ \A q \in Calls : q # r => call'[q] = call[q]
           /\ call'[r].answer = "none"
           /\ \/ call'[r].step = "upload" /\ call'[r].text \in Texts
              \/ /\ call'[r].step = "score" /\ call'[r].id \in Ids
                 /\ call'[r].device \in Devices /\ call'[r].value \in Values
           /\ call[r].step = "idle"
           /\ UNCHANGED <<prompt, upload, vote, published, conn, stale>>
<1>1. CASE \E s \in Submissions : SendUpload(r, s)
  <2>1. PICK s \in Submissions : SendUpload(r, s)
    BY <1>1
  <2>2. s.text \in Texts /\ s.client \in Clients \cup {None}
    BY SubmissionsAssumption
  <2>3. [IdleCall EXCEPT !.step = "upload", !.text = s.text, !.client = s.client] \in CallStates
    BY <2>2 DEF IdleCall, CallStates, Steps, Answers
  <2>4. call'[r] = [IdleCall EXCEPT !.step = "upload", !.text = s.text, !.client = s.client]
    BY <2>1 DEF SendUpload, TypeOK
  <2>5. call'[r].step = "upload" /\ call'[r].text = s.text /\ call'[r].answer = "none"
    BY <2>4 DEF IdleCall
  <2>. QED
    BY <2>1, <2>2, <2>3, <2>5 DEF SendUpload, At, TypeOK
<1>2. CASE \E i \in Ids, d \in Devices, v \in Values : SendScore(r, i, d, v)
  <2>1. PICK i \in Ids, d \in Devices, v \in Values : SendScore(r, i, d, v)
    BY <1>2
  <2>2. [IdleCall EXCEPT !.step = "score", !.id = i, !.device = d, !.value = v] \in CallStates
    BY DEF IdleCall, CallStates, Steps, Answers
  <2>3. call'[r] = [IdleCall EXCEPT !.step = "score", !.id = i, !.device = d, !.value = v]
    BY <2>1 DEF SendScore, TypeOK
  <2>4. /\ call'[r].step = "score" /\ call'[r].id = i /\ call'[r].answer = "none"
        /\ call'[r].device = d /\ call'[r].value = v
    BY <2>3 DEF IdleCall
  <2>. QED
    BY <2>1, <2>2, <2>4 DEF SendScore, At, TypeOK
<1>. QED
  BY <1>1, <1>2

-----------------------------------------------------------------------------
(* Frames *)

\* No prompt is deleted, none changes its text, and no client id is bound anew.
Kept ==
    /\ \A i \in Ids : Exists(i) => prompt'[i] # NoPrompt /\ prompt'[i].text = prompt[i].text
    /\ \A c \in Clients : upload[c] # None => upload'[c] = upload[c]

\* The part of a call that a step of another leaves alone.
LEMMA OtherUploadSound ==
    ASSUME StoreInv, Kept, NEW q \in Calls, call'[q] = call[q], conn' = q <=> conn = q,
           At(q, "read") => /\ UNCHANGED upload
                            /\ \A i \in Ids : prompt'[i] # NoPrompt => Exists(i)
    PROVE  UploadSound(q)'
<1>0. UploadSound(q) /\ call[q].client \in Clients \cup {None}
  BY DEF StoreInv, UploadInv, TypeOK, CallStates
<1>1. call[q].answer \in {"created", "reused"} =>
        /\ prompt'[call[q].id] # NoPrompt
        /\ call[q].client # None => upload'[call[q].client] = call[q].id
  BY <1>0, NoneIsNobody DEF UploadSound, Kept
<1>2. At(q, "read") =>
        /\ ~Bound(call[q].client)'
        /\ Same(call[q].text)' = Same(call[q].text)
  BY <1>0 DEF UploadSound, Kept, Bound, Same, Digest, Exists
<1>. QED
  BY <1>0, <1>1, <1>2 DEF UploadSound, At, Exists, Same, Bound, Digest

LEMMA OtherVoteSound ==
    ASSUME StoreInv, NEW q \in Calls, call'[q] = call[q], published \subseteq published',
           \A i \in Ids, d \in Devices : vote[i][d] # NoVote => vote'[i][d] # NoVote
    PROVE  VoteSound(q)'
<1>1. VoteSound(q)
  BY DEF StoreInv, VoteInv
<1>. QED
  BY <1>1 DEF VoteSound, At

\* Steps that write no table.
LEMMA CallStep ==
    ASSUME StoreInv, TypeOK', UNCHANGED <<prompt, upload, vote, published>>, NEW r \in Calls,
           \A q \in Calls : q # r => call'[q] = call[q] /\ (conn' = q <=> conn = q),
           UploadSound(r)', VoteSound(r)'
    PROVE  StoreInv'
<1>1. ASSUME NEW q \in Calls, q # r PROVE UploadSound(q)' /\ VoteSound(q)'
  BY <1>1, OtherUploadSound, OtherVoteSound DEF Kept, Exists
<1>2. UploadInv'
  BY <1>1 DEF StoreInv, UploadInv, OneRowPerText, Exists, Digest
<1>3. VoteInv'
  BY <1>1 DEF StoreInv, VoteInv, Public, Exists
<1>. QED
  BY <1>2, <1>3 DEF StoreInv

-----------------------------------------------------------------------------
(* Uploads *)

LEMMA UploadReadInv ==
    ASSUME StoreInv, NEW r \in Calls, UploadRead(r)
    PROVE  StoreInv'
<1>. DEFINE c == call[r].client  t == call[r].text
<1>1. TypeOK /\ UploadSound(r) /\ UNCHANGED <<prompt, upload, vote, published>>
  BY DEF StoreInv, UploadInv, UploadRead
<1>2. c \in Clients \cup {None} /\ t \in Texts /\ conn = None
  BY <1>1 DEF TypeOK, CallStates, UploadSound, UploadRead, At
<1>3. ASSUME NEW i \in Ids, Exists(i), Finish(r, "reused", i), c # None => upload[c] = i
      PROVE  StoreInv'
  <2>1. /\ call' \in [Calls -> CallStates] /\ conn' = None /\ stale' = FALSE
        /\ call'[r].step = "answered" /\ call'[r].answer = "reused" /\ call'[r].id = i
        /\ call'[r].client = c /\ \A q \in Calls : q # r => call'[q] = call[q]
    BY <1>1, <1>3, Finished DEF Answers
  <2>2. TypeOK'
    BY <1>1, <2>1 DEF TypeOK
  <2>3. UploadSound(r)' /\ VoteSound(r)'
    BY <1>1, <1>3, <2>1, NoneIsNobody DEF UploadSound, VoteSound, At, Exists
  <2>. QED
    BY <1>1, <1>2, <2>1, <2>2, <2>3, CallStep, NoneIsNobody
<1>4. CASE Bound(c)
  <2>1. upload[c] \in Ids /\ Exists(upload[c]) /\ Finish(r, "reused", upload[c])
    BY <1>1, <1>2, <1>4 DEF Bound, TypeOK, StoreInv, UploadInv, UploadRead
  <2>. QED
    BY <1>3, <2>1
<1>5. CASE ~Bound(c) /\ Same(t) # {} /\ c = None
  <2>1. PICK i \in First(Same(t)) : Finish(r, "reused", i)
    BY <1>5 DEF UploadRead
  <2>2. i \in Ids /\ Exists(i)
    BY <2>1 DEF First, Same
  <2>. QED
    BY <1>3, <1>5, <2>1, <2>2
<1>6. CASE ~Bound(c) /\ ~ (Same(t) # {} /\ c = None)
  <2>1. PICK i \in IF Same(t) = {} THEN {None} ELSE First(Same(t)) :
          call' = [call EXCEPT ![r] = [@ EXCEPT !.step = "read", !.id = i]]
    BY <1>6 DEF UploadRead
  <2>2. conn' = r /\ stale' = FALSE
    BY <1>6 DEF UploadRead
  <2>3. i \in Ids \cup {None} /\ IF i = None THEN Same(t) = {} ELSE i \in Same(t)
    BY <2>1, NoneIsNobody DEF First, Same
  <2>4. [call[r] EXCEPT !.step = "read", !.id = i] \in CallStates
    BY <1>1, <2>3, CallTyped DEF Steps, Answers
  <2>5. call'[r] = [call[r] EXCEPT !.step = "read", !.id = i]
    BY <1>1, <2>1 DEF TypeOK
  <2>6. /\ call'[r].step = "read" /\ call'[r].id = i /\ call'[r].text = t
        /\ call'[r].client = c /\ call'[r].answer = call[r].answer
        /\ call' \in [Calls -> CallStates]
        /\ \A q \in Calls : q # r => call'[q] = call[q]
    BY <1>1, <2>1, <2>4, <2>5 DEF TypeOK, CallStates
  <2>7. TypeOK'
    BY <1>1, <2>2, <2>6 DEF TypeOK
  <2>8. call[r].answer = "none"
    BY <1>1 DEF UploadRead, UploadSound, At
  <2>9. UploadSound(r)' /\ VoteSound(r)'
    BY <1>1, <1>2, <1>6, <2>2, <2>3, <2>6, <2>8
       DEF UploadSound, VoteSound, At, Bound, Same, Exists, Digest
  <2>. QED
    BY <1>1, <1>2, <2>2, <2>6, <2>7, <2>9, CallStep, NoneIsNobody
<1>. QED
  BY <1>4, <1>5, <1>6

\* What both branches of UploadWrite that commit leave true.
LEMMA UploadWriteInv ==
    ASSUME StoreInv, NEW r \in Calls, UploadWrite(r)
    PROVE  StoreInv'
<1>. DEFINE c == call[r].client  t == call[r].text
<1>1. TypeOK /\ UploadInv /\ UploadSound(r) /\ VoteInv /\ UNCHANGED <<vote, published>>
  BY DEF StoreInv, UploadInv, UploadWrite
<1>2. /\ c \in Clients \cup {None} /\ t \in Texts /\ conn = r /\ ~Bound(c)
      /\ call[r].id \in Ids \cup {None}
      /\ IF call[r].id = None THEN Same(t) = {} ELSE call[r].id \in Same(t)
  BY <1>1 DEF TypeOK, CallStates, UploadSound, UploadWrite, At
<1>3. \A q \in Calls : q # r => ~At(q, "read") /\ conn # q
  BY <1>1, <1>2 DEF UploadInv, UploadSound
<1>4. CASE Finish(r, "internal", None) /\ UNCHANGED <<prompt, upload>>
  <2>1. /\ call' \in [Calls -> CallStates] /\ conn' = None /\ stale' = FALSE
        /\ call'[r].step = "answered" /\ call'[r].answer = "internal"
        /\ \A q \in Calls : q # r => call'[q] = call[q]
    BY <1>1, <1>4, Finished DEF Answers
  <2>2. TypeOK'
    BY <1>1, <1>4, <2>1 DEF TypeOK
  <2>3. UploadSound(r)' /\ VoteSound(r)'
    BY <2>1, NoneIsNobody DEF UploadSound, VoteSound, At
  <2>. QED
    BY <1>1, <1>3, <1>4, <2>1, <2>2, <2>3, CallStep, NoneIsNobody
<1>5. ASSUME NEW i \in Ids, NEW a \in {"created", "reused"}, Finish(r, a, i),
             upload' = Record(c, i), Kept, TypeOK', prompt'[i] # NoPrompt, OneRowPerText',
             \A j \in Ids : Public(j)' => Public(j)
      PROVE  StoreInv'
  <2>1. /\ call' \in [Calls -> CallStates] /\ conn' = None /\ stale' = FALSE
        /\ call'[r].step = "answered" /\ call'[r].answer = a /\ call'[r].id = i
        /\ call'[r].client = c /\ \A q \in Calls : q # r => call'[q] = call[q]
    BY <1>1, <1>5, Finished DEF Answers
  <2>2. UploadSound(r)' /\ VoteSound(r)'
    BY <1>1, <1>2, <1>5, <2>1, NoneIsNobody
       DEF UploadSound, VoteSound, At, Exists, Record, Bound, TypeOK
  <2>3. ASSUME NEW q \in Calls, q # r PROVE UploadSound(q)' /\ VoteSound(q)'
    BY <1>1, <1>3, <1>5, <2>1, <2>3, OtherUploadSound, OtherVoteSound, NoneIsNobody
  <2>4. ASSUME NEW d \in Clients, upload'[d] # None PROVE prompt'[upload'[d]] # NoPrompt
    <3>1. upload'[d] = upload[d] \/ upload'[d] = i
      BY <1>1, <1>5 DEF Record, TypeOK
    <3>2. CASE upload'[d] = i
      BY <1>5, <3>2
    <3>3. CASE upload'[d] = upload[d]
      BY <1>1, <1>5, <2>4, <3>3 DEF UploadInv, Kept, TypeOK
    <3>. QED
      BY <3>1, <3>2, <3>3
  <2>5. UploadInv'
    BY <1>5, <2>2, <2>3, <2>4 DEF UploadInv, Exists
  <2>6. VoteInv'
    BY <1>1, <1>5, <2>2, <2>3 DEF VoteInv
  <2>. QED
    BY <1>5, <2>5, <2>6 DEF StoreInv
<1>6. CASE ~stale /\ call[r].id # None
  <2>. DEFINE i == call[r].id
  <2>1. Finish(r, "reused", i) /\ upload' = Record(c, i) /\ UNCHANGED prompt
    BY <1>6 DEF UploadWrite
  <2>2. i \in Ids /\ Exists(i)
    BY <1>2, <1>6 DEF Same
  <2>3. call' \in [Calls -> CallStates] /\ conn' = None /\ stale' = FALSE
    BY <1>1, <2>1, <2>2, Finished DEF Answers
  <2>4. TypeOK'
    BY <1>1, <1>2, <2>1, <2>2, <2>3 DEF TypeOK, Record
  <2>5. Kept
    BY <1>1, <1>2, <2>1 DEF Kept, Record, Bound, Exists, TypeOK
  <2>6. OneRowPerText' /\ prompt'[i] # NoPrompt /\ \A j \in Ids : Public(j)' => Public(j)
    BY <1>1, <2>1, <2>2 DEF UploadInv, OneRowPerText, Exists, Digest, Public
  <2>. QED
    BY <1>5, <2>1, <2>2, <2>4, <2>5, <2>6
<1>7. CASE ~stale /\ call[r].id = None
  <2>1. PICK i \in Ids : IF Exists(i)
             THEN Finish(r, "internal", None) /\ UNCHANGED <<prompt, upload>>
             ELSE /\ prompt' = [prompt EXCEPT ![i] = [text |-> t, status |-> "pending"]]
                  /\ upload' = Record(c, i)
                  /\ Finish(r, "created", i)
    BY <1>7 DEF UploadWrite
  <2>2. CASE Exists(i)
    BY <1>4, <2>1, <2>2
  <2>3. CASE ~Exists(i)
    <3>. DEFINE p == [text |-> t, status |-> "pending"]
    <3>1. prompt' = [prompt EXCEPT ![i] = p] /\ upload' = Record(c, i) /\ Finish(r, "created", i)
      BY <2>1, <2>3
    <3>2. p \in Prompts /\ p # NoPrompt
      BY <1>2, NoPromptAssumption DEF Prompts, Statuses
    <3>3. prompt'[i] = p /\ \A j \in Ids : j # i => prompt'[j] = prompt[j]
      BY <1>1, <3>1 DEF TypeOK
    <3>4. call' \in [Calls -> CallStates] /\ conn' = None /\ stale' = FALSE
      BY <1>1, <3>1, Finished DEF Answers
    <3>5. TypeOK'
      BY <1>1, <1>2, <3>1, <3>2, <3>4 DEF TypeOK, Record
    <3>6. Kept
      BY <1>1, <1>2, <2>3, <3>1, <3>2, <3>3 DEF Kept, Record, Bound, Exists, TypeOK
    <3>7. \A j \in Ids : Exists(j) => Digest(j) # DigestOf[t]
      BY <1>2, <1>7 DEF Same
    <3>8. OneRowPerText'
      BY <1>1, <3>3, <3>7 DEF UploadInv, OneRowPerText, Exists, Digest
    <3>9. \A j \in Ids : Public(j)' => Public(j)
      BY <3>3 DEF Public, Exists, PublicStatuses
    <3>. QED
      BY <1>5, <3>1, <3>2, <3>3, <3>5, <3>6, <3>8, <3>9
  <2>. QED
    BY <2>2, <2>3
<1>. QED
  BY <1>4, <1>6, <1>7 DEF UploadWrite

-----------------------------------------------------------------------------
(* Reviews, scores, replies *)

LEMMA SetStatusInv ==
    ASSUME StoreInv, NEW i \in Ids, NEW status \in Outcomes, SetStatus(i, status)
    PROVE  StoreInv'
<1>1. /\ TypeOK /\ UploadInv /\ VoteInv /\ Exists(i)
      /\ prompt' = [prompt EXCEPT ![i].status = status]
      /\ published' = IF status \in PublicStatuses THEN published \cup {i} ELSE published
      /\ stale' = (conn # None)
      /\ UNCHANGED <<upload, vote, conn, call>>
  BY DEF StoreInv, SetStatus
<1>2. prompt[i] \in Prompts
  BY <1>1 DEF TypeOK, Exists
<1>3. /\ prompt'[i] \in Prompts /\ prompt'[i].text = prompt[i].text
      /\ prompt'[i].status = status /\ prompt'[i] # NoPrompt
      /\ \A j \in Ids : j # i => prompt'[j] = prompt[j]
  BY <1>1, <1>2, OutcomesAssumption, NoPromptAssumption DEF TypeOK, Prompts
<1>4. prompt' \in [Ids -> Prompts \cup {NoPrompt}]
  BY <1>1, <1>3 DEF TypeOK
<1>5. TypeOK'
  BY <1>1, <1>4 DEF TypeOK
<1>6. Kept /\ \A j \in Ids : prompt'[j] # NoPrompt => Exists(j)
  BY <1>1, <1>3 DEF Kept, Exists
<1>7. \A q \in Calls : UploadSound(q)' /\ VoteSound(q)'
  BY <1>1, <1>6, OtherUploadSound, OtherVoteSound
<1>8. UploadInv'
  BY <1>1, <1>3, <1>6, <1>7 DEF UploadInv, OneRowPerText, Exists, Digest, TypeOK
<1>9. VoteInv'
  <2>1. \A j \in Ids : Public(j)' => j \in published'
    BY <1>1, <1>3 DEF VoteInv, Public, Exists
  <2>. QED
    BY <1>1, <1>7, <2>1 DEF VoteInv
<1>. QED
  BY <1>5, <1>8, <1>9 DEF StoreInv

LEMMA BeginInv ==
    ASSUME StoreInv, NEW r \in Calls,
           \/ \E s \in Submissions : SendUpload(r, s)
           \/ \E i \in Ids, d \in Devices, v \in Values : SendScore(r, i, d, v)
    PROVE  StoreInv'
<1>1. TypeOK /\ UploadSound(r)
  BY DEF StoreInv, UploadInv
<1>2. /\ TypeOK'
      /\ \A q \in Calls : q # r => call'[q] = call[q]
      /\ call'[r].answer = "none"
      /\ \/ call'[r].step = "upload" /\ call'[r].text \in Texts
         \/ /\ call'[r].step = "score" /\ call'[r].id \in Ids
            /\ call'[r].device \in Devices /\ call'[r].value \in Values
      /\ call[r].step = "idle"
      /\ UNCHANGED <<prompt, upload, vote, published, conn, stale>>
  BY <1>1, Begun
<1>3. conn # r
  BY <1>1, <1>2 DEF UploadSound, At
<1>4. UploadSound(r)' /\ VoteSound(r)'
  BY <1>2, <1>3 DEF UploadSound, VoteSound, At
<1>. QED
  BY <1>2, <1>4, CallStep

LEMMA ScoreInv ==
    ASSUME StoreInv, NEW r \in Calls, ScoreCheck(r) \/ ScoreWrite(r) \/ ScoreStats(r)
    PROVE  StoreInv'
<1>1. TypeOK /\ UploadSound(r) /\ VoteSound(r) /\ VoteInv /\ UploadInv /\ conn = None
      /\ call[r] \in CallStates /\ UNCHANGED <<prompt, upload, published, conn, stale>>
  BY DEF StoreInv, UploadInv, VoteInv, TypeOK, ScoreCheck, ScoreWrite, ScoreStats
<1>2. conn # r /\ call[r].step \in {"score", "public", "written"} /\ call[r].answer = "none"
  BY <1>1, NoneIsNobody DEF ScoreCheck, ScoreWrite, ScoreStats, UploadSound, At
<1>3. call[r].id \in Ids /\ call[r].device \in Devices /\ call[r].value \in Values
  BY <1>1, <1>2 DEF VoteSound
<1>4. ASSUME NEW s \in {"public", "written"}, call' = [call EXCEPT ![r] = [@ EXCEPT !.step = s]]
      PROVE  /\ call' \in [Calls -> CallStates] /\ call'[r].step = s
             /\ call'[r].id = call[r].id /\ call'[r].device = call[r].device
             /\ call'[r].value = call[r].value /\ call'[r].answer = "none"
             /\ \A q \in Calls : q # r => call'[q] = call[q]
  <2>1. [call[r] EXCEPT !.step = s] \in CallStates
    BY <1>1 DEF CallStates, Steps
  <2>2. call'[r] = [call[r] EXCEPT !.step = s]
    BY <1>1, <1>4 DEF TypeOK
  <2>. QED
    BY <1>1, <1>2, <1>4, <2>1, <2>2 DEF TypeOK, CallStates
<1>5. ASSUME NEW a \in {"notfound", "scored"},
             call' = [call EXCEPT ![r] = [@ EXCEPT !.step = "answered", !.answer = a]]
      PROVE  /\ call' \in [Calls -> CallStates] /\ call'[r].step = "answered"
             /\ call'[r].answer = a /\ \A q \in Calls : q # r => call'[q] = call[q]
  <2>1. [call[r] EXCEPT !.step = "answered", !.answer = a] \in CallStates
    BY <1>1, CallTyped DEF Steps, Answers
  <2>2. call'[r] = [call[r] EXCEPT !.step = "answered", !.answer = a]
    BY <1>1, <1>5 DEF TypeOK
  <2>. QED
    BY <1>1, <1>5, <2>1, <2>2 DEF TypeOK, CallStates
<1>6. CASE ScoreCheck(r) /\ Public(call[r].id)
  <2>1. call' = [call EXCEPT ![r] = [@ EXCEPT !.step = "public"]] /\ UNCHANGED vote
    BY <1>6 DEF ScoreCheck
  <2>2. TypeOK'
    BY <1>1, <1>4, <2>1 DEF TypeOK
  <2>3. UploadSound(r)' /\ VoteSound(r)'
    BY <1>1, <1>2, <1>3, <1>4, <1>6, <2>1 DEF UploadSound, VoteSound, VoteInv, At
  <2>. QED
    BY <1>1, <1>4, <2>1, <2>2, <2>3, CallStep
<1>7. CASE ScoreCheck(r) /\ ~Public(call[r].id)
  <2>1. call' = [call EXCEPT ![r] = [@ EXCEPT !.step = "answered", !.answer = "notfound"]]
        /\ UNCHANGED vote
    BY <1>7 DEF ScoreCheck
  <2>2. TypeOK'
    BY <1>1, <1>5, <2>1 DEF TypeOK
  <2>3. UploadSound(r)' /\ VoteSound(r)'
    BY <1>1, <1>2, <1>5, <2>1 DEF UploadSound, VoteSound, At
  <2>. QED
    BY <1>1, <1>5, <2>1, <2>2, <2>3, CallStep
<1>8. CASE ScoreStats(r)
  <2>1. call' = [call EXCEPT ![r] = [@ EXCEPT !.step = "answered", !.answer = "scored"]]
        /\ UNCHANGED vote
    BY <1>8 DEF ScoreStats
  <2>2. TypeOK'
    BY <1>1, <1>5, <2>1 DEF TypeOK
  <2>3. UploadSound(r)' /\ VoteSound(r)'
    BY <1>1, <1>2, <1>5, <2>1 DEF UploadSound, VoteSound, At
  <2>. QED
    BY <1>1, <1>5, <2>1, <2>2, <2>3, CallStep
<1>9. CASE ScoreWrite(r)
  <2>. DEFINE i == call[r].id  d == call[r].device  v == call[r].value
  <2>1. /\ vote' = [vote EXCEPT ![i][d] = v] /\ i \in published
        /\ call' = [call EXCEPT ![r] = [@ EXCEPT !.step = "written"]]
    BY <1>1, <1>9 DEF ScoreWrite, VoteSound
  <2>2. vote'[i][d] = v /\ v # NoVote
        /\ \A j \in Ids, e \in Devices : j # i \/ e # d => vote'[j][e] = vote[j][e]
    BY <1>1, <1>3, <2>1, NoVoteIsNone DEF TypeOK
  <2>3. vote' \in [Ids -> [Devices -> Values \cup {NoVote}]]
    BY <1>1, <1>3, <2>1 DEF TypeOK
  <2>4. TypeOK'
    BY <1>1, <1>4, <2>1, <2>3 DEF TypeOK
  <2>5. UploadSound(r)' /\ VoteSound(r)'
    BY <1>1, <1>2, <1>3, <1>4, <2>1, <2>2 DEF UploadSound, VoteSound, At
  <2>6. \A q \in Calls : q # r => UploadSound(q)' /\ VoteSound(q)'
    BY <1>1, <1>4, <2>1, <2>2, OtherUploadSound, OtherVoteSound DEF Kept, Exists
  <2>7. UploadInv'
    BY <1>1, <2>5, <2>6 DEF UploadInv, OneRowPerText, Exists, Digest
  <2>8. VoteInv'
    BY <1>1, <1>3, <2>1, <2>2, <2>5, <2>6 DEF VoteInv, Public, Exists
  <2>. QED
    BY <2>4, <2>7, <2>8 DEF StoreInv
<1>. QED
  BY <1>6, <1>7, <1>8, <1>9

LEMMA EndInv ==
    ASSUME StoreInv, NEW r \in Calls, Receive(r) \/ LoseReply(r)
    PROVE  StoreInv'
<1>1. TypeOK /\ UploadSound(r) /\ call' = [call EXCEPT ![r] = IdleCall]
      /\ UNCHANGED <<prompt, upload, vote, published>>
  BY DEF StoreInv, UploadInv, Receive, LoseReply
<1>2. /\ call' \in [Calls -> CallStates] /\ call'[r].step = "idle" /\ call'[r].answer = "none"
      /\ \A q \in Calls : q # r => call'[q] = call[q]
  BY <1>1, CallTyped DEF TypeOK, IdleCall, Steps, Answers
<1>3. /\ conn' # r /\ \A q \in Calls : q # r => (conn' = q <=> conn = q)
      /\ conn' \in Calls \cup {None} /\ stale' \in BOOLEAN
  BY <1>1, NoneIsNobody DEF Receive, LoseReply, UploadSound, At, TypeOK
<1>4. TypeOK'
  BY <1>1, <1>2, <1>3 DEF TypeOK
<1>5. UploadSound(r)' /\ VoteSound(r)'
  BY <1>2, <1>3 DEF UploadSound, VoteSound, At
<1>. QED
  BY <1>1, <1>2, <1>3, <1>4, <1>5, CallStep

LEMMA NextInv == StoreInv /\ [Next]_vars => StoreInv'
<1>. SUFFICES ASSUME StoreInv, [Next]_vars PROVE StoreInv'
  OBVIOUS
<1>1. CASE UNCHANGED vars
  BY <1>1 DEF vars, StoreInv, TypeOK, UploadInv, OneRowPerText, UploadSound, VoteInv, VoteSound,
              At, Exists, Public, Digest, Same, Bound
<1>2. ASSUME NEW r \in Calls, Upload(r) \/ Score(r) \/ Receive(r) \/ LoseReply(r)
      PROVE  StoreInv'
  BY <1>2, BeginInv, UploadReadInv, UploadWriteInv, ScoreInv, EndInv DEF Upload, Score
<1>3. ASSUME NEW i \in Ids, NEW status \in Outcomes, SetStatus(i, status) PROVE StoreInv'
  BY <1>3, SetStatusInv
<1>. QED
  BY <1>1, <1>2, <1>3 DEF Next

\* At all times a text is stored once whatever its white space, every answer names a
\* stored prompt, and only prompts that have been public carry votes.
THEOREM StoreInvariant == Spec => []StoreInv
<1>. QED
  BY InitInv, NextInv, PTL DEF Spec

-----------------------------------------------------------------------------
(* Atomicity of uploads *)

\* The step of a call that changes a table of Intake is one step of Intake.
LEMMA UploadWriteMaps ==
    ASSUME StoreInv, NEW r \in Calls, UploadWrite(r)
    PROVE  [Intaken!IntakeNext]_(Intaken!intakeVars)
<1>. DEFINE c == call[r].client  t == call[r].text
<1>1. TypeOK /\ UploadSound(r)
  BY DEF StoreInv, UploadInv
<1>2. /\ c \in Clients \cup {None} /\ t \in Texts /\ ~Bound(c)
      /\ call[r].id \in Ids \cup {None}
      /\ IF call[r].id = None THEN Same(t) = {} ELSE call[r].id \in Same(t)
  BY <1>1 DEF TypeOK, CallStates, UploadSound, UploadWrite, At
<1>3. \A i \in Ids : Exists(i) => Digest(i) \in Digests /\ Digest(i) # None
  BY <1>1, DigestAssumption, NoneIsNobody DEF TypeOK, Exists, Digest, Prompts
<1>4. ASSUME NEW i \in Ids, upload' = Record(c, i) PROVE Intaken!Bind(c, i)
  BY <1>2, <1>4 DEF Intaken!Bind, Record, Bound
<1>5. CASE UNCHANGED <<prompt, upload>>
  BY <1>5 DEF Intaken!intakeVars, DigestAt, Exists, Digest
<1>6. CASE ~stale /\ call[r].id # None
  <2>. DEFINE i == call[r].id
  <2>1. i \in Ids /\ Exists(i) /\ upload' = Record(c, i) /\ UNCHANGED prompt
    BY <1>2, <1>6 DEF UploadWrite, Same
  <2>2. UNCHANGED DigestAt /\ DigestAt[i] # None
    BY <1>3, <2>1 DEF DigestAt, Exists, Digest
  <2>3. Intaken!Reuse(c, i)
    BY <1>4, <2>1, <2>2 DEF Intaken!Reuse
  <2>. QED
    BY <1>2, <2>1, <2>3 DEF Intaken!IntakeNext
<1>7. CASE ~stale /\ call[r].id = None
  <2>1. PICK i \in Ids : IF Exists(i)
             THEN UNCHANGED <<prompt, upload>>
             ELSE /\ prompt' = [prompt EXCEPT ![i] = [text |-> t, status |-> "pending"]]
                  /\ upload' = Record(c, i)
    BY <1>7 DEF UploadWrite
  <2>2. CASE Exists(i)
    BY <1>5, <2>1, <2>2
  <2>3. CASE ~Exists(i)
    <3>. DEFINE p == [text |-> t, status |-> "pending"]  d == DigestOf[t]
    <3>1. /\ prompt' = [prompt EXCEPT ![i] = p] /\ upload' = Record(c, i)
          /\ p \in Prompts /\ p # NoPrompt /\ d \in Digests
      BY <1>2, <2>1, <2>3, NoPromptAssumption, DigestAssumption DEF Prompts, Statuses
    <3>2. \A j \in Ids : DigestAt[j] # d
      BY <1>2, <1>7, <3>1, NoneIsNobody DEF DigestAt, Same
    <3>3. prompt'[i] = p /\ \A j \in Ids : j # i => prompt'[j] = prompt[j]
      BY <1>1, <3>1 DEF TypeOK
    <3>4. DigestAt' = [DigestAt EXCEPT ![i] = d]
      <4>1. DigestAt'[i] = d /\ \A j \in Ids : j # i => DigestAt'[j] = DigestAt[j]
        BY <3>1, <3>3 DEF DigestAt, Exists, Digest
      <4>. QED
        BY <4>1 DEF DigestAt
    <3>5. Intaken!Store(d, c, i)
      BY <1>4, <2>3, <3>1, <3>2, <3>4 DEF Intaken!Store, DigestAt
    <3>. QED
      BY <1>2, <3>1, <3>5 DEF Intaken!IntakeNext
  <2>. QED
    BY <2>2, <2>3
<1>. QED
  BY <1>5, <1>6, <1>7 DEF UploadWrite

LEMMA NextMaps ==
    ASSUME StoreInv, [Next]_vars
    PROVE  [Intaken!IntakeNext]_(Intaken!intakeVars)
<1>1. CASE UNCHANGED <<prompt, upload>>
  BY <1>1 DEF Intaken!intakeVars, DigestAt, Exists, Digest
<1>2. ASSUME NEW r \in Calls, Upload(r) \/ Score(r) \/ Receive(r) \/ LoseReply(r)
      PROVE  UNCHANGED <<prompt, upload>> \/ UploadWrite(r)
  BY <1>2 DEF Upload, SendUpload, UploadRead, Score, SendScore, ScoreCheck, ScoreWrite,
              ScoreStats, Receive, LoseReply
<1>3. ASSUME NEW i \in Ids, NEW status \in Outcomes, SetStatus(i, status)
      PROVE  UNCHANGED <<DigestAt, upload>>
  <2>1. TypeOK /\ Exists(i) /\ prompt' = [prompt EXCEPT ![i].status = status] /\ UNCHANGED upload
    BY <1>3 DEF StoreInv, SetStatus
  <2>2. /\ prompt'[i] = [prompt[i] EXCEPT !.status = status] /\ prompt[i] \in Prompts
        /\ \A j \in Ids : j # i => prompt'[j] = prompt[j]
    BY <2>1 DEF TypeOK, Exists
  <2>3. prompt'[i].text = prompt[i].text /\ prompt'[i] \in Prompts
    BY <2>2, OutcomesAssumption DEF Prompts
  <2>4. \A j \in Ids : Exists(j)' <=> Exists(j)
    BY <2>1, <2>2, <2>3, NoPromptAssumption DEF Exists
  <2>5. \A j \in Ids : Exists(j) => prompt'[j].text = prompt[j].text
    BY <2>2, <2>3
  <2>. QED
    BY <2>1, <2>4, <2>5 DEF DigestAt, Digest
<1>. QED
  BY <1>1, <1>2, <1>3, UploadWriteMaps DEF Next, vars, Intaken!intakeVars

LEMMA InitMaps == Init => Intaken!IntakeInit
BY DEF Init, Intaken!IntakeInit, DigestAt, Exists

\* An upload happens at once or not at all: its transaction, which holds the connection
\* over two steps and may fail or lose its reply, implements Intake.
THEOREM UploadsAtomic == Spec => ImplementsIntake
<1>. QED
  BY InitMaps, NextMaps, StoreInvariant, PTL DEF Spec, ImplementsIntake, Intaken!IntakeSpec

-----------------------------------------------------------------------------
(* Accepted texts *)

\* What the command-line clients do: a client id is sent with one text only.
OneTextPerClient ==
    \A s, u \in Submissions :
        s.client # None /\ s.client = u.client => DigestOf[s.text] = DigestOf[u.text]

\* The prompt of a client id is the text it was sent with.
TextInv ==
    /\ \A r \in Calls : call[r].client # None =>
          [text |-> call[r].text, client |-> call[r].client] \in Submissions
    /\ \A c \in Clients : upload[c] # None =>
          \E s \in Submissions : s.client = c /\ Digest(upload[c]) = DigestOf[s.text]
    /\ AcceptedIsStored

LEMMA TextInit == Init => TextInv
BY DEF Init, TextInv, AcceptedIsStored, IdleCall

\* Steps that keep the texts, and whose call accepts what is stored.
LEMMA TextStep ==
    ASSUME StoreInv, TextInv, NEW r \in Calls, Kept,
           \A q \in Calls : q # r => call'[q] = call[q],
           call'[r].client # None =>
              [text |-> call'[r].text, client |-> call'[r].client] \in Submissions,
           \A c \in Clients : upload'[c] # upload[c] =>
              \E s \in Submissions : s.client = c /\ Digest(upload[c])' = DigestOf[s.text],
           call'[r].answer \in {"created", "reused"} =>
              DigestOf[prompt'[call'[r].id].text] = DigestOf[call'[r].text]
    PROVE  TextInv'
<1>1. \A c \in Clients : upload'[c] # None =>
         \E s \in Submissions : s.client = c /\ Digest(upload[c])' = DigestOf[s.text]
  BY DEF StoreInv, UploadInv, TypeOK, TextInv, Kept, Digest
<1>2. \A q \in Calls : call'[q].answer \in {"created", "reused"} =>
         DigestOf[prompt'[call'[q].id].text] = DigestOf[call'[q].text]
  BY DEF StoreInv, UploadInv, UploadSound, TextInv, AcceptedIsStored, Kept
<1>3. \A q \in Calls : call'[q].client # None =>
         [text |-> call'[q].text, client |-> call'[q].client] \in Submissions
  BY DEF TextInv
<1>. QED
  BY <1>1, <1>2, <1>3 DEF TextInv, AcceptedIsStored

LEMMA TextUpload ==
    ASSUME StoreInv, TextInv, OneTextPerClient, NEW r \in Calls, UploadRead(r) \/ UploadWrite(r)
    PROVE  TextInv'
<1>. DEFINE c == call[r].client  t == call[r].text
<1>1. /\ TypeOK /\ UploadSound(r) /\ call[r].answer = "none" /\ call[r] \in CallStates
      /\ t \in Texts /\ c \in Clients \cup {None}
  BY DEF StoreInv, UploadInv, UploadSound, UploadRead, UploadWrite, At, TypeOK, CallStates
<1>2. c # None => [text |-> t, client |-> c] \in Submissions
  BY <1>1 DEF TextInv
<1>3. ASSUME NEW i \in Ids \cup {None}, NEW a \in {"reused", "created", "internal"},
             Finish(r, a, i), Kept,
             upload' = upload \/ (c # None /\ upload' = [upload EXCEPT ![c] = i]),
             a # "internal" => i \in Ids /\ DigestOf[prompt'[i].text] = DigestOf[t],
             a = "internal" => upload' = upload
      PROVE  TextInv'
  <2>0. a \in Answers /\ i \in Ids \cup {None} /\ TypeOK /\ Finish(r, a, i)
    BY <1>1, <1>3 DEF Answers
  <2>1. /\ call'[r].answer = a /\ call'[r].id = i
        /\ call'[r].text = t /\ call'[r].client = c
        /\ \A q \in Calls : q # r => call'[q] = call[q]
    BY <2>0, Finished
  <2>2. ASSUME NEW e \in Clients, upload'[e] # upload[e]
        PROVE  \E s \in Submissions : s.client = e /\ Digest(upload[e])' = DigestOf[s.text]
    <3>1. e = c /\ c # None /\ upload'[e] = i /\ a # "internal"
      BY <1>1, <1>3, <2>2 DEF TypeOK
    <3>. QED
      BY <1>2, <1>3, <3>1 DEF Digest
  <2>. QED
    BY <1>2, <1>3, <2>1, <2>2, TextStep
<1>4. CASE UploadRead(r) /\ \E i \in Ids : Finish(r, "reused", i) /\ DigestOf[prompt[i].text] = DigestOf[t]
  <2>1. UNCHANGED <<prompt, upload>>
    BY <1>4 DEF UploadRead
  <2>. QED
    BY <1>3, <1>4, <2>1 DEF Kept, Exists
<1>5. CASE UploadRead(r) /\ Bound(c)
  <2>1. upload[c] \in Ids /\ Finish(r, "reused", upload[c])
    BY <1>1, <1>5 DEF Bound, TypeOK, UploadRead
  <2>2. PICK s \in Submissions : s.client = c /\ Digest(upload[c]) = DigestOf[s.text]
    BY <1>1, <1>5 DEF Bound, TextInv
  <2>3. Digest(upload[c]) = DigestOf[t]
    BY <1>2, <1>5, <2>2 DEF Bound, OneTextPerClient
  <2>. QED
    BY <1>4, <1>5, <2>1, <2>3 DEF Digest
<1>6. CASE UploadRead(r) /\ ~Bound(c) /\ Same(t) # {} /\ c = None
  <2>1. PICK i \in First(Same(t)) : Finish(r, "reused", i)
    BY <1>6 DEF UploadRead
  <2>2. i \in Ids /\ DigestOf[prompt[i].text] = DigestOf[t]
    BY <2>1 DEF First, Same, Digest
  <2>. QED
    BY <1>4, <1>6, <2>1, <2>2
<1>7. CASE UploadRead(r) /\ ~Bound(c) /\ ~(Same(t) # {} /\ c = None)
  <2>1. PICK i \in IF Same(t) = {} THEN {None} ELSE First(Same(t)) :
          call' = [call EXCEPT ![r] = [@ EXCEPT !.step = "read", !.id = i]]
    BY <1>7 DEF UploadRead
  <2>2. UNCHANGED <<prompt, upload>>
    BY <1>7 DEF UploadRead
  <2>3. call'[r] = [call[r] EXCEPT !.step = "read", !.id = i]
    BY <1>1, <2>1 DEF TypeOK
  <2>4. call'[r].text = t /\ call'[r].client = c /\ call'[r].answer = "none"
    BY <1>1, <2>3 DEF CallStates
  <2>. QED
    BY <1>1, <1>2, <2>1, <2>2, <2>4, TextStep DEF Kept, Exists, TypeOK
<1>8. CASE UploadWrite(r)
  <2>1. /\ ~Bound(c) /\ call[r].id \in Ids \cup {None}
        /\ call[r].id # None => call[r].id \in Same(t)
    BY <1>1, <1>8 DEF UploadSound, UploadWrite, At, CallStates
  <2>2. CASE Finish(r, "internal", None) /\ UNCHANGED <<prompt, upload>>
    BY <1>3, <2>2 DEF Kept, Exists
  <2>3. CASE ~stale /\ call[r].id # None
    <3>. DEFINE i == call[r].id
    <3>1. Finish(r, "reused", i) /\ upload' = Record(c, i) /\ UNCHANGED prompt
      BY <1>8, <2>3 DEF UploadWrite
    <3>2. i \in Ids /\ DigestOf[prompt'[i].text] = DigestOf[t]
      BY <2>1, <2>3, <3>1 DEF Same, Digest
    <3>3. Kept
      BY <1>1, <2>1, <3>1 DEF Kept, Record, Bound, Exists, TypeOK
    <3>. QED
      BY <1>3, <2>1, <3>1, <3>2, <3>3 DEF Record
  <2>4. CASE ~stale /\ call[r].id = None
    <3>. DEFINE p == [text |-> t, status |-> "pending"]
    <3>1. PICK i \in Ids : IF Exists(i)
               THEN Finish(r, "internal", None) /\ UNCHANGED <<prompt, upload>>
               ELSE /\ prompt' = [prompt EXCEPT ![i] = p]
                    /\ upload' = Record(c, i)
                    /\ Finish(r, "created", i)
      BY <1>8, <2>4 DEF UploadWrite
    <3>2. CASE Exists(i)
      BY <2>2, <3>1, <3>2
    <3>3. CASE ~Exists(i)
      <4>1. /\ prompt' = [prompt EXCEPT ![i] = p] /\ upload' = Record(c, i)
            /\ Finish(r, "created", i) /\ p # NoPrompt
        BY <1>1, <3>1, <3>3, NoPromptAssumption DEF Prompts, Statuses
      <4>2. prompt'[i] = p /\ \A j \in Ids : j # i => prompt'[j] = prompt[j]
        BY <1>1, <4>1 DEF TypeOK
      <4>3. Kept
        BY <1>1, <2>1, <3>3, <4>1, <4>2 DEF Kept, Record, Bound, Exists, TypeOK
      <4>. QED
        BY <1>3, <2>1, <4>1, <4>2, <4>3 DEF Record
    <3>. QED
      BY <3>2, <3>3
  <2>. QED
    BY <1>8, <2>2, <2>3, <2>4 DEF UploadWrite
<1>. QED
  BY <1>5, <1>6, <1>7, <1>8

LEMMA TextOther ==
    ASSUME StoreInv, TextInv, NEW r \in Calls,
           \/ \E s \in Submissions : SendUpload(r, s)
           \/ Score(r) \/ Receive(r) \/ LoseReply(r)
    PROVE  TextInv'
<1>1. TypeOK /\ call[r] \in CallStates /\ UNCHANGED <<prompt, upload>>
  BY DEF StoreInv, TypeOK, SendUpload, Score, SendScore, ScoreCheck, ScoreWrite, ScoreStats,
         Receive, LoseReply
<1>2. \A q \in Calls : q # r => call'[q] = call[q]
  BY <1>1 DEF TypeOK, SendUpload, Score, SendScore, ScoreCheck, ScoreWrite, ScoreStats,
              Receive, LoseReply
<1>3. /\ call'[r].client # None =>
           [text |-> call'[r].text, client |-> call'[r].client] \in Submissions
      /\ call'[r].answer \notin {"created", "reused"}
  <2>1. CASE \E s \in Submissions : SendUpload(r, s)
    <3>1. PICK s \in Submissions : SendUpload(r, s)
      BY <2>1
    <3>2. call'[r] = [IdleCall EXCEPT !.step = "upload", !.text = s.text, !.client = s.client]
      BY <1>1, <3>1 DEF SendUpload, TypeOK
    <3>3. call'[r].text = s.text /\ call'[r].client = s.client /\ call'[r].answer = "none"
      BY <3>2 DEF IdleCall
    <3>4. s = [text |-> s.text, client |-> s.client]
      BY SubmissionsAssumption
    <3>. QED
      BY <3>3, <3>4
  <2>2. CASE \E i \in Ids, d \in Devices, v \in Values : SendScore(r, i, d, v)
    <3>1. PICK i \in Ids, d \in Devices, v \in Values : SendScore(r, i, d, v)
      BY <2>2
    <3>2. call'[r] = [IdleCall EXCEPT !.step = "score", !.id = i, !.device = d, !.value = v]
      BY <1>1, <3>1 DEF SendScore, TypeOK
    <3>. QED
      BY <3>2 DEF IdleCall
  <2>3. CASE Receive(r) \/ LoseReply(r)
    BY <1>1, <2>3 DEF Receive, LoseReply, TypeOK, IdleCall
  <2>4. CASE ScoreCheck(r) \/ ScoreWrite(r) \/ ScoreStats(r)
    <3>1. call[r].answer = "none"
      BY <2>4 DEF StoreInv, UploadInv, UploadSound, ScoreCheck, ScoreWrite, ScoreStats, At
    <3>2. \/ \E s \in Steps : call'[r] = [call[r] EXCEPT !.step = s]
          \/ \E a \in {"notfound", "scored"} :
                call'[r] = [call[r] EXCEPT !.step = "answered", !.answer = a]
      BY <1>1, <2>4 DEF TypeOK, ScoreCheck, ScoreWrite, ScoreStats, Steps
    <3>3. /\ call'[r].text = call[r].text /\ call'[r].client = call[r].client
          /\ call'[r].answer \notin {"created", "reused"}
      BY <1>1, <3>1, <3>2 DEF CallStates
    <3>. QED
      BY <3>3 DEF TextInv
  <2>. QED
    BY <2>1, <2>2, <2>3, <2>4 DEF Score
<1>4. Kept
  BY <1>1 DEF Kept, Exists
<1>. QED
  BY <1>1, <1>2, <1>3, <1>4, TextStep

LEMMA TextNext ==
    ASSUME OneTextPerClient
    PROVE  StoreInv /\ TextInv /\ [Next]_vars => TextInv'
<1>. SUFFICES ASSUME StoreInv, TextInv, [Next]_vars PROVE TextInv'
  OBVIOUS
<1>1. CASE UNCHANGED vars
  BY <1>1 DEF vars, TextInv, AcceptedIsStored, Digest
<1>2. ASSUME NEW i \in Ids, NEW status \in Outcomes, SetStatus(i, status) PROVE TextInv'
  <2>1. /\ TypeOK /\ Exists(i) /\ prompt' = [prompt EXCEPT ![i].status = status]
        /\ UNCHANGED <<upload, call>>
    BY <1>2 DEF StoreInv, SetStatus
  <2>2. \A j \in Ids : Exists(j) => prompt'[j].text = prompt[j].text
    BY <2>1 DEF TypeOK, Exists, Prompts
  <2>3. \A c \in Clients : upload[c] # None => upload[c] \in Ids /\ Exists(upload[c])
    BY <2>1 DEF StoreInv, UploadInv, TypeOK
  <2>4. \A q \in Calls : call[q].answer \in {"created", "reused"} =>
           call[q].id \in Ids /\ Exists(call[q].id)
    BY DEF StoreInv, UploadInv, UploadSound
  <2>. QED
    BY <2>1, <2>2, <2>3, <2>4 DEF TextInv, AcceptedIsStored, Digest
<1>3. ASSUME NEW r \in Calls, Upload(r) \/ Score(r) \/ Receive(r) \/ LoseReply(r)
      PROVE  TextInv'
  BY <1>3, TextUpload, TextOther DEF Upload
<1>. QED
  BY <1>1, <1>2, <1>3 DEF Next

\* As long as a client id is sent with one text only, the text of an upload that is
\* answered with success is stored under the id of the answer, at all times.
THEOREM AcceptedStored ==
    ASSUME OneTextPerClient
    PROVE  Spec => []AcceptedIsStored
<1>1. TextInv => AcceptedIsStored
  BY DEF TextInv
<1>. QED
  BY <1>1, TextInit, TextNext, StoreInvariant, PTL DEF Spec
=============================================================================
