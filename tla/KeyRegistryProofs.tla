------------------------- MODULE KeyRegistryProofs -------------------------
(***************************************************************************)
(* Proofs about KeyRegistry, for all sets of calls, devices, codes and     *)
(* keys.  KeyInv is inductive; the limit of an invitation and the          *)
(* refinement of Invitations follow from it.                               *)
(***************************************************************************)
EXTENDS KeyRegistry, FiniteSetTheorems, TLAPS

\* Only devices and codes are written to columns that may be None.
LEMMA NoneIsNobody ==
    None \notin Keys /\ None \notin Devices /\ None \notin Codes /\ None \notin Calls
BY SetsAssumption

\* The keys are finitely many, so what an invitation produced is finite.
LEMMA IssuedFinite ==
    ASSUME NEW c \in Codes
    PROVE  /\ IsFiniteSet(IssuedBy(c))
           /\ Cardinality(IssuedBy(c)) \in Nat
<1>1. IssuedBy(c) \subseteq Keys
  BY DEF IssuedBy
<1>2. IsFiniteSet(Keys)
  BY SetsAssumption
<1>. QED
  BY <1>1, <1>2, FS_Subset, FS_CardinalityType

LEMMA InitInv == Init => KeyInv
<1>. SUFFICES ASSUME Init PROVE KeyInv
  OBVIOUS
<1>1. TypeOK
  BY NumbersAssumption DEF Init, TypeOK, IdleCall, CallStates, Steps, Answers
<1>2. Budget
  BY DEF Init, Budget, IssuedBy, Issued
<1>3. OneKeyPerDevice /\ SelfServiceRows
  BY DEF Init, OneKeyPerDevice, SelfServiceRows, Issued
<1>4. CheckStillHolds
  BY NoneIsNobody DEF Init, CheckStillHolds, CallSound, IdleCall
<1>. QED
  BY <1>1, <1>2, <1>3, <1>4 DEF KeyInv

-----------------------------------------------------------------------------
(* Types *)

\* A state of a call with one step and answer changed is one again.
LEMMA CallTyped ==
    ASSUME TypeOK, NEW r \in Calls, NEW s \in Steps, NEW a \in Answers,
           NEW n \in Nat, NEW k \in Keys \cup {None}
    PROVE  /\ IdleCall \in CallStates
           /\ [call[r] EXCEPT !.step = s, !.answer = a] \in CallStates
           /\ [call[r] EXCEPT !.step = s, !.now = n] \in CallStates
           /\ [call[r] EXCEPT !.step = s, !.answer = a, !.key = k] \in CallStates
<1>1. call[r] \in CallStates
  BY DEF TypeOK
<1>2. IdleCall \in CallStates
  BY DEF IdleCall, CallStates, Steps, Answers
<1>3. [call[r] EXCEPT !.step = s, !.answer = a] \in CallStates
  BY <1>1 DEF CallStates
<1>4. [call[r] EXCEPT !.step = s, !.now = n] \in CallStates
  BY <1>1 DEF CallStates
<1>5. [call[r] EXCEPT !.step = s, !.answer = a, !.key = k] \in CallStates
  BY <1>1 DEF CallStates
<1> QED BY <1>2, <1>3, <1>4, <1>5

LEMMA RefuseTypes ==
    ASSUME TypeOK, NEW r \in Calls, NEW a \in Answers, Refuse(r, a)
    PROVE  TypeOK'
<1>1. call' \in [Calls -> CallStates]
  BY CallTyped DEF Refuse, TypeOK, Steps
<1>. QED
  BY <1>1 DEF Refuse, TypeOK

LEMMA DisableTypes ==
    ASSUME TypeOK, NEW ks, \A k \in ks : Issued(k), Disable(ks)
    PROVE  key' \in [Keys -> KeyRows \cup {NoRow}]
BY DEF TypeOK, Disable, Issued, KeyRows

LEMMA OperatorTypes == TypeOK /\ Operator => TypeOK'
<1>. SUFFICES ASSUME TypeOK, Operator PROVE TypeOK'
  OBVIOUS
<1>1. ASSUME NEW c \in Codes, NEW n \in Uses, NEW ttl \in Lifetimes, CreateInvite(c, n, ttl)
      PROVE  TypeOK'
  <2>1. [max |-> n, used |-> 0, expires |-> IF ttl = 0 THEN 0 ELSE clock + ttl] \in InviteRows
    BY NumbersAssumption DEF TypeOK, InviteRows
  <2>. QED
    BY <1>1, <2>1 DEF CreateInvite, OperatorWrote, TypeOK
<1>2. ASSUME NEW k \in Keys, NEW name \in Names, PutAPIKey(k, name)
      PROVE  TypeOK'
  <2>1. Issued(k) => [key[k] EXCEPT !.name = name, !.enabled = 1, !.scope = "admin"] \in KeyRows
    BY DEF TypeOK, Issued, KeyRows
  <2>2. [name |-> name, enabled |-> clock, created |-> 1, scope |-> "admin",
         device |-> None, invite |-> None] \in KeyRows
    BY DEF TypeOK, KeyRows
  <2>3. key' \in [Keys -> KeyRows \cup {NoRow}]
    BY <1>2, <2>1, <2>2 DEF PutAPIKey, TypeOK
  <2>. QED
    BY <1>2, <2>3 DEF PutAPIKey, OperatorWrote, TypeOK
<1>3. ASSUME NEW ref, RevokeAPIKeyByRef(ref) PROVE TypeOK'
  <2>1. key' \in [Keys -> KeyRows \cup {NoRow}]
    BY <1>3, DisableTypes DEF RevokeAPIKeyByRef, Matches
  <2>. QED
    BY <1>3, <2>1 DEF RevokeAPIKeyByRef, OperatorWrote, TypeOK
<1>. QED
  BY <1>1, <1>2, <1>3 DEF Operator

LEMMA RegistrationTypes ==
    ASSUME TypeOK, NEW r \in Calls, Registration(r)
    PROVE  TypeOK'
<1>1. ASSUME NEW d \in Devices, NEW c \in Codes, RegisterKey(r, d, c) PROVE TypeOK'
  <2>1. [call[r] EXCEPT !.step = "sent", !.device = d, !.code = c] \in CallStates
    <3>1. call[r] \in CallStates /\ "sent" \in Steps
      BY DEF TypeOK, Steps
    <3> QED BY <3>1 DEF CallStates
  <2>. QED
    BY <1>1, <2>1 DEF RegisterKey, TypeOK
<1>2. ASSUME RegisterCheck(r) PROVE TypeOK'
  <2>1. CASE Refuse(r, "forbidden") \/ Refuse(r, "conflict")
    BY <2>1, RefuseTypes DEF Answers
  <2>2. CASE ~ (Refuse(r, "forbidden") \/ Refuse(r, "conflict"))
    <3>1. [call[r] EXCEPT !.step = "checked", !.now = clock] \in CallStates
      BY DEF Steps, TypeOK, CallStates
    <3>. QED
      BY <1>2, <2>2, <3>1 DEF RegisterCheck, TypeOK
  <2>. QED
    BY <2>1, <2>2
<1>3. ASSUME RegisterCommit(r) PROVE TypeOK'
  <2>1. CASE Refuse(r, "internal") \/ Refuse(r, "forbidden")
    BY <2>1, RefuseTypes DEF Answers
  <2>2. CASE ~ (Refuse(r, "internal") \/ Refuse(r, "forbidden"))
    <3>. DEFINE c == call[r].code  d == call[r].device
    <3>1. Usable(c, call[r].now)
      BY <1>3, <2>2 DEF RegisterCommit
    <3>2. PICK k \in Keys :
             /\ invite' = Consume(c)
             /\ key' = [key EXCEPT ![k] =
                   [name |-> k, enabled |-> 1, created |-> call[r].now,
                    scope |-> "writer", device |-> d, invite |-> c]]
             /\ call' = [call EXCEPT ![r] =
                   [@ EXCEPT !.step = "answered", !.answer = "created", !.key = k]]
             /\ conn' = None /\ stale' = FALSE /\ UNCHANGED <<clock, held>>
      BY <1>3, <2>2 DEF RegisterCommit
    <3>3. d \in Devices \cup {None} /\ c \in Codes \cup {None} /\ call[r].now \in Nat
      BY DEF TypeOK, CallStates
    <3>4. key' \in [Keys -> KeyRows \cup {NoRow}]
      BY <3>2, <3>3 DEF TypeOK, KeyRows
    <3>5. call' \in [Calls -> CallStates]
      BY <3>2, CallTyped DEF TypeOK, Steps, Answers
    <3>6. c \in Codes => invite[c] \in InviteRows
      BY <3>1 DEF Usable, TypeOK
    <3>7. c \in Codes => [invite[c] EXCEPT !.used = @ + 1] \in InviteRows
      BY <3>6 DEF InviteRows
    <3>8. invite' \in [Codes -> InviteRows \cup {NoRow}]
      BY <3>2, <3>7 DEF Consume, TypeOK
    <3>. QED
      BY <3>2, <3>4, <3>5, <3>8 DEF TypeOK
  <2>. QED
    BY <2>1, <2>2
<1>4. ASSUME Receive(r) PROVE TypeOK'
  <2>1. call[r].key \in Keys \cup {None}
    BY DEF TypeOK, CallStates
  <2>2. held' \in [Devices -> Keys \cup {None}]
    BY <1>4, <2>1 DEF Receive, TypeOK
  <2>. QED
    BY <1>4, <2>2, CallTyped DEF Receive, TypeOK, Steps, Answers
<1>5. ASSUME LoseReply(r) PROVE TypeOK'
  BY <1>5, CallTyped DEF LoseReply, TypeOK, Steps, Answers
<1>. QED
  BY <1>1, <1>2, <1>3, <1>4, <1>5 DEF Registration

LEMMA NextTypes == TypeOK /\ [Next]_vars => TypeOK'
<1>. SUFFICES ASSUME TypeOK, [Next]_vars PROVE TypeOK'
  OBVIOUS
<1>1. ASSUME NEW d \in Devices, NEW k \in Keys, RevokeSelf(d, k) PROVE TypeOK'
  <2>1. key' \in [Keys -> KeyRows \cup {NoRow}]
    BY <1>1, DisableTypes DEF RevokeSelf, EnabledKey
  <2>. QED
    BY <1>1, <2>1 DEF RevokeSelf, TypeOK
<1>2. CASE Tick
  BY <1>2 DEF Tick, TypeOK
<1>3. CASE UNCHANGED vars
  BY <1>3 DEF vars, TypeOK
<1>. QED
  BY <1>1, <1>2, <1>3, OperatorTypes, RegistrationTypes DEF Next

-----------------------------------------------------------------------------
(* Steps that register no key *)

\* Whose each key is, and from which invitation; what is new is the operator's.
RowsKept ==
    /\ \A k \in Keys : Issued(k) =>
          Issued(k)' /\ key'[k].device = key[k].device /\ key'[k].invite = key[k].invite
    /\ \A k \in Keys : Issued(k)' /\ ~Issued(k) =>
          key'[k].device = None /\ key'[k].invite = None
    /\ SelfServiceRows'

LEMMA RowsKeptFrame ==
    ASSUME KeyInv, RowsKept
    PROVE  /\ OneKeyPerDevice'
           /\ \A c \in Codes : IssuedBy(c)' = IssuedBy(c)
           /\ \A d \in Devices : DeviceTaken(d)' <=> DeviceTaken(d)
<1>. USE DEF KeyInv, RowsKept
<1>1. OneKeyPerDevice'
  BY DEF OneKeyPerDevice
<1>2. ASSUME NEW c \in Codes PROVE IssuedBy(c)' = IssuedBy(c)
  BY NoneIsNobody DEF IssuedBy
<1>3. ASSUME NEW d \in Devices PROVE DeviceTaken(d)' <=> DeviceTaken(d)
  BY NoneIsNobody DEF DeviceTaken
<1>. QED
  BY <1>1, <1>2, <1>3

LEMMA SameKeys == ASSUME KeyInv, UNCHANGED key PROVE RowsKept
BY DEF KeyInv, RowsKept, SelfServiceRows, Issued

LEMMA DisableKeeps ==
    ASSUME KeyInv, NEW ks \in SUBSET Keys, \A k \in ks : Issued(k), Disable(ks)
    PROVE  RowsKept
<1>1. ASSUME NEW k \in Keys
      PROVE  /\ Issued(k)' <=> Issued(k)
             /\ Issued(k) => /\ key'[k].device = key[k].device
                             /\ key'[k].invite = key[k].invite
                             /\ key'[k].scope = key[k].scope
  <2>1. CASE k \in ks
    <3>1. key[k] \in KeyRows
      BY <2>1 DEF KeyInv, TypeOK, Issued
    <3>2. key'[k] = [key[k] EXCEPT !.enabled = 0] /\ key'[k] \in KeyRows
      BY <2>1, <3>1 DEF Disable, KeyRows
    <3>. QED
      BY <3>1, <3>2, NoRowAssumption DEF Issued, KeyRows
  <2>2. CASE k \notin ks
    BY <2>2 DEF Disable, Issued
  <2>. QED
    BY <2>1, <2>2
<1>. QED
  BY <1>1 DEF KeyInv, RowsKept, SelfServiceRows

\* The row that PutAPIKey writes, and all others as they were.
LEMMA PutRow ==
    ASSUME KeyInv, NEW k \in Keys, NEW name \in Names, PutAPIKey(k, name)
    PROVE  /\ key'[k] # NoRow /\ key'[k].scope = "admin" /\ key'[k].name = name
           /\ Issued(k) => key'[k].device = key[k].device /\ key'[k].invite = key[k].invite
           /\ ~Issued(k) => key'[k].device = None /\ key'[k].invite = None
           /\ \A l \in Keys : l # k => key'[l] = key[l]
<1>1. \A l \in Keys : l # k => key'[l] = key[l]
  BY DEF PutAPIKey, KeyInv, TypeOK
<1>2. key'[k] # NoRow
  <2>1. CASE Issued(k)
    <3>1. key[k] \in KeyRows
      BY <2>1 DEF KeyInv, TypeOK, Issued
    <3>2. [key[k] EXCEPT !.name = name, !.enabled = 1, !.scope = "admin"] \in KeyRows
      BY <3>1 DEF KeyRows
    <3>. QED
      BY <2>1, <3>2, NoRowAssumption DEF PutAPIKey, KeyInv, TypeOK
  <2>2. CASE ~Issued(k)
    <3>1. [name |-> name, enabled |-> clock, created |-> 1, scope |-> "admin",
           device |-> None, invite |-> None] \in KeyRows
      BY DEF KeyInv, TypeOK, KeyRows
    <3>. QED
      BY <2>2, <3>1, NoRowAssumption DEF PutAPIKey, KeyInv, TypeOK
  <2>. QED
    BY <2>1, <2>2
<1>3. CASE Issued(k)
  <2>1. key[k] \in KeyRows
    BY <1>3 DEF KeyInv, TypeOK, Issued
  <2>2. key'[k] = [key[k] EXCEPT !.name = name, !.enabled = 1, !.scope = "admin"]
    BY <1>3 DEF PutAPIKey, KeyInv, TypeOK
  <2>3. /\ key'[k].scope = "admin" /\ key'[k].name = name
        /\ key'[k].device = key[k].device /\ key'[k].invite = key[k].invite
    BY <2>1, <2>2 DEF KeyRows
  <2>. QED
    BY <1>1, <1>2, <1>3, <2>3
<1>4. CASE ~Issued(k)
  <2>1. key'[k] = [name |-> name, enabled |-> clock, created |-> 1, scope |-> "admin",
                   device |-> None, invite |-> None]
    BY <1>4 DEF PutAPIKey, KeyInv, TypeOK
  <2>. QED
    BY <1>1, <1>2, <1>4, <2>1
<1>. QED
  BY <1>3, <1>4

LEMMA PutKeeps ==
    ASSUME KeyInv, NEW k \in Keys, NEW name \in Names, PutAPIKey(k, name)
    PROVE  RowsKept
BY PutRow DEF KeyInv, RowsKept, SelfServiceRows, Issued

\* With the same invitations, or one more, the budget is respected as before.
LEMMA BudgetKept ==
    ASSUME KeyInv, RowsKept, UNCHANGED invite
    PROVE  Budget'
BY RowsKeptFrame DEF KeyInv, Budget

\* What a call carries, apart from the transaction it may hold.
LEMMA AnswerKept ==
    ASSUME KeyInv, RowsKept, NEW r \in Calls, call[r].answer = "created"
    PROVE  /\ call[r].key \in Keys /\ call[r].device \in Devices
           /\ key'[call[r].key] # NoRow /\ key'[call[r].key].device = call[r].device
<1>. DEFINE k == call[r].key
<1>1. /\ k \in Keys /\ call[r].device \in Devices
      /\ Issued(k) /\ key[k].device = call[r].device
  BY DEF KeyInv, CheckStillHolds, CallSound
<1>. HIDE DEF k
<1>2. key'[k] # NoRow /\ key'[k].device = key[k].device
  BY <1>1 DEF RowsKept, Issued
<1>. QED
  BY <1>1, <1>2 DEF k

LEMMA OperatorInv == KeyInv /\ Operator => KeyInv'
<1>. SUFFICES ASSUME KeyInv, Operator PROVE KeyInv'
  OBVIOUS
<1>1. TypeOK'
  BY OperatorTypes DEF KeyInv
<1>2. RowsKept /\ Budget'
  <2>1. ASSUME NEW c \in Codes, NEW n \in Uses, NEW ttl \in Lifetimes, CreateInvite(c, n, ttl)
        PROVE  RowsKept /\ Budget'
    <3>1. RowsKept
      BY <2>1, SameKeys DEF CreateInvite
    <3>2. IssuedBy(c)' = {}
      BY <2>1, <3>1, RowsKeptFrame DEF KeyInv, Budget, CreateInvite
    <3>3. invite'[c].used = 0 /\ invite'[c].max \in Nat
      BY <2>1, NumbersAssumption DEF CreateInvite, KeyInv, TypeOK
    <3>4. invite'[c] # NoRow
      <4>1. [max |-> n, used |-> 0, expires |-> IF ttl = 0 THEN 0 ELSE clock + ttl]
               \in InviteRows
        BY NumbersAssumption DEF InviteRows, KeyInv, TypeOK
      <4>. QED
        BY <2>1, <4>1, NoRowAssumption DEF CreateInvite, KeyInv, TypeOK
    <3>5. \A e \in Codes : e # c => invite'[e] = invite[e] /\ IssuedBy(e)' = IssuedBy(e)
      BY <2>1, <3>1, RowsKeptFrame DEF CreateInvite, KeyInv, TypeOK
    <3>6. Budget'
      BY <3>2, <3>3, <3>4, <3>5, FS_EmptySet DEF Budget, KeyInv
    <3>. QED
      BY <3>1, <3>6
  <2>2. ASSUME NEW k \in Keys, NEW name \in Names, PutAPIKey(k, name)
        PROVE  RowsKept /\ Budget'
    BY <2>2, PutKeeps, BudgetKept DEF PutAPIKey
  <2>3. ASSUME NEW ref, RevokeAPIKeyByRef(ref) PROVE RowsKept /\ Budget'
    BY <2>3, DisableKeeps, BudgetKept DEF RevokeAPIKeyByRef, Matches
  <2>. QED
    BY <2>1, <2>2, <2>3 DEF Operator
<1>3. UNCHANGED <<call, conn>> /\ stale' = (conn # None)
  BY DEF Operator, CreateInvite, PutAPIKey, RevokeAPIKeyByRef, OperatorWrote
<1>4. ASSUME NEW r \in Calls PROVE CallSound(r)'
  <2>1. CallSound(r)
    BY DEF KeyInv, CheckStillHolds
  <2>2. call[r].step = "checked" => stale'
    BY <1>3, <2>1, NoneIsNobody DEF CallSound
  <2>. QED
    BY <1>2, <1>3, <2>1, <2>2, AnswerKept DEF CallSound, Issued
<1>. QED
  BY <1>1, <1>2, <1>4, RowsKeptFrame DEF KeyInv, RowsKept, CheckStillHolds

\* Nobody but the holder of the connection is past the check.
LEMMA OthersNotChecked ==
    ASSUME KeyInv, NEW r \in Calls, conn \in {None, r}, NEW q \in Calls, q # r
    PROVE  call[q].step # "checked"
BY NoneIsNobody DEF KeyInv, CheckStillHolds, CallSound

\* A call that a step of another leaves alone, when no key but the other's is added.
LEMMA OtherCallSound ==
    ASSUME KeyInv, NEW r \in Calls, conn \in {None, r}, conn' \in {None, r},
           NEW q \in Calls, q # r, call'[q] = call[q],
           \A k \in Keys : Issued(k) => key'[k] # NoRow /\ key'[k].device = key[k].device
    PROVE  CallSound(q)'
<1>1. CallSound(q) /\ call[q].step # "checked" /\ conn' # q
  BY OthersNotChecked, NoneIsNobody DEF KeyInv, CheckStillHolds
<1>2. call[q].answer = "created" =>
        key'[call[q].key] # NoRow /\ key'[call[q].key].device = call[q].device
  BY <1>1 DEF CallSound
<1>. QED
  BY <1>1, <1>2 DEF CallSound, Issued

LEMMA RefuseInv ==
    ASSUME KeyInv, NEW r \in Calls, NEW a \in Answers \ {"created"}, Refuse(r, a),
           conn \in {None, r}
    PROVE  KeyInv'
<1>1. TypeOK'
  BY RefuseTypes DEF KeyInv
<1>2. RowsKept /\ Budget'
  BY SameKeys, BudgetKept DEF Refuse
<1>3. call'[r].step = "answered" /\ call'[r].answer = a
  BY DEF Refuse, KeyInv, TypeOK, CallStates
<1>4. \A q \in Calls : q # r => call'[q] = call[q]
  BY DEF Refuse, KeyInv, TypeOK
<1>5. ASSUME NEW q \in Calls PROVE CallSound(q)'
  <2>1. CASE q = r
    BY <1>3, <2>1, NoneIsNobody DEF CallSound, Refuse
  <2>2. CASE q # r
    BY <1>2, <1>4, <2>2, OtherCallSound DEF Refuse, RowsKept, Issued
  <2>. QED
    BY <2>1, <2>2
<1>. QED
  BY <1>1, <1>2, <1>5, RowsKeptFrame DEF KeyInv, RowsKept, CheckStillHolds

-----------------------------------------------------------------------------
(* The registration that succeeds *)

\* What RegisterCommit does when it succeeds.
Granted(r, k) ==
    /\ k \in Keys /\ ~Issued(k)
    /\ call[r].step = "checked"
    /\ ~DeviceTaken(call[r].device)
    /\ Usable(call[r].code, call[r].now)
    /\ invite' = [invite EXCEPT ![call[r].code].used = @ + 1]
    /\ key' = [key EXCEPT ![k] =
          [name |-> k, enabled |-> 1, created |-> call[r].now, scope |-> "writer",
           device |-> call[r].device, invite |-> call[r].code]]
    /\ call' = [call EXCEPT ![r] =
          [@ EXCEPT !.step = "answered", !.answer = "created", !.key = k]]
    /\ conn' = None

LEMMA CommitCases ==
    ASSUME NEW r \in Calls, RegisterCommit(r)
    PROVE  Refuse(r, "internal") \/ Refuse(r, "forbidden") \/ \E k \in Keys : Granted(r, k)
BY DEF RegisterCommit, Granted, Fresh, Consume

\* The new row, and all others as they were.
LEMMA GrantedRow ==
    ASSUME KeyInv, NEW r \in Calls, NEW k, Granted(r, k)
    PROVE  /\ call[r].device \in Devices /\ call[r].code \in Codes
           /\ key'[k].device = call[r].device /\ key'[k].invite = call[r].code
           /\ key'[k].scope = "writer" /\ key'[k] # NoRow
           /\ \A l \in Keys : l # k => key'[l] = key[l]
<1>1. call[r].device \in Devices /\ call[r].code \in Codes
  BY DEF Granted, KeyInv, CheckStillHolds, CallSound
<1>2. key'[k] = [name |-> k, enabled |-> 1, created |-> call[r].now, scope |-> "writer",
                 device |-> call[r].device, invite |-> call[r].code]
  BY DEF Granted, KeyInv, TypeOK
<1>3. key'[k] \in KeyRows
  BY <1>1, <1>2 DEF Granted, KeyRows, KeyInv, TypeOK, CallStates
<1>4. \A l \in Keys : l # k => key'[l] = key[l]
  BY DEF Granted, KeyInv, TypeOK
<1>. QED
  BY <1>1, <1>2, <1>3, <1>4, NoRowAssumption

\* Exactly one more key, of the invitation of the call.
LEMMA GrantedIssued ==
    ASSUME KeyInv, NEW r \in Calls, NEW k, Granted(r, k)
    PROVE  /\ k \notin IssuedBy(call[r].code)
           /\ \A c \in Codes : IssuedBy(c)' =
                 IF c = call[r].code THEN IssuedBy(c) \cup {k} ELSE IssuedBy(c)
<1>1. ~Issued(k) /\ k \in Keys
  BY DEF Granted
<1>2. \A l \in Keys : Issued(l)' <=> (l = k \/ Issued(l))
  BY <1>1, GrantedRow DEF Issued
<1>3. ASSUME NEW c \in Codes
      PROVE  IssuedBy(c)' = IF c = call[r].code THEN IssuedBy(c) \cup {k} ELSE IssuedBy(c)
  BY <1>1, <1>2, GrantedRow DEF IssuedBy
<1>. QED
  BY <1>1, <1>3 DEF IssuedBy

LEMMA GrantedBudget ==
    ASSUME KeyInv, NEW r \in Calls, NEW k, Granted(r, k)
    PROVE  Budget'
<1>. DEFINE c == call[r].code
<1>1. c \in Codes /\ invite[c] # NoRow /\ invite[c] \in InviteRows /\ invite[c].used < invite[c].max
  BY GrantedRow DEF Granted, Usable, KeyInv, TypeOK
<1>2. invite'[c] = [invite[c] EXCEPT !.used = @ + 1]
  BY <1>1 DEF Granted, KeyInv, TypeOK
<1>3. /\ invite'[c].used = invite[c].used + 1 /\ invite'[c].max = invite[c].max
      /\ invite'[c] \in InviteRows
  BY <1>1, <1>2 DEF InviteRows
<1>4. invite'[c] # NoRow /\ invite'[c].used <= invite'[c].max
  BY <1>1, <1>3, NoRowAssumption DEF InviteRows
<1>5. Cardinality(IssuedBy(c) \cup {k}) = invite[c].used + 1
  <2>1. invite[c].used = Cardinality(IssuedBy(c))
    BY <1>1 DEF KeyInv, Budget
  <2>2. IsFiniteSet(IssuedBy(c)) /\ k \notin IssuedBy(c)
    BY <1>1, <2>1, IssuedFinite, GrantedIssued
  <2>. QED
    BY <2>1, <2>2, FS_AddElement
<1>6. \A e \in Codes : e # c => invite'[e] = invite[e]
  BY DEF Granted, KeyInv, TypeOK
<1>7. ASSUME NEW e \in Codes
      PROVE  /\ invite'[e] = NoRow => IssuedBy(e)' = {}
             /\ invite'[e] # NoRow =>
                   /\ invite'[e].used = Cardinality(IssuedBy(e)')
                   /\ invite'[e].used <= invite'[e].max
  <2>0. IssuedBy(e)' = IF e = c THEN IssuedBy(c) \cup {k} ELSE IssuedBy(e)
    BY GrantedIssued
  <2>1. CASE e = c
    BY <1>3, <1>4, <1>5, <2>0, <2>1
  <2>2. CASE e # c
    BY <1>6, <2>0, <2>2 DEF KeyInv, Budget
  <2>. QED
    BY <2>1, <2>2
<1>. QED
  BY <1>7 DEF Budget

LEMMA GrantedInv ==
    ASSUME KeyInv, NEW r \in Calls, RegisterCommit(r), NEW k, Granted(r, k)
    PROVE  KeyInv'
<1>0. k \in Keys /\ ~Issued(k)
  BY DEF Granted
<1>1. TypeOK'
  BY RegistrationTypes DEF Registration, KeyInv
<1>2. SelfServiceRows'
  BY <1>0, GrantedRow, NoneIsNobody DEF KeyInv, SelfServiceRows, Issued
<1>3. OneKeyPerDevice'
  <2>1. \A l \in Keys : Issued(l) => key[l].device # call[r].device
    BY DEF Granted, DeviceTaken
  <2>. QED
    BY <1>0, <2>1, GrantedRow DEF KeyInv, OneKeyPerDevice, Issued
<1>4. conn = r
  BY DEF Granted, KeyInv, CheckStillHolds, CallSound
<1>5. ASSUME NEW q \in Calls PROVE CallSound(q)'
  <2>1. CASE q = r
    <3>1. /\ call'[r].step = "answered" /\ call'[r].answer = "created"
          /\ call'[r].key = k /\ call'[r].device = call[r].device
      BY DEF Granted, KeyInv, TypeOK, CallStates
    <3>2. conn' # r
      BY NoneIsNobody DEF Granted
    <3>3. key'[k] # NoRow /\ key'[k].device = call'[r].device /\ call'[r].device \in Devices
      BY <3>1, GrantedRow
    <3>. QED
      BY <1>0, <2>1, <3>1, <3>2, <3>3 DEF CallSound, Issued
  <2>2. CASE q # r
    <3>1. call'[q] = call[q]
      BY <2>2 DEF Granted, KeyInv, TypeOK
    <3>2. \A l \in Keys : Issued(l) => key'[l] # NoRow /\ key'[l].device = key[l].device
      BY <1>0, GrantedRow DEF Issued
    <3>3. conn' = None
      BY DEF Granted
    <3>. QED
      BY <1>4, <2>2, <3>1, <3>2, <3>3, OtherCallSound
  <2>. QED
    BY <2>1, <2>2
<1>. QED
  BY <1>1, <1>2, <1>3, <1>5, GrantedBudget DEF KeyInv, CheckStillHolds

-----------------------------------------------------------------------------
(* The other steps *)

LEMMA RegistrationInv ==
    ASSUME KeyInv, NEW r \in Calls, Registration(r)
    PROVE  KeyInv'
<1>1. TypeOK'
  BY RegistrationTypes DEF KeyInv
<1>2. CallSound(r)
  BY DEF KeyInv, CheckStillHolds
<1>3. \A q \in Calls : q # r => call'[q] = call[q]
  BY DEF Registration, RegisterKey, RegisterCheck, RegisterCommit, Receive, LoseReply,
         Refuse, KeyInv, TypeOK
<1>4. ASSUME NEW d \in Devices, NEW c \in Codes, RegisterKey(r, d, c) PROVE KeyInv'
  <2>1. RowsKept /\ Budget'
    BY <1>4, SameKeys, BudgetKept DEF RegisterKey
  <2>2. /\ call'[r].step = "sent" /\ call'[r].device = d /\ call'[r].code = c
        /\ call'[r].answer = "none"
    BY <1>4 DEF RegisterKey, KeyInv, TypeOK, CallStates, IdleCall
  <2>3. call[r].step = "idle" /\ conn # r
    BY <1>2, <1>4 DEF RegisterKey, IdleCall, CallSound
  <2>4. ASSUME NEW q \in Calls PROVE CallSound(q)'
    <3>1. CASE q = r
      BY <1>4, <2>2, <2>3, <3>1 DEF CallSound, RegisterKey
    <3>2. CASE q # r
      <4>1. CallSound(q)
        BY DEF KeyInv, CheckStillHolds
      <4>. QED
        BY <1>3, <1>4, <3>2, <4>1 DEF CallSound, RegisterKey, Usable, DeviceTaken, Issued
    <3>. QED
      BY <3>1, <3>2
  <2>. QED
    BY <1>1, <2>1, <2>4, RowsKeptFrame DEF KeyInv, RowsKept, CheckStillHolds
<1>5. ASSUME RegisterCheck(r) PROVE KeyInv'
  <2>1. CASE Refuse(r, "forbidden") \/ Refuse(r, "conflict")
    BY <1>5, <2>1, RefuseInv DEF RegisterCheck, Answers
  <2>2. CASE ~ (Refuse(r, "forbidden") \/ Refuse(r, "conflict"))
    <3>1. /\ call[r].step = "sent" /\ conn = None
          /\ Usable(call[r].code, clock) /\ ~DeviceTaken(call[r].device)
          /\ conn' = r
          /\ call' = [call EXCEPT ![r] = [@ EXCEPT !.step = "checked", !.now = clock]]
          /\ UNCHANGED <<key, invite>>
      BY <1>5, <2>2 DEF RegisterCheck
    <3>2. RowsKept /\ Budget'
      BY <3>1, SameKeys, BudgetKept
    <3>3. /\ call'[r].step = "checked" /\ call'[r].now = clock
          /\ call'[r].device = call[r].device /\ call'[r].code = call[r].code
          /\ call'[r].answer = call[r].answer /\ call'[r].key = call[r].key
      BY <3>1 DEF KeyInv, TypeOK, CallStates
    <3>4. ASSUME NEW q \in Calls PROVE CallSound(q)'
      <4>1. CASE q = r
        BY <1>2, <3>1, <3>3, <4>1 DEF CallSound, Usable, DeviceTaken, Issued
      <4>2. CASE q # r
        BY <1>3, <3>1, <3>2, <4>2, OtherCallSound DEF RowsKept, Issued
      <4>. QED
        BY <4>1, <4>2
    <3>. QED
      BY <1>1, <3>2, <3>4, RowsKeptFrame DEF KeyInv, RowsKept, CheckStillHolds
  <2>. QED
    BY <2>1, <2>2
<1>6. ASSUME RegisterCommit(r) PROVE KeyInv'
  <2>1. conn = r
    BY <1>2, <1>6 DEF RegisterCommit, CallSound
  <2>. QED
    BY <1>6, <2>1, CommitCases, RefuseInv, GrantedInv DEF Answers
<1>7. ASSUME Receive(r) \/ LoseReply(r) PROVE KeyInv'
  <2>1. RowsKept /\ Budget'
    BY <1>7, SameKeys, BudgetKept DEF Receive, LoseReply
  <2>2. call'[r] = IdleCall
    BY <1>7 DEF Receive, LoseReply, KeyInv, TypeOK
  <2>3. conn' # r
    BY <1>2, <1>7, NoneIsNobody DEF Receive, LoseReply, CallSound
  <2>4. ASSUME NEW q \in Calls PROVE CallSound(q)'
    <3>1. CASE q = r
      BY <2>2, <2>3, <3>1 DEF CallSound, IdleCall
    <3>2. CASE q # r
      <4>1. CallSound(q)
        BY DEF KeyInv, CheckStillHolds
      <4>2. /\ conn' = q <=> conn = q
            /\ conn = q => stale' = stale
        BY <1>7, <3>2, NoneIsNobody DEF Receive, LoseReply, KeyInv, TypeOK
      <4>3. UNCHANGED <<key, invite>>
        BY <1>7 DEF Receive, LoseReply
      <4>. QED
        BY <1>3, <3>2, <4>1, <4>2, <4>3 DEF CallSound, Usable, DeviceTaken, Issued
    <3>. QED
      BY <3>1, <3>2
  <2>. QED
    BY <1>1, <2>1, <2>4, RowsKeptFrame DEF KeyInv, RowsKept, CheckStillHolds
<1>. QED
  BY <1>4, <1>5, <1>6, <1>7 DEF Registration

LEMMA NextInv == KeyInv /\ [Next]_vars => KeyInv'
<1>. SUFFICES ASSUME KeyInv, [Next]_vars PROVE KeyInv'
  OBVIOUS
<1>1. TypeOK'
  BY NextTypes DEF KeyInv
<1>2. ASSUME RowsKept, UNCHANGED <<invite, conn, stale, call>> PROVE KeyInv'
  <2>1. Budget' /\ OneKeyPerDevice' /\ SelfServiceRows'
    BY <1>2, BudgetKept, RowsKeptFrame DEF RowsKept
  <2>2. ASSUME NEW q \in Calls PROVE CallSound(q)'
    <3>1. CallSound(q)
      BY DEF KeyInv, CheckStillHolds
    <3>2. call[q].device \in Devices =>
            (DeviceTaken(call[q].device) <=>
             \E k \in Keys : key'[k] # NoRow /\ key'[k].device = call[q].device)
      BY <1>2, RowsKeptFrame DEF DeviceTaken, Issued
    <3>. QED
      BY <1>2, <3>1, <3>2, AnswerKept DEF CallSound, Usable, DeviceTaken, Issued
  <2>. QED
    BY <1>1, <2>1, <2>2 DEF KeyInv, CheckStillHolds
<1>3. ASSUME NEW d \in Devices, NEW k \in Keys, RevokeSelf(d, k) PROVE KeyInv'
  BY <1>2, <1>3, DisableKeeps DEF RevokeSelf, EnabledKey
<1>4. CASE Tick \/ UNCHANGED vars
  BY <1>2, <1>4, SameKeys DEF Tick, vars
<1>. QED
  BY <1>3, <1>4, OperatorInv, RegistrationInv DEF Next

-----------------------------------------------------------------------------
(* Theorems *)

\* Types, budgets, one key for each device, and checks that stay true, for all
\* numbers of calls, devices, codes and keys.
THEOREM KeyInvariant == Spec => []KeyInv
BY InitInv, NextInv, PTL DEF Spec

\* Store.RegisterSelfKey never hands out more keys than an invitation allows, and
\* consumes exactly one use for each.
THEOREM BudgetKeptAlways == Spec => []Budget
<1>1. KeyInv => Budget
  BY DEF KeyInv
<1>. QED
  BY <1>1, KeyInvariant, PTL

\* A key stays its device's and its invitation's whatever becomes of it, and no step but
\* a -put-key of that very key gives it back or raises it (store.go:673-677).
THEOREM PutAloneRestores == Spec => OnlyPutRestores
<1>1. ASSUME KeyInv, [Next]_vars, NEW k \in Keys, Issued(k)
      PROVE  /\ Issued(k)' /\ key'[k].device = key[k].device /\ key'[k].invite = key[k].invite
             /\ Restored(k) =>
                   /\ key'[k].name \in Names
                   /\ \A l \in Keys \ {k} : key'[l] = key[l]
                   /\ UNCHANGED <<invite, call, held>>
  <2>. DEFINE Same == key'[k] = key[k]
              Revoked == key'[k] = [key[k] EXCEPT !.enabled = 0]
              Put(l) == \E name \in Names : PutAPIKey(l, name)
  <2>0. key[k] \in KeyRows
    BY <1>1 DEF KeyInv, TypeOK, Issued
  <2>1. CASE Same
    BY <1>1, <2>1 DEF Issued, Restored
  <2>2. CASE Revoked
    <3>1. /\ key'[k] \in KeyRows /\ key'[k].enabled = 0 /\ key'[k].scope = key[k].scope
          /\ key'[k].device = key[k].device /\ key'[k].invite = key[k].invite
      BY <2>0, <2>2 DEF KeyRows
    <3>. QED
      BY <3>1, NoRowAssumption DEF Issued, Restored
  <2>3. ASSUME NEW l \in Keys, Put(l), l # k PROVE Same
    BY <1>1, <2>3, PutRow
  <2>4. CASE Put(k)
    <3>1. PICK name \in Names : PutAPIKey(k, name)
      BY <2>4
    <3>2. /\ key'[k] # NoRow /\ key'[k].name = name
          /\ key'[k].device = key[k].device /\ key'[k].invite = key[k].invite
          /\ \A l \in Keys : l # k => key'[l] = key[l]
      BY <1>1, <3>1, PutRow
    <3>3. UNCHANGED <<invite, call, held>>
      BY <3>1 DEF PutAPIKey
    <3>. QED
      BY <3>2, <3>3 DEF Issued
  <2>5. ASSUME NEW ks, Disable(ks) PROVE Same \/ Revoked
    BY <2>5 DEF Disable
  <2>6. ASSUME NEW r \in Calls, RegisterCommit(r) PROVE Same
    <3>1. CASE UNCHANGED key
      BY <3>1
    <3>2. CASE \E l \in Keys : Granted(r, l)
      <4>1. PICK l \in Keys : Granted(r, l)
        BY <3>2
      <4>2. l # k
        BY <1>1, <4>1 DEF Granted
      <4>. QED
        BY <1>1, <4>1, <4>2, GrantedRow
    <3>. QED
      BY <2>6, <3>1, <3>2, CommitCases DEF Refuse
  <2>7. ASSUME UNCHANGED key PROVE Same
    BY <2>7
  <2>8. Same \/ Revoked \/ \E l \in Keys : Put(l)
    <3>. HIDE DEF Same, Revoked
    <3>. QED
      BY <1>1, <2>5, <2>6, <2>7 DEF Next, Operator, Registration, CreateInvite,
         RevokeAPIKeyByRef, RegisterKey, RegisterCheck, Refuse, Receive, LoseReply,
         RevokeSelf, Tick, vars
  <2>. QED
    BY <2>1, <2>2, <2>3, <2>4, <2>8
<1>2. KeyInv /\ [Next]_vars =>
        [\A k \in Keys : Issued(k) =>
            /\ Issued(k)' /\ key'[k].device = key[k].device /\ key'[k].invite = key[k].invite
            /\ Restored(k) =>
                  /\ key'[k].name \in Names
                  /\ \A l \in Keys \ {k} : key'[l] = key[l]
                  /\ UNCHANGED <<invite, call, held>>]_vars
  BY <1>1
<1>. QED
  BY <1>2, KeyInvariant, PTL DEF Spec, OnlyPutRestores

-----------------------------------------------------------------------------
(* KeyRegistry implements Invitations *)

\* Steps that keep the rows and the limits are stutters of Invitations.
LEMMA SameGrants ==
    ASSUME KeyInv, RowsKept,
           \A c \in Codes : /\ invite'[c] = NoRow <=> invite[c] = NoRow
                            /\ invite[c] # NoRow => invite'[c].max = invite[c].max
    PROVE  UNCHANGED <<LimitOf, GrantsOf>>
<1>1. UNCHANGED LimitOf
  BY DEF LimitOf
<1>2. ASSUME NEW c \in Codes
      PROVE  {key'[k].device : k \in IssuedBy(c)'} = {key[k].device : k \in IssuedBy(c)}
  <2>1. IssuedBy(c)' = IssuedBy(c)
    BY RowsKeptFrame
  <2>2. \A k \in IssuedBy(c) : key'[k].device = key[k].device
    BY <2>1 DEF IssuedBy, RowsKept
  <2>. QED
    BY <2>1, <2>2
<1>3. UNCHANGED GrantsOf
  BY <1>2 DEF GrantsOf
<1>. QED
  BY <1>1, <1>3

\* A device is counted once at most: fewer devices than keys.
LEMMA GrantsCounted ==
    ASSUME KeyInv, NEW c \in Codes
    PROVE  Cardinality(GrantsOf[c]) \in Nat /\ Cardinality(GrantsOf[c]) <= Cardinality(IssuedBy(c))
<1>. DEFINE f == [k \in IssuedBy(c) |-> key[k].device]
<1>1. f \in Surjection(IssuedBy(c), GrantsOf[c])
  BY DEF GrantsOf, Surjection
<1>2. IsFiniteSet(IssuedBy(c)) /\ Cardinality(IssuedBy(c)) \in Nat
  BY IssuedFinite DEF KeyInv
<1>. HIDE DEF f
<1>3. IsFiniteSet(GrantsOf[c]) /\ Cardinality(GrantsOf[c]) <= Cardinality(IssuedBy(c))
  BY <1>1, <1>2, FS_Surjection
<1>. QED
  BY <1>3, FS_CardinalityType

LEMMA GrantedAdmits ==
    ASSUME KeyInv, NEW r \in Calls, NEW k, Granted(r, k)
    PROVE  Invited!Admit(call[r].code, call[r].device)
<1>. DEFINE c == call[r].code  d == call[r].device
<1>1. c \in Codes /\ d \in Devices /\ key'[k].device = d
      /\ \A l \in Keys : l # k => key'[l] = key[l]
  BY GrantedRow
<1>2. d \notin UNION {GrantsOf[e] : e \in Codes}
  BY <1>1 DEF Granted, DeviceTaken, GrantsOf, IssuedBy
<1>3. invite[c] \in InviteRows /\ invite[c] # NoRow /\ invite[c].used < invite[c].max
  BY <1>1 DEF Granted, Usable, KeyInv, TypeOK
<1>4. Cardinality(GrantsOf[c]) < LimitOf[c]
  <2>1. invite[c].used = Cardinality(IssuedBy(c)) /\ LimitOf[c] = invite[c].max
    BY <1>1, <1>3 DEF KeyInv, Budget, LimitOf
  <2>2. invite[c].used \in Nat /\ invite[c].max \in Nat
    BY <1>3 DEF InviteRows
  <2>. QED
    BY <1>1, <1>3, <2>1, <2>2, GrantsCounted
<1>5. ASSUME NEW e \in Codes
      PROVE  {key'[l].device : l \in IssuedBy(e)'} =
             IF e = c THEN {key[l].device : l \in IssuedBy(e)} \cup {d}
             ELSE {key[l].device : l \in IssuedBy(e)}
  <2>1. IssuedBy(e)' = IF e = c THEN IssuedBy(e) \cup {k} ELSE IssuedBy(e)
    BY GrantedIssued
  <2>2. k \notin IssuedBy(e)
    BY DEF Granted, IssuedBy
  <2>3. \A l \in IssuedBy(e) : key'[l] = key[l]
    BY <1>1, <2>2 DEF IssuedBy
  <2>. QED
    BY <1>1, <2>1, <2>3
<1>6. GrantsOf' = [GrantsOf EXCEPT ![c] = @ \cup {d}]
  BY <1>1, <1>5 DEF GrantsOf
<1>7. LimitOf' = LimitOf
  <2>1. invite'[c] = [invite[c] EXCEPT !.used = @ + 1]
    BY <1>1 DEF Granted, KeyInv, TypeOK
  <2>2. invite'[c].max = invite[c].max /\ invite'[c] \in InviteRows
    BY <1>3, <2>1 DEF InviteRows
  <2>3. \A e \in Codes : e # c => invite'[e] = invite[e]
    BY DEF Granted, KeyInv, TypeOK
  <2>. QED
    BY <1>3, <2>2, <2>3, NoRowAssumption DEF LimitOf
<1>8. \A S : Invited!Cardinality(S) = Cardinality(S)
  BY DEF Invited!Cardinality, Cardinality
<1>9. d \notin Invited!Admitted
  BY <1>2 DEF Invited!Admitted
<1>. HIDE DEF c, d
<1>10. Invited!Admit(c, d)
  BY <1>8, <1>4, <1>6, <1>7, <1>9 DEF Invited!Admit
<1>. QED
  BY <1>10 DEF c, d

LEMMA StepInvited == KeyInv /\ [Next]_vars => [Invited!InvNext]_(Invited!invVars)
<1>. SUFFICES ASSUME KeyInv, [Next]_vars
              PROVE  Invited!InvNext \/ UNCHANGED <<LimitOf, GrantsOf>>
  BY DEF Invited!invVars
<1>1. ASSUME NEW c \in Codes, NEW n \in Uses, NEW ttl \in Lifetimes, CreateInvite(c, n, ttl)
      PROVE  Invited!InvNext
  <2>1. [max |-> n, used |-> 0, expires |-> IF ttl = 0 THEN 0 ELSE clock + ttl] \in InviteRows
    BY NumbersAssumption DEF InviteRows, KeyInv, TypeOK
  <2>2. invite'[c] # NoRow /\ invite'[c].max = n /\ invite[c] = NoRow
    BY <1>1, <2>1, NoRowAssumption DEF CreateInvite, KeyInv, TypeOK
  <2>3. \A e \in Codes : e # c => invite'[e] = invite[e]
    BY <1>1 DEF CreateInvite, KeyInv, TypeOK
  <2>4. LimitOf[c] = 0 /\ LimitOf' = [LimitOf EXCEPT ![c] = n]
    BY <2>2, <2>3 DEF LimitOf
  <2>5. GrantsOf' = GrantsOf
    BY <1>1 DEF CreateInvite, GrantsOf, IssuedBy, Issued
  <2>. QED
    BY <2>4, <2>5 DEF Invited!InvNext, Invited!Make
<1>2. ASSUME RowsKept, UNCHANGED invite PROVE UNCHANGED <<LimitOf, GrantsOf>>
  BY <1>2, SameGrants
<1>3. ASSUME NEW k \in Keys, NEW name \in Names, PutAPIKey(k, name)
      PROVE  UNCHANGED <<LimitOf, GrantsOf>>
  BY <1>2, <1>3, PutKeeps DEF PutAPIKey
<1>4. ASSUME NEW ref, RevokeAPIKeyByRef(ref) PROVE UNCHANGED <<LimitOf, GrantsOf>>
  BY <1>2, <1>4, DisableKeeps DEF RevokeAPIKeyByRef, Matches
<1>5. ASSUME NEW d \in Devices, NEW k \in Keys, RevokeSelf(d, k)
      PROVE  UNCHANGED <<LimitOf, GrantsOf>>
  BY <1>2, <1>5, DisableKeeps DEF RevokeSelf, EnabledKey
<1>6. ASSUME UNCHANGED <<key, invite>> PROVE UNCHANGED <<LimitOf, GrantsOf>>
  BY <1>2, <1>6, SameKeys
<1>7. ASSUME NEW r \in Calls, RegisterCommit(r)
      PROVE  Invited!InvNext \/ UNCHANGED <<LimitOf, GrantsOf>>
  <2>1. CASE Refuse(r, "internal") \/ Refuse(r, "forbidden")
    BY <1>6, <2>1 DEF Refuse
  <2>2. CASE \E k \in Keys : Granted(r, k)
    BY <2>2, GrantedAdmits, GrantedRow DEF Invited!InvNext
  <2>. QED
    BY <1>7, <2>1, <2>2, CommitCases
<1>8. ASSUME NEW r \in Calls, Registration(r)
      PROVE  Invited!InvNext \/ UNCHANGED <<LimitOf, GrantsOf>>
  BY <1>6, <1>7, <1>8 DEF Registration, RegisterKey, RegisterCheck, Refuse, Receive, LoseReply
<1>. QED
  BY <1>1, <1>3, <1>4, <1>5, <1>6, <1>8 DEF Next, Operator, Tick, vars

\* Registration lets in at most as many devices as an invitation was made for and
\* no device twice, whatever is lost, refused or rolled back.
THEOREM RefinesInvitations == Spec => ImplementsInvitations
<1>1. Init => Invited!InvInit
  <2>. SUFFICES ASSUME Init PROVE Invited!InvInit
    OBVIOUS
  <2>1. LimitOf = [c \in Codes |-> 0]
    BY DEF Init, LimitOf
  <2>2. GrantsOf = [c \in Codes |-> {}]
    BY DEF Init, GrantsOf, IssuedBy, Issued
  <2>. QED
    BY <2>1, <2>2 DEF Invited!InvInit
<1>. QED
  BY <1>1, StepInvited, KeyInvariant, PTL DEF Spec, ImplementsInvitations, Invited!InvSpec
=============================================================================
