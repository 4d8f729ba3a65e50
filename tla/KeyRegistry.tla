---------------------------- MODULE KeyRegistry ----------------------------
(***************************************************************************)
(* API keys: invitations, self-service registration, keys put by the       *)
(* operator, revocation by handle and by the owner, and the key a device   *)
(* keeps in its configuration file.                                        *)
(*                                                                         *)
(* The server has one connection (SetMaxOpenConns(1)): the transaction of  *)
(* a registration holds it, so other requests wait.  The operator's        *)
(* commands are processes of their own and may write between what the      *)
(* transaction reads and what it writes; in WAL mode SQLite then refuses   *)
(* to upgrade the transaction (SQLITE_BUSY) and all of it is rolled back.  *)
(***************************************************************************)
EXTENDS Naturals, FiniteSets

CONSTANTS
    Calls,      \* registrations under way at one time
    Devices, Codes,
    Keys,       \* plain keys: NewAPIKey draws one, the operator may give any
    Names,      \* names the operator gives
    Uses,       \* max_uses of the invitations made
    Lifetimes,  \* their lifetimes in seconds, 0 for no expiry
    NoRow, None,
    StartTime, MaxClock

ASSUME SetsAssumption ==
    /\ Names \cap Keys = {}
    /\ None \notin Keys \cup Devices \cup Codes \cup Calls
    /\ IsFiniteSet(Keys)
ASSUME NumbersAssumption ==
    /\ Uses \subseteq Nat \ {0}
    /\ Lifetimes \subseteq Nat
    /\ StartTime \in Nat \ {0, 1}
    /\ MaxClock \in Nat

KeyRows == [name: Names \cup Keys, enabled: Nat, created: Nat,
            scope: {"writer", "admin"}, device: Devices \cup {None},
            invite: Codes \cup {None}]
InviteRows == [max: Nat \ {0}, used: Nat, expires: Nat]

ASSUME NoRowAssumption == NoRow \notin KeyRows \cup InviteRows

VARIABLES
    key,      \* table api_keys, by plain key
    invite,   \* table invite_codes, by plain code; every row is enabled
    clock,
    conn,     \* the call whose transaction holds the server's connection
    stale,    \* has another process written since it began?
    call,     \* by call: where it is, whose, and what is known of it
    held      \* by device: api_key in its configuration file

vars == <<key, invite, clock, conn, stale, call, held>>

Steps == {"idle", "sent", "checked", "answered"}
Answers == {"none", "forbidden", "conflict", "internal", "created"}
CallStates == [step: Steps, device: Devices \cup {None}, code: Codes \cup {None},
               now: Nat, answer: Answers, key: Keys \cup {None}]
IdleCall == [step |-> "idle", device |-> None, code |-> None, now |-> 0,
             answer |-> "none", key |-> None]

TypeOK ==
    /\ key \in [Keys -> KeyRows \cup {NoRow}]
    /\ invite \in [Codes -> InviteRows \cup {NoRow}]
    /\ clock \in Nat
    /\ conn \in Calls \cup {None}
    /\ stale \in BOOLEAN
    /\ call \in [Calls -> CallStates]
    /\ held \in [Devices -> Keys \cup {None}]

Init ==
    /\ key = [k \in Keys |-> NoRow]
    /\ invite = [c \in Codes |-> NoRow]
    /\ clock = StartTime
    /\ conn = None
    /\ stale = FALSE
    /\ call = [r \in Calls |-> IdleCall]
    /\ held = [d \in Devices |-> None]

Issued(k) == key[k] # NoRow
IssuedBy(c) == {k \in Keys : Issued(k) /\ key[k].invite = c}
EnabledKey(k) == Issued(k) /\ key[k].enabled # 0

-----------------------------------------------------------------------------
(* Plausible bugs, used to test the properties below *)

UsableOnceMore(c, now) ==
    /\ invite[c] # NoRow
    /\ invite[c].used <= invite[c].max
    /\ invite[c].expires = 0 \/ invite[c].expires > now
UsedOfCheck(c) == invite
PutReplacing(k, name) ==   \* INSERT OR REPLACE
    /\ key' = [key EXCEPT ![k] =
          [name |-> name, enabled |-> clock, created |-> 1, scope |-> "admin",
           device |-> None, invite |-> None]]
    /\ stale' = (conn # None)
    /\ UNCHANGED <<invite, clock, conn, call, held>>

-----------------------------------------------------------------------------
(* The operator's commands: one statement each, in a process of its own *)

OperatorWrote == stale' = (conn # None)

\* -gen-invite; the code is drawn at random.
CreateInvite(c, n, ttl) ==
    /\ invite[c] = NoRow
    /\ invite' = [invite EXCEPT ![c] =
          [max |-> n, used |-> 0, expires |-> IF ttl = 0 THEN 0 ELSE clock + ttl]]
    /\ OperatorWrote
    /\ UNCHANGED <<key, clock, conn, call, held>>

\* -put-key.  The VALUES list puts the time in column enabled and 1 in created_at.
\* Any key may be given: one that is there already becomes enabled and admin,
\* whoever issued or disabled it, and keeps its device and invitation.
PutAPIKey(k, name) ==
    /\ key' = [key EXCEPT ![k] =
          IF Issued(k)
          THEN [@ EXCEPT !.name = name, !.enabled = 1, !.scope = "admin"]
          ELSE [name |-> name, enabled |-> clock, created |-> 1, scope |-> "admin",
                device |-> None, invite |-> None]]
    /\ OperatorWrote
    /\ UNCHANGED <<invite, clock, conn, call, held>>

\* A handle is a prefix of the hash, which stands for one key, or a name.
Matches(ref) == {k \in Keys : Issued(k) /\ (k = ref \/ key[k].name = ref)}

Disable(ks) ==
    key' = [k \in Keys |-> IF k \in ks THEN [key[k] EXCEPT !.enabled = 0] ELSE key[k]]

\* -revoke-key: the rows are counted after the UPDATE.
RevokeAPIKeyByRef(ref) ==
    /\ Matches(ref) # {}
    /\ Disable(Matches(ref))
    /\ OperatorWrote
    /\ UNCHANGED <<invite, clock, conn, call, held>>

-----------------------------------------------------------------------------
(* Registration *)

\* bench key new, or the form of the web site.
RegisterKey(r, d, c) ==
    /\ call[r] = IdleCall
    /\ call' = [call EXCEPT ![r] = [@ EXCEPT !.step = "sent", !.device = d, !.code = c]]
    /\ UNCHANGED <<key, invite, clock, conn, stale, held>>

Usable(c, now) ==
    /\ invite[c] # NoRow
    /\ invite[c].used < invite[c].max
    /\ invite[c].expires = 0 \/ invite[c].expires > now

\* Any row counts, revoked ones too.
DeviceTaken(d) == \E k \in Keys : Issued(k) /\ key[k].device = d

\* Rollback, and the connection is free for others.
Refuse(r, answer) ==
    /\ call' = [call EXCEPT ![r] = [@ EXCEPT !.step = "answered", !.answer = answer]]
    /\ conn' = None
    /\ stale' = FALSE
    /\ UNCHANGED <<key, invite, clock, held>>

\* BEGIN, the SELECT of the code, the clock, the SELECT of the device.
RegisterCheck(r) ==
    LET c == call[r].code  d == call[r].device
    IN  /\ call[r].step = "sent"
        /\ conn = None
        /\ IF ~Usable(c, clock) THEN Refuse(r, "forbidden")
           ELSE IF DeviceTaken(d) THEN Refuse(r, "conflict")
           ELSE /\ conn' = r
                /\ stale' = FALSE
                /\ call' = [call EXCEPT ![r] = [@ EXCEPT !.step = "checked", !.now = clock]]
                /\ UNCHANGED <<key, invite, clock, held>>

Fresh(k) == ~Issued(k)

\* UPDATE invite_codes SET used = used + 1.
Consume(c) == [invite EXCEPT ![c].used = @ + 1]

\* The UPDATE that consumes the invitation, the INSERT of the key, COMMIT.
\* The second half of the condition is the index ux_keys_device.
RegisterCommit(r) ==
    LET c == call[r].code  d == call[r].device
    IN  /\ call[r].step = "checked"
        /\ IF stale \/ DeviceTaken(d) THEN Refuse(r, "internal")
           ELSE IF ~Usable(c, call[r].now) THEN Refuse(r, "forbidden")
           ELSE \E k \in Keys :
                /\ Fresh(k)
                /\ invite' = Consume(c)
                /\ key' = [key EXCEPT ![k] =
                      [name |-> k, enabled |-> 1, created |-> call[r].now,
                       scope |-> "writer", device |-> d, invite |-> c]]
                /\ call' = [call EXCEPT ![r] =
                      [@ EXCEPT !.step = "answered", !.answer = "created", !.key = k]]
                /\ conn' = None
                /\ stale' = FALSE
                /\ UNCHANGED <<clock, held>>

\* The answer arrives; a key is saved, in place of any other.
Receive(r) ==
    /\ call[r].step = "answered"
    /\ held' = IF call[r].answer = "created"
               THEN [held EXCEPT ![call[r].device] = call[r].key]
               ELSE held
    /\ call' = [call EXCEPT ![r] = IdleCall]
    /\ UNCHANGED <<key, invite, clock, conn, stale>>

\* The caller gives up or dies, or the server does: a POST is not repeated, an
\* open transaction is rolled back, a committed one stays.
LoseReply(r) ==
    /\ call[r].step # "idle"
    /\ call' = [call EXCEPT ![r] = IdleCall]
    /\ conn' = IF conn = r THEN None ELSE conn
    /\ stale' = (stale /\ conn # r)
    /\ UNCHANGED <<key, invite, clock, held>>

-----------------------------------------------------------------------------
(* Revocation by the owner *)

\* bench key revoke with the key in force, the saved one or another (--key,
\* BENCH_API_KEY): authMW, DisableAPIKey, and when the answer arrives the saved
\* key is cleared.
RevokeSelf(d, k) ==
    /\ conn = None
    /\ EnabledKey(k)
    /\ Disable({k})
    /\ held' \in {held, [held EXCEPT ![d] = None]}
    /\ UNCHANGED <<invite, clock, conn, stale, call>>

Tick ==
    /\ clock < MaxClock
    /\ clock' = clock + 1
    /\ UNCHANGED <<key, invite, conn, stale, call, held>>

Operator ==
    \/ \E c \in Codes, n \in Uses, ttl \in Lifetimes : CreateInvite(c, n, ttl)
    \/ \E k \in Keys, name \in Names : PutAPIKey(k, name)
    \/ \E ref \in Names \cup Keys : RevokeAPIKeyByRef(ref)

Registration(r) ==
    \/ \E d \in Devices, c \in Codes : RegisterKey(r, d, c)
    \/ RegisterCheck(r) \/ RegisterCommit(r) \/ Receive(r) \/ LoseReply(r)

Next ==
    \/ Operator
    \/ \E r \in Calls : Registration(r)
    \/ \E d \in Devices, k \in Keys : RevokeSelf(d, k)
    \/ Tick

Spec == Init /\ [][Next]_vars

-----------------------------------------------------------------------------
(* Properties *)

\* An invitation is used up exactly by the keys it has produced, and never
\* beyond its limit, whatever fails, races or gets lost (one transaction, the
\* condition of the UPDATE).
Budget ==
    \A c \in Codes :
        /\ invite[c] = NoRow => IssuedBy(c) = {}
        /\ invite[c] # NoRow =>
              /\ invite[c].used = Cardinality(IssuedBy(c))
              /\ invite[c].used <= invite[c].max

\* One key for each device, revoked ones included.
OneKeyPerDevice ==
    \A k, l \in Keys :
        Issued(k) /\ Issued(l) /\ key[k].device = key[l].device /\ key[k].device # None
            => k = l

\* A transaction that has checked and seen no write of another process since is
\* the only one, and what it has checked still holds.
CallSound(r) ==
    /\ call[r].step = "checked" <=> conn = r
    /\ call[r].step \in {"sent", "checked"} =>
          call[r].device \in Devices /\ call[r].code \in Codes
    /\ call[r].step = "checked" /\ ~stale =>
          Usable(call[r].code, call[r].now) /\ ~DeviceTaken(call[r].device)
    /\ call[r].answer = "created" =>
          /\ call[r].key \in Keys /\ call[r].device \in Devices
          /\ Issued(call[r].key) /\ key[call[r].key].device = call[r].device

CheckStillHolds == \A r \in Calls : CallSound(r)

\* A key from an invitation belongs to a device, and no other key does; the operator's
\* are admin.
SelfServiceRows ==
    \A k \in Keys :
        Issued(k) =>
            /\ key[k].device = None <=> key[k].invite = None
            /\ key[k].device = None => key[k].scope = "admin"

KeyInv == TypeOK /\ Budget /\ OneKeyPerDevice /\ CheckStillHolds /\ SelfServiceRows

\* A step gives back a revoked key, or makes a writer an admin.
Restored(k) ==
    \/ key[k].enabled = 0 /\ key'[k].enabled # 0
    \/ key[k].scope = "writer" /\ key'[k].scope = "admin"

\* Whose a key is and which invitation it counts for is settled when it is issued,
\* over revocation and -put-key; and it comes back, or becomes admin, only by a
\* -put-key of that one key, which registers and answers nobody (store.go:673-677).
OnlyPutRestores ==
    [][\A k \in Keys : Issued(k) =>
          /\ Issued(k)' /\ key'[k].device = key[k].device /\ key'[k].invite = key[k].invite
          /\ Restored(k) =>
                /\ key'[k].name \in Names
                /\ \A l \in Keys \ {k} : key'[l] = key[l]
                /\ UNCHANGED <<invite, call, held>>]_vars

LimitOf == [c \in Codes |-> IF invite[c] = NoRow THEN 0 ELSE invite[c].max]
GrantsOf == [c \in Codes |-> {key[k].device : k \in IssuedBy(c)}]

Invited == INSTANCE Invitations WITH Limits <- Uses, limit <- LimitOf, grants <- GrantsOf

\* Registration does what Invitations promises.
ImplementsInvitations == Invited!InvSpec

\* A device is turned away as registered only while it has a key in force, so
\* that revoking the key lets it register again.
ConflictHasKey ==
    [][\A r \in Calls :
          call[r].answer # "conflict" /\ call'[r].answer = "conflict" =>
              \E k \in Keys : EnabledKey(k) /\ key[k].device = call[r].device]_vars

\* A handle that matches several keys disables none of them.
AmbiguousRevokesNone ==
    [][\A ref \in Names :
          Cardinality(Matches(ref)) > 1 =>
              ~ \A k \in Matches(ref) : EnabledKey(k) /\ key'[k].enabled = 0]_vars

\* created_at of a key is the second in which it was registered.
CreatedInTime == \A k \in Keys : Issued(k) => key[k].created \in StartTime .. clock

\* A key that was revoked is not to be had back (handlers.go:445).
RevokedForGood ==
    [][\A k \in Keys :
          Issued(k) /\ key[k].enabled = 0 => Issued(k)' /\ key'[k].enabled = 0]_vars

\* A key that a device has registered stays a writer (CHANGELOG.md:24), so that it
\* cannot read /-/metrics.
SelfServiceIsWriter ==
    \A k \in Keys : Issued(k) /\ key[k].device # None => key[k].scope = "writer"

\* bench key revoke clears a key from the configuration only if it revokes it.
ClearedIsRevoked ==
    [][\A d \in Devices :
          held[d] # None /\ held'[d] = None => key'[held[d]].enabled = 0]_vars
=============================================================================
