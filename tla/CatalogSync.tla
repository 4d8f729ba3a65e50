----------------------------- MODULE CatalogSync -----------------------------
(***************************************************************************)
(* Incremental synchronisation: SDK clients that keep a local copy of the  *)
(* catalogue and bring it up to date with GET /v1/prompts/delta.           *)
(*                                                                         *)
(* Composes the server's tables (Catalog) with the handler of delta, one   *)
(* SQL statement per step, and with what a client's cache file goes        *)
(* through: Sync page by page, rows brought in by Get and Random on the    *)
(* side, Purge, replies lost and asked for again, and a process that dies  *)
(* or gives up anywhere in a round.                                        *)
(* The handler runs while its client waits, so the steps of both are one   *)
(* process per client; pc says where it is:                                *)
(*                                                                         *)
(*   idle -> ask -> hashed -> page -> deleted -> apply -> store -> idle    *)
(*            ^                |                  ^ |                      *)
(*            |                +---- no deletes --+ |                      *)
(*            +---------------- next page ----------+                      *)
(*                                                                         *)
(* The booleans below switch on behaviours of the environment one at a     *)
(* time.  All of them are possible; the invariant Covered depends on their *)
(* absence, and one run for each shows how it fails in its presence.       *)
(***************************************************************************)
EXTENDS Catalog

CONSTANTS
    Clients,       \* cache files; each is used by one process at a time
    NoHash,        \* the client's catalog_hash before the first Sync
    PageSize,      \* DefaultPageSize, 100 in the code
    BusyPaging,    \* statuses change between the pages of a round
    EarlyRows,     \* rows enter a cache before its first Sync has ended
    Overlap,       \* Get or Random of another process during a Sync
    SplitPurge,    \* a process dies between the two statements of Purge
    MaxInterrupts  \* bound of the model: calls lost and rounds that fail

ASSUME ClientsAssumption == Clients \subseteq Requests
ASSUME NoHashAssumption == NoHash \notin Views
ASSUME SyncAssumption ==
    /\ PageSize \in Nat \ {0}
    /\ {BusyPaging, EarlyRows, Overlap, SplitPurge} \subseteq BOOLEAN
    /\ MaxInterrupts \in Nat

VARIABLES
    \* the cache file
    cache,      \* table prompt_cache: by id the version held, 0 for none
    hash,       \* kv catalog_hash
    \* the local variables of Sync
    pc, base, next, offset,
    \* the reply to one call of delta, as far as it is computed
    floor,      \* sinceTS
    changes,    \* by id the version sent, 0 for none
    deleted, more,
    \* the reply to a Get or Random not yet written to the cache
    fetch,
    interrupts

roundVars == <<pc, base, next, offset, floor, changes, deleted, more>>
clientVars == <<cache, hash, roundVars, fetch, interrupts>>
vars == <<catVars, clientVars>>

Steps == {"idle", "ask", "hashed", "page", "deleted", "apply", "store", "purged"}
InRound == Steps \ {"idle", "purged"}

SyncTypeOK ==
    /\ TypeOK
    /\ cache \in [Clients -> Views]
    /\ hash \in [Clients -> Views \cup {NoHash}]
    /\ pc \in [Clients -> Steps]
    /\ base \in [Clients -> Views \cup {NoHash}]
    /\ next \in [Clients -> Views]
    /\ offset \in [Clients -> Nat]
    /\ floor \in [Clients -> Nat \cup {Unresolved}]
    /\ changes \in [Clients -> Views]
    /\ deleted \in [Clients -> SUBSET Ids]
    /\ more \in [Clients -> BOOLEAN]
    /\ fetch \in [Clients -> Views]
    /\ interrupts \in 0 .. MaxInterrupts

Init ==
    /\ CatInit
    /\ cache = [c \in Clients |-> EmptyView]
    /\ hash = [c \in Clients |-> NoHash]
    /\ pc = [c \in Clients |-> "idle"]
    /\ base = [c \in Clients |-> NoHash]
    /\ next = [c \in Clients |-> EmptyView]
    /\ offset = [c \in Clients |-> 0]
    /\ floor = [c \in Clients |-> Unresolved]
    /\ changes = [c \in Clients |-> EmptyView]
    /\ deleted = [c \in Clients |-> {}]
    /\ more = [c \in Clients |-> FALSE]
    /\ fetch = [c \in Clients |-> EmptyView]
    /\ interrupts = 0

-----------------------------------------------------------------------------
(* Plausible bugs, used to test the properties below *)

InScopeStrict(since, p) == Public(p) /\ row[p].updated > since
InScopeUnfiltered(since, p) == Exists(p) /\ row[p].updated >= since
StayOnPage(from) == from
StoreHashOfBase(c) ==
    /\ pc[c] = "store"
    /\ hash' = [hash EXCEPT ![c] = base[c]]
    /\ pc' = [pc EXCEPT ![c] = "idle"]
    /\ UNCHANGED <<catVars, cache, base, next, offset, floor, changes, deleted, more,
                   fetch, interrupts>>

PurgeAllButHash(c) ==
    /\ pc[c] = "purged"
    /\ pc' = [pc EXCEPT ![c] = "idle"]
    /\ UNCHANGED <<catVars, cache, hash, base, next, offset, floor, changes, deleted, more,
                   fetch, interrupts>>

-----------------------------------------------------------------------------
(* The queries of delta *)

\* UpsertPrompt for each row of a reply: a version is overwritten whatever it is.
Overlay(old, rows) == [p \in Ids |-> IF rows[p] # 0 THEN rows[p] ELSE old[p]]

\* DeletePrompts.
Without(view, ids) == [p \in Ids |-> IF p \in ids THEN 0 ELSE view[p]]

\* WHERE of PromptsUpdatedSince, and of PublicAll when nothing was resolved.
InScope(since, p) == Public(p) /\ row[p].updated >= since

\* ORDER BY updated_at, id, and ORDER BY id for PublicAll.
Before(since, q, p) ==
    IF since = Unresolved
    THEN q < p
    ELSE \/ row[q].updated < row[p].updated
         \/ row[q].updated = row[p].updated /\ q < p

Rank(since, p) == Cardinality({q \in Ids : InScope(since, q) /\ Before(since, q, p)})

\* LIMIT PageSize OFFSET from.
OnPage(since, from, p) ==
    InScope(since, p) /\ Rank(since, p) \in from .. from + PageSize - 1

\* The handler asks for one row more than the page: is there any?
HasMore(since, from) ==
    Cardinality({p \in Ids : InScope(since, p)}) > from + PageSize

\* DeletedSince.
DeletedSince(since) == {p \in Ids : Exists(p) /\ ~Public(p) /\ row[p].updated >= since}

-----------------------------------------------------------------------------
(* Sync and delta *)

\* Between the first page of a round that has several and the end of the round.
Paging(c) == more[c] \/ offset[c] > 0

ResetRound(c) ==
    /\ pc' = [pc EXCEPT ![c] = "idle"]
    /\ base' = [base EXCEPT ![c] = NoHash]
    /\ next' = [next EXCEPT ![c] = EmptyView]
    /\ offset' = [offset EXCEPT ![c] = 0]
    /\ floor' = [floor EXCEPT ![c] = Unresolved]
    /\ changes' = [changes EXCEPT ![c] = EmptyView]
    /\ deleted' = [deleted EXCEPT ![c] = {}]
    /\ more' = [more EXCEPT ![c] = FALSE]

\* Sync reads catalog_hash; base stays fixed for all pages of the round.
StartSync(c) ==
    /\ pc[c] = "idle"
    /\ Overlap \/ fetch[c] = EmptyView
    /\ pc' = [pc EXCEPT ![c] = "ask"]
    /\ base' = [base EXCEPT ![c] = hash[c]]
    /\ UNCHANGED <<catVars, cache, hash, next, offset, floor, changes, deleted,
                   more, fetch, interrupts>>

\* Delta calls Refresh, which starts with Hash.
ServeHash(c) ==
    /\ pc[c] = "ask"
    /\ RefreshHash(c)
    /\ pc' = [pc EXCEPT ![c] = "hashed"]
    /\ UNCHANGED <<cache, hash, base, next, offset, floor, changes, deleted, more,
                   fetch, interrupts>>

\* Refresh records the snapshot; since == current is answered with nothing.
ServeRecord(c) ==
    /\ pc[c] = "hashed"
    /\ RefreshRecord(c)
    /\ next' = [next EXCEPT ![c] = req[c].view]
    /\ pc' = [pc EXCEPT ![c] = IF base[c] = req[c].view THEN "apply" ELSE "page"]
    /\ UNCHANGED <<cache, hash, base, offset, floor, changes, deleted, more, fetch,
                   interrupts>>

\* LookupSnapshot, then PromptsUpdatedSince or the fallback PublicAll.
ServePage(c) ==
    LET since == SinceTime(base[c])
    IN  /\ pc[c] = "page"
        /\ floor' = [floor EXCEPT ![c] = since]
        /\ changes' = [changes EXCEPT ![c] =
              [p \in Ids |-> IF OnPage(since, offset[c], p) THEN row[p].version ELSE 0]]
        /\ more' = [more EXCEPT ![c] = HasMore(since, offset[c])]
        /\ pc' = [pc EXCEPT ![c] =
              IF since # Unresolved /\ offset[c] = 0 THEN "deleted" ELSE "apply"]
        /\ UNCHANGED <<catVars, cache, hash, base, next, offset, deleted, fetch,
                       interrupts>>

\* DeletedSince: for the first page of a resolved since only.
ServeDeleted(c) ==
    /\ pc[c] = "deleted"
    /\ deleted' = [deleted EXCEPT ![c] = DeletedSince(floor[c])]
    /\ pc' = [pc EXCEPT ![c] = "apply"]
    /\ UNCHANGED <<catVars, cache, hash, base, next, offset, floor, changes, more,
                   fetch, interrupts>>

\* The next cursor: EncodeCursor(offset + limit).
NextOffset(from) == from + PageSize

\* The client writes a page: the upserts, then the deletes; then it asks for the
\* next page or ends the round.
ApplyPage(c) ==
    /\ pc[c] = "apply"
    /\ cache' = [cache EXCEPT ![c] = Without(Overlay(@, changes[c]), deleted[c])]
    /\ pc' = [pc EXCEPT ![c] = IF more[c] THEN "ask" ELSE "store"]
    /\ offset' = [offset EXCEPT ![c] = IF more[c] THEN NextOffset(@) ELSE @]
    /\ floor' = [floor EXCEPT ![c] = Unresolved]
    /\ changes' = [changes EXCEPT ![c] = EmptyView]
    /\ deleted' = [deleted EXCEPT ![c] = {}]
    /\ more' = [more EXCEPT ![c] = FALSE]
    /\ UNCHANGED <<catVars, hash, base, next, fetch, interrupts>>

\* Only now does catalog_hash move: to the hash the last page was computed with.
StoreHash(c) ==
    /\ pc[c] = "store"
    /\ hash' = [hash EXCEPT ![c] = next[c]]
    /\ ResetRound(c)
    /\ UNCHANGED <<catVars, cache, fetch, interrupts>>

\* The reply is lost on its way: a delta is idempotent, and send asks it again.
Resend(c) ==
    /\ pc[c] \in {"hashed", "page", "deleted", "apply"}
    /\ interrupts < MaxInterrupts
    /\ interrupts' = interrupts + 1
    /\ IF req[c].hashed THEN RefreshFail(c) ELSE UNCHANGED catVars
    /\ pc' = [pc EXCEPT ![c] = "ask"]
    /\ floor' = [floor EXCEPT ![c] = Unresolved]
    /\ changes' = [changes EXCEPT ![c] = EmptyView]
    /\ deleted' = [deleted EXCEPT ![c] = {}]
    /\ more' = [more EXCEPT ![c] = FALSE]
    /\ UNCHANGED <<cache, hash, base, next, offset, fetch>>

\* A plausible bug for the properties below: the hash is stored by a deferred call.
InterruptStoring(c) ==
    /\ pc[c] \in {"apply", "store"} /\ base[c] # NoHash
    /\ interrupts < MaxInterrupts
    /\ interrupts' = interrupts + 1
    /\ hash' = [hash EXCEPT ![c] = next[c]]
    /\ ResetRound(c)
    /\ UNCHANGED <<catVars, cache, fetch>>

\* The process dies, or a call fails and Sync returns the error: a part of the
\* page received may have been written, the hash has not.
Interrupt(c) ==
    /\ pc[c] \in InRound \/ (pc[c] = "purged" /\ SplitPurge)
    /\ EarlyRows \/ base[c] # NoHash \/ pc[c] = "purged"
    /\ interrupts < MaxInterrupts
    /\ interrupts' = interrupts + 1
    /\ \E written \in SUBSET (IF pc[c] = "apply" THEN Ids ELSE {}) :
          cache' = [cache EXCEPT ![c] = Overlay(@, Without(changes[c], Ids \ written))]
    /\ IF req[c].hashed THEN RefreshFail(c) ELSE UNCHANGED catVars
    /\ ResetRound(c)
    /\ UNCHANGED <<hash, fetch>>

-----------------------------------------------------------------------------
(* Get, Random and Purge *)

\* GetApproved or RandomApproved: one public row, read now ...
FetchRead(c, p) ==
    /\ fetch[c] = EmptyView
    /\ Public(p)
    /\ Overlap \/ pc[c] = "idle"
    /\ EarlyRows \/ hash[c] # NoHash
    /\ fetch' = [fetch EXCEPT ![c] = [EmptyView EXCEPT ![p] = row[p].version]]
    /\ UNCHANGED <<catVars, cache, hash, roundVars, interrupts>>

\* ... and written to the cache when the answer arrives.
FetchApply(c) ==
    /\ fetch[c] # EmptyView
    /\ cache' = [cache EXCEPT ![c] = Overlay(@, fetch[c])]
    /\ fetch' = [fetch EXCEPT ![c] = EmptyView]
    /\ UNCHANGED <<catVars, hash, roundVars, interrupts>>

\* Purge is DELETE FROM prompt_cache; DELETE FROM kv, without a transaction.
PurgeRows(c) ==
    /\ pc[c] = "idle"
    /\ fetch[c] = EmptyView
    /\ cache' = [cache EXCEPT ![c] = EmptyView]
    /\ pc' = [pc EXCEPT ![c] = "purged"]
    /\ UNCHANGED <<catVars, hash, base, next, offset, floor, changes, deleted, more,
                   fetch, interrupts>>

PurgeKV(c) ==
    /\ pc[c] = "purged"
    /\ hash' = [hash EXCEPT ![c] = NoHash]
    /\ pc' = [pc EXCEPT ![c] = "idle"]
    /\ UNCHANGED <<catVars, cache, base, next, offset, floor, changes, deleted, more,
                   fetch, interrupts>>

-----------------------------------------------------------------------------
(* The rest of the server, and the specification *)

\* An operator changes a status while no round is between two pages, or any time.
Review(p, st) ==
    /\ BusyPaging \/ \A c \in Clients : ~Paging(c)
    /\ SetStatus(p, st)
    /\ UNCHANGED clientVars

\* Uploads, pruning, and the delta calls of everybody else.
ServerAlone ==
    /\ \/ Tick
       \/ \E p \in Ids : CreatePendingPrompt(p)
       \/ \E r \in Requests \ Clients :
             RefreshHash(r) \/ RefreshRecord(r) \/ RefreshFail(r)
       \/ PruneSnapshots
    /\ UNCHANGED clientVars

SyncStep(c) ==
    \/ StartSync(c) \/ ServeHash(c) \/ ServeRecord(c) \/ ServePage(c)
    \/ ServeDeleted(c) \/ ApplyPage(c) \/ StoreHash(c)

CacheStep(c) == \/ \E p \in Ids : FetchRead(c, p)
                \/ FetchApply(c) \/ PurgeRows(c) \/ PurgeKV(c)

Next ==
    \/ \E p \in Ids, st \in Outcomes : Review(p, st)
    \/ ServerAlone
    \/ \E c \in Clients : SyncStep(c) \/ Resend(c) \/ Interrupt(c) \/ CacheStep(c)

Spec == Init /\ [][Next]_vars

\* A process that has started an operation goes on with it, and its user runs
\* Sync again and again, whatever else he does between; nobody has to upload,
\* review, fetch or purge.
Fairness ==
    \A c \in Clients :
        /\ WF_vars(SyncStep(c)) /\ SF_vars(StartSync(c))
        /\ WF_vars(FetchApply(c)) /\ WF_vars(PurgeKV(c))

FairSpec == Spec /\ Fairness

-----------------------------------------------------------------------------
(* Properties *)

\* No lost change.  A client holding the catalog_hash h has every row as the
\* server publishes it now, except rows written in the second of h or later:
\* the ones its next delta will send (Sync stores the hash last; the handler
\* selects updated_at >= since).  In particular h can be resolved.
CoveredAt(c) ==
    hash[c] # NoHash /\ pc[c] # "purged" =>
        /\ SinceTime(hash[c]) # Unresolved
        /\ \A p \in Ids :
              row[p].updated < SinceTime(hash[c]) => cache[c][p] = Published[p]

Covered == \A c \in Clients : CoveredAt(c)

\* The same for deletions alone: a row that has been taken down and is still in
\* a cache will be in the deleted list of that client's next delta.
NoGhost ==
    \A c \in Clients, p \in Ids :
        hash[c] # NoHash /\ cache[c][p] # 0 /\ ~Public(p)
            => row[p].updated >= SinceTime(hash[c])

\* Only what an operator has let through reaches a cache, whatever is lost or
\* interleaved: the version a client holds is one that was public.
CachedWasPublic ==
    \A c \in Clients, p \in Ids : cache[c][p] # 0 => cache[c][p] \in shown[p]

\* Every round of Sync ends: paging terminates even while rows change (the
\* cursor advances and each page is shorter than what is left).
RoundEnds == \A c \in Clients : (pc[c] \in InRound) ~> (pc[c] = "idle")

\* A client that goes on syncing reaches the hash of the current catalogue
\* again and again, failed rounds and purges notwithstanding.
HashCatchesUp == \A c \in Clients : []<>(hash[c] = Published)

\* The cache of such a client becomes equal to the public catalogue.
CacheCatchesUp == \A c \in Clients : []<>(cache[c] = Published)

\* Status.UpToDate, and a Sync that answers "no changes": same hash, same rows.
UpToDateIsEqual ==
    \A c \in Clients :
        pc[c] = "idle" /\ hash[c] = Published => cache[c] = Published

\* What a client's next delta will look at: all, or the rows written in the second
\* of its hash or later.
Due == [c \in Clients |->
          LET since == SinceTime(hash[c])
          IN  {p \in Ids : hash[c] = NoHash \/ pc[c] = "purged" \/ row[p].updated >= since}]

Promise == INSTANCE Replica WITH public <- Published, copy <- cache, due <- Due

\* Step by step: Sync, with delta, Get, Random and Purge beside it, implements
\* Replica.  No row leaves the list of what is due but at the end of a round that
\* has it right, and no row that is not due is touched.
ImplementsReplica == Promise!ReplicaSpec

-----------------------------------------------------------------------------
(* The inductive invariant behind Covered.  A row is settled when it was last  *)
(* written before the second of the hash the round will store: it cannot have  *)
(* changed since the handler read it.                                          *)

Settled(c, p) == row[p].updated < SinceTime(next[c])

\* The cache once the page received is written.
After(c) == Without(Overlay(cache[c], changes[c]), deleted[c])

\* Rows of the round that lie on the pages from an offset on.
Left(c, p, from) ==
    InScope(SinceTime(base[c]), p) /\ Rank(SinceTime(base[c]), p) >= from

\* The state of a client that is not in a round, or just in one.
RoundInv(c) ==
    /\ pc[c] \in InRound => base[c] = hash[c]
    /\ pc[c] \notin InRound => base[c] = NoHash /\ ~Paging(c)
    /\ pc[c] \notin {"deleted", "apply"} =>
          changes[c] = EmptyView /\ deleted[c] = {} /\ ~more[c]
    /\ pc[c] = "purged" => cache[c] = EmptyView
    /\ pc[c] # "idle" => fetch[c] = EmptyView
    /\ hash[c] = NoHash => fetch[c] = EmptyView
    /\ hash[c] = NoHash /\ offset[c] = 0 /\ pc[c] # "store" => cache[c] = EmptyView
    /\ pc[c] \in {"page", "deleted", "apply", "store"} => SinceTime(next[c]) # Unresolved

\* A version on its way to the cache is the public one unless the row was
\* written in the second of the hash held or to be stored, or later.
InFlightInv(c) ==
    \A p \in Ids :
        /\ row[p].updated < SinceTime(hash[c]) =>
              /\ fetch[c][p] # 0 => fetch[c][p] = Published[p]
              /\ changes[c][p] # 0 => changes[c][p] = Published[p]
              /\ p \in deleted[c] => Published[p] = 0
        /\ ~Exists(p) => cache[c][p] = 0 /\ changes[c][p] = 0 /\ fetch[c][p] = 0

\* What is right in the cache, or will be, at each step of a round.
ProgressInv(c) ==
    \A p \in Ids :
        /\ pc[c] \in {"ask", "hashed", "page", "apply"} /\ offset[c] > 0 =>
              cache[c][p] = Published[p] \/ Left(c, p, offset[c])
        /\ pc[c] = "deleted" =>
              /\ floor[c] = SinceTime(base[c]) /\ floor[c] # Unresolved
              /\ offset[c] = 0 /\ deleted[c] = {}
              /\ more[c] \/ Settled(c, p) =>
                    \/ Overlay(cache[c], changes[c])[p] = Published[p]
                    \/ p \in DeletedSince(floor[c])
                    \/ more[c] /\ Left(c, p, PageSize)
        /\ pc[c] = "apply" /\ (more[c] \/ Settled(c, p)) =>
              \/ After(c)[p] = Published[p]
              \/ more[c] /\ Left(c, p, offset[c] + PageSize)
        /\ pc[c] = "store" /\ Settled(c, p) => cache[c][p] = Published[p]

SyncInv ==
    /\ SyncTypeOK
    /\ Covered
    /\ \A c \in Clients : RoundInv(c) /\ InFlightInv(c) /\ ProgressInv(c)
=============================================================================
