------------------------------- MODULE Catalog -------------------------------
(***************************************************************************)
(* The catalogue of prompts the server keeps in SQLite: the rows of table  *)
(* prompts, the table catalog_snapshots that maps a catalogue hash to the  *)
(* second it was first seen, and the statements of internal/store and      *)
(* internal/catalog that write them.                                       *)
(*                                                                         *)
(* Three kinds of process share the tables: the requests of the server     *)
(* (uploads, and GET /v1/prompts/delta, which runs catalog.Service.Refresh;*)
(* /v1/meta only reads), the operator's commands bench-server -approve and *)
(* -reject, each a process of its own, and the maintenance goroutine that  *)
(* prunes snapshots.  A statement is atomic; a Refresh is two.             *)
(*                                                                         *)
(* The text of a prompt never changes, so a row is its status, its version *)
(* and updated_at.  catalog_hash digests the (id, version, content_hash)   *)
(* of the public rows in order of id: here a hash is that set itself, the  *)
(* function from ids to public versions (0: not public); two catalogues    *)
(* have the same hash exactly when they are equal.                         *)
(***************************************************************************)
EXTENDS Integers, FiniteSets

CONSTANTS
    Ids,         \* prompt ids; their order is the order of ORDER BY id
    Requests,    \* the server's concurrent calls of Refresh
    Outcomes,    \* statuses an operator sets
    CommitLag,   \* seconds a write may wait for SQLite after time.Now()
    StampLag,    \* seconds between RowsForHash and the time.Now() after it
    KeepSeconds, \* snapshotKeepSeconds, the retention of snapshots
    MaxClock,    \* bound of the model: last second
    MaxVersion   \* bound of the model: last version of a row

PublicStatuses == {"approved", "featured"}
Statuses == PublicStatuses \cup {"pending", "rejected"}

ASSUME IdsAssumption == Ids \subseteq Nat /\ IsFiniteSet(Ids)
ASSUME OutcomesAssumption == Outcomes \subseteq Statuses
ASSUME BoundsAssumption ==
    /\ CommitLag \in Nat /\ StampLag \in Nat /\ KeepSeconds \in Nat
    /\ MaxClock \in Nat /\ MaxVersion \in Nat \ {0}

VARIABLES
    clock,  \* time.Now().Unix(), the clock of the machine all processes share
    row,    \* table prompts, by id
    snap,   \* table catalog_snapshots
    req,    \* by request: what a Refresh under way has read so far
    shown   \* history only: by id, the versions that have been public

catVars == <<clock, row, snap, req, shown>>

-----------------------------------------------------------------------------
(* Rows, views and hashes *)

Views == [Ids -> Nat]
EmptyView == [p \in Ids |-> 0]

Absent == [status |-> "absent", version |-> 0, updated |-> 0]
Rows == [status: Statuses, version: Nat \ {0}, updated: Nat] \cup {Absent}

IdleRequest == [hashed |-> FALSE, view |-> EmptyView, began |-> 0]

Exists(p) == row[p].status # "absent"

\* The condition publicStatuses of every read: deleted=0 AND status IN (..).
Public(p) == row[p].status \in PublicStatuses

\* RowsForHash: what Hash digests.
Published == [p \in Ids |-> IF Public(p) THEN row[p].version ELSE 0]

\* The values time.Now() may have had when a write that commits now asked it.
WriteTimes == {t \in 0 .. clock : t + CommitLag >= clock}

TypeOK ==
    /\ clock \in 0 .. MaxClock
    /\ row \in [Ids -> Rows]
    /\ \A p \in Ids : row[p].updated <= clock
    /\ snap \subseteq [view: Views, at: 0 .. clock]
    /\ \A s, t \in snap : s.view = t.view => s = t
    /\ req \in [Requests -> [hashed: BOOLEAN, view: Views, began: 0 .. clock]]
    /\ shown \in [Ids -> SUBSET Nat]

CatInit ==
    /\ clock = 0
    /\ row = [p \in Ids |-> Absent]
    /\ snap = {}
    /\ req = [r \in Requests |-> IdleRequest]
    /\ shown = [p \in Ids |-> {}]

-----------------------------------------------------------------------------
(* Plausible bugs, used to test the properties below *)

SetStatusKeepingTime(p, st, at) ==
    row' = [row EXCEPT ![p] = [status |-> st, version |-> @.version + 1,
                               updated |-> @.updated]]

RecordReplacing(view, at) ==
    snap' = {s \in snap : s.view # view} \cup {[view |-> view, at |-> at]}

RecordTwice(view, at) == snap' = snap \cup {[view |-> view, at |-> at]}

-----------------------------------------------------------------------------
(* Writes of table prompts *)

Tick ==
    /\ clock < MaxClock
    /\ clock' = clock + 1
    /\ UNCHANGED <<row, snap, req, shown>>

\* The insert of an upload whose text is new: a pending row, version 1.
CreatePendingPrompt(p) ==
    /\ ~Exists(p)
    /\ \E at \in WriteTimes :
          row' = [row EXCEPT ![p] = [status |-> "pending", version |-> 1,
                                     updated |-> at]]
    /\ UNCHANGED <<clock, snap, req, shown>>

\* UPDATE prompts SET status=?, version=version+1, updated_at=?
UpdateStatus(p, st, at) ==
    row' = [row EXCEPT ![p] = [status |-> st, version |-> @.version + 1,
                               updated |-> at]]

\* An operator's -approve or -reject: no test of the status the row has.
SetStatus(p, st) ==
    /\ Exists(p)
    /\ row[p].version < MaxVersion
    /\ \E at \in WriteTimes : UpdateStatus(p, st, at)
    /\ shown' = IF st \in PublicStatuses
                THEN [shown EXCEPT ![p] = @ \cup {row[p].version + 1}]
                ELSE shown
    /\ UNCHANGED <<clock, snap, req>>

-----------------------------------------------------------------------------
(* catalog_snapshots *)

\* INSERT OR IGNORE: the first time recorded for a hash stays.
RecordSnapshot(view, at) ==
    snap' = IF \E s \in snap : s.view = view
            THEN snap
            ELSE snap \cup {[view |-> view, at |-> at]}

\* LookupSnapshot, with Unresolved for "no row".
Unresolved == -1
SinceTime(view) ==
    IF \E s \in snap : s.view = view
    THEN (CHOOSE s \in snap : s.view = view).at
    ELSE Unresolved

\* First statement of Refresh: Hash reads the public rows.
RefreshHash(r) ==
    /\ ~req[r].hashed
    /\ req' = [req EXCEPT ![r] = [hashed |-> TRUE, view |-> Published,
                                  began |-> clock]]
    /\ UNCHANGED <<clock, row, snap, shown>>

\* Rest of Refresh: time.Now(), some moment after the read, and the insert.
RefreshRecord(r) ==
    /\ req[r].hashed
    /\ \E at \in req[r].began .. clock :
          /\ at <= req[r].began + StampLag
          /\ RecordSnapshot(req[r].view, at)
    /\ req' = [req EXCEPT ![r] = IdleRequest]
    /\ UNCHANGED <<clock, row, shown>>

\* A statement of Refresh fails, or the context of the request is cancelled.
RefreshFail(r) ==
    /\ req[r].hashed
    /\ req' = [req EXCEPT ![r] = IdleRequest]
    /\ UNCHANGED <<clock, row, snap, shown>>

\* The maintenance goroutine, every ten minutes: one statement, with a cutoff
\* computed before it; it keeps some snapshot of the latest second.
PruneSnapshots ==
    /\ \E latest \in snap, now \in WriteTimes :
          /\ \A s \in snap : s.at <= latest.at
          /\ snap' = {s \in snap : s.at + KeepSeconds >= now \/ s = latest}
    /\ UNCHANGED <<clock, row, req, shown>>

CatNext ==
    \/ Tick
    \/ \E p \in Ids : CreatePendingPrompt(p)
    \/ \E p \in Ids, st \in Outcomes : SetStatus(p, st)
    \/ \E r \in Requests : RefreshHash(r) \/ RefreshRecord(r) \/ RefreshFail(r)
    \/ PruneSnapshots

CatSpec == CatInit /\ [][CatNext]_catVars

-----------------------------------------------------------------------------
(* Properties *)

\* How exact computed_at is: a row last written before the second recorded for
\* a hash, with a margin for the delays of the two clock readings, is today as
\* that hash describes it.  (storage.md calls computed_at the time the hash took
\* effect; Refresh reads the clock after the rows and a write reads it before it
\* commits, so it is that time up to StampLag + CommitLag.)
SnapSound ==
    \A s \in snap, p \in Ids :
        row[p].updated + CommitLag + StampLag < s.at => Published[p] = s.view[p]

\* The same for a Refresh that has read the rows and not yet asked the time.
RequestSound ==
    \A r \in Requests, p \in Ids :
        req[r].hashed /\ row[p].updated + CommitLag < req[r].began
            => Published[p] = req[r].view[p]

\* The inductive invariant.
CatInv == TypeOK /\ SnapSound /\ RequestSound

\* The time of a hash is set once and for all while the hash is kept
\* (INSERT OR IGNORE in RecordSnapshot): moved to a later second, it would cut
\* off changes that a client holding that hash has not seen.
SnapshotTimeFixed ==
    [][\A s \in snap, t \in snap' : s.view = t.view => s.at = t.at]_catVars
=============================================================================
