------------------------------- MODULE Startup -------------------------------
(***************************************************************************)
(* Starting on the database file: every process, the service and each      *)
(* command of an operator, opens the file, applies the migrations it does  *)
(* not find recorded, and only then does its work.  Processes start, die   *)
(* and are restarted at any point, several of them on one file.            *)
(*                                                                         *)
(*   down -> open -> table -> count <-> body -> record -> commit           *)
(*     ^                        |                           |              *)
(*     |                        +-> ready                   +-> count      *)
(*     +---- exit, error, signal or crash, from anywhere                   *)
(*                                                                         *)
(* The body of a migration and its row in schema_migrations are one        *)
(* transaction; the look whether it is needed comes before it.             *)
(***************************************************************************)
EXTENDS Integers

CONSTANTS
    Procs, Server,  \* the processes; one of them is the service
    Keys,           \* rows of api_keys
    Last,           \* versions of the files in migrations/: 1 .. Last
    Scoped,         \* the one that adds scope to api_keys: 0002
    Free,           \* nobody holds SQLite's write lock
    MaxCrashes      \* bound of the model

ASSUME StartupAssumption ==
    /\ Server \in Procs
    /\ Free \notin Procs
    /\ Last \in Nat
    /\ Scoped \in 2 .. Last
    /\ MaxCrashes \in Nat

VARIABLES
    wal,       \* the file is in WAL mode
    table,     \* schema_migrations exists
    schema,    \* versions whose body has been carried out and committed
    recorded,  \* rows of schema_migrations
    scope,     \* api_keys: the column, "" for rows without one
    pc, step,  \* by process: where it is, and the version it is at
    lock,
    txn,       \* the uncommitted schema, record and scopes of the lock's holder
    crashes

fileVars == <<wal, table, schema, recorded, scope>>
vars == <<fileVars, pc, step, lock, txn, crashes>>

Versions == 1 .. Last
Scopes == {"absent", "", "writer", "admin"}
States == {"down", "open", "table", "count", "body", "record", "commit", "ready"}

Contents == [schema : SUBSET Versions, recorded : SUBSET Versions, scope : [Keys -> Scopes]]
File == [schema |-> schema, recorded |-> recorded, scope |-> scope]

TypeOK ==
    /\ {wal, table} \subseteq BOOLEAN
    /\ File \in Contents
    /\ pc \in [Procs -> States]
    /\ step \in [Procs -> 1 .. Last + 1]
    /\ lock \in Procs \cup {Free}
    /\ txn \in Contents
    /\ crashes \in 0 .. MaxCrashes

\* A new file, or one that an earlier release left behind with its keys in it.
Init ==
    /\ \E v \in 0 .. Scoped - 1 :
          /\ schema = 1 .. v
          /\ recorded = 1 .. v
          /\ table = (v > 0)
          /\ wal = (v > 0)
          /\ scope \in [Keys -> IF v > 0 THEN {"absent", ""} ELSE {"absent"}]
    /\ pc = [p \in Procs |-> "down"]
    /\ step = [p \in Procs |-> 1]
    /\ lock = Free
    /\ txn = File
    /\ crashes = 0

-----------------------------------------------------------------------------
(* Plausible bugs, used to test the properties below *)

KeepAsWriters(old) == [k \in Keys |-> IF old[k] = "" THEN "writer" ELSE old[k]]
BodyAtOnce(p) ==
    /\ pc[p] = "body"
    /\ lock = Free
    /\ step[p] \notin schema
    /\ lock' = p
    /\ schema' = schema \cup {step[p]}
    /\ scope' = IF step[p] = Scoped
                THEN [k \in Keys |-> IF scope[k] = "" THEN "admin" ELSE scope[k]]
                ELSE scope
    /\ pc' = [pc EXCEPT ![p] = "record"]
    /\ UNCHANGED <<wal, table, recorded, step, crashes>>
    /\ txn' = File'
CountAny(p) ==
    /\ pc[p] = "count"
    /\ IF step[p] <= Last /\ recorded = {}
       THEN pc' = [pc EXCEPT ![p] = "body"] /\ UNCHANGED step
       ELSE IF step[p] <= Last
            THEN step' = [step EXCEPT ![p] = @ + 1] /\ UNCHANGED pc
            ELSE pc' = [pc EXCEPT ![p] = "ready"] /\ UNCHANGED step
    /\ UNCHANGED <<fileVars, lock, txn, crashes>>

-----------------------------------------------------------------------------
(* The process *)

Goto(p, s) == pc' = [pc EXCEPT ![p] = s]

\* The process is gone; what it had not committed is rolled back.
Leave(p) ==
    /\ Goto(p, "down")
    /\ lock' = IF lock = p THEN Free ELSE lock
    /\ txn' = IF lock = p THEN File ELSE txn
    /\ UNCHANGED <<fileVars, step>>

\* systemd starts the service again; an operator may give a command at any time.
Start(p) ==
    /\ pc[p] = "down"
    /\ Goto(p, "open")
    /\ step' = [step EXCEPT ![p] = 1]
    /\ UNCHANGED <<fileVars, lock, txn, crashes>>

\* Open sets the journal mode before the busy timeout: of the processes that come
\* to a new file together one switches it over and others may get SQLITE_BUSY.
Open(p) ==
    /\ pc[p] = "open"
    /\ wal' = TRUE
    /\ \E busy \in SUBSET {q \in Procs \ {p} : pc[q] = "open"} :
          /\ wal => busy = {}
          /\ pc' = [q \in Procs |->
                      IF q = p THEN "table" ELSE IF q \in busy THEN "down" ELSE pc[q]]
    /\ UNCHANGED <<table, schema, recorded, scope, step, lock, txn, crashes>>

\* CREATE TABLE IF NOT EXISTS schema_migrations: a write the first time only.
CreateTable(p) ==
    /\ pc[p] = "table"
    /\ table \/ lock = Free
    /\ table' = TRUE
    /\ Goto(p, "count")
    /\ UNCHANGED <<wal, schema, recorded, scope, step, lock, txn, crashes>>

\* Migrate: SELECT COUNT(*) for each version in turn.
Count(p) ==
    /\ pc[p] = "count"
    /\ IF step[p] > Last
       THEN Goto(p, "ready") /\ UNCHANGED step
       ELSE IF step[p] \in recorded
            THEN step' = [step EXCEPT ![p] = @ + 1] /\ UNCHANGED pc
            ELSE Goto(p, "body") /\ UNCHANGED step
    /\ UNCHANGED <<fileVars, lock, txn, crashes>>

\* 0002 makes the keys it finds administrators.
Promote(old) == [k \in Keys |-> IF old[k] = "" THEN "admin" ELSE old[k]]

\* The body: its first statement takes the write lock.
Body(p) ==
    /\ pc[p] = "body"
    /\ lock = Free
    /\ step[p] \notin schema
    /\ lock' = p
    /\ txn' = [File EXCEPT
                  !.schema = @ \cup {step[p]},
                  !.scope = IF step[p] = Scoped THEN Promote(@) ELSE @]
    /\ Goto(p, "record")
    /\ UNCHANGED <<fileVars, step, crashes>>

\* The table or the column is there already, or the wait for the lock is over.
BodyFails(p) ==
    /\ pc[p] = "body"
    /\ lock # Free \/ step[p] \in schema
    /\ Leave(p)
    /\ UNCHANGED crashes

Record(p) ==
    /\ pc[p] = "record"
    /\ txn' = [txn EXCEPT !.recorded = @ \cup {step[p]}]
    /\ Goto(p, "commit")
    /\ UNCHANGED <<fileVars, step, lock, crashes>>

Commit(p) ==
    /\ pc[p] = "commit"
    /\ schema' = txn.schema
    /\ recorded' = txn.recorded
    /\ scope' = txn.scope
    /\ lock' = Free
    /\ Goto(p, "count")
    /\ UNCHANGED <<wal, table, step, crashes>>
    /\ txn' = File'

-----------------------------------------------------------------------------
(* The work *)

\* PutAPIKey, for -put-key.
PutKey(p, k) ==
    /\ pc[p] = "ready"
    /\ p # Server
    /\ lock = Free
    /\ scope' = [scope EXCEPT ![k] = "admin"]
    /\ Goto(p, "down")
    /\ UNCHANGED <<wal, table, schema, recorded, step, lock, crashes>>
    /\ txn' = File'

\* RegisterDevice, behind POST /v1/keys of the service.
RegisterKey(k) ==
    /\ pc[Server] = "ready"
    /\ lock = Free
    /\ scope[k] = "absent"
    /\ scope' = [scope EXCEPT ![k] = "writer"]
    /\ UNCHANGED <<wal, table, schema, recorded, pc, step, lock, crashes>>
    /\ txn' = File'

\* A command that changes none of this.
Exit(p) ==
    /\ pc[p] = "ready"
    /\ Leave(p)
    /\ UNCHANGED crashes

\* The process dies, or a signal cancels the context and with it the transaction.
Crash(p) ==
    /\ pc[p] # "down"
    /\ crashes < MaxCrashes
    /\ crashes' = crashes + 1
    /\ Leave(p)

-----------------------------------------------------------------------------

Progress(p) == Open(p) \/ CreateTable(p) \/ Count(p) \/ Body(p) \/ BodyFails(p)
                  \/ Record(p) \/ Commit(p)

Next ==
    \/ \E p \in Procs : Start(p) \/ Progress(p) \/ Crash(p)
    \/ \E p \in Procs \ {Server} : Exit(p) \/ \E k \in Keys : PutKey(p, k)
    \/ \E k \in Keys : RegisterKey(k)

Spec == Init /\ [][Next]_vars

\* Processes that are running run on, and systemd restarts the service.
FairSpec ==
    /\ Spec
    /\ WF_vars(Start(Server))
    /\ \A p \in Procs : WF_vars(Progress(p))

-----------------------------------------------------------------------------
(* Properties *)

\* What the file holds is what it says it holds, at every moment another process
\* may open it: the migrations carried out are those recorded, from the first on
\* without a gap, whoever applied them and whoever died doing so.
SchemaIsRecorded == \E n \in 0 .. Last : schema = 1 .. n /\ recorded = 1 .. n

\* A process is inside a migration just when it holds the write lock, and what it
\* has not committed is what the file holds and that migration, no other's work.
Uncommitted(p) ==
    /\ step[p] \in Versions \ schema
    /\ txn.schema = schema \cup {step[p]}
    /\ txn.recorded = IF pc[p] = "commit" THEN recorded \cup {step[p]} ELSE recorded
    /\ txn.scope = IF step[p] = Scoped THEN Promote(scope) ELSE scope
TxnInv ==
    \A p \in Procs :
       /\ pc[p] \in {"record", "commit"} <=> lock = p
       /\ lock = p => Uncommitted(p)

\* A process has every version below its own; at the end of the loop, all of them.
LoopInv ==
    \A p \in Procs :
       /\ pc[p] \notin {"down", "ready"} => 1 .. step[p] - 1 \subseteq recorded
       /\ pc[p] = "body" => step[p] <= Last
       /\ pc[p] = "ready" => recorded = Versions

\* However the starts, failures and deaths of processes interleave, the file is
\* whole and each process knows what it has.
StartInv == TypeOK /\ SchemaIsRecorded /\ TxnInv /\ LoopInv

\* No process works on a file that lacks a migration.
ServesMigrated == \A p \in Procs : pc[p] = "ready" => schema = Versions

\* Upgrading takes nothing away from a key: one that came from an operator, before
\* or after the column, is an administrator's for good.
NeverDemoted ==
    [][\A k \in Keys : scope[k] \in {"", "admin"} => scope'[k] \in {scope[k], "admin"}]_vars

\* No order of starts, failures and deaths leaves a file that the service cannot
\* come up on.
EventuallyServes == []<>(pc[Server] = "ready")
=============================================================================
