---------------------------- MODULE StartupProofs ----------------------------
(***************************************************************************)
(* Proofs about Startup, for any number of processes, keys, migrations and *)
(* crashes: StartInv is inductive; from it, that a process works only on a *)
(* complete schema and that an operator's key is never demoted.            *)
(***************************************************************************)
EXTENDS Startup, TLAPS

-----------------------------------------------------------------------------
(* The invariant's parts, for the process that steps *)

LEMMA PromoteType ==
    ASSUME NEW old \in [Keys -> Scopes]
    PROVE  Promote(old) \in [Keys -> Scopes]
BY DEF Promote, Scopes

\* Below the version a process is at, everything is recorded: the versions carried
\* out end just before it or behind it.
LEMMA NextVersion ==
    ASSUME SchemaIsRecorded, NEW n \in Versions, n \notin schema, 1 .. n - 1 \subseteq recorded
    PROVE  schema \cup {n} = 1 .. n /\ recorded \cup {n} = 1 .. n
<1>1. PICK m \in 0 .. Last : schema = 1 .. m /\ recorded = 1 .. m
  BY DEF SchemaIsRecorded
<1>2. m < n
  BY <1>1, StartupAssumption DEF Versions
<1>3. n - 1 <= m
  <2>1. CASE n = 1
    BY <2>1, <1>1
  <2>2. CASE n > 1
    <3>1. n - 1 \in 1 .. n - 1
      BY <2>2, StartupAssumption DEF Versions
    <3> QED BY <3>1, <1>1, StartupAssumption DEF Versions
  <2> QED BY <2>1, <2>2, StartupAssumption DEF Versions
<1>4. m = n - 1
  BY <1>2, <1>3, StartupAssumption DEF Versions
<1>5. 1 .. m \cup {n} = 1 .. n
  BY <1>4, StartupAssumption DEF Versions
<1> QED BY <1>1, <1>5

\* A step that leaves the file, the lock and the transaction alone and moves one
\* process keeps the invariant if the process is right where it arrives.
LEMMA Moves ==
    ASSUME StartInv, NEW p \in Procs, NEW s \in States, NEW n \in 1 .. Last + 1,
           pc' = [pc EXCEPT ![p] = s],
           step' = [step EXCEPT ![p] = n],
           UNCHANGED <<wal, table, schema, recorded, scope, lock, txn>>,
           crashes' \in 0 .. MaxCrashes,
           pc[p] \notin {"record", "commit"},
           s \notin {"record", "commit"},
           s \notin {"down", "ready"} => 1 .. n - 1 \subseteq recorded,
           s = "body" => n <= Last,
           s = "ready" => recorded = Versions
    PROVE  StartInv'
<1> USE DEF StartInv
<1>1. TypeOK'
  BY DEF TypeOK, File, Contents
<1>2. SchemaIsRecorded'
  BY DEF SchemaIsRecorded
<1>3. TxnInv'
  <2> SUFFICES ASSUME NEW q \in Procs
               PROVE  /\ pc'[q] \in {"record", "commit"} <=> lock' = q
                      /\ lock' = q => Uncommitted(q)'
    BY DEF TxnInv
  <2>1. CASE q = p
    BY <2>1 DEF TxnInv, TypeOK
  <2>2. CASE q # p
    BY <2>2 DEF TxnInv, TypeOK, Uncommitted, Versions, Promote
  <2> QED BY <2>1, <2>2
<1>4. LoopInv'
  <2> SUFFICES ASSUME NEW q \in Procs
               PROVE  /\ pc'[q] \notin {"down", "ready"} =>
                            1 .. step'[q] - 1 \subseteq recorded'
                      /\ pc'[q] = "body" => step'[q] <= Last
                      /\ pc'[q] = "ready" => recorded' = Versions
    BY DEF LoopInv, Versions
  <2>1. CASE q = p
    BY <2>1 DEF TypeOK
  <2>2. CASE q # p
    BY <2>2 DEF LoopInv, TypeOK
  <2> QED BY <2>1, <2>2
<1> QED BY <1>1, <1>2, <1>3, <1>4

\* A process that goes, for whatever reason, takes its transaction with it.
LEMMA Leaves ==
    ASSUME StartInv, NEW p \in Procs, Leave(p), crashes' \in 0 .. MaxCrashes
    PROVE  StartInv'
<1> USE DEF StartInv, Leave, Goto, fileVars
<1>1. TypeOK'
  BY DEF TypeOK, File, Contents, States
<1>2. SchemaIsRecorded'
  BY DEF SchemaIsRecorded
<1>3. TxnInv'
  <2> SUFFICES ASSUME NEW q \in Procs
               PROVE  /\ pc'[q] \in {"record", "commit"} <=> lock' = q
                      /\ lock' = q => Uncommitted(q)'
    BY DEF TxnInv
  <2>1. CASE q = p
    BY <2>1, StartupAssumption DEF TxnInv, TypeOK
  <2>2. CASE q # p
    <3>1. pc'[q] = pc[q] /\ (lock' = q <=> lock = q)
      BY <2>2, StartupAssumption DEF TypeOK
    <3>2. lock' = q => txn' = txn /\ lock = q
      BY <2>2, <3>1
    <3>3. Uncommitted(q) /\ txn' = txn => Uncommitted(q)'
      BY <3>1 DEF Uncommitted, Versions, Promote
    <3> QED BY <3>1, <3>2, <3>3 DEF TxnInv
  <2> QED BY <2>1, <2>2
<1>4. LoopInv'
  BY DEF LoopInv, TypeOK, Versions
<1> QED BY <1>1, <1>2, <1>3, <1>4

\* With nobody inside a migration, a write of scopes disturbs nothing but them.
LEMMA ScopesWritten ==
    ASSUME StartInv, lock = Free, scope' \in [Keys -> Scopes],
           NEW p \in Procs, pc' = pc \/ pc' = [pc EXCEPT ![p] = "down"],
           UNCHANGED <<wal, table, schema, recorded, step, lock, crashes>>,
           txn' = File'
    PROVE  StartInv'
<1> USE DEF StartInv
<1>1. TypeOK'
  BY DEF TypeOK, File, Contents, States
<1>2. SchemaIsRecorded'
  BY DEF SchemaIsRecorded
<1>3. TxnInv'
  BY StartupAssumption DEF TxnInv, TypeOK
<1>4. LoopInv'
  BY DEF LoopInv, TypeOK, Versions
<1> QED BY <1>1, <1>2, <1>3, <1>4

-----------------------------------------------------------------------------
(* Initially, and step by step *)

LEMMA StartInit == Init => StartInv
<1> SUFFICES ASSUME Init PROVE StartInv
  OBVIOUS
<1>1. PICK v \in 0 .. Scoped - 1 :
          /\ schema = 1 .. v
          /\ recorded = 1 .. v
          /\ table = (v > 0)
          /\ wal = (v > 0)
          /\ scope \in [Keys -> IF v > 0 THEN {"absent", ""} ELSE {"absent"}]
  BY Zenon DEF Init
<1>2. /\ pc = [p \in Procs |-> "down"]
      /\ step = [p \in Procs |-> 1]
      /\ lock = Free
      /\ txn = File
      /\ crashes = 0
  BY Zenon DEF Init
<1>3. v \in 0 .. Scoped - 1
  BY Zenon, <1>1
<1>4. v \in 0 .. Last
  BY <1>3, StartupAssumption
<1>5. scope \in [Keys -> Scopes]
  <2>1. scope \in [Keys -> {"absent", ""}] \/ scope \in [Keys -> {"absent"}]
    BY Zenon, <1>1
  <2> QED BY <2>1 DEF Scopes
<1>6. TypeOK
  <2>1. File \in Contents
    <3>1. 1 .. v \subseteq Versions
      BY <1>4, StartupAssumption DEF Versions
    <3>2. schema \in SUBSET Versions /\ recorded \in SUBSET Versions
      BY Zenon, <1>1, <3>1
    <3> QED BY <1>5, <3>2 DEF File, Contents
  <2>2. {wal, table} \subseteq BOOLEAN
    <3>1. CASE v > 0
      <4>1. wal = TRUE /\ table = TRUE
        BY Zenon, <1>1, <3>1
      <4> QED BY <4>1
    <3>2. CASE ~(v > 0)
      <4>1. (v > 0) = FALSE
        BY SMT, <3>2
      <4>2. wal = FALSE /\ table = FALSE
        BY Zenon, <1>1, <4>1
      <4> QED BY <4>2
    <3> QED BY <3>1, <3>2
  <2>3. pc \in [Procs -> States] /\ step \in [Procs -> 1 .. Last + 1]
    BY <1>2, StartupAssumption DEF States
  <2>4. crashes \in 0 .. MaxCrashes
    BY <1>2, StartupAssumption
  <2> QED BY Zenon, <1>2, <2>1, <2>2, <2>3, <2>4 DEF TypeOK
<1>7. SchemaIsRecorded
  BY Zenon, <1>1, <1>4 DEF SchemaIsRecorded
<1>8. TxnInv
  BY <1>2, StartupAssumption DEF TxnInv
<1>9. LoopInv
  BY <1>2 DEF LoopInv
<1> QED BY <1>6, <1>7, <1>8, <1>9 DEF StartInv

LEMMA OpenStep ==
    ASSUME StartInv, NEW p \in Procs, Open(p)
    PROVE  StartInv'
<1>1. PICK busy \in SUBSET {q \in Procs \ {p} : pc[q] = "open"} :
          pc' = [q \in Procs |->
                   IF q = p THEN "table" ELSE IF q \in busy THEN "down" ELSE pc[q]]
  BY Zenon DEF Open
<1>2. /\ pc[p] = "open" /\ wal' = TRUE
      /\ UNCHANGED <<table, schema, recorded, scope, step, lock, txn, crashes>>
  BY Zenon DEF Open
<1>3. \A q \in Procs : pc'[q] = pc[q] \/ (pc[q] = "open" /\ pc'[q] \in {"table", "down"})
  <2> SUFFICES ASSUME NEW q \in Procs
               PROVE  pc'[q] = pc[q] \/ (pc[q] = "open" /\ pc'[q] \in {"table", "down"})
    OBVIOUS
  <2>1. pc'[q] = IF q = p THEN "table" ELSE IF q \in busy THEN "down" ELSE pc[q]
    BY Zenon, <1>1
  <2>2. q \in busy => pc[q] = "open"
    BY Zenon, <1>1
  <2>3. pc[p] = "open"
    BY Zenon, <1>2
  <2>4. CASE q = p
    BY <2>1, <2>3, <2>4
  <2>5. CASE q # p
    BY <2>1, <2>2, <2>5
  <2> QED BY <2>4, <2>5
<1> USE <1>2 DEF StartInv
<1>4. TypeOK'
  <2>1. pc' \in [Procs -> States]
    BY <1>1 DEF TypeOK, States
  <2> QED BY <2>1 DEF TypeOK, File, Contents
<1>5. SchemaIsRecorded'
  BY DEF SchemaIsRecorded
<1>6. TxnInv'
  <2> SUFFICES ASSUME NEW q \in Procs
               PROVE  /\ pc'[q] \in {"record", "commit"} <=> lock' = q
                      /\ lock' = q => Uncommitted(q)'
    BY DEF TxnInv
  <2>1. pc'[q] \in {"record", "commit"} <=> lock' = q
    BY <1>3 DEF TxnInv
  <2>2. lock' = q => Uncommitted(q)'
    BY <1>3 DEF TxnInv, Uncommitted, Versions, Promote
  <2> QED BY <2>1, <2>2
<1>7. LoopInv'
  BY <1>3 DEF LoopInv, Versions
<1> QED BY <1>4, <1>5, <1>6, <1>7

LEMMA CreateTableStep ==
    ASSUME StartInv, NEW p \in Procs, CreateTable(p)
    PROVE  StartInv'
<1> USE DEF StartInv, CreateTable, Goto
<1>1. TypeOK'
  BY DEF TypeOK, File, Contents, States
<1>2. SchemaIsRecorded'
  BY DEF SchemaIsRecorded
<1>3. TxnInv'
  <2> SUFFICES ASSUME NEW q \in Procs
               PROVE  /\ pc'[q] \in {"record", "commit"} <=> lock' = q
                      /\ lock' = q => Uncommitted(q)'
    BY DEF TxnInv
  <2> QED BY DEF TxnInv, TypeOK, Uncommitted, Versions, Promote
<1>4. LoopInv'
  BY DEF LoopInv, TypeOK, Versions
<1> QED BY <1>1, <1>2, <1>3, <1>4

LEMMA CountStep ==
    ASSUME StartInv, NEW p \in Procs, Count(p)
    PROVE  StartInv'
<1> USE DEF Count, Goto, fileVars
<1>1. /\ pc[p] = "count"
      /\ pc \in [Procs -> States] /\ step \in [Procs -> 1 .. Last + 1]
      /\ step[p] \in 1 .. Last + 1 /\ step = [step EXCEPT ![p] = step[p]]
      /\ crashes \in 0 .. MaxCrashes
      /\ 1 .. step[p] - 1 \subseteq recorded
  BY DEF StartInv, TypeOK, LoopInv
<1>2. UNCHANGED <<wal, table, schema, recorded, scope, lock, txn>> /\ crashes' = crashes
  OBVIOUS
<1>3. "ready" \in States /\ "count" \in States /\ "body" \in States
  BY DEF States
<1>4. CASE step[p] > Last
  <2>1. pc' = [pc EXCEPT ![p] = "ready"] /\ step' = [step EXCEPT ![p] = step[p]]
    BY <1>1, <1>4
  <2>2. recorded = Versions
    <3>1. recorded \subseteq Versions
      BY DEF StartInv, TypeOK, File, Contents
    <3>2. 1 .. step[p] - 1 = Versions
      BY <1>1, <1>4, StartupAssumption DEF Versions
    <3> QED BY <1>1, <3>1, <3>2
  <2> QED BY <1>1, <1>2, <1>3, <2>1, <2>2, Moves
<1>5. CASE step[p] <= Last /\ step[p] \in recorded
  <2>1. pc' = [pc EXCEPT ![p] = "count"] /\ step' = [step EXCEPT ![p] = step[p] + 1]
    BY <1>1, <1>5, StartupAssumption
  <2>2. step[p] + 1 \in 1 .. Last + 1
    BY <1>1, <1>5, StartupAssumption
  <2>3. 1 .. (step[p] + 1) - 1 \subseteq recorded
    <3>1. ASSUME NEW i \in 1 .. (step[p] + 1) - 1 PROVE i \in recorded
      <4>1. i = step[p] \/ i \in 1 .. step[p] - 1
        BY <1>1, StartupAssumption
      <4> QED BY <4>1, <1>1, <1>5
    <3> QED BY <3>1
  <2> QED BY <1>1, <1>2, <1>3, <2>1, <2>2, <2>3, Moves
<1>6. CASE step[p] <= Last /\ step[p] \notin recorded
  <2>1. pc' = [pc EXCEPT ![p] = "body"] /\ step' = [step EXCEPT ![p] = step[p]]
    BY <1>1, <1>6, StartupAssumption
  <2> QED BY <1>1, <1>2, <1>3, <1>6, <2>1, Moves
<1> QED BY <1>1, <1>4, <1>5, <1>6, StartupAssumption

LEMMA StartStep ==
    ASSUME StartInv, NEW p \in Procs, Start(p)
    PROVE  StartInv'
<1>1. /\ pc' = [pc EXCEPT ![p] = "open"] /\ step' = [step EXCEPT ![p] = 1]
      /\ UNCHANGED <<wal, table, schema, recorded, scope, lock, txn>> /\ crashes' = crashes
      /\ pc[p] = "down"
  BY DEF Start, Goto, fileVars
<1>2. crashes' \in 0 .. MaxCrashes
  BY <1>1 DEF StartInv, TypeOK
<1>3. 1 \in 1 .. Last + 1 /\ 1 .. 1 - 1 \subseteq recorded
  BY StartupAssumption
<1>4. "open" \in States
  BY DEF States
<1> QED BY <1>1, <1>2, <1>3, <1>4, Moves

\* The lock is free: nobody else is inside a migration.
LEMMA BodyStep ==
    ASSUME StartInv, NEW p \in Procs, Body(p)
    PROVE  StartInv'
<1>1. /\ pc[p] = "body" /\ lock = Free /\ lock' = p
      /\ pc' = [pc EXCEPT ![p] = "record"]
      /\ UNCHANGED <<wal, table, schema, recorded, scope, step, crashes>>
  BY DEF Body, Goto, fileVars
<1>2. step[p] \in Versions \ schema
  BY StartupAssumption DEF StartInv, Body, TypeOK, LoopInv, Versions
<1>3. txn' = [schema |-> schema \cup {step[p]}, recorded |-> recorded,
              scope |-> IF step[p] = Scoped THEN Promote(scope) ELSE scope]
  BY DEF Body, File
<1>4. TypeOK'
  <2>1. scope \in [Keys -> Scopes] /\ Promote(scope) \in [Keys -> Scopes]
    BY PromoteType DEF StartInv, TypeOK, File, Contents
  <2>2. schema \cup {step[p]} \in SUBSET Versions /\ recorded \in SUBSET Versions
    BY <1>2 DEF StartInv, TypeOK, File, Contents
  <2>3. txn' \in Contents
    BY <1>3, <2>1, <2>2 DEF Contents
  <2> QED BY <1>1, <2>3 DEF StartInv, TypeOK, File, Contents, States
<1>5. SchemaIsRecorded'
  BY <1>1 DEF StartInv, SchemaIsRecorded
<1>6. TxnInv'
  <2> SUFFICES ASSUME NEW q \in Procs
               PROVE  /\ pc'[q] \in {"record", "commit"} <=> lock' = q
                      /\ lock' = q => Uncommitted(q)'
    BY DEF TxnInv
  <2>1. CASE q = p
    <3>1. pc'[p] = "record"
      BY <1>1 DEF StartInv, TypeOK
    <3>2. Uncommitted(p)'
      BY <1>1, <1>2, <1>3, <3>1 DEF Uncommitted, Versions, Promote
    <3> QED BY <1>1, <2>1, <3>1, <3>2
  <2>2. CASE q # p
    BY <1>1, <2>2, StartupAssumption DEF StartInv, TxnInv, TypeOK
  <2> QED BY <2>1, <2>2
<1>7. LoopInv'
  BY <1>1 DEF StartInv, LoopInv, TypeOK, Versions
<1> QED BY <1>4, <1>5, <1>6, <1>7 DEF StartInv

LEMMA RecordStep ==
    ASSUME StartInv, NEW p \in Procs, Record(p)
    PROVE  StartInv'
<1> USE DEF StartInv, Record, Goto, fileVars
<1>1. lock = p /\ Uncommitted(p)
  BY DEF TxnInv
<1>2. txn' = [schema |-> txn.schema, recorded |-> recorded \cup {step[p]}, scope |-> txn.scope]
  BY <1>1 DEF Uncommitted, TypeOK, Contents
<1>3. TypeOK'
  <2>1. txn' \in Contents
    BY <1>1, <1>2 DEF TypeOK, File, Contents, Uncommitted
  <2> QED BY <2>1 DEF TypeOK, File, Contents, States
<1>4. SchemaIsRecorded'
  BY DEF SchemaIsRecorded
<1>5. TxnInv'
  <2> SUFFICES ASSUME NEW q \in Procs
               PROVE  /\ pc'[q] \in {"record", "commit"} <=> lock' = q
                      /\ lock' = q => Uncommitted(q)'
    BY DEF TxnInv
  <2>1. CASE q = p
    <3>1. pc'[p] = "commit" /\ lock' = p
      BY <1>1 DEF TypeOK
    <3>2. Uncommitted(p)'
      BY <1>1, <1>2, <3>1 DEF Uncommitted, Versions, Promote
    <3> QED BY <2>1, <3>1, <3>2
  <2>2. CASE q # p
    BY <1>1, <2>2, StartupAssumption DEF TxnInv, TypeOK
  <2> QED BY <2>1, <2>2
<1>6. LoopInv'
  BY DEF LoopInv, TypeOK, Versions
<1> QED BY <1>3, <1>4, <1>5, <1>6

LEMMA CommitStep ==
    ASSUME StartInv, NEW p \in Procs, Commit(p)
    PROVE  StartInv'
<1> USE DEF StartInv, Commit, Goto, fileVars
<1>1. lock = p /\ Uncommitted(p)
  BY DEF TxnInv
<1>2. schema' = schema \cup {step[p]} /\ recorded' = recorded \cup {step[p]}
  BY <1>1 DEF Uncommitted
<1>3. TypeOK'
  <2>1. File' \in Contents
    BY DEF TypeOK, File, Contents
  <2> QED BY <2>1 DEF TypeOK, States
<1>4. SchemaIsRecorded'
  <2>1. schema' = 1 .. step[p] /\ recorded' = 1 .. step[p]
    BY <1>1, <1>2, NextVersion DEF LoopInv, Uncommitted
  <2> QED BY <1>1, <2>1, StartupAssumption DEF SchemaIsRecorded, Uncommitted, Versions
<1>5. TxnInv'
  BY <1>1, StartupAssumption DEF TxnInv, TypeOK
<1>6. LoopInv'
  <2>1. recorded \subseteq recorded' /\ recorded' \subseteq Versions
    BY <1>2, <1>3 DEF TypeOK, File, Contents
  <2> QED BY <2>1 DEF LoopInv, TypeOK, Versions
<1> QED BY <1>3, <1>4, <1>5, <1>6

LEMMA StartInvNext == StartInv /\ [Next]_vars => StartInv'
<1> SUFFICES ASSUME StartInv, [Next]_vars PROVE StartInv'
  OBVIOUS
<1>0. scope \in [Keys -> Scopes] /\ crashes \in 0 .. MaxCrashes
  BY DEF StartInv, TypeOK, File, Contents
<1>1. ASSUME NEW p \in Procs, Progress(p) PROVE StartInv'
  <2>1. BodyFails(p) => Leave(p) /\ crashes' \in 0 .. MaxCrashes
    BY <1>0 DEF BodyFails
  <2> QED BY <1>1, <2>1, OpenStep, CreateTableStep, CountStep, BodyStep, Leaves,
             RecordStep, CommitStep DEF Progress
<1>2. ASSUME NEW p \in Procs, Crash(p) PROVE StartInv'
  BY <1>0, <1>2, Leaves, StartupAssumption DEF Crash
<1>3. ASSUME NEW p \in Procs, Exit(p) PROVE StartInv'
  BY <1>0, <1>3, Leaves DEF Exit
<1>4. ASSUME NEW p \in Procs, NEW k \in Keys, PutKey(p, k) PROVE StartInv'
  <2>1. scope' \in [Keys -> Scopes]
    BY <1>0, <1>4 DEF PutKey, Scopes
  <2> QED BY <1>4, <2>1, ScopesWritten DEF PutKey, Goto
<1>5. ASSUME NEW k \in Keys, RegisterKey(k) PROVE StartInv'
  <2>1. scope' \in [Keys -> Scopes]
    BY <1>0, <1>5 DEF RegisterKey, Scopes
  <2> QED BY <1>5, <2>1, ScopesWritten, StartupAssumption DEF RegisterKey
<1>6. CASE UNCHANGED vars
  <2> USE <1>6 DEF vars, fileVars, StartInv
  <2>1. TypeOK'
    BY DEF TypeOK, File, Contents
  <2>2. SchemaIsRecorded'
    BY DEF SchemaIsRecorded
  <2>3. TxnInv'
    BY DEF TxnInv, Uncommitted, Versions, Promote
  <2>4. LoopInv'
    BY DEF LoopInv, Versions
  <2> QED BY <2>1, <2>2, <2>3, <2>4
<1> QED BY <1>1, <1>2, <1>3, <1>4, <1>5, <1>6, StartStep DEF Next

\* The file is whole and every process knows what it has, however many processes
\* start, fail and die on it (Migrate, applyMigration).
THEOREM StartInvariant == Spec => []StartInv
BY StartInit, StartInvNext, PTL DEF Spec

-----------------------------------------------------------------------------
(* What rests on it *)

\* No process works on a file that lacks a migration: the service and every
\* command come after Migrate.
THEOREM WorkNeedsTheSchema == Spec => []ServesMigrated
<1>1. StartInv => ServesMigrated
  BY DEF StartInv, LoopInv, SchemaIsRecorded, ServesMigrated
<1> QED BY <1>1, StartInvariant, PTL

\* An operator's key of before the scope column is an administrator's after the
\* migration, and no start, command or registration takes that away.
THEOREM KeysStayAdmin == Spec => NeverDemoted
<1> DEFINE Kept == \A k \in Keys : scope[k] \in {"", "admin"} => scope'[k] \in {scope[k], "admin"}
<1>1. StartInv /\ [Next]_vars => Kept
  <2> SUFFICES ASSUME StartInv, Next, NEW k \in Keys, scope[k] \in {"", "admin"}
               PROVE  scope'[k] \in {scope[k], "admin"}
    BY DEF vars, fileVars
  <2>0. scope \in [Keys -> Scopes]
    BY DEF StartInv, TypeOK, File, Contents
  <2>1. ASSUME NEW p \in Procs, Commit(p) PROVE scope'[k] \in {scope[k], "admin"}
    <3>1. Uncommitted(p)
      BY <2>1 DEF Commit, StartInv, TxnInv
    <3> QED BY <2>0, <2>1, <3>1 DEF Commit, Uncommitted, Promote
  <2>2. ASSUME NEW p \in Procs, NEW j \in Keys, PutKey(p, j)
        PROVE  scope'[k] \in {scope[k], "admin"}
    BY <2>0, <2>2 DEF PutKey
  <2>3. ASSUME NEW j \in Keys, RegisterKey(j) PROVE scope'[k] \in {scope[k], "admin"}
    BY <2>0, <2>3 DEF RegisterKey
  <2>4. ASSUME NEW p \in Procs, Progress(p), ~Commit(p) PROVE scope' = scope
    BY <2>4 DEF Progress, Open, CreateTable, Count, Body, BodyFails, Leave, Record, fileVars
  <2>5. ASSUME NEW p \in Procs, Start(p) \/ Crash(p) \/ Exit(p) PROVE scope' = scope
    BY <2>5 DEF Start, Crash, Exit, Leave, fileVars
  <2> QED BY <2>1, <2>2, <2>3, <2>4, <2>5 DEF Next
<1> QED BY <1>1, StartInvariant, PTL DEF Spec, NeverDemoted
=============================================================================
