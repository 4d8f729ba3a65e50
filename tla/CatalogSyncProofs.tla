-------------------------- MODULE CatalogSyncProofs --------------------------
(***************************************************************************)
(* Proofs about incremental synchronisation, for any number of prompts,    *)
(* clients and concurrent requests, any page size, and any delay StampLag. *)
(*                                                                         *)
(*   SyncImplementsCatalog  the composition only takes Catalog's steps     *)
(*   SyncTypes              the type invariant, in every environment       *)
(*   NothingLost            Covered, in the quiet environment below        *)
(*   OnlyPublicVersions     CachedWasPublic, in every environment          *)
(*   SyncKeepsPromise       Replica is implemented, in the quiet one       *)
(*                                                                         *)
(* Covered is not inductive: SyncInv (defined with its parts in            *)
(* CatalogSync) adds what is on its way to the cache and what the pages    *)
(* still to come will bring.  It speaks of one client at a time, so a step *)
(* of the server or of another client needs only a frame lemma             *)
(* (KeepLocal, CreateLocal, ReviewLocal), and a step of the client itself  *)
(* a lemma per action.                                                     *)
(***************************************************************************)
EXTENDS CatalogSync, FiniteSetTheorems, TLAPS

-----------------------------------------------------------------------------
(* The server's tables (Catalog): CatInv is inductive.  Each action has a   *)
(* lemma of its own, cited for the steps the synchronisation shares.        *)

LEMMA ViewTypes ==
    ASSUME TypeOK
    PROVE  /\ Published \in Views
           /\ EmptyView \in Views
           /\ \A p \in Ids : row[p] \in Rows /\ row[p].updated \in Nat
           /\ \A p \in Ids : Public(p) => Exists(p) /\ row[p].version \in Nat \ {0}
           /\ clock \in Nat /\ MaxClock \in Nat
  BY BoundsAssumption DEF TypeOK, Published, Views, EmptyView, Rows, Absent, Public,
     Exists, PublicStatuses, Statuses

LEMMA CatInitInv == CatInit => CatInv
  <1> SUFFICES ASSUME CatInit PROVE CatInv
    OBVIOUS
  <1> USE DEF CatInit
  <1>1. TypeOK
    BY BoundsAssumption DEF TypeOK, Rows, Absent, IdleRequest, EmptyView, Views
  <1>2. SnapSound
    BY DEF SnapSound
  <1>3. RequestSound
    BY DEF RequestSound, IdleRequest
  <1>. QED
    BY <1>1, <1>2, <1>3 DEF CatInv

LEMMA TickInv == CatInv /\ Tick => CatInv'
  <1> SUFFICES ASSUME CatInv, Tick PROVE CatInv'
    OBVIOUS
  <1> USE DEF CatInv, Tick
  <1>1. TypeOK'
    <2>1. clock \in Nat /\ MaxClock \in Nat
      BY ViewTypes
    <2>2. clock' \in 0 .. MaxClock /\ 0 .. clock \subseteq 0 .. clock'
      BY <2>1
    <2>3. \A p \in Ids : row'[p].updated <= clock'
      BY <2>1, ViewTypes DEF TypeOK
    <2>4. snap' \subseteq [view: Views, at: 0 .. clock']
      BY <2>2 DEF TypeOK
    <2>5. req' \in [Requests -> [hashed: BOOLEAN, view: Views, began: 0 .. clock']]
      <3>1. [hashed: BOOLEAN, view: Views, began: 0 .. clock]
              \subseteq [hashed: BOOLEAN, view: Views, began: 0 .. clock']
        BY <2>2
      <3>. QED
        BY <3>1 DEF TypeOK
    <2>. QED
      BY <2>2, <2>3, <2>4, <2>5 DEF TypeOK
  <1>2. Published' = Published
    BY DEF Published, Public
  <1>3. SnapSound'
    BY <1>2 DEF SnapSound
  <1>4. RequestSound'
    BY <1>2 DEF RequestSound
  <1>. QED
    BY <1>1, <1>3, <1>4

LEMMA CreateInv ==
    ASSUME CatInv, NEW p \in Ids, CreatePendingPrompt(p)
    PROVE  CatInv' /\ Published' = Published
  <1> USE DEF CatInv, CreatePendingPrompt
  <1>1. PICK at \in WriteTimes :
            row' = [row EXCEPT ![p] = [status |-> "pending", version |-> 1,
                                       updated |-> at]]
    OBVIOUS
  <1>2. at \in Nat /\ at <= clock /\ at + CommitLag >= clock /\ clock \in Nat
    BY ViewTypes DEF WriteTimes
  <1>3. row \in [Ids -> Rows]
    BY DEF TypeOK
  <1>4. /\ row'[p] = [status |-> "pending", version |-> 1, updated |-> at]
        /\ \A q \in Ids \ {p} : row'[q] = row[q]
    BY <1>1, <1>3
  <1>5. row' \in [Ids -> Rows]
    BY <1>1, <1>2, <1>3 DEF Rows, Statuses, PublicStatuses
  <1>6. TypeOK'
    BY <1>2, <1>4, <1>5 DEF TypeOK
  <1>7. \A q \in Ids : Public(q)' = Public(q) /\ (Public(q) => row'[q] = row[q])
    BY <1>4 DEF Public, Exists, PublicStatuses
  <1>8. Published' = Published
    BY <1>7 DEF Published
  <1>9. SnapSound'
    <2> SUFFICES ASSUME NEW s \in snap, NEW q \in Ids,
                        row'[q].updated + CommitLag + StampLag < s.at
                 PROVE  Published[q] = s.view[q]
      BY <1>8 DEF SnapSound
    <2>1. s.at \in Nat /\ s.at <= clock
      BY <1>2 DEF TypeOK
    <2>2. q # p
      BY <2>1, <1>2, <1>4, BoundsAssumption
    <2>. QED
      BY <2>2, <1>4 DEF SnapSound
  <1>10. RequestSound'
    <2> SUFFICES ASSUME NEW r \in Requests, NEW q \in Ids, req[r].hashed,
                        row'[q].updated + CommitLag < req[r].began
                 PROVE  Published[q] = req[r].view[q]
      BY <1>8 DEF RequestSound
    <2>1. req[r].began \in Nat /\ req[r].began <= clock
      BY <1>2 DEF TypeOK
    <2>2. q # p
      BY <2>1, <1>2, <1>4, BoundsAssumption
    <2>. QED
      BY <2>2, <1>4 DEF RequestSound
  <1>. QED
    BY <1>6, <1>8, <1>9, <1>10

LEMMA SetStatusStep ==
    ASSUME TypeOK, NEW p \in Ids, NEW st \in Outcomes, SetStatus(p, st)
    PROVE  /\ \E at \in WriteTimes :
                row'[p] = [status |-> st, version |-> row[p].version + 1,
                           updated |-> at]
           /\ \A q \in Ids \ {p} : row'[q] = row[q] /\ Published'[q] = Published[q]
           /\ TypeOK'
  <1> USE DEF SetStatus
  <1>1. PICK at \in WriteTimes : UpdateStatus(p, st, at)
    OBVIOUS
  <1>2. at \in Nat /\ at <= clock /\ clock \in Nat
    BY ViewTypes DEF WriteTimes
  <1>3. row \in [Ids -> Rows] /\ row[p] \in Rows /\ row[p].version \in Nat
    BY DEF TypeOK, Rows, Absent
  <1>4. /\ row'[p] = [status |-> st, version |-> row[p].version + 1, updated |-> at]
        /\ \A q \in Ids \ {p} : row'[q] = row[q]
        /\ row' \in [Ids -> Rows]
    BY <1>1, <1>2, <1>3, OutcomesAssumption DEF UpdateStatus, Rows
  <1>5. \A q \in Ids \ {p} : Published'[q] = Published[q]
    BY <1>4 DEF Published, Public
  <1>6. shown' \in [Ids -> SUBSET Nat]
    BY <1>3 DEF TypeOK
  <1>7. TypeOK'
    BY <1>2, <1>4, <1>6 DEF TypeOK
  <1>. QED
    BY <1>4, <1>5, <1>7

LEMMA SetStatusInv ==
    ASSUME CatInv, NEW p \in Ids, NEW st \in Outcomes, SetStatus(p, st)
    PROVE  CatInv'
  <1> USE DEF CatInv
  <1>1. PICK at \in WriteTimes :
            row'[p] = [status |-> st, version |-> row[p].version + 1, updated |-> at]
    BY SetStatusStep
  <1>2. \A q \in Ids \ {p} : row'[q] = row[q] /\ Published'[q] = Published[q]
    BY SetStatusStep
  <1>3. TypeOK' /\ snap' = snap /\ req' = req
    BY SetStatusStep DEF SetStatus
  <1>4. at \in Nat /\ at + CommitLag >= clock /\ clock \in Nat
    BY ViewTypes DEF WriteTimes
  <1>5. SnapSound'
    <2> SUFFICES ASSUME NEW s \in snap, NEW q \in Ids,
                        row'[q].updated + CommitLag + StampLag < s.at
                 PROVE  Published'[q] = s.view[q]
      BY <1>3 DEF SnapSound
    <2>1. s.at \in Nat /\ s.at <= clock
      BY <1>4 DEF TypeOK
    <2>2. q # p
      BY <2>1, <1>1, <1>4, BoundsAssumption
    <2>. QED
      BY <2>2, <1>2 DEF SnapSound
  <1>6. RequestSound'
    <2> SUFFICES ASSUME NEW r \in Requests, NEW q \in Ids, req[r].hashed,
                        row'[q].updated + CommitLag < req[r].began
                 PROVE  Published'[q] = req[r].view[q]
      BY <1>3 DEF RequestSound
    <2>1. req[r].began \in Nat /\ req[r].began <= clock
      BY <1>4 DEF TypeOK
    <2>2. q # p
      BY <2>1, <1>1, <1>4, BoundsAssumption
    <2>. QED
      BY <2>2, <1>2 DEF RequestSound
  <1>. QED
    BY <1>3, <1>5, <1>6

LEMMA RefreshHashInv ==
    ASSUME CatInv, NEW r \in Requests, RefreshHash(r)
    PROVE  CatInv' /\ Published' = Published
  <1> USE DEF CatInv, RefreshHash
  <1>1. Published' = Published
    BY DEF Published, Public
  <1>2. TypeOK'
    BY ViewTypes DEF TypeOK
  <1>3. SnapSound'
    BY <1>1 DEF SnapSound
  <1>4. RequestSound'
    BY <1>1 DEF RequestSound, TypeOK
  <1>. QED
    BY <1>1, <1>2, <1>3, <1>4

LEMMA RefreshFailInv ==
    ASSUME CatInv, NEW r \in Requests, RefreshFail(r)
    PROVE  CatInv' /\ Published' = Published
  <1> USE DEF CatInv, RefreshFail
  <1>1. Published' = Published
    BY DEF Published, Public
  <1>2. TypeOK'
    BY ViewTypes DEF TypeOK, IdleRequest
  <1>3. SnapSound'
    BY <1>1 DEF SnapSound
  <1>4. RequestSound'
    BY <1>1 DEF RequestSound, TypeOK, IdleRequest
  <1>. QED
    BY <1>1, <1>2, <1>3, <1>4

LEMMA RefreshRecordInv ==
    ASSUME CatInv, NEW r \in Requests, RefreshRecord(r)
    PROVE  CatInv' /\ Published' = Published
  <1> USE DEF CatInv, RefreshRecord
  <1>1. PICK at \in req[r].began .. clock :
            at <= req[r].began + StampLag /\ RecordSnapshot(req[r].view, at)
    OBVIOUS
  <1>2. Published' = Published
    BY DEF Published, Public
  <1>3. /\ req[r].began \in Nat /\ req[r].began <= clock /\ req[r].view \in Views
        /\ at \in 0 .. clock /\ clock \in Nat
    BY <1>1, ViewTypes DEF TypeOK
  <1>4. \A s \in snap' : s \in snap \/ s = [view |-> req[r].view, at |-> at]
    BY <1>1 DEF RecordSnapshot
  <1>5. \A s, t \in snap' : s.view = t.view => s = t
    BY <1>1 DEF RecordSnapshot, TypeOK
  <1>6. TypeOK'
    BY <1>3, <1>4, <1>5, ViewTypes DEF TypeOK, IdleRequest
  <1>7. SnapSound'
    <2> SUFFICES ASSUME NEW s \in snap', NEW p \in Ids,
                        row[p].updated + CommitLag + StampLag < s.at
                 PROVE  Published[p] = s.view[p]
      BY <1>2 DEF SnapSound
    <2>1. CASE s \in snap
      BY <2>1 DEF SnapSound
    <2>2. CASE s = [view |-> req[r].view, at |-> at]
      <3>1. row[p].updated \in Nat
        BY ViewTypes
      <3>2. row[p].updated + CommitLag < req[r].began
        BY <2>2, <3>1, <1>1, <1>3, BoundsAssumption
      <3>. QED
        BY <2>2, <3>2 DEF RequestSound
    <2>. QED
      BY <1>4, <2>1, <2>2
  <1>8. RequestSound'
    BY <1>2 DEF RequestSound, TypeOK, IdleRequest
  <1>. QED
    BY <1>2, <1>6, <1>7, <1>8

LEMMA PruneInv ==
    ASSUME CatInv, PruneSnapshots
    PROVE  CatInv' /\ Published' = Published /\ snap' \subseteq snap
  <1> USE DEF CatInv, PruneSnapshots
  <1>1. Published' = Published
    BY DEF Published, Public
  <1>2. snap' \subseteq snap
    OBVIOUS
  <1>3. TypeOK'
    BY <1>2 DEF TypeOK
  <1>4. SnapSound' /\ RequestSound'
    BY <1>1, <1>2 DEF SnapSound, RequestSound
  <1>. QED
    BY <1>1, <1>2, <1>3, <1>4

LEMMA CatStepInv == CatInv /\ [CatNext]_catVars => CatInv'
  <1> SUFFICES ASSUME CatInv, [CatNext]_catVars PROVE CatInv'
    OBVIOUS
  <1>1. CASE Tick
    BY <1>1, TickInv
  <1>2. CASE \E p \in Ids : CreatePendingPrompt(p)
    BY <1>2, CreateInv
  <1>3. CASE \E p \in Ids, st \in Outcomes : SetStatus(p, st)
    BY <1>3, SetStatusInv
  <1>4. CASE \E r \in Requests : RefreshHash(r) \/ RefreshRecord(r) \/ RefreshFail(r)
    BY <1>4, RefreshHashInv, RefreshRecordInv, RefreshFailInv
  <1>5. CASE PruneSnapshots
    BY <1>5, PruneInv
  <1>6. CASE UNCHANGED catVars
    BY <1>6 DEF CatInv, TypeOK, SnapSound, RequestSound, Published, Public, catVars
  <1>. QED
    BY <1>1, <1>2, <1>3, <1>4, <1>5, <1>6 DEF CatNext

\* The invariant holds in every state: types, unique hashes, sound times.
THEOREM CatInvariant == CatSpec => []CatInv
  BY CatInitInv, CatStepInv, PTL DEF CatSpec

\* computed_at never claims too much, for any delays and any retention: a row
\* last written before the second recorded for a hash, with the margin of the
\* two delays, is as that hash describes it (Hash, Refresh, SetStatus).
THEOREM SnapshotsSound == CatSpec => []SnapSound
  <1>1. CatInv => SnapSound
    BY DEF CatInv
  <1>. QED
    BY CatInvariant, <1>1, PTL

\* The second recorded for a hash stays while the hash is kept: INSERT OR IGNORE
\* never moves it, and pruning only drops hashes.
THEOREM SnapshotTimesStay == CatSpec => SnapshotTimeFixed
  <1>1. ASSUME CatInv, [CatNext]_catVars
        PROVE  \A s \in snap, t \in snap' : s.view = t.view => s.at = t.at
    <2>1. \A s, t \in snap : s.view = t.view => s.at = t.at
      BY <1>1 DEF CatInv, TypeOK
    <2>2. CASE \E r \in Requests : RefreshRecord(r)
      <3>1. PICK r \in Requests : RefreshRecord(r)
        BY <2>2
      <3>2. PICK at \in Nat : RecordSnapshot(req[r].view, at)
        <4>1. PICK at \in req[r].began .. clock : RecordSnapshot(req[r].view, at)
          BY <3>1 DEF RefreshRecord
        <4>2. req[r].began \in Nat /\ clock \in Nat
          BY <1>1, ViewTypes DEF CatInv, TypeOK
        <4>. QED
          BY <4>1, <4>2
      <3>. QED
        BY <2>1, <3>2 DEF RecordSnapshot
    <2>3. CASE PruneSnapshots
      BY <1>1, <2>1, <2>3, PruneInv
    <2>4. CASE snap' = snap
      BY <2>1, <2>4
    <2>5. \/ \E r \in Requests : RefreshRecord(r)
          \/ PruneSnapshots
          \/ snap' = snap
      BY <1>1 DEF CatNext, Tick, CreatePendingPrompt, SetStatus, RefreshHash,
         RefreshFail, catVars
    <2>. QED
      BY <2>2, <2>3, <2>4, <2>5
  <1>2. CatInv /\ [CatNext]_catVars
        => [\A s \in snap, t \in snap' : s.view = t.view => s.at = t.at]_catVars
    BY <1>1
  <1>. QED
    BY CatInvariant, <1>2, PTL DEF CatSpec, SnapshotTimeFixed

-----------------------------------------------------------------------------
\* The environment under which nothing is lost: a write commits in the second
\* it was stamped with, snapshots outlive the run, and none of the four events
\* that the violation runs exhibit one by one.
Quiet ==
    /\ CommitLag = 0 /\ KeepSeconds >= MaxClock
    /\ ~BusyPaging /\ ~EarlyRows /\ ~Overlap /\ ~SplitPurge

-----------------------------------------------------------------------------
(* Every step of the composition is a step of Catalog, or leaves it alone *)

LEMMA StepIsCatStep == [Next]_vars => [CatNext]_catVars
  <1> SUFFICES ASSUME [Next]_vars PROVE [CatNext]_catVars
    OBVIOUS
  <1>1. CASE \E p \in Ids, st \in Outcomes : Review(p, st)
    BY <1>1 DEF Review, CatNext
  <1>2. CASE ServerAlone
    BY <1>2 DEF ServerAlone, CatNext
  <1>3. ASSUME NEW c \in Clients, SyncStep(c) PROVE [CatNext]_catVars
    BY <1>3, ClientsAssumption
    DEF SyncStep, StartSync, ServeHash, ServeRecord, ServePage, ServeDeleted,
        ApplyPage, StoreHash, CatNext
  <1>4. ASSUME NEW c \in Clients, Resend(c) \/ Interrupt(c) PROVE [CatNext]_catVars
    BY <1>4, ClientsAssumption DEF Resend, Interrupt, CatNext
  <1>5. ASSUME NEW c \in Clients, CacheStep(c) PROVE [CatNext]_catVars
    BY <1>5 DEF CacheStep, FetchRead, FetchApply, PurgeRows, PurgeKV
  <1>6. CASE UNCHANGED vars
    BY <1>6 DEF vars
  <1>. QED
    BY <1>1, <1>2, <1>3, <1>4, <1>5, <1>6 DEF Next

\* The server inside the composition behaves as Catalog alone does, so all that
\* is proved of CatSpec holds of Spec (SetStatus, Refresh, PruneSnapshots).
THEOREM SyncImplementsCatalog == Spec => CatSpec
  BY StepIsCatStep, PTL DEF Spec, Init, CatSpec

LEMMA CatInvInSync == Spec => []CatInv
  BY SyncImplementsCatalog, CatInvariant, PTL

-----------------------------------------------------------------------------
(* Types *)

LEMMA SinceTimeType ==
    ASSUME TypeOK
    PROVE  /\ \A v : SinceTime(v) \in Nat \cup {Unresolved}
           /\ \A v : SinceTime(v) <= clock
           /\ \A s \in snap : SinceTime(s.view) = s.at
           /\ SinceTime(NoHash) = Unresolved
           /\ \A v : SinceTime(v) # Unresolved => \E s \in snap : s.view = v
  <1>1. clock \in Nat /\ \A s \in snap : s.at \in Nat /\ s.at <= clock /\ s.view \in Views
    BY ViewTypes DEF TypeOK
  <1>2. ASSUME NEW v, NEW s \in snap, s.view = v PROVE SinceTime(v) = s.at
    <2>1. (CHOOSE t \in snap : t.view = v) = s
      BY <1>2 DEF TypeOK
    <2>. QED
      BY <1>2, <2>1 DEF SinceTime
  <1>3. ASSUME NEW v, ~ \E s \in snap : s.view = v PROVE SinceTime(v) = -1
    BY <1>3 DEF SinceTime, Unresolved
  <1>4. ~ \E s \in snap : s.view = NoHash
    BY <1>1, NoHashAssumption
  <1>. QED
    BY <1>1, <1>2, <1>3, <1>4 DEF Unresolved

LEMMA SyncInitTypes == Init => SyncTypeOK
  BY CatInitInv, ViewTypes, SyncAssumption DEF Init, CatInv, SyncTypeOK, Steps, Unresolved

LEMMA CacheOps ==
    /\ \A v, w \in Views : Overlay(v, w) \in Views
    /\ \A v \in Views, ids \in SUBSET Ids : Without(v, ids) \in Views
  BY DEF Overlay, Without, Views

LEMMA ResetTypes ==
    ASSUME SyncTypeOK, NEW c \in Clients, ResetRound(c)
    PROVE  /\ pc' \in [Clients -> Steps]
           /\ base' \in [Clients -> Views \cup {NoHash}]
           /\ next' \in [Clients -> Views]
           /\ offset' \in [Clients -> Nat]
           /\ floor' \in [Clients -> Nat \cup {Unresolved}]
           /\ changes' \in [Clients -> Views]
           /\ deleted' \in [Clients -> SUBSET Ids]
           /\ more' \in [Clients -> BOOLEAN]
  BY ViewTypes DEF SyncTypeOK, ResetRound, Steps

LEMMA SyncStepTypes ==
    ASSUME SyncTypeOK, TypeOK', NEW c \in Clients, SyncStep(c)
    PROVE  SyncTypeOK'
  <1> USE DEF SyncTypeOK
  <1>1. CASE StartSync(c)
    BY <1>1 DEF StartSync, Steps
  <1>2. CASE ServeHash(c)
    BY <1>2 DEF ServeHash, Steps
  <1>3. CASE ServeRecord(c)
    <2>1. req[c].view \in Views
      BY ClientsAssumption DEF TypeOK
    <2>. QED
      BY <1>3, <2>1 DEF ServeRecord, Steps
  <1>4. CASE ServePage(c)
    <2>1. SinceTime(base[c]) \in Nat \cup {Unresolved}
      BY SinceTimeType
    <2>2. [p \in Ids |-> IF OnPage(SinceTime(base[c]), offset[c], p)
                         THEN row[p].version ELSE 0] \in Views
      BY ViewTypes DEF Views, OnPage, InScope
    <2>3. HasMore(SinceTime(base[c]), offset[c]) \in BOOLEAN
      BY DEF HasMore
    <2>. QED
      BY <1>4, <2>1, <2>2, <2>3 DEF ServePage, Steps
  <1>5. CASE ServeDeleted(c)
    BY <1>5 DEF ServeDeleted, Steps, DeletedSince
  <1>6. CASE ApplyPage(c)
    <2>1. Without(Overlay(cache[c], changes[c]), deleted[c]) \in Views
      BY CacheOps
    <2>2. NextOffset(offset[c]) \in Nat
      BY SyncAssumption DEF NextOffset
    <2>. QED
      BY <1>6, <2>1, <2>2, ViewTypes DEF ApplyPage, Steps
  <1>7. CASE StoreHash(c)
    BY <1>7, ResetTypes DEF StoreHash
  <1>. QED
    BY <1>1, <1>2, <1>3, <1>4, <1>5, <1>6, <1>7 DEF SyncStep

LEMMA InterruptTypes ==
    ASSUME SyncTypeOK, TypeOK', NEW c \in Clients, Interrupt(c)
    PROVE  SyncTypeOK'
  <1> USE DEF SyncTypeOK
  <1>1. PICK written \in SUBSET Ids :
            cache' = [cache EXCEPT ![c] = Overlay(@, Without(changes[c], Ids \ written))]
    BY DEF Interrupt
  <1>2. Overlay(cache[c], Without(changes[c], Ids \ written)) \in Views
    BY CacheOps
  <1>3. interrupts' \in 0 .. MaxInterrupts
    BY SyncAssumption DEF Interrupt
  <1>. QED
    BY <1>1, <1>2, <1>3, ResetTypes DEF Interrupt

LEMMA ResendTypes ==
    ASSUME SyncTypeOK, TypeOK', NEW c \in Clients, Resend(c)
    PROVE  SyncTypeOK'
  <1>1. interrupts' \in 0 .. MaxInterrupts
    BY SyncAssumption DEF Resend, SyncTypeOK
  <1>. QED
    BY <1>1, ViewTypes DEF SyncTypeOK, Resend, Steps

LEMMA CacheStepTypes ==
    ASSUME SyncTypeOK, TypeOK', NEW c \in Clients, CacheStep(c)
    PROVE  SyncTypeOK'
  <1> USE DEF SyncTypeOK
  <1>1. ASSUME NEW p \in Ids, FetchRead(c, p) PROVE SyncTypeOK'
    <2>1. [EmptyView EXCEPT ![p] = row[p].version] \in Views
      BY <1>1, ViewTypes DEF FetchRead, Views
    <2>. QED
      BY <1>1, <2>1 DEF FetchRead, roundVars
  <1>2. CASE FetchApply(c)
    BY <1>2, CacheOps, ViewTypes DEF FetchApply, roundVars
  <1>3. CASE PurgeRows(c)
    BY <1>3, ViewTypes DEF PurgeRows, Steps
  <1>4. CASE PurgeKV(c)
    BY <1>4 DEF PurgeKV, Steps
  <1>. QED
    BY <1>1, <1>2, <1>3, <1>4 DEF CacheStep

LEMMA TypesStep == SyncTypeOK /\ TypeOK' /\ [Next]_vars => SyncTypeOK'
  <1> SUFFICES ASSUME SyncTypeOK, TypeOK', [Next]_vars PROVE SyncTypeOK'
    OBVIOUS
  <1>1. CASE UNCHANGED clientVars
    BY <1>1 DEF SyncTypeOK, clientVars, roundVars
  <1>2. ASSUME NEW c \in Clients,
               SyncStep(c) \/ Resend(c) \/ Interrupt(c) \/ CacheStep(c)
        PROVE  SyncTypeOK'
    BY <1>2, SyncStepTypes, ResendTypes, InterruptTypes, CacheStepTypes
  <1>. QED
    BY <1>1, <1>2 DEF Next, Review, ServerAlone, vars

\* Types of the composed system, whatever the environment does.
THEOREM SyncTypes == Spec => []SyncTypeOK
  <1>1. Init => SyncTypeOK
    BY SyncInitTypes
  <1>2. CatInv => TypeOK
    BY DEF CatInv
  <1>. QED
    BY <1>1, <1>2, TypesStep, CatInvInSync, PTL DEF Spec
-----------------------------------------------------------------------------
(* Times, pages, and the frame of a step *)

LocalInv(c) == CoveredAt(c) /\ RoundInv(c) /\ InFlightInv(c) /\ ProgressInv(c)

\* The step leaves client c alone.
Same(c) ==
    /\ cache'[c] = cache[c] /\ hash'[c] = hash[c] /\ pc'[c] = pc[c]
    /\ base'[c] = base[c] /\ next'[c] = next[c] /\ offset'[c] = offset[c]
    /\ floor'[c] = floor[c] /\ changes'[c] = changes[c]
    /\ deleted'[c] = deleted[c] /\ more'[c] = more[c] /\ fetch'[c] = fetch[c]

\* A hash once resolved keeps its time.
Lasting ==
    /\ \A v : SinceTime(v) # Unresolved => SinceTime(v)' = SinceTime(v)
    /\ SinceTime(NoHash)' = Unresolved

LEMMA SameSnap ==
    ASSUME TypeOK, snap' = snap
    PROVE  Lasting /\ \A v : SinceTime(v)' = SinceTime(v)
  BY SinceTimeType DEF SinceTime, Lasting

LEMMA RecordLasting ==
    ASSUME TypeOK, NEW r \in Requests, RefreshRecord(r), NEW v, v = req[r].view
    PROVE  Lasting /\ SinceTime(v)' # Unresolved
  <1>1. PICK at \in req[r].began .. clock : RecordSnapshot(v, at)
    BY DEF RefreshRecord
  <1>2. at \in Nat /\ v \in Views
    BY ViewTypes DEF TypeOK
  <1>3. CASE \E s \in snap : s.view = v
    <2>1. snap' = snap
      BY <1>1, <1>3 DEF RecordSnapshot
    <2>2. PICK s \in snap : s.view = v
      BY <1>3
    <2>3. s.at \in Nat /\ SinceTime(v) = s.at
      BY <2>2, SinceTimeType, ViewTypes DEF TypeOK
    <2>. QED
      BY <2>1, <2>3, SameSnap DEF Unresolved
  <1>4. CASE ~ \E s \in snap : s.view = v
    <2> DEFINE new == [view |-> v, at |-> at]
    <2>1. snap' = snap \cup {new}
      BY <1>1, <1>4 DEF RecordSnapshot
    <2>2. ASSUME NEW w, NEW s \in snap, s.view = w PROVE SinceTime(w)' = SinceTime(w)
      <3>1. SinceTime(w) = s.at
        BY <2>2, SinceTimeType
      <3>2. \A t \in snap' : t.view = w => t = s
        BY <2>1, <2>2, <1>4 DEF TypeOK
      <3>3. (CHOOSE t \in snap' : t.view = w) = s
        BY <2>1, <2>2, <3>2
      <3>. QED
        BY <2>1, <2>2, <3>1, <3>3 DEF SinceTime
    <2>3. \A w : SinceTime(w) # Unresolved => SinceTime(w)' = SinceTime(w)
      BY <2>2, SinceTimeType
    <2>4. SinceTime(NoHash)' = Unresolved
      <3>1. \A s \in snap' : s.view # NoHash
        BY <2>1, <1>2, NoHashAssumption DEF TypeOK
      <3>. QED
        BY <3>1 DEF SinceTime
    <2>5. SinceTime(v)' # Unresolved
      <3>1. \A t \in snap' : t.view = v <=> t = new
        BY <2>1, <1>4
      <3>2. (CHOOSE t \in snap' : t.view = v) = new
        BY <2>1, <3>1
      <3>. QED
        <4>1. new \in snap' /\ new.view = v /\ new.at = at
          BY <2>1
        <4> HIDE DEF new
        <4>2. SinceTime(v)' = at
          BY <4>1, <3>2 DEF SinceTime
        <4>. QED
          BY <4>2, <1>2 DEF Unresolved
    <2>. QED
      BY <2>3, <2>4, <2>5 DEF Lasting
  <1>. QED
    BY <1>3, <1>4

\* With a retention as long as the run, pruning removes nothing.
LEMMA PruneKeepsAll ==
    ASSUME TypeOK, Quiet, PruneSnapshots
    PROVE  snap' = snap
  <1>1. PICK latest \in snap, now \in WriteTimes :
            snap' = {s \in snap : s.at + KeepSeconds >= now \/ s = latest}
    BY DEF PruneSnapshots
  <1>2. now \in Nat /\ now <= MaxClock
    BY <1>1, ViewTypes DEF TypeOK, WriteTimes
  <1>3. \A s \in snap : s.at + KeepSeconds >= now
    BY <1>2, BoundsAssumption, ViewTypes DEF TypeOK, Quiet
  <1>. QED
    BY <1>1, <1>3

\* With no delay of commits, a write is stamped with the second it commits in.
LEMMA StampIsNow ==
    ASSUME TypeOK, Quiet, NEW at \in WriteTimes
    PROVE  at = clock
  BY ViewTypes DEF Quiet, WriteTimes

\* The queries depend on the rows alone.
LEMMA RowFrame ==
    ASSUME row' = row
    PROVE  /\ Published' = Published
           /\ \A p : Public(p)' = Public(p) /\ Exists(p)' = Exists(p)
           /\ \A s, p : InScope(s, p)' = InScope(s, p)
           /\ \A s, p : Rank(s, p)' = Rank(s, p)
           /\ \A s : DeletedSince(s)' = DeletedSince(s)
  BY DEF Published, Public, Exists, InScope, Rank, Before, DeletedSince

LEMMA RankType ==
    ASSUME TypeOK, NEW s \in Nat \cup {Unresolved}, NEW p \in Ids
    PROVE  /\ Rank(s, p) \in Nat
           /\ Cardinality({q \in Ids : InScope(s, q)}) \in Nat
           /\ InScope(s, p) => Rank(s, p) < Cardinality({q \in Ids : InScope(s, q)})
  <1> DEFINE Scope == {q \in Ids : InScope(s, q)}
             Ahead == {q \in Ids : InScope(s, q) /\ Before(s, q, p)}
  <1>1. IsFiniteSet(Scope) /\ Ahead \in SUBSET Scope
    BY IdsAssumption, FS_Subset
  <1>2. Cardinality(Scope) \in Nat /\ Cardinality(Ahead) \in Nat
    BY <1>1, FS_Subset, FS_CardinalityType
  <1>3. Cardinality(Ahead) <= Cardinality(Scope)
        /\ (Cardinality(Ahead) = Cardinality(Scope) => Ahead = Scope)
    BY <1>1, FS_Subset
  <1>4. ~Before(s, p, p)
    BY ViewTypes, IdsAssumption DEF Before
  <1>5. InScope(s, p) => Ahead # Scope
    BY <1>4
  <1>. QED
    BY <1>2, <1>3, <1>5 DEF Rank

\* What a page is for: a row of the query that lies at or behind the offset is on
\* the page, or there is a next page and the row lies at or behind its offset.
LEMMA PageOrLater ==
    ASSUME TypeOK, NEW s \in Nat \cup {Unresolved}, NEW p \in Ids, NEW from \in Nat,
           InScope(s, p), Rank(s, p) >= from
    PROVE  \/ OnPage(s, from, p)
           \/ HasMore(s, from) /\ Rank(s, p) >= from + PageSize
  BY RankType, SyncAssumption DEF OnPage, HasMore

-----------------------------------------------------------------------------
(* Steps of others: the server, or another client *)

LEMMA KeepLocal ==
    ASSUME SyncTypeOK, SyncTypeOK', row' = row, Lasting,
           NEW c \in Clients, LocalInv(c), Same(c)
    PROVE  LocalInv(c)'
  <1> USE DEF LocalInv, Same
  <1>1. TypeOK /\ clock \in Nat /\ \A p \in Ids : row[p].updated \in Nat
    BY ViewTypes DEF SyncTypeOK
  <1>2. \A v : SinceTime(v) \in Nat \cup {Unresolved}
    BY <1>1, SinceTimeType
  <1>3. SinceTime(NoHash) = Unresolved
    BY <1>1, SinceTimeType
  <1>4. pc[c] = "purged" \/ SinceTime(hash[c])' = SinceTime(hash[c])
    BY <1>3 DEF CoveredAt, Lasting
  <1>5. pc[c] \in InRound => SinceTime(base[c])' = SinceTime(base[c])
    BY <1>4 DEF RoundInv, InRound
  <1>6. pc[c] \in {"page", "deleted", "apply", "store"} =>
            SinceTime(next[c])' = SinceTime(next[c]) /\ SinceTime(next[c]) # Unresolved
    BY DEF RoundInv, Lasting
  <1>7. CoveredAt(c)'
    BY <1>4, RowFrame DEF CoveredAt
  <1>8. RoundInv(c)'
    BY <1>6 DEF RoundInv, Paging
  <1>9. InFlightInv(c)'
    <2>1. CASE pc[c] = "purged"
      BY <2>1, RowFrame DEF InFlightInv, RoundInv, EmptyView
    <2>2. CASE SinceTime(hash[c])' = SinceTime(hash[c])
      BY <2>2, RowFrame DEF InFlightInv
    <2>. QED
      BY <1>4, <2>1, <2>2
  <1>10. ProgressInv(c)'
    <2>1. \A p \in Ids : \A n : pc[c] \in InRound => Left(c, p, n)' = Left(c, p, n)
      BY <1>5, RowFrame DEF Left
    <2>2. \A p \in Ids : pc[c] \in {"page", "deleted", "apply", "store"} =>
              Settled(c, p)' = Settled(c, p)
      BY <1>6 DEF Settled
    <2>3. After(c)' = After(c) /\ Overlay(cache[c], changes[c])' = Overlay(cache[c], changes[c])
      BY DEF After, Overlay, Without
    <2>4. \A s : DeletedSince(s)' = DeletedSince(s)
      BY RowFrame
    <2>. QED
      BY <1>5, <2>1, <2>2, <2>3, <2>4, RowFrame DEF ProgressInv, InRound, Steps
  <1>. QED
    BY <1>7, <1>8, <1>9, <1>10

\* A new upload is not public and in nobody's cache.
LEMMA CreateLocal ==
    ASSUME SyncTypeOK, CatInv, Quiet, NEW p0 \in Ids, CreatePendingPrompt(p0),
           NEW c \in Clients, LocalInv(c), Same(c)
    PROVE  LocalInv(c)'
  <1> USE DEF LocalInv, Same
  <1>1. TypeOK /\ clock \in Nat /\ \A p \in Ids : row[p].updated \in Nat
    BY ViewTypes DEF SyncTypeOK
  <1>2. \A v : SinceTime(v)' = SinceTime(v)
    BY <1>1, SameSnap DEF CreatePendingPrompt
  <1>3. \A v : SinceTime(v) \in Nat \cup {Unresolved} /\ SinceTime(v) <= clock
    BY <1>1, SinceTimeType
  <1>4. /\ row'[p0] = [status |-> "pending", version |-> 1, updated |-> clock]
        /\ \A p \in Ids \ {p0} : row'[p] = row[p]
    <2>1. row \in [Ids -> Rows]
      BY <1>1 DEF TypeOK
    <2>. QED
      BY <1>1, <2>1, StampIsNow DEF CreatePendingPrompt
  <1>5. ~Exists(p0) /\ ~Public(p0) /\ ~Public(p0)' /\ Published[p0] = 0
    BY <1>4 DEF CreatePendingPrompt, Exists, Public, Published, PublicStatuses
  <1>6. /\ Published' = Published
        /\ \A p \in Ids \ {p0} : Public(p)' = Public(p) /\ Exists(p)' = Exists(p)
    BY <1>4, CreateInv DEF Public, Exists
  <1>7. /\ \A s, p : p \in Ids => InScope(s, p)' = InScope(s, p)
        /\ \A s : \A p \in Ids : InScope(s, p) => Rank(s, p)' = Rank(s, p)
    <2>1. \A s, p : p \in Ids => InScope(s, p)' = InScope(s, p)
      BY <1>4, <1>5, <1>6 DEF InScope
    <2>2. ASSUME NEW s, NEW p \in Ids, InScope(s, p)
          PROVE  {q \in Ids : InScope(s, q)' /\ Before(s, q, p)'}
                    = {q \in Ids : InScope(s, q) /\ Before(s, q, p)}
      <3>1. p # p0
        BY <2>2, <1>5 DEF InScope
      <3>2. \A q \in Ids : InScope(s, q) => q # p0
        BY <1>5 DEF InScope
      <3>3. \A q \in Ids \ {p0} : Before(s, q, p)' = Before(s, q, p)
        BY <1>4, <3>1 DEF Before
      <3>. QED
        BY <2>1, <3>2, <3>3
    <2>. QED
      BY <2>1, <2>2 DEF Rank
  <1>8. /\ cache[c][p0] = 0 /\ changes[c][p0] = 0 /\ fetch[c][p0] = 0
        /\ After(c)[p0] = 0 /\ Overlay(cache[c], changes[c])[p0] = 0
    BY <1>5 DEF InFlightInv, After, Overlay, Without
  <1>9. \A v : ~(row'[p0].updated < SinceTime(v))
    BY <1>1, <1>3, <1>4 DEF Unresolved
  <1>10. CoveredAt(c)'
    BY <1>2, <1>4, <1>6, <1>9 DEF CoveredAt
  <1>11. RoundInv(c)'
    BY <1>2 DEF RoundInv, Paging
  <1>12. InFlightInv(c)'
    BY <1>2, <1>4, <1>6, <1>8, <1>9 DEF InFlightInv
  <1>13. ProgressInv(c)'
    <2>1. \A p \in Ids : \A n : Left(c, p, n) => Left(c, p, n)'
      BY <1>2, <1>7 DEF Left
    <2>2. \A p \in Ids \ {p0} : Settled(c, p)' = Settled(c, p)
      BY <1>2, <1>4 DEF Settled
    <2>3. After(c)' = After(c) /\ Overlay(cache[c], changes[c])' = Overlay(cache[c], changes[c])
      BY DEF After, Overlay, Without
    <2>4. \A s : \A p \in Ids \ {p0} : p \in DeletedSince(s)' <=> p \in DeletedSince(s)
      BY <1>4, <1>6 DEF DeletedSince
    <2>5. SinceTime(base[c])' = SinceTime(base[c]) /\ Published' = Published
      BY <1>2, <1>6
    <2>6. Published[p0] = 0
      BY <1>5
    <2>. QED
      BY <2>1, <2>2, <2>3, <2>4, <2>5, <2>6, <1>8 DEF ProgressInv
  <1>. QED
    BY <1>10, <1>11, <1>12, <1>13

\* A change of status is stamped now: later than all that any client may rely on;
\* and nobody is between two pages.
LEMMA ReviewLocal ==
    ASSUME SyncTypeOK, Quiet, NEW p0 \in Ids, NEW st \in Outcomes, Review(p0, st),
           NEW c \in Clients, LocalInv(c)
    PROVE  LocalInv(c)'
  <1> USE DEF LocalInv
  <1>1. TypeOK /\ clock \in Nat /\ \A p \in Ids : row[p].updated \in Nat
    BY ViewTypes DEF SyncTypeOK
  <1>2. SetStatus(p0, st) /\ ~Paging(c) /\ UNCHANGED clientVars
    BY DEF Review, Quiet
  <1>3. Same(c)
    BY <1>2 DEF Same, clientVars, roundVars
  <1>4. \A v : SinceTime(v)' = SinceTime(v)
    BY <1>1, <1>2, SameSnap DEF SetStatus
  <1>5. \A v : SinceTime(v) \in Nat \cup {Unresolved} /\ SinceTime(v) <= clock
    BY <1>1, SinceTimeType
  <1>6. /\ row'[p0].updated = clock /\ row'[p0].status = st
        /\ \A p \in Ids \ {p0} : row'[p] = row[p] /\ Published'[p] = Published[p]
    <2>1. PICK at \in WriteTimes :
              row'[p0] = [status |-> st, version |-> row[p0].version + 1,
                          updated |-> at]
      BY <1>1, <1>2, SetStatusStep
    <2>2. at = clock
      BY <1>1, StampIsNow
    <2>. QED
      BY <1>1, <1>2, <2>1, <2>2, SetStatusStep
  <1>7. Exists(p0) /\ Exists(p0)'
    BY <1>2, <1>6, OutcomesAssumption DEF SetStatus, Exists, Statuses, PublicStatuses
  <1>8. \A p \in Ids \ {p0} : Exists(p)' = Exists(p) /\ Public(p)' = Public(p)
    BY <1>6 DEF Exists, Public
  <1>9. \A v : ~(row'[p0].updated < SinceTime(v))
    BY <1>1, <1>5, <1>6 DEF Unresolved
  <1>10. CoveredAt(c)'
    BY <1>3, <1>4, <1>6, <1>9 DEF CoveredAt, Same
  <1>11. RoundInv(c)'
    BY <1>3, <1>4 DEF RoundInv, Paging, Same
  <1>12. InFlightInv(c)'
    BY <1>3, <1>4, <1>6, <1>7, <1>8, <1>9 DEF InFlightInv, Same
  <1>13. ProgressInv(c)'
    <2>1. ~more[c] /\ ~(offset[c] > 0)
      BY <1>2 DEF Paging
    <2>2. ~Settled(c, p0)'
      BY <1>3, <1>4, <1>9 DEF Settled, Same
    <2>3. \A p \in Ids \ {p0} : Settled(c, p)' = Settled(c, p)
      BY <1>3, <1>4, <1>6 DEF Settled, Same
    <2>4. After(c)' = After(c) /\ Overlay(cache[c], changes[c])' = Overlay(cache[c], changes[c])
      BY <1>3 DEF After, Overlay, Without, Same
    <2>5. \A s : \A p \in Ids \ {p0} : p \in DeletedSince(s)' <=> p \in DeletedSince(s)
      BY <1>6, <1>8 DEF DeletedSince
    <2>6. SinceTime(base[c])' = SinceTime(base[c])
      BY <1>3, <1>4 DEF Same
    <2>. QED
      BY <1>3, <1>6, <2>1, <2>2, <2>3, <2>4, <2>5, <2>6 DEF ProgressInv, Same
  <1>. QED
    BY <1>10, <1>11, <1>12, <1>13

LEMMA ServerAloneLocal ==
    ASSUME SyncTypeOK, SyncTypeOK', CatInv, Quiet, ServerAlone,
           NEW c \in Clients, LocalInv(c)
    PROVE  LocalInv(c)'
  <1>1. Same(c)
    BY DEF ServerAlone, Same, clientVars, roundVars
  <1>2. TypeOK
    BY DEF SyncTypeOK
  <1>3. CASE Tick
    BY <1>1, <1>2, <1>3, SameSnap, KeepLocal DEF Tick
  <1>4. CASE \E p \in Ids : CreatePendingPrompt(p)
    BY <1>1, <1>4, CreateLocal
  <1>5. ASSUME NEW r \in Requests, RefreshHash(r) \/ RefreshFail(r)
        PROVE  LocalInv(c)'
    BY <1>1, <1>2, <1>5, SameSnap, KeepLocal DEF RefreshHash, RefreshFail
  <1>6. ASSUME NEW r \in Requests, RefreshRecord(r) PROVE LocalInv(c)'
    BY <1>1, <1>2, <1>6, RecordLasting, KeepLocal DEF RefreshRecord
  <1>7. CASE PruneSnapshots
    BY <1>1, <1>2, <1>7, PruneKeepsAll, SameSnap, KeepLocal DEF PruneSnapshots
  <1>. QED
    BY <1>3, <1>4, <1>5, <1>6, <1>7 DEF ServerAlone
-----------------------------------------------------------------------------
(* Steps of the client itself *)

\* A step that leaves the rows and the times alone, as seen by the client that
\* takes it.
LEMMA OwnFrame ==
    ASSUME SyncTypeOK, catVars' = catVars
    PROVE  /\ \A v : SinceTime(v)' = SinceTime(v)
           /\ row' = row /\ Published' = Published
           /\ \A p : Exists(p)' = Exists(p)
           /\ \A s, p : InScope(s, p)' = InScope(s, p) /\ Rank(s, p)' = Rank(s, p)
           /\ \A s : DeletedSince(s)' = DeletedSince(s)
  BY RowFrame, SameSnap DEF catVars, SyncTypeOK

LEMMA StartSyncOwn ==
    ASSUME SyncTypeOK, Quiet, NEW c \in Clients, LocalInv(c), StartSync(c)
    PROVE  LocalInv(c)'
  <1> USE DEF LocalInv
  <1>1. /\ pc[c] = "idle" /\ pc'[c] = "ask" /\ base'[c] = hash[c]
        /\ fetch[c] = EmptyView /\ ~Paging(c) /\ offset[c] \in Nat
        /\ catVars' = catVars /\ UNCHANGED <<cache, hash, next, offset, floor, changes,
                                             deleted, more, fetch>>
    BY DEF StartSync, Quiet, SyncTypeOK, RoundInv, InRound
  <1>2. CoveredAt(c)'
    BY <1>1, OwnFrame DEF CoveredAt
  <1>3. RoundInv(c)'
    BY <1>1 DEF RoundInv, InRound, Steps, Paging
  <1>4. InFlightInv(c)'
    BY <1>1, OwnFrame DEF InFlightInv
  <1>5. ProgressInv(c)'
    BY <1>1 DEF ProgressInv, Paging
  <1>. QED
    BY <1>2, <1>3, <1>4, <1>5

LEMMA ServeHashOwn ==
    ASSUME SyncTypeOK, NEW c \in Clients, LocalInv(c), ServeHash(c)
    PROVE  LocalInv(c)'
  <1> USE DEF LocalInv
  <1>1. /\ pc[c] = "ask" /\ pc'[c] = "hashed" /\ row' = row /\ snap' = snap
        /\ UNCHANGED <<cache, hash, base, next, offset, floor, changes, deleted, more,
                       fetch>>
    BY DEF ServeHash, RefreshHash, SyncTypeOK
  <1>2. \A v : SinceTime(v)' = SinceTime(v)
    BY <1>1, SameSnap DEF SyncTypeOK
  <1>3. CoveredAt(c)'
    BY <1>1, <1>2, RowFrame DEF CoveredAt
  <1>4. RoundInv(c)'
    BY <1>1 DEF RoundInv, InRound, Steps, Paging
  <1>5. InFlightInv(c)'
    BY <1>1, <1>2, RowFrame DEF InFlightInv
  <1>6. ProgressInv(c)'
    BY <1>1, <1>2, RowFrame DEF ProgressInv, Left
  <1>. QED
    BY <1>3, <1>4, <1>5, <1>6

LEMMA ServeRecordOwn ==
    ASSUME SyncTypeOK, NEW c \in Clients, LocalInv(c), ServeRecord(c)
    PROVE  LocalInv(c)'
  <1> USE DEF LocalInv
  <1>1. /\ pc[c] = "hashed" /\ pc'[c] \in {"apply", "page"} /\ row' = row
        /\ next'[c] = req[c].view
        /\ pc'[c] = "apply" => base[c] = req[c].view
        /\ UNCHANGED <<cache, hash, base, offset, floor, changes, deleted, more, fetch>>
    BY DEF ServeRecord, RefreshRecord, SyncTypeOK
  <1>2. TypeOK /\ c \in Requests /\ req[c].view \in Views
    BY ClientsAssumption DEF SyncTypeOK, TypeOK
  <1>3. Lasting /\ SinceTime(next[c])' # Unresolved
    BY <1>1, <1>2, RecordLasting DEF ServeRecord
  <1>4. SinceTime(hash[c])' = SinceTime(hash[c])
    BY <1>1, <1>2, <1>3, SinceTimeType DEF CoveredAt, Lasting
  <1>5. base[c] = hash[c] /\ changes[c] = EmptyView /\ deleted[c] = {} /\ ~more[c]
    BY <1>1 DEF RoundInv, InRound, Steps
  <1>6. CoveredAt(c)'
    BY <1>1, <1>4, RowFrame DEF CoveredAt
  <1>7. RoundInv(c)'
    BY <1>1, <1>3, <1>5 DEF RoundInv, InRound, Steps, Paging
  <1>8. InFlightInv(c)'
    BY <1>1, <1>4, RowFrame DEF InFlightInv
  <1>9. ProgressInv(c)'
    <2>1. \A p \in Ids : offset[c] > 0 =>
              cache'[c][p] = Published'[p] \/ Left(c, p, offset[c])'
      BY <1>1, <1>4, <1>5, RowFrame DEF ProgressInv, Left
    <2>2. CASE pc'[c] = "page"
      BY <2>2, <2>1, <1>1 DEF ProgressInv
    <2>3. CASE pc'[c] = "apply"
      <3>1. hash[c] = req[c].view /\ hash[c] # NoHash /\ next'[c] = hash'[c]
        BY <2>3, <1>1, <1>2, <1>5, NoHashAssumption
      <3>2. \A p \in Ids : row'[p].updated < SinceTime(next[c])'
                => cache'[c][p] = Published'[p]
        BY <3>1, <1>1, <1>4, <1>6 DEF CoveredAt
      <3>3. \A p \in Ids : After(c)'[p] = cache'[c][p]
        BY <1>1, <1>5 DEF After, Overlay, Without, EmptyView
      <3>. QED
        BY <2>3, <2>1, <3>2, <3>3, <1>1, <1>5 DEF ProgressInv, Settled
    <2>. QED
      BY <1>1, <2>2, <2>3
  <1>. QED
    BY <1>6, <1>7, <1>8, <1>9

LEMMA ServePageOwn ==
    ASSUME SyncTypeOK, NEW c \in Clients, LocalInv(c), ServePage(c)
    PROVE  LocalInv(c)'
  <1> USE DEF LocalInv
  <1> DEFINE since == SinceTime(base[c])
  <1>1. /\ pc[c] = "page" /\ catVars' = catVars /\ row' = row
        /\ floor'[c] = since /\ more'[c] = HasMore(since, offset[c])
        /\ \A p \in Ids : changes'[c][p] =
               IF OnPage(since, offset[c], p) THEN row[p].version ELSE 0
        /\ pc'[c] = IF since # Unresolved /\ offset[c] = 0 THEN "deleted" ELSE "apply"
        /\ UNCHANGED <<cache, hash, base, next, offset, deleted, fetch>>
    BY DEF ServePage, SyncTypeOK, catVars
  <1>2. TypeOK /\ since \in Nat \cup {Unresolved} /\ offset[c] \in Nat
        /\ \A p \in Ids : row[p].updated \in Nat
    BY SinceTimeType, ViewTypes DEF SyncTypeOK
  <1>3. /\ base[c] = hash[c] /\ deleted[c] = {} /\ fetch[c] = EmptyView
        /\ changes[c] = EmptyView /\ SinceTime(next[c]) # Unresolved
    BY <1>1 DEF RoundInv, InRound, Steps
  <1>4. \A p \in Ids : changes'[c][p] # 0 => changes'[c][p] = Published[p] /\ Public(p)
    BY <1>1 DEF OnPage, InScope, Published
  <1>5. \A p \in Ids : OnPage(since, offset[c], p) => changes'[c][p] = Published[p]
                                                     /\ changes'[c][p] # 0
    BY <1>1, <1>2, ViewTypes DEF OnPage, InScope, Published
  <1>6. \A p \in Ids : Overlay(cache[c], changes[c])'[p] =
                         IF changes'[c][p] # 0 THEN changes'[c][p] ELSE cache[c][p]
    BY <1>1 DEF Overlay
  <1>7. \A p \in Ids : Exists(p) \/ (cache[c][p] = 0 /\ Published[p] = 0)
    BY <1>2, ViewTypes DEF InFlightInv, Published
  <1>8. \A p \in Ids : \A n : Left(c, p, n)' <=> InScope(since, p) /\ Rank(since, p) >= n
    BY <1>1, OwnFrame DEF Left
  <1>9. CoveredAt(c)'
    BY <1>1, OwnFrame DEF CoveredAt
  <1>10. RoundInv(c)'
    BY <1>1, <1>3, OwnFrame DEF RoundInv, InRound, Steps, Paging
  <1>11. InFlightInv(c)'
    <2>1. \A p \in Ids : ~Exists(p) => changes'[c][p] = 0
      BY <1>2, <1>4, ViewTypes
    <2>. QED
      BY <2>1, <1>1, <1>3, <1>4, OwnFrame DEF InFlightInv
  <1>12. \A p \in Ids : InScope(since, p) /\ Rank(since, p) >= offset[c]
             => \/ Overlay(cache[c], changes[c])'[p] = Published[p]
                \/ /\ more'[c] /\ InScope(since, p)
                   /\ Rank(since, p) >= offset[c] + PageSize
    BY <1>1, <1>2, <1>5, <1>6, PageOrLater
  <1>13. \A p \in Ids : cache[c][p] = Published[p]
             => Overlay(cache[c], changes[c])'[p] = Published[p]
    BY <1>4, <1>6
  <1>14. CASE pc'[c] = "deleted"
    <2>1. since # Unresolved /\ offset[c] = 0
      BY <1>1, <1>14
    <2>2. hash[c] # NoHash
      BY <2>1, <1>2, <1>3, SinceTimeType
    <2>3. ASSUME NEW p \in Ids
          PROVE  \/ Overlay(cache[c], changes[c])'[p] = Published[p]
                 \/ p \in DeletedSince(since)
                 \/ more'[c] /\ InScope(since, p) /\ Rank(since, p) >= PageSize
      <3>1. CASE row[p].updated < since
        <4>1. cache[c][p] = Published[p]
          BY <3>1, <1>1, <1>3, <2>2 DEF CoveredAt
        <4>. QED
          BY <4>1, <1>13
      <3>2. CASE row[p].updated >= since /\ Public(p)
        <4>1. InScope(since, p)
          BY <3>2 DEF InScope
        <4>2. Rank(since, p) \in Nat
          BY <1>2, RankType
        <4>3. offset[c] + PageSize = PageSize
          BY <2>1, SyncAssumption
        <4>. QED
          BY <4>1, <4>2, <4>3, <1>12, <2>1
      <3>3. CASE row[p].updated >= since /\ ~Public(p) /\ Exists(p)
        BY <3>3 DEF DeletedSince
      <3>4. CASE ~Exists(p)
        BY <3>4, <1>7, <1>13
      <3>5. since \in Nat
        BY <2>1, <1>2
      <3>. QED
        BY <3>1, <3>2, <3>3, <3>4, <3>5, <1>2
    <2>4. ProgressInv(c)'
      BY <1>8, <1>14, <2>1, <2>3, <1>1, <1>3, OwnFrame DEF ProgressInv
    <2>. QED
      BY <2>4, <1>9, <1>10, <1>11
  <1>15. CASE pc'[c] = "apply"
    <2>1. \A p \in Ids : After(c)'[p] = Overlay(cache[c], changes[c])'[p]
      BY <1>1, <1>3 DEF After, Without
    <2>2. ASSUME NEW p \in Ids
          PROVE  \/ Overlay(cache[c], changes[c])'[p] = Published[p]
                 \/ /\ more'[c] /\ InScope(since, p)
                    /\ Rank(since, p) >= offset[c] + PageSize
      <3>1. CASE offset[c] > 0
        <4>1. cache[c][p] = Published[p] \/ Left(c, p, offset[c])
          BY <3>1, <1>1 DEF ProgressInv
        <4>. QED
          BY <4>1, <1>12, <1>13 DEF Left
      <3>2. CASE offset[c] = 0
        <4>1. since = Unresolved /\ hash[c] = NoHash
          BY <3>2, <1>1, <1>3, <1>15 DEF CoveredAt
        <4>2. cache[c] = EmptyView
          BY <3>2, <4>1, <1>1 DEF RoundInv
        <4>3. CASE Public(p)
          <5>1. InScope(since, p)
            BY <4>1, <4>3, <1>2 DEF InScope, Unresolved
          <5>2. Rank(since, p) \in Nat
            BY <1>2, RankType
          <5>. QED
            BY <5>1, <5>2, <3>2, <1>12
        <4>4. CASE ~Public(p)
          <5>1. cache[c][p] = Published[p]
            BY <4>2, <4>4 DEF EmptyView, Published
          <5>. QED
            BY <5>1, <1>13
        <4>. QED
          BY <4>3, <4>4
      <3>. QED
        BY <3>1, <3>2, <1>2
    <2>3. ProgressInv(c)'
      <3>1. \A p \in Ids : offset[c] > 0 =>
                cache[c][p] = Published[p] \/ Left(c, p, offset[c])'
        <4>1. \A p \in Ids : Left(c, p, offset[c]) => Left(c, p, offset[c])'
          BY <1>1, OwnFrame DEF Left
        <4>. QED
          BY <4>1, <1>1 DEF ProgressInv
      <3>. QED
        BY <3>1, <1>8, <1>15, <2>1, <2>2, <1>1, OwnFrame DEF ProgressInv
    <2>. QED
      BY <2>3, <1>9, <1>10, <1>11
  <1>. QED
    BY <1>1, <1>14, <1>15

LEMMA ServeDeletedOwn ==
    ASSUME SyncTypeOK, NEW c \in Clients, LocalInv(c), ServeDeleted(c)
    PROVE  LocalInv(c)'
  <1> USE DEF LocalInv
  <1>1. /\ pc[c] = "deleted" /\ pc'[c] = "apply" /\ catVars' = catVars /\ row' = row
        /\ deleted'[c] = DeletedSince(floor[c])
        /\ UNCHANGED <<cache, hash, base, next, offset, floor, changes, more, fetch>>
    BY DEF ServeDeleted, SyncTypeOK, catVars
  <1>2. \A p \in DeletedSince(floor[c]) : p \in Ids /\ Published[p] = 0 /\ Exists(p)
    BY DEF DeletedSince, Published
  <1>3. \A p \in Ids : After(c)'[p] = IF p \in DeletedSince(floor[c]) THEN 0
                                      ELSE Overlay(cache[c], changes[c])[p]
    BY <1>1 DEF After, Without, Overlay
  <1>4. CoveredAt(c)'
    BY <1>1, OwnFrame DEF CoveredAt
  <1>5. RoundInv(c)'
    BY <1>1, OwnFrame DEF RoundInv, InRound, Steps, Paging
  <1>6. InFlightInv(c)'
    BY <1>1, <1>2, OwnFrame DEF InFlightInv
  <1>7. ProgressInv(c)'
    <2>1. ASSUME NEW p \in Ids, more[c] \/ Settled(c, p)
          PROVE  \/ After(c)'[p] = Published[p]
                 \/ more[c] /\ Left(c, p, offset[c] + PageSize)
      <3>1. \/ Overlay(cache[c], changes[c])[p] = Published[p]
            \/ p \in DeletedSince(floor[c])
            \/ more[c] /\ Left(c, p, PageSize)
        BY <2>1, <1>1 DEF ProgressInv
      <3>2. offset[c] + PageSize = PageSize
        BY <1>1, SyncAssumption DEF ProgressInv
      <3>. QED
        BY <3>1, <3>2, <1>2, <1>3
    <2>2. \A p \in Ids : Settled(c, p)' = Settled(c, p)
      BY <1>1, OwnFrame DEF Settled
    <2>3. \A p \in Ids : Left(c, p, offset[c] + PageSize)
                            => Left(c, p, offset[c] + PageSize)'
      BY <1>1, OwnFrame DEF Left
    <2>. QED
      BY <1>1, <2>1, <2>2, <2>3, OwnFrame DEF ProgressInv
  <1>. QED
    BY <1>4, <1>5, <1>6, <1>7

LEMMA ApplyPageOwn ==
    ASSUME SyncTypeOK, NEW c \in Clients, LocalInv(c), ApplyPage(c)
    PROVE  LocalInv(c)'
  <1> USE DEF LocalInv
  <1>1. /\ pc[c] = "apply" /\ pc'[c] = (IF more[c] THEN "ask" ELSE "store")
        /\ catVars' = catVars /\ row' = row /\ cache'[c] = After(c)
        /\ offset'[c] = (IF more[c] THEN offset[c] + PageSize ELSE offset[c])
        /\ changes'[c] = EmptyView /\ deleted'[c] = {} /\ more'[c] = FALSE
        /\ UNCHANGED <<hash, base, next, fetch>>
    BY DEF ApplyPage, After, NextOffset, SyncTypeOK, catVars
  <1>2. offset[c] \in Nat /\ PageSize \in Nat \ {0}
    BY SyncAssumption DEF SyncTypeOK
  <1>3. \A p \in Ids : After(c)[p] = IF p \in deleted[c] THEN 0
                                     ELSE IF changes[c][p] # 0 THEN changes[c][p]
                                     ELSE cache[c][p]
    BY DEF After, Without, Overlay
  <1>4. fetch[c] = EmptyView /\ base[c] = hash[c] /\ SinceTime(next[c]) # Unresolved
    BY <1>1 DEF RoundInv, InRound, Steps
  <1>5. CoveredAt(c)'
    <2>1. ASSUME NEW p \in Ids, hash[c] # NoHash, row[p].updated < SinceTime(hash[c])
          PROVE  After(c)[p] = Published[p]
      BY <2>1, <1>1, <1>3 DEF CoveredAt, InFlightInv
    <2>. QED
      BY <2>1, <1>1, OwnFrame DEF CoveredAt
  <1>6. RoundInv(c)'
    BY <1>1, <1>2, <1>4, OwnFrame DEF RoundInv, InRound, Steps, Paging
  <1>7. InFlightInv(c)'
    BY <1>1, <1>3, <1>4, OwnFrame DEF InFlightInv, EmptyView
  <1>8. ProgressInv(c)'
    <2>1. CASE more[c]
      <3>1. \A p \in Ids : After(c)[p] = Published[p] \/ Left(c, p, offset[c] + PageSize)
        BY <2>1, <1>1 DEF ProgressInv
      <3>2. pc'[c] = "ask" /\ offset'[c] = offset[c] + PageSize
        BY <2>1, <1>1
      <3>3. \A p \in Ids : Left(c, p, offset[c] + PageSize) => Left(c, p, offset[c])'
        BY <3>2, <1>1, OwnFrame DEF Left
      <3>. QED
        BY <3>1, <3>2, <3>3, <1>1, OwnFrame DEF ProgressInv
    <2>2. CASE ~more[c]
      <3>1. \A p \in Ids : Settled(c, p)' = Settled(c, p)
        BY <1>1, OwnFrame DEF Settled
      <3>. QED
        BY <2>2, <3>1, <1>1, OwnFrame DEF ProgressInv
    <2>. QED
      BY <2>1, <2>2
  <1>. QED
    BY <1>5, <1>6, <1>7, <1>8

LEMMA ResetLocal ==
    ASSUME SyncTypeOK, NEW c \in Clients, ResetRound(c)
    PROVE  /\ pc'[c] = "idle" /\ base'[c] = NoHash /\ offset'[c] = 0
           /\ changes'[c] = EmptyView /\ deleted'[c] = {} /\ more'[c] = FALSE
  BY DEF ResetRound, SyncTypeOK

LEMMA StoreHashOwn ==
    ASSUME SyncTypeOK, NEW c \in Clients, LocalInv(c), StoreHash(c)
    PROVE  LocalInv(c)'
  <1> USE DEF LocalInv
  <1>1. /\ pc[c] = "store" /\ pc'[c] = "idle" /\ catVars' = catVars /\ row' = row
        /\ hash'[c] = next[c] /\ base'[c] = NoHash /\ offset'[c] = 0
        /\ changes'[c] = EmptyView /\ deleted'[c] = {} /\ more'[c] = FALSE
        /\ UNCHANGED <<cache, fetch>>
    BY ResetLocal DEF StoreHash, SyncTypeOK, catVars
  <1>2. fetch[c] = EmptyView /\ SinceTime(next[c]) # Unresolved
    BY <1>1 DEF RoundInv, InRound, Steps
  <1>3. hash'[c] # NoHash
    BY <1>1, NoHashAssumption DEF SyncTypeOK
  <1>4. CoveredAt(c)'
    BY <1>1, <1>2, OwnFrame DEF CoveredAt, ProgressInv, Settled
  <1>5. RoundInv(c)'
    BY <1>1, <1>2, <1>3 DEF RoundInv, InRound, Steps, Paging
  <1>6. InFlightInv(c)'
    BY <1>1, <1>2, OwnFrame DEF InFlightInv, EmptyView
  <1>7. ProgressInv(c)'
    BY <1>1 DEF ProgressInv
  <1>. QED
    BY <1>4, <1>5, <1>6, <1>7

LEMMA ResendOwn ==
    ASSUME SyncTypeOK, NEW c \in Clients, LocalInv(c), Resend(c)
    PROVE  LocalInv(c)'
  <1> USE DEF LocalInv
  <1>1. /\ pc[c] \in {"hashed", "page", "deleted", "apply"} /\ pc'[c] = "ask"
        /\ row' = row /\ snap' = snap
        /\ changes'[c] = EmptyView /\ deleted'[c] = {} /\ more'[c] = FALSE
        /\ UNCHANGED <<cache, hash, base, offset, fetch>>
    BY DEF Resend, RefreshFail, SyncTypeOK, catVars
  <1>2. \A v : SinceTime(v)' = SinceTime(v)
    BY <1>1, SameSnap DEF SyncTypeOK
  <1>3. fetch[c] = EmptyView /\ base[c] = hash[c]
    BY <1>1 DEF RoundInv, InRound, Steps
  <1>4. CoveredAt(c)'
    BY <1>1, <1>2, RowFrame DEF CoveredAt
  <1>5. RoundInv(c)'
    BY <1>1, <1>3 DEF RoundInv, InRound, Steps, Paging
  <1>6. InFlightInv(c)'
    BY <1>1, <1>2, <1>3, RowFrame DEF InFlightInv, EmptyView
  <1>7. ProgressInv(c)'
    <2>1. \A p \in Ids : offset[c] > 0 =>
              cache[c][p] = Published[p] \/ Left(c, p, offset[c])
      BY <1>1 DEF ProgressInv
    <2>2. \A p \in Ids : Left(c, p, offset[c]) => Left(c, p, offset[c])'
      BY <1>1, <1>2, RowFrame DEF Left
    <2>. QED
      BY <2>1, <2>2, <1>1, RowFrame DEF ProgressInv
  <1>. QED
    BY <1>4, <1>5, <1>6, <1>7

LEMMA InterruptOwn ==
    ASSUME SyncTypeOK, Quiet, NEW c \in Clients, LocalInv(c), Interrupt(c)
    PROVE  LocalInv(c)'
  <1> USE DEF LocalInv
  <1>1. PICK written \in SUBSET Ids :
            cache' = [cache EXCEPT ![c] = Overlay(@, Without(changes[c], Ids \ written))]
    BY DEF Interrupt
  <1>2. /\ pc[c] \in InRound /\ base[c] # NoHash /\ row' = row /\ snap' = snap
        /\ pc'[c] = "idle" /\ base'[c] = NoHash /\ offset'[c] = 0
        /\ changes'[c] = EmptyView /\ deleted'[c] = {} /\ more'[c] = FALSE
        /\ UNCHANGED <<hash, fetch>>
    BY ResetLocal DEF Interrupt, Quiet, RefreshFail, catVars, InRound
  <1>3. \A v : SinceTime(v)' = SinceTime(v)
    BY <1>2, SameSnap DEF SyncTypeOK
  <1>4. fetch[c] = EmptyView /\ hash[c] # NoHash
    BY <1>2 DEF RoundInv, InRound
  <1>5. \A p \in Ids : cache'[c][p] = cache[c][p]
                       \/ (changes[c][p] # 0 /\ cache'[c][p] = changes[c][p])
    BY <1>1 DEF Overlay, Without, SyncTypeOK
  <1>6. CoveredAt(c)'
    <2>1. hash[c] # NoHash /\ pc[c] # "purged"
      BY <1>2, <1>4 DEF InRound
    <2>2. ASSUME NEW p \in Ids, row[p].updated < SinceTime(hash[c])
          PROVE  cache'[c][p] = Published[p]
      BY <2>1, <2>2, <1>5 DEF CoveredAt, InFlightInv
    <2>. QED
      BY <2>1, <2>2, <1>2, <1>3, RowFrame DEF CoveredAt
  <1>7. RoundInv(c)'
    BY <1>2, <1>4 DEF RoundInv, InRound, Steps, Paging
  <1>8. InFlightInv(c)'
    BY <1>2, <1>4, <1>5, RowFrame DEF InFlightInv, EmptyView
  <1>9. ProgressInv(c)'
    BY <1>2 DEF ProgressInv
  <1>. QED
    BY <1>6, <1>7, <1>8, <1>9

LEMMA CacheStepOwn ==
    ASSUME SyncTypeOK, Quiet, NEW c \in Clients, LocalInv(c), CacheStep(c)
    PROVE  LocalInv(c)'
  <1> USE DEF LocalInv
  <1>1. ASSUME NEW q \in Ids, FetchRead(c, q) PROVE LocalInv(c)'
    <2>1. /\ pc[c] = "idle" /\ hash[c] # NoHash /\ catVars' = catVars /\ row' = row
          /\ Public(q) /\ \A p \in Ids : fetch'[c][p] = IF p = q THEN row[p].version ELSE 0
          /\ UNCHANGED <<cache, hash, roundVars>>
      BY <1>1 DEF FetchRead, Quiet, SyncTypeOK, EmptyView, catVars
    <2>2. \A p \in Ids : fetch'[c][p] # 0 => fetch'[c][p] = Published[p] /\ Exists(p)
      BY <2>1 DEF Published, Public, Exists, PublicStatuses
    <2>3. CoveredAt(c)'
      BY <2>1, OwnFrame DEF CoveredAt, roundVars
    <2>4. RoundInv(c)'
      BY <2>1 DEF RoundInv, InRound, Steps, Paging, roundVars
    <2>5. InFlightInv(c)'
      BY <2>1, <2>2, OwnFrame DEF InFlightInv, roundVars
    <2>6. ProgressInv(c)'
      BY <2>1 DEF ProgressInv, roundVars
    <2>. QED
      BY <2>3, <2>4, <2>5, <2>6
  <1>2. CASE FetchApply(c)
    <2>1. /\ fetch[c] # EmptyView /\ catVars' = catVars /\ row' = row
          /\ cache'[c] = Overlay(cache[c], fetch[c]) /\ fetch'[c] = EmptyView
          /\ UNCHANGED <<hash, roundVars>>
      BY <1>2 DEF FetchApply, SyncTypeOK, catVars
    <2>2. pc[c] = "idle" /\ hash[c] # NoHash
      BY <2>1 DEF RoundInv
    <2>3. \A p \in Ids : cache'[c][p] = IF fetch[c][p] # 0 THEN fetch[c][p] ELSE cache[c][p]
      BY <2>1 DEF Overlay
    <2>4. CoveredAt(c)'
      <3>1. ASSUME NEW p \in Ids, row[p].updated < SinceTime(hash[c])
            PROVE  cache'[c][p] = Published[p]
        BY <3>1, <2>2, <2>3 DEF CoveredAt, InFlightInv
      <3>. QED
        BY <3>1, <2>1, <2>2, OwnFrame DEF CoveredAt, roundVars
    <2>5. RoundInv(c)'
      BY <2>1, <2>2 DEF RoundInv, InRound, Steps, Paging, roundVars
    <2>6. InFlightInv(c)'
      BY <2>1, <2>3, OwnFrame DEF InFlightInv, EmptyView, roundVars
    <2>7. ProgressInv(c)'
      BY <2>1, <2>2 DEF ProgressInv, roundVars
    <2>. QED
      BY <2>4, <2>5, <2>6, <2>7
  <1>3. CASE PurgeRows(c)
    <2>1. /\ pc[c] = "idle" /\ fetch[c] = EmptyView /\ pc'[c] = "purged"
          /\ cache'[c] = EmptyView /\ catVars' = catVars /\ row' = row
          /\ UNCHANGED <<hash, base, next, offset, changes, deleted, more, fetch>>
      BY <1>3 DEF PurgeRows, SyncTypeOK, catVars
    <2>2. CoveredAt(c)' /\ ProgressInv(c)'
      BY <2>1 DEF CoveredAt, ProgressInv
    <2>3. RoundInv(c)'
      BY <2>1 DEF RoundInv, InRound, Steps, Paging
    <2>4. InFlightInv(c)'
      BY <2>1, OwnFrame DEF InFlightInv, EmptyView
    <2>. QED
      BY <2>2, <2>3, <2>4
  <1>4. CASE PurgeKV(c)
    <2>1. /\ pc[c] = "purged" /\ pc'[c] = "idle" /\ hash'[c] = NoHash
          /\ catVars' = catVars /\ row' = row
          /\ UNCHANGED <<cache, base, next, offset, changes, deleted, more, fetch>>
      BY <1>4 DEF PurgeKV, SyncTypeOK, catVars
    <2>2. /\ cache[c] = EmptyView /\ fetch[c] = EmptyView /\ changes[c] = EmptyView
          /\ deleted[c] = {} /\ base[c] = NoHash /\ ~Paging(c)
      BY <2>1 DEF RoundInv, InRound
    <2>3. CoveredAt(c)' /\ ProgressInv(c)'
      BY <2>1 DEF CoveredAt, ProgressInv
    <2>4. RoundInv(c)'
      BY <2>1, <2>2 DEF RoundInv, InRound, Steps, Paging
    <2>5. InFlightInv(c)'
      BY <2>1, <2>2, OwnFrame DEF InFlightInv, EmptyView
    <2>. QED
      BY <2>3, <2>4, <2>5
  <1>. QED
    BY <1>1, <1>2, <1>3, <1>4 DEF CacheStep

-----------------------------------------------------------------------------
(* The invariant *)

\* A step of client d, as seen by client c.
LEMMA OthersLocal ==
    ASSUME SyncTypeOK, SyncTypeOK', NEW d \in Clients, NEW c \in Clients \ {d},
           SyncStep(d) \/ Resend(d) \/ Interrupt(d) \/ CacheStep(d), LocalInv(c)
    PROVE  LocalInv(c)'
  <1>1. Same(c)
    <2> USE DEF SyncTypeOK, Same
    <2>1. CASE StartSync(d) \/ ServeHash(d) \/ ServeRecord(d)
      BY <2>1 DEF StartSync, ServeHash, ServeRecord
    <2>2. CASE ServePage(d) \/ ServeDeleted(d)
      BY <2>2 DEF ServePage, ServeDeleted
    <2>3. CASE ApplyPage(d)
      BY <2>3 DEF ApplyPage
    <2>4. CASE StoreHash(d)
      BY <2>4 DEF StoreHash, ResetRound
    <2>5. CASE Interrupt(d)
      BY <2>5 DEF Interrupt, ResetRound
    <2>6. CASE Resend(d)
      BY <2>6 DEF Resend
    <2>7. CASE CacheStep(d)
      <3>1. ASSUME NEW p \in Ids, FetchRead(d, p) PROVE Same(c)
        BY <3>1 DEF FetchRead, roundVars
      <3>2. CASE FetchApply(d)
        BY <3>2 DEF FetchApply, roundVars
      <3>3. CASE PurgeRows(d) \/ PurgeKV(d)
        BY <3>3 DEF PurgeRows, PurgeKV
      <3>. QED
        BY <2>7, <3>1, <3>2, <3>3 DEF CacheStep
    <2>. QED
      BY <2>1, <2>2, <2>3, <2>4, <2>5, <2>6, <2>7 DEF SyncStep
  <1>2. TypeOK /\ d \in Requests
    BY ClientsAssumption DEF SyncTypeOK
  <1>3. CASE ServeRecord(d)
    BY <1>1, <1>2, <1>3, RecordLasting, KeepLocal DEF ServeRecord, RefreshRecord
  <1>4. CASE ~ServeRecord(d)
    <2>1. row' = row /\ snap' = snap
      BY <1>4 DEF SyncStep, StartSync, ServeHash, ServePage, ServeDeleted, ApplyPage,
         StoreHash, Resend, Interrupt, CacheStep, FetchRead, FetchApply, PurgeRows,
         PurgeKV, RefreshHash, RefreshFail, catVars
    <2>. QED
      BY <1>1, <1>2, <2>1, SameSnap, KeepLocal
  <1>. QED
    BY <1>3, <1>4

LEMMA SyncInitInv == Init => SyncInv
  <1> SUFFICES ASSUME Init PROVE SyncInv
    OBVIOUS
  <1>1. SyncTypeOK
    BY SyncInitTypes
  <1>2. ASSUME NEW c \in Clients PROVE LocalInv(c)
    BY DEF Init, LocalInv, CoveredAt, RoundInv, InFlightInv, ProgressInv, InRound, Steps,
       Paging, EmptyView
  <1>. QED
    BY <1>1, <1>2 DEF SyncInv, Covered, LocalInv

LEMMA SyncInvStep ==
    ASSUME Quiet
    PROVE  SyncInv /\ CatInv /\ SyncTypeOK' /\ [Next]_vars => SyncInv'
  <1> SUFFICES ASSUME SyncInv, CatInv, SyncTypeOK', [Next]_vars PROVE SyncInv'
    OBVIOUS
  <1>1. SyncTypeOK /\ \A c \in Clients : LocalInv(c)
    BY DEF SyncInv, Covered, LocalInv
  <1>2. SUFFICES ASSUME NEW c \in Clients PROVE LocalInv(c)'
    BY DEF SyncInv, Covered, LocalInv
  <1>3. CASE \E p \in Ids, st \in Outcomes : Review(p, st)
    BY <1>1, <1>3, ReviewLocal
  <1>4. CASE ServerAlone
    BY <1>1, <1>4, ServerAloneLocal
  <1>5. CASE \E d \in Clients \ {c} :
                SyncStep(d) \/ Resend(d) \/ Interrupt(d) \/ CacheStep(d)
    BY <1>1, <1>5, OthersLocal
  <1>6. CASE SyncStep(c)
    BY <1>1, <1>6, StartSyncOwn, ServeHashOwn, ServeRecordOwn, ServePageOwn,
       ServeDeletedOwn, ApplyPageOwn, StoreHashOwn DEF SyncStep
  <1>7. CASE Resend(c) \/ Interrupt(c)
    BY <1>1, <1>7, ResendOwn, InterruptOwn
  <1>8. CASE CacheStep(c)
    BY <1>1, <1>8, CacheStepOwn
  <1>9. CASE UNCHANGED vars
    <2>1. Same(c) /\ row' = row /\ snap' = snap
      BY <1>9 DEF vars, catVars, clientVars, roundVars, Same
    <2>. QED
      BY <1>1, <2>1, SameSnap, KeepLocal DEF SyncTypeOK
  <1>. QED
    BY <1>3, <1>4, <1>5, <1>6, <1>7, <1>8, <1>9 DEF Next

\* In the quiet environment each client is in a sound place of its round at every
\* moment (Sync, the handler of delta).
THEOREM SyncInvariant == ASSUME Quiet PROVE Spec => []SyncInv
  BY SyncInitInv, SyncInvStep, SyncTypes, CatInvInSync, PTL DEF Spec

\* No lost change, in the quiet environment: however long the catalogue, however
\* many clients, requests and failed rounds, and however uploads, reviews,
\* purges and fetches interleave with the statements of a delta and the pages of
\* a round, a cache agrees with the server on every row written before the
\* second of the hash it holds, and that hash can be resolved.
THEOREM NothingLost == ASSUME Quiet PROVE Spec => []Covered
  <1>1. SyncInv => Covered
    BY DEF SyncInv
  <1>. QED
    BY SyncInvariant, <1>1, PTL
-----------------------------------------------------------------------------
(* Provenance: what is in a cache, or on its way there, was public *)

WasPublic(p, v) == v # 0 => v \in shown[p]

ProvenanceInv ==
    \A p \in Ids :
        /\ WasPublic(p, Published[p])
        /\ \A c \in Clients : /\ WasPublic(p, cache[c][p])
                              /\ WasPublic(p, changes[c][p])
                              /\ WasPublic(p, fetch[c][p])

\* The server's side: what has been shown stays shown, and what is public is.
LEMMA ShownStep ==
    ASSUME SyncTypeOK, [CatNext]_catVars, NEW p \in Ids, WasPublic(p, Published[p])
    PROVE  shown[p] \subseteq shown'[p] /\ WasPublic(p, Published[p])'
  <1>1. TypeOK /\ row \in [Ids -> Rows] /\ shown \in [Ids -> SUBSET Nat]
    BY DEF SyncTypeOK, TypeOK
  <1>2. CASE \E q \in Ids, st \in Outcomes : SetStatus(q, st)
    <2>1. PICK q \in Ids, st \in Outcomes : SetStatus(q, st)
      BY <1>2
    <2>2. PICK at : row'[q] = [status |-> st, version |-> row[q].version + 1,
                               updated |-> at]
      BY SMTT(30), <1>1, <2>1, SetStatusStep
    <2>3. CASE p = q
      <3>1. Published'[p] = IF st \in PublicStatuses THEN row[p].version + 1 ELSE 0
        BY <2>2, <2>3 DEF Published, Public
      <3>. QED
        BY <1>1, <2>1, <2>3, <3>1 DEF SetStatus, WasPublic
    <2>4. CASE p # q
      <3>1. Published'[p] = Published[p]
        BY <1>1, <2>1, <2>4, SetStatusStep
      <3>2. shown'[p] = shown[p]
        BY <1>1, <2>1, <2>4 DEF SetStatus
      <3>. QED
        BY <3>1, <3>2 DEF WasPublic
    <2>. QED
      BY <2>3, <2>4
  <1>3. ASSUME NEW q \in Ids, CreatePendingPrompt(q)
        PROVE  shown' = shown /\ Published'[p] \in {Published[p], 0}
    <2>1. PICK at \in WriteTimes :
              row' = [row EXCEPT ![q] = [status |-> "pending", version |-> 1,
                                         updated |-> at]]
      BY <1>3 DEF CreatePendingPrompt
    <2>2. p # q => row'[p] = row[p]
      BY <1>1, <2>1
    <2>3. p = q => row'[p].status = "pending"
      BY <1>1, <2>1
    <2>. QED
      BY <1>3, <2>2, <2>3 DEF CreatePendingPrompt, Published, Public, PublicStatuses
  <1>4. CASE row' = row /\ shown' = shown
    BY <1>4, RowFrame DEF WasPublic
  <1>5. \/ \E q \in Ids, st \in Outcomes : SetStatus(q, st)
        \/ \E q \in Ids : CreatePendingPrompt(q)
        \/ row' = row /\ shown' = shown
    BY DEF CatNext, Tick, RefreshHash, RefreshRecord, RefreshFail, PruneSnapshots, catVars
  <1>. QED
    BY <1>2, <1>3, <1>4, <1>5 DEF WasPublic

\* The client's side: a row that enters a cache was sent, and what is sent is public.
LEMMA RowsComeFromServer ==
    ASSUME SyncTypeOK, [Next]_vars, NEW c \in Clients, NEW p \in Ids
    PROVE  /\ cache'[c][p] \in {0, cache[c][p], changes[c][p], fetch[c][p]}
           /\ changes'[c][p] \in {0, changes[c][p], Published[p]}
           /\ fetch'[c][p] \in {0, fetch[c][p], Published[p]}
  <1> USE DEF SyncTypeOK
  <1> DEFINE Goal == /\ cache'[c][p] \in {0, cache[c][p], changes[c][p], fetch[c][p]}
                     /\ changes'[c][p] \in {0, changes[c][p], Published[p]}
                     /\ fetch'[c][p] \in {0, fetch[c][p], Published[p]}
  <1>1. CASE UNCHANGED <<cache, changes, fetch>>
    BY <1>1
  <1>2. ASSUME NEW d \in Clients, ServePage(d) PROVE Goal
    <2>1. CASE c = d
      <3>1. \A since : OnPage(since, offset[c], p) => row[p].version = Published[p]
        BY DEF OnPage, InScope, Published
      <3>2. changes'[c][p] \in {0, Published[p]}
        BY <1>2, <2>1, <3>1 DEF ServePage
      <3>. QED
        BY <1>2, <3>2 DEF ServePage
    <2>2. CASE c # d
      BY <1>2, <2>2 DEF ServePage
    <2>. QED
      BY <2>1, <2>2
  <1>3. ASSUME NEW d \in Clients, ApplyPage(d) PROVE Goal
    BY <1>3 DEF ApplyPage, Overlay, Without, EmptyView
  <1>4. ASSUME NEW d \in Clients, StoreHash(d) PROVE Goal
    BY <1>4 DEF StoreHash, ResetRound, EmptyView
  <1>5. ASSUME NEW d \in Clients, Interrupt(d) PROVE Goal
    <2>1. PICK written \in SUBSET Ids :
              cache' = [cache EXCEPT ![d] = Overlay(@, Without(changes[d], Ids \ written))]
      BY <1>5 DEF Interrupt
    <2>2. cache'[c][p] \in {cache[c][p], changes[c][p]}
      BY <2>1 DEF Overlay, Without
    <2>. QED
      BY <1>5, <2>2 DEF Interrupt, ResetRound, EmptyView
  <1>6. ASSUME NEW d \in Clients, Resend(d) PROVE Goal
    BY <1>6 DEF Resend, EmptyView
  <1>7. ASSUME NEW d \in Clients, CacheStep(d) PROVE Goal
    <2>1. ASSUME NEW q \in Ids, FetchRead(d, q) PROVE Goal
      BY <2>1 DEF FetchRead, EmptyView, Published, roundVars
    <2>2. CASE FetchApply(d)
      BY <2>2 DEF FetchApply, Overlay, EmptyView, roundVars
    <2>3. CASE PurgeRows(d) \/ PurgeKV(d)
      BY <2>3 DEF PurgeRows, PurgeKV, EmptyView
    <2>. QED
      BY <1>7, <2>1, <2>2, <2>3 DEF CacheStep
  <1>8. \/ UNCHANGED <<cache, changes, fetch>>
        \/ \E d \in Clients : \/ ServePage(d) \/ ApplyPage(d) \/ StoreHash(d)
                              \/ Resend(d) \/ Interrupt(d) \/ CacheStep(d)
    BY DEF Next, Review, ServerAlone, SyncStep, StartSync, ServeHash, ServeRecord,
       ServeDeleted, vars, clientVars, roundVars
  <1>. QED
    BY <1>1, <1>2, <1>3, <1>4, <1>5, <1>6, <1>7, <1>8

LEMMA ProvenanceStep ==
    SyncTypeOK /\ ProvenanceInv /\ [Next]_vars => ProvenanceInv'
  <1> SUFFICES ASSUME SyncTypeOK, ProvenanceInv, [Next]_vars, NEW p \in Ids
               PROVE  /\ WasPublic(p, Published[p])'
                      /\ \A c \in Clients : /\ WasPublic(p, cache[c][p])'
                                            /\ WasPublic(p, changes[c][p])'
                                            /\ WasPublic(p, fetch[c][p])'
    BY DEF ProvenanceInv
  <1>1. shown[p] \subseteq shown'[p] /\ WasPublic(p, Published[p])'
    BY StepIsCatStep, ShownStep DEF ProvenanceInv
  <1>. QED
    BY <1>1, RowsComeFromServer DEF ProvenanceInv, WasPublic

LEMMA ProvenanceHolds == Spec => []ProvenanceInv
  <1>1. Init => ProvenanceInv
    BY DEF Init, CatInit, ProvenanceInv, WasPublic, Published, Public, Absent, EmptyView,
       PublicStatuses
  <1>. QED
    BY <1>1, ProvenanceStep, SyncTypes, PTL DEF Spec

\* Only what an operator has let through reaches a cache, in every environment
\* and whatever fails: a version that a client holds was public at some time.
THEOREM OnlyPublicVersions == Spec => []CachedWasPublic
  <1>1. ProvenanceInv => CachedWasPublic
    BY DEF ProvenanceInv, WasPublic, CachedWasPublic
  <1>. QED
    BY <1>1, ProvenanceHolds, PTL

-----------------------------------------------------------------------------
(* Replica: in the quiet environment only the rows that are due are touched,  *)
(* and a row stops being due when a round ends that has it right.             *)

LEMMA DueMeans ==
    ASSUME SyncTypeOK
    PROVE  /\ Due \in [Clients -> SUBSET Ids]
           /\ \A c \in Clients : hash[c] = NoHash \/ pc[c] = "purged" => Due[c] = Ids
           /\ \A c \in Clients : \A p \in Ids :
                 p \notin Due[c] => /\ hash[c] # NoHash /\ pc[c] # "purged"
                                    /\ row[p].updated < SinceTime(hash[c])
  <1>1. \A p \in Ids : row[p].updated \in Nat
    BY ViewTypes DEF SyncTypeOK
  <1>2. \A v : SinceTime(v) \in Nat \cup {Unresolved}
    BY SinceTimeType DEF SyncTypeOK
  <1>. QED
    BY <1>1, <1>2 DEF Due, Unresolved

\* A step that moves neither rows, hash nor recorded seconds moves nothing here.
LEMMA DueKept ==
    ASSUME row' = row, Lasting, NEW c \in Clients, CoveredAt(c), hash'[c] = hash[c],
           (pc'[c] = "purged") <=> (pc[c] = "purged")
    PROVE  Due'[c] = Due[c]
  <1>1. CASE hash[c] = NoHash \/ pc[c] = "purged"
    BY <1>1 DEF Due
  <1>2. CASE hash[c] # NoHash /\ pc[c] # "purged"
    <2>1. SinceTime(hash[c])' = SinceTime(hash[c])
      BY <1>2 DEF CoveredAt, Lasting
    <2>. QED
      BY <1>2, <2>1 DEF Due
  <1>. QED
    BY <1>1, <1>2

\* A change of row p that is stamped now: later than what any hash stands for.
LEMMA ChangeStep ==
    ASSUME SyncTypeOK, SyncTypeOK', NEW p \in Ids, snap' = snap, clientVars' = clientVars,
           row'[p].updated = clock, \A q \in Ids \ {p} : row'[q] = row[q],
           shown' = [shown EXCEPT ![p] = @ \cup ({Published'[p]} \ {0})]
    PROVE  Promise!Change(p)
  <1>1. Published \in Views /\ Published' \in Views
    <2>1. row \in [Ids -> Rows] /\ row' \in [Ids -> Rows]
      BY DEF SyncTypeOK, TypeOK
    <2>2. \A r \in Rows : r.version \in Nat
      BY DEF Rows, Absent
    <2>. QED
      BY <2>1, <2>2 DEF Published, Views
  <1>2. \A q \in Ids \ {p} : Published'[q] = Published[q]
    BY DEF Published, Public
  <1>3. Published' = [Published EXCEPT ![p] = Published'[p]]
    BY <1>1, <1>2 DEF Views
  <1>4. ASSUME NEW c \in Clients PROVE Due'[c] = Due[c] \cup {p}
    <2>1. SinceTime(hash[c])' = SinceTime(hash[c]) /\ UNCHANGED <<hash, pc>>
      BY SameSnap DEF SyncTypeOK, clientVars, roundVars
    <2>2. row'[p].updated >= SinceTime(hash[c])
      BY SinceTimeType DEF SyncTypeOK
    <2>. QED
      BY <2>1, <2>2 DEF Due
  <1>5. Due' = [c \in Clients |-> Due[c] \cup {p}]
    BY <1>4 DEF Due
  <1>. QED
    BY <1>1, <1>3, <1>5 DEF Promise!Change, Promise!Views, Views, clientVars

LEMMA ReviewChanges ==
    ASSUME SyncTypeOK, SyncTypeOK', Quiet,
           NEW p \in Ids, NEW st \in Outcomes, Review(p, st)
    PROVE  Promise!Change(p)
  <1>1. TypeOK /\ SetStatus(p, st) /\ clientVars' = clientVars /\ snap' = snap
    BY DEF SyncTypeOK, Review, SetStatus
  <1>2. PICK at \in WriteTimes :
            row'[p] = [status |-> st, version |-> row[p].version + 1, updated |-> at]
    BY <1>1, SetStatusStep
  <1>3. at = clock /\ \A q \in Ids \ {p} : row'[q] = row[q]
    BY <1>1, StampIsNow, SetStatusStep
  <1>4. Published'[p] = IF st \in PublicStatuses THEN row[p].version + 1 ELSE 0
    BY <1>2 DEF Published, Public
  <1>5. row[p].version \in Nat /\ shown \in [Ids -> SUBSET Nat]
    BY <1>1 DEF TypeOK, Rows, Absent
  <1>6. shown' = [shown EXCEPT ![p] = @ \cup ({Published'[p]} \ {0})]
    <2>1. CASE st \in PublicStatuses
      <3>1. Published'[p] = row[p].version + 1 /\ {Published'[p]} \ {0} = {Published'[p]}
        BY <2>1, <1>4, <1>5
      <3>. QED
        BY <2>1, <3>1, <1>1 DEF SetStatus
    <2>2. CASE st \notin PublicStatuses
      <3>1. {Published'[p]} \ {0} = {}
        BY <2>2, <1>4
      <3>2. shown' = shown
        BY <2>2, <1>1 DEF SetStatus
      <3>. QED
        BY <3>1, <3>2, <1>5
    <2>. QED
      BY <2>1, <2>2
  <1>7. row'[p].updated = clock
    BY <1>2, <1>3
  <1>. QED
    BY <1>1, <1>3, <1>6, <1>7, ChangeStep

\* An upload changes nothing public, but delta will look at its row.
LEMMA UploadChanges ==
    ASSUME SyncTypeOK, SyncTypeOK', CatInv, Quiet,
           NEW p \in Ids, CreatePendingPrompt(p), clientVars' = clientVars
    PROVE  Promise!Change(p)
  <1>1. TypeOK /\ row \in [Ids -> Rows] /\ shown \in [Ids -> SUBSET Nat]
    BY DEF SyncTypeOK, TypeOK
  <1>2. PICK at \in WriteTimes :
            row' = [row EXCEPT ![p] = [status |-> "pending", version |-> 1,
                                       updated |-> at]]
    BY DEF CreatePendingPrompt
  <1>3. at = clock
    BY <1>1, StampIsNow
  <1>4. row'[p].updated = clock /\ \A q \in Ids \ {p} : row'[q] = row[q]
    BY <1>1, <1>2, <1>3
  <1>5. Published'[p] = 0
    BY <1>1, <1>2 DEF Published, Public, PublicStatuses
  <1>6. snap' = snap /\ shown' = [shown EXCEPT ![p] = @ \cup ({Published'[p]} \ {0})]
    BY <1>1, <1>5 DEF CreatePendingPrompt
  <1>. QED
    BY <1>4, <1>6, ChangeStep

\* Rows reach a cache only where they are due: any other is right before the step
\* and after it.
LEMMA ReceiveStep ==
    ASSUME SyncInv, SyncInv', ProvenanceInv, [Next]_vars,
           row' = row, snap' = snap, shown' = shown, NEW c \in Clients, hash' = hash, pc[c] # "purged", pc'[c] # "purged",
           \A d \in Clients \ {c} : pc'[d] = pc[d] /\ cache'[d] = cache[d]
    PROVE  Promise!Receive(c)
  <1>1. SyncTypeOK /\ SyncTypeOK' /\ \A d \in Clients : CoveredAt(d) /\ CoveredAt(d)'
    BY DEF SyncInv, Covered
  <1>2. Published' = Published
    BY RowFrame
  <1>3. Lasting
    BY <1>1, SameSnap DEF SyncTypeOK
  <1>4. \A d \in Clients : Due'[d] = Due[d]
    BY <1>1, <1>2, <1>3, DueKept
  <1>5. Due' = Due
    BY <1>4 DEF Due
  <1>6. cache \in [Clients -> Views] /\ cache' \in [Clients -> Views]
    BY <1>1 DEF SyncTypeOK
  <1>7. cache' = [cache EXCEPT ![c] = cache'[c]]
    BY <1>6
  <1>8. ASSUME NEW p \in Ids, cache'[c][p] # cache[c][p]
        PROVE  p \in Due[c] /\ cache'[c][p] \in shown[p] \cup {0}
    <2>1. p \in Due[c]
      <3> SUFFICES ASSUME p \notin Due[c] PROVE FALSE
        OBVIOUS
      <3>1. /\ hash[c] # NoHash /\ pc[c] # "purged"
            /\ row[p].updated < SinceTime(hash[c])
        BY <1>1, DueMeans
      <3>2. SinceTime(hash[c])' = SinceTime(hash[c])
        BY <1>1, <3>1, <1>3 DEF CoveredAt, Lasting
      <3>3. cache[c][p] = Published[p]
        BY <1>1, <3>1 DEF CoveredAt
      <3>4. cache'[c][p] = Published'[p]
        BY <1>1, <1>2, <3>1, <3>2 DEF CoveredAt
      <3>. QED
        BY <3>3, <3>4, <1>2, <1>8
    <2>2. cache'[c][p] \in {0, changes[c][p], fetch[c][p]}
      BY <1>1, <1>8, RowsComeFromServer
    <2>. QED
      BY <2>1, <2>2 DEF ProvenanceInv, WasPublic
  <1>. QED
    BY <1>2, <1>5, <1>6, <1>7, <1>8 DEF Promise!Receive, Promise!Views, Views

\* A round ends: what its hash does not leave to the next delta is right.
LEMMA FinishStep ==
    ASSUME SyncInv, SyncInv', NEW c \in Clients, StoreHash(c)
    PROVE  Promise!Finish(c)
  <1>1. SyncTypeOK /\ SyncTypeOK' /\ \A d \in Clients : CoveredAt(d) /\ CoveredAt(d)'
    BY DEF SyncInv, Covered
  <1>2. /\ row' = row /\ shown' = shown /\ Published' = Published /\ cache' = cache
        /\ snap' = snap
    BY RowFrame DEF StoreHash, catVars
  <1>3. Lasting
    BY <1>1, <1>2, SameSnap DEF SyncTypeOK
  <1>4. \A d \in Clients \ {c} : hash'[d] = hash[d] /\ pc'[d] = pc[d]
    BY <1>1 DEF StoreHash, ResetRound, SyncTypeOK
  <1>5. \A d \in Clients \ {c} : Due'[d] = Due[d]
    BY <1>1, <1>2, <1>3, <1>4, DueKept
  <1>6. Due \in [Clients -> SUBSET Ids] /\ Due' \in [Clients -> SUBSET Ids]
    BY DEF Due
  <1>7. Due' = [Due EXCEPT ![c] = Due'[c]] /\ Due'[c] \subseteq Ids
    BY <1>5, <1>6
  <1>8. ASSUME NEW p \in Ids \ Due'[c] PROVE cache[c][p] = Published[p]
    <2>1. row[p].updated \in Nat
      BY <1>1, ViewTypes DEF SyncTypeOK
    <2>2. \A v : SinceTime(v)' = SinceTime(v) /\ SinceTime(v) \in Nat \cup {Unresolved}
      BY <1>1, <1>2, SameSnap, SinceTimeType DEF SyncTypeOK
    <2>3. /\ hash'[c] # NoHash /\ pc'[c] # "purged"
          /\ row'[p].updated < SinceTime(hash[c])'
      BY <1>2, <1>8, <2>1, <2>2 DEF Due, Unresolved
    <2>. QED
      BY <2>3, <1>1, <1>2 DEF CoveredAt
  <1>. QED
    BY <1>2, <1>7, <1>8 DEF Promise!Finish

\* Purge: the rows are gone, and everything is due.
LEMMA ForgetStep ==
    ASSUME SyncInv, NEW c \in Clients, PurgeRows(c)
    PROVE  Promise!Forget(c)
  <1>1. SyncTypeOK /\ \A d \in Clients : CoveredAt(d)
    BY DEF SyncInv, Covered
  <1>2. /\ row' = row /\ shown' = shown /\ Published' = Published /\ hash' = hash
        /\ snap' = snap
    BY RowFrame DEF PurgeRows, catVars
  <1>3. Lasting
    BY <1>1, <1>2, SameSnap DEF SyncTypeOK
  <1>4. pc'[c] = "purged" /\ \A d \in Clients \ {c} : pc'[d] = pc[d]
    BY <1>1 DEF PurgeRows, SyncTypeOK
  <1>5. \A d \in Clients \ {c} : Due'[d] = Due[d]
    BY <1>1, <1>2, <1>3, <1>4, DueKept
  <1>6. Due'[c] = Ids
    BY <1>4 DEF Due
  <1>7. Due' = [Due EXCEPT ![c] = Ids]
    BY <1>5, <1>6 DEF Due
  <1>. QED
    BY <1>2, <1>7 DEF PurgeRows, Promise!Forget, Promise!Nothing, EmptyView

\* All that neither writes a cache nor moves a hash, and the end of a purge.
LEMMA QuietStep ==
    ASSUME SyncInv, row' = row, shown' = shown, Lasting, cache' = cache,
           \A c \in Clients :
              \/ hash'[c] = hash[c] /\ ((pc'[c] = "purged") <=> (pc[c] = "purged"))
              \/ pc[c] = "purged" /\ hash'[c] = NoHash
    PROVE  UNCHANGED <<Published, shown, cache, Due>>
  <1>1. \A c \in Clients : CoveredAt(c)
    BY DEF SyncInv, Covered
  <1>2. ASSUME NEW c \in Clients PROVE Due'[c] = Due[c]
    <2>1. CASE pc[c] = "purged" /\ hash'[c] = NoHash
      BY <2>1 DEF Due
    <2>2. CASE hash'[c] = hash[c] /\ ((pc'[c] = "purged") <=> (pc[c] = "purged"))
      BY <2>2, <1>1, DueKept
    <2>. QED
      BY <2>1, <2>2
  <1>3. Due' = Due
    BY <1>2 DEF Due
  <1>. QED
    BY <1>3, RowFrame

LEMMA ServerKeepsPromise ==
    ASSUME SyncInv, SyncTypeOK', CatInv, Quiet,
           ServerAlone \/ \E p \in Ids, st \in Outcomes : Review(p, st)
    PROVE  [Promise!ReplicaNext]_Promise!replicaVars
  <1>1. SyncTypeOK /\ TypeOK
    BY DEF SyncInv, SyncTypeOK
  <1>2. CASE \E p \in Ids, st \in Outcomes : Review(p, st)
    BY <1>1, <1>2, ReviewChanges DEF Promise!ReplicaNext
  <1>3. ASSUME ServerAlone, NEW p \in Ids, CreatePendingPrompt(p)
        PROVE  Promise!ReplicaNext
    BY <1>1, <1>3, UploadChanges DEF Promise!ReplicaNext, ServerAlone
  <1>4. ASSUME ServerAlone, row' = row, shown' = shown, Lasting
        PROVE  UNCHANGED Promise!replicaVars
    BY <1>4, QuietStep DEF Promise!replicaVars, ServerAlone, clientVars, roundVars
  <1>5. ASSUME NEW r \in Requests, RefreshHash(r) \/ RefreshFail(r) \/ RefreshRecord(r)
        PROVE  row' = row /\ shown' = shown /\ Lasting
    BY <1>1, <1>5, SameSnap, RecordLasting DEF RefreshHash, RefreshFail, RefreshRecord
  <1>6. ASSUME Tick \/ PruneSnapshots PROVE row' = row /\ shown' = shown /\ Lasting
    BY <1>1, <1>6, SameSnap, PruneKeepsAll DEF Tick, PruneSnapshots
  <1>. QED
    BY <1>2, <1>3, <1>4, <1>5, <1>6 DEF ServerAlone

LEMMA ClientKeepsPromise ==
    ASSUME SyncInv, SyncInv', ProvenanceInv, Quiet, NEW c \in Clients,
           SyncStep(c) \/ Resend(c) \/ Interrupt(c) \/ CacheStep(c)
    PROVE  [Promise!ReplicaNext]_Promise!replicaVars
  <1> USE DEF SyncTypeOK
  <1>1. SyncTypeOK /\ TypeOK /\ c \in Requests
    BY ClientsAssumption DEF SyncInv
  <1>2. [Next]_vars
    BY DEF Next
  <1>3. \A d \in Clients : RoundInv(d)
    BY DEF SyncInv
  <1>4. CASE ApplyPage(c) \/ Interrupt(c) \/ FetchApply(c)
    <2>1. /\ hash' = hash /\ cache \in [Clients -> Views] /\ pc \in [Clients -> Steps]
          /\ pc[c] # "purged" /\ pc'[c] # "purged"
          /\ \A d \in Clients \ {c} : pc'[d] = pc[d] /\ cache'[d] = cache[d]
      <3>1. CASE ApplyPage(c)
        BY <3>1, <1>1 DEF ApplyPage
      <3>2. CASE Interrupt(c)
        BY <3>2, <1>1 DEF Interrupt, ResetRound, Quiet, InRound
      <3>3. CASE FetchApply(c)
        BY <3>3, <1>1, <1>3 DEF FetchApply, RoundInv, roundVars
      <3>. QED
        BY <1>4, <3>1, <3>2, <3>3
    <2>2. UNCHANGED <<row, snap, shown>>
      BY <1>4 DEF ApplyPage, Interrupt, FetchApply, RefreshFail, catVars
    <2>3. Promise!Receive(c)
      BY <1>2, <2>1, <2>2, ReceiveStep
    <2>. QED
      BY <2>3 DEF Promise!ReplicaNext
  <1>5. CASE StoreHash(c)
    BY <1>5, FinishStep DEF Promise!ReplicaNext
  <1>6. CASE PurgeRows(c)
    BY <1>6, ForgetStep DEF Promise!ReplicaNext
  <1>7. CASE PurgeKV(c)
    BY <1>1, <1>7, SameSnap, QuietStep DEF PurgeKV, catVars, Promise!replicaVars
  <1>8. CASE ServeRecord(c)
    BY <1>1, <1>8, RecordLasting, QuietStep DEF ServeRecord, RefreshRecord,
       Promise!replicaVars
  <1>9. CASE StartSync(c) \/ ServeHash(c) \/ ServePage(c) \/ ServeDeleted(c) \/ Resend(c)
             \/ \E p \in Ids : FetchRead(c, p)
    <2>1. UNCHANGED <<row, snap, shown, cache, hash>>
      BY <1>9 DEF StartSync, ServeHash, RefreshHash, ServePage, ServeDeleted, Resend,
         RefreshFail, FetchRead, catVars
    <2>2. \A d \in Clients : (pc'[d] = "purged") <=> (pc[d] = "purged")
      BY <1>1, <1>9 DEF StartSync, ServeHash, ServePage, ServeDeleted, Resend, FetchRead,
         roundVars
    <2>. QED
      BY <1>1, <2>1, <2>2, SameSnap, QuietStep DEF Promise!replicaVars
  <1>. QED
    BY <1>4, <1>5, <1>6, <1>7, <1>8, <1>9 DEF SyncStep, CacheStep

\* Sync implements Replica in the quiet environment: no row leaves what a client's
\* next delta will send but at the end of a round that has it right, and what is
\* not to be sent is never touched, by Sync, Get, Random, a failure or a retry.
THEOREM SyncKeepsPromise == ASSUME Quiet PROVE Spec => ImplementsReplica
  <1>1. Init => Promise!ReplicaInit
    BY DEF Init, CatInit, Promise!ReplicaInit, Promise!Nothing, Published, Public, Absent,
       PublicStatuses, EmptyView, Due
  <1>2. SyncInv /\ SyncInv' /\ ProvenanceInv /\ CatInv /\ [Next]_vars
            => [Promise!ReplicaNext]_Promise!replicaVars
    <2> SUFFICES ASSUME SyncInv, SyncInv', ProvenanceInv, CatInv, [Next]_vars
                 PROVE  [Promise!ReplicaNext]_Promise!replicaVars
      OBVIOUS
    <2>1. SyncTypeOK /\ SyncTypeOK'
      BY DEF SyncInv
    <2>2. CASE UNCHANGED vars
      <3>1. UNCHANGED <<row, snap, shown, cache, hash, pc>>
        BY <2>2 DEF vars, catVars, clientVars, roundVars
      <3>. QED
        BY <2>1, <3>1, SameSnap, QuietStep DEF SyncTypeOK, Promise!replicaVars
    <2>3. CASE ServerAlone \/ \E p \in Ids, st \in Outcomes : Review(p, st)
      BY <2>1, <2>3, ServerKeepsPromise
    <2>4. ASSUME NEW c \in Clients,
                 SyncStep(c) \/ Resend(c) \/ Interrupt(c) \/ CacheStep(c)
          PROVE  [Promise!ReplicaNext]_Promise!replicaVars
      BY <2>4, ClientKeepsPromise
    <2>. QED
      BY <2>2, <2>3, <2>4 DEF Next
  <1>. QED
    BY <1>1, <1>2, SyncInvariant, ProvenanceHolds, CatInvInSync, PTL
    DEF Spec, ImplementsReplica, Promise!ReplicaSpec

\* What Replica promises amounts to: a copy is right in every row that is not due.
THEOREM PromiseIsEnough == Promise!ReplicaSpec => []Promise!RightUnlessDue
  <1> DEFINE Types == /\ Published \in Views /\ cache \in [Clients -> Views]
                      /\ Due \in [Clients -> SUBSET Ids]
             Inv == Types /\ Promise!RightUnlessDue
  <1>1. Promise!ReplicaInit => Inv
    BY DEF Promise!ReplicaInit, Promise!Nothing, Promise!RightUnlessDue, Views
  <1>2. Inv /\ [Promise!ReplicaNext]_Promise!replicaVars => Inv'
    <2> SUFFICES ASSUME Inv, [Promise!ReplicaNext]_Promise!replicaVars PROVE Inv'
      OBVIOUS
    <2> USE DEF Promise!RightUnlessDue
    <2>1. ASSUME NEW p \in Ids, Promise!Change(p) PROVE Inv'
      BY <2>1 DEF Promise!Change, Promise!Views, Views
    <2>2. ASSUME NEW c \in Clients, Promise!Receive(c) PROVE Inv'
      BY <2>2 DEF Promise!Receive, Promise!Views, Views
    <2>3. ASSUME NEW c \in Clients, Promise!Finish(c) PROVE Inv'
      BY <2>3 DEF Promise!Finish
    <2>4. ASSUME NEW c \in Clients, Promise!Forget(c) PROVE Inv'
      BY <2>4 DEF Promise!Forget, Promise!Nothing, Views
    <2>5. CASE UNCHANGED Promise!replicaVars
      BY <2>5 DEF Promise!replicaVars
    <2>. QED
      BY <2>1, <2>2, <2>3, <2>4, <2>5 DEF Promise!ReplicaNext
  <1>. QED
    BY <1>1, <1>2, PTL DEF Promise!ReplicaSpec
=============================================================================
