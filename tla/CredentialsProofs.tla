------------------------- MODULE CredentialsProofs -------------------------
(***************************************************************************)
(* Proofs about Credentials, for any endpoints, keys, secrets and faults.  *)
(* CredInv is inductive.  Its first part, that nothing is saved the user   *)
(* did not ask for, needs nothing of the number of commands at a time; its *)
(* second, AloneInv, is about one command at a time.                       *)
(***************************************************************************)
EXTENDS Credentials, TLAPS

-----------------------------------------------------------------------------
(* Configurations *)

LEMMA BlankIsConfig == Blank \in Config
BY DEF Blank, Config

\* The fields of a configuration, and what they hold.
LEMMA ConfigFields ==
    ASSUME NEW conf \in Config
    PROVE  /\ conf.endpoint \in Endpoints \cup {None}
           /\ conf.key \in Keys \cup {None}
           /\ conf.secret \in Secrets \cup {None}
           /\ conf["endpoint"] = conf.endpoint
           /\ conf["key"] = conf.key
           /\ conf["secret"] = conf.secret
BY DEF Config

\* One configuration over another, field by field.
LEMMA OverIsConfig ==
    ASSUME NEW conf \in Config, NEW over \in Config
    PROVE  /\ Over(conf, over) \in Config
           /\ \A f \in Fields :
                Over(conf, over)[f] = IF over[f] # None THEN over[f] ELSE conf[f]
           /\ Over(conf, over).endpoint \in {conf.endpoint, over.endpoint}
           /\ Over(conf, over).key \in {conf.key, over.key}
           /\ Over(conf, over).secret \in {conf.secret, over.secret}
           /\ over.key # None => Over(conf, over).key = over.key
           /\ over.key = None => Over(conf, over).key = conf.key
<1>1. Over(conf, over) \in Config
  BY DEF Over, Config, Fields
<1>. QED
  BY <1>1, ConfigFields DEF Over, Fields

\* What a command saves.
LEMMA ChangedIsConfig ==
    ASSUME TypeOK, NEW p \in Procs, NEW conf \in Config
    PROVE  Changed(p, conf) \in Config
<1>1. conf.endpoint \in Endpoints \cup {None} /\ conf.secret \in Secrets \cup {None}
  BY ConfigFields
<1>2. subject[p] \in Keys \cup {None} /\ flags[p] \in Config
  BY DEF TypeOK
<1>3. [conf EXCEPT !.key = subject[p], !.secret = None] \in Config
  BY <1>2 DEF Config
<1>4. [conf EXCEPT !.key = None] \in Config
  BY DEF Config
<1>5. Over(conf, flags[p]) \in Config
  BY <1>2, OverIsConfig
<1>. QED
  BY <1>3, <1>4, <1>5 DEF Changed

\* It changes the fields the command is about and no other.
LEMMA ChangedIsKept ==
    ASSUME TypeOK, NEW p \in Procs, base[p] = file
    PROVE  Kept(p, Changed(p, file))
<1>1. file \in Config /\ flags[p] \in Config
  BY DEF TypeOK
<1>2. CASE command[p] = "new"
  BY <1>1, <1>2 DEF Kept, Changed, Touched, Fields, Config
<1>3. CASE command[p] = "revoke"
  BY <1>1, <1>3 DEF Kept, Changed, Touched, Fields, Config
<1>4. CASE command[p] \notin {"new", "revoke"}
  BY <1>1, <1>4, OverIsConfig DEF Kept, Changed, Touched
<1>. QED
  BY <1>2, <1>3, <1>4

-----------------------------------------------------------------------------
LEMMA InitInv == Init => CredInv
<1>. SUFFICES ASSUME Init PROVE CredInv
  OBVIOUS
<1>. USE DEF Init
<1>1. TypeOK
  BY BlankIsConfig, CredentialsAssumption DEF TypeOK, States, Commands
<1>2. OverridesStayOut
  BY DEF OverridesStayOut, Asked, Blank
<1>3. ASSUME NEW p \in Procs PROVE CommandInv(p)
  BY <1>3 DEF CommandInv, Saving
<1>4. AloneInv
  <2>1. KeyInv
    BY DEF KeyInv, Dead, Saving, Blank
  <2>. QED
    BY <2>1 DEF AloneInv, Saving, RestIsKept
<1>. QED
  BY <1>1, <1>2, <1>3, <1>4 DEF CredInv

-----------------------------------------------------------------------------
(* Steps *)

\* A command that does not move keeps its part.
LEMMA OtherCommand ==
    ASSUME NEW q \in Procs, CommandInv(q), subject[q] \in Keys \cup {None},
           given \subseteq given',
           \A k \in SelfKeys : server[k] # "unissued" => server'[k] # "unissued",
           pc'[q] = pc[q], command'[q] = command[q], subject'[q] = subject[q],
           flags'[q] = flags[q], local'[q] = local[q]
    PROVE  CommandInv(q)'
<1>1. Saving(q)' => Asked(local[q])'
  BY DEF CommandInv, Saving, Asked
<1>. QED
  BY <1>1 DEF CommandInv, Saving

LEMMA GiveInv ==
    ASSUME CredInv, NEW p \in Procs, NEW c \in Commands, NEW f \in Config, Give(p, c, f)
    PROVE  CredInv'
<1>. USE DEF CredInv, Give
<1>1. TypeOK'
  <2>1. given' \subseteq Endpoints \cup Keys \cup Secrets
    BY ConfigFields DEF TypeOK, Fields
  <2>. QED
    BY <2>1 DEF TypeOK, States
<1>2. OverridesStayOut'
  BY DEF OverridesStayOut, Asked
<1>3. ASSUME NEW q \in Procs PROVE CommandInv(q)'
  <2>1. CASE q = p
    BY <2>1 DEF TypeOK, CommandInv, Saving, Commands
  <2>2. CASE q # p
    BY <2>2, OtherCommand DEF TypeOK
  <2>. QED
    BY <2>1, <2>2
<1>4. ASSUME ~TwoProcesses PROVE AloneInv'
  <2>1. \A q \in Procs : pc[q] = "idle"
    BY <1>4
  <2>2. faults = 0 => KeyInv'
    <3>. SUFFICES ASSUME faults = 0 PROVE KeyInv'
      OBVIOUS
    <3>1. ~Dead(file.key)
      BY <2>1, <1>4 DEF AloneInv, KeyInv
    <3>2. \A q \in Procs : subject[q] = None
      BY <2>1 DEF CommandInv
    <3>. QED
      BY <2>1, <3>1, <3>2 DEF KeyInv, Dead, Saving, TypeOK
  <2>. QED
    BY <2>1, <2>2, <1>4 DEF AloneInv, RestIsKept, Saving, TypeOK
<1>. QED
  BY <1>1, <1>2, <1>3, <1>4

\* The request of key new, or of key revoke, when it has been answered.
LEMMA RegisterInv ==
    ASSUME CredInv, NEW p \in Procs, NEW k \in SelfKeys, Register(p, k) PROVE CredInv'
<1>. USE DEF CredInv, Register
<1>1. k \in Keys /\ k # None
  BY CredentialsAssumption DEF Keys
<1>2. \A l \in SelfKeys : server[l] # "unissued" => server'[l] # "unissued"
  BY DEF TypeOK
<1>3. TypeOK'
  BY <1>1 DEF TypeOK, States
<1>4. OverridesStayOut'
  BY <1>2 DEF OverridesStayOut, Asked
<1>5. ASSUME NEW q \in Procs PROVE CommandInv(q)'
  <2>1. CASE q = p
    BY <1>1, <2>1 DEF TypeOK, CommandInv, Saving
  <2>2. CASE q # p
    BY <1>2, <2>2, OtherCommand DEF TypeOK
  <2>. QED
    BY <2>1, <2>2
<1>6. ASSUME ~TwoProcesses PROVE AloneInv'
  <2>1. \A q \in Procs \ {p} : pc[q] = "idle"
    BY <1>6 DEF AloneInv
  <2>2. faults = 0 => KeyInv'
    <3>. SUFFICES ASSUME faults = 0 PROVE KeyInv'
      OBVIOUS
    <3>1. KeyInv
      BY <1>6 DEF AloneInv
    <3>2. ~Dead(file.key)' /\ \A l : ~Dead(l) => ~Dead(l)'
      BY <1>1, <2>1, <3>1 DEF KeyInv, Dead, TypeOK
    <3>. QED
      BY <1>1, <2>1, <3>1, <3>2 DEF KeyInv, Dead, Saving, TypeOK
  <2>. QED
    BY <1>6, <2>1, <2>2 DEF AloneInv, RestIsKept, Saving, TypeOK, Kept, Touched
<1>. QED
  BY <1>3, <1>4, <1>5, <1>6

LEMMA RevokeInv ==
    ASSUME CredInv, NEW p \in Procs, Revoke(p) PROVE CredInv'
<1>. DEFINE k == InForce(p).key
<1>. USE DEF CredInv, Revoke
<1>1. k \in Keys /\ k # None
  BY OverIsConfig, ConfigFields DEF InForce, TypeOK
<1>. HIDE DEF k
<1>2. \A l \in SelfKeys : server[l] # "unissued" => server'[l] # "unissued"
  BY DEF TypeOK, k
<1>3. TypeOK'
  BY <1>1 DEF TypeOK, States, k
<1>4. OverridesStayOut'
  BY <1>2 DEF OverridesStayOut, Asked
<1>5. ASSUME NEW q \in Procs PROVE CommandInv(q)'
  <2>1. CASE q = p
    BY <1>1, <2>1 DEF TypeOK, CommandInv, Saving, k
  <2>2. CASE q # p
    BY <1>2, <2>2, OtherCommand DEF TypeOK
  <2>. QED
    BY <2>1, <2>2
<1>6. ASSUME ~TwoProcesses PROVE AloneInv'
  <2>1. \A q \in Procs \ {p} : pc[q] = "idle"
    BY <1>6 DEF AloneInv
  <2>2. \A q \in Procs \ {p} : subject[q] = None
    BY <2>1 DEF CommandInv
  <2>3. KeyInv'
    BY <1>1, <2>1, <2>2 DEF KeyInv, Dead, Saving, TypeOK, k
  <2>. QED
    BY <1>6, <2>1, <2>3 DEF AloneInv, RestIsKept, Saving, TypeOK, Kept, Touched
<1>. QED
  BY <1>3, <1>4, <1>5, <1>6

\* The end of a process, whatever it has reached: nothing is left of it.
LEMMA EndsInv ==
    ASSUME CredInv, NEW p \in Procs, pc[p] # "idle", Ends(p), UNCHANGED <<file, given>>,
           server' \in [Keys -> {"unissued", "live", "revoked"}],
           \A k \in SelfKeys : server[k] # "unissued" => server'[k] # "unissued",
           faults' \in 0 .. MaxFaults,
           ~TwoProcesses /\ faults' = 0 => ~Dead(file.key)'
    PROVE  CredInv'
<1>. USE DEF CredInv, Ends
<1>1. TypeOK'
  BY BlankIsConfig DEF TypeOK, States, Commands
<1>2. OverridesStayOut'
  BY DEF OverridesStayOut, Asked
<1>3. ASSUME NEW q \in Procs PROVE CommandInv(q)'
  <2>1. CASE q = p
    BY <2>1 DEF TypeOK, CommandInv, Saving
  <2>2. CASE q # p
    BY <2>2, OtherCommand DEF TypeOK
  <2>. QED
    BY <2>1, <2>2
<1>4. ASSUME ~TwoProcesses PROVE AloneInv'
  <2>1. \A q \in Procs : pc'[q] = "idle"
    BY <1>4 DEF AloneInv, TypeOK
  <2>2. \A q \in Procs : subject'[q] = None
    BY <1>3, <2>1 DEF CommandInv
  <2>3. faults' = 0 => KeyInv'
    BY <1>4, <2>1, <2>2 DEF KeyInv, Dead, Saving
  <2>. QED
    BY <2>1, <2>3 DEF AloneInv, RestIsKept, Saving
<1>. QED
  BY <1>1, <1>2, <1>3, <1>4

\* A dead key is left in the file by nobody who has not failed.
LEMMA NoDeadKeyLeft ==
    ASSUME CredInv, NEW p \in Procs, ~TwoProcesses, faults = 0,
           pc[p] # "idle", pc[p] = "load" => command[p] # "revoke",
           pc[p] # "truncate"
    PROVE  ~Dead(file.key)
BY DEF CredInv, AloneInv, KeyInv

LEMMA RefusedInv == ASSUME CredInv, NEW p \in Procs, Refused(p) PROVE CredInv'
<1>1. ~TwoProcesses /\ faults' = 0 => ~Dead(file.key)'
  BY NoDeadKeyLeft DEF Refused, Dead
<1>. QED
  BY <1>1, EndsInv DEF Refused, CredInv, TypeOK

LEMMA ReturnInv == ASSUME CredInv, NEW p \in Procs, Return(p) PROVE CredInv'
<1>1. ~TwoProcesses /\ faults' = 0 => ~Dead(file.key)'
  BY NoDeadKeyLeft DEF Return, Dead
<1>. QED
  BY <1>1, EndsInv DEF Return, CredInv, TypeOK

LEMMA FailInv == ASSUME CredInv, NEW p \in Procs, Fail(p) PROVE CredInv'
<1>1. faults' # 0 /\ faults' \in 0 .. MaxFaults
  BY CredentialsAssumption DEF Fail, CredInv, TypeOK
<1>. QED
  BY <1>1, EndsInv DEF Fail, CredInv, TypeOK

LEMMA ReplyLostInv == ASSUME CredInv, NEW p \in Procs, ReplyLost(p) PROVE CredInv'
<1>. USE DEF ReplyLost
<1>1. faults' # 0 /\ faults' \in 0 .. MaxFaults
  BY CredentialsAssumption DEF CredInv, TypeOK
<1>2. InForce(p).key \in Keys \cup {None}
  BY OverIsConfig, ConfigFields DEF InForce, CredInv, TypeOK
<1>3. /\ server' \in [Keys -> {"unissued", "live", "revoked"}]
      /\ \A k \in SelfKeys : server[k] # "unissued" => server'[k] # "unissued"
  BY <1>2 DEF CredInv, TypeOK, Keys
<1>. QED
  BY <1>1, <1>3, EndsInv

-----------------------------------------------------------------------------
(* The save *)

\* What is to be saved was asked for.
LEMMA ChangedIsAsked ==
    ASSUME CredInv, NEW p \in Procs, pc[p] = "load" PROVE Asked(Changed(p, file))
<1>. USE DEF CredInv
<1>1. file \in Config /\ flags[p] \in Config /\ Asked(file)
  BY DEF TypeOK, OverridesStayOut
<1>2. CASE command[p] = "new"
  <2>1. subject[p] \in SelfKeys /\ server[subject[p]] # "unissued"
    BY <1>2 DEF CommandInv
  <2>. QED
    BY <1>1, <1>2, <2>1 DEF Changed, Asked, Config
<1>3. CASE command[p] = "revoke"
  BY <1>1, <1>3 DEF Changed, Asked, Config
<1>4. CASE command[p] \notin {"new", "revoke"}
  <2>1. \A f \in Fields : flags[p][f] \in given \cup {None}
    BY <1>4 DEF CommandInv, TypeOK, Commands
  <2>2. /\ flags[p].endpoint \in given \cup {None}
        /\ flags[p].key \in given \cup {None}
        /\ flags[p].secret \in given \cup {None}
    BY <1>1, <2>1, ConfigFields DEF Fields
  <2>. QED
    BY <1>1, <1>4, <2>2, OverIsConfig DEF Changed, Asked
<1>. QED
  BY <1>2, <1>3, <1>4

\* And no dead key is.
LEMMA ChangedIsLive ==
    ASSUME CredInv, KeyInv, NEW p \in Procs, pc[p] = "load",
           \A q \in Procs \ {p} : pc[q] = "idle"
    PROVE  ~Dead(Changed(p, file).key)
<1>. USE DEF CredInv
<1>1. file \in Config /\ flags[p] \in Config
  BY DEF TypeOK
<1>2. CASE command[p] = "new"
  BY <1>1, <1>2 DEF Changed, Config, KeyInv
<1>3. CASE command[p] = "revoke"
  BY <1>1, <1>3 DEF Changed, Config, Dead
<1>4. CASE command[p] \notin {"new", "revoke"}
  <2>1. ~Dead(flags[p].key) /\ ~Dead(file.key)
    BY <1>4 DEF KeyInv, TypeOK, Commands
  <2>. QED
    BY <1>1, <1>4, <2>1, OverIsConfig DEF Changed
<1>. QED
  BY <1>2, <1>3, <1>4

LEMMA LoadInv == ASSUME CredInv, NEW p \in Procs, Load(p) PROVE CredInv'
<1>. DEFINE conf == Changed(p, file)
<1>. USE DEF CredInv
<1>1. CASE command[p] = "init" /\ conf.endpoint = None
  <2>1. ~TwoProcesses /\ faults' = 0 => ~Dead(file.key)'
    BY <1>1, NoDeadKeyLeft DEF Load, Dead
  <2>. QED
    BY <1>1, <2>1, EndsInv DEF Load, ReadFile, TypeOK
<1>2. CASE ~(command[p] = "init" /\ conf.endpoint = None)
  <2>1. /\ pc[p] = "load"
        /\ pc' = [pc EXCEPT ![p] = "truncate"]
        /\ local' = [local EXCEPT ![p] = conf]
        /\ UNCHANGED <<command, flags, subject, base, file, server, given, faults>>
    BY <1>2 DEF Load, ReadFile
  <2>2. conf \in Config /\ Asked(conf)
    BY <2>1, ChangedIsConfig, ChangedIsAsked DEF TypeOK
  <2>. HIDE DEF conf
  <2>3. TypeOK'
    BY <2>1, <2>2 DEF TypeOK, States
  <2>4. OverridesStayOut'
    BY <2>1 DEF OverridesStayOut, Asked
  <2>5. ASSUME NEW q \in Procs PROVE CommandInv(q)'
    <3>1. CASE q = p
      BY <2>1, <2>2, <3>1 DEF TypeOK, CommandInv, Saving, Asked
    <3>2. CASE q # p
      BY <2>1, <3>2, OtherCommand DEF TypeOK
    <3>. QED
      BY <3>1, <3>2
  <2>6. ASSUME ~TwoProcesses PROVE AloneInv'
    <3>1. \A q \in Procs \ {p} : pc[q] = "idle"
      BY <2>1, <2>6 DEF AloneInv
    <3>2. faults = 0 => KeyInv'
      <4>. SUFFICES ASSUME faults = 0 PROVE KeyInv'
        OBVIOUS
      <4>1. KeyInv
        BY <2>6 DEF AloneInv
      <4>2. ~Dead(conf.key)
        BY <2>1, <3>1, <4>1, ChangedIsLive DEF conf
      <4>. QED
        BY <2>1, <3>1, <4>1, <4>2 DEF KeyInv, Dead, Saving, TypeOK
    <3>3. Kept(p, conf)
      BY <2>1, <2>6, ChangedIsKept DEF AloneInv, conf
    <3>. QED
      BY <2>1, <2>6, <3>1, <3>2, <3>3 DEF AloneInv, RestIsKept, Saving, TypeOK, Kept, Touched
  <2>. QED
    BY <2>3, <2>4, <2>5, <2>6
<1>. QED
  BY <1>1, <1>2

LEMMA TruncateInv == ASSUME CredInv, NEW p \in Procs, Truncate(p) PROVE CredInv'
<1>. USE DEF CredInv, Truncate
<1>1. TypeOK'
  BY BlankIsConfig DEF TypeOK, States
<1>2. OverridesStayOut'
  BY DEF OverridesStayOut, Asked, Blank
<1>3. ASSUME NEW q \in Procs PROVE CommandInv(q)'
  <2>1. CASE q = p
    BY <2>1 DEF TypeOK, CommandInv, Saving, Asked
  <2>2. CASE q # p
    BY <2>2, OtherCommand DEF TypeOK
  <2>. QED
    BY <2>1, <2>2
<1>4. ASSUME ~TwoProcesses PROVE AloneInv'
  <2>1. \A q \in Procs \ {p} : pc[q] = "idle"
    BY <1>4 DEF AloneInv
  <2>2. faults = 0 => KeyInv'
    BY <1>4, <2>1 DEF AloneInv, KeyInv, Dead, Saving, TypeOK, Blank
  <2>. QED
    BY <1>4, <2>1, <2>2 DEF AloneInv, RestIsKept, Saving, TypeOK, Kept, Touched
<1>. QED
  BY <1>1, <1>2, <1>3, <1>4

LEMMA WriteInv == ASSUME CredInv, NEW p \in Procs, Write(p) PROVE CredInv'
<1>. USE DEF CredInv, Write
<1>1. TypeOK'
  BY DEF TypeOK, States
<1>2. OverridesStayOut'
  BY DEF OverridesStayOut, Asked, CommandInv, Saving
<1>3. ASSUME NEW q \in Procs PROVE CommandInv(q)'
  <2>1. CASE q = p
    BY <2>1 DEF TypeOK, CommandInv, Saving, Asked
  <2>2. CASE q # p
    BY <2>2, OtherCommand DEF TypeOK
  <2>. QED
    BY <2>1, <2>2
<1>4. ASSUME ~TwoProcesses PROVE AloneInv'
  <2>1. \A q \in Procs \ {p} : pc[q] = "idle"
    BY <1>4 DEF AloneInv
  <2>2. faults = 0 => KeyInv'
    BY <1>4, <2>1 DEF AloneInv, KeyInv, Dead, Saving, TypeOK
  <2>. QED
    BY <1>4, <2>1, <2>2 DEF AloneInv, RestIsKept, Saving, TypeOK, Kept, Touched
<1>. QED
  BY <1>1, <1>2, <1>3, <1>4

-----------------------------------------------------------------------------
LEMMA NextInv == CredInv /\ [Next]_vars => CredInv'
<1>. SUFFICES ASSUME CredInv, [Next]_vars PROVE CredInv'
  OBVIOUS
<1>1. CASE UNCHANGED vars
  BY <1>1 DEF vars, procVars, CredInv, TypeOK, OverridesStayOut, Asked, CommandInv, Saving,
              AloneInv, KeyInv, Dead, RestIsKept, Kept, Touched
<1>2. CASE Next
  <2>1. PICK p \in Procs :
           \/ \E c \in Commands, f \in Config : Give(p, c, f)
           \/ \E k \in SelfKeys : Register(p, k)
           \/ Revoke(p) \/ Refused(p)
           \/ Load(p) \/ Truncate(p) \/ Write(p) \/ Return(p)
           \/ Fail(p) \/ ReplyLost(p)
    BY <1>2 DEF Next
  <2>. QED
    BY <2>1, GiveInv, RegisterInv, RevokeInv, RefusedInv, LoadInv, TruncateInv, WriteInv,
       ReturnInv, FailInv, ReplyLostInv
<1>. QED
  BY <1>1, <1>2

\* A credential given by flag or environment for one command is never saved,
\* and only what was issued or given is, with any number of commands at a time
\* and wherever they fail.
THEOREM CredentialsInvariant == Spec => []CredInv
<1>. QED
  BY InitInv, NextInv, PTL DEF Spec

\* A command that says ok has changed the fields it is about and no other.
THEOREM SavesKeepTheRest == ASSUME ~TwoProcesses PROVE Spec => []RestIsKept
<1>1. CredInv => RestIsKept
  BY DEF CredInv, AloneInv
<1>. QED
  BY <1>1, CredentialsInvariant, PTL

\* While nothing has failed, no revoked key is left in the file.
THEOREM NoDeadKeyStays == ASSUME ~TwoProcesses PROVE Spec => []NoDeadKey
<1>1. CredInv => NoDeadKey
  BY DEF CredInv, AloneInv, KeyInv, NoDeadKey, Quiet, Dead
<1>. QED
  BY <1>1, CredentialsInvariant, PTL
=============================================================================
