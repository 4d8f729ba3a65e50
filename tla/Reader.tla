-------------------------------- MODULE Reader --------------------------------
(***************************************************************************)
(* A client without a cache (Options.NoCache): a Get or a Meta is answered *)
(* with what the server had to show at one moment between the call and its *)
(* return, or it fails.  The cache of ClientCache must not be noticed.     *)
(***************************************************************************)
EXTENDS Served

CONSTANT Procs  \* concurrent callers

VARIABLES
    asked,  \* by caller: the resource asked for, None between calls
    got     \* by caller: the answer, None before there is one

readerVars == <<server, asked, got>>

ReaderInit ==
    /\ ServedInit
    /\ asked = [c \in Procs |-> None]
    /\ got = [c \in Procs |-> None]

Publish ==
    /\ \E p \in Ids, public \in BOOLEAN : Change(p, public)
    /\ UNCHANGED <<asked, got>>

Ask(c, r) ==
    /\ asked[c] = None
    /\ asked' = [asked EXCEPT ![c] = r]
    /\ UNCHANGED <<server, got>>

Answer(c) ==
    /\ asked[c] # None /\ got[c] = None
    /\ Found(asked[c])
    /\ got' = [got EXCEPT ![c] = Shown(asked[c])]
    /\ UNCHANGED <<server, asked>>

\* The call returns its answer, or an error.
Return(c) ==
    /\ asked[c] # None
    /\ asked' = [asked EXCEPT ![c] = None]
    /\ got' = [got EXCEPT ![c] = None]
    /\ UNCHANGED server

ReaderNext ==
    \/ Publish
    \/ \E c \in Procs :
          \/ \E r \in Resources : Ask(c, r)
          \/ Answer(c)
          \/ Return(c)

ReaderSpec == ReaderInit /\ [][ReaderNext]_readerVars
=============================================================================
