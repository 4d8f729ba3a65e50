------------------------------- MODULE Replica -------------------------------
(***************************************************************************)
(* What synchronisation promises, without hashes, seconds, pages or        *)
(* statements.  A client's copy agrees with the catalogue but for the rows *)
(* that are due, those its next round will bring.  A row becomes due when  *)
(* it is changed in the catalogue and stays so until a round ends with the *)
(* copy right; only rows that are due are ever touched, and they are given *)
(* versions that have been public, or removed.  Before its first round,    *)
(* and after a purge, everything is due.                                   *)
(***************************************************************************)
EXTENDS Naturals

CONSTANTS Ids, Clients

VARIABLES
    public,  \* by id the version the catalogue shows, 0 for none
    shown,   \* by id the versions that have been public
    copy,    \* by client and id the version held, 0 for none
    due      \* by client the ids the next round will bring

replicaVars == <<public, shown, copy, due>>

Views == [Ids -> Nat]
Nothing == [p \in Ids |-> 0]

ReplicaInit ==
    /\ public = Nothing
    /\ shown = [p \in Ids |-> {}]
    /\ copy = [c \in Clients |-> Nothing]
    /\ due = [c \in Clients |-> Ids]

\* A review: the row is due for everybody.
Change(p) ==
    /\ UNCHANGED copy
    /\ public' \in Views
    /\ public' = [public EXCEPT ![p] = public'[p]]
    /\ shown' = [shown EXCEPT ![p] = @ \cup ({public'[p]} \ {0})]
    /\ due' = [c \in Clients |-> due[c] \cup {p}]

\* Rows that are due arrive, as they are or were, or are removed.
Receive(c) ==
    /\ UNCHANGED <<shown, public, due>>
    /\ copy' \in [Clients -> Views]
    /\ copy' = [copy EXCEPT ![c] = copy'[c]]
    /\ \A p \in Ids : copy'[c][p] # copy[c][p] =>
          p \in due[c] /\ copy'[c][p] \in shown[p] \cup {0}

\* A round ends: what is no longer due is right.
Finish(c) ==
    /\ UNCHANGED <<copy, shown, public>>
    /\ due'[c] \subseteq Ids
    /\ due' = [due EXCEPT ![c] = due'[c]]
    /\ \A p \in Ids \ due'[c] : copy[c][p] = public[p]

\* Purge.
Forget(c) ==
    /\ copy' = [copy EXCEPT ![c] = Nothing]
    /\ due' = [due EXCEPT ![c] = Ids]
    /\ UNCHANGED <<shown, public>>

ReplicaNext ==
    \/ \E c \in Clients : Receive(c) \/ Finish(c) \/ Forget(c)
    \/ \E p \in Ids : Change(p)

ReplicaSpec == ReplicaInit /\ [][ReplicaNext]_replicaVars

\* What this amounts to: a copy is right in every row that is not due.
RightUnlessDue ==
    \A c \in Clients : \A p \in Ids \ due[c] : copy[c][p] = public[p]
=============================================================================
