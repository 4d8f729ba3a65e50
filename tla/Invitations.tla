---------------------------- MODULE Invitations ----------------------------
(***************************************************************************)
(* What self-service registration promises, whatever the interleaving: an  *)
(* invitation lets in at most as many devices as it was made for, and no   *)
(* device is let in twice.  KeyRegistry implements this.                   *)
(***************************************************************************)
EXTENDS Naturals, FiniteSets

CONSTANTS Codes, Devices,
          Limits  \* numbers of devices an invitation may be made for

VARIABLES
    limit,   \* by code: devices it may let in, 0 before it is made
    grants   \* by code: devices it has let in

invVars == <<limit, grants>>

Admitted == UNION {grants[c] : c \in Codes}

InvInit ==
    /\ limit = [c \in Codes |-> 0]
    /\ grants = [c \in Codes |-> {}]

Make(c, n) ==
    /\ limit[c] = 0
    /\ limit' = [limit EXCEPT ![c] = n]
    /\ UNCHANGED grants

Admit(c, d) ==
    /\ d \notin Admitted
    /\ Cardinality(grants[c]) < limit[c]
    /\ grants' = [grants EXCEPT ![c] = @ \cup {d}]
    /\ UNCHANGED limit

InvNext ==
    \E c \in Codes :
        \/ \E n \in Limits : Make(c, n)
        \/ \E d \in Devices : Admit(c, d)

InvSpec == InvInit /\ [][InvNext]_invVars
=============================================================================
