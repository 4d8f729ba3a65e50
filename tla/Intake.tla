------------------------------- MODULE Intake -------------------------------
(***************************************************************************)
(* What POST /v1/prompts promises: a text (up to white space) is stored at *)
(* most once, and a client id is bound once and for all to the prompt it   *)
(* was answered with.  PromptStore implements this, its transactions being *)
(* the single steps below.                                                 *)
(***************************************************************************)
CONSTANTS Ids, Digests, Clients, None

VARIABLES
    digest,  \* by id: digest of the text stored under it, or None
    bound    \* by client id: the prompt it stands for, or None

intakeVars == <<digest, bound>>

Bind(c, i) ==
    /\ c # None => bound[c] = None
    /\ bound' = IF c = None THEN bound ELSE [bound EXCEPT ![c] = i]

IntakeInit ==
    /\ digest = [i \in Ids |-> None]
    /\ bound = [c \in Clients |-> None]

Store(d, c, i) ==
    /\ \A j \in Ids : digest[j] # d
    /\ digest[i] = None
    /\ digest' = [digest EXCEPT ![i] = d]
    /\ Bind(c, i)

Reuse(c, i) ==
    /\ digest[i] # None
    /\ Bind(c, i)
    /\ UNCHANGED digest

IntakeNext ==
    \E c \in Clients \cup {None}, i \in Ids :
        Reuse(c, i) \/ \E d \in Digests : Store(d, c, i)

IntakeSpec == IntakeInit /\ [][IntakeNext]_intakeVars
=============================================================================
