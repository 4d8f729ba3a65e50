-------------------------------- MODULE Served --------------------------------
(***************************************************************************)
(* The public prompts as the read handlers serve them: GET /v1/prompts/    *)
(* {id}, /v1/prompts/random and /v1/meta.  Nothing but an operator's       *)
(* command changes what they answer, and it always makes a new version.    *)
(*                                                                         *)
(* An answer is a view, as in Catalog: by id the version it shows, 0 for a *)
(* prompt it does not.  The answer about one prompt shows that prompt, the *)
(* answer to /v1/meta carries the hash of the whole catalogue.  The ETag   *)
(* of an answer is "id:v<version>" or that hash: it determines the answer, *)
(* so the answer stands for its ETag too.                                  *)
(***************************************************************************)
EXTENDS Naturals, FiniteSets

CONSTANTS
    Ids,        \* prompt ids
    Meta,       \* the resource /v1/meta
    None,       \* no value
    MaxVersion  \* bound of the model: last version of a prompt

Resources == Ids \cup {Meta}
Views == [Ids -> Nat]

ASSUME ServedAssumption ==
    /\ Meta \notin Ids
    /\ None \notin Resources \cup Views
    /\ MaxVersion \in Nat

VARIABLE server  \* table prompts: by id the version, and whether it is public

ServerRows == [version: Nat, public: BOOLEAN]

ServedInit == server = [p \in Ids |-> [version |-> 0, public |-> FALSE]]

\* An upload (version 1, pending), or an operator's -approve or -reject.
Change(p, public) ==
    /\ server[p].version < MaxVersion
    /\ server[p].version = 0 => ~public
    /\ server' = [server EXCEPT ![p] = [version |-> @.version + 1, public |-> public]]

Public(p) == server[p].public

\* What the resource r shows now.
Shown(r) ==
    [p \in Ids |-> IF r \in {p, Meta} /\ Public(p) THEN server[p].version ELSE 0]

\* GetApproved finds no row that is not public: 404.
Found(r) == r \in Ids => Public(r)
=============================================================================
