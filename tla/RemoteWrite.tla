----------------------------- MODULE RemoteWrite -----------------------------
(***************************************************************************)
(* What a command that changes something on the server promises to the     *)
(* person who runs it, whatever the network does:                          *)
(*                                                                         *)
(*   - the change is made once or not at all;                              *)
(*   - "ok" is said after the change was made;                             *)
(*   - "refused" is said only when it was not made, and never will be;     *)
(*   - anything else leaves the question open: the change may have been    *)
(*     made, and may still be made after the command has ended.            *)
(***************************************************************************)
EXTENDS Naturals

VARIABLES
    done,  \* how often the change was made
    told   \* what the command said

promiseVars == <<done, told>>

Verdicts == {"nothing", "ok", "refused", "unknown"}

Init == done = 0 /\ told = "nothing"

\* The server makes the change, late in the third case.
Perform ==
    /\ told \in {"nothing", "unknown"}
    /\ done = 0
    /\ done' = 1
    /\ UNCHANGED told

\* The command ends; making the change and hearing of it may be one step.
Tell ==
    /\ told = "nothing"
    /\ done' \in {done, 1}
    /\ \/ told' = "ok" /\ done' = 1
       \/ told' = "refused" /\ done' = 0
       \/ told' = "unknown"

Next == Perform \/ Tell

Spec == Init /\ [][Next]_promiseVars
=============================================================================
