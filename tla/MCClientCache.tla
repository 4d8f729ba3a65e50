---------------------------- MODULE MCClientCache ----------------------------
(* ClientCache for the model checker: interchangeable prompts and device    *)
(* ids, and a bound on what is done with a third prompt.                    *)
EXTENDS ClientCache, TLC

CacheSymmetry == Permutations(Ids) \cup Permutations(Devices)

\* Any two prompts are read, synchronised and edited at will; once there is a
\* third, Random draws from all of them, which makes its window overflow.
ThirdIsDrawn ==
    (\A p \in Ids : server[p].version > 0) =>
        /\ \A p \in Ids : server[p].version <= 2 /\ tag[p] = None
        /\ \A c \in Procs : call[c].op \in {"none", "random", "purge"}
=============================================================================
