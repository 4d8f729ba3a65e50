---------------------------- MODULE MCAdmission -----------------------------
(* Admission for the model checker: a shed endpoint without a quota, and the *)
(* endpoint keys, asked for with a key on one route and without on another.  *)
EXTENDS Admission, TLC

CONSTANT ReadLimit, WriteLimit  \* calls per window by address, and by key

MCEndpointOf == [r \in Routes |-> IF r \in {"register", "self"} THEN "keys" ELSE r]

KeyHolder == {[ip |-> "a", name |-> "n"]}

MCCallers == KeyHolder \cup {[ip |-> "a", name |-> NoKey]}

MCLimitOf ==
    [k \in Buckets |-> IF k.endpoint = "delta" THEN 0
                       ELSE IF k.tier = "auth" THEN WriteLimit ELSE ReadLimit]

CallSymmetry == Permutations(Calls)
=============================================================================
