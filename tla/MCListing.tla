------------------------------ MODULE MCListing ------------------------------
(* Listing for the model checker: one reply of each kind that is told apart. *)
EXTENDS Listing

Reply(c, s) == [code |-> c, status |-> s]

SomeReplies == {Reply("validation_failed", 422), Reply("rate_limited", 429),
                Reply("unavailable", 503), Reply("bad_response", 502),
                Reply("bad_response", 200)}
=============================================================================
