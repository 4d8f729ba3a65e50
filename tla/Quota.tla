------------------------------- MODULE Quota -------------------------------
(***************************************************************************)
(* What a limiter with fixed windows promises, whatever the order in which *)
(* its callers and its cleaning run: a bucket has one window at a time,    *)
(* the next is opened only when the last is over, and a window lets in at  *)
(* most as many calls as the bucket is worth.  RateLimiter implements it.  *)
(***************************************************************************)
EXTENDS Integers

CONSTANTS Keys, LimitOf, Win,
          Lag,   \* how late a window may be opened, or used, for a caller kept waiting
          None

VARIABLES now,
          window   \* by bucket: what the last window has let in, and when it ends

quotaVars == <<now, window>>

QuotaInit ==
    /\ now = 0
    /\ window = [k \in Keys |-> None]

Over(k) == window[k] = None \/ now > window[k].until

Open(k) ==
    /\ Over(k)
    /\ \E end \in (now + Win - Lag) .. (now + Win) :
          window' = [window EXCEPT ![k] = [count |-> 1, until |-> end]]
    /\ UNCHANGED now

Use(k) ==
    /\ window[k] # None
    /\ now <= window[k].until + Lag
    /\ window[k].count < LimitOf[k]
    /\ window' = [window EXCEPT ![k].count = @ + 1]
    /\ UNCHANGED now

Pass == now' = now + 1 /\ UNCHANGED window

QuotaNext == Pass \/ \E k \in Keys : Open(k) \/ Use(k)

QuotaSpec == QuotaInit /\ [][QuotaNext]_quotaVars
=============================================================================
