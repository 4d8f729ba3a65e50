------------------------------- MODULE Listing -------------------------------
(***************************************************************************)
(* The command "list": GET /v1/prompts page by page, over the transport,   *)
(* while prompts become public and are taken down.                         *)
(*                                                                         *)
(* The cursor is an offset into the public prompts in the order of their   *)
(* ids, and ids are random: what is published or taken down before the     *)
(* offset moves everything behind it by one place.                         *)
(***************************************************************************)
EXTENDS Transport

CONSTANTS
    Ids,       \* ordered as the ids of prompts are
    Asked,     \* limit in the query
    MaxLimit,  \* what handleList clamps it to, 100
    MaxPages   \* maxAllPages, 50

ASSUME ListingAssumption ==
    /\ Ids \subseteq Nat
    /\ IsFiniteSet(Ids)
    /\ Asked \in Nat \ {0}
    /\ MaxLimit \in Nat \ {0}
    /\ MaxPages \in Nat \ {0}

VARIABLES
    public,      \* prompts approved or featured
    all,         \* --all
    offset,      \* what the cursor stands for
    more,        \* has_more of the page last received
    pages,
    listed,      \* items: by id how often
    start, came, gone  \* history: public when the command began, published and
                       \* taken down since

listVars == <<public, all, offset, more, pages, listed, start, came, gone>>
vars == <<callVars, listVars>>

ListTypeOK ==
    /\ TransportTypeOK
    /\ {public, start, came, gone} \subseteq SUBSET Ids
    /\ {all, more} \subseteq BOOLEAN
    /\ offset \in Nat
    /\ pages \in 0 .. MaxPages
    /\ listed \in [Ids -> Nat]

Init ==
    /\ TransportInit
    /\ public \in SUBSET Ids
    /\ all \in BOOLEAN
    /\ offset = 0
    /\ more = FALSE
    /\ pages = 0
    /\ listed = [p \in Ids |-> 0]
    /\ start = public
    /\ came = {}
    /\ gone = {}

-----------------------------------------------------------------------------
Limit == IF Asked > MaxLimit THEN MaxLimit ELSE Asked

(* Plausible bugs, used to test the properties below *)

CursorBehindAsked(from) == from + Asked
HasMoreThanAsked(from) == Cardinality(public) > from + Asked
OnPageUntrimmed(from, p) ==
    p \in public /\ Cardinality({q \in public : q < p}) \in from .. from + Limit

-----------------------------------------------------------------------------
(* The handler *)

\* Where p stands in ORDER BY id.
Place(p, set) == Cardinality({q \in set : q < p})

\* LIMIT limit OFFSET from, the row more than the page cut off.
OnPage(from, p) == p \in public /\ Place(p, public) \in from .. from + Limit - 1

\* That row was there.
HasMore(from) == Cardinality(public) > from + Limit

\* EncodeCursor(offset + limit).
NextOffset(from) == from + Limit

-----------------------------------------------------------------------------
(* The catalogue *)

Since(set, p) == IF stage = "idle" THEN {} ELSE set \cup {p}

Publish(p) ==
    /\ p \in Ids \ public
    /\ public' = public \cup {p}
    /\ came' = Since(came, p)
    /\ start' = IF stage = "idle" THEN public' ELSE start
    /\ UNCHANGED <<callVars, all, offset, more, pages, listed, gone>>

TakeDown(p) ==
    /\ p \in public
    /\ public' = public \ {p}
    /\ gone' = Since(gone, p)
    /\ start' = IF stage = "idle" THEN public' ELSE start
    /\ UNCHANGED <<callVars, all, offset, more, pages, listed, came>>

-----------------------------------------------------------------------------
(* The command *)

\* The page is read and arrives; its items are appended.
ListPage ==
    /\ ~write
    /\ Answer
    /\ listed' = [p \in Ids |-> listed[p] + (IF OnPage(offset, p) THEN 1 ELSE 0)]
    /\ more' = HasMore(offset)
    /\ pages' = pages + 1
    /\ UNCHANGED <<public, all, offset, start, came, gone>>

WriteAnswer == write /\ Answer /\ UNCHANGED listVars

\* The loop of --all goes on while there is more, up to the limit of pages; behind that
\* it ends well too, with a note that --quiet keeps back.
GoesOn == all /\ more /\ pages < MaxPages

NextPage ==
    /\ GoesOn
    /\ NextCall
    /\ offset' = NextOffset(offset)
    /\ UNCHANGED <<public, all, more, pages, listed, start, came, gone>>

ListDone ==
    /\ write \/ ~GoesOn
    /\ Finish
    /\ UNCHANGED listVars

Process ==
    \/ (Begin \/ Attempt \/ TimesOut \/ Wake \/ CutShort \/ Tick) /\ UNCHANGED listVars
    \/ NextPage
    \/ ListDone

Environment ==
    \/ (ConnectionFails \/ Signal) /\ UNCHANGED listVars
    \/ \E r \in Replies : AnswerError(r) /\ UNCHANGED listVars
    \/ \E a \in wire : (PerformUnheard(a) \/ LoseRequest(a)) /\ UNCHANGED listVars
    \/ ListPage
    \/ WriteAnswer
    \/ \E p \in Ids : Publish(p) \/ TakeDown(p)

Next == Process \/ Environment

Spec == Init /\ [][Next]_vars

\* The process is scheduled and its timers fire; nothing is asked of the network.
FairSpec == Spec /\ WF_vars(Process)

-----------------------------------------------------------------------------
(* Properties *)

\* What was public all the while is public; idle, nothing has happened.
HistoryInv ==
    /\ start \ gone \subseteq public
    /\ stage = "idle" =>
          /\ start = public /\ came = {} /\ gone = {}
          /\ offset = 0 /\ listed = [p \in Ids |-> 0]

\* The places before this one have been looked at.
Seen == offset + (IF stage = "answered" \/ outcome = "ok" THEN Limit ELSE 0)

\* A prompt that nothing has moved forward is listed or still to come; one that
\* nothing has moved back was listed once at most, and its place is behind.
SeenInv ==
    \A p \in Ids :
        /\ ~write /\ p \in start \ gone /\ listed[p] = 0 =>
              \/ \E q \in gone : q < p
              \/ Place(p, public) >= Seen /\ (Seen > offset => more)
        /\ listed[p] > 0 =>
              \/ \E q \in came : q < p
              \/ listed[p] = 1 /\ Place(p, public) < Seen

\* A page more is asked for only below the limit; success means that none is due.
\* The pages received are those before the place reached.
PagesInv ==
    /\ stage \in {"idle", "ready", "flying", "pausing"} => pages < MaxPages
    /\ ~write => Seen = pages * Limit
    /\ outcome = "ok" /\ ~write => ~GoesOn

\* Types, and what the properties below rest on: it is inductive.
ListInv == ListTypeOK /\ WireInv /\ HistoryInv /\ SeenInv /\ PagesInv

\* Safety of writes: a command that changes something is performed at most
\* once, however often it fails, and an answer that refuses it means that it
\* has not been and will not be performed, even by a request still under way.
Promise == INSTANCE RemoteWrite WITH
    done <- IF write THEN done ELSE 0,
    told <- Told
ImplementsRemoteWrite == Promise!Spec

Succeeded == stage = "ended" /\ outcome = "ok" /\ ~write

\* A list that ends well leaves out a prompt that was public all the while only if one
\* before it was taken down meanwhile, or its place is behind all pages asked for: there
\* was more, and that was the one page, or with --all the last that it asks for.
NothingSkipped ==
    Succeeded => \A p \in start \ gone :
        \/ listed[p] > 0
        \/ \E q \in gone : q < p
        \/ more /\ (all => pages = MaxPages) /\ Place(p, public) >= pages * Limit

\* A prompt is listed twice only if one before it was published meanwhile.
NothingRepeated ==
    \A p \in Ids : listed[p] > 1 => \E q \in came : q < p

\* list --all goes on to the end (cli.go:96).
AllIsToTheEnd == Succeeded /\ all => ~more

\* A read that is rate limited is sent again before the command gives up.
LimitedIsRetried ==
    [][stage = "flying" /\ outcome' = "rate_limited" => write \/ attempt = Attempts]_vars

\* A command that has begun ends, whatever becomes of its requests.
CommandEnds == stage = "ready" ~> stage = "ended"
=============================================================================
