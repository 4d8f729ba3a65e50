--------------------------- MODULE MCPromptStore ---------------------------
EXTENDS PromptStore, TLC

CONSTANTS t1, t1b, t2, c1, c2

\* t1 and t1b differ in white space only.
MCDigestOf == [t \in Texts |-> IF t = t1b THEN t1 ELSE t]

Sent(t, c) == [text |-> t, client |-> c]

\* A new client id for each text, and the same one when a text is sent again.
FromCLI == {Sent(t1, c1), Sent(t2, c2), Sent(t1b, None), Sent(t2, None)} \cap
           [text: Texts, client: Clients \cup {None}]

\* The web site sends the client id of the browser with every text.
FromBrowser == {Sent(t1, c1), Sent(t2, c1)}

StoreSymmetry == Permutations(Ids) \cup Permutations(Calls) \cup Permutations(Devices)
=============================================================================
