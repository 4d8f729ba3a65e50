---------------------------- MODULE MCCatalogSync ----------------------------
(* CatalogSync for the model checker: interchangeable clients.              *)
EXTENDS CatalogSync, TLC

ClientSymmetry == Permutations(Clients)

\* A bound of run sync: of two prompts one is reviewed as often as MaxVersion
\* allows, the other once less.
FewReviews ==
    \A p, q \in Ids : p # q => row[p].version + row[q].version < 2 * MaxVersion
=============================================================================
