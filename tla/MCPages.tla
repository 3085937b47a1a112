------------------------------ MODULE MCPages ------------------------------
\* The routes the pages may find, and the providers' priorities, for TLC.
EXTENDS RoutePages, TLC
MCRanks == [p \in Providers |-> p - 1]
MCFounding == {{Target(1, 1, 0, TRUE), Target(2, 1, 0, TRUE)}, {Target(1, 1, 0, TRUE), Target(2, 1, 1, FALSE)}}
MCOrdered == {{Target(1, 1, 0, TRUE), Target(2, 1, 1, FALSE)}}
Symmetry == Permutations(RouteTabs)
=============================================================================
