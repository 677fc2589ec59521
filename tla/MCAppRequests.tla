---------------------------- MODULE MCAppRequests ----------------------------
(* AppRequests on small instances.                                           *)
EXTENDS AppRequests, TLC

AppFaults == {"partial", "raise", "crash", "torn"}

OnePair == {<< <<"P", "Q">> >>}

\* From lists that are equal, edits and requests make them differ; three of them
\* in all, or one and a fault.
MCAppSpec ==
    /\ AppInit /\ \A p, q \in Providers : lists[p] = lists[q]
    /\ [][AppNext /\ (requests + edits + 2 * faults)' <= 3]_allVars

\* Threads are alike.
AppSymmetry == Permutations(Threads)

\* All but the history that only properties of PairChain read.
AppView == <<lists, pairs, files, pc, cur, locals, gone, edits, faults, appVars>>
=============================================================================
