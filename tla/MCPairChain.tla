----------------------------- MODULE MCPairChain -----------------------------
(* PairChain on small instances.                                             *)
EXTENDS PairChain

AllFaults == {"partial", "raise", "crash"}

\* A chain of two pairs, in either order, and a triangle.
Chains == {<< <<"P", "Q">>, <<"Q", "R">> >>,
           << <<"Q", "R">>, <<"P", "Q">> >>,
           << <<"P", "Q">>, <<"Q", "R">>, <<"P", "R">> >>}

ASSUME HeadsOfLines
=============================================================================
