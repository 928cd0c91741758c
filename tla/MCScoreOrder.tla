---------------------------- MODULE MCScoreOrder ----------------------------
EXTENDS ScoreOrder, TLC

\* Requests, nodes, players and order ids are interchangeable.
Interchangeable == Permutations(Requests) \cup Permutations(Nodes)
                      \cup Permutations(Users) \cup Permutations(Orders)

\* Game rounds only lose, so that scores stay bounded.
Losses == {-1}
=============================================================================
