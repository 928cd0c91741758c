---------------------------- MODULE MCGameRoom ----------------------------
EXTENDS GameRoom, TLC

\* Players are not: some are kept apart.
InterchangeableThings == Permutations(Androids) \cup Permutations(Items)
                            \cup Permutations(Tables)
=============================================================================
