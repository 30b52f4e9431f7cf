---------------------------- MODULE MCReplyShutdown ----------------------------
EXTENDS ReplyShutdown

\* Topics and pumps are interchangeable.
Symmetry == Permutations(Topic) \cup Permutations(Pump)

=============================================================================
