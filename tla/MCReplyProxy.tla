----------------------------- MODULE MCReplyProxy -----------------------------
EXTENDS ReplyProxy

\* Topics, requesters and pumps are interchangeable: sound for safety only.
Symmetry == Permutations(Topic) \cup Permutations(SiteTopic) \cup Permutations(Pump)

=============================================================================
