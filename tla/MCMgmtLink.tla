----------------------------- MODULE MCMgmtLink -----------------------------
EXTENDS MgmtLink, TLC

\* Nodes are interchangeable, and so are streams (and calls, which would make
\* the group larger than it saves).
Symmetric == Permutations(Nodes) \union Permutations(Streams)
=============================================================================
