------------------------- MODULE MCTenantLifecycle -------------------------
EXTENDS TenantLifecycle, TLC

\* Groups, handlers and job slots are interchangeable.
Symmetric == Permutations(Groups) \union Permutations(Handlers)
=============================================================================
