-------------------------- MODULE MCExecutionCache --------------------------
\* Instances of ExecutionCache for TLC.
EXTENDS ExecutionCache, TLC

CONSTANTS c1, c2, c3, d1, k1, k2, k3

OneHost == [k \in Keys |-> d1]

\* Keys of one document are alike: the key that Init chooses for a caller is
\* not read before its first call.
CallerSymmetry == Permutations(Callers)
CallerAndKeySymmetry == Permutations(Callers) \cup Permutations(Keys)
=============================================================================
