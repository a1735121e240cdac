-------------------------- MODULE MCLinuxInterface --------------------------
EXTENDS LinuxInterface, TLC

CONSTANTS e1, e2

\* The second alternate setting has one endpoint more, and the first in common.
MCEndpointsOf == 0 :> {e1} @@ 1 :> {e1, e2}

Symmetry == Permutations(Threads) \union Permutations(Opened)
=============================================================================
