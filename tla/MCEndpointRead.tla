---------------------------- MODULE MCEndpointRead ----------------------------
EXTENDS EndpointRead, TLC

Symmetry == Permutations(Buffers)
===============================================================================
