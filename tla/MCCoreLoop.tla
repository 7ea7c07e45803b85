------------------------------ MODULE MCCoreLoop ------------------------------
\* Model-checking instance of CoreLoop.
EXTENDS CoreLoop, TLC

\* Clients are interchangeable (used by the runs without liveness).
ClientSymmetry == Permutations(Client)
===============================================================================
