---------------------------- MODULE MCXiConfigLane ----------------------------
\* Model-checking instance of XiConfigLane.
EXTENDS XiConfigLane, TLC

\* Clients are interchangeable.
LaneSymmetry == Permutations(Client)
===============================================================================
