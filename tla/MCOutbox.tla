------------------------------ MODULE MCOutbox ------------------------------
EXTENDS Outbox, TLC
CONSTANTS k1, k2, c1, c2, u1, u2, r1
AllSteps == Steps
\* One step of each stretch in which a crash leaves the same rows and objects behind.
CrashPoints == {"put", "commit", "send", "record", "final"}
Symmetry == Permutations(Users) \cup Permutations(Contents)
=============================================================================
