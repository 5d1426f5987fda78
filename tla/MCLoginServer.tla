---------------------------- MODULE MCLoginServer ----------------------------
EXTENDS LoginServer, TLC

\* Calls, names and passwords are only compared for equality.
Symmetry == Permutations(Calls) \cup Permutations(Names) \cup Permutations(Pwds)

=============================================================================
