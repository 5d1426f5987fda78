-------------------------- MODULE MCSignalService --------------------------
EXTENDS SignalService, TLC

\* Calls, accounts and rooms are interchangeable: sound for the safety run.
Symmetry == Permutations(Conns) \cup Permutations(Accounts) \cup Permutations(Rooms)

=============================================================================
