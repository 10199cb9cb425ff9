----------------------- MODULE MCCollaborationSession -----------------------
EXTENDS CollaborationSession, TLC

CONSTANTS ada, bob
Pair == Permutations({ada, bob})
==============================================================================
