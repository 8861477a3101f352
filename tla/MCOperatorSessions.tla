--------------------------- MODULE MCOperatorSessions --------------------------
\* Two accounts, three attempts, three disturbances.
EXTENDS OperatorSessions, TLC

CONSTANTS alice, bob

MCAccounts == {alice, bob}

Symmetry == Permutations(MCAccounts)

===============================================================================
