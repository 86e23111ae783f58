--------------------------- MODULE MCAuthSessions ---------------------------
EXTENDS AuthSessions, TLC

MCSymmetry == Permutations(Sessions) \cup Permutations(Requests)
             \cup Permutations(Passwords)
=============================================================================
