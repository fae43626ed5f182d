--------------------------- MODULE MCNotifications ---------------------------
EXTENDS Notifications, TLC

\* Destinations and credentials are interchangeable.
Values == Permutations(Dests) \cup Permutations(Tokens)
=============================================================================
