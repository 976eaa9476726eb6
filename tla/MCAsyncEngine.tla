---------------------------- MODULE MCAsyncEngine ----------------------------
EXTENDS AsyncEngine

\* ServedStreamsEnd and QueuesAreForgotten promise nothing once shutdown() was
\* called, and the flag is never taken back: only a behaviour without it can
\* refute them.
NeverShutSpec == Init /\ [][Next /\ UNCHANGED shut]_vars /\ Fairness
=============================================================================
