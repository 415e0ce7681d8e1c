--------------------------- MODULE MC_WatchWiring ---------------------------
EXTENDS WatchWiring

CONSTANTS h1, w1, w2

MCHandlers == {h1}
MCWatchers == {w1, w2}
MCInitWatchers == {w1}
=============================================================================
