-------------------------- MODULE MC_CacheWatcher --------------------------
(* Model-checking instance of CacheWatcher: two cluster set names, name 1  *)
(* exists and is visible to the user when the watch is created.            *)
EXTENDS CacheWatcher

MCInitStore == <<1, 0>>
MCInitAccess == {1}
=============================================================================
