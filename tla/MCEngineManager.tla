--------------------------- MODULE MCEngineManager ---------------------------
EXTENDS EngineManager, TLC

Perms == Permutations(Models) \cup Permutations(Tasks)
=============================================================================
