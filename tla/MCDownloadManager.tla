------------------------- MODULE MCDownloadManager -------------------------
EXTENDS DownloadManager, TLC

Perms == Permutations(Variants) \cup Permutations(Cancellers)
=============================================================================
