----------------------------- MODULE MCTorrentSync -----------------------------
EXTENDS TorrentSync

Symmetry == Permutations(Torrents)
=============================================================================
