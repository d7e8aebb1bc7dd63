---------------------------- MODULE MCTorrentParking ----------------------------
EXTENDS TorrentParking
=============================================================================
