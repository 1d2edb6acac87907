---------------------------- MODULE MCPeerRounds ----------------------------
\* PeerRounds for two devices: one that syncs on its ticker and after changes,
\* one whose operator asks for rounds.
EXTENDS PeerRounds

MCThreads == <<{"tick", "kick"}, {"manual"}>>
MCMaxChanges == <<2, 0>>
=============================================================================
