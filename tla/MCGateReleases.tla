--------------------------- MODULE MCGateReleases ---------------------------
\* GateReleases on one device and its peers.
EXTENDS GateReleases
=============================================================================
