---------------------------- MODULE MCScanGates ----------------------------
\* ScanGates on small folders.
EXTENDS ScanGates
============================================================================
