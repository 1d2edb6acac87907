--------------------------- MODULE MCScanRequests ---------------------------
\* ScanRequests for one folder.
EXTENDS ScanRequests
=============================================================================
