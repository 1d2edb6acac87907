-------------------------- MODULE MCHeldDeletions --------------------------
\* HeldDeletions for one folder.
EXTENDS HeldDeletions
============================================================================
