---------------------------- MODULE MCFolderSync ----------------------------
\* FolderSync on two devices; a value of the constant Preserve.
EXTENDS FolderSync

CopyAndArchive == [d \in {1, 2} |-> IF d = 1 THEN "copy" ELSE "archive"]
============================================================================
