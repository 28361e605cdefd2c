------------------------------ MODULE MCFiles ------------------------------
EXTENDS Files

\* A file of each directory, so that none can be renamed.
PathsDef == [dir : Dirs, name : {"f"}]

MaxRequestsDef == [p \in {"files", "viewer"} |-> 1]
=============================================================================
