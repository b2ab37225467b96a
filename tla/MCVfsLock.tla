------------------------------ MODULE MCVfsLock ------------------------------
\* The instances of VfsLock that TLC checks; the constants are in the cfg files.
EXTENDS VfsLock
=============================================================================
