------------------------ MODULE MCSnapshotReadiness ------------------------
EXTENDS SnapshotReadiness
CONSTANTS b1, b2
=============================================================================
