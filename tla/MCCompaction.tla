--------------------------- MODULE MCCompaction -----------------------------
EXTENDS Compaction
=============================================================================
