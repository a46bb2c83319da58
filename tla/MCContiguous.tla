--------------------------- MODULE MCContiguous ---------------------------
\* The instances of MCSelfScheduling in which no chunk number wraps around.
EXTENDS MCSelfScheduling, ContiguousChunks
===========================================================================
