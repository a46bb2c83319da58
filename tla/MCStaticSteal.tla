--------------------------- MODULE MCStaticSteal ---------------------------
\* Small teams for TLC.
EXTENDS StaticSteal

\* For three threads: the first thread of the second loop has one chunk more.
TwoLoops == <<4, 12>>

===========================================================================
