---------------------------- MODULE AutoRecords ----------------------------
(***************************************************************************)
(* What schedule(auto) keeps for the whole program: the search that was    *)
(* asked for and a record for each place that holds a loop.                *)
(***************************************************************************)
EXTENDS AutoSearch

CONSTANTS
    Places,         \* places in the program that hold a loop
    Options,        \* chunk arguments of schedule(auto), 2 .. 15
    None

VARIABLES
    option,         \* OMP_SCHEDULE=auto,option
    rec             \* autoLoopData; an unused record is as new
===========================================================================
