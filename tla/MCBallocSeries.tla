--------------------------- MODULE MCBallocSeries ---------------------------
(* The machine of MCBalloc with an empty memory map, for the calls that    *)
(* hand out several blocks.                                                *)
EXTENDS BallocSeries

MCFirmwareRegions == {}
MCOverrunContents == { {}, 12 .. 80 }
=============================================================================
