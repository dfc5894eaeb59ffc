--------------------------- MODULE MCGpuMetrics ---------------------------
(* GpuMetrics on small instances.                                          *)
EXTENDS GpuMetrics

CONSTANTS short, long

MCCoarsest == -3

MCLonger == {<<long, short>>}
=============================================================================
