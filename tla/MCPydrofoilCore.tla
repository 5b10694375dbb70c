--------------------------- MODULE MCPydrofoilCore ---------------------------
(* Instances of PydrofoilCore for TLC.  The addresses of the memory map are *)
(* scaled down so that each region and each boundary has one address:       *)
(* 0 below the window, 1 boot RAM, 2 the gap, 3 RAM, 4 in the window but    *)
(* not mapped (the window is wider than the default RAM), 5 above it.       *)
EXTENDS CoreProgress

MCAddr == 0 .. 5
MCData == {0, 1}
MCPCs == {1, 2}
=============================================================================
