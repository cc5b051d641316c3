------------------------- MODULE MCLiveTrenArrivals -------------------------
(* Two branches of one station each.                                         *)
EXTENDS LiveTrenArrivals

MCRamales == <<1, 1>>
=============================================================================
