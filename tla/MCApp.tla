-------------------------------- MODULE MCApp --------------------------------
(* A small instance of GimbalApp: one axis stands for both, since the      *)
(* application treats the two sliders alike.                               *)
EXTENDS GimbalApp

MCAxis == {"yaw"}
=============================================================================
