----------------------------- MODULE MCTransport -----------------------------
(***************************************************************************)
(* Two motors, every command of the protocol, and as few buffers as the    *)
(* assumption allows.                                                      *)
(***************************************************************************)
EXTENDS LkmTransport

MCMotor == {"yaw", "pitch"}
MCFrame == {"stop", "on", "query", "pos"}
=============================================================================
