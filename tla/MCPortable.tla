------------------------------ MODULE MCPortable ------------------------------
(* An encoder of sixteen counts, mounted backwards across its zero, and an *)
(* axis that covers most of a turn.                                        *)
EXTENDS PortableDriver

MCFitted == [center |-> 2, direction |-> -1, min |-> -6, max |-> 6]
MCConfigs == {MCFitted, [MCFitted EXCEPT !.direction = 0],
              [MCFitted EXCEPT !.max = -6]}
MCParked == {-5, 2}
MCTargets == {-6, 4, 7}
MCForeign == {9, 31}
=============================================================================
