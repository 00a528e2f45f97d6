-------------------------- MODULE MCEsp32Firmware --------------------------
(***************************************************************************)
(* Esp32Firmware for TLC: a SYNC_CONFIG declares everything available, or  *)
(* everything but one tank's auxiliary valve.                              *)
(***************************************************************************)
EXTENDS Esp32Firmware

Everything == [bombas |-> Kinds, valvulas |-> Valves, acoplamentos |-> Tanks]
MissingOne == [Everything EXCEPT !.valvulas = Valves \ {<<"AUXILIAR", CHOOSE t \in Tanks : TRUE>>}]
MCConfigs == {Everything, MissingOne}
=============================================================================
