--------------------------- MODULE MCSettingWrites ---------------------------
(***************************************************************************)
(* Instances of SettingWrites: a handful of writes to one switch.          *)
(***************************************************************************)
EXTENDS SettingWrites, TLC

(* Sixteen of the twenty switches go by the key their setting has.         *)
MCNameOf == [k \in Keys |-> k]

(* obstacle_avoidance, traction_control, weather_rain, rain_delay_mode do  *)
(* not: NavimowSwitch displays obstacle_avoid under obstacle_avoidance.    *)
MCObstacleAvoid == [k \in Keys |-> CHOOSE n \in Names : TRUE]

WriteSymmetry == Permutations(Writes)
=============================================================================
