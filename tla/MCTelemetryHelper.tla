-------------------------- MODULE MCTelemetryHelper --------------------------
(* Four machines for TLC: an Intel host with packages 0 and 1, one with       *)
(* packages 1 and 10, an AMD host with one package and indistinguishable      *)
(* sensors, and one of unknown topology.                                      *)
EXTENDS TelemetryHelper

Own == [path |-> "hwmon0/temp1", driver |-> "coretemp", word |-> "package", id |-> 1, home |-> 1]
Other == [path |-> "hwmon1/temp1", driver |-> "coretemp", word |-> "package", id |-> 0, home |-> 0]
Tenth == [Other EXCEPT !.id = 10, !.home = 10]
Zone == [path |-> "thermal_zone0", driver |-> "x86_pkg_temp", word |-> "pkg", id |-> -1, home |-> 0]
Tctl == [path |-> "hwmon0/temp1", driver |-> "k10temp", word |-> "tctl", id |-> -1, home |-> 0]
Twin == [path |-> "hwmon1/temp1", driver |-> "k10temp", word |-> "tctl", id |-> -1, home |-> 0]

TwoPackages == [zones |-> {Zone}, hwmon |-> {Own, Other}, package |-> 1, packages |-> 2]
OneAndTen == [zones |-> {}, hwmon |-> {Own, Tenth}, package |-> 1, packages |-> 2]
TwinSensors == [zones |-> {}, hwmon |-> {Tctl, Twin}, package |-> 0, packages |-> 1]
UnknownPackage == [TwinSensors EXCEPT !.package = -1, !.packages = 0]

MCHosts == {TwoPackages, OneAndTen, TwinSensors, UnknownPackage}
=============================================================================
