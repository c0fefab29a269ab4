---------------------------- MODULE MCBacklight ----------------------------
(* A panel of five values, dimmed to a quarter in three steps, or to a half *)
(* at once, and two devices, the second preferred to the first.             *)
EXTENDS Backlight
MCDevices == {"acpi_video0", "amdgpu_bl0"}
MCRank == [d \in MCDevices |-> IF d = "amdgpu_bl0" THEN 0 ELSE 1]
MCNameOrder == [d \in MCDevices |-> IF d = "amdgpu_bl0" THEN 2 ELSE 1]
MCPercents == {25}
MCTunings == {[minPercent |-> 0, steps |-> 3], [minPercent |-> 50, steps |-> 1]}
=============================================================================
