----------------------------- MODULE MCDevices -----------------------------
(* Values of the constants of Devices. *)
EXTENDS Devices

\* Two sensors of one device.
MCDeviceOf == <<1, 1>>
MCPlaces == {<<1, 1>>, <<1, 2>>}
MCUnassigned == <<1, 2>>
\* No search, and one for the first sensor.
MCSearches == {Keys, {1}}
\* Rows that make one floor wider than the other, and another plant beside them.
MCOthers == [k \in 7..9 |-> IF k = 7 THEN <<1, 1>> ELSE IF k = 8 THEN <<1, 2>> ELSE <<2, 1>>]
=============================================================================
