------------------------------ MODULE MCOrders ------------------------------
(* Small instances of Orders.tla for TLC, by the faults around the code. *)
EXTENDS Orders, TLC

AllFaults == {"overlap", "late", "lapse", "duplicate", "contradict", "slow", "outage",
              "lost", "select", "database", "restart"}

(* The bank calls back once, means it and recovers, the read of             *)
(* shouldVerifyOrder succeeds; the rest may go wrong.                        *)
ServerFaults == {"overlap", "lapse", "lost", "database", "restart"}

LongOutage == {"outage"}
=============================================================================
