------------------------------- MODULE MCServer -------------------------------
(***************************************************************************)
(* Instances of Server: two demo plates and their legacy forms.  The        *)
(* databases found are new, or of the first release: with both legacy       *)
(* plates, with one of them beside another vehicle, or beside a vehicle     *)
(* that already has the plate migration 2 would give.                       *)
(***************************************************************************)
EXTENDS Server

MCModern(p) == IF p = "old 1" THEN "demo 1" ELSE "demo 2"

Old(vehicles) == [version |-> 1, vehicles |-> vehicles, route |-> TRUE,
                  driver |-> TRUE, certs |-> 2, operator |-> TRUE]
New(version, vehicles) ==
    [version |-> version, vehicles |-> vehicles, route |-> FALSE,
     driver |-> FALSE, certs |-> 0, operator |-> FALSE]

MCFound == {New(0, {}), Old({"old 1", "old 2"}),
            Old({"old 2", "other"}), Old({"old 1", "demo 1"})}

=============================================================================
