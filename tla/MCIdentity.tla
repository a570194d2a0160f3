------------------------------ MODULE MCIdentity ------------------------------
(* Identity for TLC: every call in a row, from nothing and with the            *)
(* environment's identity; registrations that arrive late; and calls that      *)
(* overlap: declarations, the first calls of all, two sidecars.                *)
EXTENDS Identity

Edited(kind, given, caps, price, replace) ==
  [kind |-> kind, given |-> given, caps |-> caps, price |-> price,
   replace |-> replace]

Add     == Edited("caps", TRUE, {"x"}, 0, FALSE)
Replace == Edited("caps", TRUE, {"x"}, 0, TRUE)
Dear    == Edited("route", FALSE, {}, 2, FALSE)
TooDear == Edited("route", FALSE, {}, 3, TRUE)
Reset   == Edited("route", FALSE, {}, 0, TRUE)
Empty   == Edited("route", TRUE, {}, 0, FALSE)

Serial == [env |-> FALSE, overlap |-> FALSE, late |-> FALSE, stored |-> FALSE,
           calls |-> Calls, edits |-> {Add, Replace, Dear, TooDear, Reset, Empty},
           faults |-> 2]

FromEnv == [Serial EXCEPT !.env = TRUE, !.stored = TRUE, !.faults = 1]

Late == [Serial EXCEPT !.late = TRUE, !.stored = TRUE, !.faults = 1,
                       !.calls = {"sync", "edit"}, !.edits = {Add, Dear}]

Overlap(stored, calls) ==
  [Serial EXCEPT !.overlap = TRUE, !.stored = stored, !.faults = 1,
                 !.calls = calls, !.edits = {Add, Dear}]

MCScenarios ==
  {Serial, FromEnv, Late, Overlap(TRUE, {"sync", "edit"}),
   Overlap(FALSE, {"identity"}), Overlap(TRUE, {"sidecar"})}

MCConfigured == {"general", "mcp"}
=============================================================================
