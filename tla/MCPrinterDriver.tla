--------------------------- MODULE MCPrinterDriver ---------------------------
(* PrinterDriver on a small instance.  The sends, commands, network drops   *)
(* and the disconnect of a behaviour share one budget.  The bridge looks at a publication before anything else happens.  *)
(* The sends are interchangeable: "s2" is the later one, made while "s1" is *)
(* under way or cancelled; a printer that has ended a print is as good as an *)
(* idle one for them.  Commands and drops of a U1 are the Moonraker driver's *)
(* it wraps, and are left to that kind.                                     *)
EXTENDS PrinterDriver, TLC

CONSTANT Budget

Spent == Cardinality({s \in Sends : sendPc[s] # "idle"}) + drops
           + (IF cmd.pc = "idle" THEN 0 ELSE 1)
           + (IF loop # "none" /\ purpose = "live" /\ life # "up" THEN 1 ELSE 0)
MCNext ==
    IF purpose = "live" /\ "bridge" \in unseen
      THEN BridgeSteps /\ UNCHANGED <<sendVars, cmd>>
      ELSE /\ DriverNext /\ Spent' <= Budget
           /\ \A s \in Sends : sendPc[s] = "idle" /\ sendPc'[s] # "idle" =>
                /\ shown.job = "idle"
                /\ s = "s2" => sendPc["s1"] \notin {"idle", "ok", "err"}
           /\ kind = "u1" => cmd'.pc = "idle" /\ drops' = 0
MCSpec == DriverInit /\ [][MCNext]_driverVars /\ DriverFairness
=============================================================================
