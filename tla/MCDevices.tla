------------------------------------ MODULE MCDevices --------------------------------------
(***************************************************************************)
(* What talks to a printer besides its driver, in one run: comp is the part *)
(* that is at work, the others stay as they start.  The spools: two units   *)
(* of two trays, two PLAs that share the generic SKU, one PETG, one spool   *)
(* with a SKU of its own, a custom filament based on the PETG.  The         *)
(* instances: one printer, a connection to one with an AMS and one to a     *)
(* printer with none.                                                       *)
(***************************************************************************)
EXTENDS MoonrakerSession, CameraStream, U1Pairing, SpoolSync, PrinterInstances

CONSTANTS Budget,     \* acts of the user on the spools, or on the instances
          FirstConns  \* how a printer may be set up at the start

VARIABLES comp, acts

MCFilaments == {<<"">>, <<"PLA">>, <<"PETG">>}

MCFragments ==
    [pla   |-> [sku |-> "G1", type |-> "PLA"],  silk  |-> [sku |-> "G1", type |-> "PLA"],
     petg  |-> [sku |-> "G2", type |-> "PETG"], basic |-> [sku |-> "A1", type |-> "PLA"]]
MCCustoms == [mine |-> "petg"]
MCGeneric == [PLA |-> "pla", PETG |-> "petg"]
MCAmsUnits == [c \in Conns |-> IF c = "hostA" THEN 2 ELSE 0]

Init ==
    /\ comp \in {"session", "camera", "pairing", "spools", "instances"} /\ acts = 0
    /\ SessionInit /\ (comp # "session" => transport = "ws")
    /\ CameraInit /\ PairingInit /\ SpoolInit
    /\ InstancesInit
    /\ \A i \in Ids : inst[i].conn \in IF comp = "instances" THEN FirstConns ELSE {"absent"}
Acts(part) == comp = part /\ acts < Budget /\ acts' = acts + 1
Next ==
    \/ /\ \/ /\ comp = "session" /\ SessionNext
             /\ UNCHANGED <<acts, cameraVars, pairingVars, spoolVars, instVars>>
          \/ /\ comp = "camera" /\ CameraNext
             /\ UNCHANGED <<acts, sessionVars, pairingVars, spoolVars, instVars>>
          \/ /\ comp = "pairing" /\ PairingNext
             /\ UNCHANGED <<acts, sessionVars, cameraVars, spoolVars, instVars>>
          \/ /\ Acts("spools") /\ SpoolUserActs
             /\ UNCHANGED <<sessionVars, cameraVars, pairingVars, instVars>>
          \/ /\ comp = "spools" /\ SpoolSteps
             /\ UNCHANGED <<acts, sessionVars, cameraVars, pairingVars, instVars>>
          \/ /\ Acts("instances") /\ UserActs
             /\ UNCHANGED <<sessionVars, cameraVars, pairingVars, spoolVars>>
          \/ /\ comp = "instances" /\ OtherSteps
             /\ UNCHANGED <<acts, sessionVars, cameraVars, pairingVars, spoolVars>>
       /\ UNCHANGED comp
vars == <<comp, acts, sessionVars, cameraVars, pairingVars, spoolVars, instVars>>

\* InstancesFairness, while the instances are the part at work.
AtWork == comp = "instances"
RegistryFairness ==
    /\ WF_instVars(AtWork /\ Work) /\ WF_instVars(AtWork /\ HandleReport)
    /\ \A i \in Ids : WF_instVars(AtWork /\ Report(i))
Spec == Init /\ [][Next]_vars /\ SessionFairness /\ CameraFairness /\ RegistryFairness
============================================================================================
