----------------------------- MODULE MCService -----------------------------
(***************************************************************************)
(* The service's three concerns between its IPC clients and the manager,   *)
(* one per behaviour: the status stream, the adapter's control operations, *)
(* and the path of a request and its answer. A behaviour picks its concern *)
(* at the start; the other two stay at rest.                               *)
(***************************************************************************)
EXTENDS StatusStream, ServiceControl, IpcCall

VARIABLE concern

serviceVars == <<concern, streamVars, controlVars, ipcVars>>

Init ==
    /\ concern \in {"stream", "control", "ipc"}
    /\ StreamInit /\ ControlInit /\ IpcInit

Next ==
    /\ UNCHANGED concern
    /\ \/ concern = "stream" /\ StreamNext /\ UNCHANGED <<controlVars, ipcVars>>
       \/ concern = "control" /\ ControlNext /\ UNCHANGED <<streamVars, ipcVars>>
       \/ concern = "ipc" /\ IpcNext /\ UNCHANGED <<streamVars, controlVars>>

Spec == Init /\ [][Next]_serviceVars /\ StreamFairness /\ ControlFairness

=============================================================================
