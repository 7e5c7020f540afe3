--------------------------- MODULE MCCoreManager ---------------------------
(***************************************************************************)
(* Small instances of CoreManager for TLC.  The two properties below       *)
(* hold on the part of each behaviour before its first file-system or stop *)
(* fault; CoreManagerRetained.cfg and CoreManagerNoCore.cfg show how a     *)
(* fault breaks the first.                                                 *)
(***************************************************************************)
EXTENDS CoreManager

\* Until a fault occurs, the status published between two operations carries
\* the revision of the core the manager retains, and without a core it says
\* Stopped (manager/publish.rs, republish_retained and publish_terminal_error).
\* The state beside the revision is not claimed to be the core's:
\* CoreManagerTerminal.cfg shows it stale.
StatusUntilFault == faults = 0 => RetainedIsPublished /\ NoCoreNoActivity

\* Until a fault occurs, no in-place apply leaves its backup of the replaced
\* runtime file behind (manager/apply.rs, remove_backup).
BackupsUntilFault == faults = 0 => BackupsConsumed

=============================================================================
