------------------------------ MODULE MCSandbox ------------------------------
(***************************************************************************)
(* Small instances of Sandbox for model checking: two concurrent calls     *)
(* where the parties can get in each other's way, one where a single call  *)
(* shows it.                                                               *)
(***************************************************************************)
EXTENDS SandboxInvariant, TLC

CONSTANTS j1, j2, p1, p2

(***************************************************************************)
(* Endings that exercise every branch of DecodeStatus: an exit code, a     *)
(* seccomp kill, another signal with a core dump.                          *)
(***************************************************************************)
MCExits == { [kind |-> "exit",   value |-> 1],
             [kind |-> "signal", value |-> SIGSYS],
             [kind |-> "core",   value |-> 11] }
OneExit == { [kind |-> "exit", value |-> 1] }

(***************************************************************************)
(* Every fault but two: where a pidfd cannot be watched or process ids are *)
(* reused, reports may be wrong (ReportsAreTrue assumes neither).          *)
(***************************************************************************)
AllFaults == EventKinds \ {"epoll", "recycle"}

(* Those two, and what diverts a call, its program or its status file. *)
Untimely == {"fds", "clone", "uid_map", "daemon", "tmp", "cancel", "epoll",
             "crash", "recycle"}

CancelOnly == {"cancel"}
DaemonOnly == {"daemon"}
NoEvents   == {}

Symmetry == Permutations({j1, j2}) \cup Permutations({p1, p2})
===============================================================================
