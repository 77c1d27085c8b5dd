------------------------------ MODULE WaitStatus ------------------------------
(***************************************************************************)
(* How a process ends, the wait status the kernel reports for it, and the  *)
(* termination reason reap_child (supervisor.rs) derives from that status. *)
(* Everything here is a pure operator: the state machines use it for the   *)
(* integer that travels through /tmp/sandbox-status-<pid>.                 *)
(***************************************************************************)
EXTENDS Integers

SIGKILL == 9
SIGSYS  == 31

(***************************************************************************)
(* The ways a process can end.  "core" is a signal death that also dumped  *)
(* core (the kernel then sets bit 7 of the wait status).                   *)
(***************************************************************************)
Endings == [kind : {"exit"}, value : 0..255]
             \cup [kind : {"signal", "core"}, value : 1..64]

Killed == [kind |-> "signal", value |-> SIGKILL]

(***************************************************************************)
(* The status waitpid(2) stores for a terminated child.                    *)
(***************************************************************************)
KernelStatus(e) ==
    CASE e.kind = "exit"   -> 256 * e.value
      [] e.kind = "signal" -> e.value
      [] e.kind = "core"   -> 128 + e.value

Reason(t, v) == [tag |-> t, value |-> v]

(***************************************************************************)
(* supervisor.rs: `status & 0x7f` is `status % 128` and                    *)
(* `(status >> 8) & 0xff` is `(status \div 256) % 256` for the             *)
(* non-negative statuses the kernel produces.                              *)
(***************************************************************************)
DecodeStatus(status) ==
    LET sig == status % 128
    IN  IF sig = 0           THEN Reason("Exited", (status \div 256) % 256)
        ELSE IF sig = SIGSYS THEN Reason("SeccompViolation", 0)
        ELSE                      Reason("SignalKilled", sig)

(***************************************************************************)
(* What a caller expects to be told about an ending, stated without the    *)
(* encoding: the yardstick DecodeStatus is compared with.                  *)
(***************************************************************************)
TrueReason(e) ==
    CASE e.kind = "exit"                      -> Reason("Exited", e.value)
      [] e.kind # "exit" /\ e.value = SIGSYS  -> Reason("SeccompViolation", 0)
      [] e.kind # "exit" /\ e.value # SIGSYS  -> Reason("SignalKilled", e.value)
==============================================================================
