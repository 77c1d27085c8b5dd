------------------------------ MODULE StatusFile ------------------------------
(***************************************************************************)
(* The text that carries one wait status from the fork server's SIGCHLD    *)
(* handler to the supervisor.  The handler may not allocate, so it builds  *)
(* the file name and the decimal status digit by digit in fixed stack      *)
(* buffers (fork_server.rs, sigchld_handler); the supervisor formats the   *)
(* same name and parses the text back (supervisor.rs, reap_child).         *)
(* Text is a sequence of bytes.                                            *)
(***************************************************************************)
EXTENDS WaitStatus, FiniteSetsExt, SequencesExt

CONSTANT
    ChildPids   \* the pids for which the conversion is exercised

MaxPid == 2147483647   \* of a pid_t, an i32

ASSUME ChildPidsAssumption == ChildPids \subseteq 1..MaxPid

VARIABLES
    at,       \* "alive", "dead", "written" or "read"
    pid,      \* the child's process id, 0 before there is one
    ending,   \* how that process really ended
    path,     \* the digits of the name the handler opens
    text,     \* the contents of that file
    reason    \* what the supervisor makes of it

statusVars == <<at, pid, ending, path, text, reason>>

ZERO    == 48    \* b'0'
NEWLINE == 10    \* b'\n'

PathBuf   == 64                                   \* path_buf
TightDigitBuf == 8                                \* a bug: room for fewer digits
DigitBuf  == 16                                   \* digits, status_buf
PrefixLen == 20                                   \* Len("/tmp/sandbox-status-")

(***************************************************************************)
(* The handler's `while temp > 0` loop: least significant digit first.     *)
(***************************************************************************)
DigitLoop[n \in Nat] ==
    IF n = 0 THEN << >> ELSE <<ZERO + (n % 10)>> \o DigitLoop[n \div 10]

(* A bug: the digits are left in the order of the loop. *)
EmitDigitsBackwards(n) == IF n = 0 THEN <<ZERO>> ELSE DigitLoop[n]

(* Zero is a special case of the loop; the digits are then reversed. *)
EmitDigits(n) == IF n = 0 THEN <<ZERO>> ELSE Reverse(DigitLoop[n])

StatusText(status) == Append(EmitDigits(status), NEWLINE)

(***************************************************************************)
(* The supervisor's side: format!("{}", pid) and s.trim().parse().         *)
(***************************************************************************)
Decimal[n \in Nat] ==
    IF n < 10 THEN <<ZERO + n>> ELSE Append(Decimal[n \div 10], ZERO + (n % 10))

Trim(s) ==
    LET kept == {i \in DOMAIN s : s[i] # NEWLINE}
    IN  IF kept = {} THEN << >> ELSE SubSeq(s, Min(kept), Max(kept))

ParseDigits[s \in Seq(Int)] ==
    IF s = << >> THEN 0 ELSE 10 * ParseDigits[Front(s)] + (Last(s) - ZERO)

Parse(s) == ParseDigits[Trim(s)]

-----------------------------------------------------------------------------
NoStatusYet ==
    /\ at = "alive"
    /\ pid = 0
    /\ ending = Killed
    /\ path = << >>
    /\ text = << >>
    /\ reason = Reason("Pending", 0)

ChildEnds(e) ==
    /\ at = "alive"
    /\ at' = "dead"
    /\ ending' = e
    /\ UNCHANGED <<pid, path, text, reason>>

(* One turn of the handler's loop after waitpid returned pid. *)
HandlerWritesFile ==
    /\ at = "dead"
    /\ at' = "written"
    /\ path' = EmitDigits(pid)
    /\ text' = StatusText(KernelStatus(ending))
    /\ UNCHANGED <<pid, ending, reason>>

(* The supervisor finds the file only under the name it formats itself. *)
SupervisorReadsFile ==
    /\ at = "written"
    /\ at' = "read"
    /\ path = Decimal[pid]
    /\ reason' = DecodeStatus(Parse(text))
    /\ UNCHANGED <<pid, ending, path, text>>

-----------------------------------------------------------------------------
(***************************************************************************)
(* Whatever way the child ended, the reason that comes out of the file is  *)
(* the one for that ending: no digit is lost, swapped or misread, a core   *)
(* dump is not taken for another signal, and SIGSYS alone is a seccomp     *)
(* violation (sigchld_handler and reap_child taken together).              *)
(***************************************************************************)
ReasonIsTrue == at = "read" => reason = TrueReason(ending)

(***************************************************************************)
(* The fixed buffers are never overrun: the path needs its prefix, the     *)
(* digits and a NUL in path_buf, the status its digits and a newline in    *)
(* status_buf (sigchld_handler indexes both without any check of its own). *)
(***************************************************************************)
BuffersSuffice ==
    at \in {"written", "read"} =>
        /\ Len(path) <= DigitBuf
        /\ PrefixLen + Len(path) + 1 <= PathBuf
        /\ Len(text) <= DigitBuf
=============================================================================
