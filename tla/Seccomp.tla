-------------------------------- MODULE Seccomp --------------------------------
(***************************************************************************)
(* The seccomp filter that load_filter (seccomp.rs) assembles, as the      *)
(* program it is: a sequence of BPF instructions with relative jumps, run  *)
(* by the kernel on one system call at a time.  What the program decides   *)
(* is compared with the policy its author states.                          *)
(*                                                                         *)
(* Words that only need to be told apart are small: AUDIT_ARCH_X86_64 is   *)
(* its ELF machine number, a return value is its name.  Of the first       *)
(* argument of a call the filter loads the low word only.                  *)
(*                                                                         *)
(* The machine stands by until a process that has the filter makes a call  *)
(* (Enter), and again when the call is decided (Leave); see ChildSetup.    *)
(***************************************************************************)
EXTENDS Integers, SequencesExt

CONSTANT
    Calls    \* the system calls tried: records with arch, nr, lo and hi

ASSUME CallsAssumption == Calls \subseteq [arch : Nat, nr : Nat, lo : Nat, hi : Nat]

VARIABLES
    call,      \* the system call being filtered
    pc, acc,   \* program counter and accumulator of the BPF machine
    verdict    \* what the filter returned, "none" before, "idle" without a call,
               \* "UNFILTERED" of a call made without a filter

filterVars == <<call, pc, acc, verdict>>

X86_64  == 62            \* AUDIT_ARCH_X86_64
AF_UNIX == 1
NEWUSER == 268435456     \* CLONE_NEWUSER, bit 28

SOCKET  == 41
CLONE   == 56
CLONE3  == 435

(***************************************************************************)
(* libc's numbers, and the part of them that syscall_nr knows.             *)
(***************************************************************************)
KILL_SYSCALLS == << "ptrace", "process_vm_readv", "process_vm_writev",
                    "kexec_load", "kexec_file_load" >>

libc == [ptrace |-> 101, process_vm_readv |-> 310, process_vm_writev |-> 311,
         kexec_load |-> 246, kexec_file_load |-> 320]

syscall_nr == libc

(* The allowed calls, group by group and in the order of the list. *)
ProcessLifecycle == << 59, 322, 60, 231, 39, 110, 186, 218, 158 >>

MemoryManagement == << 12, 9, 11, 10, 25, 28, 26, 27, 149, 150 >>

(* A bug: write is forgotten. *)
BasicFileIOWithoutWrite == << 0, 19, 20, 17, 18, 2, 257, 85, 3, 436, 8 >>

BasicFileIO     == << 0, 1, 19, 20, 17, 18, 2, 257, 85, 3, 436, 8 >>
FileMetadata    == << 4, 5, 6, 262, 332, 21, 269, 439, 89, 267, 137, 138 >>
FileDescriptors == << 32, 33, 292, 22, 293, 72, 16 >>

Directories ==
    << 78, 217, 80, 81, 79, 83, 258, 84, 82, 264, 316, 87, 263, 88, 266, 86, 265, 90,
       91, 268, 92, 93, 94, 260, 132, 235, 261, 280, 76, 77, 40, 285, 73, 74, 75 >>

Signals         == << 13, 14, 15, 128, 127, 131, 62, 234, 200 >>
Threading       == << CLONE, 202, 449, 274, 273 >>
Time            == << 35, 230, 228, 229, 96, 201, 100, 38, 36, 37 >>
Multiplexing    == << 23, 270, 7, 271, 213, 291, 233, 232, 281, 441 >>
Wait            == << 61, 247 >>

Networking ==
    << SOCKET, 49, 42, 50, 43, 288, 44, 45, 46, 47, 307, 299, 48, 51, 52, 55, 54, 53 >>

Identity        == << 102, 104, 107, 108, 115, 111, 121, 124 >>
ResourceLimits  == << 97, 302, 160, 98 >>
Scheduling      == << 24, 204, 145, 146, 147, 140 >>

Misc ==
    << 324, 334, 63, 318, 319, 284, 290, 283, 286, 287, 294, 254, 255, 99, 157, 317 >>

ALLOWED_SYSCALL_NRS ==
    ProcessLifecycle \o MemoryManagement \o BasicFileIO \o FileMetadata
    \o FileDescriptors \o Directories \o Signals \o Threading \o Time
    \o Multiplexing \o Wait \o Networking \o Identity \o ResourceLimits
    \o Scheduling \o Misc

-----------------------------------------------------------------------------
(* Instructions: stmt and jump of the source. *)
Load(field)     == [op |-> "load", field |-> field]
Ret(v)          == [op |-> "ret", value |-> v]
Jump(test, k, jt, jf) == [op |-> "jump", test |-> test, k |-> k, jt |-> jt, jf |-> jf]
Jeq(k, jt, jf)  == Jump("eq", k, jt, jf)
Jset(k, jt, jf) == Jump("set", k, jt, jf)

(* One rule per number: if equal, return v, else skip the return. *)
Rules(nrs, v) ==
    [i \in 1..(2 * Len(nrs)) |->
        IF i % 2 = 1 THEN Jeq(nrs[(i + 1) \div 2], 0, 1) ELSE Ret(v)]

ArchRule == << Load("arch"), Jeq(X86_64, 1, 0), Ret("KILL_PROCESS"), Load("nr") >>

(* A name without a number gets no rule. *)
KillRule(name) ==
    IF name \in DOMAIN syscall_nr
    THEN << Jeq(syscall_nr[name], 0, 1), Ret("KILL_PROCESS") >> ELSE << >>

(* The loop over the list. *)
KillRules ==
    KillRule(KILL_SYSCALLS[1]) \o KillRule(KILL_SYSCALLS[2]) \o KillRule(KILL_SYSCALLS[3])
    \o KillRule(KILL_SYSCALLS[4]) \o KillRule(KILL_SYSCALLS[5])

(* A bug: one instruction too many is skipped, as the comment above says. *)
SocketRuleSkipsFive ==
    << Jeq(SOCKET, 0, 5), Load("lo"), Jeq(AF_UNIX, 1, 0), Ret("EACCES"), Load("nr") >>

SocketRule ==
    << Jeq(SOCKET, 0, 4), Load("lo"), Jeq(AF_UNIX, 1, 0), Ret("EACCES"), Load("nr") >>

(* A bug: the two jump offsets of the test for CLONE_NEWUSER are swapped. *)
CloneRuleSwapped ==
    << Jeq(CLONE, 0, 4), Load("lo"), Jset(NEWUSER, 1, 0), Ret("EPERM"), Load("nr") >>

CloneRule ==
    << Jeq(CLONE, 0, 4), Load("lo"), Jset(NEWUSER, 0, 1), Ret("EPERM"), Load("nr") >>

Clone3Rule == << Jeq(CLONE3, 0, 1), Ret("ENOSYS") >>

AllowRules == Rules(ALLOWED_SYSCALL_NRS, "ALLOW")

Program == ArchRule \o KillRules \o SocketRule \o CloneRule \o Clone3Rule
              \o AllowRules \o << Ret("EPERM") >>

-----------------------------------------------------------------------------
(* The BPF machine of the kernel. *)
NoCall == [arch |-> 0, nr |-> 0, lo |-> 0, hi |-> 0]

Standby == call = NoCall /\ pc = 1 /\ acc = 0 /\ verdict = "idle"

Enter(c) ==
    /\ verdict = "idle"
    /\ verdict' = "none"
    /\ call' = c
    /\ UNCHANGED <<pc, acc>>

Decided == verdict \notin {"idle", "none"}

Leave ==
    /\ Decided
    /\ call' = NoCall /\ pc' = 1 /\ acc' = 0 /\ verdict' = "idle"

Fetch(op) == verdict = "none" /\ Program[pc].op = op

ExecLoad ==
    /\ Fetch("load")
    /\ acc' = call[Program[pc].field]
    /\ pc' = pc + 1
    /\ UNCHANGED <<call, verdict>>

(* Whether the only bit of the power of two k is set in n. *)
BitSet(n, k) == (n \div k) % 2 = 1

ExecJump ==
    /\ Fetch("jump")
    /\ LET i     == Program[pc]
           taken == IF i.test = "eq" THEN acc = i.k ELSE BitSet(acc, i.k)
       IN  pc' = pc + 1 + (IF taken THEN i.jt ELSE i.jf)
    /\ UNCHANGED <<call, acc, verdict>>

ExecRet ==
    /\ Fetch("ret")
    /\ verdict' = Program[pc].value
    /\ UNCHANGED <<call, pc, acc>>

FilterStep == ExecLoad \/ ExecJump \/ ExecRet

-----------------------------------------------------------------------------
(***************************************************************************)
(* The policy at the head of seccomp.rs, without instructions or order of  *)
(* evaluation beyond "more specific first".                                *)
(***************************************************************************)
Policy(c) ==
    CASE c.arch # X86_64 \/ c.nr \in {libc[n] : n \in Range(KILL_SYSCALLS)} -> "KILL_PROCESS"
      [] c.arch = X86_64 /\ c.nr = SOCKET /\ c.lo # AF_UNIX       -> "EACCES"
      [] c.arch = X86_64 /\ c.nr = CLONE /\ BitSet(c.lo, NEWUSER) -> "EPERM"
      [] c.arch = X86_64 /\ c.nr = CLONE3                         -> "ENOSYS"
      [] OTHER -> IF c.nr \in Range(ALLOWED_SYSCALL_NRS) THEN "ALLOW" ELSE "EPERM"

(***************************************************************************)
(* The program decides as the policy says: no jump skips a rule, lands in  *)
(* another one or leaves the program, and no rule after an argument was    *)
(* loaded takes the argument for the number of the call (load_filter).     *)
(***************************************************************************)
FilterDecides ==
    /\ pc \in 1..Len(Program)
    /\ Decided /\ verdict # "UNFILTERED" => verdict = Policy(call)

(***************************************************************************)
(* No call that makes or enters a user namespace is let through: clone     *)
(* with the flag, clone3 whose flags are out of the filter's sight,        *)
(* unshare and setns (the reason given for the rules about clone).         *)
(***************************************************************************)
UNSHARE == 272
SETNS   == 308

NoNewUserNamespace ==
    verdict = "ALLOW" =>
        /\ call.nr \notin {CLONE3, UNSHARE, SETNS}
        /\ call.nr = CLONE => ~BitSet(call.lo, NEWUSER)
===============================================================================
