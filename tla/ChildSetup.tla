------------------------------ MODULE ChildSetup ------------------------------
(***************************************************************************)
(* The sandboxed child from clone3 to the calls of its program: child_run  *)
(* and child_setup (namespace.rs), mount::setup (mount.rs), apply_ruleset  *)
(* (landlock.rs), the report of a failure (error.rs), and the filter of    *)
(* module Seccomp, which decides every system call from its loading on.    *)
(*                                                                         *)
(* The order of the calls is the program's.  What a call needs, gives and  *)
(* takes away is the kernel's: the state of the process is the set "has"   *)
(* of facts that calls establish, with its table of descriptors.           *)
(***************************************************************************)
EXTENDS Seccomp, FiniteSetsExt

CONSTANTS
    Requests,    \* requests: extra mounts, max_open_files, place of argv[0]
    Inherited,   \* other descriptors the fork server may have open
    Abis,        \* versions of the Landlock ABI that kernels have, 0 for none
    MaxFd        \* the highest descriptor number of the instance

ASSUME RequestsAssumption ==
    Requests \subseteq [extra : BOOLEAN, nofile : Nat,
                        target : {"workspace", "extra", "missing"}]
(***************************************************************************)
(* UnixStream::pair takes the numbers 3 and 4, and the server keeps 4; the *)
(* others are those that a request can use.                                *)
(***************************************************************************)
ServerSocket == 4

FdNumbers == (3..MaxFd) \ {ServerSocket}

ASSUME InheritedAssumption == Inherited \subseteq SUBSET (5..MaxFd)
ASSUME AbisAssumption == Abis \subseteq Nat
ASSUME MaxFdAssumption == MaxFd \in Nat /\ MaxFd > ServerSocket

VARIABLES
    request,      \* ctx.req
    ctx,          \* the descriptor numbers in ChildContext
    abi,          \* the Landlock ABI of the kernel
    fault,        \* the call that fails for a reason outside the model, or "none"
    at,           \* where the child stands
    step,         \* how far child_setup has come
    has,          \* the facts that hold of the process
    fds, cloexec, \* its descriptors, and those with FD_CLOEXEC
    limit,        \* RLIMIT_NOFILE
    report        \* the stage the supervisor reads from the error pipe, or "none"

processVars == <<has, fds, cloexec, limit>>
vars == <<request, ctx, abi, fault, at, step, processVars, report, filterVars>>

-----------------------------------------------------------------------------
(* ChildStage, as numbered on the error pipe. *)
ChildStage ==
    [ WaitForMapping |-> 1, BreakPropagation |-> 2, BuildRootfs |-> 3,
      MountDevpts |-> 4, MountProc |-> 5, MountWorkspace |-> 6, MaskProc |-> 7,
      PivotRoot |-> 8, Landlock |-> 9, CapabilityDrop |-> 10,
      PtySlaveSetup |-> 11, NoNewPrivs |-> 12, Seccomp |-> 13, Exec |-> 14 ]

(* from_u8, and unwrap_or of the supervisor. *)
StageOf(byte) ==
    IF \E s \in DOMAIN ChildStage : ChildStage[s] = byte
    THEN CHOOSE s \in DOMAIN ChildStage : ChildStage[s] = byte
    ELSE "Exec"

(***************************************************************************)
(* The calls of child_setup in their order, each with the stage its        *)
(* failure is reported as.                                                 *)
(***************************************************************************)
Calling(stage, calls) ==
    [i \in 1..Len(calls) |-> [call |-> calls[i], stage |-> stage]]

create_scratch_root == Calling("BuildRootfs", << "mkdir_scratch" >>)

mask_proc_paths == Calling("MaskProc", << "make_masks", "bind_masks" >>)

MountTree ==
    Calling("BreakPropagation", << "make_private" >>)
    \o Calling("BuildRootfs", << "mount_tmpfs", "mkdirs", "mkdir_extra" >>)
    \o Calling("MountDevpts", << "mount_devpts", "bind_devices" >>)
    \o Calling("MountWorkspace", << "bind_workspace", "bind_extra", "remount_extra" >>)
    \o Calling("MountProc", << "mount_proc" >>)
    \o mask_proc_paths

(* A bug: chdir("/") after pivot_root is forgotten. *)
EnterRootKeepingCwd ==
    Calling("PivotRoot", << "mkdir_put_old", "pivot_root",
                            "rmdir_scratch", "umount_old", "rmdir_put_old" >>)

(* A bug: the scratch directory is removed when its path is gone. *)
EnterRootRemovingLate ==
    Calling("PivotRoot", << "mkdir_put_old", "pivot_root", "chdir",
                            "umount_old", "rmdir_scratch", "rmdir_put_old" >>)

EnterRoot ==
    Calling("PivotRoot", << "mkdir_put_old", "pivot_root", "chdir",
                            "rmdir_scratch", "umount_old", "rmdir_put_old" >>)

apply_ruleset ==
    Calling("Landlock", << "probe_abi", "create_ruleset", "add_rules", "restrict_self" >>)

(* Its failure has no stage of its own. *)
apply_rlimits == Calling("Exec", << "setrlimit" >>)

(* A bug: without CAP_SETPCAP no securebits can be set. *)
DropCapabilitiesFirst == Calling("CapabilityDrop", << "capset", "securebits" >>)

drop_capabilities == Calling("CapabilityDrop", << "securebits", "capset" >>)

(* A bug: the descriptor behind stderr stays open. *)
AttachStdioLeaking ==
    Calling("PtySlaveSetup", << "dup2_stdin", "dup2_stdout", "dup2_stderr",
                                "close_slave", "close_sync" >>)

AttachStdio ==
    Calling("PtySlaveSetup", << "dup2_stdin", "dup2_stdout", "dup2_stderr",
                                "close_slave", "close_stderr", "close_sync" >>)

Steps ==
    Calling("WaitForMapping", << "read_eventfd", "pdeathsig" >>)
    \o create_scratch_root \o MountTree \o EnterRoot
    \o apply_ruleset \o apply_rlimits \o drop_capabilities \o AttachStdio
    \o Calling("NoNewPrivs", << "no_new_privs", "dumpable" >>)
    \o Calling("Seccomp", << "load_filter" >>)
    \o Calling("Exec", << "execve" >>)

Now == Steps[step]

(* Calls made once per extra mount. *)
ForExtraMounts == {"mkdir_extra", "bind_extra", "remount_extra"}

(* Calls whose result nobody looks at. *)
Unchecked == {"pdeathsig", "rmdir_scratch", "close_slave", "close_stderr",
              "close_sync", "dumpable"}

-----------------------------------------------------------------------------
(***************************************************************************)
(* The bits of drop_capabilities, by number, and the kernel's names of the *)
(* bits with these numbers (linux/securebits.h).                           *)
(***************************************************************************)
SECBIT_NOROOT                 == 2
SECBIT_NOROOT_LOCKED          == 3
SECBIT_NO_SETUID_FIXUP        == 4
SECBIT_NO_SETUID_FIXUP_LOCKED == 5
SECBIT_KEEP_CAPS_LOCKED       == 1

secbits == { SECBIT_NOROOT, SECBIT_NOROOT_LOCKED, SECBIT_NO_SETUID_FIXUP,
             SECBIT_NO_SETUID_FIXUP_LOCKED, SECBIT_KEEP_CAPS_LOCKED }

SecureBit == << "noroot", "noroot_locked", "no_setuid_fixup",
                "no_setuid_fixup_locked", "keep_caps", "keep_caps_locked" >>

(* The kernel answers the probe with the version, or not at all. *)
AbiAccepted == abi >= 2

(***************************************************************************)
(* The ruleset: the accesses it handles, with the first ABI that knows     *)
(* them, and the paths of its rules, which must be there to be opened.     *)
(***************************************************************************)
HandledAccess ==
    [ ReadFile |-> 1, WriteFile |-> 1, ReadDir |-> 1, MakeReg |-> 1, RemoveFile |-> 1,
      Truncate |-> 3, MakeDir |-> 1, MakeSym |-> 1 ]

(* HardRequirement: what the kernel does not know makes the call fail. *)
HardRequirement == \A a \in DOMAIN HandledAccess : HandledAccess[a] <= abi

RulePaths == {"workspace", "dirs", "devices", "devpts", "proc"}
                \cup (IF request.extra THEN {"extra"} ELSE {})

(***************************************************************************)
(* What a call needs to succeed, and the facts it makes true and false.    *)
(* "admin" calls need capabilities of the user namespace and are denied to *)
(* a process under Landlock; host paths and paths below the new root       *)
(* resolve from the old root only; a mount of proc needs one in sight;     *)
(* mounting over a directory hides what was mounted below.                 *)
(***************************************************************************)
Effect(needs, gives, takes) == [needs |-> needs, gives |-> gives, takes |-> takes]
Gives(needs, gives) == Effect(needs, gives, {})

Admin == {"caps", "unlocked"}
Below == Admin \cup {"host_root", "tmpfs"}

Kernel ==
    [ read_eventfd   |-> Gives({}, {"mapped"}),
      pdeathsig      |-> Gives({}, {"armed"}),
      mkdir_scratch  |-> Gives({"mapped", "host_root"}, {"scratch"}),
      make_private   |-> Gives(Admin, {"private"}),
      mount_tmpfs    |-> Gives(Admin \cup {"host_root", "scratch"}, {"tmpfs"}),
      mkdirs         |-> Gives({"host_root", "tmpfs"}, {"dirs"}),
      mkdir_extra    |-> Gives({"host_root", "tmpfs"}, {"extra_dir"}),
      mount_devpts   |-> Gives(Below \cup {"dirs"}, {"devpts"}),
      bind_devices   |-> Gives(Below \cup {"dirs"}, {"devices"}),
      bind_workspace |-> Gives(Below \cup {"dirs"}, {"workspace"}),
      bind_extra     |-> Gives(Below \cup {"extra_dir"}, {"extra"}),
      remount_extra  |-> Gives(Below \cup {"extra"}, {"extra_ro"}),
      mount_proc     |-> Effect(Below \cup {"dirs"}, {"proc"}, {"masked"}),
      make_masks     |-> Gives({"host_root", "tmpfs", "dirs"}, {"masks"}),
      bind_masks     |-> Gives(Below \cup {"dirs", "masks"}, {"masked"}),
      mkdir_put_old  |-> Gives({"host_root", "tmpfs"}, {"put_old"}),
      pivot_root     |-> Effect(Below \cup {"private", "put_old"},
                                {"new_root", "old_root"}, {"host_root"}),
      chdir          |-> Gives({}, {"cwd_is_root"}),
      rmdir_scratch  |-> Effect({"old_root"}, {}, {"scratch"}),
      umount_old     |-> Effect(Admin \cup {"old_root"}, {}, {"old_root"}),
      rmdir_put_old  |-> Effect({"new_root"}, {}, {"put_old"}),
      probe_abi      |-> Gives({}, {}),
      create_ruleset |-> Gives({}, {"ruleset"}),
      add_rules      |-> Gives({"new_root", "ruleset"} \cup RulePaths, {"rules"}),
      restrict_self  |-> Effect({"ruleset"}, {"landlock", "nnp"}, {"ruleset", "unlocked"}),
      setrlimit      |-> Gives({}, {"limits"}),
      securebits     |-> Gives({"caps"}, {SecureBit[n + 1] : n \in secbits}),
      capset         |-> Effect({}, {}, {"caps"}),
      dup2_stdin     |-> Gives({}, {}),
      dup2_stdout    |-> Gives({}, {}),
      dup2_stderr    |-> Gives({}, {}),
      close_slave    |-> Gives({}, {}),
      close_stderr   |-> Gives({}, {}),
      close_sync     |-> Gives({}, {}),
      no_new_privs   |-> Gives({}, {"nnp"}),
      dumpable       |-> Gives({}, {"undumpable"}),
      load_filter    |-> Gives({"nnp"}, {"filter"}),
      execve         |-> Effect({"new_root", request.target}, {"program"},
                                {"keep_caps", "undumpable"}) ]

(* The descriptor calls: dup2(from, to) and close(fd). *)
Dup2 == [ dup2_stdin  |-> [from |-> ctx.slave,  to |-> 0],
          dup2_stdout |-> [from |-> ctx.slave,  to |-> 1],
          dup2_stderr |-> [from |-> ctx.stderr, to |-> 2] ]

Close == [ close_slave  |-> ctx.slave, close_stderr |-> ctx.stderr,
           close_sync   |-> ctx.sync ]

Dup2Possible(d) == fds[d.from] # "closed" /\ d.to < limit

(* A rule needs a descriptor of its path, next to that of the ruleset. *)
PathFdPossible == Cardinality({n \in DOMAIN fds : n < limit /\ fds[n] = "closed"}) >= 2

(* Whether the call c succeeds. *)
Granted(c) ==
    /\ fault # c
    /\ Kernel[c].needs \subseteq has
    /\ c \in DOMAIN Dup2 => Dup2Possible(Dup2[c])
    /\ c = "read_eventfd" => fds[ctx.sync] = "sync"
    /\ c = "probe_abi" => AbiAccepted
    /\ c = "create_ruleset" => HardRequirement
    /\ c = "add_rules" => PathFdPossible
    /\ c = "mkdir_put_old" => ~("put_old" \in has)
    /\ c = "rmdir_put_old" => ~("old_root" \in has)

(* A program of uid 0 gets the capabilities of uid 0, unless told not to. *)
Regained == IF {"noroot", "nnp"} \cap has = {} THEN {"caps"} ELSE {}

-----------------------------------------------------------------------------
(***************************************************************************)
(* The child's descriptors.  handle_one_request receives or opens them at  *)
(* the lowest numbers free in the fork server, which inherits 0 to 2 and   *)
(* has closed the host's end of the socket pair; the child then drops the  *)
(* ends it has no use for.                                                 *)
(***************************************************************************)
Opened == << "master", "slave", "sync", "error_rd", "error", "stderr_rd", "stderr" >>
Dropped == {"master", "error_rd", "stderr_rd"}

(* The table when the server has opened them, others being open before. *)
ServerTable(others) ==
    LET free    == FdNumbers \ others
        rank(n) == Cardinality({m \in free : m <= n})
    IN  [n \in 0..MaxFd |->
            CASE n < 3                                    -> "host"
              [] n = ServerSocket                         -> "socket"
              [] n \in others                             -> "inherited"
              [] n \in free /\ rank(n) <= Len(Opened)     -> Opened[rank(n)]
              [] n \in free /\ rank(n) > Len(Opened)      -> "closed"]

(* The ends that ChildContext names, with the numbers they have. *)
Contexts(table) ==
    {c \in [{"slave", "sync", "error", "stderr"} -> FdNumbers] :
        \A name \in DOMAIN c : table[c[name]] = name}

Init ==
    /\ request \in Requests
    /\ abi \in Abis
    /\ \E others \in Inherited :
          LET table == ServerTable(others)
          IN  /\ ctx \in Contexts(table)
              /\ fds = [n \in 0..MaxFd |-> IF table[n] \in Dropped THEN "closed" ELSE table[n]]
              /\ cloexec = others \cup {ctx.sync, ctx.error}
    /\ fault \in ({"none", "rmdir_scratch"} \cup DOMAIN Kernel) \ (Unchecked \ {"rmdir_scratch"})
    /\ at = "setup" /\ step = 1
    /\ has = {"caps", "unlocked", "host_root"}
    /\ limit = MaxFd + 1
    /\ report = "none"
    /\ Standby

-----------------------------------------------------------------------------
(* A call of child_setup, the last one excepted, and its result. *)
Skipped == Now.call \in ForExtraMounts /\ ~request.extra

InSetup == at = "setup" /\ Now.call # "execve" /\ ~Skipped

fixedVars == <<request, ctx, abi, fault>>

CallSucceeds ==
    /\ InSetup
    /\ Granted(Now.call)
    /\ step' = step + 1
    /\ has' = (has \ Kernel[Now.call].takes) \cup Kernel[Now.call].gives
    /\ limit' = IF Now.call = "setrlimit" THEN request.nofile ELSE limit
    /\ CASE Now.call \in DOMAIN Dup2 ->
              /\ fds' = [fds EXCEPT ![Dup2[Now.call].to] = fds[Dup2[Now.call].from]]
              /\ cloexec' = cloexec \ {Dup2[Now.call].to}
         [] Now.call \in DOMAIN Close ->
              /\ fds' = [fds EXCEPT ![Close[Now.call]] = "closed"]
              /\ UNCHANGED cloexec
         [] OTHER -> UNCHANGED <<fds, cloexec>>
    /\ UNCHANGED <<fixedVars, at, report, filterVars>>

(* The loops over the extra mounts, when there is none. *)
CallSkipped ==
    /\ at = "setup" /\ Skipped
    /\ step' = step + 1
    /\ UNCHANGED <<fixedVars, at, processVars, report, filterVars>>

CallIgnored ==
    /\ InSetup
    /\ ~Granted(Now.call) /\ Now.call \in Unchecked
    /\ step' = step + 1
    /\ UNCHANGED <<fixedVars, at, processVars, report, filterVars>>

CallFails ==
    /\ InSetup
    /\ ~Granted(Now.call) /\ Now.call \notin Unchecked
    /\ at' = "failed"
    /\ UNCHANGED <<fixedVars, step, processVars, report, filterVars>>

(***************************************************************************)
(* A system call of the child: through the filter, once it is loaded.      *)
(***************************************************************************)
SystemCall(nr) ==
    LET c == [arch |-> X86_64, nr |-> nr, lo |-> 0, hi |-> 0]
    IN  IF "filter" \in has
        THEN Enter(c)
        ELSE /\ verdict = "idle"
             /\ verdict' = "UNFILTERED"
             /\ call' = c
             /\ UNCHANGED <<pc, acc>>

EXECVE     == 59
WRITE      == 1
EXIT_GROUP == 231

(* The call from place p is decided: the child goes on to q, or is killed. *)
DecidedAt(p, q) ==
    /\ at = p
    /\ Leave
    /\ at' = IF verdict = "KILL_PROCESS" THEN "gone" ELSE q

ExecTarget ==
    /\ at = "setup" /\ Now.call = "execve"
    /\ SystemCall(EXECVE)
    /\ at' = "exec"
    /\ UNCHANGED <<fixedVars, step, processVars, report>>

LetThrough == verdict \in {"ALLOW", "UNFILTERED"}

Executed == LetThrough /\ Granted("execve")

ExecReturns ==
    /\ ~Executed
    /\ DecidedAt("exec", "failed")
    /\ UNCHANGED <<fixedVars, step, processVars, report>>

ExecSucceeds ==
    /\ Executed
    /\ DecidedAt("exec", "program")
    /\ has' = (has \ Kernel["execve"].takes) \cup Kernel["execve"].gives \cup Regained
    /\ fds' = [n \in DOMAIN fds |-> IF n \in cloexec THEN "closed" ELSE fds[n]]
    /\ cloexec' = {}
    /\ UNCHANGED <<fixedVars, step, limit, report>>

(* report_child_error: write the stage, then _exit(1). *)
ReportError ==
    /\ at = "failed"
    /\ SystemCall(WRITE)
    /\ at' = "write"
    /\ UNCHANGED <<fixedVars, step, processVars, report>>

ReportWritten ==
    /\ DecidedAt("write", "exit")
    /\ report' = IF LetThrough /\ fds[ctx.error] = "error"
                 THEN StageOf(ChildStage[Now.stage]) ELSE report
    /\ UNCHANGED <<fixedVars, step, processVars>>

ExitChild ==
    /\ at = "exit"
    /\ SystemCall(EXIT_GROUP)
    /\ at' = "exiting"
    /\ UNCHANGED <<fixedVars, step, processVars, report>>

(* Refused, _exit ends in an instruction that kills the process. *)
Exits ==
    /\ DecidedAt("exiting", "gone")
    /\ UNCHANGED <<fixedVars, step, processVars, report>>

(* The program makes any of its calls, and goes on unless it is killed. *)
ProgramCalls ==
    /\ at = "program"
    /\ \E c \in Calls : Enter(c)
    /\ at' = "call"
    /\ UNCHANGED <<fixedVars, step, processVars, report>>

ProgramGoesOn ==
    /\ DecidedAt("call", "program")
    /\ UNCHANGED <<fixedVars, step, processVars, report>>

Filtered ==
    /\ FilterStep
    /\ UNCHANGED <<fixedVars, at, step, processVars, report>>

Next ==
    \/ CallSucceeds \/ CallSkipped \/ CallIgnored \/ CallFails
    \/ ExecTarget \/ ExecReturns \/ ExecSucceeds
    \/ ReportError \/ ReportWritten \/ ExitChild \/ Exits
    \/ ProgramCalls \/ ProgramGoesOn \/ Filtered

Spec == Init /\ [][Next]_vars

-----------------------------------------------------------------------------
Failed == at \in {"failed", "write", "exit", "exiting"}

(* Requests that ask for nothing impossible, of a kernel that has it. *)
Satisfiable ==
    /\ request.nofile > 2
    /\ request.target = "extra" => request.extra
    /\ request.target # "missing"
    /\ HardRequirement

(***************************************************************************)
(* No call of child_setup takes from a later one what it needs, the filter *)
(* loaded before execve included: setup fails only where the environment   *)
(* makes a call fail, or the request cannot be met (child_setup,           *)
(* mount::setup, drop_capabilities, load_filter).                          *)
(***************************************************************************)
SetupFailsForCause == Failed => fault = Now.call \/ ~Satisfiable

(***************************************************************************)
(* A child that ends before its program began has told the supervisor the  *)
(* stage at which it failed; otherwise the end of file on the error pipe   *)
(* would pass for a successful execve (report_child_error, run).           *)
(***************************************************************************)
FailureIsReported ==
    at = "gone" /\ "program" \notin has => report = Now.stage

(***************************************************************************)
(* Nothing that setup established is undone by a later call, execve        *)
(* included: the program runs in the new root, with no way to the old one, *)
(* without capabilities, under Landlock, limits and filter, and dies with  *)
(* the fork server (child_setup).                                          *)
(***************************************************************************)
ProgramIsConfined ==
    at = "program" =>
        /\ {"new_root", "cwd_is_root", "masked", "rules", "landlock", "limits", "nnp",
            "filter", "armed"} \subseteq has
        /\ request.extra => "extra_ro" \in has
        /\ {"host_root", "old_root", "put_old", "caps", "unlocked"} \cap has = {}

(***************************************************************************)
(* The program's descriptors are the slave, the slave and the stderr pipe, *)
(* whatever numbers they had before; the only other one is the socket of   *)
(* the fork server (child_setup, fork_server_main).                        *)
(***************************************************************************)
ProgramDescriptors ==
    at = "program" =>
        fds = [n \in 0..MaxFd |-> CASE n < 2 -> "slave"
                                    [] n = 2 -> "stderr"
                                    [] n = ServerSocket -> "socket"
                                    [] OTHER -> "closed"]

(***************************************************************************)
(* A program that runs has left no scratch directory in the host's /tmp,   *)
(* unless removing it failed (mount::setup, after pivot_root).             *)
(***************************************************************************)
ScratchRemoved ==
    at = "program" => "scratch" \notin has \/ fault = "rmdir_scratch"

-----------------------------------------------------------------------------
(***************************************************************************)
(* What comments in the code state and the code does not do.  The bits are *)
(* those of other names, so that SECBIT_NOROOT is not in force when the    *)
(* program runs; and execve resets the dumpable attribute.                 *)
(***************************************************************************)
HardeningInForce == at = "program" => {"noroot", "undumpable"} \subseteq has
===============================================================================
