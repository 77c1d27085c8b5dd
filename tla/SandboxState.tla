----------------------------- MODULE SandboxState -----------------------------
(***************************************************************************)
(* The state shared by the three kinds of process that make up one run of  *)
(* the sandbox, and the predicates they all use:                           *)
(*                                                                         *)
(*   - the calls of Runtime::run in the host process    (Supervisor)       *)
(*   - the single-threaded fork server and its SIGCHLD                     *)
(*     handler, which interrupts it                     (ForkServer)       *)
(*   - the sandboxed children, and what the kernel does                    *)
(*     to them                                          (SandboxedChild)   *)
(*                                                                         *)
(* A job is one call of Runtime::run; its cgroup, its child, and the       *)
(* descriptors passed around for it are named by the job.                  *)
(***************************************************************************)
EXTENDS WaitStatus, Sequences

CONSTANTS
    Jobs,      \* the calls of Runtime::run
    NoJob,     \* no job
    Pids,      \* process ids the kernel may hand out
    NoPid,     \* no process id
    Exits,     \* the ways a sandboxed program may end by itself
    Events     \* what may go wrong in this instance, see EventKinds

(***************************************************************************)
(* The events of the environment an instance can switch on.                *)
(***************************************************************************)
EventKinds ==
    { "config",        \* validate, or a step before create_dir, fails
      "prepare",       \* a step between create_dir and the request fails
      "fds",           \* a response arrives without its descriptors
      "clone",         \* the server cannot create the pipes or the child
      "cgroup_procs",  \* writing the child's pid to cgroup.procs fails
      "uid_map",       \* writing the user-namespace maps fails
      "setup",         \* a step of child_setup fails
      "eintr",         \* a signal interrupts the read of the error pipe
      "oom",           \* the kernel kills a process over memory.max
      "daemon",        \* the program closes its output and runs on
      "io",            \* reading the output of the program fails
      "epoll",         \* a descriptor cannot be registered with the reactor
      "kill",          \* writing cgroup.kill fails
      "cancel",        \* the future of Runtime::run is dropped
      "crash",         \* the fork server dies
      "tmp",           \* the handler cannot create the status file
      "slow",          \* a poll of 1 s or 5 s ends before the kernel and
                       \* the handler have done what it waits for
      "recycle" }      \* the kernel reuses a process id

ASSUME NameAssumption  == NoJob \notin Jobs /\ NoPid \notin Pids
ASSUME ExitsAssumption == Exits \subseteq Endings
ASSUME EventAssumption == Events \subseteq EventKinds

VARIABLES
    \* host process: one future per job, and the mutex around the socket
    run,         \* where each call of Runtime::run stands
    result,      \* what it returned
    handle,      \* the job whose child the received pid, pidfd and pipes are of
    got,         \* the wait status read from the status file
    cgDir,       \* jobs whose cgroup directory exists
    lock,        \* holder of ForkServer.socket
    \* the socket pair, a FIFO in each direction
    reqs, resps,
    \* fork server: main loop and signal handler
    srv, srvJob,
    hndAt, hndJob, sigchld,
    statusFile,  \* /tmp/sandbox-status-<pid>
    \* children and what the kernel records about them
    child, pid, ending,
    inCgroup,    \* jobs whose child was written to cgroup.procs
    mapped,      \* jobs whose uid and gid maps are written
    signalled,   \* jobs whose eventfd is set
    pdeath,      \* jobs whose child has PR_SET_PDEATHSIG in force
    stdio,       \* jobs with a process that holds the pty slave or stderr pipe
    reported,    \* jobs whose child wrote to its error pipe
    oomKilled    \* jobs with oom_kill > 0 in memory.events

hostVars   == <<run, result, handle, got, cgDir, lock>>
socketVars == <<reqs, resps>>
serverVars == <<srv, srvJob>>
handlerVars == <<hndAt, hndJob, sigchld>>
childVars  == <<child, pid, ending, inCgroup, mapped, signalled, pdeath,
                stdio, reported, oomKilled>>

vars == <<hostVars, socketVars, serverVars, handlerVars, statusFile, childVars>>

-----------------------------------------------------------------------------
RunStates == { "idle", "lock", "await", "confirm", "collect", "kill",
               "waitpid", "reap", "unlink", "dropping", "done" }

Verdicts == {"Exited", "SignalKilled", "SeccompViolation", "OomKilled"}
Reports  == Verdicts \cup {"TimedOut"}
Errors   == { "ConfigInvalid", "CgroupDelegationMissing", "CgroupCreateFailed",
              "CgroupWriteFailed", "PtyOpenFailed", "IpcError",
              "ForkServerUnavailable", "NamespaceCloneFailed", "ChildSetupFailed",
              "WaitFailed" }

Pending   == Reason("Pending", 0)
Cancelled == Reason("Cancelled", 0)
Error(t)  == Reason(t, 0)

Results == [tag : Verdicts \cup {"TimedOut", "Pending", "Cancelled"} \cup Errors,
            value : Int]

(* Contents of a status file: a wait status, or one of these two. *)
NoFile    == -1
EmptyFile == -2      \* created by open(O_CREAT | O_TRUNC), not yet written

NoStatus  == -1      \* no status read yet

(***************************************************************************)
(* Life of a child: blocked on the eventfd, past it, past the prctl for    *)
(* the parent-death signal (and in the rest of child_setup), running the   *)
(* target after execve, exiting with its descriptors closed, dead and not  *)
(* reaped, reaped.                                                         *)
(***************************************************************************)
ChildStates == {"none", "barrier", "woken", "setup", "running",
                "exiting", "zombie", "gone"}
PastBarrier == {"woken", "setup", "running"}
Alive       == {"barrier", "woken", "setup", "running"}
Dead        == {"zombie", "gone"}

ServerStates  == {"idle", "cloned", "assigned", "mapped", "signalled", "dead"}
HandlerStates == {"off", "loop", "reaped", "opened"}

(***************************************************************************)
(* The server's end of the socket is the server's own and, because the     *)
(* server clears FD_CLOEXEC on it, every child's until that child exits.   *)
(***************************************************************************)
SocketOpen == srv # "dead" \/ \E c \in Jobs : child[c] \in Alive

(***************************************************************************)
(* Process ids the kernel may give to a new process.                       *)
(***************************************************************************)
FreePids ==
    { p \in Pids :
        \A c \in Jobs : pid[c] = p => "recycle" \in Events /\ child[c] = "gone" }

-----------------------------------------------------------------------------
Init ==
    /\ run    = [j \in Jobs |-> "idle"]
    /\ result = [j \in Jobs |-> Pending]
    /\ handle = [j \in Jobs |-> NoJob]
    /\ got    = [j \in Jobs |-> NoStatus]
    /\ cgDir  = {}
    /\ lock   = NoJob
    /\ reqs   = << >> /\ resps = << >>
    /\ srv    = "idle" /\ srvJob = NoJob
    /\ hndAt  = "off"  /\ hndJob = NoJob /\ sigchld = FALSE
    /\ statusFile = [p \in Pids |-> NoFile]
    /\ child  = [j \in Jobs |-> "none"]
    /\ pid    = [j \in Jobs |-> NoPid]
    /\ ending = [j \in Jobs |-> Killed]
    /\ inCgroup = {} /\ mapped = {} /\ signalled = {} /\ pdeath = {}
    /\ stdio = {} /\ reported = {} /\ oomKilled = {}
===============================================================================
