------------------------------- MODULE Sandbox -------------------------------
(***************************************************************************)
(* The whole of a sandbox at work: concurrent runs, one fork server, their *)
(* children.  What the parts promise together is stated here.              *)
(***************************************************************************)
EXTENDS Supervisor, ForkServer, SandboxedChild

(* Every call has returned: there is nothing left that must happen. *)
Terminated == (\A j \in Jobs : run[j] = "done") /\ UNCHANGED vars

Next ==
    \/ \E j \in Jobs : RunStep(j)
    \/ ServerStep
    \/ HandlerStep
    \/ Crash
    \/ \E j \in Jobs : ChildStep(j)
    \/ Terminated

Spec == Init /\ [][Next]_vars

(***************************************************************************)
(* Fairness.  Every thread that can run does: a started call, the server's *)
(* main loop, the handler, the kernel's part of an exit, the steps of      *)
(* child_setup; timers fire.  The mutex gives no order but lets somebody   *)
(* in, and each call asks once, so weak fairness per call is enough.       *)
(* Nothing makes a caller start a run, a program end or a fault happen.    *)
(***************************************************************************)
RunProgress(j) ==
    \/ RequestSpawn(j) \/ RequestFails(j) \/ ReceiveResponse(j) \/ ReceiveEof(j)
    \/ ConfirmError(j) \/ ConfirmExec(j)
    \/ OutputEnds(j) \/ TtlExpires(j) \/ KillAll(j) \/ PidfdReadable(j)
    \/ ReadStatus(j) \/ Decide(j) \/ ReapGivesUp(j)
    \/ DropGuard(j) \/ DropGivesUp(j)

ChildProgress(j) ==
    PassBarrier(j) \/ SetDeathSignal(j) \/ ExecTarget(j) \/ BecomeZombie(j)

Fairness ==
    /\ \A j \in Jobs : WF_vars(RunProgress(j)) /\ WF_vars(ChildProgress(j))
    /\ WF_vars(ServerStep)
    /\ WF_vars(HandlerStep)

FairSpec == Spec /\ Fairness

-----------------------------------------------------------------------------
HostTypeOK ==
    /\ run \in [Jobs -> RunStates]
    /\ result \in [Jobs -> Results]
    /\ handle \in [Jobs -> Jobs \cup {NoJob}]
    /\ got \in [Jobs -> Int]
    /\ cgDir \subseteq Jobs
    /\ lock \in Jobs \cup {NoJob}

SocketTypeOK ==
    /\ reqs \in Seq(Jobs)
    /\ resps \in Seq([job : Jobs, ok : BOOLEAN])

ServerTypeOK ==
    /\ srv \in ServerStates
    /\ srvJob \in Jobs \cup {NoJob}
    /\ srvJob = NoJob <=> srv \in {"idle", "dead"}
    /\ hndAt \in HandlerStates
    /\ hndJob \in Jobs \cup {NoJob}
    /\ hndJob = NoJob <=> hndAt \in {"off", "loop"}
    /\ sigchld \in BOOLEAN
    /\ statusFile \in [Pids -> Int]

ChildTypeOK ==
    /\ child \in [Jobs -> ChildStates]
    /\ pid \in [Jobs -> Pids \cup {NoPid}]
    /\ ending \in [Jobs -> Endings]
    /\ inCgroup \subseteq Jobs /\ mapped \subseteq Jobs
    /\ signalled \subseteq Jobs /\ pdeath \subseteq Jobs
    /\ stdio \subseteq Jobs /\ reported \subseteq Jobs
    /\ oomKilled \subseteq Jobs

(***************************************************************************)
(* The state is well formed: in particular the server holds a job exactly  *)
(* while it serves a request, and the handler exactly while it writes the  *)
(* status of a child (handle_one_request, sigchld_handler).                *)
(***************************************************************************)
TypeOK == HostTypeOK /\ SocketTypeOK /\ ServerTypeOK /\ ChildTypeOK

(***************************************************************************)
(* No code of a child runs outside its limits: from the moment a child is  *)
(* past the eventfd until it is dead, it is in its cgroup, its maps are    *)
(* written, and the directory that holds its limits exists (step order of  *)
(* handle_one_request; "All writes happen before clone() is called").      *)
(***************************************************************************)
LimitsBeforeCode ==
    \A j \in Jobs : child[j] \in PastBarrier => j \in inCgroup \cap mapped \cap cgDir

(***************************************************************************)
(* Concurrent calls never get each other's child: the response a call      *)
(* takes off the shared stream, with its pidfd and pipes, is the answer to *)
(* its own request (request_spawn holds the mutex over send and receive).  *)
(***************************************************************************)
ResponseMatches == \A j \in Jobs : handle[j] \in {NoJob, j}

(***************************************************************************)
(* A report, as opposed to an error, speaks of a process that is dead:     *)
(* run() never reports an exit, an OOM kill or a timeout of a child that   *)
(* can still execute (status file protocol; wait_pidfd after cgroup.kill). *)
(***************************************************************************)
ReportMeansDead ==
    \A j \in Jobs : result[j].tag \in Reports => child[j] \in Dead

(***************************************************************************)
(* A verdict is the truth about the job's own child: the status that went  *)
(* through handler, file and decoding is the one the kernel recorded for   *)
(* it, and an OOM kill in its cgroup takes precedence (reap_child).        *)
(***************************************************************************)
Truth(j) == IF j \in oomKilled THEN Reason("OomKilled", 0) ELSE TrueReason(ending[j])

ReportIsOwn ==
    \A j \in Jobs : result[j].tag \in Verdicts => result[j] = Truth(j)

(***************************************************************************)
(* Whatever fails, a call that returns a report, as opposed to an error,   *)
(* leaves no cgroup directory behind: by then its process is dead, so that *)
(* the directory can go, even if it is not reaped within the five seconds  *)
(* Drop waits (CgroupGuard::drop).                                         *)
(***************************************************************************)
ReportLeavesNothing ==
    \A j \in Jobs : run[j] = "done" /\ result[j].tag \in Reports => j \notin cgDir

(***************************************************************************)
(* The run that fails before its child exists leaves no directory either   *)
(* (CgroupGuard is dropped on every early return).                         *)
(***************************************************************************)
DirectoryHasProcess ==
    \A j \in Jobs : run[j] = "done" /\ j \in cgDir => j \in inCgroup

-----------------------------------------------------------------------------
(***************************************************************************)
(* The sandbox implements the contract of Runtime::run (RunContract): one  *)
(* answer per call that never changes, at most one process per call, and   *)
(* reports only about processes that are dead, with the truth about them.  *)
(***************************************************************************)
Contract == INSTANCE RunContract WITH
    call   <- [j \in Jobs |-> IF result[j] # Pending THEN "returned"
                              ELSE IF run[j] = "idle" THEN "ready" ELSE "active"],
    answer <- result,
    proc   <- [j \in Jobs |-> IF child[j] = "none" THEN "none"
                              ELSE IF child[j] \in Dead THEN "dead" ELSE "live"],
    fate   <- [j \in Jobs |-> IF child[j] \in Dead THEN ending[j]
                              ELSE [kind |-> "none", value |-> 0]],
    oom    <- oomKilled

ImplementsContract == Contract!Spec

-----------------------------------------------------------------------------
(***************************************************************************)
(* Every started call returns, whatever the program does (TTL, bounded     *)
(* polls of reap_child and Drop); only the death of the fork server, whose *)
(* end of the socket a child may keep open, can leave it waiting.          *)
(***************************************************************************)
RunReturns == \A j \in Jobs : run[j] = "lock" ~> run[j] = "done" \/ srv = "dead"

(***************************************************************************)
(* Every dead child is reaped, although deaths that happen close together  *)
(* share one SIGCHLD (the loop around waitpid in sigchld_handler).         *)
(***************************************************************************)
ZombiesReaped == \A j \in Jobs : child[j] = "zombie" ~> child[j] = "gone"

(***************************************************************************)
(* A call that got its child before the fork server died still returns:    *)
(* nothing after request_spawn waits for the server (reap_child polls for  *)
(* a bounded time; the error pipe and the pidfd belong to the child).      *)
(***************************************************************************)
AnsweredRunReturns == \A j \in Jobs : run[j] = "confirm" ~> run[j] = "done"

(***************************************************************************)
(* No program runs for ever, whatever else goes wrong and whether or not   *)
(* the fork server and its parent-death signal are still there, except in  *)
(* the cases in which nobody watches it: it has closed its output, its     *)
(* call has returned an error or was dropped, or its call still waits for  *)
(* an answer of a dead server (collect_output, kill_all).                  *)
(***************************************************************************)
Unwatched(j) ==
    \/ j \notin stdio
    \/ result[j].tag \in Errors \cup {"Cancelled"}
    \/ run[j] = "await" /\ srv = "dead"

TtlKills == \A j \in Jobs : child[j] = "running" ~> child[j] \in Dead \/ Unwatched(j)

-----------------------------------------------------------------------------
(***************************************************************************)
(* What comments and documents say that the code does not do; each is      *)
(* refuted by a run.                                                       *)
(***************************************************************************)
(* "Wall-clock timeout; the cgroup is killed if the process runs longer":  *)
(* no executed program lives for ever (config.rs, ttl).                    *)
TtlEnforced == \A j \in Jobs : child[j] = "running" ~> child[j] \in Dead

(* "if dropped, the cgroup kill guard ensures the child is terminated"     *)
(* (lib.rs, Runtime::run).                                                 *)
CancelTerminates ==
    \A j \in Jobs : result[j] = Cancelled ~> child[j] \in Dead

(* "we give the fork server signal handler up to 1 second to write the     *)
(* status file" (supervisor.rs, reap_child): where the handler is always   *)
(* done within the second, no wait fails.                                  *)
HandlerIsWaitedFor == \A j \in Jobs : result[j].tag # "WaitFailed"
===============================================================================
