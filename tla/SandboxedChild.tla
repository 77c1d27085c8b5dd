---------------------------- MODULE SandboxedChild ----------------------------
(***************************************************************************)
(* The child between clone3 and its death: child_run (namespace.rs), the   *)
(* program it executes, and the kernel.                                    *)
(***************************************************************************)
EXTENDS SandboxState

ChildGoto(j, s) == child' = [child EXCEPT ![j] = s]

othersOfChild == <<hostVars, socketVars, serverVars, statusFile>>

(* The process ends: its descriptors are closed, it is not yet a zombie. *)
Ends(j, e) ==
    /\ ChildGoto(j, "exiting")
    /\ ending' = [ending EXCEPT ![j] = e]
    /\ stdio' = stdio \ {j}

-----------------------------------------------------------------------------
(* wait_for_mapping: the read of the eventfd returns. *)
PassBarrier(j) ==
    /\ child[j] = "barrier"
    /\ j \in signalled
    /\ ChildGoto(j, "woken")
    /\ UNCHANGED <<pid, ending, inCgroup, mapped, signalled, pdeath, stdio,
                   reported, oomKilled, handlerVars, othersOfChild>>

(* prctl(PR_SET_PDEATHSIG, SIGKILL): nothing if the parent is dead already. *)
SetDeathSignal(j) ==
    /\ child[j] = "woken"
    /\ ChildGoto(j, "setup")
    /\ pdeath' = pdeath \cup {j}
    /\ UNCHANGED <<pid, ending, inCgroup, mapped, signalled, stdio, reported,
                   oomKilled, handlerVars, othersOfChild>>

(* Some step of child_setup fails: report_child_error, _exit(1). *)
SetupFails(j) ==
    /\ "setup" \in Events
    /\ child[j] = "setup"
    /\ reported' = reported \cup {j}
    /\ Ends(j, [kind |-> "exit", value |-> 1])
    /\ UNCHANGED <<pid, inCgroup, mapped, signalled, pdeath, oomKilled,
                   handlerVars, othersOfChild>>

(* The remaining steps succeed and execve closes the error pipe. *)
ExecTarget(j) ==
    /\ child[j] = "setup"
    /\ ChildGoto(j, "running")
    /\ UNCHANGED <<pid, ending, inCgroup, mapped, signalled, pdeath, stdio,
                   reported, oomKilled, handlerVars, othersOfChild>>

(* The program closes descriptors 0 to 2 and runs on. *)
CloseOutput(j) ==
    /\ "daemon" \in Events
    /\ child[j] = "running"
    /\ j \in stdio
    /\ stdio' = stdio \ {j}
    /\ UNCHANGED <<child, pid, ending, inCgroup, mapped, signalled, pdeath,
                   reported, oomKilled, handlerVars, othersOfChild>>

(* The program exits, or dies of a signal of its own making. *)
Exit(j) ==
    /\ child[j] = "running"
    /\ \E e \in Exits : Ends(j, e)
    /\ UNCHANGED <<pid, inCgroup, mapped, signalled, pdeath, reported, oomKilled,
                   handlerVars, othersOfChild>>

(***************************************************************************)
(* The cgroup is over memory.max: the kernel kills the child itself, or a  *)
(* process the child started.                                              *)
(***************************************************************************)
OomKill(j) ==
    /\ "oom" \in Events
    /\ child[j] \in PastBarrier
    /\ j \in inCgroup
    /\ oomKilled' = oomKilled \cup {j}
    /\ \/ Ends(j, Killed)
       \/ child[j] = "running" /\ j \notin oomKilled
             /\ UNCHANGED <<child, ending, stdio>>
    /\ UNCHANGED <<pid, inCgroup, mapped, signalled, pdeath, reported,
                   handlerVars, othersOfChild>>

(***************************************************************************)
(* The exit completes: the parent gets SIGCHLD, which coalesces with one   *)
(* already pending; an orphan is reaped by init.                           *)
(***************************************************************************)
BecomeZombie(j) ==
    /\ child[j] = "exiting"
    /\ IF srv = "dead"
          THEN ChildGoto(j, "gone") /\ UNCHANGED sigchld
          ELSE ChildGoto(j, "zombie") /\ sigchld' = TRUE
    /\ UNCHANGED <<hndAt, hndJob, pid, ending, inCgroup, mapped, signalled,
                   pdeath, stdio, reported, oomKilled, othersOfChild>>

ChildStep(j) ==
    \/ PassBarrier(j) \/ SetDeathSignal(j) \/ SetupFails(j) \/ ExecTarget(j)
    \/ CloseOutput(j) \/ Exit(j) \/ OomKill(j) \/ BecomeZombie(j)
===============================================================================
