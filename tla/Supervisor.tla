------------------------------ MODULE Supervisor ------------------------------
(***************************************************************************)
(* One call of Runtime::run: supervisor.rs, with the client side of the    *)
(* fork server (ForkServer::request_spawn) and the cgroup guard.           *)
(*                                                                         *)
(* "lock", "await" and "confirm" block a thread (block_in_place and a      *)
(* blocking read), so the future cannot be dropped there; it can at the    *)
(* awaits of collect_output and wait_pidfd.  Every way out of the function *)
(* leads to "dropping", the Drop of CgroupGuard.                           *)
(***************************************************************************)
EXTENDS SandboxState

Goto(j, s) == run' = [run EXCEPT ![j] = s]

(* Return r; what is left to do is dropping the guard. *)
Return(j, r) ==
    /\ Goto(j, "dropping")
    /\ result' = [result EXCEPT ![j] = r]

othersOfHost == <<socketVars, serverVars, handlerVars, statusFile, childVars>>

-----------------------------------------------------------------------------
(* The config is valid; the cgroup, the pty and the request are ready. *)
Start(j) ==
    /\ run[j] = "idle"
    /\ Goto(j, "lock")
    /\ cgDir' = cgDir \cup {j}
    /\ UNCHANGED <<result, handle, got, lock, othersOfHost>>

(* validate() or CgroupGuard::create returns before there is a directory. *)
StartInvalid(j) ==
    /\ "config" \in Events
    /\ run[j] = "idle"
    /\ Goto(j, "done")
    /\ \E t \in { "ConfigInvalid", "CgroupDelegationMissing",
                  "CgroupCreateFailed", "CgroupWriteFailed" } :
          result' = [result EXCEPT ![j] = Error(t)]
    /\ UNCHANGED <<handle, got, cgDir, lock, othersOfHost>>

(* A bug: an early return that forgets the directory. *)
PrepareFailsLeaking(j) ==
    /\ "prepare" \in Events
    /\ run[j] = "idle"
    /\ cgDir' = cgDir \cup {j}
    /\ Goto(j, "done")
    /\ result' = [result EXCEPT ![j] = Error("PtyOpenFailed")]
    /\ UNCHANGED <<handle, got, lock, othersOfHost>>

(***************************************************************************)
(* A limit file, the pty or a NUL byte in argv stops the run after the     *)
(* directory exists; the guard is dropped on the way out.                  *)
(***************************************************************************)
PrepareFails(j) ==
    /\ "prepare" \in Events
    /\ run[j] = "idle"
    /\ cgDir' = cgDir \cup {j}
    /\ \E t \in {"CgroupWriteFailed", "PtyOpenFailed", "ConfigInvalid"} :
          Return(j, Error(t))
    /\ UNCHANGED <<handle, got, lock, othersOfHost>>

(* A bug: sending without waiting for the mutex. *)
RequestSpawnUnlocked(j) ==
    /\ run[j] = "lock"
    /\ SocketOpen
    /\ lock' = j
    /\ reqs' = Append(reqs, j)
    /\ Goto(j, "await")
    /\ UNCHANGED <<result, handle, got, cgDir, resps,
                   serverVars, handlerVars, statusFile, childVars>>

(***************************************************************************)
(* request_spawn, up to the end of the send: the mutex is held until the   *)
(* response is in, and the write fails if nobody holds the other end.      *)
(***************************************************************************)
RequestSpawn(j) ==
    /\ run[j] = "lock"
    /\ lock = NoJob
    /\ SocketOpen
    /\ lock' = j
    /\ reqs' = Append(reqs, j)
    /\ Goto(j, "await")
    /\ UNCHANGED <<result, handle, got, cgDir, resps,
                   serverVars, handlerVars, statusFile, childVars>>

RequestFails(j) ==
    /\ run[j] = "lock"
    /\ lock = NoJob
    /\ ~SocketOpen
    /\ Return(j, Error("IpcError"))
    /\ UNCHANGED <<handle, got, cgDir, lock, othersOfHost>>

(* The rest of request_spawn: whatever comes first out of the socket. *)
ReceiveResponse(j) ==
    /\ run[j] = "await"
    /\ resps # << >>
    /\ lock' = NoJob
    /\ resps' = Tail(resps)
    /\ IF Head(resps).ok
          THEN /\ Goto(j, "confirm")
               /\ handle' = [handle EXCEPT ![j] = Head(resps).job]
               /\ UNCHANGED result
          ELSE /\ Return(j, Error("NamespaceCloneFailed"))
               /\ UNCHANGED handle
    /\ UNCHANGED <<got, cgDir, reqs, serverVars, handlerVars, statusFile, childVars>>

(***************************************************************************)
(* The response comes without its three descriptors, which the call has no *)
(* room for; the child it is about goes on unattended.                     *)
(***************************************************************************)
ReceiveTruncated(j) ==
    /\ "fds" \in Events
    /\ run[j] = "await"
    /\ resps # << >>
    /\ Head(resps).ok
    /\ lock' = NoJob
    /\ resps' = Tail(resps)
    /\ Return(j, Error("ForkServerUnavailable"))
    /\ UNCHANGED <<handle, got, cgDir, reqs,
                   serverVars, handlerVars, statusFile, childVars>>

(***************************************************************************)
(* read_exact meets the end of the stream: the other end is closed, and a  *)
(* request nobody took off the socket is gone with it.                     *)
(***************************************************************************)
ReceiveEof(j) ==
    /\ run[j] = "await"
    /\ resps = << >>
    /\ ~SocketOpen
    /\ lock' = NoJob
    /\ reqs' = << >>
    /\ Return(j, Error("IpcError"))
    /\ UNCHANGED <<handle, got, cgDir, resps,
                   serverVars, handlerVars, statusFile, childVars>>

-----------------------------------------------------------------------------
(***************************************************************************)
(* The blocking read of the error pipe.  Its write end is held by the      *)
(* child until execve or exit; end of file is taken to mean execve.        *)
(***************************************************************************)
ConfirmError(j) ==
    /\ run[j] = "confirm"
    /\ handle[j] \in reported
    /\ Return(j, Error("ChildSetupFailed"))
    /\ UNCHANGED <<handle, got, cgDir, lock, othersOfHost>>

ConfirmExec(j) ==
    /\ run[j] = "confirm"
    /\ handle[j] \notin reported
    /\ child[handle[j]] \notin {"barrier", "woken", "setup"}
    /\ Goto(j, "collect")
    /\ UNCHANGED <<result, handle, got, cgDir, lock, othersOfHost>>

(***************************************************************************)
(* A signal interrupts the read: a negative result is not above zero, and  *)
(* passes for an end of file whatever the child is doing.                  *)
(***************************************************************************)
ConfirmInterrupted(j) ==
    /\ "eintr" \in Events
    /\ run[j] = "confirm"
    /\ Goto(j, "collect")
    /\ UNCHANGED <<result, handle, got, cgDir, lock, othersOfHost>>

(* collect_output: the master or the pipe cannot be watched. *)
WatchFails(j) ==
    /\ "epoll" \in Events
    /\ run[j] = "collect"
    /\ Return(j, Error("IpcError"))
    /\ UNCHANGED <<handle, got, cgDir, lock, othersOfHost>>

(* collect_output: both streams reach their end. *)
OutputEnds(j) ==
    /\ run[j] = "collect"
    /\ handle[j] \notin stdio
    /\ Goto(j, "reap")
    /\ UNCHANGED <<result, handle, got, cgDir, lock, othersOfHost>>

(***************************************************************************)
(* collect_output: an inner error ends the loop, and `result.is_err()`     *)
(* asks only whether the timeout elapsed, so the run goes on as after an   *)
(* end of output.                                                          *)
(***************************************************************************)
OutputFails(j) ==
    /\ "io" \in Events
    /\ run[j] = "collect"
    /\ Goto(j, "reap")
    /\ UNCHANGED <<result, handle, got, cgDir, lock, othersOfHost>>

(* collect_output: the timeout elapses first. *)
TtlExpires(j) ==
    /\ run[j] = "collect"
    /\ Goto(j, "kill")
    /\ UNCHANGED <<result, handle, got, cgDir, lock, othersOfHost>>

(* A bug: the child is waited for but was never killed. *)
KillForgotten(j) ==
    /\ run[j] = "kill"
    /\ Goto(j, "waitpid")
    /\ UNCHANGED <<result, handle, got, cgDir, lock, othersOfHost>>

(***************************************************************************)
(* CgroupGuard::kill_all: SIGKILL to every process in the cgroup.          *)
(***************************************************************************)
KillAll(j) ==
    /\ run[j] = "kill"
    /\ Goto(j, "waitpid")
    /\ IF j \in inCgroup /\ child[j] \in Alive
          THEN /\ child'  = [child EXCEPT ![j] = "exiting"]
               /\ ending' = [ending EXCEPT ![j] = Killed]
               /\ stdio'  = stdio \ {j}
          ELSE UNCHANGED <<child, ending, stdio>>
    /\ UNCHANGED <<result, handle, got, cgDir, lock, socketVars, serverVars,
                   handlerVars, statusFile, pid, inCgroup, mapped, signalled,
                   pdeath, reported, oomKilled>>

KillFails(j) ==
    /\ "kill" \in Events
    /\ run[j] = "kill"
    /\ Return(j, Error("CgroupWriteFailed"))
    /\ UNCHANGED <<handle, got, cgDir, lock, othersOfHost>>

(* A bug: reporting the timeout without waiting for the death. *)
PidfdIgnored(j) ==
    /\ run[j] = "waitpid"
    /\ Return(j, Reason("TimedOut", -1))
    /\ UNCHANGED <<handle, got, cgDir, lock, othersOfHost>>

(* wait_pidfd: a pidfd is readable from the moment its process is dead. *)
PidfdReadable(j) ==
    /\ run[j] = "waitpid"
    /\ child[handle[j]] \in Dead
    /\ Return(j, Reason("TimedOut", -1))
    /\ UNCHANGED <<handle, got, cgDir, lock, othersOfHost>>

(* wait_pidfd: a pidfd that cannot be watched is not waited for. *)
WaitSkipped(j) ==
    /\ "epoll" \in Events
    /\ run[j] = "waitpid"
    /\ Return(j, Reason("TimedOut", -1))
    /\ UNCHANGED <<handle, got, cgDir, lock, othersOfHost>>

(* The future is dropped at one of its two awaits. *)
Cancel(j) ==
    /\ "cancel" \in Events
    /\ run[j] \in {"collect", "waitpid"}
    /\ Return(j, Cancelled)
    /\ UNCHANGED <<handle, got, cgDir, lock, othersOfHost>>

-----------------------------------------------------------------------------
StatusPath(j) == pid[handle[j]]

(***************************************************************************)
(* reap_child: the first poll that can read the file decides.  An empty    *)
(* file does not parse, and is left where it is.                           *)
(***************************************************************************)
ReadStatus(j) ==
    /\ run[j] = "reap"
    /\ statusFile[StatusPath(j)] # NoFile
    /\ IF statusFile[StatusPath(j)] = EmptyFile
          THEN /\ Return(j, Error("WaitFailed"))
               /\ UNCHANGED got
          ELSE /\ Goto(j, "unlink")
               /\ got' = [got EXCEPT ![j] = statusFile[StatusPath(j)]]
               /\ UNCHANGED result
    /\ UNCHANGED <<handle, cgDir, lock, othersOfHost>>

(* A bug: trusting the wait status alone. *)
DecideByStatus(j) ==
    /\ run[j] = "unlink"
    /\ statusFile' = [statusFile EXCEPT ![StatusPath(j)] = NoFile]
    /\ Return(j, DecodeStatus(got[j]))
    /\ UNCHANGED <<handle, got, cgDir, lock,
                   socketVars, serverVars, handlerVars, childVars>>

(* reap_child, the rest: remove the file, ask for OOM kills, decode. *)
Decide(j) ==
    /\ run[j] = "unlink"
    /\ statusFile' = [statusFile EXCEPT ![StatusPath(j)] = NoFile]
    /\ Return(j, IF j \in oomKilled THEN Reason("OomKilled", 0)
                                    ELSE DecodeStatus(got[j]))
    /\ UNCHANGED <<handle, got, cgDir, lock,
                   socketVars, serverVars, handlerVars, childVars>>

(* The status of c is on its way, and there within the second polled for. *)
StatusPending(c) ==
    \/ child[c] \in {"exiting", "zombie"} /\ srv # "dead"
    \/ hndJob = c

(* A bug: polling until the file is there. *)
ReapPollsForever(j) == FALSE

(* reap_child: a hundred polls, 10 ms apart, found no file. *)
ReapGivesUp(j) ==
    /\ run[j] = "reap"
    /\ statusFile[StatusPath(j)] = NoFile
    /\ "slow" \in Events \/ ~StatusPending(handle[j])
    /\ Return(j, Error("WaitFailed"))
    /\ UNCHANGED <<handle, got, cgDir, lock, othersOfHost>>

-----------------------------------------------------------------------------
(* What pids.current counts: a process is counted until it is reaped. *)
Counted(j) == j \in inCgroup /\ child[j] \in Alive \cup {"exiting", "zombie"}

(* CgroupGuard::drop: pids.current is 0, the directory is removed. *)
DropGuard(j) ==
    /\ run[j] = "dropping"
    /\ ~Counted(j)
    /\ Goto(j, "done")
    /\ cgDir' = cgDir \ {j}
    /\ UNCHANGED <<result, handle, got, lock, othersOfHost>>

(* A bug: after five seconds Drop returns without trying remove_dir. *)
DropGivesUpEarly(j) ==
    /\ run[j] = "dropping"
    /\ Counted(j)
    /\ "slow" \in Events \/ child[j] \in Alive
    /\ Goto(j, "done")
    /\ UNCHANGED <<result, handle, got, cgDir, lock, othersOfHost>>

(***************************************************************************)
(* CgroupGuard::drop: five seconds pass with pids.current above 0.  The    *)
(* kernel removes the directory all the same if only a zombie is left.     *)
(***************************************************************************)
DropGivesUp(j) ==
    /\ run[j] = "dropping"
    /\ Counted(j)
    /\ "slow" \in Events \/ child[j] \in Alive
    /\ Goto(j, "done")
    /\ cgDir' = IF child[j] = "zombie" THEN cgDir \ {j} ELSE cgDir
    /\ UNCHANGED <<result, handle, got, lock, othersOfHost>>

RunStep(j) ==
    \/ Start(j) \/ StartInvalid(j) \/ PrepareFails(j)
    \/ RequestSpawn(j) \/ RequestFails(j) \/ ReceiveResponse(j)
    \/ ReceiveTruncated(j) \/ ReceiveEof(j) \/ ConfirmError(j) \/ ConfirmExec(j)
    \/ ConfirmInterrupted(j)
    \/ WatchFails(j) \/ OutputEnds(j) \/ OutputFails(j) \/ TtlExpires(j)
    \/ KillAll(j) \/ KillFails(j) \/ PidfdReadable(j) \/ WaitSkipped(j) \/ Cancel(j)
    \/ ReadStatus(j) \/ Decide(j) \/ ReapGivesUp(j)
    \/ DropGuard(j) \/ DropGivesUp(j)
===============================================================================
