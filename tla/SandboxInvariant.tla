--------------------------- MODULE SandboxInvariant ---------------------------
(***************************************************************************)
(* The inductive invariant behind the safety properties of Sandbox, in     *)
(* named parts.  StructureInv holds whatever the environment does; FileInv *)
(* needs process ids that are not reused.                                  *)
(***************************************************************************)
EXTENDS Sandbox

(* The mutex, the socket and the server agree on whose request it is. *)
LockInv == \A j \in Jobs : run[j] = "await" <=> lock = j

RequestInv ==
    reqs # << >> =>
        /\ reqs = <<lock>> /\ resps = << >> /\ srvJob = NoJob
        /\ lock \in Jobs /\ child[lock] = "none"

ResponseInv ==
    resps # << >> =>
        /\ srvJob = NoJob /\ lock \in Jobs
        /\ \/ resps = <<Response(lock, FALSE)>>
           \/ resps = <<Response(lock, TRUE)>> /\ lock \in signalled

ServingInv == srvJob # NoJob => srvJob = lock /\ child[srvJob] # "none"

ChannelInv == LockInv /\ RequestInv /\ ResponseInv /\ ServingInv

(* A child exists from clone3 on, and gets past the barrier only by signal. *)
ChildInv ==
    /\ \A j \in Jobs : child[j] = "none" <=> pid[j] = NoPid
    /\ \A j \in Jobs : run[j] \in {"idle", "lock"} => child[j] = "none"
    /\ \A j \in Jobs : child[j] \in PastBarrier => j \in signalled
    /\ \A j \in signalled : child[j] # "none"
    /\ hndJob # NoJob => child[hndJob] = "gone"

(* A handle is for the call's own child, and is there when it is used. *)
HandleInv ==
    /\ \A j \in Jobs : handle[j] # NoJob => handle[j] = j /\ child[j] # "none"
    /\ \A j \in Jobs :
          run[j] \in {"confirm", "collect", "kill", "waitpid", "reap", "unlink"}
             => handle[j] = j

(* The signal is sent after the limits are in place, and they stay. *)
LimitsInv ==
    /\ srv \in {"assigned", "mapped", "signalled"} => srvJob \in inCgroup
    /\ srv \in {"mapped", "signalled"} => srvJob \in mapped
    /\ srv = "signalled" => srvJob \in signalled
    /\ signalled \subseteq inCgroup \cap mapped
    /\ \A j \in Jobs : run[j] \notin {"idle", "done"} => j \in cgDir
    /\ \A j \in signalled : child[j] \in Alive => j \in cgDir

(* There is a result from the return on; a timeout is reported of the dead. *)
ResultInv ==
    \A j \in Jobs :
        /\ result[j].tag = "Pending" <=> run[j] \notin {"dropping", "done"}
        /\ result[j].tag = "TimedOut" => child[j] \in Dead \/ "epoll" \in Events

StructureInv ==
    TypeOK /\ ChannelInv /\ ChildInv /\ HandleInv /\ LimitsInv /\ ResultInv

-----------------------------------------------------------------------------
NoReuse == "recycle" \notin Events

(* Every descriptor can be watched, so that wait_pidfd does wait. *)
Watchable == "epoll" \notin Events

(* No two children of the server ever have the same process id. *)
UniquePids ==
    \A i, j \in Jobs : pid[i] = pid[j] /\ pid[i] # NoPid => i = j

(* A status file is about the reaped child whose name it bears. *)
FilesInv ==
    \A p \in Pids : statusFile[p] # NoFile =>
        \E j \in Jobs :
           /\ pid[j] = p
           /\ child[j] = "gone"
           /\ statusFile[p] \in {EmptyFile, KernelStatus(ending[j])}

(* What a supervisor has read is its child's status, and so its verdict. *)
VerdictInv ==
    \A j \in Jobs :
        /\ run[j] = "unlink" =>
              child[j] = "gone" /\ got[j] = KernelStatus(ending[j])
        /\ result[j].tag \in Verdicts => child[j] = "gone" /\ result[j] = Truth(j)

FileInv == UniquePids /\ FilesInv /\ VerdictInv
===============================================================================
