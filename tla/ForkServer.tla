------------------------------ MODULE ForkServer ------------------------------
(***************************************************************************)
(* The fork server: handle_one_request, a single thread that serves one    *)
(* request after the other, and sigchld_handler, which interrupts that     *)
(* thread anywhere and runs to its end before the thread goes on.          *)
(***************************************************************************)
EXTENDS SandboxState

(* The main loop advances only while the handler is not on the stack. *)
MainAt(s) == srv = s /\ hndAt = "off"

othersOfServer == <<hostVars, handlerVars, statusFile>>

Response(j, b) == [job |-> j, ok |-> b]

(* send_error, and the return to the main loop. *)
SendError(j) ==
    /\ resps' = Append(resps, Response(j, FALSE))
    /\ srv' = "idle"
    /\ srvJob' = NoJob

-----------------------------------------------------------------------------
(***************************************************************************)
(* A request is received and clone3 creates the child, blocked on its      *)
(* eventfd, with copies of the pty slave and the stderr pipe.              *)
(***************************************************************************)
Clone ==
    /\ MainAt("idle")
    /\ reqs # << >>
    /\ reqs' = Tail(reqs)
    /\ LET j == Head(reqs) IN
          \E p \in FreePids :
             /\ srv' = "cloned"
             /\ srvJob' = j
             /\ child' = [child EXCEPT ![j] = "barrier"]
             /\ pid' = [pid EXCEPT ![j] = p]
             /\ stdio' = stdio \cup {j}
    /\ UNCHANGED <<resps, ending, inCgroup, mapped, signalled, pdeath, reported,
                   oomKilled, othersOfServer>>

(* The request does not parse, or eventfd, pipe2 or clone3 fails. *)
CloneFails ==
    /\ "clone" \in Events
    /\ MainAt("idle")
    /\ reqs # << >>
    /\ reqs' = Tail(reqs)
    /\ SendError(Head(reqs))
    /\ UNCHANGED <<childVars, othersOfServer>>

AssignCgroup ==
    /\ MainAt("cloned")
    /\ srv' = "assigned"
    /\ inCgroup' = inCgroup \cup {srvJob}
    /\ UNCHANGED <<srvJob, socketVars, child, pid, ending, mapped, signalled,
                   pdeath, stdio, reported, oomKilled, othersOfServer>>

(* A bug: going on without the cgroup. *)
AssignErrorIgnored ==
    /\ "cgroup_procs" \in Events
    /\ MainAt("cloned")
    /\ srv' = "assigned"
    /\ UNCHANGED <<srvJob, socketVars, childVars, othersOfServer>>

(* The error is sent; the child is left waiting for its eventfd. *)
AssignFails ==
    /\ "cgroup_procs" \in Events
    /\ MainAt("cloned")
    /\ SendError(srvJob)
    /\ UNCHANGED <<reqs, childVars, othersOfServer>>

WriteMaps ==
    /\ MainAt("assigned")
    /\ srv' = "mapped"
    /\ mapped' = mapped \cup {srvJob}
    /\ UNCHANGED <<srvJob, socketVars, child, pid, ending, inCgroup, signalled,
                   pdeath, stdio, reported, oomKilled, othersOfServer>>

(* A bug: going on without the maps. *)
MapsErrorIgnored ==
    /\ "uid_map" \in Events
    /\ MainAt("assigned")
    /\ srv' = "mapped"
    /\ UNCHANGED <<srvJob, socketVars, childVars, othersOfServer>>

MapsFail ==
    /\ "uid_map" \in Events
    /\ MainAt("assigned")
    /\ SendError(srvJob)
    /\ UNCHANGED <<reqs, childVars, othersOfServer>>

SignalChild ==
    /\ MainAt("mapped")
    /\ srv' = "signalled"
    /\ signalled' = signalled \cup {srvJob}
    /\ UNCHANGED <<srvJob, socketVars, child, pid, ending, inCgroup, mapped,
                   pdeath, stdio, reported, oomKilled, othersOfServer>>

(* A bug: the request is still at hand after its response. *)
RespondKeeping ==
    /\ MainAt("signalled")
    /\ resps' = Append(resps, Response(srvJob, TRUE))
    /\ srv' = "idle"
    /\ UNCHANGED <<srvJob, reqs, childVars, othersOfServer>>

Respond ==
    /\ MainAt("signalled")
    /\ resps' = Append(resps, Response(srvJob, TRUE))
    /\ srv' = "idle"
    /\ srvJob' = NoJob
    /\ UNCHANGED <<reqs, childVars, othersOfServer>>

-----------------------------------------------------------------------------
(* SIGCHLD is delivered; it is blocked until the handler returns. *)
DeliverSigchld ==
    /\ srv # "dead"
    /\ hndAt = "off"
    /\ sigchld
    /\ sigchld' = FALSE
    /\ hndAt' = "loop"
    /\ UNCHANGED <<hndJob, hostVars, socketVars, serverVars, statusFile, childVars>>

(* waitpid(-1, WNOHANG) reaps one of the dead children. *)
HandlerReaps ==
    /\ hndAt = "loop"
    /\ \E c \in Jobs :
          /\ child[c] = "zombie"
          /\ child' = [child EXCEPT ![c] = "gone"]
          /\ hndJob' = c
    /\ hndAt' = "reaped"
    /\ UNCHANGED <<sigchld, hostVars, socketVars, serverVars, statusFile, pid,
                   ending, inCgroup, mapped, signalled, pdeath, stdio, reported,
                   oomKilled>>

HandlerReturns ==
    /\ hndAt = "loop"
    /\ \A c \in Jobs : child[c] # "zombie"
    /\ hndAt' = "off"
    /\ UNCHANGED <<hndJob, sigchld, hostVars, socketVars, serverVars, statusFile,
                   childVars>>

(* open(O_CREAT | O_TRUNC): from here on the supervisor can read the file. *)
HandlerOpens ==
    /\ hndAt = "reaped"
    /\ hndAt' = "opened"
    /\ statusFile' = [statusFile EXCEPT ![pid[hndJob]] = EmptyFile]
    /\ UNCHANGED <<hndJob, sigchld, hostVars, socketVars, serverVars, childVars>>

(* open fails: the status is dropped. *)
HandlerOpenFails ==
    /\ "tmp" \in Events
    /\ hndAt = "reaped"
    /\ hndAt' = "loop"
    /\ hndJob' = NoJob
    /\ UNCHANGED <<sigchld, hostVars, socketVars, serverVars, statusFile, childVars>>

(* A bug: one waitpid per signal. *)
HandlerWritesOnce ==
    /\ hndAt = "opened"
    /\ hndAt' = "off"
    /\ hndJob' = NoJob
    /\ statusFile' = [statusFile EXCEPT ![pid[hndJob]] = KernelStatus(ending[hndJob])]
    /\ UNCHANGED <<sigchld, hostVars, socketVars, serverVars, childVars>>

HandlerWrites ==
    /\ hndAt = "opened"
    /\ hndAt' = "loop"
    /\ hndJob' = NoJob
    /\ statusFile' = [statusFile EXCEPT ![pid[hndJob]] = KernelStatus(ending[hndJob])]
    /\ UNCHANGED <<sigchld, hostVars, socketVars, serverVars, childVars>>

-----------------------------------------------------------------------------
(***************************************************************************)
(* The server process dies.  The kernel sends the parent-death signal to   *)
(* the children that asked for it and hands all of them to init, which     *)
(* reaps the dead ones without leaving a status file.                      *)
(***************************************************************************)
Crash ==
    /\ "crash" \in Events
    /\ srv # "dead"
    /\ srv' = "dead"
    /\ srvJob' = NoJob
    /\ hndAt' = "off"
    /\ hndJob' = NoJob
    /\ sigchld' = FALSE
    /\ LET hit == {c \in pdeath : child[c] \in Alive} IN
          /\ child' = [c \in Jobs |-> IF c \in hit THEN "exiting"
                                      ELSE IF child[c] = "zombie" THEN "gone"
                                      ELSE child[c]]
          /\ ending' = [c \in Jobs |-> IF c \in hit THEN Killed ELSE ending[c]]
          /\ stdio' = stdio \ hit
    /\ UNCHANGED <<hostVars, socketVars, statusFile, pid, inCgroup, mapped,
                   signalled, pdeath, reported, oomKilled>>

ServerStep  == \/ Clone \/ CloneFails \/ AssignCgroup \/ AssignFails
               \/ WriteMaps \/ MapsFail \/ SignalChild \/ Respond
HandlerStep == \/ DeliverSigchld \/ HandlerReaps \/ HandlerReturns
               \/ HandlerOpens \/ HandlerOpenFails \/ HandlerWrites
===============================================================================
