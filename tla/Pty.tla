---------------------------------- MODULE Pty ----------------------------------
(***************************************************************************)
(* open_pty (pty.rs), as the worker threads of the runtime execute it for  *)
(* concurrent calls of Runtime::run.  The function has no await, so a call *)
(* keeps its worker from start to end; ptsname returns its answer in one   *)
(* buffer that all threads share.                                          *)
(*                                                                         *)
(* A pseudoterminal and its name are identified by the call that made it.  *)
(***************************************************************************)
EXTENDS FiniteSets

CONSTANTS
    Calls,     \* the calls of open_pty
    Workers,   \* the worker threads of the runtime
    NoCall     \* no call; as a name: no pseudoterminal's name

ASSUME CallAssumption == NoCall \notin Calls

VARIABLES
    at,         \* where each call stands
    worker,     \* the call each worker thread executes
    buffer,     \* ptsname's static buffer
    name,       \* slave_name of each call
    unlocked,   \* the pseudoterminals whose slave may be opened
    slave,      \* the pseudoterminal whose slave each call opened
    fds         \* open descriptors: <<"master", c>> or <<"slave", c>> made by c

vars == <<at, worker, buffer, name, unlocked, slave, fds>>

Master(c) == <<"master", c>>
Slave(c)  == <<"slave", c>>

Init ==
    /\ at       = [c \in Calls |-> "ready"]
    /\ worker   = [w \in Workers |-> NoCall]
    /\ buffer   = NoCall
    /\ name     = [c \in Calls |-> NoCall]
    /\ unlocked = {}
    /\ slave    = [c \in Calls |-> NoCall]
    /\ fds      = {}

(* The worker of c goes on, or is free for another task. *)
Goto(c, s)    == at' = [at EXCEPT ![c] = s] /\ UNCHANGED worker
Release(c, s) == at' = [at EXCEPT ![c] = s]
                   /\ worker' = [w \in Workers |-> IF worker[w] = c THEN NoCall
                                                                    ELSE worker[w]]

-----------------------------------------------------------------------------
(* A free worker polls the task; posix_openpt makes a pseudoterminal. *)
OpenMaster(w, c) ==
    /\ worker[w] = NoCall
    /\ at[c] = "ready"
    /\ worker' = [worker EXCEPT ![w] = c]
    /\ at' = [at EXCEPT ![c] = "master"]
    /\ fds' = fds \cup {Master(c)}
    /\ UNCHANGED <<buffer, name, unlocked, slave>>

(* grantpt and unlockpt. *)
Unlock(c) ==
    /\ at[c] = "master"
    /\ Goto(c, "unlocked")
    /\ unlocked' = unlocked \cup {c}
    /\ UNCHANGED <<buffer, name, slave, fds>>

(* ptsname asks the kernel for the number and begins to write the buffer. *)
NameBegins(c) ==
    /\ at[c] = "unlocked"
    /\ Goto(c, "naming")
    /\ UNCHANGED <<buffer, name, unlocked, slave, fds>>

(* The buffer holds the name of c. *)
NameEnds(c) ==
    /\ at[c] = "naming"
    /\ Goto(c, "named")
    /\ buffer' = c
    /\ UNCHANGED <<name, unlocked, slave, fds>>

(***************************************************************************)
(* The buffer is copied.  While another thread writes it, what is read can *)
(* be any mixture: some other name, or the name of nothing.                *)
(***************************************************************************)
CopyName(c) ==
    /\ at[c] = "named"
    /\ Goto(c, "copied")
    /\ \E n \in IF \E d \in Calls : at[d] = "naming"
                THEN Calls \cup {NoCall} ELSE {buffer} :
          name' = [name EXCEPT ![c] = n]
    /\ UNCHANGED <<buffer, unlocked, slave, fds>>

(* The name is there while the master is open. *)
Openable(n) == n \in unlocked /\ Master(n) \in fds

OpenSlave(c) ==
    /\ at[c] = "copied"
    /\ Openable(name[c])
    /\ Goto(c, "slave")
    /\ slave' = [slave EXCEPT ![c] = name[c]]
    /\ fds' = fds \cup {Slave(c)}
    /\ UNCHANGED <<buffer, name, unlocked>>

(* TIOCSWINSZ; the pair is returned. *)
ReturnPair(c) ==
    /\ at[c] = "slave"
    /\ Release(c, "returned")
    /\ UNCHANGED <<buffer, name, unlocked, slave, fds>>

(* A bug: the error path forgets the master as well. *)
FailsKeepingMaster(c) ==
    /\ at[c] \in {"master", "unlocked", "copied"}
    /\ Release(c, "failed")
    /\ UNCHANGED <<buffer, name, unlocked, slave, fds>>

(***************************************************************************)
(* grantpt, unlockpt, ptsname or the open of the slave fails, the last at  *)
(* least when the name is of nothing: the master is dropped.               *)
(***************************************************************************)
Fails(c) ==
    /\ at[c] \in {"master", "unlocked", "copied"}
    /\ Release(c, "failed")
    /\ fds' = fds \ {Master(c)}
    /\ UNCHANGED <<buffer, name, unlocked, slave>>

(***************************************************************************)
(* TIOCSWINSZ fails: the master is dropped, but slave_fd is still a plain  *)
(* number that nobody closes.                                              *)
(***************************************************************************)
WinsizeFails(c) ==
    /\ at[c] = "slave"
    /\ Release(c, "leaked")
    /\ fds' = fds \ {Master(c)}
    /\ UNCHANGED <<buffer, name, unlocked, slave>>

(***************************************************************************)
(* supervisor.rs: the slave is dropped after the request is sent, and the  *)
(* master with the rest of the run.                                        *)
(***************************************************************************)
DropSlave(c) ==
    /\ at[c] = "returned"
    /\ Goto(c, "sent")
    /\ fds' = fds \ {Slave(c)}
    /\ UNCHANGED <<buffer, name, unlocked, slave>>

DropMaster(c) ==
    /\ at[c] \in {"returned", "sent"}
    /\ Goto(c, "closed")
    /\ fds' = fds \ {Master(c), Slave(c)}
    /\ UNCHANGED <<buffer, name, unlocked, slave>>

Finished ==
    /\ \A c \in Calls : at[c] \in {"closed", "failed", "leaked"}
    /\ UNCHANGED vars

Next ==
    \/ \E w \in Workers, c \in Calls : OpenMaster(w, c)
    \/ \E c \in Calls :
          \/ Unlock(c) \/ NameBegins(c) \/ NameEnds(c) \/ CopyName(c)
          \/ OpenSlave(c) \/ ReturnPair(c) \/ Fails(c) \/ WinsizeFails(c)
          \/ DropSlave(c) \/ DropMaster(c)
    \/ Finished

Spec == Init /\ [][Next]_vars

-----------------------------------------------------------------------------
(***************************************************************************)
(* The slave a call hands to its child is the other end of its own master: *)
(* output of one sandbox never reaches the report of another ("we copy it  *)
(* immediately into a CString before any other ptsname call").             *)
(***************************************************************************)
SlaveIsOwn == \A c \in Calls : slave[c] \in {NoCall, c}

(***************************************************************************)
(* A call that is over holds no descriptor, whichever step ended it; only  *)
(* a failure of TIOCSWINSZ leaves one, the slave (error paths of open_pty, *)
(* drops in supervisor::run).                                              *)
(***************************************************************************)
NoStrayDescriptors ==
    \A c \in Calls :
        /\ at[c] \in {"closed", "failed"} => {Master(c), Slave(c)} \cap fds = {}
        /\ at[c] = "leaked" => Master(c) \notin fds
===============================================================================
