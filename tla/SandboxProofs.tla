---------------------------- MODULE SandboxProofs ----------------------------
(***************************************************************************)
(* Proofs about Sandbox for any number of jobs, process ids and endings:   *)
(* StructureInv is inductive (one lemma per actor, one step per action),   *)
(* and so is FileInv on top of it where process ids are not reused; from   *)
(* them, that Sandbox implements RunContract, and that a call which has    *)
(* returned leaves no directory behind without need.                       *)
(***************************************************************************)
EXTENDS SandboxInvariant, DataProofs, TLAPS

(* What a queue of one element is made of. *)
LEMMA Singleton ==
    ASSUME NEW S, NEW x \in S
    PROVE  /\ Append(<< >>, x) = <<x>>
           /\ Head(<<x>>) = x
           /\ Tail(<<x>>) = << >>
           /\ <<x>> # << >>
           /\ <<x>> \in Seq(S)
  OBVIOUS

(* SIGKILL is one of the ways to end. *)
LEMMA KilledType == Killed \in Endings BY DEF Killed, SIGKILL, Endings

(* Decoding any integer yields one of the verdicts. *)
LEMMA DecodeType ==
    ASSUME NEW w \in Int
    PROVE  DecodeStatus(w).tag \in Verdicts /\ DecodeStatus(w) \in Results
  BY DEF DecodeStatus, Reason, Verdicts, Results, SIGSYS

(* A wait status is a natural number, unlike the marks NoFile, EmptyFile. *)
LEMMA KernelType ==
    ASSUME NEW e \in Endings
    PROVE  KernelStatus(e) \in Nat
  BY DEF KernelStatus, Endings

(* The answers that are no verdicts are results, too. *)
LEMMA TagTypes ==
    /\ \A t \in Errors : Error(t) \in Results
    /\ Cancelled \in Results /\ Pending \in Results
    /\ Reason("TimedOut", -1) \in Results /\ Reason("OomKilled", 0) \in Results
  BY DEF Error, Cancelled, Pending, Reason, Results, Errors, Verdicts

-----------------------------------------------------------------------------
(* A response that is taken off the socket answers its receiver's request. *)
LEMMA ResponseIsOwn ==
    ASSUME StructureInv, NEW j \in Jobs, ReceiveResponse(j) \/ ReceiveTruncated(j)
    PROVE  /\ lock = j /\ resps' = << >>
           /\ Head(resps) \in [job : Jobs, ok : BOOLEAN]
           /\ Head(resps).job = j
           /\ Head(resps).ok => child[j] # "none"
  <1>1. lock = j
    BY DEF StructureInv, ChannelInv, LockInv, ReceiveResponse, ReceiveTruncated
  <1>2. \E b \in BOOLEAN : /\ resps = <<Response(j, b)>>
                           /\ b => j \in signalled
    BY <1>1 DEF StructureInv, ChannelInv, ResponseInv, ReceiveResponse,
       ReceiveTruncated
  <1>3. PICK b \in BOOLEAN : resps = <<Response(j, b)>> /\ (b => j \in signalled)
    BY <1>2
  <1>4. Response(j, b) \in [job : Jobs, ok : BOOLEAN]
    BY DEF Response
  <1>5. Head(resps) = Response(j, b) /\ Tail(resps) = << >>
    BY <1>3, <1>4, Singleton
  <1>6. j \in signalled => child[j] # "none"
    BY DEF StructureInv, ChildInv
  <1> QED BY <1>1, <1>3, <1>4, <1>5, <1>6
          DEF ReceiveResponse, ReceiveTruncated, Response

(* The only request there can be is that of the holder of the mutex. *)
LEMMA RequestHead ==
    ASSUME StructureInv, reqs # << >>
    PROVE  /\ lock \in Jobs /\ child[lock] = "none" /\ resps = << >>
           /\ Head(reqs) = lock /\ Tail(reqs) = << >>
  <1>1. reqs = <<lock>> /\ lock \in Jobs /\ child[lock] = "none" /\ resps = << >>
    BY DEF StructureInv, ChannelInv, RequestInv
  <1> QED BY <1>1, Singleton

(* The request that is taken off the socket is that of the mutex' holder. *)
LEMMA CloneFacts ==
    ASSUME StructureInv, Clone
    PROVE  /\ lock \in Jobs /\ run[lock] = "await" /\ child[lock] = "none"
           /\ srv' = "cloned" /\ srvJob' = lock /\ lock' = lock
           /\ reqs' = << >> /\ resps' = << >>
           /\ stdio' = stdio \cup {lock}
           /\ \E p \in FreePids : /\ child' = [child EXCEPT ![lock] = "barrier"]
                                  /\ pid' = [pid EXCEPT ![lock] = p]
           /\ \E p \in Pids : /\ child' = [child EXCEPT ![lock] = "barrier"]
                              /\ pid' = [pid EXCEPT ![lock] = p]
  <1>1. /\ lock \in Jobs /\ child[lock] = "none" /\ resps = << >>
        /\ Head(reqs) = lock /\ Tail(reqs) = << >>
    BY RequestHead DEF Clone
  <1>2. run[lock] = "await"
    BY <1>1 DEF StructureInv, ChannelInv, LockInv
  <1>3. FreePids \subseteq Pids BY DEF FreePids
  <1> QED BY <1>1, <1>2, <1>3 DEF Clone, othersOfServer, hostVars

(* While the server is at work, both directions of the socket are empty. *)
LEMMA Serving ==
    ASSUME StructureInv, srv \in {"cloned", "assigned", "mapped", "signalled"}
    PROVE  /\ srvJob \in Jobs /\ srvJob = lock
           /\ reqs = << >> /\ resps = << >>
           /\ child[srvJob] # "none"
  BY NameAssumption DEF StructureInv, TypeOK, ServerTypeOK, ChannelInv,
     RequestInv, ResponseInv, ServingInv

(* The queue of responses after one response. *)
LEMMA OneResponse ==
    ASSUME NEW j \in Jobs, NEW b \in BOOLEAN
    PROVE  /\ Append(<< >>, Response(j, b)) = <<Response(j, b)>>
           /\ <<Response(j, b)>> \in Seq([job : Jobs, ok : BOOLEAN])
  <1>1. Response(j, b) \in [job : Jobs, ok : BOOLEAN] BY DEF Response
  <1> QED BY <1>1, Singleton

(* Where a supervisor polls for a status file, it has a process id. *)
LEMMA HasPid ==
    ASSUME StructureInv, NEW j \in Jobs, run[j] \in {"reap", "unlink"}
    PROVE  handle[j] = j /\ child[j] # "none" /\ StatusPath(j) = pid[j] /\ pid[j] \in Pids
  <1>1. handle[j] = j
    BY DEF StructureInv, HandleInv
  <1>2. child[j] # "none"
    BY <1>1, NameAssumption DEF StructureInv, HandleInv
  <1>3. pid[j] \in Pids
    BY <1>2 DEF StructureInv, ChildInv, TypeOK, ChildTypeOK
  <1> QED BY <1>1, <1>2, <1>3 DEF StatusPath

(* A run that has its child moves to another state of collecting. *)
LEMMA MoveOn ==
    ASSUME StructureInv, NEW j \in Jobs,
           NEW s \in {"collect", "kill", "reap"},
           run[j] \in {"confirm", "collect"}, Goto(j, s),
           UNCHANGED <<result, handle, got, cgDir, lock, othersOfHost>>
    PROVE  StructureInv'
  <1> USE DEF StructureInv, TypeOK, ChannelInv, hostVars, socketVars,
              serverVars, handlerVars, childVars
  <1>1. HostTypeOK'
      BY DEF Goto, othersOfHost, HostTypeOK, RunStates
  <1>2. LockInv'
      BY DEF Goto, othersOfHost, LockInv, HostTypeOK
  <1>3. ChildInv'
      BY DEF Goto, othersOfHost, ChildInv, HostTypeOK
  <1>4. HandleInv'
      BY DEF Goto, othersOfHost, HandleInv, HostTypeOK
  <1>5. LimitsInv'
      BY DEF Goto, othersOfHost, LimitsInv, HostTypeOK
  <1>6. ResultInv'
      BY DEF Goto, othersOfHost, ResultInv, HostTypeOK
  <1>7. /\ SocketTypeOK' /\ ServerTypeOK' /\ ChildTypeOK'
        /\ RequestInv' /\ ResponseInv' /\ ServingInv'
    BY DEF Goto, othersOfHost, SocketTypeOK, ServerTypeOK,
             ChildTypeOK, RequestInv, ResponseInv, ServingInv
  <1> QED BY <1>1, <1>2, <1>3, <1>4, <1>5, <1>6, <1>7

(* A run returns anything but a report. *)
LEMMA ReturnUnreported ==
    ASSUME StructureInv, NEW j \in Jobs,
           NEW r \in Results, r.tag \in Errors \cup {"Cancelled"},
           run[j] \notin {"idle", "await", "dropping", "done"}, Return(j, r),
           UNCHANGED <<handle, got, cgDir, lock, othersOfHost>>
    PROVE  StructureInv'
  <1> USE DEF StructureInv, TypeOK, ChannelInv, hostVars, socketVars,
              serverVars, handlerVars, childVars
  <1>1. HostTypeOK'
      BY TagTypes DEF Return, othersOfHost, Goto,
             HostTypeOK, RunStates
  <1>2. LockInv'
      BY DEF Return, othersOfHost, Goto, LockInv,
             HostTypeOK
  <1>3. ChildInv'
      BY DEF Return, othersOfHost, Goto, ChildInv,
             HostTypeOK
  <1>4. HandleInv'
      BY DEF Return, othersOfHost, Goto, HandleInv,
             HostTypeOK
  <1>5. LimitsInv'
      BY DEF Return, othersOfHost, Goto, LimitsInv,
             HostTypeOK
  <1>6. ResultInv'
      BY DEF Return, othersOfHost, Goto, ResultInv,
             Error, Reason, Cancelled, Errors, HostTypeOK
  <1>7. /\ SocketTypeOK' /\ ServerTypeOK' /\ ChildTypeOK'
        /\ RequestInv' /\ ResponseInv' /\ ServingInv'
    BY DEF Return, othersOfHost, Goto, SocketTypeOK,
             ServerTypeOK, ChildTypeOK, RequestInv, ResponseInv, ServingInv
  <1> QED BY <1>1, <1>2, <1>3, <1>4, <1>5, <1>6, <1>7

(* Every step of a run, one by one. *)
LEMMA RunStepPreserves ==
    ASSUME StructureInv, NEW j \in Jobs, RunStep(j)
    PROVE  StructureInv'
  <1> USE DEF StructureInv, TypeOK, ChannelInv, hostVars, socketVars,
              serverVars, handlerVars, childVars
  <1>1. ASSUME Start(j) PROVE StructureInv'
    <2>1. HostTypeOK'
      BY <1>1 DEF Start, Goto, othersOfHost, HostTypeOK, RunStates
    <2>2. LockInv'
      BY <1>1 DEF Start, Goto, othersOfHost, LockInv, HostTypeOK
    <2>3. ChildInv'
      BY <1>1 DEF Start, Goto, othersOfHost, ChildInv, HostTypeOK
    <2>4. HandleInv'
      BY <1>1 DEF Start, Goto, othersOfHost, HandleInv, HostTypeOK
    <2>5. LimitsInv'
      BY <1>1 DEF Start, Goto, othersOfHost, LimitsInv, HostTypeOK
    <2>6. ResultInv'
      BY <1>1 DEF Start, Goto, othersOfHost, ResultInv, HostTypeOK
    <2>7. /\ SocketTypeOK' /\ ServerTypeOK' /\ ChildTypeOK'
          /\ RequestInv' /\ ResponseInv' /\ ServingInv'
      BY <1>1 DEF Start, Goto, othersOfHost, SocketTypeOK, ServerTypeOK,
               ChildTypeOK, RequestInv, ResponseInv, ServingInv
    <2> QED BY <2>1, <2>2, <2>3, <2>4, <2>5, <2>6, <2>7
  <1>2. ASSUME StartInvalid(j) PROVE StructureInv'
    <2>1. HostTypeOK'
      BY <1>2, TagTypes DEF StartInvalid, Goto, othersOfHost, HostTypeOK,
               RunStates, Errors
    <2>2. LockInv'
      BY <1>2 DEF StartInvalid, Goto, othersOfHost, LockInv, HostTypeOK
    <2>3. ChildInv'
      BY <1>2 DEF StartInvalid, Goto, othersOfHost, ChildInv, HostTypeOK
    <2>4. HandleInv'
      BY <1>2 DEF StartInvalid, Goto, othersOfHost, HandleInv, HostTypeOK
    <2>5. LimitsInv'
      BY <1>2 DEF StartInvalid, Goto, othersOfHost, LimitsInv, HostTypeOK
    <2>6. ResultInv'
      BY <1>2 DEF StartInvalid, Goto, othersOfHost, ResultInv, Error, Reason,
               Cancelled, Errors, HostTypeOK
    <2>7. /\ SocketTypeOK' /\ ServerTypeOK' /\ ChildTypeOK'
          /\ RequestInv' /\ ResponseInv' /\ ServingInv'
      BY <1>2 DEF StartInvalid, Goto, othersOfHost, SocketTypeOK,
               ServerTypeOK, ChildTypeOK, RequestInv, ResponseInv, ServingInv
    <2> QED BY <2>1, <2>2, <2>3, <2>4, <2>5, <2>6, <2>7
  <1>3. ASSUME PrepareFails(j) PROVE StructureInv'
    <2>1. HostTypeOK'
      BY <1>3, TagTypes DEF PrepareFails, Return, othersOfHost, Goto,
               HostTypeOK, RunStates, Errors
    <2>2. LockInv'
      BY <1>3 DEF PrepareFails, Return, othersOfHost, Goto, LockInv, HostTypeOK
    <2>3. ChildInv'
      BY <1>3 DEF PrepareFails, Return, othersOfHost, Goto, ChildInv,
               HostTypeOK
    <2>4. HandleInv'
      BY <1>3 DEF PrepareFails, Return, othersOfHost, Goto, HandleInv,
               HostTypeOK
    <2>5. LimitsInv'
      BY <1>3 DEF PrepareFails, Return, othersOfHost, Goto, LimitsInv,
               HostTypeOK
    <2>6. ResultInv'
      BY <1>3 DEF PrepareFails, Return, othersOfHost, Goto, ResultInv, Error,
               Reason, Cancelled, Errors, HostTypeOK
    <2>7. /\ SocketTypeOK' /\ ServerTypeOK' /\ ChildTypeOK'
          /\ RequestInv' /\ ResponseInv' /\ ServingInv'
      BY <1>3 DEF PrepareFails, Return, othersOfHost, Goto, SocketTypeOK,
               ServerTypeOK, ChildTypeOK, RequestInv, ResponseInv, ServingInv
    <2> QED BY <2>1, <2>2, <2>3, <2>4, <2>5, <2>6, <2>7
  <1>4. ASSUME RequestSpawn(j) PROVE StructureInv'
    <2>1. HostTypeOK'
      BY <1>4, NameAssumption DEF RequestSpawn, Goto, HostTypeOK, RunStates
    <2>2. SocketTypeOK'
      BY <1>4, NameAssumption DEF RequestSpawn, Goto, SocketTypeOK
    <2>3. LockInv'
      BY <1>4, NameAssumption DEF RequestSpawn, Goto, LockInv, HostTypeOK
    <2>4. RequestInv'
      <3>1. reqs = << >> /\ resps = << >> /\ srvJob = NoJob
        BY <1>4, NameAssumption DEF RequestSpawn, RequestInv, ResponseInv, ServingInv
      <3>2. reqs' = <<j>> /\ lock' = j
        BY <1>4, <3>1, Singleton DEF RequestSpawn
      <3>3. child[j] = "none"
        BY <1>4 DEF RequestSpawn, ChildInv
      <3> QED BY <1>4, <3>1, <3>2, <3>3 DEF RequestSpawn, RequestInv
    <2>5. ResponseInv'
      BY <1>4, NameAssumption DEF RequestSpawn, Goto, ResponseInv
    <2>6. ServingInv'
      BY <1>4, NameAssumption DEF RequestSpawn, Goto, ServingInv
    <2>7. ChildInv'
      BY <1>4, NameAssumption DEF RequestSpawn, Goto, ChildInv, HostTypeOK
    <2>8. HandleInv'
      BY <1>4, NameAssumption DEF RequestSpawn, Goto, HandleInv, HostTypeOK
    <2>9. LimitsInv'
      BY <1>4, NameAssumption DEF RequestSpawn, Goto, LimitsInv, HostTypeOK
    <2>10. ResultInv'
      BY <1>4, NameAssumption DEF RequestSpawn, Goto, ResultInv, HostTypeOK
    <2>11. ServerTypeOK' /\ ChildTypeOK'
      BY <1>4 DEF RequestSpawn, Goto, ServerTypeOK, ChildTypeOK
    <2> QED BY <2>1, <2>2, <2>3, <2>4, <2>5, <2>6, <2>7, <2>8, <2>9, <2>10, <2>11
  <1>5. ASSUME RequestFails(j) PROVE StructureInv'
    BY <1>5, TagTypes, ReturnUnreported DEF RequestFails, Error, Reason, Errors
  <1>6. ASSUME ReceiveResponse(j) PROVE StructureInv'
    <2>1. HostTypeOK'
      <3>1. lock' = NoJob /\ cgDir' = cgDir /\ got' = got
        BY <1>6 DEF ReceiveResponse
      <3>2. Error("NamespaceCloneFailed") \in Results
        BY TagTypes DEF Errors
      <3>3. run' \in [Jobs -> RunStates]
        BY <1>6 DEF ReceiveResponse, Return, Goto, HostTypeOK, RunStates
      <3>4. result' \in [Jobs -> Results]
        BY <1>6, <3>2 DEF ReceiveResponse, Return, HostTypeOK
      <3>5. handle' \in [Jobs -> Jobs \cup {NoJob}]
        BY <1>6, ResponseIsOwn DEF ReceiveResponse, HostTypeOK
      <3> QED BY <3>1, <3>3, <3>4, <3>5 DEF HostTypeOK
    <2>2. SocketTypeOK'
      BY <1>6, NameAssumption DEF ReceiveResponse, Goto, Return, SocketTypeOK
    <2>3. LockInv'
      BY <1>6, NameAssumption DEF ReceiveResponse, Goto, Return, LockInv,
               HostTypeOK
    <2>4. RequestInv'
      BY <1>6, NameAssumption DEF ReceiveResponse, Goto, Return, RequestInv
    <2>5. ResponseInv'
      BY <1>6, ResponseIsOwn DEF ResponseInv
    <2>6. ServingInv'
      BY <1>6, NameAssumption DEF ReceiveResponse, ResponseInv, ServingInv
    <2>7. ChildInv'
      BY <1>6, NameAssumption DEF ReceiveResponse, Goto, Return, ChildInv,
               HostTypeOK
    <2>8. HandleInv'
      BY SMTT(40), <1>6, ResponseIsOwn
         DEF ReceiveResponse, Return, Goto, HandleInv, HostTypeOK
    <2>9. LimitsInv'
      BY <1>6, NameAssumption DEF ReceiveResponse, Goto, Return, LimitsInv,
               HostTypeOK
    <2>10. ResultInv'
      BY <1>6, NameAssumption DEF ReceiveResponse, Goto, Return, ResultInv,
               Error, Reason, Cancelled, Errors, HostTypeOK
    <2>11. ServerTypeOK' /\ ChildTypeOK'
      BY <1>6 DEF ReceiveResponse, Goto, Return, ServerTypeOK, ChildTypeOK
    <2> QED BY <2>1, <2>2, <2>3, <2>4, <2>5, <2>6, <2>7, <2>8, <2>9, <2>10, <2>11
  <1>7. ASSUME ReceiveEof(j) PROVE StructureInv'
    <2>1. HostTypeOK'
      BY <1>7, TagTypes, NameAssumption DEF ReceiveEof, Return, Goto,
               HostTypeOK, RunStates, Errors
    <2>2. SocketTypeOK'
      BY <1>7, NameAssumption DEF ReceiveEof, Return, Goto, SocketTypeOK
    <2>3. LockInv'
      BY <1>7, NameAssumption DEF ReceiveEof, Return, Goto, LockInv, HostTypeOK
    <2>4. RequestInv'
      BY <1>7, NameAssumption DEF ReceiveEof, Return, Goto, RequestInv
    <2>5. ResponseInv'
      BY <1>7, NameAssumption DEF ReceiveEof, Return, Goto, ResponseInv
    <2>6. ServingInv'
      <3>1. srvJob = NoJob
        BY <1>7 DEF ReceiveEof, SocketOpen, ServerTypeOK
      <3> QED BY <1>7, <3>1 DEF ReceiveEof, ServingInv
    <2>7. ChildInv'
      BY <1>7, NameAssumption DEF ReceiveEof, Return, Goto, ChildInv,
               HostTypeOK
    <2>8. HandleInv'
      BY <1>7, NameAssumption DEF ReceiveEof, Return, Goto, HandleInv,
               HostTypeOK
    <2>9. LimitsInv'
      BY <1>7, NameAssumption DEF ReceiveEof, Return, Goto, LimitsInv,
               HostTypeOK
    <2>10. ResultInv'
      BY <1>7, NameAssumption DEF ReceiveEof, Return, Goto, ResultInv, Error,
               Reason, Cancelled, Errors, HostTypeOK
    <2>11. ServerTypeOK' /\ ChildTypeOK'
      BY <1>7 DEF ReceiveEof, Return, Goto, ServerTypeOK, ChildTypeOK
    <2> QED BY <2>1, <2>2, <2>3, <2>4, <2>5, <2>6, <2>7, <2>8, <2>9, <2>10, <2>11
  <1>8. ASSUME ConfirmError(j) PROVE StructureInv'
    BY <1>8, TagTypes, ReturnUnreported DEF ConfirmError, Error, Reason, Errors
  <1>9. ASSUME ConfirmExec(j) \/ ConfirmInterrupted(j) PROVE StructureInv'
    BY <1>9, MoveOn DEF ConfirmExec, ConfirmInterrupted
  <1>10. ASSUME OutputEnds(j) PROVE StructureInv'
    BY <1>10, MoveOn DEF OutputEnds
  <1>11. ASSUME OutputFails(j) PROVE StructureInv'
    BY <1>11, MoveOn DEF OutputFails
  <1>12. ASSUME TtlExpires(j) PROVE StructureInv'
    BY <1>12, MoveOn DEF TtlExpires
  <1>13. ASSUME KillAll(j) PROVE StructureInv'
    <2>1. HostTypeOK'
      BY <1>13 DEF KillAll, Goto, HostTypeOK, RunStates
    <2>2. ChildTypeOK'
      BY <1>13, KilledType DEF KillAll, Goto, ChildTypeOK, ChildStates
    <2>3. LockInv'
      BY <1>13 DEF KillAll, Goto, LockInv, HostTypeOK
    <2>4. RequestInv'
      BY <1>13 DEF KillAll, RequestInv, Alive, ChildTypeOK
    <2>5. ServingInv'
      BY <1>13 DEF KillAll, ServingInv, ServerTypeOK, ChildTypeOK
    <2>6. ChildInv'
      BY <1>13 DEF KillAll, Goto, ChildInv, Alive, PastBarrier, HostTypeOK,
               ServerTypeOK, ChildTypeOK
    <2>7. HandleInv'
      BY <1>13 DEF KillAll, Goto, HandleInv, HostTypeOK, ChildTypeOK
    <2>8. LimitsInv'
      BY <1>13 DEF KillAll, Goto, LimitsInv, Alive, PastBarrier, HostTypeOK,
               ChildTypeOK
    <2>9. ResultInv'
      BY <1>13 DEF KillAll, Goto, ResultInv, Dead, Alive, HostTypeOK,
               ChildTypeOK
    <2>10. SocketTypeOK' /\ ServerTypeOK' /\ ResponseInv'
      BY <1>13 DEF KillAll, Goto, SocketTypeOK, ServerTypeOK, ResponseInv
    <2> QED BY <2>1, <2>2, <2>3, <2>4, <2>5, <2>6, <2>7, <2>8, <2>9, <2>10
  <1>14. ASSUME KillFails(j) PROVE StructureInv'
    BY <1>14, TagTypes, ReturnUnreported DEF KillFails, Error, Reason, Errors
  <1>15. ASSUME PidfdReadable(j) PROVE StructureInv'
    <2>1. HostTypeOK'
      BY <1>15, TagTypes DEF PidfdReadable, Return, othersOfHost, Goto,
               HostTypeOK, RunStates
    <2>2. LockInv'
      BY <1>15 DEF PidfdReadable, Return, othersOfHost, Goto, LockInv,
               HostTypeOK
    <2>3. ChildInv'
      BY <1>15 DEF PidfdReadable, Return, othersOfHost, Goto, ChildInv,
               HostTypeOK
    <2>4. HandleInv'
      BY <1>15 DEF PidfdReadable, Return, othersOfHost, Goto, HandleInv,
               HostTypeOK
    <2>5. LimitsInv'
      BY <1>15 DEF PidfdReadable, Return, othersOfHost, Goto, LimitsInv,
               HostTypeOK
    <2>6. ResultInv'
      BY <1>15 DEF PidfdReadable, Return, Goto, othersOfHost, Reason,
               HandleInv, ResultInv, HostTypeOK
    <2>7. /\ SocketTypeOK' /\ ServerTypeOK' /\ ChildTypeOK'
          /\ RequestInv' /\ ResponseInv' /\ ServingInv'
      BY <1>15 DEF PidfdReadable, Return, othersOfHost, Goto, SocketTypeOK,
               ServerTypeOK, ChildTypeOK, RequestInv, ResponseInv, ServingInv
    <2> QED BY <2>1, <2>2, <2>3, <2>4, <2>5, <2>6, <2>7
  <1>16. ASSUME Cancel(j) PROVE StructureInv'
    BY <1>16, TagTypes, ReturnUnreported DEF Cancel, Cancelled, Reason
  <1>17. ASSUME ReadStatus(j) PROVE StructureInv'
    <2>1. HostTypeOK'
      <3>1. StatusPath(j) \in Pids
        BY <1>17, HasPid DEF ReadStatus
      <3>2. statusFile[StatusPath(j)] \in Int
        BY <3>1 DEF ServerTypeOK
      <3> QED BY <1>17, <3>2, TagTypes
              DEF ReadStatus, Return, Goto, HostTypeOK, RunStates, Errors
    <2>2. LockInv'
      BY <1>17 DEF ReadStatus, Goto, Return, othersOfHost, LockInv, HostTypeOK
    <2>3. ChildInv'
      BY <1>17 DEF ReadStatus, Goto, Return, othersOfHost, ChildInv, HostTypeOK
    <2>4. HandleInv'
      BY <1>17 DEF ReadStatus, Goto, Return, othersOfHost, HandleInv, HostTypeOK
    <2>5. LimitsInv'
      BY <1>17 DEF ReadStatus, Goto, Return, othersOfHost, LimitsInv, HostTypeOK
    <2>6. ResultInv'
      BY <1>17 DEF ReadStatus, Goto, Return, othersOfHost, ResultInv, Error,
               Reason, Cancelled, Errors, HostTypeOK
    <2>7. /\ SocketTypeOK' /\ ServerTypeOK' /\ ChildTypeOK'
          /\ RequestInv' /\ ResponseInv' /\ ServingInv'
      BY <1>17 DEF ReadStatus, Goto, Return, othersOfHost, SocketTypeOK,
               ServerTypeOK, ChildTypeOK, RequestInv, ResponseInv, ServingInv
    <2> QED BY <2>1, <2>2, <2>3, <2>4, <2>5, <2>6, <2>7
  <1>18. ASSUME Decide(j) PROVE StructureInv'
    <2>1. HostTypeOK'
      <3>1. got[j] \in Int BY DEF HostTypeOK
      <3> QED BY <1>18, <3>1, DecodeType, TagTypes
              DEF Decide, Return, Goto, HostTypeOK, RunStates
    <2>2. ServerTypeOK'
      <3>1. NoFile \in Int BY DEF NoFile
      <3>2. statusFile' \in [Pids -> Int]
        BY <1>18, <3>1 DEF Decide, ServerTypeOK
      <3> QED BY <1>18, <3>2 DEF Decide, ServerTypeOK
    <2>3. LockInv'
      BY <1>18 DEF Decide, Return, Goto, LockInv, HostTypeOK
    <2>4. ChildInv'
      BY <1>18 DEF Decide, Return, Goto, ChildInv, HostTypeOK
    <2>5. HandleInv'
      BY <1>18 DEF Decide, Return, Goto, HandleInv, HostTypeOK
    <2>6. LimitsInv'
      BY <1>18 DEF Decide, Return, Goto, LimitsInv, HostTypeOK
    <2>7. ResultInv'
      <3> DEFINE r == IF j \in oomKilled THEN Reason("OomKilled", 0)
                                         ELSE DecodeStatus(got[j])
      <3>1. got[j] \in Int BY DEF HostTypeOK
      <3>2. r.tag \in Verdicts BY <3>1, DecodeType DEF Reason, Verdicts
      <3>3. r.tag # "Pending" /\ r.tag # "TimedOut" BY <3>2 DEF Verdicts
      <3>4. result' = [result EXCEPT ![j] = r] /\ run' = [run EXCEPT ![j] = "dropping"]
        BY <1>18 DEF Decide, Return, Goto
      <3> HIDE DEF r
      <3> QED BY <1>18, <3>3, <3>4 DEF Decide, ResultInv, HostTypeOK
    <2>8. /\ SocketTypeOK' /\ ChildTypeOK' /\ RequestInv'
          /\ ResponseInv' /\ ServingInv'
      BY <1>18 DEF Decide, Return, Goto, SocketTypeOK, ChildTypeOK,
               RequestInv, ResponseInv, ServingInv
    <2> QED BY <2>1, <2>2, <2>3, <2>4, <2>5, <2>6, <2>7, <2>8
  <1>19. ASSUME ReapGivesUp(j) PROVE StructureInv'
    BY <1>19, TagTypes, ReturnUnreported DEF ReapGivesUp, Error, Reason, Errors
  <1>20. ASSUME DropGuard(j) PROVE StructureInv'
    <2>1. HostTypeOK'
      BY <1>20 DEF DropGuard, Goto, othersOfHost, HostTypeOK, RunStates
    <2>2. LockInv'
      BY <1>20 DEF DropGuard, Goto, othersOfHost, LockInv, HostTypeOK
    <2>3. ChildInv'
      BY <1>20 DEF DropGuard, Goto, othersOfHost, ChildInv, HostTypeOK
    <2>4. HandleInv'
      BY <1>20 DEF DropGuard, Goto, othersOfHost, HandleInv, HostTypeOK
    <2>5. LimitsInv'
      <3>1. j \in signalled => j \in inCgroup BY DEF LimitsInv
      <3>2. ~(j \in inCgroup /\ child[j] \in Alive)
        BY <1>20 DEF DropGuard, Counted
      <3> QED BY <1>20, <3>1, <3>2
              DEF DropGuard, Goto, othersOfHost, LimitsInv, HostTypeOK
    <2>6. ResultInv'
      BY <1>20 DEF DropGuard, Goto, othersOfHost, ResultInv, HostTypeOK
    <2>7. /\ SocketTypeOK' /\ ServerTypeOK' /\ ChildTypeOK'
          /\ RequestInv' /\ ResponseInv' /\ ServingInv'
      BY <1>20 DEF DropGuard, Goto, othersOfHost, SocketTypeOK, ServerTypeOK,
               ChildTypeOK, RequestInv, ResponseInv, ServingInv
    <2> QED BY <2>1, <2>2, <2>3, <2>4, <2>5, <2>6, <2>7
  <1>21. ASSUME DropGivesUp(j) PROVE StructureInv'
    <2>1. HostTypeOK'
      BY <1>21 DEF DropGivesUp, Goto, othersOfHost, HostTypeOK, RunStates
    <2>2. LockInv'
      BY <1>21 DEF DropGivesUp, Goto, othersOfHost, LockInv, HostTypeOK
    <2>3. ChildInv'
      BY <1>21 DEF DropGivesUp, Goto, othersOfHost, ChildInv, HostTypeOK
    <2>4. HandleInv'
      BY <1>21 DEF DropGivesUp, Goto, othersOfHost, HandleInv, HostTypeOK
    <2>5. LimitsInv'
      BY <1>21 DEF DropGivesUp, Goto, othersOfHost, LimitsInv, Alive, HostTypeOK
    <2>6. ResultInv'
      BY <1>21 DEF DropGivesUp, Goto, othersOfHost, ResultInv, HostTypeOK
    <2>7. /\ SocketTypeOK' /\ ServerTypeOK' /\ ChildTypeOK'
          /\ RequestInv' /\ ResponseInv' /\ ServingInv'
      BY <1>21 DEF DropGivesUp, Goto, othersOfHost, SocketTypeOK,
               ServerTypeOK, ChildTypeOK, RequestInv, ResponseInv, ServingInv
    <2> QED BY <2>1, <2>2, <2>3, <2>4, <2>5, <2>6, <2>7
  <1>22. ASSUME WatchFails(j) PROVE StructureInv'
    BY <1>22, TagTypes, ReturnUnreported DEF WatchFails, Error, Reason, Errors
  <1>23. ASSUME WaitSkipped(j) PROVE StructureInv'
    <2>1. HostTypeOK'
      BY <1>23, TagTypes DEF WaitSkipped, Return, othersOfHost, Goto,
               HostTypeOK, RunStates
    <2>2. LockInv'
      BY <1>23 DEF WaitSkipped, Return, othersOfHost, Goto, LockInv,
               HostTypeOK
    <2>3. ChildInv'
      BY <1>23 DEF WaitSkipped, Return, othersOfHost, Goto, ChildInv,
               HostTypeOK
    <2>4. HandleInv'
      BY <1>23 DEF WaitSkipped, Return, othersOfHost, Goto, HandleInv,
               HostTypeOK
    <2>5. LimitsInv'
      BY <1>23 DEF WaitSkipped, Return, othersOfHost, Goto, LimitsInv,
               HostTypeOK
    <2>6. ResultInv'
      BY <1>23 DEF WaitSkipped, Return, Goto, othersOfHost, Reason,
               HandleInv, ResultInv, HostTypeOK
    <2>7. /\ SocketTypeOK' /\ ServerTypeOK' /\ ChildTypeOK'
          /\ RequestInv' /\ ResponseInv' /\ ServingInv'
      BY <1>23 DEF WaitSkipped, Return, othersOfHost, Goto, SocketTypeOK,
               ServerTypeOK, ChildTypeOK, RequestInv, ResponseInv, ServingInv
    <2> QED BY <2>1, <2>2, <2>3, <2>4, <2>5, <2>6, <2>7
  <1>24. ASSUME ReceiveTruncated(j) PROVE StructureInv'
    <2>1. HostTypeOK'
      BY <1>24, TagTypes, NameAssumption DEF ReceiveTruncated, Return, Goto,
               HostTypeOK, RunStates, Errors
    <2>2. SocketTypeOK'
      BY <1>24, NameAssumption DEF ReceiveTruncated, Return, Goto, SocketTypeOK
    <2>3. LockInv'
      BY <1>24, NameAssumption DEF ReceiveTruncated, Return, Goto, LockInv, HostTypeOK
    <2>4. RequestInv'
      BY <1>24, NameAssumption DEF ReceiveTruncated, RequestInv
    <2>5. ResponseInv'
      BY <1>24, ResponseIsOwn DEF ResponseInv
    <2>6. ServingInv'
      BY <1>24, NameAssumption DEF ReceiveTruncated, ResponseInv, ServingInv
    <2>7. ChildInv'
      BY <1>24, NameAssumption DEF ReceiveTruncated, Return, Goto, ChildInv,
               HostTypeOK
    <2>8. HandleInv'
      BY <1>24, NameAssumption DEF ReceiveTruncated, Return, Goto, HandleInv,
               HostTypeOK
    <2>9. LimitsInv'
      BY <1>24, NameAssumption DEF ReceiveTruncated, Return, Goto, LimitsInv,
               HostTypeOK
    <2>10. ResultInv'
      BY <1>24, NameAssumption DEF ReceiveTruncated, Return, Goto, ResultInv, Error,
               Reason, Cancelled, Errors, HostTypeOK
    <2>11. ServerTypeOK' /\ ChildTypeOK'
      BY <1>24 DEF ReceiveTruncated, Return, Goto, ServerTypeOK, ChildTypeOK
    <2> QED BY <2>1, <2>2, <2>3, <2>4, <2>5, <2>6, <2>7, <2>8, <2>9, <2>10, <2>11
  <1> QED BY <1>1, <1>2, <1>3, <1>4, <1>5, <1>6, <1>7, <1>8, <1>9, <1>10,
         <1>11, <1>12, <1>13, <1>14, <1>15, <1>16, <1>17, <1>18, <1>19,
         <1>20, <1>21, <1>22, <1>23, <1>24 DEF RunStep

(* Every step of the main loop of the fork server. *)
LEMMA ServerStepPreserves ==
    ASSUME StructureInv, ServerStep
    PROVE  StructureInv'
  <1> USE DEF StructureInv, TypeOK, ChannelInv, hostVars, socketVars,
              serverVars, handlerVars, childVars
  <1>1. ASSUME Clone PROVE StructureInv'
    <2>1. SocketTypeOK'
      BY <1>1 DEF Clone, MainAt, othersOfServer, SocketTypeOK
    <2>2. ServerTypeOK'
      BY <1>1, CloneFacts, NameAssumption DEF Clone, othersOfServer, MainAt,
         ServerTypeOK, ServerStates
    <2>3. ChildTypeOK'
      <3>1. "barrier" \in ChildStates BY DEF ChildStates
      <3>2. PICK p \in Pids : /\ child' = [child EXCEPT ![lock] = "barrier"]
                              /\ pid' = [pid EXCEPT ![lock] = p]
        BY <1>1, CloneFacts
      <3>3. /\ child' \in [Jobs -> ChildStates] /\ pid' \in [Jobs -> Pids \cup {NoPid}]
            /\ stdio' \subseteq Jobs
        BY <1>1, CloneFacts, <3>1, <3>2 DEF ChildTypeOK
      <3> QED BY <1>1, <3>3 DEF Clone, ChildTypeOK
    <2>4. RequestInv'
      BY <1>1, CloneFacts DEF RequestInv
    <2>5. ResponseInv'
      BY <1>1, CloneFacts DEF ResponseInv
    <2>6. ServingInv'
      <3>1. child'[lock] # "none"
        BY <1>1, CloneFacts DEF ChildTypeOK
      <3> QED BY <1>1, <3>1, CloneFacts DEF Clone, othersOfServer, ServingInv
    <2>7. ChildInv'
      <3>1. PICK p \in Pids : /\ child' = [child EXCEPT ![lock] = "barrier"]
                              /\ pid' = [pid EXCEPT ![lock] = p]
        BY <1>1, CloneFacts
      <3>2. p # NoPid /\ "barrier" \notin PastBarrier
        BY NameAssumption DEF PastBarrier
      <3>3. lock \in Jobs /\ run[lock] = "await" /\ child[lock] = "none"
        BY <1>1, CloneFacts
      <3> QED BY <1>1, <3>1, <3>2, <3>3
              DEF Clone, othersOfServer, ChildInv, ChildTypeOK
    <2>8. HandleInv'
      BY <1>1 DEF Clone, MainAt, othersOfServer, HandleInv, ChildTypeOK
    <2>9. LimitsInv'
      BY <1>1, CloneFacts DEF Clone, othersOfServer, ChildInv, LimitsInv,
         ChildTypeOK
    <2>10. ResultInv'
      BY <1>1, CloneFacts DEF Clone, othersOfServer, ResultInv, ChildTypeOK, Dead
    <2>11. HostTypeOK' /\ LockInv'
      BY <1>1 DEF Clone, MainAt, othersOfServer, HostTypeOK, LockInv
    <2> QED BY <2>1, <2>2, <2>3, <2>4, <2>5, <2>6, <2>7, <2>8, <2>9, <2>10, <2>11
  <1>2. ASSUME CloneFails PROVE StructureInv'
    <2>1. SocketTypeOK'
      <3>1. reqs' = << >>
        BY <1>2, RequestHead DEF CloneFails
      <3>2. Head(reqs) = lock /\ lock \in Jobs /\ resps = << >>
        BY <1>2, RequestHead DEF CloneFails
      <3>3. resps' = <<Response(lock, FALSE)>>
        BY <1>2, <3>2, OneResponse DEF CloneFails, SendError
      <3>4. << >> \in Seq(Jobs) OBVIOUS
      <3> QED BY <3>1, <3>2, <3>3, <3>4, OneResponse DEF SocketTypeOK
    <2>2. ServerTypeOK'
      BY <1>2, NameAssumption DEF CloneFails, MainAt, SendError,
               othersOfServer, ServerTypeOK, ServerStates, HandlerStates
    <2>3. RequestInv'
      BY SMTT(40), <1>2, NameAssumption DEF CloneFails, MainAt, SendError,
               othersOfServer, RequestInv
    <2>4. ResponseInv'
      <3>1. /\ lock \in Jobs /\ lock' = lock /\ srvJob' = NoJob
            /\ resps' = <<Response(lock, FALSE)>>
        BY <1>2, RequestHead, OneResponse DEF CloneFails, SendError, othersOfServer
      <3> QED BY <3>1 DEF ResponseInv
    <2>5. ServingInv'
      BY <1>2, NameAssumption DEF CloneFails, MainAt, SendError,
               othersOfServer, ServingInv
    <2>6. LimitsInv'
      BY <1>2, NameAssumption DEF CloneFails, MainAt, SendError,
               othersOfServer, LimitsInv
    <2>7. /\ HostTypeOK' /\ ChildTypeOK' /\ LockInv'
          /\ ChildInv' /\ HandleInv' /\ ResultInv'
      BY <1>2 DEF CloneFails, MainAt, SendError, othersOfServer, HostTypeOK,
               ChildTypeOK, LockInv, ChildInv, HandleInv, ResultInv
    <2> QED BY <2>1, <2>2, <2>3, <2>4, <2>5, <2>6, <2>7
  <1>3. ASSUME AssignCgroup PROVE StructureInv'
    <2>1. ServerTypeOK'
      BY <1>3 DEF AssignCgroup, MainAt, othersOfServer, ServerTypeOK,
               ServerStates, HandlerStates
    <2>2. ChildTypeOK'
      BY <1>3, Serving DEF AssignCgroup, MainAt, ChildTypeOK
    <2>3. LimitsInv'
      BY <1>3 DEF AssignCgroup, MainAt, othersOfServer, LimitsInv
    <2>4. /\ HostTypeOK' /\ SocketTypeOK' /\ LockInv' /\ RequestInv' /\ ResponseInv'
          /\ ServingInv' /\ ChildInv' /\ HandleInv' /\ ResultInv'
      BY <1>3 DEF AssignCgroup, MainAt, othersOfServer, HostTypeOK,
               SocketTypeOK, LockInv, RequestInv, ResponseInv, ServingInv,
               ChildInv, HandleInv, ResultInv
    <2> QED BY <2>1, <2>2, <2>3, <2>4
  <1>4. ASSUME AssignFails PROVE StructureInv'
    <2>1. SocketTypeOK'
      BY <1>4, Serving, OneResponse
         DEF AssignFails, MainAt, SendError, SocketTypeOK
    <2>2. ServerTypeOK'
      BY <1>4, NameAssumption DEF AssignFails, MainAt, SendError,
               othersOfServer, ServerTypeOK, ServerStates, HandlerStates
    <2>3. RequestInv'
      BY <1>4, Serving DEF AssignFails, MainAt, RequestInv
    <2>4. ResponseInv'
      <3>1. /\ lock \in Jobs /\ lock' = lock /\ srvJob' = NoJob
            /\ resps' = <<Response(lock, FALSE)>>
        BY <1>4, Serving, OneResponse DEF AssignFails, MainAt, SendError, othersOfServer
      <3> QED BY <3>1 DEF ResponseInv
    <2>5. ServingInv'
      BY <1>4, NameAssumption DEF AssignFails, MainAt, SendError,
               othersOfServer, ServingInv
    <2>6. LimitsInv'
      BY <1>4, NameAssumption DEF AssignFails, MainAt, SendError,
               othersOfServer, LimitsInv
    <2>7. /\ HostTypeOK' /\ ChildTypeOK' /\ LockInv'
          /\ ChildInv' /\ HandleInv' /\ ResultInv'
      BY <1>4 DEF AssignFails, MainAt, SendError, othersOfServer, HostTypeOK,
               ChildTypeOK, LockInv, ChildInv, HandleInv, ResultInv
    <2> QED BY <2>1, <2>2, <2>3, <2>4, <2>5, <2>6, <2>7
  <1>5. ASSUME WriteMaps PROVE StructureInv'
    <2>1. ServerTypeOK'
      BY <1>5 DEF WriteMaps, MainAt, othersOfServer, ServerTypeOK,
               ServerStates, HandlerStates
    <2>2. ChildTypeOK'
      BY <1>5, Serving DEF WriteMaps, MainAt, ChildTypeOK
    <2>3. LimitsInv'
      BY <1>5 DEF WriteMaps, MainAt, othersOfServer, LimitsInv
    <2>4. /\ HostTypeOK' /\ SocketTypeOK' /\ LockInv' /\ RequestInv' /\ ResponseInv'
          /\ ServingInv' /\ ChildInv' /\ HandleInv' /\ ResultInv'
      BY <1>5 DEF WriteMaps, MainAt, othersOfServer, HostTypeOK,
               SocketTypeOK, LockInv, RequestInv, ResponseInv, ServingInv,
               ChildInv, HandleInv, ResultInv
    <2> QED BY <2>1, <2>2, <2>3, <2>4
  <1>6. ASSUME MapsFail PROVE StructureInv'
    <2>1. SocketTypeOK'
      BY <1>6, Serving, OneResponse
         DEF MapsFail, MainAt, SendError, SocketTypeOK
    <2>2. ServerTypeOK'
      BY <1>6, NameAssumption DEF MapsFail, MainAt, SendError, othersOfServer,
               ServerTypeOK, ServerStates, HandlerStates
    <2>3. RequestInv'
      BY <1>6, Serving DEF MapsFail, MainAt, RequestInv
    <2>4. ResponseInv'
      <3>1. /\ lock \in Jobs /\ lock' = lock /\ srvJob' = NoJob
            /\ resps' = <<Response(lock, FALSE)>>
        BY <1>6, Serving, OneResponse DEF MapsFail, MainAt, SendError, othersOfServer
      <3> QED BY <3>1 DEF ResponseInv
    <2>5. ServingInv'
      BY <1>6, NameAssumption DEF MapsFail, MainAt, SendError, othersOfServer,
               ServingInv
    <2>6. LimitsInv'
      BY <1>6, NameAssumption DEF MapsFail, MainAt, SendError, othersOfServer,
               LimitsInv
    <2>7. /\ HostTypeOK' /\ ChildTypeOK' /\ LockInv'
          /\ ChildInv' /\ HandleInv' /\ ResultInv'
      BY <1>6 DEF MapsFail, MainAt, SendError, othersOfServer, HostTypeOK,
               ChildTypeOK, LockInv, ChildInv, HandleInv, ResultInv
    <2> QED BY <2>1, <2>2, <2>3, <2>4, <2>5, <2>6, <2>7
  <1>7. ASSUME SignalChild PROVE StructureInv'
    <2>1. ServerTypeOK'
      BY <1>7 DEF SignalChild, MainAt, othersOfServer, ServerTypeOK,
               ServerStates, HandlerStates
    <2>2. ChildTypeOK'
      BY <1>7, Serving DEF SignalChild, MainAt, ChildTypeOK
    <2>3. ResponseInv'
      BY <1>7 DEF SignalChild, MainAt, othersOfServer, ResponseInv
    <2>4. ChildInv'
      BY <1>7, Serving DEF SignalChild, MainAt, othersOfServer, ChildInv
    <2>5. LimitsInv'
      <3>1. /\ srvJob \in inCgroup \cap mapped
            /\ srvJob \in cgDir
        BY <1>7, Serving DEF SignalChild, MainAt, LimitsInv, LockInv
      <3> QED BY <1>7, <3>1 DEF SignalChild, othersOfServer, LimitsInv
    <2>6. /\ HostTypeOK' /\ SocketTypeOK' /\ LockInv' /\ RequestInv'
          /\ ServingInv' /\ HandleInv' /\ ResultInv'
      BY <1>7 DEF SignalChild, MainAt, othersOfServer, HostTypeOK,
               SocketTypeOK, LockInv, RequestInv, ServingInv, HandleInv,
               ResultInv
    <2> QED BY <2>1, <2>2, <2>3, <2>4, <2>5, <2>6
  <1>8. ASSUME Respond PROVE StructureInv'
    <2>1. SocketTypeOK'
      BY <1>8, Serving, OneResponse
         DEF Respond, MainAt, SocketTypeOK
    <2>2. ServerTypeOK'
      BY <1>8, NameAssumption DEF Respond, MainAt, othersOfServer,
               ServerTypeOK, ServerStates, HandlerStates
    <2>3. RequestInv'
      BY <1>8, Serving DEF Respond, MainAt, RequestInv
    <2>4. ResponseInv'
      <3>1. /\ lock \in Jobs /\ lock' = lock /\ srvJob' = NoJob
            /\ resps' = <<Response(lock, TRUE)>>
        BY <1>8, Serving, OneResponse DEF Respond, MainAt, othersOfServer
      <3>2. lock \in signalled'
        BY <1>8, Serving DEF Respond, MainAt, LimitsInv
      <3> QED BY <3>1, <3>2 DEF ResponseInv
    <2>5. ServingInv'
      BY <1>8, NameAssumption DEF Respond, MainAt, othersOfServer, ServingInv
    <2>6. LimitsInv'
      BY <1>8, NameAssumption DEF Respond, MainAt, othersOfServer, LimitsInv
    <2>7. /\ HostTypeOK' /\ ChildTypeOK' /\ LockInv'
          /\ ChildInv' /\ HandleInv' /\ ResultInv'
      BY <1>8 DEF Respond, MainAt, othersOfServer, HostTypeOK, ChildTypeOK,
               LockInv, ChildInv, HandleInv, ResultInv
    <2> QED BY <2>1, <2>2, <2>3, <2>4, <2>5, <2>6, <2>7
  <1> QED BY <1>1, <1>2, <1>3, <1>4, <1>5, <1>6, <1>7, <1>8 DEF ServerStep

(* Every step of the SIGCHLD handler. *)
LEMMA HandlerStepPreserves ==
    ASSUME StructureInv, HandlerStep
    PROVE  StructureInv'
  <1> USE DEF StructureInv, TypeOK, ChannelInv, hostVars, socketVars,
              serverVars, handlerVars, childVars
  <1>1. ASSUME DeliverSigchld PROVE StructureInv'
    <2>1. ServerTypeOK'
      BY <1>1 DEF DeliverSigchld, ServerTypeOK, ServerStates, HandlerStates
    <2>2. /\ HostTypeOK' /\ SocketTypeOK' /\ ChildTypeOK' /\ LockInv' /\ RequestInv' /\ ResponseInv'
          /\ ServingInv' /\ ChildInv' /\ HandleInv' /\ LimitsInv' /\ ResultInv'
      BY <1>1 DEF DeliverSigchld, HostTypeOK, SocketTypeOK, ChildTypeOK,
               LockInv, RequestInv, ResponseInv, ServingInv, ChildInv,
               HandleInv, LimitsInv, ResultInv
    <2> QED BY <2>1, <2>2
  <1>2. ASSUME HandlerReaps PROVE StructureInv'
    <2>1. ServerTypeOK'
      BY <1>2, NameAssumption DEF HandlerReaps, ServerTypeOK, HandlerStates
    <2>2. ChildTypeOK'
      BY <1>2, KilledType DEF HandlerReaps, ChildTypeOK, ChildStates
    <2>3. RequestInv'
      BY <1>2 DEF HandlerReaps, RequestInv, ChildTypeOK
    <2>4. ServingInv'
      BY <1>2 DEF HandlerReaps, ServingInv, ChildTypeOK
    <2>5. ChildInv'
      BY <1>2 DEF HandlerReaps, ChildInv, PastBarrier, Alive, ChildTypeOK
    <2>6. HandleInv'
      BY <1>2 DEF HandlerReaps, HandleInv, ChildTypeOK
    <2>7. LimitsInv'
      BY <1>2 DEF HandlerReaps, LimitsInv, Alive, PastBarrier, ChildTypeOK
    <2>8. ResultInv'
      BY <1>2 DEF HandlerReaps, ResultInv, Dead, Alive, ChildTypeOK
    <2>9. HostTypeOK' /\ SocketTypeOK' /\ LockInv' /\ ResponseInv'
      BY <1>2 DEF HandlerReaps, HostTypeOK, SocketTypeOK, LockInv, ResponseInv
    <2> QED BY <2>1, <2>2, <2>3, <2>4, <2>5, <2>6, <2>7, <2>8, <2>9
  <1>3. ASSUME HandlerReturns PROVE StructureInv'
    <2>1. ServerTypeOK'
      BY <1>3 DEF HandlerReturns, ServerTypeOK, ServerStates, HandlerStates
    <2>2. /\ HostTypeOK' /\ SocketTypeOK' /\ ChildTypeOK' /\ LockInv' /\ RequestInv' /\ ResponseInv'
          /\ ServingInv' /\ ChildInv' /\ HandleInv' /\ LimitsInv' /\ ResultInv'
      BY <1>3 DEF HandlerReturns, HostTypeOK, SocketTypeOK, ChildTypeOK,
               LockInv, RequestInv, ResponseInv, ServingInv, ChildInv,
               HandleInv, LimitsInv, ResultInv
    <2> QED BY <2>1, <2>2
  <1>4. ASSUME HandlerOpens PROVE StructureInv'
    <2>1. ServerTypeOK'
      <3>1. EmptyFile \in Int BY DEF EmptyFile
      <3>2. statusFile' \in [Pids -> Int]
        BY <1>4, <3>1 DEF HandlerOpens, ServerTypeOK
      <3> QED BY <1>4, <3>2 DEF HandlerOpens, ServerTypeOK, HandlerStates
    <2>2. /\ HostTypeOK' /\ SocketTypeOK' /\ ChildTypeOK' /\ LockInv' /\ RequestInv' /\ ResponseInv'
          /\ ServingInv' /\ ChildInv' /\ HandleInv' /\ LimitsInv' /\ ResultInv'
      BY <1>4 DEF HandlerOpens, HostTypeOK, SocketTypeOK, ChildTypeOK,
               LockInv, RequestInv, ResponseInv, ServingInv, ChildInv,
               HandleInv, LimitsInv, ResultInv
    <2> QED BY <2>1, <2>2
  <1>5. ASSUME HandlerOpenFails PROVE StructureInv'
    <2>1. ServerTypeOK'
      BY <1>5, NameAssumption DEF HandlerOpenFails, ServerTypeOK,
               ServerStates, HandlerStates
    <2>2. ChildInv'
      BY <1>5, NameAssumption DEF HandlerOpenFails, ChildInv
    <2>3. /\ HostTypeOK' /\ SocketTypeOK' /\ ChildTypeOK' /\ LockInv' /\ RequestInv'
          /\ ResponseInv' /\ ServingInv' /\ HandleInv' /\ LimitsInv' /\ ResultInv'
      BY <1>5 DEF HandlerOpenFails, HostTypeOK, SocketTypeOK, ChildTypeOK,
               LockInv, RequestInv, ResponseInv, ServingInv, HandleInv,
               LimitsInv, ResultInv
    <2> QED BY <2>1, <2>2, <2>3
  <1>6. ASSUME HandlerWrites PROVE StructureInv'
    <2>1. ServerTypeOK'
      <3>1. hndJob \in Jobs
        BY <1>6 DEF HandlerWrites, ServerTypeOK
      <3>2. KernelStatus(ending[hndJob]) \in Int
        BY <3>1, KernelType DEF ChildTypeOK
      <3> QED BY <1>6, <3>2 DEF HandlerWrites, ServerTypeOK, HandlerStates
    <2>2. ChildInv'
      BY <1>6, NameAssumption DEF HandlerWrites, ChildInv
    <2>3. /\ HostTypeOK' /\ SocketTypeOK' /\ ChildTypeOK' /\ LockInv' /\ RequestInv'
          /\ ResponseInv' /\ ServingInv' /\ HandleInv' /\ LimitsInv' /\ ResultInv'
      BY <1>6 DEF HandlerWrites, HostTypeOK, SocketTypeOK, ChildTypeOK,
               LockInv, RequestInv, ResponseInv, ServingInv, HandleInv,
               LimitsInv, ResultInv
    <2> QED BY <2>1, <2>2, <2>3
  <1> QED BY <1>1, <1>2, <1>3, <1>4, <1>5, <1>6 DEF HandlerStep

(* Every step of a child. *)
LEMMA ChildStepPreserves ==
    ASSUME StructureInv, NEW j \in Jobs, ChildStep(j)
    PROVE  StructureInv'
  <1> USE DEF StructureInv, TypeOK, ChannelInv, hostVars, socketVars,
              serverVars, handlerVars, childVars
  <1>1. ASSUME PassBarrier(j) PROVE StructureInv'
    <2>1. ChildTypeOK'
      BY <1>1, KilledType DEF PassBarrier, ChildGoto, othersOfChild,
               ChildTypeOK, ChildStates
    <2>2. RequestInv'
      BY <1>1 DEF PassBarrier, ChildGoto, othersOfChild, RequestInv,
               ChildTypeOK
    <2>3. ServingInv'
      BY <1>1 DEF PassBarrier, ChildGoto, othersOfChild, ServingInv,
               ChildTypeOK
    <2>4. ChildInv'
      BY <1>1 DEF PassBarrier, ChildGoto, othersOfChild, ChildInv,
               PastBarrier, Alive, ChildTypeOK
    <2>5. HandleInv'
      BY <1>1 DEF PassBarrier, ChildGoto, othersOfChild, HandleInv, ChildTypeOK
    <2>6. LimitsInv'
      BY <1>1 DEF PassBarrier, ChildGoto, othersOfChild, LimitsInv, Alive,
               PastBarrier, ChildTypeOK
    <2>7. ResultInv'
      BY <1>1 DEF PassBarrier, ChildGoto, othersOfChild, ResultInv, Dead,
               Alive, ChildTypeOK
    <2>8. /\ HostTypeOK' /\ SocketTypeOK' /\ ServerTypeOK'
          /\ LockInv' /\ ResponseInv'
      BY <1>1 DEF PassBarrier, ChildGoto, othersOfChild, HostTypeOK,
               SocketTypeOK, ServerTypeOK, LockInv, ResponseInv
    <2> QED BY <2>1, <2>2, <2>3, <2>4, <2>5, <2>6, <2>7, <2>8
  <1>2. ASSUME SetDeathSignal(j) PROVE StructureInv'
    <2>1. ChildTypeOK'
      BY <1>2, KilledType DEF SetDeathSignal, ChildGoto, othersOfChild,
               ChildTypeOK, ChildStates
    <2>2. RequestInv'
      BY <1>2 DEF SetDeathSignal, ChildGoto, othersOfChild, RequestInv,
               ChildTypeOK
    <2>3. ServingInv'
      BY <1>2 DEF SetDeathSignal, ChildGoto, othersOfChild, ServingInv,
               ChildTypeOK
    <2>4. ChildInv'
      BY <1>2 DEF SetDeathSignal, ChildGoto, othersOfChild, ChildInv,
               PastBarrier, Alive, ChildTypeOK
    <2>5. HandleInv'
      BY <1>2 DEF SetDeathSignal, ChildGoto, othersOfChild, HandleInv,
               ChildTypeOK
    <2>6. LimitsInv'
      BY <1>2 DEF SetDeathSignal, ChildGoto, othersOfChild, LimitsInv, Alive,
               PastBarrier, ChildTypeOK
    <2>7. ResultInv'
      BY <1>2 DEF SetDeathSignal, ChildGoto, othersOfChild, ResultInv, Dead,
               Alive, ChildTypeOK
    <2>8. /\ HostTypeOK' /\ SocketTypeOK' /\ ServerTypeOK'
          /\ LockInv' /\ ResponseInv'
      BY <1>2 DEF SetDeathSignal, ChildGoto, othersOfChild, HostTypeOK,
               SocketTypeOK, ServerTypeOK, LockInv, ResponseInv
    <2> QED BY <2>1, <2>2, <2>3, <2>4, <2>5, <2>6, <2>7, <2>8
  <1>3. ASSUME SetupFails(j) PROVE StructureInv'
    <2>1. ChildTypeOK'
      <3>1. [kind |-> "exit", value |-> 1] \in Endings BY DEF Endings
      <3>2. "exiting" \in ChildStates BY DEF ChildStates
      <3> QED BY <1>3, <3>1, <3>2
              DEF SetupFails, Ends, ChildGoto, ChildTypeOK
    <2>2. RequestInv'
      BY <1>3 DEF SetupFails, Ends, othersOfChild, ChildGoto, RequestInv,
               ChildTypeOK
    <2>3. ServingInv'
      BY <1>3 DEF SetupFails, Ends, othersOfChild, ChildGoto, ServingInv,
               ChildTypeOK
    <2>4. ChildInv'
      BY <1>3 DEF SetupFails, Ends, othersOfChild, ChildGoto, ChildInv,
               PastBarrier, Alive, ChildTypeOK
    <2>5. HandleInv'
      BY <1>3 DEF SetupFails, Ends, othersOfChild, ChildGoto, HandleInv,
               ChildTypeOK
    <2>6. LimitsInv'
      BY <1>3 DEF SetupFails, Ends, othersOfChild, ChildGoto, LimitsInv,
               Alive, PastBarrier, ChildTypeOK
    <2>7. ResultInv'
      BY <1>3 DEF SetupFails, Ends, othersOfChild, ChildGoto, ResultInv, Dead,
               Alive, ChildTypeOK
    <2>8. /\ HostTypeOK' /\ SocketTypeOK' /\ ServerTypeOK'
          /\ LockInv' /\ ResponseInv'
      BY <1>3 DEF SetupFails, Ends, othersOfChild, ChildGoto, HostTypeOK,
               SocketTypeOK, ServerTypeOK, LockInv, ResponseInv
    <2> QED BY <2>1, <2>2, <2>3, <2>4, <2>5, <2>6, <2>7, <2>8
  <1>4. ASSUME ExecTarget(j) PROVE StructureInv'
    <2>1. ChildTypeOK'
      BY <1>4, KilledType DEF ExecTarget, ChildGoto, othersOfChild,
               ChildTypeOK, ChildStates
    <2>2. RequestInv'
      BY <1>4 DEF ExecTarget, ChildGoto, othersOfChild, RequestInv, ChildTypeOK
    <2>3. ServingInv'
      BY <1>4 DEF ExecTarget, ChildGoto, othersOfChild, ServingInv, ChildTypeOK
    <2>4. ChildInv'
      BY <1>4 DEF ExecTarget, ChildGoto, othersOfChild, ChildInv, PastBarrier,
               Alive, ChildTypeOK
    <2>5. HandleInv'
      BY <1>4 DEF ExecTarget, ChildGoto, othersOfChild, HandleInv, ChildTypeOK
    <2>6. LimitsInv'
      BY <1>4 DEF ExecTarget, ChildGoto, othersOfChild, LimitsInv, Alive,
               PastBarrier, ChildTypeOK
    <2>7. ResultInv'
      BY <1>4 DEF ExecTarget, ChildGoto, othersOfChild, ResultInv, Dead,
               Alive, ChildTypeOK
    <2>8. /\ HostTypeOK' /\ SocketTypeOK' /\ ServerTypeOK'
          /\ LockInv' /\ ResponseInv'
      BY <1>4 DEF ExecTarget, ChildGoto, othersOfChild, HostTypeOK,
               SocketTypeOK, ServerTypeOK, LockInv, ResponseInv
    <2> QED BY <2>1, <2>2, <2>3, <2>4, <2>5, <2>6, <2>7, <2>8
  <1>5. ASSUME CloseOutput(j) PROVE StructureInv'
    <2>1. ChildTypeOK'
      BY <1>5, KilledType DEF CloseOutput, othersOfChild, ChildTypeOK,
               ChildStates
    <2>2. /\ HostTypeOK' /\ SocketTypeOK' /\ ServerTypeOK' /\ LockInv' /\ RequestInv' /\ ResponseInv'
          /\ ServingInv' /\ ChildInv' /\ HandleInv' /\ LimitsInv' /\ ResultInv'
      BY ZenonT(40), <1>5 DEF CloseOutput, othersOfChild, HostTypeOK, SocketTypeOK,
               ServerTypeOK, LockInv, RequestInv, ResponseInv, ServingInv,
               ChildInv, HandleInv, LimitsInv, ResultInv
    <2> QED BY <2>1, <2>2
  <1>6. ASSUME Exit(j) PROVE StructureInv'
    <2>1. ChildTypeOK'
      BY <1>6, KilledType, ExitsAssumption DEF Exit, Ends, othersOfChild,
               ChildGoto, ChildTypeOK, ChildStates
    <2>2. RequestInv'
      BY <1>6 DEF Exit, Ends, othersOfChild, ChildGoto, RequestInv, ChildTypeOK
    <2>3. ServingInv'
      BY <1>6 DEF Exit, Ends, othersOfChild, ChildGoto, ServingInv, ChildTypeOK
    <2>4. ChildInv'
      BY <1>6 DEF Exit, Ends, othersOfChild, ChildGoto, ChildInv, PastBarrier,
               Alive, ChildTypeOK
    <2>5. HandleInv'
      BY <1>6 DEF Exit, Ends, othersOfChild, ChildGoto, HandleInv, ChildTypeOK
    <2>6. LimitsInv'
      BY <1>6 DEF Exit, Ends, othersOfChild, ChildGoto, LimitsInv, Alive,
               PastBarrier, ChildTypeOK
    <2>7. ResultInv'
      BY <1>6 DEF Exit, Ends, othersOfChild, ChildGoto, ResultInv, Dead,
               Alive, ChildTypeOK
    <2>8. /\ HostTypeOK' /\ SocketTypeOK' /\ ServerTypeOK'
          /\ LockInv' /\ ResponseInv'
      BY <1>6 DEF Exit, Ends, othersOfChild, ChildGoto, HostTypeOK,
               SocketTypeOK, ServerTypeOK, LockInv, ResponseInv
    <2> QED BY <2>1, <2>2, <2>3, <2>4, <2>5, <2>6, <2>7, <2>8
  <1>7. ASSUME OomKill(j) PROVE StructureInv'
    <2>1. ChildTypeOK'
      <3>1. oomKilled' \subseteq Jobs
        BY <1>7 DEF OomKill, ChildTypeOK
      <3>2. /\ child' \in [Jobs -> ChildStates] /\ ending' \in [Jobs -> Endings]
            /\ stdio' \subseteq Jobs
        BY <1>7, KilledType DEF OomKill, Ends, ChildGoto, ChildTypeOK, ChildStates
      <3> QED BY <1>7, <3>1, <3>2 DEF OomKill, ChildTypeOK
    <2>2. RequestInv'
      BY <1>7 DEF OomKill, Ends, ChildGoto, othersOfChild, RequestInv,
               PastBarrier, ChildTypeOK
    <2>3. ServingInv'
      BY <1>7 DEF OomKill, Ends, ChildGoto, othersOfChild, ServingInv,
               ServerTypeOK, ChildTypeOK
    <2>4. ChildInv'
      BY <1>7 DEF OomKill, Ends, ChildGoto, othersOfChild, ChildInv,
               PastBarrier, ServerTypeOK, ChildTypeOK
    <2>5. HandleInv'
      BY <1>7 DEF OomKill, Ends, othersOfChild, ChildGoto, HandleInv,
               ChildTypeOK
    <2>6. LimitsInv'
      BY <1>7 DEF OomKill, Ends, othersOfChild, ChildGoto, LimitsInv, Alive,
               PastBarrier, ChildTypeOK
    <2>7. ResultInv'
      <3>1. \A i \in Jobs : child[i] \in Dead => child'[i] = child[i]
        BY <1>7 DEF OomKill, Ends, ChildGoto, ChildTypeOK, Dead, PastBarrier
      <3> QED BY <1>7, <3>1 DEF OomKill, othersOfChild, ResultInv, Dead
    <2>8. /\ HostTypeOK' /\ SocketTypeOK' /\ ServerTypeOK'
          /\ LockInv' /\ ResponseInv'
      BY <1>7 DEF OomKill, Ends, othersOfChild, ChildGoto, HostTypeOK,
               SocketTypeOK, ServerTypeOK, LockInv, ResponseInv
    <2> QED BY <2>1, <2>2, <2>3, <2>4, <2>5, <2>6, <2>7, <2>8
  <1>8. ASSUME BecomeZombie(j) PROVE StructureInv'
    <2>1. ServerTypeOK'
      BY <1>8 DEF BecomeZombie, ChildGoto, othersOfChild, ServerTypeOK,
               ServerStates, HandlerStates
    <2>2. ChildTypeOK'
      BY <1>8, KilledType DEF BecomeZombie, ChildGoto, othersOfChild,
               ChildTypeOK, ChildStates
    <2>3. RequestInv'
      BY <1>8 DEF BecomeZombie, ChildGoto, othersOfChild, RequestInv,
               ChildTypeOK
    <2>4. ServingInv'
      BY <1>8 DEF BecomeZombie, ChildGoto, othersOfChild, ServingInv,
               ServerTypeOK, ChildTypeOK
    <2>5. ChildInv'
      BY <1>8 DEF BecomeZombie, ChildGoto, othersOfChild, ChildInv,
               PastBarrier, ServerTypeOK, ChildTypeOK
    <2>6. HandleInv'
      BY <1>8 DEF BecomeZombie, ChildGoto, othersOfChild, HandleInv,
               ChildTypeOK
    <2>7. LimitsInv'
      BY <1>8 DEF BecomeZombie, ChildGoto, othersOfChild, LimitsInv, Alive,
               PastBarrier, ChildTypeOK
    <2>8. ResultInv'
      BY <1>8 DEF BecomeZombie, ChildGoto, othersOfChild, ResultInv, Dead,
               Alive, ChildTypeOK
    <2>9. HostTypeOK' /\ SocketTypeOK' /\ LockInv' /\ ResponseInv'
      BY <1>8 DEF BecomeZombie, ChildGoto, othersOfChild, HostTypeOK,
               SocketTypeOK, LockInv, ResponseInv
    <2> QED BY <2>1, <2>2, <2>3, <2>4, <2>5, <2>6, <2>7, <2>8, <2>9
  <1> QED BY <1>1, <1>2, <1>3, <1>4, <1>5, <1>6, <1>7, <1>8 DEF ChildStep

(* The death of the server. *)
LEMMA CrashPreserves ==
    ASSUME StructureInv, Crash
    PROVE  StructureInv'
  <1> USE DEF StructureInv, TypeOK, ChannelInv, hostVars, socketVars,
              serverVars, handlerVars, childVars
  <1>1. ASSUME Crash PROVE StructureInv'
    <2>1. ServerTypeOK'
      BY <1>1, NameAssumption DEF Crash, ServerTypeOK, ServerStates,
               HandlerStates
    <2>2. ChildTypeOK'
      BY <1>1, KilledType, NameAssumption DEF Crash, ChildTypeOK, ChildStates
    <2>3. RequestInv'
      <3>1. \A i \in Jobs : child[i] = "none" => child'[i] = "none"
        BY <1>1 DEF Crash, Alive
      <3> QED BY <1>1, <3>1 DEF Crash, RequestInv, ServerTypeOK
    <2>4. ResponseInv'
      BY <1>1, NameAssumption DEF Crash, ResponseInv
    <2>5. ServingInv'
      BY <1>1, NameAssumption DEF Crash, ServingInv, ChildTypeOK
    <2>6. ChildInv'
      BY <1>1, NameAssumption DEF Crash, ChildInv, PastBarrier, Alive,
               ChildTypeOK
    <2>7. HandleInv'
      BY <1>1, NameAssumption DEF Crash, HandleInv, ChildTypeOK
    <2>8. LimitsInv'
      BY <1>1, NameAssumption DEF Crash, LimitsInv, Alive, PastBarrier,
               ChildTypeOK
    <2>9. ResultInv'
      BY <1>1, NameAssumption DEF Crash, ResultInv, Dead, Alive, ChildTypeOK
    <2>10. HostTypeOK' /\ SocketTypeOK' /\ LockInv'
      BY <1>1 DEF Crash, HostTypeOK, SocketTypeOK, LockInv
    <2> QED BY <2>1, <2>2, <2>3, <2>4, <2>5, <2>6, <2>7, <2>8, <2>9, <2>10
  <1> QED BY <1>1 DEF Crash

-----------------------------------------------------------------------------
(* Before the first call, every part of the invariant holds. *)
LEMMA StructureInit == Init => StructureInv
  <1> SUFFICES ASSUME Init PROVE StructureInv
    OBVIOUS
  <1>1. HostTypeOK
    BY TagTypes DEF Init, HostTypeOK, RunStates, NoStatus
  <1>2. SocketTypeOK
    BY DEF Init, SocketTypeOK
  <1>3. ServerTypeOK
    <2>1. NoFile \in Int BY DEF NoFile
    <2> QED BY <2>1 DEF Init, ServerTypeOK, ServerStates, HandlerStates
  <1>4. ChildTypeOK
    BY KilledType DEF Init, ChildTypeOK, ChildStates
  <1>5. ChannelInv
    BY NameAssumption
       DEF Init, ChannelInv, LockInv, RequestInv, ResponseInv, ServingInv
  <1>6. ChildInv /\ HandleInv
    BY DEF Init, ChildInv, HandleInv, PastBarrier
  <1>7. LimitsInv /\ ResultInv
    BY DEF Init, LimitsInv, ResultInv, Pending, Reason
  <1> QED BY <1>1, <1>2, <1>3, <1>4, <1>5, <1>6, <1>7 DEF StructureInv, TypeOK

(* The invariant depends on the variables only. *)
LEMMA StructureStutter ==
    ASSUME StructureInv, UNCHANGED vars
    PROVE  StructureInv'
  BY ZenonT(40) DEF vars, hostVars, socketVars, serverVars, handlerVars, childVars,
         StructureInv, TypeOK, HostTypeOK, SocketTypeOK, ServerTypeOK,
         ChildTypeOK, ChannelInv, LockInv, RequestInv, ResponseInv, ServingInv,
         ChildInv, HandleInv, LimitsInv, ResultInv

(* StructureInv is inductive. *)
LEMMA StructureStep == StructureInv /\ [Next]_vars => StructureInv'
  BY RunStepPreserves, ServerStepPreserves, HandlerStepPreserves,
     ChildStepPreserves, CrashPreserves, StructureStutter
     DEF Next, Terminated

(* It therefore holds in every reachable state. *)
LEMMA StructureAlways == Spec => []StructureInv
  BY StructureInit, StructureStep, PTL DEF Spec

(***************************************************************************)
(* The state is always well formed, for any number of jobs and process     *)
(* ids and whatever the environment does.                                  *)
(***************************************************************************)
THEOREM TypeCorrect == Spec => []TypeOK
  <1>1. StructureInv => TypeOK BY DEF StructureInv
  <1> QED BY <1>1, StructureAlways, PTL

(***************************************************************************)
(* No code of any child runs outside its limits (handle_one_request        *)
(* signals the eventfd last; Drop cannot remove an occupied cgroup).       *)
(***************************************************************************)
THEOREM LimitsHold == Spec => []LimitsBeforeCode
  <1>1. StructureInv => LimitsBeforeCode
    BY DEF StructureInv, ChildInv, LimitsInv, LimitsBeforeCode, PastBarrier, Alive
  <1> QED BY <1>1, StructureAlways, PTL

(***************************************************************************)
(* No call ever gets the child of another one (request_spawn).             *)
(***************************************************************************)
THEOREM ResponsesMatch == Spec => []ResponseMatches
  <1>1. StructureInv => ResponseMatches
    BY DEF StructureInv, HandleInv, ResponseMatches
  <1> QED BY <1>1, StructureAlways, PTL

-----------------------------------------------------------------------------
(* Nothing happens any more to a child that has been reaped. *)
LEMMA GoneForever ==
    ASSUME StructureInv, [Next]_vars, NEW c \in Jobs, child[c] = "gone"
    PROVE  /\ child'[c] = "gone" /\ pid'[c] = pid[c] /\ ending'[c] = ending[c]
           /\ c \in oomKilled' <=> c \in oomKilled
  <1> USE DEF StructureInv, TypeOK, hostVars, socketVars, serverVars,
              handlerVars, childVars, othersOfHost, othersOfServer, othersOfChild
  <1>1. ASSUME NEW j \in Jobs, RunStep(j), ~KillAll(j) PROVE UNCHANGED childVars
    BY <1>1 DEF RunStep, Start, StartInvalid, PrepareFails, RequestSpawn,
       RequestFails, ReceiveResponse, ReceiveTruncated, ReceiveEof, ConfirmError, ConfirmExec, ConfirmInterrupted,
       WatchFails, OutputEnds, OutputFails, TtlExpires, KillFails,
       PidfdReadable, WaitSkipped, Cancel,
       ReadStatus, Decide, ReapGivesUp, DropGuard, DropGivesUp
  <1>2. ASSUME NEW j \in Jobs, KillAll(j)
        PROVE  /\ child'[c] = "gone" /\ pid' = pid /\ ending'[c] = ending[c]
               /\ oomKilled' = oomKilled
    BY <1>2 DEF KillAll, Alive, ChildTypeOK
  <1>3. ASSUME Clone
        PROVE  child'[c] = "gone" /\ pid'[c] = pid[c] /\ UNCHANGED <<ending, oomKilled>>
    <2>1. lock # c BY <1>3, CloneFacts
    <2>2. UNCHANGED <<ending, oomKilled>> BY <1>3 DEF Clone
    <2> QED BY <1>3, <2>1, <2>2, CloneFacts DEF ChildTypeOK
  <1>4. ASSUME ServerStep, ~Clone PROVE UNCHANGED <<child, pid, ending, oomKilled>>
    BY <1>4 DEF ServerStep, CloneFails, AssignCgroup, AssignFails, WriteMaps,
       MapsFail, SignalChild, Respond
  <1>5. ASSUME HandlerReaps
        PROVE  child'[c] = "gone" /\ UNCHANGED <<pid, ending, oomKilled>>
    BY <1>5 DEF HandlerReaps, ChildTypeOK
  <1>6. ASSUME HandlerStep, ~HandlerReaps PROVE UNCHANGED childVars
    BY <1>6 DEF HandlerStep, DeliverSigchld, HandlerReturns, HandlerOpens,
       HandlerOpenFails, HandlerWrites
  <1>7. ASSUME NEW j \in Jobs, ChildStep(j)
        PROVE  /\ child'[c] = "gone" /\ pid' = pid /\ ending'[c] = ending[c]
               /\ c \in oomKilled' <=> c \in oomKilled
    BY <1>7 DEF ChildStep, PassBarrier, SetDeathSignal, SetupFails, ExecTarget,
       CloseOutput, Exit, OomKill, BecomeZombie, Ends, ChildGoto, PastBarrier,
       ChildTypeOK
  <1>8. ASSUME Crash
        PROVE  child'[c] = "gone" /\ ending'[c] = ending[c] /\ UNCHANGED <<pid, oomKilled>>
    BY <1>8 DEF Crash, Alive
  <1>9. CASE UNCHANGED vars BY <1>9 DEF vars
  <1> QED BY <1>1, <1>2, <1>3, <1>4, <1>5, <1>6, <1>7, <1>8, <1>9
          DEF Next, Terminated

(* Status files appear in the two steps of the handler, and nowhere else. *)
LEMMA FileChanges ==
    ASSUME [Next]_vars
    PROVE  \/ statusFile' = statusFile
           \/ \E j \in Jobs : Decide(j)
           \/ HandlerOpens
           \/ HandlerWrites
  <1> USE DEF hostVars, socketVars, serverVars, handlerVars, childVars,
              othersOfHost, othersOfServer, othersOfChild
  <1>1. ASSUME NEW j \in Jobs, RunStep(j), ~Decide(j) PROVE statusFile' = statusFile
    BY <1>1 DEF RunStep, Start, StartInvalid, PrepareFails, RequestSpawn,
       RequestFails, ReceiveResponse, ReceiveTruncated, ReceiveEof, ConfirmError, ConfirmExec, ConfirmInterrupted,
       WatchFails, OutputEnds, OutputFails, TtlExpires, KillAll, KillFails,
       PidfdReadable, WaitSkipped, Cancel, ReadStatus, ReapGivesUp, DropGuard, DropGivesUp
  <1>2. ASSUME ServerStep PROVE statusFile' = statusFile
    BY <1>2 DEF ServerStep, Clone, CloneFails, AssignCgroup, AssignFails,
       WriteMaps, MapsFail, SignalChild, Respond
  <1>3. ASSUME HandlerStep, ~HandlerOpens, ~HandlerWrites
        PROVE  statusFile' = statusFile
    BY <1>3 DEF HandlerStep, DeliverSigchld, HandlerReaps, HandlerReturns,
       HandlerOpenFails
  <1>4. ASSUME NEW j \in Jobs, ChildStep(j) PROVE statusFile' = statusFile
    BY <1>4 DEF ChildStep, PassBarrier, SetDeathSignal, SetupFails, ExecTarget,
       CloseOutput, Exit, OomKill, BecomeZombie
  <1>5. ASSUME Crash PROVE statusFile' = statusFile BY <1>5 DEF Crash
  <1>6. CASE UNCHANGED vars BY <1>6 DEF vars
  <1> QED BY <1>1, <1>2, <1>3, <1>4, <1>5, <1>6 DEF Next, Terminated

(* A run gets to "unlink" by reading a file, and to a verdict from there. *)
LEMMA VerdictChanges ==
    ASSUME StructureInv, [Next]_vars, NEW c \in Jobs
    PROVE  /\ run'[c] = "unlink" =>
                 (run[c] = "unlink" /\ got'[c] = got[c]) \/ ReadStatus(c)
           /\ result'[c].tag \in Verdicts => result'[c] = result[c] \/ Decide(c)
  <1> USE DEF hostVars, othersOfServer, othersOfChild
  <1>0. HostTypeOK BY DEF StructureInv, TypeOK
  <1> DEFINE P == /\ run'[c] = "unlink" =>
                       (run[c] = "unlink" /\ got'[c] = got[c]) \/ ReadStatus(c)
                  /\ result'[c].tag \in Verdicts => result'[c] = result[c] \/ Decide(c)
  <1> HIDE DEF P
  <1>1. ASSUME NEW j \in Jobs, \/ Start(j) \/ RequestSpawn(j) \/ ConfirmExec(j)
                               \/ ConfirmInterrupted(j) \/ OutputEnds(j) \/ OutputFails(j) \/ TtlExpires(j)
                               \/ KillAll(j) \/ DropGuard(j) \/ DropGivesUp(j)
        PROVE  P
    BY <1>0, <1>1 DEF P, HostTypeOK, Start, RequestSpawn, ConfirmExec, ConfirmInterrupted,
       OutputEnds, OutputFails, TtlExpires, KillAll, DropGuard, DropGivesUp, Goto
  <1>2. ASSUME NEW j \in Jobs, \/ StartInvalid(j) \/ PrepareFails(j)
                               \/ RequestFails(j) \/ ReceiveResponse(j)
                               \/ ReceiveTruncated(j) \/ ReceiveEof(j)
                               \/ ConfirmError(j) \/ WatchFails(j)
                               \/ KillFails(j)
        PROVE  P
    BY <1>0, <1>2 DEF P, HostTypeOK, StartInvalid, PrepareFails, RequestFails, ReceiveResponse,
       ReceiveTruncated, ReceiveEof, ConfirmError, WatchFails, KillFails, Goto, Return, Error, Reason, Verdicts
  <1>3. ASSUME NEW j \in Jobs, \/ PidfdReadable(j) \/ WaitSkipped(j) \/ Cancel(j)
                               \/ ReapGivesUp(j)
        PROVE  P
    BY <1>0, <1>3 DEF P, HostTypeOK, PidfdReadable, WaitSkipped, Cancel, ReapGivesUp, Goto, Return, Error,
       Cancelled, Reason, Verdicts
  <1>4. ASSUME NEW j \in Jobs, ReadStatus(j) PROVE P
    BY <1>0, <1>4 DEF P, HostTypeOK, ReadStatus, Goto, Return, Error, Reason, Verdicts
  <1>5. ASSUME NEW j \in Jobs, Decide(j) PROVE P
    BY <1>0, <1>5 DEF P, HostTypeOK, Decide, Goto, Return
  <1>6. ASSUME UNCHANGED hostVars PROVE P
    BY <1>6 DEF P
  <1>7. ASSUME ServerStep \/ HandlerStep \/ Crash \/ \E j \in Jobs : ChildStep(j)
        PROVE  P
    <2>1. ASSUME ServerStep PROVE UNCHANGED hostVars
      BY <2>1 DEF ServerStep, Clone, CloneFails, AssignCgroup, AssignFails,
         WriteMaps, MapsFail, SignalChild, Respond
    <2>2. ASSUME HandlerStep PROVE UNCHANGED hostVars
      BY <2>2 DEF HandlerStep, DeliverSigchld, HandlerReaps, HandlerReturns,
         HandlerOpens, HandlerOpenFails, HandlerWrites
    <2>3. ASSUME NEW j \in Jobs, ChildStep(j) PROVE UNCHANGED hostVars
      BY <2>3 DEF ChildStep, PassBarrier, SetDeathSignal, SetupFails, ExecTarget,
         CloseOutput, Exit, OomKill, BecomeZombie
    <2>4. ASSUME Crash PROVE UNCHANGED hostVars BY <2>4 DEF Crash
    <2> QED BY <1>6, <1>7, <2>1, <2>2, <2>3, <2>4
  <1>8. ASSUME UNCHANGED vars PROVE P BY <1>6, <1>8 DEF vars
  <1>9. ASSUME NEW j \in Jobs, RunStep(j) PROVE P
    <2>1. CASE Start(j) \/ RequestSpawn(j) \/ ConfirmExec(j)
               \/ ConfirmInterrupted(j) \/ OutputEnds(j) \/ OutputFails(j) \/ TtlExpires(j) \/ KillAll(j)
               \/ DropGuard(j) \/ DropGivesUp(j)
      BY <1>1, <2>1
    <2>2. CASE StartInvalid(j) \/ PrepareFails(j) \/ RequestFails(j)
               \/ ReceiveResponse(j) \/ ReceiveTruncated(j) \/ ReceiveEof(j)
               \/ ConfirmError(j)
               \/ WatchFails(j) \/ KillFails(j)
      BY <1>2, <2>2
    <2>3. CASE PidfdReadable(j) \/ WaitSkipped(j) \/ Cancel(j) \/ ReapGivesUp(j)
      BY <1>3, <2>3
    <2>4. CASE ReadStatus(j) BY <1>4, <2>4
    <2>5. CASE Decide(j) BY <1>5, <2>5
    <2> QED BY <1>9, <2>1, <2>2, <2>3, <2>4, <2>5 DEF RunStep
  <1>10. ASSUME Next PROVE P
    <2>1. CASE \E j \in Jobs : RunStep(j) BY <1>9, <2>1
    <2>2. CASE ServerStep \/ HandlerStep \/ Crash \/ \E j \in Jobs : ChildStep(j)
      BY <1>7, <2>2
    <2>3. CASE Terminated BY <1>8, <2>3 DEF Terminated
    <2> QED BY <1>10, <2>1, <2>2, <2>3 DEF Next
  <1>11. P BY <1>8, <1>10
  <1> QED BY <1>11 DEF P

(* Before the first call there is no file, process id or verdict. *)
LEMMA FileInit == Init => FileInv
  BY DEF Init, FileInv, UniquePids, FilesInv, VerdictInv, Pending, Reason, Verdicts

(* A new child gets a process id no child has had. *)
LEMMA PidsStep ==
    ASSUME NoReuse, StructureInv, UniquePids, [Next]_vars
    PROVE  UniquePids'
  <1> USE DEF StructureInv, TypeOK, hostVars, socketVars, serverVars,
              handlerVars, childVars, othersOfHost, othersOfServer, othersOfChild
  <1>1. CASE Clone
    <2>1. PICK p \in FreePids : pid' = [pid EXCEPT ![lock] = p]
      BY <1>1, CloneFacts
    <2>2. \A i \in Jobs : pid[i] # p BY <2>1 DEF FreePids, NoReuse
    <2> QED BY <1>1, <2>1, <2>2, CloneFacts DEF UniquePids, ChildTypeOK
  <1>2. CASE ~Clone
    <2>1. ASSUME NEW j \in Jobs, RunStep(j) PROVE pid' = pid
      BY <2>1 DEF RunStep, Start, StartInvalid, PrepareFails, RequestSpawn,
         RequestFails, ReceiveResponse, ReceiveTruncated, ReceiveEof, ConfirmError, ConfirmExec, ConfirmInterrupted,
         WatchFails, OutputEnds, OutputFails, TtlExpires, KillAll, KillFails,
         PidfdReadable, WaitSkipped, Cancel, ReadStatus, Decide, ReapGivesUp, DropGuard, DropGivesUp
    <2>2. ASSUME ServerStep PROVE pid' = pid
      BY <1>2, <2>2 DEF ServerStep, CloneFails, AssignCgroup, AssignFails,
         WriteMaps, MapsFail, SignalChild, Respond
    <2>3. ASSUME HandlerStep PROVE pid' = pid
      BY <2>3 DEF HandlerStep, DeliverSigchld, HandlerReaps, HandlerReturns,
         HandlerOpens, HandlerOpenFails, HandlerWrites
    <2>4. ASSUME NEW j \in Jobs, ChildStep(j) PROVE pid' = pid
      BY <2>4 DEF ChildStep, PassBarrier, SetDeathSignal, SetupFails, ExecTarget,
         CloseOutput, Exit, OomKill, BecomeZombie
    <2>5. ASSUME Crash PROVE pid' = pid BY <2>5 DEF Crash
    <2>6. CASE UNCHANGED vars BY <2>6 DEF vars, UniquePids
    <2> QED BY <2>1, <2>2, <2>3, <2>4, <2>5, <2>6 DEF Next, Terminated, UniquePids
  <1> QED BY <1>1, <1>2

(* A file speaks of a reaped child, which does not change any more. *)
LEMMA FilesStep ==
    ASSUME StructureInv, FilesInv, [Next]_vars
    PROVE  FilesInv'
  <1> USE DEF StructureInv, TypeOK, ServerTypeOK
  <1> SUFFICES ASSUME NEW p \in Pids, statusFile'[p] # NoFile
               PROVE  \E c \in Jobs :
                         /\ pid'[c] = p /\ child'[c] = "gone"
                         /\ statusFile'[p] \in {EmptyFile, KernelStatus(ending'[c])}
    BY DEF FilesInv
  <1>1. CASE statusFile'[p] = statusFile[p]
    BY <1>1, GoneForever DEF FilesInv
  <1>2. CASE statusFile'[p] # statusFile[p]
    <2>1. HandlerOpens \/ HandlerWrites
      <3>1. ASSUME NEW j \in Jobs, Decide(j)
            PROVE  statusFile'[p] \in {statusFile[p], NoFile}
        BY <3>1 DEF Decide
      <3> QED BY <1>2, <3>1, FileChanges
    <2>2. hndJob \in Jobs /\ child[hndJob] = "gone"
      BY <2>1, NameAssumption DEF HandlerOpens, HandlerWrites, ChildInv
    <2>3. /\ pid[hndJob] = p
          /\ statusFile'[p] \in {EmptyFile, KernelStatus(ending[hndJob])}
      BY <1>2, <2>1 DEF HandlerOpens, HandlerWrites
    <2> QED BY <2>2, <2>3, GoneForever
  <1> QED BY <1>1, <1>2

(* What is read under the child's process id is the child's own status. *)
LEMMA VerdictStep ==
    ASSUME StructureInv, FileInv, [Next]_vars
    PROVE  VerdictInv'
  <1> SUFFICES ASSUME NEW c \in Jobs
               PROVE  /\ run'[c] = "unlink" =>
                            child'[c] = "gone" /\ got'[c] = KernelStatus(ending'[c])
                      /\ result'[c].tag \in Verdicts =>
                            child'[c] = "gone" /\ result'[c] = Truth(c)'
    BY DEF VerdictInv
  <1>1. ASSUME run'[c] = "unlink"
        PROVE  child'[c] = "gone" /\ got'[c] = KernelStatus(ending'[c])
    <2>1. CASE run[c] = "unlink" /\ got'[c] = got[c]
      BY <2>1, GoneForever DEF FileInv, VerdictInv
    <2>2. CASE ReadStatus(c)
      <3>1. StatusPath(c) = pid[c] /\ pid[c] \in Pids
        BY <2>2, HasPid DEF ReadStatus
      <3>2. /\ statusFile[pid[c]] \notin {NoFile, EmptyFile}
            /\ got'[c] = statusFile[pid[c]]
        BY <1>1, <2>2, <3>1 DEF ReadStatus, Return, Goto, StructureInv, TypeOK, HostTypeOK
      <3>3. child[c] = "gone" /\ got'[c] = KernelStatus(ending[c])
        BY <3>1, <3>2, NameAssumption DEF FileInv, FilesInv, UniquePids
      <3> QED BY <3>3, GoneForever
    <2> QED BY <1>1, <2>1, <2>2, VerdictChanges
  <1>2. ASSUME result'[c].tag \in Verdicts
        PROVE  child'[c] = "gone" /\ result'[c] = Truth(c)'
    <2>1. ASSUME child[c] = "gone" PROVE Truth(c)' = Truth(c) /\ child'[c] = "gone"
      BY <2>1, GoneForever DEF Truth
    <2>2. CASE result'[c] = result[c]
      BY <1>2, <2>1, <2>2 DEF FileInv, VerdictInv
    <2>3. CASE Decide(c)
      <3>1. child[c] = "gone" /\ got[c] = KernelStatus(ending[c])
        BY <2>3 DEF Decide, FileInv, VerdictInv
      <3>2. DecodeStatus(got[c]) = TrueReason(ending[c])
        BY <3>1, DecodeIsTrue DEF StructureInv, TypeOK, ChildTypeOK
      <3>3. result'[c] = Truth(c)
        BY <2>3, <3>2 DEF Decide, Return, Truth, StructureInv, TypeOK, HostTypeOK
      <3> QED BY <2>1, <3>1, <3>3
    <2> QED BY <1>2, <2>2, <2>3, VerdictChanges
  <1> QED BY <1>1, <1>2

(***************************************************************************)
(* A report is only given about a dead process, and a verdict is the truth *)
(* about the call's own child, provided the kernel does not give the same  *)
(* process id to two children of the server (sigchld_handler, reap_child)  *)
(* and every pidfd can be watched (wait_pidfd).                            *)
(***************************************************************************)
THEOREM ReportsAreTrue ==
    ASSUME NoReuse, Watchable
    PROVE  Spec => [](ReportMeansDead /\ ReportIsOwn)
  <1>1. Init => StructureInv /\ FileInv
    BY StructureInit, FileInit
  <1>2. StructureInv /\ FileInv /\ [Next]_vars => (StructureInv /\ FileInv)'
    BY StructureStep, PidsStep, FilesStep, VerdictStep DEF FileInv
  <1>3. StructureInv /\ FileInv => ReportMeansDead /\ ReportIsOwn
    BY DEF StructureInv, ResultInv, FileInv, VerdictInv, ReportMeansDead,
           ReportIsOwn, Reports, Verdicts, Dead, Watchable
  <1> QED BY <1>1, <1>2, <1>3, PTL DEF Spec

(***************************************************************************)
(* Under the same assumptions no report, that of a timeout included, is of *)
(* a process that can still execute (wait_pidfd after cgroup.kill).        *)
(***************************************************************************)
THEOREM ReportsMeanDeath ==
    ASSUME NoReuse, Watchable
    PROVE  Spec => []ReportMeansDead
  BY ReportsAreTrue, PTL

-----------------------------------------------------------------------------
(***************************************************************************)
(* The sandbox implements the contract of Runtime::run, for any number of  *)
(* calls, where process ids are not reused and every pidfd can be watched; *)
(* and what a call that has returned may have left behind of its cgroup.   *)
(***************************************************************************)

(* Before the first call. *)
LEMMA ContractInit == Init => Contract!Init
  <1> SUFFICES ASSUME Init PROVE Contract!Init OBVIOUS
  <1>1. Contract!NoAnswer = Pending
    BY DEF Contract!NoAnswer, Pending, Reason, Contract!Reason
  <1>2. \A c \in Jobs : child[c] = "none" /\ result[c] = Pending /\ run[c] = "idle"
    BY DEF Init
  <1>3. "none" \notin Dead BY DEF Dead
  <1> QED BY <1>1, <1>2, <1>3 DEF Init, Contract!Init, Contract!NoFate


(* A step that leaves calls and children as they look is a stutter. *)
LEMMA ContractStutter ==
    ASSUME TypeOK, result' = result,
           oomKilled' = oomKilled,
           \A c \in Jobs : /\ run'[c] = "idle" <=> run[c] = "idle"
                           /\ child'[c] = "none" <=> child[c] = "none"
                           /\ child'[c] \in Dead <=> child[c] \in Dead
                           /\ child[c] \in Dead => ending'[c] = ending[c]
    PROVE  UNCHANGED Contract!contractVars
  BY DEF Contract!contractVars

(* What the contract sees of a step that answers call j with r. *)
LEMMA ContractAnswer ==
    ASSUME TypeOK, NEW j \in Jobs, NEW r, NEW s, result[j] = Pending, r # Pending,
           r \in Contract!Answers(j), run' = [run EXCEPT ![j] = s],
           result' = [result EXCEPT ![j] = r],
           UNCHANGED <<child, ending, oomKilled>>
    PROVE  Contract!Answer(j)
  BY DEF TypeOK, HostTypeOK, Contract!Answer

(* A child is made for a call that is under way and has none. *)
LEMMA ContractSpawn ==
    ASSUME TypeOK, NEW j \in Jobs, result[j] = Pending, run[j] # "idle",
           child[j] = "none", child' = [child EXCEPT ![j] = "barrier"],
           UNCHANGED <<run, result, ending, oomKilled>>
    PROVE  Contract!Spawn(j)
  BY DEF TypeOK, ChildTypeOK, Contract!Spawn, Dead

LEMMA ContractDie ==
    ASSUME TypeOK, NEW j \in Jobs, NEW s \in Dead,
           child[j] \notin Dead \cup {"none"}, child' = [child EXCEPT ![j] = s],
           UNCHANGED <<run, result, ending, oomKilled>>
    PROVE  Contract!Die(j)
  <1>1. ending[j] \in Contract!Endings
    BY DEF TypeOK, ChildTypeOK, Endings, Contract!Endings
  <1> DEFINE F(d, e) == [c \in Jobs |-> IF d[c] \in Dead THEN e[c]
                                       ELSE [kind |-> "none", value |-> 0]]
  <1>2. F(child', ending') = [F(child, ending) EXCEPT ![j] = ending[j]]
    BY DEF TypeOK, ChildTypeOK
  <1> QED BY ZenonT(40), <1>1, <1>2 DEF TypeOK, ChildTypeOK, Contract!Die, Dead

LEMMA ContractOom ==
    ASSUME TypeOK, NEW j \in Jobs,
           child[j] \notin Dead \cup {"none"}, oomKilled' = oomKilled \cup {j},
           \A c \in Jobs : /\ child'[c] = "none" <=> child[c] = "none"
                           /\ child'[c] \in Dead <=> child[c] \in Dead
                           /\ child[c] \in Dead => ending'[c] = ending[c],
           UNCHANGED <<run, result>>
    PROVE  Contract!OutOfMemory(j)
  BY DEF TypeOK, ChildTypeOK, Contract!OutOfMemory

LEMMA ContractCall ==
    ASSUME TypeOK, NEW j \in Jobs, result[j] = Pending, run[j] = "idle",
           run' = [run EXCEPT ![j] = "lock"],
           UNCHANGED <<result, child, ending, oomKilled>>
    PROVE  Contract!Call(j)
  BY DEF TypeOK, HostTypeOK, Contract!Call
-----------------------------------------------------------------------------
(* What a call may answer: an error, or the truth about a dead process. *)
LEMMA ErrorAnswers ==
    ASSUME NEW j \in Jobs, NEW t \in Errors \cup {"Cancelled"}
    PROVE  Reason(t, 0) \in Contract!Answers(j) /\ Reason(t, 0) # Pending
  BY DEF Contract!Answers, Reason, Errors, Pending

LEMMA TimeoutAnswers ==
    ASSUME NEW j \in Jobs, child[j] \in Dead
    PROVE  /\ Reason("TimedOut", -1) \in Contract!Answers(j)
           /\ Reason("TimedOut", -1) # Pending
  BY DEF Contract!Answers, Contract!Reason, Reason, Dead, Pending

LEMMA TruthAnswers ==
    ASSUME TypeOK, NEW j \in Jobs, child[j] \in Dead
    PROVE  Truth(j) \in Contract!Answers(j) /\ Truth(j) # Pending
  <1>1. ending[j] \in Endings BY DEF TypeOK, ChildTypeOK
  <1>2. Contract!TrueReason(ending[j]) = TrueReason(ending[j])
    BY DEF Contract!TrueReason, TrueReason, Contract!Reason, Reason,
           Contract!SIGSYS, SIGSYS
  <1>3. Truth(j) # Pending
    BY <1>1 DEF Truth, Pending, TrueReason, Reason, Endings
  <1> QED BY <1>2, <1>3 DEF Contract!Answers, Truth, Dead, Contract!Reason, Reason

(* A call that has not returned has no answer at all. *)
AnswerInv == \A j \in Jobs : result[j].tag = "Pending" => result[j] = Pending

LEMMA AnswerStep ==
    ASSUME StructureInv, StructureInv', AnswerInv, [Next]_vars
    PROVE  AnswerInv'
  <1> USE DEF hostVars, othersOfServer, othersOfChild
  <1>1. ASSUME NEW j \in Jobs, RunStep(j)
        PROVE  \/ result' = result
               \/ /\ \E r : result' = [result EXCEPT ![j] = r]
                  /\ run'[j] \in {"dropping", "done"}
    BY <1>1 DEF StructureInv, TypeOK, HostTypeOK, Return, Goto, RunStep, Start,
       StartInvalid, PrepareFails, RequestSpawn, RequestFails, ReceiveResponse,
       ReceiveTruncated, ReceiveEof, ConfirmError, ConfirmExec,
       ConfirmInterrupted, WatchFails, OutputEnds, OutputFails, TtlExpires,
       KillAll, KillFails, PidfdReadable, WaitSkipped, Cancel, ReadStatus, Decide,
       ReapGivesUp, DropGuard, DropGivesUp
  <1>2. ASSUME ServerStep PROVE result' = result
    BY <1>2 DEF ServerStep, Clone, CloneFails, AssignCgroup, AssignFails,
       WriteMaps, MapsFail, SignalChild, Respond
  <1>3. ASSUME HandlerStep PROVE result' = result
    BY <1>3 DEF HandlerStep, DeliverSigchld, HandlerReaps, HandlerReturns,
       HandlerOpens, HandlerOpenFails, HandlerWrites
  <1>4. ASSUME NEW j \in Jobs, ChildStep(j) PROVE result' = result
    BY <1>4 DEF ChildStep, PassBarrier, SetDeathSignal, SetupFails, ExecTarget,
       CloseOutput, Exit, OomKill, BecomeZombie
  <1>5. ASSUME Crash PROVE result' = result BY <1>5 DEF Crash
  <1>6. CASE UNCHANGED vars BY <1>6 DEF vars, AnswerInv
  <1>7. ASSUME NEW j \in Jobs, RunStep(j) PROVE AnswerInv'
    BY <1>1, <1>7 DEF AnswerInv, StructureInv, ResultInv, TypeOK, HostTypeOK
  <1> QED BY <1>2, <1>3, <1>4, <1>5, <1>6, <1>7 DEF Next, Terminated, AnswerInv

(* Until it returns, a call has no answer. *)
LEMMA StillPending ==
    ASSUME StructureInv, AnswerInv, NEW j \in Jobs,
           run[j] \notin {"dropping", "done"}
    PROVE  result[j] = Pending
  BY DEF StructureInv, ResultInv, AnswerInv

(* A step that returns an error is an answer of the contract. *)
LEMMA ContractError ==
    ASSUME StructureInv, AnswerInv, NEW j \in Jobs, NEW s,
           NEW t \in Errors \cup {"Cancelled"},
           run[j] \notin {"dropping", "done"},
           run' = [run EXCEPT ![j] = s],
           result' = [result EXCEPT ![j] = Reason(t, 0)],
           UNCHANGED <<child, ending, oomKilled>>
    PROVE  Contract!Next
  <1>1. result[j] = Pending BY StillPending
  <1>2. Reason(t, 0) \in Contract!Answers(j) /\ Reason(t, 0) # Pending
    BY ErrorAnswers
  <1>3. TypeOK BY DEF StructureInv
  <1>4. Contract!Answer(j) BY <1>1, <1>2, <1>3, ContractAnswer
  <1> QED BY <1>4 DEF Contract!Next

(* A step of a call that does not return is not seen. *)
LEMMA ContractMove ==
    ASSUME StructureInv, NEW j \in Jobs, NEW s \in RunStates \ {"idle"},
           run[j] # "idle", run' = [run EXCEPT ![j] = s], result' = result,
           UNCHANGED <<child, ending, oomKilled>>
    PROVE  UNCHANGED Contract!contractVars
  <1>1. TypeOK BY DEF StructureInv
  <1>2. \A c \in Jobs : run'[c] = "idle" <=> run[c] = "idle"
    BY <1>1 DEF TypeOK, HostTypeOK
  <1> QED BY <1>1, <1>2, ContractStutter

(* What a step of a call is to the contract. *)
LEMMA RunStepImplements ==
    ASSUME Watchable, StructureInv, FileInv, AnswerInv, NEW j \in Jobs, RunStep(j)
    PROVE  Contract!Next \/ UNCHANGED Contract!contractVars
  <1>0. TypeOK BY DEF StructureInv
  <1> USE DEF Goto, Return, Error, childVars, othersOfHost
  <1>1. CASE Start(j)
    <2>1. result[j] = Pending BY <1>1, StillPending DEF Start
    <2>2. Contract!Call(j) BY <1>0, <1>1, <2>1, ContractCall DEF Start
    <2> QED BY <2>2 DEF Contract!Next
  <1>2. CASE StartInvalid(j)
    BY <1>2, ContractError DEF StartInvalid, Errors
  <1>3. CASE PrepareFails(j)
    BY <1>3, ContractError DEF PrepareFails, Errors
  <1>4. CASE RequestFails(j) \/ ReceiveTruncated(j) \/ ReceiveEof(j)
    BY <1>4, ContractError DEF RequestFails, ReceiveTruncated, ReceiveEof, Errors
  <1>5. CASE ConfirmError(j) \/ WatchFails(j) \/ KillFails(j) \/ ReapGivesUp(j)
    BY <1>5, ContractError
       DEF ConfirmError, WatchFails, KillFails, ReapGivesUp, Errors
  <1>6. CASE Cancel(j)
    BY <1>6, ContractError DEF Cancel, Cancelled
  <1>7. CASE ReceiveResponse(j)
    <2>1. CASE Head(resps).ok
      BY <1>7, <2>1, ContractMove DEF ReceiveResponse, RunStates
    <2>2. CASE ~Head(resps).ok
      BY <1>7, <2>2, ContractError DEF ReceiveResponse, Errors
    <2> QED BY <2>1, <2>2
  <1>8. CASE PidfdReadable(j)
    <2>1. handle[j] = j BY <1>8 DEF PidfdReadable, StructureInv, HandleInv
    <2>2. result[j] = Pending BY <1>8, StillPending DEF PidfdReadable
    <2>3. /\ Reason("TimedOut", -1) \in Contract!Answers(j)
          /\ Reason("TimedOut", -1) # Pending
      BY <1>8, <2>1, TimeoutAnswers DEF PidfdReadable
    <2>4. Contract!Answer(j)
      BY <1>0, <1>8, <2>2, <2>3, ContractAnswer DEF PidfdReadable
    <2> QED BY <2>4 DEF Contract!Next
  <1>9. CASE WaitSkipped(j)
    BY <1>9 DEF WaitSkipped, Watchable
  <1>10. CASE ReadStatus(j)
    <2>1. CASE statusFile[StatusPath(j)] = EmptyFile
      BY <1>10, <2>1, ContractError DEF ReadStatus, Errors
    <2>2. CASE statusFile[StatusPath(j)] # EmptyFile
      BY <1>10, <2>2, ContractMove DEF ReadStatus, RunStates
    <2> QED BY <2>1, <2>2
  <1>11. CASE Decide(j)
    <2>1. child[j] = "gone" /\ got[j] = KernelStatus(ending[j])
      BY <1>11 DEF Decide, FileInv, VerdictInv
    <2>2. DecodeStatus(got[j]) = TrueReason(ending[j])
      BY <1>0, <2>1, DecodeIsTrue DEF TypeOK, ChildTypeOK
    <2>3. result' = [result EXCEPT ![j] = Truth(j)]
      BY <1>11, <2>2 DEF Decide, Truth
    <2>4. Truth(j) \in Contract!Answers(j) /\ Truth(j) # Pending
      BY <1>0, <2>1, TruthAnswers DEF Dead
    <2>5. result[j] = Pending BY <1>11, StillPending DEF Decide
    <2>6. Contract!Answer(j)
      BY <1>0, <1>11, <2>3, <2>4, <2>5, ContractAnswer DEF Decide
    <2> QED BY <2>6 DEF Contract!Next
  <1>12. CASE RequestSpawn(j) \/ ConfirmExec(j) \/ ConfirmInterrupted(j)
              \/ OutputEnds(j) \/ OutputFails(j) \/ TtlExpires(j)
              \/ DropGuard(j) \/ DropGivesUp(j)
    BY <1>12, ContractMove
       DEF RequestSpawn, ConfirmExec, ConfirmInterrupted, OutputEnds, OutputFails,
           TtlExpires, DropGuard, DropGivesUp, RunStates
  <1>13. CASE KillAll(j)
    BY <1>0, <1>13, ContractStutter
       DEF KillAll, TypeOK, HostTypeOK, ChildTypeOK, Alive, Dead
  <1> QED BY <1>1, <1>2, <1>3, <1>4, <1>5, <1>6, <1>7, <1>8, <1>9, <1>10, <1>11,
             <1>12, <1>13 DEF RunStep

(* To the contract, the server does nothing but make the children. *)
LEMMA ServerStepImplements ==
    ASSUME StructureInv, AnswerInv, ServerStep
    PROVE  Contract!Next \/ UNCHANGED Contract!contractVars
  <1>0. TypeOK BY DEF StructureInv
  <1> USE DEF hostVars, childVars, othersOfServer
  <1>1. CASE Clone
    <2>1. PICK j \in Jobs : /\ run[j] = "await" /\ child[j] = "none"
                            /\ child' = [child EXCEPT ![j] = "barrier"]
      BY <1>1, CloneFacts
    <2>2. result[j] = Pending BY <2>1, StillPending
    <2>3. UNCHANGED <<run, result, ending, oomKilled>> BY <1>1 DEF Clone
    <2>4. Contract!Spawn(j) BY <1>0, <2>1, <2>2, <2>3, ContractSpawn
    <2> QED BY <2>4 DEF Contract!Next
  <1>2. CASE ~Clone
    <2>1. UNCHANGED <<run, result, child, ending, oomKilled>>
      BY <1>2 DEF ServerStep, CloneFails, AssignCgroup, AssignFails, WriteMaps,
         MapsFail, SignalChild, Respond
    <2> QED BY <1>0, <2>1, ContractStutter
  <1> QED BY <1>1, <1>2

(* The handler is not seen: to the contract, dead and reaped are one. *)
LEMMA HandlerStepImplements ==
    ASSUME StructureInv, HandlerStep
    PROVE  UNCHANGED Contract!contractVars
  <1>0. TypeOK BY DEF StructureInv
  <1> USE DEF hostVars, childVars
  <1>1. CASE HandlerReaps
    BY <1>0, <1>1, ContractStutter DEF HandlerReaps, TypeOK, ChildTypeOK, Dead
  <1>2. CASE ~HandlerReaps
    <2>1. UNCHANGED <<run, result, child, ending, oomKilled>>
      BY <1>2 DEF HandlerStep, DeliverSigchld, HandlerReturns, HandlerOpens,
         HandlerOpenFails, HandlerWrites
    <2> QED BY <1>0, <2>1, ContractStutter
  <1> QED BY <1>1, <1>2

(* The death of the server reaps what is dead, and kills what is not yet. *)
LEMMA CrashImplements ==
    ASSUME StructureInv, Crash
    PROVE  UNCHANGED Contract!contractVars
  <1>0. TypeOK BY DEF StructureInv
  <1> QED BY <1>0, ContractStutter DEF Crash, hostVars, TypeOK, ChildTypeOK, Alive, Dead

(* A child dies when its exit completes, of the ending it began with. *)
LEMMA ChildStepImplements ==
    ASSUME StructureInv, NEW j \in Jobs, ChildStep(j)
    PROVE  Contract!Next \/ UNCHANGED Contract!contractVars
  <1>0. TypeOK BY DEF StructureInv
  <1> USE DEF hostVars, childVars, othersOfChild, ChildGoto, Ends
  <1>1. CASE PassBarrier(j) \/ SetDeathSignal(j) \/ SetupFails(j) \/ ExecTarget(j)
             \/ CloseOutput(j) \/ Exit(j)
    BY <1>0, <1>1, ContractStutter
       DEF PassBarrier, SetDeathSignal, SetupFails, ExecTarget, CloseOutput, Exit,
           TypeOK, ChildTypeOK, Dead
  <1>2. CASE OomKill(j)
    <2>1. Contract!OutOfMemory(j)
      BY <1>0, <1>2, ContractOom
         DEF OomKill, TypeOK, ChildTypeOK, PastBarrier, Dead
    <2> QED BY <2>1 DEF Contract!Next
  <1>3. CASE BecomeZombie(j)
    <2>1. Contract!Die(j)
      BY <1>0, <1>3, ContractDie DEF BecomeZombie, Dead
    <2> QED BY <2>1 DEF Contract!Next
  <1> QED BY <1>1, <1>2, <1>3 DEF ChildStep

LEMMA ContractStep ==
    ASSUME Watchable, StructureInv, FileInv, AnswerInv, [Next]_vars
    PROVE  [Contract!Next]_(Contract!contractVars)
  <1>0. TypeOK BY DEF StructureInv
  <1>1. ASSUME NEW j \in Jobs, RunStep(j)
        PROVE  [Contract!Next]_(Contract!contractVars)
    BY <1>1, RunStepImplements
  <1>2. ASSUME NEW j \in Jobs, ChildStep(j)
        PROVE  [Contract!Next]_(Contract!contractVars)
    BY <1>2, ChildStepImplements
  <1>3. CASE UNCHANGED vars
    BY <1>0, <1>3, ContractStutter DEF vars, hostVars, childVars
  <1> QED BY <1>1, <1>2, <1>3, ServerStepImplements, HandlerStepImplements,
             CrashImplements DEF Next, Terminated

(***************************************************************************)
(* However many calls run at once and whatever goes wrong, Runtime::run    *)
(* keeps its contract: one answer per call, at most one process, reports   *)
(* only of dead processes, and true ones.  As for ReportsAreTrue, process  *)
(* ids are not reused, and every pidfd can be watched.                     *)
(***************************************************************************)
THEOREM SandboxImplementsContract ==
    ASSUME NoReuse, Watchable
    PROVE  Spec => ImplementsContract
  <1> DEFINE Inv == StructureInv /\ FileInv /\ AnswerInv
  <1>1. Init => Inv /\ Contract!Init
    BY StructureInit, FileInit, ContractInit DEF Init, AnswerInv
  <1>2. Inv /\ [Next]_vars => Inv'
    BY StructureStep, PidsStep, FilesStep, VerdictStep, AnswerStep DEF FileInv
  <1>3. Inv /\ [Next]_vars => [Contract!Next]_(Contract!contractVars)
    BY ContractStep
  <1> QED BY <1>1, <1>2, <1>3, PTL DEF Spec, ImplementsContract, Contract!Spec

-----------------------------------------------------------------------------
(* There is a directory from create_dir on, and after Drop only if in use. *)
DirectoryInv ==
    /\ \A j \in Jobs : run[j] = "idle" => j \notin cgDir
    /\ DirectoryHasProcess

(* Nothing but Drop, and a call that never made it, ends with no directory. *)
LEMMA DirectoryChanges ==
    ASSUME StructureInv, [Next]_vars, NEW c \in Jobs
    PROVE  \/ /\ run'[c] = run[c] /\ result'[c] = result[c]
              /\ c \in cgDir' <=> c \in cgDir
           \/ run'[c] \notin {"idle", "done"}
           \/ StartInvalid(c) \/ DropGuard(c) \/ DropGivesUp(c)
  <1> DEFINE P == \/ /\ run'[c] = run[c] /\ result'[c] = result[c]
                     /\ c \in cgDir' <=> c \in cgDir
                  \/ run'[c] \notin {"idle", "done"}
                  \/ StartInvalid(c) \/ DropGuard(c) \/ DropGivesUp(c)
  <1> USE DEF hostVars, othersOfServer, othersOfChild
  <1>1. ASSUME NEW j \in Jobs, RunStep(j) PROVE P
    BY <1>1 DEF StructureInv, TypeOK, HostTypeOK, Return, Goto, RunStep, Start,
       StartInvalid, PrepareFails, RequestSpawn, RequestFails, ReceiveResponse,
       ReceiveTruncated, ReceiveEof, ConfirmError, ConfirmExec,
       ConfirmInterrupted, WatchFails, OutputEnds, OutputFails, TtlExpires,
       KillAll, KillFails, PidfdReadable, WaitSkipped, Cancel, ReadStatus, Decide,
       ReapGivesUp, DropGuard, DropGivesUp
  <1>2. ASSUME ServerStep PROVE P
    BY <1>2 DEF ServerStep, Clone, CloneFails, AssignCgroup, AssignFails,
       WriteMaps, MapsFail, SignalChild, Respond
  <1>3. ASSUME HandlerStep PROVE P
    BY <1>3 DEF HandlerStep, DeliverSigchld, HandlerReaps, HandlerReturns,
       HandlerOpens, HandlerOpenFails, HandlerWrites
  <1>4. ASSUME NEW j \in Jobs, ChildStep(j) PROVE P
    BY <1>4 DEF ChildStep, PassBarrier, SetDeathSignal, SetupFails, ExecTarget,
       CloseOutput, Exit, OomKill, BecomeZombie
  <1>5. ASSUME Crash PROVE P BY <1>5 DEF Crash
  <1>6. CASE UNCHANGED vars BY <1>6 DEF vars
  <1> QED BY <1>1, <1>2, <1>3, <1>4, <1>5, <1>6 DEF Next, Terminated

(* A process that was put into its cgroup is never taken out of it. *)
LEMMA StaysInCgroup ==
    ASSUME [Next]_vars
    PROVE  inCgroup \subseteq inCgroup'
  <1> USE DEF childVars, othersOfHost
  <1>1. ASSUME NEW j \in Jobs, RunStep(j) PROVE inCgroup' = inCgroup
    BY <1>1 DEF RunStep, Start, StartInvalid, PrepareFails, RequestSpawn,
       RequestFails, ReceiveResponse, ReceiveTruncated, ReceiveEof, ConfirmError,
       ConfirmExec, ConfirmInterrupted, WatchFails, OutputEnds, OutputFails,
       TtlExpires, KillAll, KillFails, PidfdReadable, WaitSkipped, Cancel,
       ReadStatus, Decide, ReapGivesUp, DropGuard, DropGivesUp
  <1>2. ASSUME ServerStep PROVE inCgroup \subseteq inCgroup'
    BY <1>2 DEF ServerStep, Clone, CloneFails, AssignCgroup, AssignFails,
       WriteMaps, MapsFail, SignalChild, Respond
  <1>3. ASSUME HandlerStep PROVE inCgroup' = inCgroup
    BY <1>3 DEF HandlerStep, DeliverSigchld, HandlerReaps, HandlerReturns,
       HandlerOpens, HandlerOpenFails, HandlerWrites
  <1>4. ASSUME NEW j \in Jobs, ChildStep(j) PROVE inCgroup' = inCgroup
    BY <1>4 DEF ChildStep, PassBarrier, SetDeathSignal, SetupFails, ExecTarget,
       CloseOutput, Exit, OomKill, BecomeZombie
  <1>5. ASSUME Crash PROVE inCgroup' = inCgroup BY <1>5 DEF Crash
  <1>6. CASE UNCHANGED vars BY <1>6 DEF vars
  <1> QED BY <1>1, <1>2, <1>3, <1>4, <1>5, <1>6 DEF Next, Terminated

(* A return takes the directory along unless somebody is in the cgroup. *)
LEMMA DirectoryStep ==
    ASSUME StructureInv, DirectoryInv, [Next]_vars
    PROVE  DirectoryInv'
  <1> SUFFICES ASSUME NEW c \in Jobs
               PROVE  /\ run'[c] = "idle" => c \notin cgDir'
                      /\ run'[c] = "done" /\ c \in cgDir' => c \in inCgroup'
    BY DEF DirectoryInv, DirectoryHasProcess
  <1>0. inCgroup \subseteq inCgroup' BY StaysInCgroup
  <1>1. CASE run'[c] = run[c] /\ (c \in cgDir' <=> c \in cgDir)
    BY <1>0, <1>1 DEF DirectoryInv, DirectoryHasProcess
  <1>2. CASE run'[c] \notin {"idle", "done"} BY <1>2
  <1>3. CASE StartInvalid(c)
    BY <1>3 DEF StartInvalid, Goto, DirectoryInv, StructureInv, TypeOK, HostTypeOK
  <1>4. CASE DropGuard(c)
    BY <1>4 DEF DropGuard, Goto, StructureInv, TypeOK, HostTypeOK
  <1>5. CASE DropGivesUp(c)
    BY <1>0, <1>5 DEF DropGivesUp, Goto, Counted, StructureInv, TypeOK, HostTypeOK
  <1> QED BY <1>1, <1>2, <1>3, <1>4, <1>5, DirectoryChanges

(***************************************************************************)
(* Whatever fails, a directory that a returned call has left behind is one *)
(* that a process was put into: every early return drops the guard.        *)
(***************************************************************************)
THEOREM DirectoriesHaveProcess == Spec => []DirectoryHasProcess
  <1> DEFINE Inv == StructureInv /\ DirectoryInv
  <1>1. Init => Inv
    BY StructureInit DEF Init, DirectoryInv, DirectoryHasProcess
  <1>2. Inv /\ [Next]_vars => Inv'
    BY StructureStep, DirectoryStep
  <1>3. Inv => DirectoryHasProcess BY DEF DirectoryInv
  <1> QED BY <1>1, <1>2, <1>3, PTL DEF Spec

(* A report is of a dead process, which does not keep Drop from removing. *)
LEMMA LeavesStep ==
    ASSUME StructureInv, ReportMeansDead, ReportLeavesNothing, [Next]_vars
    PROVE  ReportLeavesNothing'
  <1> SUFFICES ASSUME NEW c \in Jobs, run'[c] = "done", result'[c].tag \in Reports
               PROVE  c \notin cgDir'
    BY DEF ReportLeavesNothing
  <1>0. HostTypeOK BY DEF StructureInv, TypeOK
  <1>1. CASE /\ run'[c] = run[c] /\ result'[c] = result[c]
             /\ c \in cgDir' <=> c \in cgDir
    BY <1>1 DEF ReportLeavesNothing
  <1>2. CASE StartInvalid(c)
    BY <1>0, <1>2 DEF StartInvalid, HostTypeOK, Error, Reason, Reports, Verdicts
  <1>3. CASE DropGuard(c)
    BY <1>3 DEF DropGuard
  <1>4. CASE DropGivesUp(c)
    <2>1. child[c] \in Dead BY <1>4 DEF DropGivesUp, ReportMeansDead
    <2>2. child[c] = "zombie" BY <1>4, <2>1 DEF DropGivesUp, Counted, Dead, Alive
    <2> QED BY <1>4, <2>2 DEF DropGivesUp
  <1> QED BY <1>1, <1>2, <1>3, <1>4, DirectoryChanges

(***************************************************************************)
(* A call that returns a report leaves no directory behind, even if its    *)
(* process is not reaped within the five seconds Drop waits: under the     *)
(* assumptions of ReportsAreTrue, the process is dead by then.             *)
(***************************************************************************)
THEOREM ReportsLeaveNothing ==
    ASSUME NoReuse, Watchable
    PROVE  Spec => []ReportLeavesNothing
  <1>1. Spec => []ReportMeansDead BY ReportsMeanDeath
  <1>2. Init => ReportLeavesNothing
    BY DEF Init, ReportLeavesNothing
  <1>3. StructureInv /\ ReportMeansDead /\ ReportLeavesNothing /\ [Next]_vars
          => ReportLeavesNothing'
    BY LeavesStep
  <1> QED BY <1>1, <1>2, <1>3, StructureAlways, PTL DEF Spec
=============================================================================
