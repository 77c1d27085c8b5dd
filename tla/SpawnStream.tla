------------------------------ MODULE SpawnStream ------------------------------
(***************************************************************************)
(* The Unix stream socket between the host and the fork server, at the     *)
(* level of the segments the kernel queues: ForkServer::request_spawn on   *)
(* one side, handle_one_request on the other.                              *)
(*                                                                         *)
(* The length prefix is one write and one segment.  The payload is one     *)
(* sendmsg, which the kernel cuts into segments of at most segMax, queued  *)
(* one after the other while the server may already read; the descriptors  *)
(* travel with the first of them.  Abstracted: the server's later steps    *)
(* (ForkServer), and the death of the host.  A child that was started is   *)
(* taken to have asked for its parent-death signal: it does not outlive    *)
(* the server.                                                             *)
(***************************************************************************)
EXTENDS Codec, FiniteSetsExt

CONSTANTS
    Jobs, NoJob,   \* the calls of Runtime::run; no call
    Requests,      \* the request of each call
    SegMaxes,      \* sizes the kernel may cut at
    HostUid, HostGid   \* ids the fork server runs as

(* A u32 can tell the length of a response (five, in the source). *)
ASSUME NoJobAssumption    == NoJob \notin Jobs
ASSUME RequestsAssumption == Requests \in [Jobs -> Request]
ASSUME ResponseAssumption == Width + 1 \in u32
(* The kernel queues less at a time than a length can say. *)
ASSUME CutAssumption      == SegMaxes \subseteq u32 \ {0}

VARIABLES
    segMax,        \* the size the kernel cuts at
    up, down,      \* what is queued to and from the server, unit by unit
    lock,          \* holder of ForkServer.socket
    call,          \* where each call of request_spawn stands
    sent,          \* how much of its payload the holder has sent
    answer,        \* what request_spawn returned
    srv,           \* what the server waits for
    prefix, want,  \* the prefix as far as it is read, the length it gives
    payload, fds,  \* the payload buffer; the call whose descriptors came with it
    started,       \* the requests children of a call went past their barrier with
    stuck          \* the calls whose child waits at its barrier for ever

hostVars   == <<lock, call, sent, answer>>
serverVars == <<srv, prefix, want, payload, fds>>
vars == <<segMax, up, down, hostVars, serverVars, started, stuck>>

Payload == [j \in Jobs |-> serialize(Requests[j])]

Init ==
    /\ segMax \in SegMaxes
    /\ up = << >> /\ down = << >>
    /\ lock = NoJob
    /\ call = [j \in Jobs |-> "ready"]
    /\ sent = 0
    /\ answer = [j \in Jobs |-> "none"]
    /\ srv = "prefix" /\ prefix = << >> /\ want = 0
    /\ payload = << >> /\ fds = NoJob
    /\ started = [j \in Jobs |-> {}]
    /\ stuck = {}

-----------------------------------------------------------------------------
(* A segment of data; its units bear the call whose descriptors are with it. *)
Segment(data, j) == [i \in DOMAIN data |-> [unit |-> data[i], fds |-> j]]

(***************************************************************************)
(* One read or recvmsg of up to n units from a queue that is not empty: it *)
(* goes on from segment to segment, but not past one with descriptors, and *)
(* returns with what there is.  Descriptors come with the first unit of    *)
(* theirs, or with none if n is 0, and what is left bears them no more.    *)
(***************************************************************************)
Recv(q, n) ==
    LET carriers == {i \in DOMAIN q : q[i].fds # NoJob}
        j        == q[Min(carriers)].fds
        last     == IF carriers = {} THEN Len(q) ELSE Max({i \in carriers : q[i].fds = j})
        m        == IF n < last THEN n ELSE last
        touched  == \E i \in carriers : i = 1 \/ i <= m
    IN  [data |-> [i \in 1..m |-> q[i].unit],
         fds  |-> IF touched THEN j ELSE NoJob,
         rest |-> [i \in 1..(Len(q) - m) |->
                      IF touched /\ m + i <= last THEN [q[m + i] EXCEPT !.fds = NoJob]
                                                  ELSE q[m + i]]]

(***************************************************************************)
(* The server's end is the server's, and that of every child which has not *)
(* got past its barrier.                                                   *)
(***************************************************************************)
Open == srv # "exited" \/ stuck # {}

Return(j, a) ==
    /\ lock' = NoJob
    /\ call' = [call EXCEPT ![j] = "returned"]
    /\ answer' = [answer EXCEPT ![j] = a]
    /\ sent' = 0

-----------------------------------------------------------------------------
(* A bug: the mutex is not taken. *)
SendPrefixUnlocked(j) ==
    /\ call[j] = "ready"
    /\ Open
    /\ lock' = j
    /\ call' = [call EXCEPT ![j] = "payload"]
    /\ up' = up \o Segment(push_u32(Len(Payload[j])), NoJob)
    /\ UNCHANGED <<segMax, down, sent, answer, serverVars, started, stuck>>

(* The mutex is taken, and the length goes out in a write of its own. *)
SendPrefix(j) ==
    /\ call[j] = "ready"
    /\ lock = NoJob
    /\ Open
    /\ lock' = j
    /\ call' = [call EXCEPT ![j] = "payload"]
    /\ up' = up \o Segment(push_u32(Len(Payload[j])), NoJob)
    /\ UNCHANGED <<segMax, down, sent, answer, serverVars, started, stuck>>

(* The kernel queues the next segment of the sendmsg of the payload. *)
SendPayload(j) ==
    /\ call[j] = "payload"
    /\ Open
    /\ LET end == Min({sent + segMax, Len(Payload[j])}) IN
          /\ up' = up \o Segment(SubSeq(Payload[j], sent + 1, end),
                                      IF sent = 0 THEN j ELSE NoJob)
          /\ sent' = end
          /\ call' = [call EXCEPT ![j] =
                         IF end = Len(Payload[j]) THEN "response" ELSE "payload"]
    /\ UNCHANGED <<segMax, down, lock, answer, serverVars, started, stuck>>

(* EPIPE: nobody is left who could read. *)
SendFails(j) ==
    /\ call[j] = "payload" \/ (call[j] = "ready" /\ lock = NoJob)
    /\ ~Open
    /\ Return(j, "broken")
    /\ UNCHANGED <<segMax, up, down, serverVars, started, stuck>>

(* read_exact of the length, recvmsg of the payload, decode_response. *)
ReceiveResponse(j) ==
    /\ call[j] = "response"
    /\ down # << >>
    /\ LET head == Recv(down, Width)
           body == Recv(head.rest, Number(head.data))
           resp == decode_response(body.data)
       IN  /\ down' = body.rest
           /\ Return(j, CASE resp.tag = "ok" /\ body.fds # NoJob -> "child"
                          [] resp.tag = "err"                    -> "refused"
                          [] OTHER                               -> "broken")
    /\ UNCHANGED <<segMax, up, serverVars, started, stuck>>

ReceiveEof(j) ==
    /\ call[j] = "response"
    /\ down = << >>
    /\ ~Open
    /\ Return(j, "broken")
    /\ UNCHANGED <<segMax, up, down, serverVars, started, stuck>>

HostStep(j) ==
    \/ SendPrefix(j) \/ SendPayload(j) \/ SendFails(j)
    \/ ReceiveResponse(j) \/ ReceiveEof(j)

-----------------------------------------------------------------------------
(* read_exact of the prefix; descriptors it comes across are lost. *)
ReadPrefix ==
    /\ srv = "prefix"
    /\ up # << >>
    /\ LET r   == Recv(up, Width - Len(prefix))
           got == prefix \o r.data
       IN  /\ up' = r.rest
           /\ prefix' = got
           /\ IF Len(got) = Width
                 THEN srv' = "payload" /\ want' = Number(got)
                 ELSE UNCHANGED <<srv, want>>
    /\ UNCHANGED <<segMax, down, hostVars, payload, fds, started, stuck>>

(* The server calls _exit(0), or aborts; its descriptors are closed. *)
ServerExits ==
    /\ srv' = "exited"
    /\ prefix' = << >> /\ want' = 0 /\ payload' = << >> /\ fds' = NoJob

(***************************************************************************)
(* One recvmsg into a buffer of zeros as long as the prefix said.  Without *)
(* the two descriptors the server gives up.                                *)
(***************************************************************************)
ReadPayload ==
    /\ srv = "payload"
    /\ up # << >>
    /\ LET r == Recv(up, want) IN
          /\ up' = r.rest
          /\ IF r.fds = NoJob
                THEN ServerExits
                ELSE /\ srv' = "request"
                     /\ fds' = r.fds
                     /\ payload' = r.data \o [i \in 1..(want - Len(r.data)) |-> 0]
                     /\ UNCHANGED <<prefix, want>>
    /\ UNCHANGED <<segMax, down, hostVars, started, stuck>>

(* The response goes out in two writes; the server is back in its loop. *)
Respond(tag, v, j) ==
    /\ LET body == encode_response(tag, v)
       IN  down' = down \o Segment(push_u32(Len(body)), NoJob) \o Segment(body, j)
    /\ srv' = "prefix" /\ prefix' = << >> /\ want' = 0
    /\ payload' = << >> /\ fds' = NoJob

Errno == 1
ChildPid == 2

(* What the payload parses as, if it does. *)
Parsed == deserialize(payload)

(* A bug: a request that does not parse is dropped without a word. *)
RefuseSilently ==
    /\ srv = "request"
    /\ Parsed.tag # "some"
    /\ srv' = "prefix" /\ prefix' = << >> /\ want' = 0
    /\ payload' = << >> /\ fds' = NoJob
    /\ UNCHANGED <<segMax, up, down, hostVars, started, stuck>>

(* EINVAL, or an error before there is a child. *)
Refuse ==
    /\ srv = "request"
    /\ Respond(RESP_ERR, Errno, NoJob)
    /\ UNCHANGED <<segMax, up, hostVars, started, stuck>>

(* A count in the request asks for more memory than there is. *)
Abort ==
    /\ srv = "request"
    /\ Parsed.tag = "unbacked"
    /\ ServerExits
    /\ UNCHANGED <<segMax, up, down, hostVars, started, stuck>>

(***************************************************************************)
(* cgroup.procs can be written below the directory of a call, and, an      *)
(* empty path being relative, in the server's working directory, where the *)
(* write creates a file; the maps take the server's own ids only.          *)
(***************************************************************************)
CgroupAccepts(r) == r.cgroup_path \in {Requests[j].cgroup_path : j \in Jobs} \cup {<< >>}
MapsAccept(r)    == r.host_uid = HostUid /\ r.host_gid = HostGid

(* cgroup.procs or the maps cannot be written: the child stays behind. *)
AssignFails ==
    /\ srv = "request"
    /\ Parsed.tag = "some"
    /\ stuck' = stuck \cup {fds}
    /\ Respond(RESP_ERR, Errno, NoJob)
    /\ UNCHANGED <<segMax, up, hostVars, started>>

(* A bug: the child is started whatever became of cgroup and maps. *)
StartUnassigned ==
    /\ srv = "request"
    /\ Parsed.tag = "some"
    /\ started' = [started EXCEPT ![fds] = @ \cup {Parsed.value}]
    /\ Respond(RESP_OK, ChildPid, fds)
    /\ UNCHANGED <<segMax, up, hostVars, stuck>>

Start ==
    /\ srv = "request"
    /\ Parsed.tag = "some"
    /\ CgroupAccepts(Parsed.value) /\ MapsAccept(Parsed.value)
    /\ started' = [started EXCEPT ![fds] = @ \cup {Parsed.value}]
    /\ Respond(RESP_OK, ChildPid, fds)
    /\ UNCHANGED <<segMax, up, hostVars, stuck>>

ServerStep == ReadPrefix \/ ReadPayload \/ Refuse \/ Abort \/ AssignFails \/ Start

Next == ServerStep \/ \E j \in Jobs : HostStep(j)

Spec == Init /\ [][Next]_vars

-----------------------------------------------------------------------------
(***************************************************************************)
(* A child gets past its barrier only with the whole of the request its    *)
(* call sent, and with its own: a request that arrives in part, padded     *)
(* with zeros, or shifted by what an earlier one left on the stream, never *)
(* starts anything, because the last fields serialize writes are the ones  *)
(* whose use fails (handle_one_request, deserialize).  It needs a server   *)
(* that is not root: for root, zeros are the right ids.                    *)
(***************************************************************************)
OnlyWholeRequestsRun ==
    \A j \in Jobs : started[j] \subseteq {Requests[j]}

(***************************************************************************)
(* A call that is told the server broke down has no child that runs:       *)
(* nobody would reap it (request_spawn, handle_one_request).  As above, it *)
(* needs a server that is not root.                                        *)
(***************************************************************************)
BrokenCallsRunNothing ==
    \A j \in Jobs : answer[j] = "broken" => started[j] = {}

(***************************************************************************)
(* Host and server never wait for each other: while a call waits for its   *)
(* response, something is on one of the streams, or the server is at work, *)
(* or it is gone, however requests are cut and whatever an earlier one     *)
(* left behind (request_spawn, handle_one_request).                        *)
(***************************************************************************)
NoStandstill ==
    \A j \in Jobs : call[j] = "response" =>
        up # << >> \/ down # << >> \/ srv \in {"request", "exited"}

(***************************************************************************)
(* The stream implements the exchange of whole messages: each call is      *)
(* granted at most its own child and is told so, and where every request   *)
(* fits one segment the server never breaks down (request_spawn,           *)
(* handle_one_request, fork_server_main).                                  *)
(***************************************************************************)
Exchange == INSTANCE SpawnExchange WITH
    fits    <- \A j \in Jobs : Len(Payload[j]) <= segMax,
    up      <- srv # "exited",
    request <- [j \in Jobs |-> IF started[j] # {} THEN "granted"
                               ELSE IF j = lock \/ answer[j] # "none" THEN "asked"
                               ELSE "ready"]

ImplementsExchange == Exchange!Spec

(* "Socket closed or unrecoverable protocol error -- parent died."         *)
(* (fork_server_main): while the host lives, the server serves.            *)
ServerOutlivesRequests == srv # "exited"
================================================================================
