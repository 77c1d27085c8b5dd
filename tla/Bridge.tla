-------------------------------- MODULE Bridge --------------------------------
(***************************************************************************)
(* One job on its way through all the processes between a Python caller    *)
(* and a sandboxed program, and the answer on its way back:                *)
(*                                                                         *)
(*   - the client, _call_binary (_runner.py), which waits for the end of   *)
(*     the bridge's output, and kills the bridge after a timeout           *)
(*   - the bridge, main of bin/run.rs with Runtime::run in it: what        *)
(*     collect_output makes of two streams, what reap_child makes of the   *)
(*     status file (module StatusFile), and the result that is printed     *)
(*   - the fork server, which goes away when the bridge has gone           *)
(*   - the child and its program, which writes a script to two streams     *)
(*     of bounded capacity and ends.                                       *)
(*                                                                         *)
(* The output the client waits for is inherited by the server and, up to   *)
(* the dup2 calls of child_setup, by the child.  Abstracted: the steps of  *)
(* module Sandbox that a single job does not tell apart, and clocks; both  *)
(* timers may run out at any moment.                                       *)
(***************************************************************************)
EXTENDS StatusFile

CONSTANTS
    Scripts,     \* what programs write, then "close" and "hang" if they do
    Exits,       \* the ways they end by themselves
    Capacity,    \* of the pty and of the stderr pipe
    Events       \* what may go wrong: see EventKinds

EventKinds ==
    { "assign",    \* the child cannot be assigned to its cgroup, or mapped
      "setup",     \* child_setup fails
      "io",        \* a read of the child's output fails
      "ttl",       \* the TTL expires
      "slow",      \* the status file is late by more than a second
      "timeout" }  \* the client's timer expires

(***************************************************************************)
(* What goes to stdout and to stderr: bytes of ASCII, with or without a    *)
(* newline, and the two halves of a character of two bytes.                *)
(***************************************************************************)
FirstHalf  == {"out_1st"}
SecondHalf == {"out_2nd", "err_2nd"}

ToStdout == {"out", "out_nl", "out_1st", "out_2nd"}
ToStderr == {"err", "err_2nd"}

Items == ToStdout \cup ToStderr \cup {"close", "hang"}

(* To write to a closed stream would change nothing. *)
ASSUME ScriptsAssumption ==
    \A s \in Scripts :
        /\ s \in Seq(Items)
        /\ \A i, j \in 1..Len(s) :
              i < j /\ s[i] = "close" => s[j] \notin ToStdout \cup ToStderr
ASSUME ExitsAssumption  == Exits \subseteq Endings
ASSUME EventsAssumption == Events \subseteq EventKinds

VARIABLES
    client, answer,      \* the client, and what it returned
    bridge, printed,     \* the bridge, and what it printed
    result,              \* of the timed loop in collect_output
    server, response,    \* the server, and its response to the bridge
    child, armed,        \* the child; whether its parent-death signal works
    script, pos,         \* the program's script, and how far it has come
    ptyBuf, errBuf,      \* bytes in the kernel
    stdout, stderr,      \* bytes collected
    outDone, errDone     \* streams that have ended

clientVars == <<client, answer>>
bridgeVars == <<bridge, printed, result>>
serverVars == <<server, response>>
childVars  == <<child, armed, script, pos>>
streamVars == <<ptyBuf, errBuf, stdout, stderr, outDone, errDone>>
vars == <<clientVars, bridgeVars, serverVars, childVars, streamVars, statusVars>>

Nothing == [ok |-> FALSE]

Init ==
    /\ client = "waiting" /\ answer = Nothing
    /\ bridge = "requested" /\ printed = Nothing /\ result = "none"
    /\ server = "idle" /\ response = "none"
    /\ child = "none" /\ armed = FALSE
    /\ script \in Scripts /\ pos = 1
    /\ ptyBuf = << >> /\ errBuf = << >>
    /\ stdout = << >> /\ stderr = << >>
    /\ outDone = FALSE /\ errDone = FALSE
    /\ NoStatusYet

-----------------------------------------------------------------------------
(* The fork server. *)
Alive == child \in {"barrier", "woken", "setup", "program"}

(* The request is in the socket, and served even if its sender is gone. *)
Clone ==
    /\ server = "idle" /\ child = "none"
    /\ server' = "cloned"
    /\ child' = "barrier"
    /\ pid' \in ChildPids
    /\ UNCHANGED <<clientVars, bridgeVars, response, armed, script, pos, streamVars,
                   at, ending, path, text, reason>>

(* The cgroup or the maps cannot be written: the child stays where it is. *)
AssignFails ==
    /\ "assign" \in Events
    /\ server = "cloned"
    /\ server' = "idle" /\ response' = "error"
    /\ UNCHANGED <<clientVars, bridgeVars, childVars, streamVars, statusVars>>

Release ==
    /\ server = "cloned"
    /\ server' = "idle" /\ response' = "ok"
    /\ child' = "woken"
    /\ UNCHANGED <<clientVars, bridgeVars, armed, script, pos, streamVars, statusVars>>

(* A bug: the server keeps the bridge's end of the socket pair open. *)
PeerClosedNever == FALSE

(* The bridge's end of the socket is open in the bridge only. *)
PeerClosed == bridge \in {"exited", "killed"}

(* The child's death, of e: its descriptors are closed, a status is due. *)
Dies(e) == child' = "dead" /\ ChildEnds(e)

(* After the request read_exact fails: the server and its armed child exit. *)
ServerExits ==
    /\ server = "idle" /\ PeerClosed /\ child # "none"
    /\ server' = "exited"
    /\ IF armed /\ Alive THEN Dies(Killed) ELSE UNCHANGED <<child, statusVars>>
    /\ UNCHANGED <<clientVars, bridgeVars, response, armed, script, pos, streamVars>>

(* sigchld_handler, between or within the steps of the main loop. *)
WriteStatus ==
    /\ server # "exited" /\ child = "dead"
    /\ HandlerWritesFile
    /\ UNCHANGED <<clientVars, bridgeVars, serverVars, childVars, streamVars>>

-----------------------------------------------------------------------------
(* The child and its program. *)
childOnly == <<clientVars, bridgeVars, serverVars>>

(* prctl(PR_SET_PDEATHSIG) does nothing about a parent that is gone. *)
Arm ==
    /\ child = "woken"
    /\ child' = "setup"
    /\ armed' = (server # "exited")
    /\ UNCHANGED <<childOnly, script, pos, streamVars, statusVars>>

SetupFails ==
    /\ "setup" \in Events
    /\ child = "setup"
    /\ Dies([kind |-> "exit", value |-> 1])
    /\ pos' = 0
    /\ UNCHANGED <<childOnly, armed, script, streamVars>>

ExecTarget ==
    /\ child = "setup"
    /\ child' = "program"
    /\ UNCHANGED <<childOnly, armed, script, pos, streamVars, statusVars>>

NextItem == IF child = "program" /\ pos <= Len(script) THEN script[pos] ELSE "none"

(* The master and the pipe are the bridge's, until collect_output returns. *)
ReadersOpen == bridge \in {"requested", "confirm", "collect"}

(* The line discipline writes a newline as two bytes, or not at all. *)
Cooked(b) == IF b = "out_nl" THEN << "cr", "nl" >> ELSE << b >>

WriteStdout ==
    /\ NextItem \in ToStdout /\ ReadersOpen
    /\ Len(ptyBuf) + Len(Cooked(NextItem)) <= Capacity
    /\ ptyBuf' = ptyBuf \o Cooked(NextItem)
    /\ pos' = pos + 1
    /\ UNCHANGED <<childOnly, child, armed, script, errBuf, stdout, stderr,
                   outDone, errDone, statusVars>>

WriteStderr ==
    /\ NextItem \in ToStderr /\ ReadersOpen
    /\ Len(errBuf) < Capacity
    /\ errBuf' = Append(errBuf, NextItem)
    /\ pos' = pos + 1
    /\ UNCHANGED <<childOnly, child, armed, script, ptyBuf, stdout, stderr,
                   outDone, errDone, statusVars>>

(* A write is refused; SIGPIPE is ignored, as in the bridge and the server. *)
WriteRefused ==
    /\ NextItem \in ToStdout \cup ToStderr /\ ~ReadersOpen
    /\ pos' = pos + 1
    /\ UNCHANGED <<childOnly, child, armed, script, streamVars, statusVars>>

CloseOutput ==
    /\ NextItem = "close"
    /\ pos' = pos + 1
    /\ UNCHANGED <<childOnly, child, armed, script, streamVars, statusVars>>

(* The end of the script: the program ends, unless it hangs there. *)
Exit ==
    /\ child = "program" /\ pos = Len(script) + 1
    /\ \E e \in Exits : Dies(e)
    /\ UNCHANGED <<childOnly, armed, script, pos, streamVars>>

(* Whether somebody may still write to the streams. *)
HoldsStreams ==
    \/ server = "cloned"
    \/ Alive /\ ~\E i \in 1..Len(script) : script[i] = "close" /\ i < pos

-----------------------------------------------------------------------------
(* The bridge: Runtime::run. *)
bridgeOnly == <<clientVars, serverVars, childVars>>

Goto(s) == bridge' = s

Fail == Goto("exited") /\ printed' = Nothing

ReceiveResponse ==
    /\ bridge = "requested"
    /\ response # "none"
    /\ IF response = "ok" THEN Goto("confirm") /\ UNCHANGED printed ELSE Fail
    /\ UNCHANGED <<bridgeOnly, result, streamVars, statusVars>>

(* Only a child that failed in setup is at position 0. *)
Confirm ==
    /\ bridge = "confirm"
    /\ child \in {"program", "dead"}
    /\ IF pos = 0 THEN Fail ELSE Goto("collect") /\ UNCHANGED printed
    /\ UNCHANGED <<bridgeOnly, result, streamVars, statusVars>>

StdoutReadable == ~outDone /\ (ptyBuf # << >> \/ ~HoldsStreams)

(* One read of whatever is there; EIO, when nothing is, ends the stream. *)
ReadStdout ==
    /\ bridge = "collect"
    /\ StdoutReadable
    /\ stdout' = stdout \o ptyBuf
    /\ ptyBuf' = << >>
    /\ outDone' = (ptyBuf = << >>)
    /\ UNCHANGED <<bridgeOnly, bridgeVars, errBuf, stderr, errDone, statusVars>>

(* A bug: one stream after the other. *)
StderrTurnLast == outDone

(* The select is biased: stderr is looked at when stdout has nothing. *)
StderrTurn == ~StdoutReadable

ReadStderr ==
    /\ bridge = "collect"
    /\ StderrTurn
    /\ ~errDone /\ (errBuf # << >> \/ ~HoldsStreams)
    /\ stderr' = stderr \o errBuf
    /\ errBuf' = << >>
    /\ errDone' = (errBuf = << >>)
    /\ UNCHANGED <<bridgeOnly, bridgeVars, ptyBuf, stdout, outDone, statusVars>>

(* A bug: the loop ends with the first stream that does. *)
OneStreamEnded == outDone \/ errDone

StreamsEnded == outDone /\ errDone

EndOutput ==
    /\ bridge = "collect"
    /\ StreamsEnded
    /\ Goto("reap") /\ result' = "ok"
    /\ UNCHANGED <<bridgeOnly, printed, streamVars, statusVars>>

(* An error of read ends collect_output, and passes for the end of output. *)
ReadFails ==
    /\ "io" \in Events
    /\ bridge = "collect"
    /\ ~(outDone /\ errDone)
    /\ Goto("reap") /\ result' = "error"
    /\ UNCHANGED <<bridgeOnly, printed, streamVars, statusVars>>

(* The TTL expires: the cgroup is killed, and the death waited for. *)
TtlExpires ==
    /\ "ttl" \in Events
    /\ bridge = "collect"
    /\ Goto("kill") /\ result' = "elapsed"
    /\ IF Alive THEN Dies(Killed) ELSE UNCHANGED <<child, statusVars>>
    /\ UNCHANGED <<clientVars, serverVars, printed, armed, script, pos, streamVars>>

(***************************************************************************)
(* String::from_utf8_lossy, of all bytes at once: both halves of a         *)
(* character, one after the other, are that character; a half that stands  *)
(* alone becomes U+FFFD.                                                   *)
(***************************************************************************)
Whole(b, i) ==
    i \in 1..(Len(b) - 1) /\ b[i] \in FirstHalf /\ b[i + 1] \in SecondHalf

Lossy(b) ==
    LET begins == SelectSeq([i \in 1..Len(b) |-> i], LAMBDA i : ~Whole(b, i - 1))
        read(i) == CASE Whole(b, i)                         -> "character"
                     [] b[i] \notin FirstHalf \cup SecondHalf -> b[i]
                     [] OTHER                               -> "U+FFFD"
    IN  [k \in 1..Len(begins) |-> read(begins[k])]

(***************************************************************************)
(* main prints the result: the exit status, the termination, the texts.    *)
(* The client reads back the same texts out of the JSON.                   *)
(***************************************************************************)
PrintResult(status, why) ==
    /\ Goto("exited")
    /\ printed' = [ok |-> TRUE, exit_status |-> status, termination |-> why,
                   stdout |-> Lossy(stdout), stderr |-> Lossy(stderr)]

PrintTimeout ==
    /\ bridge = "kill"
    /\ child = "dead"
    /\ PrintResult(-1, "TimedOut")
    /\ UNCHANGED <<bridgeOnly, result, streamVars, statusVars>>

ReadStatus ==
    /\ bridge = "reap"
    /\ SupervisorReadsFile
    /\ Goto("report")
    /\ UNCHANGED <<bridgeOnly, printed, result, streamVars>>

PrintReport ==
    /\ bridge = "report"
    /\ PrintResult(IF reason.tag = "SeccompViolation" THEN SIGSYS ELSE reason.value, reason.tag)
    /\ UNCHANGED <<bridgeOnly, result, streamVars, statusVars>>

(* A second passes without a file. *)
ReapGivesUp ==
    /\ bridge = "reap"
    /\ at = "alive" \/ (at = "dead" /\ "slow" \in Events)
    /\ Fail
    /\ UNCHANGED <<bridgeOnly, result, streamVars, statusVars>>

-----------------------------------------------------------------------------
(***************************************************************************)
(* The client.  Its pipe is held by the bridge, by the server, and by the  *)
(* child until it has the slave and the stderr pipe in their place.        *)
(***************************************************************************)
OutputHeld ==
    \/ bridge \notin {"exited", "killed"}
    \/ server # "exited"
    \/ child \in {"barrier", "woken", "setup"}

clientOnly == <<serverVars, childVars, streamVars, statusVars>>

(* RunResult.success. *)
success(r) == r.exit_status = 0 /\ r.termination = "Exited"

Receive ==
    /\ client = "waiting"
    /\ ~OutputHeld
    /\ client' = IF printed.ok THEN "returned" ELSE "raised"
    /\ answer' = printed
    /\ UNCHANGED <<bridgeVars, clientOnly>>

(* subprocess.run kills the bridge, and no other process. *)
TimeOut ==
    /\ "timeout" \in Events
    /\ client = "waiting"
    /\ client' = "timed_out"
    /\ bridge' = IF PeerClosed THEN bridge ELSE "killed"
    /\ UNCHANGED <<answer, printed, result, clientOnly>>

Progress ==
    \/ Clone \/ Release \/ ServerExits \/ WriteStatus
    \/ Arm \/ ExecTarget \/ WriteStdout \/ WriteStderr \/ WriteRefused
    \/ CloseOutput \/ Exit
    \/ ReceiveResponse \/ Confirm \/ ReadStdout \/ ReadStderr \/ EndOutput
    \/ PrintTimeout \/ ReadStatus \/ PrintReport \/ ReapGivesUp \/ Receive

Mishap == AssignFails \/ SetupFails \/ ReadFails \/ TtlExpires \/ TimeOut

Next == Progress \/ Mishap

(***************************************************************************)
(* Every process is scheduled and every poll bounded.  No step can be      *)
(* taken for ever, so that each of them gets its turn.  Neither timer nor  *)
(* any failure is owed.                                                    *)
(***************************************************************************)
Spec == Init /\ [][Next]_vars /\ WF_vars(Progress)

-----------------------------------------------------------------------------
(***************************************************************************)
(* What a program has written to a stream once it is through n items of    *)
(* its script s, as a function of n.                                       *)
(***************************************************************************)
Emitted(items, b) == IF b \in items THEN Cooked(b) ELSE << >>

WrittenBy(s, items) ==
    LET upTo[n \in 0..Len(s)] ==
            IF n = 0 THEN << >> ELSE upTo[n - 1] \o Emitted(items, s[n])
    IN  upTo

Written(items) == WrittenBy(script, items)[Len(script)]

(***************************************************************************)
(* A result the client calls a success is about a program that ran its     *)
(* script to the end and exited with 0.  It contains the text of all it    *)
(* wrote, to either stream and in order, unless a read failed, when it is  *)
(* the text of a beginning of that (collect_output, reap_child, main,      *)
(* RunResult.success).                                                     *)
(***************************************************************************)
TextOfAll(answered, items) == answered = Lossy(Written(items))

TextOfPart(answered, items) ==
    \E n \in 0..Len(Written(items)) : answered = Lossy(SubSeq(Written(items), 1, n))

SuccessIsTrue ==
    client = "returned" /\ success(answer) =>
        /\ ending = [kind |-> "exit", value |-> 0] /\ pos = Len(script) + 1
        /\ result # "error" =>
              TextOfAll(answer.stdout, ToStdout) /\ TextOfAll(answer.stderr, ToStderr)
        /\ TextOfPart(answer.stdout, ToStdout) /\ TextOfPart(answer.stderr, ToStderr)

(* A child no failed request will ever wake or end (handle_one_request). *)
Stranded == child = "barrier" /\ response = "error"

Hangs == script # << >> /\ Last(script) = "hang"

(***************************************************************************)
(* A program that ends by itself is answered, without the help of either   *)
(* timer: no full stream blocks the program and its reader for ever, and   *)
(* no process keeps the client's pipe open.  The exception is a child      *)
(* left at its barrier, which keeps it (collect_output, fork_server_main,  *)
(* _call_binary).                                                          *)
(***************************************************************************)
AnswerArrives == <>(client # "waiting" \/ Stranded \/ Hangs)

(***************************************************************************)
(* Once the client has returned, on whatever path, no program is left      *)
(* running: the end of the bridge ends the server, and that its child.     *)
(* The exceptions are the child at its barrier, and one the server left    *)
(* before it armed its signal (fork_server_main, child_setup).             *)
(***************************************************************************)
NothingRunsOn ==
    client # "waiting" ~>
        child \in {"none", "dead"} \/ Stranded
            \/ (server = "exited" /\ ~armed)
===============================================================================
