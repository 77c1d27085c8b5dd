# brink: a verification project

`brink` runs one untrusted Linux program per call of `Runtime::run`: a host
process asks a single-threaded *fork server* over a Unix socket for a child in
fresh namespaces, puts the child in a cgroup, watches its output and its life,
and reports how it ended. This directory models that machinery in TLA+, checks
it with TLC and proves its central safety properties with TLAPS.

All paths below are relative to the repository (`src/…`, shortened to the file
name where it is unambiguous).

## 1. The system

| part | source | state it keeps | operations |
|---|---|---|---|
| Supervisor | `supervisor.rs`, `lib.rs`, client half of `fork_server.rs` | one future per call: pid, pidfd, pipes, cgroup guard; the mutex around the socket | `run`: validate, create the cgroup, open the pty, `request_spawn`, read the error pipe, `collect_output`, `kill_all`, `wait_pidfd`, `reap_child` |
| Cgroup guard | `cgroup.rs` | a directory | create, limits, OOM counter, kill, `Drop` |
| Fork server | `fork_server.rs` | the request being served | `handle_one_request`, `send_error`, `sigchld_handler` |
| Status file | `fork_server.rs:333-417`, `supervisor.rs:245-283` | `/tmp/sandbox-status-<pid>` | written by the handler, polled and removed by the supervisor |
| Sandboxed child | `namespace.rs` | position in `child_setup` | `clone_child`, `wait_for_mapping`, setup stages, `exec_target`, `report_child_error` |
| Seccomp filter | `seccomp.rs` | a BPF program | `load_filter` |
| Pseudoterminal | `pty.rs` | two descriptors | `open_pty` |
| IPC codec | `ipc.rs` | none | `encode`, `decode`, `send_with_fds`, `recv_fds` |
| Mounts | `mount.rs` | the child's mount tree | `setup`, `create_scratch_root`, `mask_proc_paths` |
| Landlock | `landlock.rs` | a ruleset | `apply_ruleset` |
| Config, errors, report | `config.rs`, `error.rs`, `report.rs` | none | `validate`, defaults, `ChildStage` |
| Bridge | `bin/run.rs` | the runtime and its one call | JSON in, one `run`, JSON out |
| Python client | `brink_agent/` | a subprocess and a timeout | `_call_binary`, `RunResult` |

### How they interact

```
 host process                     fork server                    child
 ------------                     -----------                    -----
 run() x n --- mutex, socket ---> main loop --- clone3 --------> barrier
           <-- pid, fds --------- (one request at a time)          |
                                      |  cgroup.procs, maps        |
                                      |-------- eventfd ---------> setup -> execve
           <============ error pipe, pty, stderr pipe =============|
           <-- /tmp/sandbox-status-<pid> -- SIGCHLD handler <-- death
```

The calls share one stream and one fork server; the mutex of
`request_spawn` is all that pairs requests with responses. The handler interrupts
the server's main loop anywhere. Handler and supervisor never talk: a file named
by a pid carries the status, and the supervisor polls for it.

Around this, a Python client runs the bridge, a process whose only call of
`Runtime::run` is a job, and waits for the end of the bridge's output. The server is
a fork of the bridge and the child one of the server, so all three hold that output,
and the end of each is the signal for the next.

### What is hard

* **Interleaving.** Concurrent calls on one stream; the handler's `open` and
  `write` against the supervisor's poll; `ptsname`'s process-wide buffer.
* **Ordering.** A child must not pass its barrier before its limits are in place;
  SIGCHLD coalesces; each of some forty system calls of `child_setup` needs
  others before it and can take from those after it what they need.
* **Failure.** Every step of a request can fail after the child exists; the server
  can die between any two steps; a future can be dropped at an await.
* **Partial messages.** A request is one `sendmsg` on a stream, and is taken to
  arrive in one `recvmsg`.
* **Bounded buffers.** The program's two streams are read by one loop.
* **Timing.** The TTL races the program's own exit; three polls give up after a
  bounded time.
* **Stale state.** A status file is named by a pid alone; "end of file on the
  error pipe" stands for "execve succeeded"; `memory.events` is read later
  than the status.
* **Numeric edges.** Hand-made decimal conversion in fixed buffers; wait-status
  bits; relative BPF jumps counted by hand; length prefixes in the codec.

The list with lines, and the property that answers each entry, is under
`hazards` in `PROJECT.json`.

### What makes each part correct

* Supervisor: every call returns; one answer; a report is only about a dead
  process and true; it contains all the program wrote.
* Cgroup guard: the directory goes on every path that returns a report, and never
  under a live process.
* Fork server: a response answers its own request; every dead child is reaped; a
  request that does not arrive whole starts nothing.
* Status file: every way of ending survives the conversion there and back.
* Child: no code outside its limits; setup fails only for a cause and says where;
  the program gets exactly its descriptors and no way out.
* Seccomp: the program decides as its stated policy; no jump is off.
* Pseudoterminal: master and slave belong together; no descriptor is lost on errors.
* Codec: decoding gives the request that was sent, or nothing.
* Bridge and client: the client gets an answer, a success is a success, and
  nothing runs on once it has one.

## 2. The modules

| module | models | built on |
|---|---|---|
| `WaitStatus` | wait statuses and the decoding of `reap_child`, as operators | |
| `SandboxState` | variables, constants and `Init` of the composed system | `WaitStatus` |
| `Supervisor` | the host process: `Runtime::run`, `request_spawn`, `CgroupGuard` | `SandboxState` |
| `ForkServer` | main loop, handler, death of the server | `SandboxState` |
| `SandboxedChild` | the child, its program, the kernel | `SandboxState` |
| `Sandbox` | composition, fairness, properties, refinement mapping | the three above |
| `RunContract` | abstract specification: what `Runtime::run` promises | `WaitStatus` |
| `StatusFile` | bytes of the status file: `sigchld_handler` against `reap_child` | `WaitStatus` |
| `Bridge` | client, bridge, server and child of one job, with its output | `StatusFile` |
| `Seccomp` | the BPF program and the machine that runs it | |
| `ChildSetup` | the system calls of `child_setup`, the mounts and Landlock | `Seccomp` |
| `Codec` | `ipc.rs`: types of a request, `serialize`, `deserialize`, responses, as operators | |
| `SpawnStream` | the socket as a stream of segments | `Codec` |
| `SpawnExchange` | abstract specification: the socket as an exchange of messages | |
| `Pty` | `open_pty` on concurrent worker threads | |
| `SandboxInvariant` | the inductive invariant | `Sandbox` |
| `SandboxProofs` | theorems about `Sandbox` | `SandboxInvariant` |
| `PtyProofs` | theorems about `Pty` | `Pty` |
| `CodecProofs` | `deserialize` undoes `serialize` | `Codec`, `DataProofs` |
| `SpawnProofs` | theorems about `SpawnStream` | `SpawnStream`, `CodecProofs` |
| `DataProofs` | facts about data for the other proofs; the decoding of `WaitStatus` | `WaitStatus` |
| `BridgeProofs` | theorems about `StatusFile` and `Bridge` | `Bridge`, `DataProofs` |
| `ChildSetupProofs` | theorems about the filter of `Seccomp` | `ChildSetup` |
| `SetupProofs` | theorems about the calls of `ChildSetup` | `ChildSetupProofs` |
| `MCSandbox`, `MCBridge`, `MCChildSetup`, `MCSpawnStream`, `MCPty` | instances for TLC | |

`Sandbox` is the system at the level of whole messages, atomic reports and
many jobs. Three modules look closer at what it takes for granted: `SpawnStream` at
"a request is received", `ChildSetup` at "setup succeeds or reports", `Bridge` at
"output ends" and "the status is read". What each relies on of the others:

* the FIFO of `Sandbox` is `SpawnExchange` with `fits`, which `SpawnStream` implements
  (proved: `SpawnImplementsExchange`);
* `SetupFails` and `ExecTarget` of `SandboxedChild` are the two ways `ChildSetup` ends,
  and `FailureIsReported` is why `ConfirmExec` may trust the end of the error pipe;
* `ReasonIsTrue` is why `Sandbox` may keep a status where there is a text.

### `Supervisor`, `ForkServer`, `SandboxedChild` and the code

A *job* is one call of `Runtime::run`; its cgroup, child and descriptors are
named by it.

`run[j]` is the place in `Runtime::run`:

| value | place |
|---|---|
| `idle` | not called |
| `lock` | cgroup, pty and request are ready, waiting for the mutex in `request_spawn` |
| `await` | request sent, blocked in the receive, mutex held (`lock = j`) |
| `confirm` | blocking read of the error pipe |
| `collect` | `collect_output` under `tokio::time::timeout` |
| `kill`, `waitpid` | the timeout path: `kill_all`, then `wait_pidfd` |
| `reap`, `unlink` | `reap_child`: polling; file read, about to remove it and decode |
| `dropping`, `done` | the `Drop` of `CgroupGuard`; returned |

`result[j]` is set on entering `dropping`: everything a caller is told is decided
by then. `handle[j]` is the job whose child the received pid, pidfd and pipes
belong to; it is a variable, not `j`, because the stream could hand out
somebody else's. `srv` and `srvJob` are the place in
`handle_one_request` (`cloned`, `assigned`, `mapped`, `signalled` are the points
after `clone3`, `cgroup.procs`, the maps and the eventfd). `hndAt` is the place in
the handler; while it is not `off` the main loop does not advance, since the
handler runs on the same thread. `statusFile[p]` is absent, empty, or a status.
`child[j]` is blocked (`barrier`), past the eventfd (`woken`), past `prctl`
(`setup`), executing the program (`running`), dying with its descriptors closed
(`exiting`), dead (`zombie`), reaped (`gone`). `stdio` says whether anybody
holds the program's end of the output.

One action stands for one atomic section: a system call that others can observe,
with the local computation around it. Two sections that look atomic in the code
are not and are split: the handler's `open(O_CREAT | O_TRUNC)` and `write`
(`HandlerOpens`, `HandlerWrites`), and the supervisor's read and `remove_file`
(`ReadStatus`, `Decide`).

Faults are *events*: the constant `Events` selects those an instance allows
(`EventKinds` in `SandboxState` lists and explains them). An event only enables
the code's own error path: `eintr`, for instance, is the negative result of the read
of the error pipe, which `supervisor.rs:81-90` takes for an end of file. `slow` removes the assumption that kernel and
handler are done within the one second of `reap_child` and the five seconds of
`Drop`; `recycle` allows the kernel to reuse a pid.

The socket stays open while the server lives or any child does: the server clears
`FD_CLOEXEC` on its end (`fork_server.rs:175`), so children and the programs they
execute inherit it (`SocketOpen`).

### `Bridge` and `StatusFile`

One job, from the request the client has written to the answer it returns. A
`script` is what the program writes; the pty and the stderr pipe hold `Capacity`
bytes, and a newline takes two places in the pty (`Cooked`: the line discipline).
`collect_output` is `ReadStdout`, `ReadStderr` (in the order of the biased select),
`EndOutput`, `ReadFails` and `TtlExpires`; `result` is what its timed loop ended with. An
error of a read (event `io`) ends it like the end of output does, since only the TTL is
told from the rest (`supervisor.rs:238`). The readers are closed with it: whatever the
program still writes is refused (`WriteRefused`), and it goes on. `Lossy` is
`String::from_utf8_lossy` on the bytes of a script: plain ones, newlines, and the two halves
of a two-byte character, which make it when they meet and U+FFFD each when they do not.
The JSON between bridge and client is not modelled: the text the client gets is taken to be
the text printed. The status file is read and written byte by byte by
the operators of `StatusFile`: the digit loop, the reversal, the special case of zero,
the fixed buffers, then `trim().parse()` and the decoding. `PrintReport` is the
mapping of a reason to `exit_status` and `termination` in `bin/run.rs`; `success` is
`RunResult.success`. A request that is in the socket is served even if the bridge has been
killed since (`Clone`).

`OutputHeld` says who keeps the client's pipe open: the bridge, the server, and the
child up to its `dup2` calls. That chain (bridge ends, server's `read_exact`
fails, server exits, the parent-death signal ends the child) is what both temporal
properties are about.

### `ChildSetup` and `Seccomp`

`Steps` is the order of the calls in `child_setup`, `mount::setup`, `apply_ruleset`
and `drop_capabilities`, each with the stage under which its failure is reported; the
calls made once per extra mount are passed over (`CallSkipped`) when there is none.
`Kernel` says of each call what it needs of the process, what it gives and what it
takes away, as a set of facts: `pivot_root` takes away host paths, `restrict_self` the
right to mount, `capset` the capabilities, a mount of proc the masks below it. A
call fails when a need is not met, when it is the one call that `fault` lets fail, or
for a reason of its own (a `dup2` under a descriptor limit that is already
in force, a Landlock access the kernel's ABI does not know). Descriptors have
numbers: `ServerTable` gives what `handle_one_request` opens the free numbers in their
order, around whatever else the server has open above its socket, which is 4: the pair takes
3 and 4, and the server closes 3.

From `load_filter` on every call goes through the filter, instruction by
instruction: `Program` is what `load_filter` assembles, with the numbers of
`ALLOWED_SYSCALLS` and `KILL_SYSCALLS`; `ExecLoad`, `ExecJump`, `ExecRet`
are the BPF machine; `Policy` is the text at the head of `seccomp.rs` without
instructions. Duplicates in the allow list are one rule here: a second rule with
the same number is never reached. The filtered calls are `execve`, the `write` and
`exit_group` of a failed child, and whatever the program likes.

### `SpawnStream`, `Codec` and `SpawnExchange`

Each direction of the socket is a queue of units (bytes, in the source); those of a
segment with descriptors bear the name of the call whose descriptors they are. `Recv`
is what the kernel does for one `read` or `recvmsg`: it goes on from segment to
segment, stops behind one with descriptors, and returns what there is. The payload of a
request is cut at `segMax`; the server's buffer is as long as the prefix said, and what
did not arrive stays zero. `serialize` and `deserialize` list the fields each in its
own order, as the two functions in `ipc.rs` do; digits to base `Base` stand for bytes.
A pull returns a value with the next position (`Some`), or `None`, and `Then` is the
operator `?`. `Unbacked` is a count greater than the buffer: whether `with_capacity` can
reserve that much is the machine's, so the server aborts or refuses.
The refusal of a truncated request is then a result of the model, not
an assumption: `deserialize` of the padded buffer either fails, or gives a
request whose `host_uid`, `host_gid` or cgroup path is not what the kernel accepts.

### `Pty`

`open_pty` has no await, so a call keeps its worker thread; interleaving is between
threads. `ptsname` fills a shared `buffer`, the copy into a `CString` is a second
action.

## 3. What is checked

Passing runs:

| run | question | states |
|---|---|---|
| `sandbox_faults` | two concurrent calls and every fault but `epoll` and `recycle`, the death of the server included: right child, limits in place, reports true, directories accounted for, and the whole implements `RunContract` | 2 164 183 |
| `sandbox_live` | descriptors of a response lost, failures of clone, of the maps, of the status file and of watching a pidfd, programs that close their output, dropped futures, reuse of pids, the server's death: calls return, zombies are reaped, the TTL kills | 268 246 |
| `bridge` | one job through all processes, with every event of `Bridge`: the answer arrives, a success is true, and complete unless a read failed, and nothing runs on | 172 098 |
| `child_setup` | each call of setup failing, kernels of three Landlock versions, all system call numbers: failures have a cause and are reported, the program is confined, the filter decides as its policy | 1 698 933 |
| `pty` | three calls on two worker threads, all error paths: no descriptor is left but by the one leak of `TIOCSWINSZ` | 5 633 |
| `spawn_stream` | two calls, requests cut at every size from 8 to 70: nothing but a whole request runs, a call that hears of a breakdown has no child that runs, nobody waits for ever, the stream implements `SpawnExchange` | 8 764 |

What the less obvious properties say:

* `ImplementsContract`: with `RunContract`, one answer per call that never changes,
  at most one process, reports only of dead processes, and true ones.
* `ReportMeansDead` and `ReportIsOwn` are what the status-file protocol is for.
  `DirectoryHasProcess` and `ReportLeavesNothing` are what remains after a return: a
  directory only with a process in it, and none after a report.
* `TtlKills` has the exceptions in which nobody watches (`Unwatched`); each of them is
  a way in which a program really outlives its TTL, and `daemon` and `cancel` show two.
* `AnswerArrives` and `NothingRunsOn` have the exceptions `Stranded` (a failed
  request leaves its child at the barrier, which holds the client's pipe) and a
  child that the server left before it was armed.
* `SetupFailsForCause`: where nothing is made to fail and the request can be met, every
  call gets what it needs. `ProgramIsConfined` and `ProgramDescriptors` say that later
  calls, `execve` included, undo nothing.
* `SuccessIsTrue`: what the client calls a success is about a program that came to its end
  and exited with 0. If no read failed it has the text of everything the program wrote,
  although newlines take two bytes, characters are split over reads, and the streams end
  separately; if one did, the text of a beginning (section 5). The text is what
  `from_utf8_lossy` makes of the bytes: a program that writes anything but UTF-8 gets U+FFFD
  in its place.
* `OnlyWholeRequestsRun` needs a server that is not root, as in the instance: for root
  the zeros that stand for missing ids are right ones, and a request cut in its last
  fields would run with an empty cgroup path, written relative to the working directory.
* `BrokenCallsRunNothing`, for the same reason, is stated of the instance and not part of
  `SpawnExchange`: with a server that is root, TLC finds a call that gets a child started
  with the first segments of its request, and is told that the server broke down, because
  the rest of the request made the server exit.

Violation runs show where a document or comment and the code disagree (section 5).

**Bounds.** *Two jobs* in `Sandbox`: all coupling between calls is through the
mutex, the FIFO, the one server and handler, and pids; a third job adds waiting in
`lock`, and the theorems cover any number. *Two pids* let two children be alive
or, with `recycle`, share a name. *Exits*: `MCExits` has one ending per branch
of `DecodeStatus`; where the ending does not matter there is one; all are covered by
`DecodeIsTrue`. *Events*: each run names its set.
*`Capacity = 2`* in `Bridge` is the least that takes a newline, and every script that
fills a stream fills it while the other is open. *Scripts*: nothing, more than one stream
holds, newlines, characters whole and broken, closing the output, never ending. *Pids* and *exits* of `Bridge` are the
boundaries of the conversion and of the status bits. *`MaxFd = 13`* holds the socket, the
seven descriptors of a request and two inherited ones in any place. *`Abis = {0, 2, 3}`*:
no Landlock, one that the probe accepts and the ruleset does not, one that will do.
*`Base = 16`, `Width = 2`*: a u32 of two digits can give lengths up to 255, more than any
request of the instance; `MCSegMaxes` cuts the longer request at every place from its
eighth unit on, the shorter in part, and at 70 neither. No counter is bounded: a call
happens once, and nothing in a state grows. *Symmetry* on jobs, pids and calls is used
only where all properties are safety properties (`ImplementsContract` is one: `RunContract`
has no fairness).

**Deadlock** is not checked in runs in which the system may really stop: a fault can
strand a call (the server dies while a child keeps the socket open; a blocked child
never gets its signal), and `Bridge`, `ChildSetup` and `SpawnStream` end when their
one job, child or exchange is over. There `AnswerArrives`,
`FailureIsReported` and `NoStandstill` say that they do not stop too early. `pty`,
`cancel`, `daemon` and `empty_file` check it: a finished system
stutters explicitly (`Terminated`, `Finished`).

**Fairness.** `FairSpec` of `Sandbox`: weak fairness of each call's own steps, of the
server's main loop, of the handler, and of the kernel's and `child_setup`'s steps of
each child. This is what scheduling gives: threads that can run do, timers
fire, an exiting process exits. `std::sync::Mutex` promises no order among those
who wait, and weak fairness per call assumes none: each call takes the mutex once, so
the others are through eventually. There is no fairness for
starting a call, for a program ending by itself (programs may loop for ever), for
faults, or for cancellation. The timer of the TTL is `TtlExpires`, enabled from
the start: no property depends on its length.
`Bridge`: weak fairness of `Progress`, all steps of all processes but timers and
failures; one condition for all is enough because no step can be repeated for ever. The
properties there hold without the help of either timer. `SpawnStream`,
`ChildSetup` and `Pty` state no fairness and no liveness.

## 4. What is proved

For every finite or infinite set of jobs, pids, exits, scripts, requests, tables of
descriptors and system calls:

| theorem | module | statement |
|---|---|---|
| `DecodeIsTrue` | `DataProofs` | decoding the kernel's status of an ending gives the reason for that ending |
| `TypeCorrect` | `SandboxProofs` | `Spec => []TypeOK` |
| `LimitsHold` | | `Spec => []LimitsBeforeCode` |
| `ResponsesMatch` | | `Spec => []ResponseMatches` |
| `ReportsAreTrue`, `ReportsMeanDeath` * | | a report is about a dead process, and a verdict is true |
| `SandboxImplementsContract` * | | `Spec => Contract!Spec` |
| `DirectoriesHaveProcess` | | a directory left behind is one a process was put into |
| `ReportsLeaveNothing` * | | a call that returned a report left no directory |
| `DescriptorsAreClosed` | `PtyProofs` | a finished call of `open_pty` holds no descriptor, except the leak of `TIOCSWINSZ` |
| `ReasonCorrect` | `BridgeProofs` | what `reap_child` reads in the file is how the child ended, for every pid and status |
| `BuffersCorrect` | | the handler's digits fit into its stack buffers, for every positive `i32` |
| `SuccessCorrect` | | a success is the end of a program with 0, and has the text of all it wrote, or of a beginning if a read failed |
| `DecisionCorrect` | `ChildSetupProofs` | the filter decides every system call as its policy, and no jump leaves it |
| `NamespaceCorrect` | | no call that makes or enters a user namespace is let through |
| `CauseCorrect` | `SetupProofs` | `Spec => []SetupFailsForCause` |
| `FailuresReported` | | `Spec => []FailureIsReported` |
| `Confined` | | `Spec => []ProgramIsConfined` |
| `DescriptorsCorrect` | | `Spec => []ProgramDescriptors` |
| `ScratchCorrect` | | `Spec => []ScratchRemoved` |
| `RoundTrip` | `CodecProofs` | where a buffer begins with `serialize(r)`, `deserialize` gives `r` |
| `SpawnCorrect` | `SpawnProofs` | `Spec => []SpawnInv`: where a call's request and response can be |
| `StandstillFree` | | `Spec => []NoStandstill` |
| `SpawnImplementsExchange` | | `Spec => Exchange!Spec` |
| `WholeRequestsRun` | | `Spec => [](Fits => OnlyWholeRequestsRun)` |
| `FittingRequestsServed` | | `Spec => [](Fits => ServerOutlivesRequests /\ BrokenCallsRunNothing)` |

Theorems with * assume that pids are not reused (`NoReuse`) and that pidfds can be
watched (`Watchable`). The others assume only what the modules say of their constants, and
hold under every fault, pid reuse included:

* `NameAssumption`, `CallAssumption`: the names for "none" are not jobs, pids or calls;
  `ExitsAssumption`, `EventAssumption`, `EventsAssumption`: endings and events are among
  those the modules name.
* `ChildPidsAssumption`: a pid is positive and fits an `i32`, as `pid_t` does.
* `ScriptsAssumption`: a script is a sequence of the items a program can do, and one that
  closes its output writes nothing afterwards: that is what closing means.
  Nothing is assumed of `Capacity`.
* `RequestsAssumption`, `AbisAssumption`, `MaxFdAssumption`: types. `InheritedAssumption`:
  the server's other descriptors lie above its socket, 4 (and `MaxFd` too). They may take up every number; then `Init` has
  no state, as `handle_one_request` fails before it clones.
* `DigitAssumption`, `ResponseAssumption`, `CutAssumption`: a number has at least one digit to
  a base of at least two, a `u32` can tell the length of a response (five) and of what the
  kernel queues at a time, and a segment is not empty. `RequestsAssumption` of `SpawnStream`
  types the fields of `SpawnRequest` as in the source: integers of their widths, C strings
  without NUL, and texts and lists no longer than a `u32` tells. The last is not in the types
  of the source, where `as u32` would cut the length off.
* `CallsAssumption`: a call is four natural numbers, so that the filter's theorems cover
  every architecture, number and argument.

**The argument.** None of the properties is inductive. `StructureInv`
(module `SandboxInvariant`) is:

* `ChannelInv`: whoever holds the mutex owns everything in flight. There is at most
  one request or one response on the socket or one request in the server, and it
  is the lock holder's. `ResponseMatches` needs this: without it a response in the
  queue could be anybody's.
* `ChildInv`: a child exists from `clone3` on, only past `lock`, and passes the
  barrier only when signalled.
* `HandleInv`: a handle is the call's own child and is there when it is used.
* `LimitsInv`: the server's place implies the limits written so far, a signalled
  child keeps them, and the directory of a live signalled child cannot be
  removed, because `pids.current` counts the child. `LimitsBeforeCode` follows with
  `ChildInv`.
* `ResultInv`: an answer exists exactly from the return on.

`FileInv` adds: pids are unique, a status file is about the reaped child whose pid
it bears, and what a supervisor has read is its own child's status. It needs
`NoReuse`. With reuse, a file that an earlier call left behind (after a
timeout, a cancellation, a setup failure) is taken for the new child's, and TLC
finds a report of an exit for a process that is still running; that is why `recycle` is not
in `sandbox_faults`.

Each invariant is preserved by each action (one proof step per action, grouped by
`RunStep`, `ServerStep`, `HandlerStep`, `ChildStep`, `Crash`), and follows from `Init`.

The refinement rests on both, and on `AnswerInv` (a call that has not returned has no
answer at all, as opposed to one that is tagged so). A step of a call is `Call`,
`Answer` or a stutter; of the server, `Spawn` or a stutter; of a child, `Die`,
`OutOfMemory` or a stutter; the handler and the server's death are not seen, since the
contract does not tell dead from reaped. `FileInv` is what makes `Decide` an `Answer`.

The last part of `SandboxProofs` adds `DirectoryInv` (no directory before the call;
after it, only in use) and one lemma on what can change a directory. `ReportsLeaveNothing` uses `ReportMeansDead`:
the process is dead, so that `rmdir` succeeds even if the wait of `Drop` does not.

`PtyProofs`: `DescriptorInv` says of every place in `open_pty` which descriptors
there are. That every call gets its own slave is not proved, because it does not hold on more
than one worker thread, see `pty_race`.

`DataProofs`, `CodecProofs` and the first half of `BridgeProofs` are about
recursive functions. The library's induction theorems take an operator as a parameter and
cannot be used here, so `DataProofs` states what they rest on without one: a set of
natural numbers has a least element, and a function whose value at a place is computed
from its value at one place of lower rank exists. From these follow what the digit loop,
the reversal and the parser compute, and that the parser undoes the loop: were there a
number that does not come back, the least of them, divided by ten, would not come back
either.

`CodecProofs` goes up in four steps. The digits of a number below `Limit(n)` are read back
(`NumberOfDigits`). A concatenation lies in a buffer piece by piece, one behind the other
(`FlattenLays`). Each pull therefore gives back what the push of the same kind wrote, and
moves on by its length (`PullPush`); for a list this is the invariant of a fold over its
items (`GatherAll`), whose count the buffer can back because every item has at least a
length. `RoundTrip` is the same fold over the sixteen fields, and the only place that needs
the two orders of `ipc.rs` to agree: a field moved in one of them alone breaks it.

`BridgeInv` has five parts. `StatusInv`: what the file holds and the bridge has read is the
text of this child's status. `ProgramInv`: how far the bridge and the child can be from
each other, and that a program that ends with 0 has come to the end of its script.
`StreamInv` is the one that makes a success complete: as long as no write can have been
refused (`Unrefused`), what the reader has and what the buffer holds make up, in order, what
the program has written so far, newlines doubled in the pty and only there; and an end of
output was only read when nobody held the stream and the buffer was empty. Once the readers are
closed a program may go on and lose what it writes; what is left then is `PartInv`: what was
collected is a beginning of what was written, now and later. `ReportInv`: a
report is made when the status was read and both streams have ended or a read failed
(`result`), and is what the client returns. `Lossy` needs no theory: the same bytes have the
same text.

`FilterInv` says where the machine is and what is therefore known of the call: at the
i-th instruction of the allow list, for instance, it is an x86-64 call, on none of the
lists before, not one of the first i - 1 allowed numbers, and the accumulator holds its
number. This last part is what a hand-counted jump could break, and is why `pc` and
`acc` are in one invariant. A verdict is that of `Policy`. The order of the program is part
of the theorem; of the list of allowed calls only this is used, that it
contains none of `clone3`, `unshare` and `setns` (`Harmless`).

`SetupInv` is about all 38 calls at once. `FactInv` gives, for every fact of `Kernel`,
when it holds: from the call that gives it to the call that takes it (`Giver`, `Lost`). The
lemma `Needs` then shows that at its place every call finds what it needs, and so that a
refusal has one of the causes in `SetupFailsForCause`. `TableInv` has the descriptors by
number, each until the call that replaces or closes it; that the four numbers of the context
are not 0 to 2 is what makes the three `dup2` harmless. `CallInv` connects the child's own calls
with `FilterInv`: `execve`, `write` and `exit_group` are allowed by the policy, therefore by
the filter, so that a failure after `load_filter` is reported like one before it
(`FailureInv`). `ProgramInv` collects what is left when `execve` succeeds; nothing changes it
later.

`SpawnInv` has a type invariant, `TurnInv` (the mutex: whoever is between its prefix and
its return holds it) and `StreamInv`: as long as the server lives, the request and the
response of the call that holds the mutex are in one place of five. Nobody has asked
(`Idle`); at most the prefix is out, and with what the server has of a prefix there is
enough to complete one (`Asking`); the descriptors are on their way, and before them lies
enough to complete any prefix the server is reading (`Queued`); the server has the
request (`Served`); the whole response is on its way and nothing else (`Answered`). The
two lengths are what is hard. A request that was cut leaves its rest on the stream, so
that the next prefix is read from the middle of an old payload: `Asking` and `Queued` say
that the server can never end up waiting for the rest of a prefix while the descriptors,
and with them its next step, are already behind it. That a read does not pass descriptors
(`RecvType`) and that the two reads of a response leave nothing (`ResponseRead`) are
lemmas about `Recv` for every queue. What the server makes of a request does not matter:
whatever `deserialize` gives, it answers or exits. `SpawnInv`, and the two invariants
below, were checked by TLC on the instance of `spawn_stream` before they were proved.

The refinement of `SpawnExchange` needs two more. `ExchangeInv`: a response on the stream is
the one for what became of the holder's request (`Told`: an error if nothing was started for
it, the call's own descriptors if something was), and nothing is on the stream when nobody
holds the mutex and somebody could still read. Then `ReceiveResponse` is `Answer`, `Start` is
`Grant`, `SendPrefix` is `Ask`, an error on a closed socket is `Fail`, and all else stutters
but the server's exit, which must be `BreakDown`: it must not happen where requests fit.
That is `FitInv`, which holds under `Fits` (no payload is longer than a segment). The
stream is empty, or holds exactly the length and the payload of the holder of the mutex, or
the server has that payload unchanged. By `RoundTrip` it then parses as the holder's
request, so that the server neither exits nor aborts nor starts anything else.

**Only model-checked.** Liveness (`RunReturns`, `AnsweredRunReturns`, `ZombiesReaped`,
`TtlKills`, `AnswerArrives`, `NothingRunsOn`) and the violation runs: liveness under
fairness is outside the prover. `OnlyWholeRequestsRun` and `BrokenCallsRunNothing` where a
request is cut: they are proved where every request fits a segment, and cannot be for any
request that does not. A text in a request can itself be a request in wire format, which a
cut at the right place lets the server read; for those of the instance TLC shows that no
cut does.

## 5. Where the code and its documents disagree

Each has a run with a counterexample:

* `cancel`: `lib.rs:97-99` says a dropped future terminates its child. `Drop` polls
  `pids.current` for five seconds and kills nothing.
* `daemon`: `config.rs:22` says the TTL bounds the process. Only `collect_output` is
  under the timeout; a program that closes its output outlives it.
* `empty_file`: `supervisor.rs:248-250` says the handler gets a second. A poll
  between its `open` and `write` fails at once.
* `pty_race`: `pty.rs:36-37` says the immediate copy makes `ptsname` safe. It does
  not between threads.
* `spawn_oversized`: `fork_server.rs:180` takes an unrecoverable protocol error to mean
  that the parent died. A request that the kernel cuts makes one while it lives: the rest
  of the request is read as the next length, and the server exits.
* `hardening`: `namespace.rs:234` speaks of `SECBIT_NOROOT`, but each constant has the
  value of another bit; `namespace.rs:188` speaks of `PR_SET_DUMPABLE`, which `execve` resets.

Noted while reading, without a run of their own:

* `README.md:227` says the child dies with the fork server. A child that has not reached
  `prctl` does not (the exceptions of `TtlKills` and `NothingRunsOn`).
* `README.md:231` has `kill` on the hard-kill list; `KILL_SYSCALLS`
  (`seccomp.rs:210-216`) does not, and the allow list contains it. The number of
  allowed calls it gives is also lower than the list's.
* `landlock.rs:3` requires Landlock ABI 2; `Truncate` under `HardRequirement` needs 3.
  With ABI 2 the probe passes and every run fails (`HardRequirement` in `ChildSetup`).
* `mount.rs:150-152` has the scratch directory removed; a setup that fails before
  `pivot_root` leaves it in `/tmp` (`ScratchRemoved` is about programs that run).
* `supervisor.rs:152-153` says that output is read until both streams end or the TTL expires.
  An error of a read ends it too and is dropped (`supervisor.rs:238`): the client gets a
  success without the rest of the output (`ReadFails`; `SuccessIsTrue` is worded for it).
* `error.rs` has no stage for `setrlimit`; its failure is reported as `Exec`.
* `SeccompViolation` is documented to carry the number of the system call; its value is
  always 0. `CgroupKillFallback` is never produced.
* `supervisor.rs:121` speaks of `waitid(P_PIDFD)`; the status comes by pid
  through the file. `supervisor.rs:298`: a pidfd that cannot be registered is not waited
  for at all (event `epoll`, assumption `Watchable`).
* `cgroup.rs:101-102` takes the cgroup to be empty already; after a failed write of
  the maps it holds the blocked child, which also keeps the client's pipe open, so that
  the client waits for its own timeout and never sees the error.
* The program inherits the fork server's end of the socket (`fork_server.rs:175`,
  `ProgramDescriptors`).

## 6. What is not modelled

* Wall time and the metrics of a report: read, never acted upon. The parsing of
  `cpu.stat` and `unique_id` in `cgroup.rs` likewise.
* Arithmetic on limits (`config.rs`, `bin/run.rs:105`, where megabytes are multiplied
  in 64 bits): a single expression of an input, without states.
* Options of mounts beyond read-only, private and masking, and the rights of each Landlock
  rule: what the kernel makes of them is the kernel's. That the rules' paths exist,
  and that a ruleset is in force, is modelled.
* Further processes of a sandboxed program. The child is process 1 of its own pid
  namespace (`namespace.rs:24`), so the kernel kills the rest before it becomes
  `zombie`; what a further process can do to the supervisor is hold the output (then
  the TTL decides, and `TtlExpires` is always possible) or be hit by the OOM killer in
  the child's place (`OomKill`).
* `agent.py`: it builds requests for a language model around the client.
* The death of the host process alone: for the children it is the end of the
  bridge in `Bridge`.
* Descriptors 0 to 2 of the host are taken to be open, which Rust's runtime sees to
  before `main`.

## 7. Plan

What is left, in order of importance:

1. An abstract specification of `Bridge` for the client (one answer, success is true), and
   the proof that `Bridge` implements it where scripts and capacities are arbitrary.
2. Two jobs in `Bridge` do not occur in this repository (a bridge runs one), but a host with
   many calls of `Runtime::run` shares the output of `Sandbox`'s server in the same way:
   `OutputHeld` could move there.
3. A condition on requests, weaker than `Fits`, under which a cut request provably never
   runs: that no rest of a payload, padded with zeros, parses with the server's ids.

## 8. Running it

In this directory, with TLC, the community modules and TLAPS 1.4.5 installed:

```
tlc -workers 2 -config MCSandboxFaults.cfg MCSandbox
tlapm SandboxProofs.tla
tlapm PtyProofs.tla
tlapm DataProofs.tla
tlapm BridgeProofs.tla
tlapm ChildSetupProofs.tla
tlapm SetupProofs.tla
tlapm CodecProofs.tla
tlapm SpawnProofs.tla
```

`PROJECT.json` lists every run with its module, configuration and expected outcome,
for every property a mutation of a definition that breaks it (the definitions marked
"A bug:" in the modules), and for every definition the lines it models.
