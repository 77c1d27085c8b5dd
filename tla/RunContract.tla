----------------------------- MODULE RunContract -----------------------------
(***************************************************************************)
(* What Runtime::run promises its caller, without saying how: each call    *)
(* gets one answer; the answer is either an error or a report; and a       *)
(* report is only given about a process that has already died, and tells   *)
(* the truth about how (lib.rs, Runtime::run; report.rs,                   *)
(* TerminationReason).                                                     *)
(***************************************************************************)
EXTENDS WaitStatus

CONSTANTS Jobs, Errors

VARIABLES
    call,     \* "ready", "active" or "returned"
    answer,   \* what the call returned
    proc,     \* "none", "live" or "dead": the sandboxed process
    fate,     \* how it ended
    oom       \* the calls in whose cgroup the kernel killed for memory

contractVars == <<call, answer, proc, fate, oom>>

NoFate   == [kind |-> "none", value |-> 0]
NoAnswer == Reason("Pending", 0)

Init ==
    /\ call   = [j \in Jobs |-> "ready"]
    /\ answer = [j \in Jobs |-> NoAnswer]
    /\ proc   = [j \in Jobs |-> "none"]
    /\ fate   = [j \in Jobs |-> NoFate]
    /\ oom    = {}

Call(j) ==
    /\ call[j] = "ready"
    /\ call' = [call EXCEPT ![j] = "active"]
    /\ UNCHANGED <<answer, proc, fate, oom>>

(* At most one process is ever made for a call, and only during the call. *)
Spawn(j) ==
    /\ call[j] = "active"
    /\ proc[j] = "none"
    /\ proc' = [proc EXCEPT ![j] = "live"]
    /\ UNCHANGED <<call, answer, fate, oom>>

OutOfMemory(j) ==
    /\ proc[j] = "live"
    /\ oom' = oom \cup {j}
    /\ UNCHANGED <<call, answer, proc, fate>>

Die(j) ==
    /\ proc[j] = "live"
    /\ proc' = [proc EXCEPT ![j] = "dead"]
    /\ \E e \in Endings : fate' = [fate EXCEPT ![j] = e]
    /\ UNCHANGED <<call, answer, oom>>

(* The answers a call may give, given what became of its process. *)
Answers(j) ==
    [tag : Errors \cup {"Cancelled"}, value : {0}]
      \cup IF proc[j] # "dead" THEN {}
           ELSE { Reason("TimedOut", -1),
                  IF j \in oom THEN Reason("OomKilled", 0) ELSE TrueReason(fate[j]) }

Answer(j) ==
    /\ call[j] # "returned"
    /\ call' = [call EXCEPT ![j] = "returned"]
    /\ \E r \in Answers(j) : answer' = [answer EXCEPT ![j] = r]
    /\ UNCHANGED <<proc, fate, oom>>

Next == \E j \in Jobs :
    Call(j) \/ Spawn(j) \/ OutOfMemory(j) \/ Die(j) \/ Answer(j)

Spec == Init /\ [][Next]_contractVars
==============================================================================
