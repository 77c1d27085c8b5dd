--------------------------- MODULE ChildSetupProofs ---------------------------
(***************************************************************************)
(* Proofs about Seccomp and ChildSetup: what the filter decides about any  *)
(* system call, and how the setup of a child ends, for every request, set  *)
(* of inherited descriptors and kernel.                                    *)
(***************************************************************************)
EXTENDS ChildSetup, SequenceTheorems, TLAPS

Verdicts == {"KILL_PROCESS", "EACCES", "EPERM", "ENOSYS", "ALLOW"}

Instructions ==
    [op : {"load"}, field : {"arch", "nr", "lo"}]
      \cup [op : {"ret"}, value : Verdicts]
      \cup [op : {"jump"}, test : {"eq", "set"}, k : Nat, jt : Nat, jf : Nat]

(* Numbers of calls that open no user namespace by themselves. *)
Harmless == Nat \ {CLONE3, UNSHARE, SETNS}

LEMMA AllowedNumbers == ALLOWED_SYSCALL_NRS \in Seq(Harmless)
<1> DEFINE S == Seq(Harmless)
<1> USE DEF Harmless, CLONE3, UNSHARE, SETNS
<1>1. ProcessLifecycle \in S BY DEF ProcessLifecycle
<1>2. MemoryManagement \in S BY DEF MemoryManagement
<1>3. BasicFileIO \in S BY DEF BasicFileIO
<1>4. FileMetadata \in S BY DEF FileMetadata
<1>5. FileDescriptors \in S BY DEF FileDescriptors
<1>6. Directories \in S BY DEF Directories
<1>7. Signals \in S BY DEF Signals
<1>8. Threading \in S BY DEF Threading, CLONE
<1>9. Time \in S BY DEF Time
<1>10. Multiplexing \in S BY DEF Multiplexing
<1>11. Wait \in S BY DEF Wait
<1>12. Networking \in S BY DEF Networking, SOCKET
<1>13. Identity \in S BY DEF Identity
<1>14. ResourceLimits \in S BY DEF ResourceLimits
<1>15. Scheduling \in S BY DEF Scheduling
<1>16. Misc \in S BY DEF Misc
<1>17. \A s, t \in S : s \o t \in S
  BY ConcatProperties
<1> HIDE DEF S
<1>18. ProcessLifecycle \o MemoryManagement \o BasicFileIO \o FileMetadata \in S
  BY <1>1, <1>2, <1>3, <1>4, <1>17
<1>19. ProcessLifecycle \o MemoryManagement \o BasicFileIO \o FileMetadata
       \o FileDescriptors \o Directories \o Signals \o Threading \in S
  BY <1>5, <1>6, <1>7, <1>8, <1>17, <1>18
<1>20. ProcessLifecycle \o MemoryManagement \o BasicFileIO \o FileMetadata
       \o FileDescriptors \o Directories \o Signals \o Threading \o Time
       \o Multiplexing \o Wait \o Networking \in S
  BY <1>9, <1>10, <1>11, <1>12, <1>17, <1>19
<1>21. ALLOWED_SYSCALL_NRS \in S
  BY <1>13, <1>14, <1>15, <1>16, <1>17, <1>20 DEF ALLOWED_SYSCALL_NRS
<1> QED BY <1>21 DEF S

LEMMA InstructionTypes ==
    /\ \A k, jt, jf \in Nat : /\ Jeq(k, jt, jf) \in Instructions
                             /\ Jset(k, jt, jf) \in Instructions
    /\ \A v \in Verdicts : Ret(v) \in Instructions
    /\ \A field \in {"arch", "nr", "lo"} : Load(field) \in Instructions
  BY DEF Jeq, Jset, Jump, Ret, Load, Instructions

(* Where the rules of a list stand. *)
LEMMA RulesText ==
    ASSUME NEW nrs \in Seq(Nat), NEW v \in Verdicts
    PROVE  /\ Rules(nrs, v) \in Seq(Instructions)
           /\ Len(Rules(nrs, v)) = 2 * Len(nrs)
           /\ \A i \in 1..Len(nrs) :
                 /\ Rules(nrs, v)[2 * i - 1] = Jeq(nrs[i], 0, 1)
                 /\ Rules(nrs, v)[2 * i] = Ret(v)
<1> DEFINE n == Len(nrs)
<1>1. n \in Nat
  OBVIOUS
<1>2. ASSUME NEW i \in 1..(2 * n)
      PROVE  /\ i % 2 \in {0, 1} /\ (i % 2 = 1 => (i + 1) \div 2 \in 1..n)
  BY <1>1
<1>3. ASSUME NEW k \in Nat, NEW a \in Nat, NEW b \in Nat
      PROVE  Jeq(k, a, b) \in Instructions /\ Ret(v) \in Instructions
  BY InstructionTypes
<1>4. ASSUME NEW i \in 1..(2 * n) PROVE Rules(nrs, v)[i] \in Instructions
  <2>1. CASE i % 2 = 1
    <3>1. nrs[(i + 1) \div 2] \in Nat /\ 0 \in Nat /\ 1 \in Nat
      BY <1>2, <2>1
    <3>2. Rules(nrs, v)[i] = Jeq(nrs[(i + 1) \div 2], 0, 1)
      BY <2>1 DEF Rules
    <3> QED BY <1>3, <3>1, <3>2
  <2>2. CASE i % 2 # 1
    <3>1. Rules(nrs, v)[i] = Ret(v)
      BY <2>2 DEF Rules
    <3> QED BY <1>3, <3>1
  <2> QED BY <2>1, <2>2
<1>5. Rules(nrs, v) \in Seq(Instructions) /\ Len(Rules(nrs, v)) = 2 * n
  <2>1. Rules(nrs, v) = [i \in 1..(2 * n) |-> Rules(nrs, v)[i]] /\ 2 * n \in Nat
    BY <1>1 DEF Rules
  <2> HIDE DEF n
  <2> QED BY <1>4, <2>1
<1>6. ASSUME NEW i \in 1..n
      PROVE  /\ Rules(nrs, v)[2 * i - 1] = Jeq(nrs[i], 0, 1)
             /\ Rules(nrs, v)[2 * i] = Ret(v)
  <2>1. /\ 2 * i - 1 \in 1..(2 * n) /\ (2 * i - 1) % 2 = 1 /\ ((2 * i - 1) + 1) \div 2 = i
        /\ 2 * i \in 1..(2 * n) /\ (2 * i) % 2 # 1
    BY <1>1
  <2> QED BY <2>1 DEF Rules
<1> QED BY <1>5, <1>6

KillNrs == << 101, 310, 311, 246, 320 >>

(* The rules for the list of names are those for its numbers. *)
LEMMA KillText ==
    ASSUME NEW i \in 1..5
    PROVE  /\ KillRule(KILL_SYSCALLS[i]) = << Jeq(KillNrs[i], 0, 1), Ret("KILL_PROCESS") >>
           /\ libc[KILL_SYSCALLS[i]] = KillNrs[i]
  BY DEF KillRule, KILL_SYSCALLS, syscall_nr, libc, KillNrs

allowed == ALLOWED_SYSCALL_NRS

(* The program, instruction by instruction. *)
LEMMA ProgramText ==
    /\ Len(Program) = 27 + 2 * Len(allowed)
    /\ Program[1] = Load("arch") /\ Program[2] = Jeq(X86_64, 1, 0)
    /\ Program[3] = Ret("KILL_PROCESS") /\ Program[4] = Load("nr")
    /\ \A i \in 1..5 : /\ Program[3 + 2 * i] = Jeq(KillNrs[i], 0, 1)
                       /\ Program[4 + 2 * i] = Ret("KILL_PROCESS")
    /\ Program[15] = Jeq(SOCKET, 0, 4) /\ Program[16] = Load("lo")
    /\ Program[17] = Jeq(AF_UNIX, 1, 0) /\ Program[18] = Ret("EACCES")
    /\ Program[19] = Load("nr")
    /\ Program[20] = Jeq(CLONE, 0, 4) /\ Program[21] = Load("lo")
    /\ Program[22] = Jset(NEWUSER, 0, 1) /\ Program[23] = Ret("EPERM")
    /\ Program[24] = Load("nr")
    /\ Program[25] = Jeq(CLONE3, 0, 1) /\ Program[26] = Ret("ENOSYS")
    /\ \A i \in 1..Len(allowed) : /\ Program[25 + 2 * i] = Jeq(allowed[i], 0, 1)
                                  /\ Program[26 + 2 * i] = Ret("ALLOW")
    /\ Program[27 + 2 * Len(allowed)] = Ret("EPERM")
<1> DEFINE Kill(i) == KillRule(KILL_SYSCALLS[i])
           k(i)    == Jeq(KillNrs[i], 0, 1)
           kill    == Ret("KILL_PROCESS")
<1>1. /\ allowed \in Seq(Nat) /\ Len(allowed) \in Nat
      /\ AllowRules \in Seq(Instructions) /\ Len(AllowRules) = 2 * Len(allowed)
      /\ \A i \in 1..Len(allowed) : /\ AllowRules[2 * i - 1] = Jeq(allowed[i], 0, 1)
                                    /\ AllowRules[2 * i] = Ret("ALLOW")
  <2>1. allowed \in Seq(Nat)
    <3>1. Harmless \subseteq Nat
      BY DEF Harmless
    <3>2. allowed \in Seq(Harmless)
      BY AllowedNumbers DEF allowed
    <3>3. \A S, T : S \subseteq T => Seq(S) \subseteq Seq(T)
      OBVIOUS
    <3> QED BY <3>1, <3>2, <3>3
  <2>2. AllowRules = Rules(allowed, "ALLOW")
    BY Zenon DEF AllowRules, allowed
  <2>3. "ALLOW" \in Verdicts
    BY DEF Verdicts
  <2> QED BY <2>1, <2>2, <2>3, RulesText
<1>2. /\ Kill(1) = << k(1), kill >> /\ Kill(2) = << k(2), kill >> /\ Kill(3) = << k(3), kill >>
      /\ Kill(4) = << k(4), kill >> /\ Kill(5) = << k(5), kill >>
  BY KillText
<1> HIDE DEF Kill, k, kill
<1>3. KillRules = << k(1), kill >> \o << k(2), kill >> \o << k(3), kill >> \o << k(4), kill >>
                  \o << k(5), kill >>
  BY <1>2 DEF KillRules, Kill
<1>4. Program = << Load("arch"), Jeq(X86_64, 1, 0), kill, Load("nr") >>
        \o (<< k(1), kill >> \o << k(2), kill >> \o << k(3), kill >> \o << k(4), kill >>
            \o << k(5), kill >>)
        \o << Jeq(SOCKET, 0, 4), Load("lo"), Jeq(AF_UNIX, 1, 0), Ret("EACCES"), Load("nr") >>
        \o << Jeq(CLONE, 0, 4), Load("lo"), Jset(NEWUSER, 0, 1), Ret("EPERM"), Load("nr") >>
        \o << Jeq(CLONE3, 0, 1), Ret("ENOSYS") >>
        \o AllowRules \o << Ret("EPERM") >>
  BY <1>3 DEF Program, ArchRule, SocketRule, CloneRule, Clone3Rule, kill
<1>5. /\ Len(Program) = 27 + Len(AllowRules)
      /\ Program[1] = Load("arch") /\ Program[2] = Jeq(X86_64, 1, 0)
      /\ Program[3] = kill /\ Program[4] = Load("nr")
      /\ Program[5] = k(1) /\ Program[7] = k(2) /\ Program[9] = k(3) /\ Program[11] = k(4)
      /\ Program[13] = k(5)
      /\ Program[6] = kill /\ Program[8] = kill /\ Program[10] = kill /\ Program[12] = kill
      /\ Program[14] = kill
      /\ Program[15] = Jeq(SOCKET, 0, 4) /\ Program[16] = Load("lo")
      /\ Program[17] = Jeq(AF_UNIX, 1, 0) /\ Program[18] = Ret("EACCES")
      /\ Program[19] = Load("nr")
      /\ Program[20] = Jeq(CLONE, 0, 4) /\ Program[21] = Load("lo")
      /\ Program[22] = Jset(NEWUSER, 0, 1) /\ Program[23] = Ret("EPERM")
      /\ Program[24] = Load("nr")
      /\ Program[25] = Jeq(CLONE3, 0, 1) /\ Program[26] = Ret("ENOSYS")
      /\ \A i \in 1..Len(AllowRules) : Program[26 + i] = AllowRules[i]
      /\ Program[27 + Len(AllowRules)] = Ret("EPERM")
  <2>1. AllowRules \in Seq(Instructions)
    BY <1>1
  <2> QED BY <1>4, <2>1
<1>6. ASSUME NEW i \in 1..5 PROVE Program[3 + 2 * i] = k(i) /\ Program[4 + 2 * i] = kill
  <2>1. CASE i = 1
    <3>1. 3 + 2 * i = 5 /\ 4 + 2 * i = 6
      BY <2>1
    <3> QED BY <1>5, <2>1, <3>1, Zenon
  <2>2. CASE i = 2
    <3>1. 3 + 2 * i = 7 /\ 4 + 2 * i = 8
      BY <2>2
    <3> QED BY <1>5, <2>2, <3>1, Zenon
  <2>3. CASE i = 3
    <3>1. 3 + 2 * i = 9 /\ 4 + 2 * i = 10
      BY <2>3
    <3> QED BY <1>5, <2>3, <3>1, Zenon
  <2>4. CASE i = 4
    <3>1. 3 + 2 * i = 11 /\ 4 + 2 * i = 12
      BY <2>4
    <3> QED BY <1>5, <2>4, <3>1, Zenon
  <2>5. CASE i = 5
    <3>1. 3 + 2 * i = 13 /\ 4 + 2 * i = 14
      BY <2>5
    <3> QED BY <1>5, <2>5, <3>1, Zenon
  <2> QED BY <2>1, <2>2, <2>3, <2>4, <2>5
<1>7. ASSUME NEW i \in 1..Len(allowed)
      PROVE  Program[25 + 2 * i] = Jeq(allowed[i], 0, 1) /\ Program[26 + 2 * i] = Ret("ALLOW")
  <2>1. /\ 2 * i - 1 \in 1..Len(AllowRules) /\ 2 * i \in 1..Len(AllowRules)
        /\ 26 + (2 * i - 1) = 25 + 2 * i
    BY <1>1
  <2>2. Program[26 + (2 * i - 1)] = AllowRules[2 * i - 1] /\ Program[26 + 2 * i] = AllowRules[2 * i]
    BY <1>5, <2>1
  <2> QED BY <1>1, <2>1, <2>2
<1> QED BY <1>1, <1>5, <1>6, <1>7 DEF k, kill

-----------------------------------------------------------------------------
AnyCall == [arch : Nat, nr : Nat, lo : Nat, hi : Nat]

(* What is known of a call that has passed the rules up to some point. *)
NotKilled(c)    == c.arch = X86_64 /\ \A i \in 1..5 : c.nr # KillNrs[i]
PassedSocket(c) == NotKilled(c) /\ (c.nr = SOCKET => c.lo = AF_UNIX)
PassedClone(c)  == PassedSocket(c) /\ (c.nr = CLONE => ~BitSet(c.lo, NEWUSER))
PassedClone3(c) == PassedClone(c) /\ c.nr # CLONE3

LEMMA PolicyIs ==
    ASSUME NEW c \in AnyCall
    PROVE  /\ c.arch # X86_64 => Policy(c) = "KILL_PROCESS"
           /\ \A i \in 1..5 : c.nr = KillNrs[i] => Policy(c) = "KILL_PROCESS"
           /\ NotKilled(c) /\ c.nr = SOCKET /\ c.lo # AF_UNIX => Policy(c) = "EACCES"
           /\ NotKilled(c) /\ c.nr = CLONE /\ BitSet(c.lo, NEWUSER) => Policy(c) = "EPERM"
           /\ NotKilled(c) /\ c.nr = CLONE3 => Policy(c) = "ENOSYS"
           /\ PassedClone3(c) =>
                 Policy(c) = IF c.nr \in Range(allowed) THEN "ALLOW" ELSE "EPERM"
<1>1. {libc[n] : n \in Range(KILL_SYSCALLS)} = {KillNrs[i] : i \in 1..5}
  <2>1. Range(KILL_SYSCALLS) = {KILL_SYSCALLS[i] : i \in 1..5}
    BY DEF Range, KILL_SYSCALLS
  <2> QED BY <2>1, KillText
<1> DEFINE killed == c.nr \in {KillNrs[i] : i \in 1..5}
           bit    == BitSet(c.lo, NEWUSER)
<1>2. /\ c.nr = SOCKET => ~killed /\ c.nr # CLONE /\ c.nr # CLONE3
      /\ c.nr = CLONE => ~killed /\ c.nr # CLONE3
      /\ c.nr = CLONE3 => ~killed
      /\ (c.arch = X86_64 /\ ~killed) <=> NotKilled(c)
  BY DEF SOCKET, CLONE, CLONE3, KillNrs, NotKilled
<1>3. Policy(c) =
        CASE c.arch # X86_64 \/ killed                        -> "KILL_PROCESS"
          [] c.arch = X86_64 /\ c.nr = SOCKET /\ c.lo # AF_UNIX -> "EACCES"
          [] c.arch = X86_64 /\ c.nr = CLONE /\ bit             -> "EPERM"
          [] c.arch = X86_64 /\ c.nr = CLONE3                    -> "ENOSYS"
          [] OTHER -> IF c.nr \in Range(allowed) THEN "ALLOW" ELSE "EPERM"
  BY <1>1, Zenon DEF Policy, allowed
<1> HIDE DEF killed, bit
<1>4. c.arch # X86_64 \/ killed => Policy(c) = "KILL_PROCESS"
  BY <1>2, <1>3
<1>5. NotKilled(c) /\ c.nr = SOCKET /\ c.lo # AF_UNIX => Policy(c) = "EACCES"
  BY <1>2, <1>3
<1>6. NotKilled(c) /\ c.nr = CLONE /\ bit => Policy(c) = "EPERM"
  BY <1>2, <1>3
<1>7. NotKilled(c) /\ c.nr = CLONE3 => Policy(c) = "ENOSYS"
  BY <1>2, <1>3
<1>8. PassedClone3(c) => Policy(c) = IF c.nr \in Range(allowed) THEN "ALLOW" ELSE "EPERM"
  BY <1>2, <1>3 DEF PassedClone3, PassedClone, PassedSocket, bit
<1> QED BY <1>4, <1>5, <1>6, <1>7, <1>8 DEF killed, bit

(* What one step does, by the instruction. *)
LEMMA Stepping ==
    ASSUME FilterStep
    PROVE  /\ call' = call
           /\ \A f \in {"arch", "nr", "lo"} : Program[pc] = Load(f) =>
                 acc' = call[f] /\ pc' = pc + 1 /\ verdict' = verdict
           /\ \A k, jt, jf : Program[pc] = Jeq(k, jt, jf) =>
                 /\ pc' = pc + 1 + (IF acc = k THEN jt ELSE jf)
                 /\ acc' = acc /\ verdict' = verdict
           /\ \A k, jt, jf : Program[pc] = Jset(k, jt, jf) =>
                 /\ pc' = pc + 1 + (IF BitSet(acc, k) THEN jt ELSE jf)
                 /\ acc' = acc /\ verdict' = verdict
           /\ \A v : Program[pc] = Ret(v) => verdict' = v /\ pc' = pc
<1>1. call' = call /\ Program[pc].op \in {"load", "jump", "ret"}
  BY DEF FilterStep, ExecLoad, ExecJump, ExecRet, Fetch
<1>2. ASSUME NEW f \in {"arch", "nr", "lo"}, Program[pc] = Load(f)
      PROVE  acc' = call[f] /\ pc' = pc + 1 /\ verdict' = verdict
  <2>1. Program[pc].op = "load" /\ Program[pc].field = f
    BY <1>2 DEF Load
  <2> QED BY <2>1 DEF FilterStep, ExecLoad, ExecJump, ExecRet, Fetch
<1>3. ASSUME NEW k, NEW jt, NEW jf, Program[pc] = Jeq(k, jt, jf)
      PROVE  pc' = pc + 1 + (IF acc = k THEN jt ELSE jf) /\ acc' = acc /\ verdict' = verdict
  <2>1. /\ Program[pc].op = "jump" /\ Program[pc].test = "eq" /\ Program[pc].k = k
        /\ Program[pc].jt = jt /\ Program[pc].jf = jf
    BY <1>3 DEF Jeq, Jump
  <2> QED BY <2>1 DEF FilterStep, ExecLoad, ExecJump, ExecRet, Fetch
<1>4. ASSUME NEW k, NEW jt, NEW jf, Program[pc] = Jset(k, jt, jf)
      PROVE  pc' = pc + 1 + (IF BitSet(acc, k) THEN jt ELSE jf) /\ acc' = acc /\ verdict' = verdict
  <2>1. /\ Program[pc].op = "jump" /\ Program[pc].test = "set" /\ Program[pc].k = k
        /\ Program[pc].jt = jt /\ Program[pc].jf = jf
    BY <1>4 DEF Jset, Jump
  <2> QED BY <2>1 DEF FilterStep, ExecLoad, ExecJump, ExecRet, Fetch
<1>5. ASSUME NEW v, Program[pc] = Ret(v) PROVE verdict' = v /\ pc' = pc
  <2>1. Program[pc].op = "ret" /\ Program[pc].value = v
    BY <1>5 DEF Ret
  <2> QED BY <2>1 DEF FilterStep, ExecLoad, ExecJump, ExecRet, Fetch
<1> QED BY <1>1, <1>2, <1>3, <1>4, <1>5

(***************************************************************************)
(* Where the machine is, and what is known there of the call: the rules    *)
(* before this place did not apply to it, and the accumulator holds the    *)
(* number of the call wherever a rule compares it with one.                *)
(***************************************************************************)
InArchRule ==
    \/ pc = 1
    \/ pc = 2 /\ acc = call.arch
    \/ pc = 3 /\ call.arch # X86_64
    \/ pc = 4 /\ call.arch = X86_64

InKillRule(i) ==
    /\ call.arch = X86_64 /\ \A j \in 1..(i - 1) : call.nr # KillNrs[j]
    /\ \/ pc = 3 + 2 * i /\ acc = call.nr
       \/ pc = 4 + 2 * i /\ call.nr = KillNrs[i]

InSocketRule ==
    /\ NotKilled(call)
    /\ \/ pc = 15 /\ acc = call.nr
       \/ pc = 16 /\ call.nr = SOCKET
       \/ pc = 17 /\ call.nr = SOCKET /\ acc = call.lo
       \/ pc = 18 /\ call.nr = SOCKET /\ call.lo # AF_UNIX
       \/ pc = 19 /\ call.nr = SOCKET /\ call.lo = AF_UNIX

InCloneRule ==
    /\ PassedSocket(call)
    /\ \/ pc = 20 /\ acc = call.nr
       \/ pc = 21 /\ call.nr = CLONE
       \/ pc = 22 /\ call.nr = CLONE /\ acc = call.lo
       \/ pc = 23 /\ call.nr = CLONE /\ BitSet(call.lo, NEWUSER)
       \/ pc = 24 /\ call.nr = CLONE /\ ~BitSet(call.lo, NEWUSER)

InClone3Rule ==
    /\ PassedClone(call)
    /\ \/ pc = 25 /\ acc = call.nr
       \/ pc = 26 /\ call.nr = CLONE3

InAllowRule(i) ==
    /\ PassedClone3(call) /\ \A j \in 1..(i - 1) : call.nr # allowed[j]
    /\ \/ pc = 25 + 2 * i /\ acc = call.nr
       \/ pc = 26 + 2 * i /\ call.nr = allowed[i]

AtDefault ==
    /\ PassedClone3(call) /\ \A j \in 1..Len(allowed) : call.nr # allowed[j]
    /\ pc = 27 + 2 * Len(allowed)

Place ==
    \/ InArchRule
    \/ \E i \in 1..5 : InKillRule(i)
    \/ InSocketRule \/ InCloneRule \/ InClone3Rule
    \/ \E i \in 1..Len(allowed) : InAllowRule(i)
    \/ AtDefault

(* At the end of a step the machine is at such a place, or has decided. *)
Onward ==
    /\ call' = call
    /\ \/ Place' /\ verdict' = verdict
       \/ verdict' = Policy(call) /\ pc' = pc

(* The program has an end, and the list of allowed calls too. *)
LEMMA AllowedLength == Len(allowed) \in Nat /\ allowed \in Seq(Harmless)
  BY AllowedNumbers DEF allowed

LEMMA PlaceInProgram == Place => pc \in 1..Len(Program)
<1> SUFFICES ASSUME Place PROVE pc \in 1..(27 + 2 * Len(allowed))
  BY ProgramText
<1>1. CASE InArchRule \/ InSocketRule \/ InCloneRule \/ InClone3Rule
  BY <1>1, AllowedLength DEF InArchRule, InSocketRule, InCloneRule, InClone3Rule
<1>2. CASE \E i \in 1..5 : InKillRule(i)
  BY <1>2, AllowedLength DEF InKillRule
<1>3. CASE \E i \in 1..Len(allowed) : InAllowRule(i)
  BY <1>3, AllowedLength DEF InAllowRule
<1>4. CASE AtDefault
  BY <1>4, AllowedLength DEF AtDefault
<1> QED BY <1>1, <1>2, <1>3, <1>4 DEF Place

LEMMA ArchRuleStep ==
    ASSUME call \in AnyCall, InArchRule, FilterStep
    PROVE  Onward
<1>1. CASE pc = 1
  <2>1. call' = call /\ acc' = call.arch /\ pc' = 2 /\ verdict' = verdict
    BY <1>1, ProgramText, Stepping
  <2> QED BY <2>1 DEF Onward, Place, InArchRule
<1>2. CASE pc = 2 /\ acc = call.arch
  <2>1. call' = call /\ pc' = (IF call.arch = X86_64 THEN 4 ELSE 3) /\ verdict' = verdict
    BY SMTT(40), <1>2, ProgramText, Stepping
  <2> QED BY <2>1 DEF Onward, Place, InArchRule
<1>3. CASE pc = 3 /\ call.arch # X86_64
  <2>1. call' = call /\ pc' = pc /\ verdict' = "KILL_PROCESS"
    BY <1>3, ProgramText, Stepping
  <2> QED BY <1>3, <2>1, PolicyIs DEF Onward
<1>4. CASE pc = 4 /\ call.arch = X86_64
  <2>1. call' = call /\ acc' = call.nr /\ pc' = 5 /\ verdict' = verdict
    BY <1>4, ProgramText, Stepping
  <2>2. InKillRule(1)'
    BY <1>4, <2>1 DEF InKillRule
  <2> QED BY <2>1, <2>2 DEF Onward, Place
<1> QED BY <1>1, <1>2, <1>3, <1>4 DEF InArchRule

LEMMA KillRuleStep ==
    ASSUME call \in AnyCall, NEW i \in 1..5, InKillRule(i), FilterStep
    PROVE  Onward
<1>1. CASE pc = 3 + 2 * i /\ acc = call.nr
  <2>1. Program[pc] = Jeq(KillNrs[i], 0, 1)
    BY <1>1, ProgramText
  <2>2. /\ call' = call /\ acc' = call.nr /\ verdict' = verdict
        /\ pc' = pc + 1 + (IF call.nr = KillNrs[i] THEN 0 ELSE 1)
    BY <1>1, <2>1, Stepping
  <2>3. CASE call.nr = KillNrs[i]
    <3>1. pc' = 4 + 2 * i
      BY <1>1, <2>2, <2>3
    <3>2. InKillRule(i)'
      BY <2>2, <2>3, <3>1 DEF InKillRule
    <3> QED BY <2>2, <3>2 DEF Onward, Place
  <2>4. CASE call.nr # KillNrs[i]
    <3>1. pc' = 5 + 2 * i
      BY <1>1, <2>2, <2>4
    <3>2. \A j \in 1..i : call.nr # KillNrs[j]
      BY <2>4 DEF InKillRule
    <3>3. CASE i = 5
      <4>1. InSocketRule'
        BY <2>2, <3>1, <3>2, <3>3 DEF InSocketRule, NotKilled, InKillRule
      <4> QED BY <2>2, <4>1 DEF Onward, Place
    <3>4. CASE i # 5
      <4>1. i + 1 \in 1..5 /\ (i + 1) - 1 = i /\ pc' = 3 + 2 * (i + 1)
        BY <3>1, <3>4
      <4>2. InKillRule(i + 1)'
        BY <2>2, <3>2, <4>1 DEF InKillRule
      <4> QED BY <2>2, <4>1, <4>2 DEF Onward, Place
    <3> QED BY <3>3, <3>4
  <2> QED BY <2>3, <2>4
<1>2. CASE pc = 4 + 2 * i /\ call.nr = KillNrs[i]
  <2>1. Program[pc] = Ret("KILL_PROCESS")
    BY <1>2, ProgramText
  <2>2. call' = call /\ pc' = pc /\ verdict' = "KILL_PROCESS"
    BY <2>1, Stepping
  <2> QED BY <1>2, <2>2, PolicyIs DEF Onward
<1> QED BY <1>1, <1>2 DEF InKillRule

LEMMA SocketRuleStep ==
    ASSUME call \in AnyCall, InSocketRule, FilterStep
    PROVE  Onward
<1> USE DEF InSocketRule
<1>1. CASE pc = 15 /\ acc = call.nr
  <2>1. /\ call' = call /\ acc' = acc /\ verdict' = verdict
        /\ pc' = (IF call.nr = SOCKET THEN 16 ELSE 20)
    BY SMTT(40), <1>1, ProgramText, Stepping
  <2>2. CASE call.nr = SOCKET
    BY <2>1, <2>2 DEF Onward, Place
  <2>3. CASE call.nr # SOCKET
    <3>1. InCloneRule'
      BY <1>1, <2>1, <2>3 DEF InCloneRule, PassedSocket
    <3> QED BY <2>1, <3>1 DEF Onward, Place
  <2> QED BY <2>2, <2>3
<1>2. CASE pc = 16 /\ call.nr = SOCKET
  <2>1. call' = call /\ acc' = call.lo /\ pc' = 17 /\ verdict' = verdict
    BY <1>2, ProgramText, Stepping
  <2> QED BY <1>2, <2>1 DEF Onward, Place
<1>3. CASE pc = 17 /\ call.nr = SOCKET /\ acc = call.lo
  <2>1. call' = call /\ pc' = (IF call.lo = AF_UNIX THEN 19 ELSE 18) /\ verdict' = verdict
    BY SMTT(40), <1>3, ProgramText, Stepping
  <2> QED BY <1>3, <2>1 DEF Onward, Place
<1>4. CASE pc = 18 /\ call.nr = SOCKET /\ call.lo # AF_UNIX
  <2>1. call' = call /\ pc' = pc /\ verdict' = "EACCES"
    BY <1>4, ProgramText, Stepping
  <2> QED BY <1>4, <2>1, PolicyIs DEF Onward
<1>5. CASE pc = 19 /\ call.nr = SOCKET /\ call.lo = AF_UNIX
  <2>1. call' = call /\ acc' = call.nr /\ pc' = 20 /\ verdict' = verdict
    BY <1>5, ProgramText, Stepping
  <2>2. InCloneRule'
    BY <1>5, <2>1 DEF InCloneRule, PassedSocket
  <2> QED BY <2>1, <2>2 DEF Onward, Place
<1> QED BY <1>1, <1>2, <1>3, <1>4, <1>5

LEMMA CloneRuleStep ==
    ASSUME call \in AnyCall, InCloneRule, FilterStep
    PROVE  Onward
<1> USE DEF InCloneRule
<1>1. CASE pc = 20 /\ acc = call.nr
  <2>1. /\ call' = call /\ acc' = acc /\ verdict' = verdict
        /\ pc' = (IF call.nr = CLONE THEN 21 ELSE 25)
    BY SMTT(40), <1>1, ProgramText, Stepping
  <2>2. CASE call.nr = CLONE
    BY <2>1, <2>2 DEF Onward, Place
  <2>3. CASE call.nr # CLONE
    <3>1. InClone3Rule'
      BY <1>1, <2>1, <2>3 DEF InClone3Rule, PassedClone
    <3> QED BY <2>1, <3>1 DEF Onward, Place
  <2> QED BY <2>2, <2>3
<1>2. CASE pc = 21 /\ call.nr = CLONE
  <2>1. call' = call /\ acc' = call.lo /\ pc' = 22 /\ verdict' = verdict
    BY <1>2, ProgramText, Stepping
  <2> QED BY <1>2, <2>1 DEF Onward, Place
<1>3. CASE pc = 22 /\ call.nr = CLONE /\ acc = call.lo
  <2>1. call' = call /\ pc' = (IF BitSet(call.lo, NEWUSER) THEN 23 ELSE 24) /\ verdict' = verdict
    BY SMTT(40), <1>3, ProgramText, Stepping
  <2> QED BY <1>3, <2>1 DEF Onward, Place
<1>4. CASE pc = 23 /\ call.nr = CLONE /\ BitSet(call.lo, NEWUSER)
  <2>1. call' = call /\ pc' = pc /\ verdict' = "EPERM"
    BY <1>4, ProgramText, Stepping
  <2> QED BY <1>4, <2>1, PolicyIs DEF Onward, PassedSocket
<1>5. CASE pc = 24 /\ call.nr = CLONE /\ ~BitSet(call.lo, NEWUSER)
  <2>1. call' = call /\ acc' = call.nr /\ pc' = 25 /\ verdict' = verdict
    BY <1>5, ProgramText, Stepping
  <2>2. InClone3Rule'
    BY <1>5, <2>1 DEF InClone3Rule, PassedClone
  <2> QED BY <2>1, <2>2 DEF Onward, Place
<1> QED BY <1>1, <1>2, <1>3, <1>4, <1>5

(* After the rules for single calls, the list begins, or ends at once. *)
LEMMA AllowRuleBegins ==
    ASSUME call' = call, PassedClone3(call), NEW i \in 1..(Len(allowed) + 1),
           \A j \in 1..(i - 1) : call.nr # allowed[j],
           pc' = 25 + 2 * i, acc' = call.nr
    PROVE  Place'
<1>1. CASE i = Len(allowed) + 1
  <2>1. AtDefault'
    BY <1>1, AllowedLength DEF AtDefault
  <2> QED BY <2>1 DEF Place
<1>2. CASE i \in 1..Len(allowed)
  <2>1. InAllowRule(i)'
    BY <1>2 DEF InAllowRule
  <2> QED BY <1>2, <2>1 DEF Place
<1>3. i = Len(allowed) + 1 \/ i \in 1..Len(allowed)
  BY AllowedLength
<1> QED BY <1>1, <1>2, <1>3

LEMMA Clone3RuleStep ==
    ASSUME call \in AnyCall, InClone3Rule, FilterStep
    PROVE  Onward
<1> USE DEF InClone3Rule
<1>1. CASE pc = 25 /\ acc = call.nr
  <2>1. /\ call' = call /\ acc' = acc /\ verdict' = verdict
        /\ pc' = (IF call.nr = CLONE3 THEN 26 ELSE 27)
    BY SMTT(40), <1>1, ProgramText, Stepping
  <2>2. CASE call.nr = CLONE3
    BY <2>1, <2>2 DEF Onward, Place
  <2>3. CASE call.nr # CLONE3
    <3>1. PassedClone3(call) /\ pc' = 25 + 2 * 1 /\ 1 \in 1..(Len(allowed) + 1)
      BY <2>1, <2>3, AllowedLength DEF PassedClone3
    <3>2. \A j \in 1..(1 - 1) : call.nr # allowed[j]
      OBVIOUS
    <3>3. Place'
      BY <1>1, <2>1, <3>1, <3>2, AllowRuleBegins
    <3> QED BY <2>1, <3>3 DEF Onward
  <2> QED BY <2>2, <2>3
<1>2. CASE pc = 26 /\ call.nr = CLONE3
  <2>1. call' = call /\ pc' = pc /\ verdict' = "ENOSYS"
    BY <1>2, ProgramText, Stepping
  <2> QED BY <1>2, <2>1, PolicyIs DEF Onward, PassedClone, PassedSocket
<1> QED BY <1>1, <1>2

LEMMA AllowRuleStep ==
    ASSUME call \in AnyCall, NEW i \in 1..Len(allowed), InAllowRule(i), FilterStep
    PROVE  Onward
<1> USE DEF InAllowRule
<1>0. Len(allowed) \in Nat
  BY AllowedLength
<1>1. CASE pc = 25 + 2 * i /\ acc = call.nr
  <2>1. Program[pc] = Jeq(allowed[i], 0, 1)
    BY <1>1, ProgramText
  <2>2. /\ call' = call /\ acc' = call.nr /\ verdict' = verdict
        /\ pc' = pc + 1 + (IF call.nr = allowed[i] THEN 0 ELSE 1)
    BY <1>1, <2>1, Stepping
  <2>3. CASE call.nr = allowed[i]
    <3>1. pc' = 26 + 2 * i
      BY <1>0, <1>1, <2>2, <2>3
    <3>2. InAllowRule(i)'
      BY <2>2, <2>3, <3>1
    <3> QED BY <2>2, <3>2 DEF Onward, Place
  <2>4. CASE call.nr # allowed[i]
    <3>1. pc' = 25 + 2 * (i + 1) /\ i + 1 \in 1..(Len(allowed) + 1)
      BY SMTT(40), <1>0, <1>1, <2>2, <2>4
    <3>2. \A j \in 1..((i + 1) - 1) : call.nr # allowed[j]
      BY <1>0, <2>4
    <3>3. Place'
      BY <2>2, <3>1, <3>2, AllowRuleBegins
    <3> QED BY <2>2, <3>3 DEF Onward
  <2> QED BY <2>3, <2>4
<1>2. CASE pc = 26 + 2 * i /\ call.nr = allowed[i]
  <2>1. Program[pc] = Ret("ALLOW")
    BY <1>2, ProgramText
  <2>2. call' = call /\ pc' = pc /\ verdict' = "ALLOW"
    BY <2>1, Stepping
  <2>3. call.nr \in Range(allowed)
    BY <1>2, AllowedLength DEF Range
  <2> QED BY <2>2, <2>3, PolicyIs DEF Onward
<1> QED BY <1>1, <1>2

LEMMA DefaultStep ==
    ASSUME call \in AnyCall, AtDefault, FilterStep
    PROVE  Onward
<1>1. call' = call /\ pc' = pc /\ verdict' = "EPERM"
  BY ProgramText, Stepping DEF AtDefault
<1>2. call.nr \notin Range(allowed)
  BY AllowedLength DEF AtDefault, Range
<1> QED BY <1>1, <1>2, PolicyIs DEF Onward, AtDefault

-----------------------------------------------------------------------------
(* The inductive invariant of the filter. *)
FilterInv ==
    /\ call \in AnyCall
    /\ verdict \in {"idle", "none", "UNFILTERED"} \cup Verdicts
    /\ verdict \in {"idle", "UNFILTERED"} => pc = 1
    /\ verdict = "none" => Place
    /\ verdict \in Verdicts => pc \in 1..Len(Program) /\ verdict = Policy(call)

LEMMA PolicyType == ASSUME NEW c \in AnyCall PROVE Policy(c) \in Verdicts
<1>1. \/ c.arch # X86_64
      \/ \E i \in 1..5 : c.nr = KillNrs[i]
      \/ NotKilled(c)
  BY DEF NotKilled
<1>2. NotKilled(c) => \/ c.nr = SOCKET /\ c.lo # AF_UNIX
                      \/ c.nr = CLONE /\ BitSet(c.lo, NEWUSER)
                      \/ c.nr = CLONE3
                      \/ PassedClone3(c)
  BY DEF PassedClone3, PassedClone, PassedSocket
<1> QED BY <1>1, <1>2, PolicyIs DEF Verdicts

LEMMA NoCallType == NoCall \in AnyCall
  BY DEF NoCall, AnyCall

LEMMA FilterStepInv ==
    ASSUME FilterInv, FilterStep
    PROVE  FilterInv'
<1>1. verdict = "none" /\ Place /\ call \in AnyCall
  BY DEF FilterInv, FilterStep, ExecLoad, ExecJump, ExecRet, Fetch
<1>2. Onward
  BY <1>1, ArchRuleStep, KillRuleStep, SocketRuleStep, CloneRuleStep, Clone3RuleStep,
     AllowRuleStep, DefaultStep DEF Place
<1>3. CASE Place' /\ verdict' = verdict
  BY <1>1, <1>2, <1>3 DEF FilterInv, Onward, Verdicts
<1>4. CASE verdict' = Policy(call) /\ pc' = pc
  <2>1. verdict' \in Verdicts /\ pc \in 1..Len(Program) /\ call' = call
    BY <1>1, <1>2, <1>4, PolicyType, PlaceInProgram DEF Onward
  <2>2. verdict' # "none" /\ verdict' # "idle" /\ verdict' # "UNFILTERED"
    BY <2>1 DEF Verdicts
  <2> QED BY <1>1, <1>4, <2>1, <2>2 DEF FilterInv
<1> QED BY <1>2, <1>3, <1>4 DEF Onward

(* A call is made: the machine starts, or stands by if there is no filter. *)
LEMMA EnterInv ==
    ASSUME FilterInv, NEW c \in AnyCall, Enter(c)
    PROVE  FilterInv'
  BY DEF FilterInv, Enter, Place, InArchRule, Verdicts

LEMMA SystemCallInv ==
    ASSUME FilterInv, NEW nr \in Nat, SystemCall(nr)
    PROVE  FilterInv'
<1> DEFINE c == [arch |-> X86_64, nr |-> nr, lo |-> 0, hi |-> 0]
<1>1. c \in AnyCall
  BY DEF AnyCall, X86_64
<1>2. CASE Enter(c)
  BY <1>1, <1>2, EnterInv
<1>3. CASE verdict = "idle" /\ verdict' = "UNFILTERED" /\ call' = c /\ UNCHANGED <<pc, acc>>
  BY <1>1, <1>3 DEF FilterInv, Verdicts
<1> QED BY <1>2, <1>3 DEF SystemCall

LEMMA LeaveInv ==
    ASSUME FilterInv, Leave
    PROVE  FilterInv'
  BY NoCallType DEF FilterInv, Leave, Verdicts

LEMMA NextFilter == FilterInv /\ [Next]_vars => FilterInv'
<1> SUFFICES ASSUME FilterInv, [Next]_vars PROVE FilterInv'
  OBVIOUS
<1>1. CASE CallSucceeds \/ CallSkipped \/ CallIgnored \/ CallFails \/ UNCHANGED vars
  <2>1. UNCHANGED filterVars
    BY <1>1 DEF CallSucceeds, CallSkipped, CallIgnored, CallFails, vars
  <2> QED BY <2>1 DEF FilterInv, filterVars, Place, InArchRule, InKillRule, InSocketRule,
       InCloneRule, InClone3Rule, InAllowRule, AtDefault
<1>2. CASE ExecTarget \/ ReportError \/ ExitChild
  <2>1. EXECVE \in Nat /\ WRITE \in Nat /\ EXIT_GROUP \in Nat
    BY DEF EXECVE, WRITE, EXIT_GROUP
  <2> QED BY <1>2, <2>1, SystemCallInv DEF ExecTarget, ReportError, ExitChild
<1>3. CASE ExecReturns \/ ExecSucceeds \/ ReportWritten \/ Exits \/ ProgramGoesOn
  BY <1>3, LeaveInv DEF ExecReturns, ExecSucceeds, ReportWritten, Exits, ProgramGoesOn, DecidedAt
<1>4. CASE ProgramCalls
  BY <1>4, EnterInv, CallsAssumption DEF ProgramCalls, AnyCall
<1>5. CASE Filtered
  BY <1>5, FilterStepInv DEF Filtered
<1> QED BY <1>1, <1>2, <1>3, <1>4, <1>5 DEF Next

LEMMA InitFilter == Init => FilterInv
  BY NoCallType DEF Init, Standby, FilterInv, Verdicts

THEOREM FilterCorrect == Spec => []FilterInv
<1> QED BY InitFilter, NextFilter, PTL DEF Spec

(***************************************************************************)
(* For every system call: the program of the filter stays within its       *)
(* instructions and decides as the policy at the head of seccomp.rs says   *)
(* (load_filter).                                                          *)
(***************************************************************************)
THEOREM DecisionCorrect == Spec => []FilterDecides
<1>1. FilterInv => FilterDecides
  <2> SUFFICES ASSUME FilterInv
               PROVE  /\ pc \in 1..Len(Program)
                      /\ Decided /\ verdict # "UNFILTERED" => verdict = Policy(call)
    BY DEF FilterDecides
  <2>1. 1 \in 1..Len(Program)
    BY ProgramText, AllowedLength
  <2> QED BY <2>1, PlaceInProgram DEF FilterInv, Decided, Verdicts
<1> QED BY <1>1, FilterCorrect, PTL

(***************************************************************************)
(* For every system call: none that makes or enters a user namespace is    *)
(* allowed (the rules for clone and clone3, the list of allowed calls).    *)
(***************************************************************************)
THEOREM NamespaceCorrect == Spec => []NoNewUserNamespace
<1>1. FilterInv => NoNewUserNamespace
  <2> SUFFICES ASSUME FilterInv, verdict = "ALLOW"
               PROVE  /\ call.nr \notin {CLONE3, UNSHARE, SETNS}
                      /\ call.nr = CLONE => ~BitSet(call.lo, NEWUSER)
    BY DEF NoNewUserNamespace
  <2>1. Policy(call) = "ALLOW" /\ call \in AnyCall
    BY DEF FilterInv, Verdicts
  <2>2. PassedClone3(call)
    BY <2>1, PolicyIs DEF PassedClone3, PassedClone, PassedSocket, NotKilled
  <2>3. call.nr \in Range(allowed)
    BY <2>1, <2>2, PolicyIs
  <2>4. call.nr \in Harmless
    BY <2>3, AllowedLength DEF Range
  <2> QED BY <2>2, <2>4 DEF Harmless, PassedClone3, PassedClone
<1> QED BY <1>1, FilterCorrect, PTL

===============================================================================
