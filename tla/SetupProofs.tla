------------------------------ MODULE SetupProofs ------------------------------
(***************************************************************************)
(* Proofs about the calls of ChildSetup: how the setup of a child ends,    *)
(* for every request, table of descriptors and kernel, and whatever call   *)
(* fails.  The filter is the subject of ChildSetupProofs.                  *)
(***************************************************************************)
EXTENDS ChildSetupProofs, FiniteSetTheorems

USE DEF FdNumbers, ServerSocket

(* The place of each call in child_setup. *)
Number ==
    [ read_eventfd |-> 1, pdeathsig |-> 2, mkdir_scratch |-> 3, make_private |-> 4,
      mount_tmpfs |-> 5, mkdirs |-> 6, mkdir_extra |-> 7, mount_devpts |-> 8,
      bind_devices |-> 9, bind_workspace |-> 10, bind_extra |-> 11,
      remount_extra |-> 12, mount_proc |-> 13, make_masks |-> 14, bind_masks |-> 15,
      mkdir_put_old |-> 16, pivot_root |-> 17, chdir |-> 18, rmdir_scratch |-> 19,
      umount_old |-> 20, rmdir_put_old |-> 21, probe_abi |-> 22, create_ruleset |-> 23,
      add_rules |-> 24, restrict_self |-> 25, setrlimit |-> 26, securebits |-> 27,
      capset |-> 28, dup2_stdin |-> 29, dup2_stdout |-> 30, dup2_stderr |-> 31,
      close_slave |-> 32, close_stderr |-> 33, close_sync |-> 34, no_new_privs |-> 35,
      dumpable |-> 36, load_filter |-> 37, execve |-> 38 ]

CallNames == DOMAIN Number

(* Call c is number i. *)
NumberedAs(i, c) == c \in CallNames /\ Number[c] = i /\ Steps[i].call = c

LEMMA Numbering ==
    /\ NumberedAs(1, "read_eventfd") /\ NumberedAs(2, "pdeathsig") /\ NumberedAs(3, "mkdir_scratch")
    /\ NumberedAs(4, "make_private") /\ NumberedAs(5, "mount_tmpfs") /\ NumberedAs(6, "mkdirs")
    /\ NumberedAs(7, "mkdir_extra") /\ NumberedAs(8, "mount_devpts") /\ NumberedAs(9, "bind_devices")
    /\ NumberedAs(10, "bind_workspace") /\ NumberedAs(11, "bind_extra") /\ NumberedAs(12, "remount_extra")
    /\ NumberedAs(13, "mount_proc") /\ NumberedAs(14, "make_masks") /\ NumberedAs(15, "bind_masks")
    /\ NumberedAs(16, "mkdir_put_old") /\ NumberedAs(17, "pivot_root") /\ NumberedAs(18, "chdir")
    /\ NumberedAs(19, "rmdir_scratch") /\ NumberedAs(20, "umount_old") /\ NumberedAs(21, "rmdir_put_old")
    /\ NumberedAs(22, "probe_abi") /\ NumberedAs(23, "create_ruleset") /\ NumberedAs(24, "add_rules")
    /\ NumberedAs(25, "restrict_self") /\ NumberedAs(26, "setrlimit") /\ NumberedAs(27, "securebits")
    /\ NumberedAs(28, "capset") /\ NumberedAs(29, "dup2_stdin") /\ NumberedAs(30, "dup2_stdout")
    /\ NumberedAs(31, "dup2_stderr") /\ NumberedAs(32, "close_slave") /\ NumberedAs(33, "close_stderr")
    /\ NumberedAs(34, "close_sync") /\ NumberedAs(35, "no_new_privs") /\ NumberedAs(36, "dumpable")
    /\ NumberedAs(37, "load_filter") /\ NumberedAs(38, "execve")
<1>1. /\ Steps[1].call = "read_eventfd" /\ Steps[2].call = "pdeathsig"
      /\ Steps[3].call = "mkdir_scratch" /\ Steps[4].call = "make_private"
      /\ Steps[5].call = "mount_tmpfs" /\ Steps[6].call = "mkdirs"
      /\ Steps[7].call = "mkdir_extra" /\ Steps[8].call = "mount_devpts"
      /\ Steps[9].call = "bind_devices" /\ Steps[10].call = "bind_workspace"
      /\ Steps[11].call = "bind_extra" /\ Steps[12].call = "remount_extra"
      /\ Steps[13].call = "mount_proc" /\ Steps[14].call = "make_masks"
      /\ Steps[15].call = "bind_masks" /\ Steps[16].call = "mkdir_put_old"
      /\ Steps[17].call = "pivot_root" /\ Steps[18].call = "chdir"
      /\ Steps[19].call = "rmdir_scratch" /\ Steps[20].call = "umount_old"
      /\ Steps[21].call = "rmdir_put_old" /\ Steps[22].call = "probe_abi"
      /\ Steps[23].call = "create_ruleset" /\ Steps[24].call = "add_rules"
      /\ Steps[25].call = "restrict_self" /\ Steps[26].call = "setrlimit"
      /\ Steps[27].call = "securebits" /\ Steps[28].call = "capset"
      /\ Steps[29].call = "dup2_stdin" /\ Steps[30].call = "dup2_stdout"
      /\ Steps[31].call = "dup2_stderr" /\ Steps[32].call = "close_slave"
      /\ Steps[33].call = "close_stderr" /\ Steps[34].call = "close_sync"
      /\ Steps[35].call = "no_new_privs" /\ Steps[36].call = "dumpable"
      /\ Steps[37].call = "load_filter" /\ Steps[38].call = "execve"
  BY DEF Steps, Calling, create_scratch_root, MountTree, mask_proc_paths, EnterRoot,
     apply_ruleset, apply_rlimits, drop_capabilities, AttachStdio
<1>2. /\ Number["read_eventfd"] = 1 /\ Number["pdeathsig"] = 2
      /\ Number["mkdir_scratch"] = 3 /\ Number["make_private"] = 4
      /\ Number["mount_tmpfs"] = 5 /\ Number["mkdirs"] = 6
      /\ Number["mkdir_extra"] = 7 /\ Number["mount_devpts"] = 8
      /\ Number["bind_devices"] = 9 /\ Number["bind_workspace"] = 10
      /\ Number["bind_extra"] = 11 /\ Number["remount_extra"] = 12
      /\ Number["mount_proc"] = 13 /\ Number["make_masks"] = 14
      /\ Number["bind_masks"] = 15 /\ Number["mkdir_put_old"] = 16
      /\ Number["pivot_root"] = 17 /\ Number["chdir"] = 18
      /\ Number["rmdir_scratch"] = 19 /\ Number["umount_old"] = 20
      /\ Number["rmdir_put_old"] = 21 /\ Number["probe_abi"] = 22
      /\ Number["create_ruleset"] = 23 /\ Number["add_rules"] = 24
      /\ Number["restrict_self"] = 25 /\ Number["setrlimit"] = 26
      /\ Number["securebits"] = 27 /\ Number["capset"] = 28
      /\ Number["dup2_stdin"] = 29 /\ Number["dup2_stdout"] = 30
      /\ Number["dup2_stderr"] = 31 /\ Number["close_slave"] = 32
      /\ Number["close_stderr"] = 33 /\ Number["close_sync"] = 34
      /\ Number["no_new_privs"] = 35 /\ Number["dumpable"] = 36
      /\ Number["load_filter"] = 37 /\ Number["execve"] = 38
  BY DEF Number
<1>3. CallNames =
        { "read_eventfd", "pdeathsig", "mkdir_scratch", "make_private", "mount_tmpfs",
        "mkdirs", "mkdir_extra", "mount_devpts", "bind_devices", "bind_workspace",
        "bind_extra", "remount_extra", "mount_proc", "make_masks", "bind_masks",
        "mkdir_put_old", "pivot_root", "chdir", "rmdir_scratch", "umount_old",
        "rmdir_put_old", "probe_abi", "create_ruleset", "add_rules", "restrict_self",
        "setrlimit", "securebits", "capset", "dup2_stdin", "dup2_stdout", "dup2_stderr",
        "close_slave", "close_stderr", "close_sync", "no_new_privs", "dumpable",
        "load_filter", "execve" }
  BY DEF CallNames, Number
<1> QED BY <1>1, <1>2, <1>3, SMTT(40) DEF NumberedAs

LEMMA Numbers ==
    /\ DOMAIN Kernel = CallNames
    /\ Len(Steps) = 38
    /\ \A c \in CallNames : Number[c] \in 1..38 /\ Steps[Number[c]].call = c
    /\ \A i \in 1..38 : Steps[i].call \in CallNames /\ Number[Steps[i].call] = i
<1>1. DOMAIN Kernel = CallNames
  BY DEF Kernel, Number, CallNames
<1>2. Len(Steps) = 38
  BY DEF Steps, Calling, create_scratch_root, MountTree, mask_proc_paths, EnterRoot,
     apply_ruleset, apply_rlimits, drop_capabilities, AttachStdio
<1>3. CallNames =
        { "read_eventfd", "pdeathsig", "mkdir_scratch", "make_private", "mount_tmpfs",
        "mkdirs", "mkdir_extra", "mount_devpts", "bind_devices", "bind_workspace",
        "bind_extra", "remount_extra", "mount_proc", "make_masks", "bind_masks",
        "mkdir_put_old", "pivot_root", "chdir", "rmdir_scratch", "umount_old",
        "rmdir_put_old", "probe_abi", "create_ruleset", "add_rules", "restrict_self",
        "setrlimit", "securebits", "capset", "dup2_stdin", "dup2_stdout", "dup2_stderr",
        "close_slave", "close_stderr", "close_sync", "no_new_privs", "dumpable",
        "load_filter", "execve" }
  BY DEF CallNames, Number
<1>4. ASSUME NEW c \in CallNames PROVE \E i \in 1..38 : NumberedAs(i, c)
  BY <1>3, Numbering
<1>5. ASSUME NEW i \in 1..38 PROVE \E c \in CallNames : NumberedAs(i, c)
  BY SMTT(40), Numbering DEF NumberedAs
<1> QED BY <1>1, <1>2, <1>4, <1>5 DEF NumberedAs

LEMMA Stages ==
    /\ \A i \in 1..38 : Steps[i].stage \in DOMAIN ChildStage
    /\ \A s \in DOMAIN ChildStage : StageOf(ChildStage[s]) = s
<1>1. ASSUME NEW i \in 1..38 PROVE Steps[i].stage \in DOMAIN ChildStage
  BY DEF ChildStage, Steps, Calling, create_scratch_root, MountTree, mask_proc_paths, EnterRoot,
     apply_ruleset, apply_rlimits, drop_capabilities, AttachStdio
<1>2. ASSUME NEW s \in DOMAIN ChildStage, NEW t \in DOMAIN ChildStage,
             ChildStage[s] = ChildStage[t]
      PROVE  s = t
  BY <1>2 DEF ChildStage
<1> QED BY <1>1, <1>2 DEF StageOf

(* Facts that some call takes away. *)
Lost == {"masked", "host_root", "scratch", "old_root", "put_old", "ruleset", "unlocked",
         "caps", "keep_caps", "undumpable"}

(* Which calls give and take the facts that do not just stay. *)
LEMMA Effects ==
    ASSUME NEW c \in CallNames
    PROVE  /\ Kernel[c].takes \subseteq Lost
           /\ "caps" \notin Kernel[c].gives /\ ("caps" \in Kernel[c].takes <=> c = "capset")
           /\ "unlocked" \notin Kernel[c].gives
           /\ "unlocked" \in Kernel[c].takes <=> c = "restrict_self"
           /\ "host_root" \notin Kernel[c].gives
           /\ "host_root" \in Kernel[c].takes <=> c = "pivot_root"
           /\ "scratch" \in Kernel[c].gives <=> c = "mkdir_scratch"
           /\ "scratch" \in Kernel[c].takes <=> c = "rmdir_scratch"
           /\ "masked" \in Kernel[c].gives <=> c = "bind_masks"
           /\ "masked" \in Kernel[c].takes <=> c = "mount_proc"
           /\ "put_old" \in Kernel[c].gives <=> c = "mkdir_put_old"
           /\ "put_old" \in Kernel[c].takes <=> c = "rmdir_put_old"
           /\ "old_root" \in Kernel[c].gives <=> c = "pivot_root"
           /\ "old_root" \in Kernel[c].takes <=> c = "umount_old"
           /\ "ruleset" \in Kernel[c].gives <=> c = "create_ruleset"
           /\ "ruleset" \in Kernel[c].takes <=> c = "restrict_self"
           /\ "filter" \in Kernel[c].gives <=> c = "load_filter"
           /\ "program" \in Kernel[c].gives <=> c = "execve"
<1> DEFINE Takers == {"mount_proc", "pivot_root", "rmdir_scratch", "umount_old",
                      "rmdir_put_old", "restrict_self", "capset", "execve"}
           Givers == {"mkdir_scratch", "bind_masks", "mkdir_put_old", "pivot_root",
                      "create_ruleset", "load_filter", "execve"}
           Special == {"caps", "unlocked", "host_root", "scratch", "masked", "put_old",
                       "old_root", "ruleset", "filter", "program"}
<1>1. c \notin Takers => Kernel[c].takes = {}
  BY SMTT(30) DEF CallNames, Number, Kernel, Effect, Gives
<1>2. /\ Kernel["mount_proc"].takes = {"masked"}
      /\ Kernel["pivot_root"].takes = {"host_root"}
      /\ Kernel["rmdir_scratch"].takes = {"scratch"}
      /\ Kernel["umount_old"].takes = {"old_root"}
      /\ Kernel["rmdir_put_old"].takes = {"put_old"}
      /\ Kernel["restrict_self"].takes = {"ruleset", "unlocked"}
      /\ Kernel["capset"].takes = {"caps"}
      /\ Kernel["execve"].takes = {"keep_caps", "undumpable"}
  BY DEF Kernel, Effect, Gives
<1>3. c \notin Givers => Kernel[c].gives \cap Special = {}
  <2>1. CASE c = "securebits"
    BY <2>1 DEF Kernel, Gives, Effect, secbits, SecureBit, SECBIT_NOROOT, SECBIT_NOROOT_LOCKED,
       SECBIT_NO_SETUID_FIXUP, SECBIT_NO_SETUID_FIXUP_LOCKED, SECBIT_KEEP_CAPS_LOCKED
  <2>2. CASE c # "securebits"
    BY <2>2, SMTT(30) DEF CallNames, Number, Kernel, Effect, Gives
  <2> QED BY <2>1, <2>2
<1>4. /\ Kernel["mkdir_scratch"].gives = {"scratch"}
      /\ Kernel["bind_masks"].gives = {"masked"}
      /\ Kernel["mkdir_put_old"].gives = {"put_old"}
      /\ Kernel["pivot_root"].gives = {"new_root", "old_root"}
      /\ Kernel["create_ruleset"].gives = {"ruleset"} /\ Kernel["load_filter"].gives = {"filter"}
      /\ Kernel["execve"].gives = {"program"}
  BY DEF Kernel, Effect, Gives
<1>5. CASE c \in Takers
  <2>1. CASE c \in Givers
    BY <1>2, <1>4, <1>5, <2>1 DEF Lost
  <2>2. CASE c \notin Givers
    BY <1>2, <1>3, <1>5, <2>2 DEF Lost
  <2> QED BY <2>1, <2>2
<1>6. CASE c \notin Takers
  <2>1. CASE c \in Givers
    BY <1>1, <1>4, <1>6, <2>1 DEF Lost
  <2>2. CASE c \notin Givers
    BY <1>1, <1>3, <1>6, <2>2 DEF Lost
  <2> QED BY <2>1, <2>2
<1> QED BY <1>5, <1>6

(* The facts that stay once a call has given them, and this call. *)
Giver ==
    [ mapped |-> "read_eventfd", armed |-> "pdeathsig", private |-> "make_private",
      tmpfs |-> "mount_tmpfs", dirs |-> "mkdirs", extra_dir |-> "mkdir_extra",
      devpts |-> "mount_devpts", devices |-> "bind_devices", workspace |-> "bind_workspace",
      extra |-> "bind_extra", extra_ro |-> "remount_extra", proc |-> "mount_proc",
      masks |-> "make_masks", new_root |-> "pivot_root", cwd_is_root |-> "chdir",
      rules |-> "add_rules", landlock |-> "restrict_self", limits |-> "setrlimit",
      nnp |-> "restrict_self" ]

LEMMA Givers ==
    ASSUME NEW f \in DOMAIN Giver
    PROVE  Giver[f] \in CallNames /\ f \in Kernel[Giver[f]].gives /\ f \notin Lost
  BY DEF Giver, CallNames, Number, Kernel, Effect, Gives, Lost

(* The calls that the kernel never refuses. *)
LEMMA NeverRefused ==
    ASSUME NEW c \in Unchecked \ {"rmdir_scratch"}, fault # c
    PROVE  Granted(c)
<1>1. Kernel[c].needs = {}
  BY DEF Unchecked, Kernel, Gives, Effect
<1>2. c \notin DOMAIN Dup2
  BY DEF Unchecked, Dup2
<1> QED BY <1>1, <1>2 DEF Granted, Unchecked

-----------------------------------------------------------------------------
(* Whether the child has come past the call c. *)
Passed(c) == Number[c] < step

(***************************************************************************)
(* The inductive invariant.  Places in the program, and what is fixed.     *)
(***************************************************************************)
PlaceInv ==
    /\ request \in Requests /\ abi \in Abis
    /\ fault \notin Unchecked \ {"rmdir_scratch"}
    /\ step \in 1..38
    /\ at \in {"setup", "failed", "exec", "write", "exit", "exiting", "program", "call", "gone"}
    /\ at = "exec" => step = 38
    /\ at \in {"program", "call"} => "program" \in has
    /\ at \in {"setup", "failed", "exec", "write", "exit", "exiting"} => "program" \notin has

(* The facts that hold before the program begins. *)
FactInv ==
    "program" \notin has =>
        /\ \A f \in DOMAIN Giver :
              Passed(Giver[f]) /\ (Giver[f] \in ForExtraMounts => request.extra) => f \in has
        /\ "caps" \in has <=> ~Passed("capset")
        /\ "unlocked" \in has <=> ~Passed("restrict_self")
        /\ "host_root" \in has <=> ~Passed("pivot_root")
        /\ "scratch" \in has <=> /\ Passed("mkdir_scratch")
                                 /\ Passed("rmdir_scratch") => fault = "rmdir_scratch"
        /\ "masked" \in has <=> Passed("bind_masks")
        /\ "put_old" \in has <=> Passed("mkdir_put_old") /\ ~Passed("rmdir_put_old")
        /\ "old_root" \in has <=> Passed("pivot_root") /\ ~Passed("umount_old")
        /\ "ruleset" \in has <=> Passed("create_ruleset") /\ ~Passed("restrict_self")
        /\ "filter" \in has <=> Passed("load_filter")
        /\ limit = IF Passed("setrlimit") THEN request.nofile ELSE MaxFd + 1

(* The table of descriptors before the program begins. *)
Context == {ctx.slave, ctx.stderr, ctx.sync, ctx.error}

Closed == {n \in FdNumbers : fds[n] = "closed"}

TableInv ==
    "program" \notin has =>
        /\ ctx.slave \in FdNumbers /\ ctx.stderr \in FdNumbers
        /\ ctx.sync \in FdNumbers /\ ctx.error \in FdNumbers
        /\ ctx.slave \notin {ctx.stderr, ctx.sync, ctx.error}
        /\ ctx.stderr \notin {ctx.sync, ctx.error} /\ ctx.sync # ctx.error
        /\ fds = [n \in 0..MaxFd |-> fds[n]]
        /\ fds[0] = IF Passed("dup2_stdin") THEN "slave" ELSE "host"
        /\ fds[1] = IF Passed("dup2_stdout") THEN "slave" ELSE "host"
        /\ fds[2] = IF Passed("dup2_stderr") THEN "stderr" ELSE "host"
        /\ fds[4] = "socket"
        /\ fds[ctx.slave] = IF Passed("close_slave") THEN "closed" ELSE "slave"
        /\ fds[ctx.stderr] = IF Passed("close_stderr") THEN "closed" ELSE "stderr"
        /\ fds[ctx.sync] = IF Passed("close_sync") THEN "closed" ELSE "sync"
        /\ fds[ctx.error] = "error"
        /\ cloexec \subseteq FdNumbers /\ ctx.error \in cloexec
        /\ \A n \in FdNumbers \ Context : fds[n] = "closed" \/ n \in cloexec
        /\ \E m, n \in Closed : m # n

(* The system calls that go through the filter before the program begins. *)
CallInv ==
    /\ at \in {"exec", "write", "exiting"} => call.arch = X86_64
    /\ at = "exec" => call.nr = EXECVE
    /\ at = "write" => call.nr = WRITE
    /\ at = "exiting" => call.nr = EXIT_GROUP

(* What is known of a setup that has failed. *)
FailureInv ==
    /\ Failed => fault = Now.call \/ ~Satisfiable
    /\ at \in {"exit", "exiting"} => report = Now.stage
    /\ at = "gone" /\ "program" \notin has => report = Now.stage

(* What a program has found at its beginning. *)
ProgramInv ==
    "program" \in has =>
        /\ {"new_root", "cwd_is_root", "masked", "rules", "landlock", "limits", "nnp",
            "filter", "armed"} \subseteq has
        /\ request.extra => "extra_ro" \in has
        /\ {"host_root", "old_root", "put_old", "caps", "unlocked"} \cap has = {}
        /\ "scratch" \in has => fault = "rmdir_scratch"
        /\ fds = [n \in 0..MaxFd |-> CASE n < 2 -> "slave"
                                       [] n = 2 -> "stderr"
                                       [] n = 4 -> "socket"
                                       [] OTHER -> "closed"]

SetupInv == PlaceInv /\ FactInv /\ TableInv /\ CallInv /\ FailureInv /\ ProgramInv

-----------------------------------------------------------------------------
LEMMA TakeOne ==
    ASSUME NEW S, IsFiniteSet(S), NEW k \in Nat, Cardinality(S) >= k + 1, NEW a
    PROVE  IsFiniteSet(S \ {a}) /\ Cardinality(S \ {a}) >= k
<1>1. Cardinality(S) \in Nat
  BY FS_CardinalityType
<1>2. /\ IsFiniteSet(S \ {a})
      /\ Cardinality(S \ {a}) = IF a \in S THEN Cardinality(S) - 1 ELSE Cardinality(S)
  BY FS_RemoveElement
<1> HIDE DEF IsFiniteSet
<1> QED BY <1>1, <1>2

LEMMA TakeTwo ==
    ASSUME NEW S, IsFiniteSet(S), Cardinality(S) >= 2
    PROVE  \E m, n \in S : m # n
<1>1. PICK m : m \in S
  BY FS_EmptySet
<1>2. PICK n : n \in S \ {m}
  <2>1. IsFiniteSet(S \ {m}) /\ Cardinality(S \ {m}) >= 1
    BY TakeOne, 1 + 1 = 2
  <2> QED BY <2>1, FS_EmptySet
<1> QED BY <1>1, <1>2

LEMMA TwoMembers ==
    ASSUME NEW S, IsFiniteSet(S), NEW m \in S, NEW n \in S, m # n
    PROVE  Cardinality(S) >= 2
<1>1. IsFiniteSet({m}) /\ Cardinality({m}) = 1
  BY FS_Singleton
<1>2. IsFiniteSet({m} \cup {n}) /\ Cardinality({m} \cup {n}) = 2
  <2>1. n \notin {m} /\ 1 + 1 = 2
    OBVIOUS
  <2>2. Cardinality({m} \cup {n}) = Cardinality({m}) + 1
    BY <1>1, <2>1, FS_AddElement
  <2> QED BY SMTT(40), <1>1, <2>1, <2>2, FS_AddElement
<1>3. {m} \cup {n} \in SUBSET S
  OBVIOUS
<1>4. Cardinality({m} \cup {n}) <= Cardinality(S) /\ Cardinality(S) \in Nat
  BY <1>3, FS_Subset, FS_CardinalityType
<1> QED BY <1>2, <1>4

(* Ranks among the members of a set of numbers tell them apart. *)
LEMMA Ranks ==
    ASSUME NEW S, IsFiniteSet(S), S \subseteq Int,
           NEW m \in S, NEW n \in S, m < n
    PROVE  /\ Cardinality({i \in S : i <= n}) \in Nat
           /\ Cardinality({i \in S : i <= m}) < Cardinality({i \in S : i <= n})
<1> DEFINE M == {i \in S : i <= m}
           N == {i \in S : i <= n}
<1>1. N \in SUBSET S /\ n \in N /\ n \notin M
  OBVIOUS
<1>2. ASSUME NEW i \in S, i <= m PROVE i <= n
  BY <1>2
<1>3. M \in SUBSET N
  BY <1>2
<1>4. IsFiniteSet(N)
  BY <1>1, FS_Subset
<1>5. Cardinality(M) <= Cardinality(N) /\ Cardinality(M) # Cardinality(N)
  BY <1>1, <1>3, <1>4, FS_Subset
<1>6. IsFiniteSet(M) /\ Cardinality(M) \in Nat /\ Cardinality(N) \in Nat
  BY <1>3, <1>4, FS_Subset, FS_CardinalityType
<1> QED BY <1>5, <1>6

-----------------------------------------------------------------------------
(* The descriptors that handle_one_request leaves to the child. *)
LEMMA InitTable == Init => TableInv
<1> SUFFICES ASSUME Init PROVE TableInv
  OBVIOUS
<1>1. PICK others \in Inherited :
        /\ ctx \in Contexts(ServerTable(others))
        /\ fds = [n \in 0..MaxFd |-> IF ServerTable(others)[n] \in Dropped THEN "closed"
                                     ELSE ServerTable(others)[n]]
        /\ cloexec = others \cup {ctx.sync, ctx.error}
  BY DEF Init
<1> DEFINE table   == ServerTable(others)
           free    == FdNumbers \ others
           rank(n) == Cardinality({m \in free : m <= n})
<1>2. others \subseteq FdNumbers /\ MaxFd \in Nat /\ step = 1
  BY InheritedAssumption, MaxFdAssumption DEF Init
<1>3. IsFiniteSet(free) /\ free \subseteq Int
  <2>1. IsFiniteSet(3..MaxFd)
    BY <1>2, FS_Interval
  <2>2. free \in SUBSET (3..MaxFd) /\ free \subseteq Int
    OBVIOUS
  <2> QED BY <2>1, <2>2, FS_Subset, Zenon
<1>4. \A m, n \in free : m < n => rank(m) < rank(n)
  BY <1>3, Ranks
<1>5. \A n \in free : rank(n) \in Nat \ {0}
  <2> SUFFICES ASSUME NEW n \in free PROVE rank(n) \in Nat \ {0}
    OBVIOUS
  <2> DEFINE S == {m \in free : m <= n}
  <2>1. S \in SUBSET free /\ n \in S
    BY <1>3
  <2>2. IsFiniteSet(S)
    BY <1>3, <2>1, FS_Subset
  <2> QED BY <2>1, <2>2, FS_CardinalityType, FS_EmptySet
<1>6. /\ table = [n \in 0..MaxFd |-> table[n]]
      /\ \A n \in 0..2 : n \in 0..MaxFd => table[n] = "host"
      /\ 4 \in 0..MaxFd => table[4] = "socket"
      /\ \A n \in others : table[n] = "inherited"
      /\ \A n \in free : /\ rank(n) <= 7 => table[n] = Opened[rank(n)]
                         /\ rank(n) > 7 => table[n] = "closed"
  <2> DEFINE T(n) == CASE n < 3 -> "host"
                       [] n = 4 -> "socket"
                       [] n \in others -> "inherited"
                       [] n \in free /\ rank(n) <= Len(Opened) -> Opened[rank(n)]
                       [] n \in free /\ rank(n) > Len(Opened) -> "closed"
  <2>1. table = [n \in 0..MaxFd |-> T(n)] /\ Len(Opened) = 7
    BY DEF ServerTable, Opened
  <2> HIDE DEF rank, free
  <2>2. /\ \A n \in 0..2 : T(n) = "host"
        /\ T(4) = "socket"
    BY <1>2 DEF free
  <2>3. ASSUME NEW n \in others PROVE T(n) = "inherited"
    BY <1>2 DEF free
  <2>4. ASSUME NEW n \in free
        PROVE  /\ rank(n) <= 7 => T(n) = Opened[rank(n)]
               /\ rank(n) > 7 => T(n) = "closed"
    <3>1. n \notin others /\ ~(n < 3) /\ n # 4 /\ rank(n) \in Nat
      BY <1>2, <1>5 DEF free
    <3> QED BY <2>1, <3>1
  <2>5. \A n \in others \cup free : n \in 0..MaxFd
    BY <1>2 DEF free
  <2> HIDE DEF T, table
  <2> QED BY <2>1, <2>2, <2>3, <2>4, <2>5
<1> HIDE DEF table, rank, free
<1>7. \A name \in {"slave", "sync", "error", "stderr"} :
         ctx[name] \in FdNumbers /\ table[ctx[name]] = name
  BY <1>1 DEF Contexts, table
<1>8. /\ \A n \in FdNumbers : n \in others \/ n \in free
      /\ \A n \in free : n \in FdNumbers
  BY DEF free
<1>9. fds = [n \in 0..MaxFd |-> IF table[n] \in Dropped THEN "closed" ELSE table[n]]
  BY <1>1 DEF table
<1>10. \A n \in FdNumbers : n \in 0..MaxFd
  BY <1>2
<1>11. \A name \in {"slave", "sync", "error", "stderr"} : fds[ctx[name]] = name
  BY <1>7, <1>9, <1>10 DEF Dropped
<1>12. /\ ctx.slave \in FdNumbers /\ ctx.stderr \in FdNumbers
       /\ ctx.sync \in FdNumbers /\ ctx.error \in FdNumbers
       /\ fds[ctx.slave] = "slave" /\ fds[ctx.stderr] = "stderr"
       /\ fds[ctx.sync] = "sync" /\ fds[ctx.error] = "error"
  BY <1>7, <1>11
<1>13. \A name \in {"slave", "sync", "error", "stderr"} :
          ctx[name] \in free /\ rank(ctx[name]) <= 7 /\ Opened[rank(ctx[name])] = name
  <2> SUFFICES ASSUME NEW name \in {"slave", "sync", "error", "stderr"}
               PROVE  /\ ctx[name] \in free /\ rank(ctx[name]) <= 7
                      /\ Opened[rank(ctx[name])] = name
    OBVIOUS
  <2> DEFINE n == ctx[name]
  <2>1. n \in FdNumbers /\ table[n] = name
    BY <1>7
  <2> HIDE DEF n
  <2>2. n \in free
    BY <1>6, <1>8, <2>1
  <2>3. rank(n) \in Nat /\ ~(rank(n) > 7)
    BY <1>5, <1>6, <2>1, <2>2
  <2>4. rank(n) <= 7
    BY <2>3
  <2>5. Opened[rank(n)] = name
    BY <1>6, <2>1, <2>2, <2>4
  <2> QED BY <2>2, <2>4, <2>5 DEF n
<1>14. ASSUME NEW n \in free, rank(n) <= 7, n \notin Context PROVE fds[n] = "closed"
  <2>1. rank(n) \in 1..7 /\ table[n] = Opened[rank(n)] /\ n \in 0..MaxFd
    <3>1. rank(n) \in Nat \ {0}
      BY <1>5
    <3>2. rank(n) \in 1..7
      BY <1>14, <3>1
    <3> QED BY <1>6, <1>8, <1>10, <1>14, <3>2
  <2>2. ASSUME NEW name \in {"slave", "sync", "error", "stderr"}, Opened[rank(n)] = name
        PROVE  FALSE
    <3>1. ctx[name] \in free /\ rank(ctx[name]) \in 1..7 /\ Opened[rank(ctx[name])] = name
      BY <1>5, <1>13
    <3>2. \A i, j \in 1..7 : Opened[i] = Opened[j] => i = j
      BY DEF Opened
    <3>3. rank(ctx[name]) = rank(n)
      BY <2>1, <2>2, <3>1, <3>2
    <3>4. ctx[name] = n
      <4>1. ctx[name] \in Int /\ n \in Int
        BY <1>3, <3>1, Zenon
      <4>2. rank(n) \in Int
        BY <2>1
      <4> QED BY <1>4, <3>1, <3>3, <4>1, <4>2
    <3>5. ctx[name] \in Context
      BY DEF Context
    <3> QED BY <1>14, <3>4, <3>5
  <2>3. Opened[rank(n)] \in Dropped
    <3>1. \A i \in 1..7 : Opened[i] \in Dropped \cup {"slave", "sync", "error", "stderr"}
      BY DEF Opened, Dropped
    <3> QED BY <2>1, <2>2, <3>1
  <2> QED BY <1>9, <2>1, <2>3
<1>15. ASSUME NEW n \in FdNumbers \ Context PROVE fds[n] = "closed" \/ n \in cloexec
  <2>1. CASE n \in others
    BY <1>1, <2>1
  <2>2. CASE n \in free /\ rank(n) <= 7
    BY <1>14, <1>15, <2>2
  <2>3. CASE n \in free /\ ~(rank(n) <= 7)
    <3>1. rank(n) > 7
      BY <1>5, <2>3
    <3> QED BY <1>6, <1>9, <1>10, <2>3, <3>1
  <2> QED BY <1>8, <1>15, <2>1, <2>2, <2>3
<1>16. \E m, n \in Closed : m # n
  <2> DEFINE S == {m \in free : m <= ctx.stderr}
  <2>1. Cardinality(S) >= 6 /\ IsFiniteSet(S)
    <3>1. rank(ctx.stderr) = 7
      <4>1. rank(ctx.stderr) \in 1..7 /\ Opened[rank(ctx.stderr)] = "stderr"
        BY <1>5, <1>13
      <4>2. \A i \in 1..7 : Opened[i] = "stderr" => i = 7
        BY DEF Opened
      <4> QED BY <4>1, <4>2
    <3>2. Cardinality(S) = 7 /\ S \in SUBSET free
      BY <3>1 DEF rank
    <3>3. IsFiniteSet(S)
      BY <1>3, <3>2, FS_Subset
    <3> QED BY <3>2, <3>3
  <2>2. ASSUME NEW m \in S PROVE rank(m) <= 7
    <3>1. m \in free /\ m \in Int /\ ctx.stderr \in free /\ ctx.stderr \in Int
      BY <1>3, <1>13
    <3>2. rank(m) <= rank(ctx.stderr) /\ rank(ctx.stderr) <= 7 /\ rank(m) \in Int
          /\ rank(ctx.stderr) \in Int
      BY <1>4, <1>5, <1>13, <3>1
    <3> QED BY <3>2
  <2> HIDE DEF S
  <2> DEFINE T1 == S \ {ctx.slave}
             T2 == T1 \ {ctx.stderr}
             T3 == T2 \ {ctx.sync}
             T4 == T3 \ {ctx.error}
  <2>a. IsFiniteSet(T1) /\ Cardinality(T1) >= 4 + 1
    BY <2>1, TakeOne, 5 + 1 = 6, 4 + 1 = 5
  <2>b. IsFiniteSet(T2) /\ Cardinality(T2) >= 3 + 1
    BY <2>a, TakeOne, 3 + 1 = 4
  <2>c. IsFiniteSet(T3) /\ Cardinality(T3) >= 2 + 1
    BY <2>b, TakeOne, 2 + 1 = 3
  <2>d. IsFiniteSet(T4) /\ Cardinality(T4) >= 2
    BY <2>c, TakeOne
  <2>3. PICK m, n \in T4 : m # n
    BY <2>d, TakeTwo
  <2>4. m \in free /\ n \in free /\ m \notin Context /\ n \notin Context
    BY <2>3 DEF S, Context
  <2>5. m \in Closed /\ n \in Closed
    BY <1>8, <1>14, <2>2, <2>3, <2>4 DEF Closed, S
  <2> QED BY <2>3, <2>5
<1>17. cloexec \subseteq FdNumbers /\ ctx.error \in cloexec
  BY <1>1, <1>2, <1>12
<1>18. \A n \in 0..2 : n \in 0..MaxFd /\ fds[n] = "host"
  <2>1. 0 \in 0..MaxFd /\ 1 \in 0..MaxFd /\ 2 \in 0..MaxFd
    BY <1>2, <1>12
  <2> QED BY <1>6, <1>9, <2>1 DEF Dropped
<1>19. fds[4] = "socket"
  <2>1. 4 \in 0..MaxFd
    BY <1>2, <1>12
  <2> QED BY <1>6, <1>9, <2>1 DEF Dropped
<1>20. \A c \in CallNames : ~Passed(c)
  BY <1>2, Numbers DEF Passed
<1>21. {"dup2_stdin", "dup2_stdout", "dup2_stderr", "close_slave", "close_stderr", "close_sync"}
          \subseteq CallNames
  BY DEF CallNames, Number
<1>22. fds[0] = "host" /\ fds[1] = "host" /\ fds[2] = "host"
  BY <1>18
<1>23. fds = [n \in 0..MaxFd |-> fds[n]]
  BY <1>9
<1>24. /\ ctx.slave \notin {ctx.stderr, ctx.sync, ctx.error}
       /\ ctx.stderr \notin {ctx.sync, ctx.error} /\ ctx.sync # ctx.error
  BY <1>12
<1> QED BY <1>12, <1>15, <1>16, <1>17, <1>19, <1>20, <1>21, <1>22, <1>23, <1>24 DEF TableInv

LEMMA InitSetup == Init => SetupInv
<1> SUFFICES ASSUME Init PROVE SetupInv
  OBVIOUS
<1>1. step = 1 /\ at = "setup" /\ has = {"caps", "unlocked", "host_root"} /\ limit = MaxFd + 1
      /\ fault \notin Unchecked \ {"rmdir_scratch"} /\ request \in Requests /\ abi \in Abis
  <2>1. "none" \notin Unchecked
    BY DEF Unchecked
  <2> QED BY <2>1 DEF Init
<1>2. PlaceInv /\ CallInv /\ FailureInv /\ ProgramInv
  BY <1>1 DEF PlaceInv, CallInv, FailureInv, Failed, ProgramInv
<1>3. \A c \in CallNames : ~Passed(c)
  BY <1>1, Numbers DEF Passed
<1>4. \A f \in DOMAIN Giver : ~Passed(Giver[f])
  BY <1>3, Givers
<1>5. {"capset", "restrict_self", "pivot_root", "mkdir_scratch", "bind_masks", "mkdir_put_old",
       "create_ruleset", "load_filter", "setrlimit"} \subseteq CallNames
  BY DEF CallNames, Number
<1>6. FactInv
  BY <1>1, <1>3, <1>4, <1>5 DEF FactInv
<1> QED BY <1>2, <1>6, InitTable DEF SetupInv

-----------------------------------------------------------------------------
(* The places that the order of two calls depends on. *)
LEMMA Order ==
    /\ Number["mkdir_scratch"] = 3 /\ Number["mount_proc"] = 13 /\ Number["bind_masks"] = 15
    /\ Number["mkdir_put_old"] = 16 /\ Number["pivot_root"] = 17
    /\ Number["rmdir_scratch"] = 19 /\ Number["umount_old"] = 20
    /\ Number["rmdir_put_old"] = 21 /\ Number["create_ruleset"] = 23
    /\ Number["restrict_self"] = 25 /\ Number["setrlimit"] = 26 /\ Number["capset"] = 28
    /\ Number["dup2_stdin"] = 29 /\ Number["dup2_stdout"] = 30 /\ Number["dup2_stderr"] = 31
    /\ Number["close_slave"] = 32 /\ Number["close_stderr"] = 33
    /\ Number["close_sync"] = 34 /\ Number["load_filter"] = 37 /\ Number["execve"] = 38
    /\ {"mkdir_scratch", "mount_proc", "bind_masks", "mkdir_put_old", "pivot_root",
        "rmdir_scratch", "umount_old", "rmdir_put_old", "create_ruleset", "restrict_self",
        "setrlimit", "capset", "dup2_stdin", "dup2_stdout", "dup2_stderr", "close_slave",
        "close_stderr", "close_sync", "load_filter", "execve"} \subseteq CallNames
  BY DEF Number, CallNames

(* The call to be made next, and the calls passed when it has been. *)
LEMMA Advance ==
    ASSUME step \in 1..38
    PROVE  /\ Now.call \in CallNames /\ Number[Now.call] = step
           /\ \A c \in CallNames : c = Now.call <=> Number[c] = step
           /\ step' = step + 1 =>
                 \A c \in CallNames : Passed(c)' <=> Passed(c) \/ c = Now.call
<1>1. Now.call \in CallNames /\ Number[Now.call] = step
  BY Numbers DEF Now
<1>2. ASSUME NEW c \in CallNames PROVE c = Now.call <=> Number[c] = step
  BY <1>1, Numbers DEF Now
<1>3. ASSUME NEW c \in CallNames, step' = step + 1
      PROVE  Number[c] < step' <=> Number[c] < step \/ Number[c] = step
  BY <1>3, Numbers
<1> QED BY <1>1, <1>2, <1>3 DEF Passed

(* A call whose result nobody looks at fails only if it is made to. *)
LEMMA Ignored ==
    ASSUME SetupInv, CallIgnored
    PROVE  Now.call = "rmdir_scratch" /\ fault = "rmdir_scratch"
<1>1. Now.call = "rmdir_scratch"
  BY NeverRefused DEF CallIgnored, SetupInv, PlaceInv
<1>2. "old_root" \in has
  BY <1>1, Advance, Order DEF SetupInv, PlaceInv, FactInv, Passed, CallIgnored, InSetup
<1>3. Kernel["rmdir_scratch"].needs = {"old_root"} /\ "rmdir_scratch" \notin DOMAIN Dup2
  BY DEF Kernel, Effect, Dup2
<1> QED BY <1>1, <1>2, <1>3 DEF CallIgnored, Granted

LEMMA FactsAdvance ==
    ASSUME SetupInv, CallSucceeds \/ CallSkipped \/ CallIgnored
    PROVE  FactInv'
<1> DEFINE N == Now.call
<1>1. /\ "program" \notin has /\ step' = step + 1 /\ step \in 1..38
      /\ request' = request /\ fault' = fault
  BY DEF SetupInv, PlaceInv, CallSucceeds, CallSkipped, CallIgnored, InSetup, fixedVars
<1>2. /\ N \in CallNames /\ Number[N] = step
      /\ \A c \in CallNames : Passed(c)' <=> Passed(c) \/ c = N
  BY <1>1, Advance
<1>3. /\ \A f \in DOMAIN Giver :
            Passed(Giver[f]) /\ (Giver[f] \in ForExtraMounts => request.extra) => f \in has
      /\ "caps" \in has <=> ~Passed("capset")
      /\ "unlocked" \in has <=> ~Passed("restrict_self")
      /\ "host_root" \in has <=> ~Passed("pivot_root")
      /\ "scratch" \in has <=> /\ Passed("mkdir_scratch")
                               /\ Passed("rmdir_scratch") => fault = "rmdir_scratch"
      /\ "masked" \in has <=> Passed("bind_masks")
      /\ "put_old" \in has <=> Passed("mkdir_put_old") /\ ~Passed("rmdir_put_old")
      /\ "old_root" \in has <=> Passed("pivot_root") /\ ~Passed("umount_old")
      /\ "ruleset" \in has <=> Passed("create_ruleset") /\ ~Passed("restrict_self")
      /\ "filter" \in has <=> Passed("load_filter")
      /\ limit = IF Passed("setrlimit") THEN request.nofile ELSE MaxFd + 1
  BY <1>1 DEF SetupInv, FactInv
<1> HIDE DEF N
<1>4. CASE CallSucceeds
  <2>1. /\ has' = (has \ Kernel[N].takes) \cup Kernel[N].gives
        /\ limit' = IF N = "setrlimit" THEN request.nofile ELSE limit
        /\ N = "rmdir_scratch" => fault # "rmdir_scratch"
    BY <1>4 DEF CallSucceeds, N, Granted
  <2>2. ASSUME NEW f \in DOMAIN Giver, Passed(Giver[f])',
               Giver[f] \in ForExtraMounts => request.extra
        PROVE  f \in has'
    BY <1>2, <1>3, <2>1, <2>2, Effects, Givers
  <2>3. /\ "caps" \in has' <=> ~Passed("capset")'
        /\ "unlocked" \in has' <=> ~Passed("restrict_self")'
        /\ "host_root" \in has' <=> ~Passed("pivot_root")'
        /\ "filter" \in has' <=> Passed("load_filter")'
    BY <1>2, <1>3, <2>1, Effects, Order DEF Lost
  <2>4. "scratch" \in has' <=> /\ Passed("mkdir_scratch")'
                               /\ Passed("rmdir_scratch")' => fault = "rmdir_scratch"
    BY <1>2, <1>3, <2>1, Effects, Order DEF Passed
  <2>5. "masked" \in has' <=> Passed("bind_masks")'
    BY <1>2, <1>3, <2>1, Effects, Order DEF Passed
  <2>6. "put_old" \in has' <=> Passed("mkdir_put_old")' /\ ~Passed("rmdir_put_old")'
    BY <1>2, <1>3, <2>1, Effects, Order DEF Passed
  <2>7. "old_root" \in has' <=> Passed("pivot_root")' /\ ~Passed("umount_old")'
    BY <1>2, <1>3, <2>1, Effects, Order DEF Passed
  <2>8. "ruleset" \in has' <=> Passed("create_ruleset")' /\ ~Passed("restrict_self")'
    BY <1>2, <1>3, <2>1, Effects, Order DEF Passed
  <2>9. limit' = IF Passed("setrlimit")' THEN request.nofile ELSE MaxFd + 1
    BY <1>2, <1>3, <2>1, Order
  <2> QED BY <1>1, <2>2, <2>3, <2>4, <2>5, <2>6, <2>7, <2>8, <2>9 DEF FactInv
<1>5. CASE CallSkipped
  <2>1. /\ has' = has /\ limit' = limit /\ N \in ForExtraMounts /\ ~request.extra
    BY <1>5 DEF CallSkipped, Skipped, N, processVars
  <2>2. \A c \in CallNames : c \notin ForExtraMounts => (Passed(c)' <=> Passed(c))
    BY <1>2, <2>1
  <2>3. ASSUME NEW f \in DOMAIN Giver, Passed(Giver[f])',
               Giver[f] \in ForExtraMounts => request.extra
        PROVE  f \in has'
    BY <1>3, <2>1, <2>2, <2>3, Givers
  <2>4. {"capset", "restrict_self", "pivot_root", "load_filter", "mkdir_scratch", "rmdir_scratch",
         "bind_masks", "mkdir_put_old", "rmdir_put_old", "umount_old", "create_ruleset",
         "setrlimit"} \subseteq CallNames \ ForExtraMounts
    BY Order DEF ForExtraMounts
  <2> QED BY <1>1, <1>3, <2>1, <2>2, <2>3, <2>4 DEF FactInv
<1>6. CASE CallIgnored
  <2>1. /\ has' = has /\ limit' = limit /\ N = "rmdir_scratch" /\ fault = "rmdir_scratch"
    BY <1>6, Ignored DEF CallIgnored, N, processVars
  <2>2. \A c \in CallNames : c # "rmdir_scratch" => (Passed(c)' <=> Passed(c))
    BY <1>2, <2>1
  <2>3. ASSUME NEW f \in DOMAIN Giver, Passed(Giver[f])',
               Giver[f] \in ForExtraMounts => request.extra
        PROVE  f \in has'
    <3>1. Giver[f] # "rmdir_scratch"
      BY DEF Giver
    <3> QED BY <1>3, <2>1, <2>2, <2>3, <3>1, Givers
  <2> QED BY <1>1, <1>3, <2>1, <2>2, <2>3, Order DEF FactInv
<1> QED BY <1>4, <1>5, <1>6

LEMMA TableAdvance ==
    ASSUME SetupInv, CallSucceeds \/ CallSkipped \/ CallIgnored
    PROVE  TableInv'
<1> DEFINE N == Now.call
           Moving == {"dup2_stdin", "dup2_stdout", "dup2_stderr",
                      "close_slave", "close_stderr", "close_sync"}
<1>1. /\ "program" \notin has /\ step' = step + 1 /\ step \in 1..38 /\ ctx' = ctx
      /\ request' = request /\ fault' = fault /\ TableInv
  BY DEF SetupInv, PlaceInv, CallSucceeds, CallSkipped, CallIgnored, InSetup, fixedVars
<1>2. /\ N \in CallNames /\ Number[N] = step
      /\ \A c \in CallNames : Passed(c)' <=> Passed(c) \/ c = N
      /\ Moving \subseteq CallNames
  BY <1>1, Advance, Order
<1>3. DOMAIN Dup2 = {"dup2_stdin", "dup2_stdout", "dup2_stderr"}
      /\ DOMAIN Close = {"close_slave", "close_stderr", "close_sync"}
  BY DEF Dup2, Close
<1> HIDE DEF N
<1>4. CASE fds' = fds /\ cloexec' = cloexec /\ N \notin Moving
  <2>1. \A c \in Moving : Passed(c)' <=> Passed(c)
    BY <1>2, <1>4
  <2> QED BY <1>1, <1>4, <2>1 DEF TableInv, Closed, Context
<1>5. CASE CallSucceeds /\ N \in DOMAIN Dup2
  <2>1. /\ fds' = [fds EXCEPT ![Dup2[N].to] = fds[Dup2[N].from]]
        /\ cloexec' = cloexec \ {Dup2[N].to}
    <3>1. N \notin DOMAIN Close
      BY <1>3, <1>5
    <3> QED BY <1>5, <3>1, Zenon DEF CallSucceeds, N
  <2>2. /\ N = "dup2_stdin" => Dup2[N].from = ctx.slave /\ Dup2[N].to = 0
        /\ N = "dup2_stdout" => Dup2[N].from = ctx.slave /\ Dup2[N].to = 1
        /\ N = "dup2_stderr" => Dup2[N].from = ctx.stderr /\ Dup2[N].to = 2
    BY DEF Dup2
  <2>3. Dup2[N].to \in 0..2
    BY <1>3, <1>5, <2>2
  <2>4. \A n \in FdNumbers : n \in 0..MaxFd /\ fds'[n] = fds[n]
    BY <1>1, <2>1, <2>3, MaxFdAssumption DEF TableInv
  <2>5. 0 \in 0..MaxFd /\ 1 \in 0..MaxFd /\ 2 \in 0..MaxFd /\ 4 \in 0..MaxFd
    BY <1>1, MaxFdAssumption DEF TableInv
  <2>6. fds'[4] = "socket" /\ fds' = [n \in 0..MaxFd |-> fds'[n]]
    <3>1. Dup2[N].to # 4 /\ fds[4] = "socket" /\ fds = [n \in 0..MaxFd |-> fds[n]]
      BY <1>1, <2>3 DEF TableInv
    <3> HIDE DEF N
    <3> QED BY <2>1, <2>5, <3>1
  <2>7. cloexec' \subseteq FdNumbers /\ \A n \in FdNumbers : n \in cloexec' <=> n \in cloexec
    BY <1>1, <2>1, <2>3 DEF TableInv
  <2>8. N \in {"dup2_stdin", "dup2_stdout"} => fds[ctx.slave] = "slave"
    <3>1. N \in {"dup2_stdin", "dup2_stdout"} => ~Passed("close_slave")
      BY <1>2, Order DEF Passed
    <3> QED BY <1>1, <3>1 DEF TableInv
  <2>9. N = "dup2_stderr" => fds[ctx.stderr] = "stderr"
    <3>1. N = "dup2_stderr" => ~Passed("close_stderr")
      BY <1>2, Order DEF Passed
    <3> QED BY <1>1, <3>1 DEF TableInv
  <2>10. /\ fds'[0] = IF Passed("dup2_stdin")' THEN "slave" ELSE "host"
         /\ fds'[1] = IF Passed("dup2_stdout")' THEN "slave" ELSE "host"
         /\ fds'[2] = IF Passed("dup2_stderr")' THEN "stderr" ELSE "host"
    BY <1>1, <1>2, <1>3, <1>5, <2>1, <2>2, <2>5, <2>8, <2>9 DEF TableInv
  <2>11. \A c \in {"close_slave", "close_stderr", "close_sync"} : Passed(c)' <=> Passed(c)
    BY <1>2, <1>3, <1>5
  <2> QED BY <1>1, <2>4, <2>6, <2>7, <2>10, <2>11 DEF TableInv, Closed, Context
<1>6. CASE CallSucceeds /\ N \in DOMAIN Close
  <2>1. fds' = [fds EXCEPT ![Close[N]] = "closed"] /\ cloexec' = cloexec
    <3>1. N \notin DOMAIN Dup2
      BY <1>3, <1>6
    <3> QED BY <1>6, <3>1, Zenon DEF CallSucceeds, N
  <2>2. /\ N = "close_slave" => Close[N] = ctx.slave
        /\ N = "close_stderr" => Close[N] = ctx.stderr
        /\ N = "close_sync" => Close[N] = ctx.sync
    BY DEF Close
  <2>3. Close[N] \in FdNumbers /\ Close[N] # ctx.error /\ Close[N] \in Context
    BY <1>1, <1>3, <1>6, <2>2 DEF TableInv, Context
  <2>4. /\ \A n \in {0, 1, 2, 4} : n \in 0..MaxFd /\ fds'[n] = fds[n]
        /\ \A n \in FdNumbers : fds'[n] = IF n = Close[N] THEN "closed" ELSE fds[n]
    BY <1>1, <2>1, <2>3, MaxFdAssumption DEF TableInv
  <2>5. fds' = [n \in 0..MaxFd |-> fds'[n]]
    BY <1>1, <2>1 DEF TableInv
  <2>6. \A c \in {"dup2_stdin", "dup2_stdout", "dup2_stderr"} : Passed(c)' <=> Passed(c)
    BY <1>2, <1>3, <1>6
  <2>7. /\ fds'[ctx.slave] = IF Passed("close_slave")' THEN "closed" ELSE "slave"
        /\ fds'[ctx.stderr] = IF Passed("close_stderr")' THEN "closed" ELSE "stderr"
        /\ fds'[ctx.sync] = IF Passed("close_sync")' THEN "closed" ELSE "sync"
        /\ fds'[ctx.error] = "error"
    BY <1>1, <1>2, <1>3, <1>6, <2>2, <2>3, <2>4 DEF TableInv
  <2>8. \E m, n \in Closed' : m # n
    BY ZenonT(40), <1>1, <2>4 DEF TableInv, Closed
  <2>9. fds'[0] = fds[0] /\ fds'[1] = fds[1] /\ fds'[2] = fds[2] /\ fds'[4] = fds[4]
    BY <2>4
  <2>10. \A n \in FdNumbers \ Context : fds'[n] = "closed" \/ n \in cloexec'
    BY <1>1, <2>1, <2>3, <2>4 DEF TableInv
  <2>11. Context' = Context
    BY <1>1 DEF Context
  <2> QED BY <1>1, <2>1, <2>5, <2>6, <2>7, <2>8, <2>9, <2>10, <2>11 DEF TableInv
<1>7. CASE CallSucceeds /\ N \notin DOMAIN Dup2 /\ N \notin DOMAIN Close
  <2>1. fds' = fds /\ cloexec' = cloexec
    BY <1>7, Zenon DEF CallSucceeds, N
  <2> QED BY <1>3, <1>4, <1>7, <2>1
<1>8. CASE CallSkipped
  <2>1. N \in ForExtraMounts /\ fds' = fds /\ cloexec' = cloexec
    BY <1>8 DEF CallSkipped, Skipped, N, processVars
  <2> QED BY <1>4, <2>1 DEF ForExtraMounts
<1>9. CASE CallIgnored
  <2>1. N = "rmdir_scratch" /\ fds' = fds /\ cloexec' = cloexec
    BY <1>9, Ignored DEF CallIgnored, N, processVars
  <2> QED BY <1>4, <2>1
<1> QED BY <1>5, <1>6, <1>7, <1>8, <1>9

-----------------------------------------------------------------------------
(***************************************************************************)
(* What the calls need of the process.                                     *)
(***************************************************************************)
LEMMA Needs ==
    ASSUME NEW c \in CallNames \ {"add_rules", "execve"}
    PROVE  /\ Kernel[c].needs \subseteq
                {"caps", "unlocked", "host_root", "scratch", "old_root", "put_old", "ruleset",
                 "mapped", "private", "tmpfs", "dirs", "extra_dir", "extra", "masks",
                 "new_root", "nnp"}
           /\ "caps" \in Kernel[c].needs => Number[c] < 28
           /\ "unlocked" \in Kernel[c].needs => Number[c] < 25
           /\ "host_root" \in Kernel[c].needs => Number[c] <= 17
           /\ "scratch" \in Kernel[c].needs => c = "mount_tmpfs"
           /\ "old_root" \in Kernel[c].needs => Number[c] \in 18..20
           /\ "put_old" \in Kernel[c].needs => c = "pivot_root"
           /\ "ruleset" \in Kernel[c].needs => c = "restrict_self"
           /\ "mapped" \in Kernel[c].needs => 1 < Number[c]
           /\ "private" \in Kernel[c].needs => 4 < Number[c]
           /\ "tmpfs" \in Kernel[c].needs => 5 < Number[c]
           /\ "dirs" \in Kernel[c].needs => 6 < Number[c]
           /\ "extra_dir" \in Kernel[c].needs => c = "bind_extra"
           /\ "extra" \in Kernel[c].needs => c = "remount_extra"
           /\ "masks" \in Kernel[c].needs => 14 < Number[c]
           /\ "new_root" \in Kernel[c].needs => 17 < Number[c]
           /\ "nnp" \in Kernel[c].needs => 25 < Number[c]
<1>1. Kernel[c].needs \subseteq
                {"caps", "unlocked", "host_root", "scratch", "old_root", "put_old", "ruleset",
                 "mapped", "private", "tmpfs", "dirs", "extra_dir", "extra", "masks",
                 "new_root", "nnp"}
  BY SMTT(60) DEF CallNames, Number, Kernel, Effect, Gives, Admin, Below
<1>2. /\ "caps" \in Kernel[c].needs => Number[c] < 28
      /\ "unlocked" \in Kernel[c].needs => Number[c] < 25
      /\ "host_root" \in Kernel[c].needs => Number[c] <= 17
      /\ "scratch" \in Kernel[c].needs => c = "mount_tmpfs"
      /\ "old_root" \in Kernel[c].needs => Number[c] \in 18..20
  BY SMTT(60) DEF CallNames, Number, Kernel, Effect, Gives, Admin, Below
<1>3. /\ "put_old" \in Kernel[c].needs => c = "pivot_root"
      /\ "ruleset" \in Kernel[c].needs => c = "restrict_self"
      /\ "mapped" \in Kernel[c].needs => 1 < Number[c]
      /\ "private" \in Kernel[c].needs => 4 < Number[c]
      /\ "tmpfs" \in Kernel[c].needs => 5 < Number[c]
  BY SMTT(60) DEF CallNames, Number, Kernel, Effect, Gives, Admin, Below
<1>4. /\ "dirs" \in Kernel[c].needs => 6 < Number[c]
      /\ "extra_dir" \in Kernel[c].needs => c = "bind_extra"
      /\ "extra" \in Kernel[c].needs => c = "remount_extra"
      /\ "masks" \in Kernel[c].needs => 14 < Number[c]
      /\ "new_root" \in Kernel[c].needs => 17 < Number[c]
      /\ "nnp" \in Kernel[c].needs => 25 < Number[c]
  BY SMTT(60) DEF CallNames, Number, Kernel, Effect, Gives, Admin, Below
<1> QED BY <1>1, <1>2, <1>3, <1>4

(* Where the facts are given. *)
LEMMA GivenAt ==
    /\ Number[Giver["mapped"]] = 1 /\ Number[Giver["private"]] = 4
    /\ Number[Giver["tmpfs"]] = 5 /\ Number[Giver["dirs"]] = 6
    /\ Number[Giver["extra_dir"]] = 7 /\ Number[Giver["extra"]] = 11
    /\ Number["bind_extra"] = 11 /\ Number["remount_extra"] = 12
    /\ Number["mount_tmpfs"] = 5 /\ Number[Giver["masks"]] = 14
    /\ Number[Giver["new_root"]] = 17 /\ Number[Giver["nnp"]] = 25
  BY DEF Giver, Number

(* No call has taken from this one what it needs. *)
LEMMA NeedsMet ==
    ASSUME SetupInv, at = "setup", ~Skipped, Now.call \notin {"add_rules", "execve"}
    PROVE  Kernel[Now.call].needs \subseteq has
<1> DEFINE N == Now.call
<1>1. /\ "program" \notin has /\ step \in 1..38 /\ Now.call \in CallNames
      /\ Number[Now.call] = step
  BY Advance DEF SetupInv, PlaceInv
<1>2. /\ \A f \in DOMAIN Giver :
            Number[Giver[f]] < step /\ (Giver[f] \in ForExtraMounts => request.extra)
               => f \in has
      /\ "caps" \in has <=> ~(28 < step)
      /\ "unlocked" \in has <=> ~(25 < step)
      /\ "host_root" \in has <=> ~(17 < step)
      /\ "scratch" \in has <=> 3 < step /\ (19 < step => fault = "rmdir_scratch")
      /\ "put_old" \in has <=> 16 < step /\ ~(21 < step)
      /\ "old_root" \in has <=> 17 < step /\ ~(20 < step)
      /\ "ruleset" \in has <=> 23 < step /\ ~(25 < step)
  BY <1>1, Order DEF SetupInv, FactInv, Passed
<1>3. N \in ForExtraMounts => request.extra
  BY DEF Skipped
<1>4. {"mapped", "private", "tmpfs", "dirs", "extra_dir", "extra", "masks", "new_root", "nnp"}
         \subseteq DOMAIN Giver
  BY DEF Giver
<1>5. /\ \A f \in {"mapped", "private", "tmpfs", "dirs", "masks", "new_root", "nnp"} :
            Giver[f] \notin ForExtraMounts
      /\ {"bind_extra", "remount_extra"} \subseteq ForExtraMounts
  BY DEF Giver, ForExtraMounts
<1> HIDE DEF N
<1>6. N \in CallNames \ {"add_rules", "execve"} /\ Number[N] = step
  BY <1>1 DEF N
<1>7. ASSUME NEW f \in Kernel[N].needs PROVE f \in has
  <2>1. CASE f \in {"caps", "unlocked", "host_root", "scratch", "old_root", "put_old", "ruleset"}
    BY <1>1, <1>2, <1>6, <1>7, <2>1, Needs, Order, GivenAt
  <2>2. CASE f \in {"mapped", "private", "tmpfs", "dirs", "masks", "new_root", "nnp"}
    BY <1>1, <1>2, <1>4, <1>5, <1>6, <1>7, <2>2, Needs, GivenAt
  <2>3. CASE f \in {"extra_dir", "extra"}
    BY <1>1, <1>2, <1>3, <1>4, <1>5, <1>6, <1>7, <2>3, Needs, GivenAt
  <2> QED BY <1>6, <1>7, <2>1, <2>2, <2>3, Needs
<1> QED BY <1>7 DEF N

(***************************************************************************)
(* A request that can be met, of a kernel that has what it takes: the      *)
(* next call succeeds, unless it is the one that is made to fail.          *)
(***************************************************************************)
LEMMA CallGranted ==
    ASSUME SetupInv, at = "setup", ~Skipped, Satisfiable, fault # Now.call,
           Now.call # "execve"
    PROVE  Granted(Now.call)
<1> DEFINE N == Now.call
<1>1. /\ "program" \notin has /\ step \in 1..38 /\ N \in CallNames /\ Number[N] = step
      /\ FactInv /\ TableInv /\ abi \in Nat /\ request.nofile \in Nat
  BY Advance, AbisAssumption, RequestsAssumption DEF SetupInv, PlaceInv
<1>2. Kernel[N].needs \subseteq has
  <2>1. CASE N = "add_rules"
    <3>1. Kernel["add_rules"].needs = {"new_root", "ruleset"} \cup RulePaths
      BY DEF Kernel, Gives, Effect
    <3>2. step = 24
      BY <1>1, <2>1 DEF Number
    <3>3. "ruleset" \in has
      BY <1>1, <3>2, Order DEF FactInv, Passed
    <3>4. ASSUME NEW f \in {"new_root", "workspace", "dirs", "devices", "devpts", "proc"}
          PROVE  f \in has
      <4>1. f \in DOMAIN Giver /\ Number[Giver[f]] < 24 /\ Giver[f] \notin ForExtraMounts
        BY DEF Giver, Number, ForExtraMounts
      <4> QED BY <1>1, <3>2, <4>1 DEF FactInv, Passed
    <3>5. request.extra => "extra" \in has
      <4>1. "extra" \in DOMAIN Giver /\ Number[Giver["extra"]] = 11
        BY DEF Giver, Number
      <4> QED BY <1>1, <3>2, <4>1 DEF FactInv, Passed
    <3> QED BY <2>1, <3>1, <3>3, <3>4, <3>5 DEF RulePaths
  <2>2. CASE N # "add_rules"
    BY <2>2, NeedsMet
  <2> QED BY <2>1, <2>2
<1>3. N \in DOMAIN Dup2 => Dup2Possible(Dup2[N])
  <2>1. ASSUME N \in DOMAIN Dup2
        PROVE  fds[Dup2[N].from] # "closed" /\ Dup2[N].to \in 0..2
    <3>1. N \in {"dup2_stdin", "dup2_stdout", "dup2_stderr"}
      BY <2>1 DEF Dup2
    <3>2. ~Passed("close_slave") /\ ~Passed("close_stderr")
      BY <1>1, <3>1, Order DEF Passed
    <3>3. fds[ctx.slave] = "slave" /\ fds[ctx.stderr] = "stderr"
      BY <1>1, <3>2 DEF TableInv
    <3> HIDE DEF N
    <3> QED BY <3>1, <3>3 DEF Dup2
  <2>2. limit > 2
    <3>1. MaxFd \in Nat /\ MaxFd >= 4 /\ request.nofile > 2
      BY <1>1, MaxFdAssumption DEF TableInv, Satisfiable
    <3> QED BY <1>1, <3>1 DEF FactInv
  <2>3. limit \in Int
    BY <1>1, MaxFdAssumption DEF FactInv
  <2> QED BY <2>1, <2>2, <2>3 DEF Dup2Possible
<1>4. N = "read_eventfd" => fds[ctx.sync] = "sync"
  <2>1. N = "read_eventfd" => ~Passed("close_sync")
    <3>1. Number["read_eventfd"] = 1
      BY DEF Number
    <3> QED BY <1>1, <3>1, Order DEF Passed
  <2> QED BY <1>1, <2>1 DEF TableInv
<1>5. HardRequirement /\ AbiAccepted
  <2>1. HandledAccess["Truncate"] = 3 /\ "Truncate" \in DOMAIN HandledAccess
    BY DEF HandledAccess
  <2> QED BY <1>1, <2>1 DEF Satisfiable, HardRequirement, AbiAccepted
<1>6. N = "add_rules" => PathFdPossible
  <2> SUFFICES ASSUME N = "add_rules" PROVE PathFdPossible
    OBVIOUS
  <2> DEFINE S == {n \in DOMAIN fds : n < limit /\ fds[n] = "closed"}
  <2>1. limit = MaxFd + 1
    <3>1. Number["add_rules"] = 24
      BY DEF Number
    <3> QED BY <1>1, <3>1, Order DEF FactInv, Passed
  <2>2. PICK m, n \in Closed : m # n
    BY <1>1 DEF TableInv
  <2>3. DOMAIN fds = 0..MaxFd
    BY <1>1 DEF TableInv
  <2>4. m \in S /\ n \in S
    BY <2>1, <2>2, <2>3, MaxFdAssumption DEF Closed
  <2>5. IsFiniteSet(S)
    <3>1. IsFiniteSet(0..MaxFd)
      BY FS_Interval, MaxFdAssumption
    <3>2. S \in SUBSET (0..MaxFd)
      BY <2>3
    <3> QED BY <3>1, <3>2, FS_Subset
  <2>6. Cardinality(S) >= 2
    BY <2>2, <2>4, <2>5, TwoMembers
  <2> QED BY <2>6 DEF PathFdPossible
<1>7. /\ N = "mkdir_put_old" => "put_old" \notin has
      /\ N = "rmdir_put_old" => "old_root" \notin has
  BY <1>1, Order DEF FactInv, Passed
<1> QED BY <1>2, <1>3, <1>4, <1>5, <1>6, <1>7 DEF Granted

(* execve of a request that can be met. *)
LEMMA ExecGranted ==
    ASSUME SetupInv, at = "exec", Satisfiable, fault # "execve"
    PROVE  Granted("execve")
<1>1. /\ "program" \notin has /\ step = 38 /\ FactInv
      /\ request.target \in {"workspace", "extra", "missing"}
  BY RequestsAssumption DEF SetupInv, PlaceInv
<1>2. Kernel["execve"].needs = {"new_root", request.target}
  BY DEF Kernel, Effect
<1>3. "execve" \notin DOMAIN Dup2
  BY DEF Dup2
<1>4. /\ {"new_root", "workspace", "extra"} \subseteq DOMAIN Giver
      /\ Number[Giver["new_root"]] < 38 /\ Number[Giver["workspace"]] < 38
      /\ Number[Giver["extra"]] < 38 /\ Giver["new_root"] \notin ForExtraMounts
      /\ Giver["workspace"] \notin ForExtraMounts
  BY DEF Giver, Number, ForExtraMounts
<1>5. /\ "new_root" \in has /\ "workspace" \in has
      /\ request.extra => "extra" \in has
  BY <1>1, <1>4 DEF FactInv, Passed
<1>6. request.target \in {"workspace", "extra"} /\ (request.target = "extra" => request.extra)
  BY <1>1 DEF Satisfiable
<1> QED BY <1>2, <1>3, <1>5, <1>6 DEF Granted

-----------------------------------------------------------------------------
(* The filter lets through what the child itself still has to call. *)
LEMMA OwnCallsAllowed ==
    {EXECVE, WRITE, EXIT_GROUP} \subseteq Range(allowed)
<1>1. allowed[1] = EXECVE /\ allowed[4] = EXIT_GROUP /\ allowed[21] = WRITE /\ Len(allowed) >= 21
  BY DEF allowed, ALLOWED_SYSCALL_NRS, EXECVE, WRITE, EXIT_GROUP, ProcessLifecycle,
     MemoryManagement, BasicFileIO, FileMetadata, FileDescriptors, Directories, Signals,
     Threading, Time, Multiplexing, Wait, Networking, Identity, ResourceLimits, Scheduling, Misc
<1> QED BY <1>1, AllowedLength DEF Range

LEMMA OwnCallsGoThrough ==
    ASSUME FilterInv, SetupInv, at \in {"exec", "write", "exiting"}, Decided
    PROVE  LetThrough /\ verdict # "KILL_PROCESS"
<1>1. call \in AnyCall /\ call.arch = X86_64 /\ call.nr \in {EXECVE, WRITE, EXIT_GROUP}
  BY DEF FilterInv, SetupInv, CallInv
<1>2. PassedClone3(call)
  <2>1. /\ \A i \in 1..5 : KillNrs[i] \notin {EXECVE, WRITE, EXIT_GROUP}
        /\ {SOCKET, CLONE, CLONE3} \cap {EXECVE, WRITE, EXIT_GROUP} = {}
    BY DEF KillNrs, EXECVE, WRITE, EXIT_GROUP, SOCKET, CLONE, CLONE3
  <2> QED BY <1>1, <2>1 DEF PassedClone3, PassedClone, PassedSocket, NotKilled
<1>3. Policy(call) = "ALLOW"
  BY <1>1, <1>2, PolicyIs, OwnCallsAllowed
<1>4. verdict \in Verdicts \cup {"UNFILTERED"}
  BY DEF FilterInv, Decided
<1> QED BY <1>3, <1>4 DEF FilterInv, LetThrough, Verdicts

-----------------------------------------------------------------------------
(* The calls of child_setup, one step at a time. *)
LEMMA SetupStep ==
    ASSUME SetupInv, CallSucceeds \/ CallSkipped \/ CallIgnored
    PROVE  SetupInv'
<1>1. /\ at = "setup" /\ at' = "setup" /\ step' = step + 1 /\ step \in 1..38
      /\ Now.call # "execve" /\ "program" \notin has
      /\ request' = request /\ abi' = abi /\ fault' = fault
  <2>1. "execve" \notin ForExtraMounts
    BY DEF ForExtraMounts
  <2> QED BY <2>1 DEF SetupInv, PlaceInv, CallSucceeds, CallSkipped, CallIgnored, InSetup, Skipped,
       fixedVars
<1>2. step' \in 1..38
  BY <1>1, Advance, Order
<1>3. "program" \notin has'
  <2>1. "program" \notin Kernel[Now.call].gives
    BY <1>1, Advance, Effects
  <2> QED BY <1>1, <2>1 DEF CallSucceeds, CallSkipped, CallIgnored, processVars
<1>4. PlaceInv'
  BY <1>1, <1>2, <1>3 DEF SetupInv, PlaceInv
<1>5. CallInv' /\ FailureInv' /\ ProgramInv'
  BY <1>1, <1>3 DEF CallInv, FailureInv, Failed, ProgramInv
<1> QED BY <1>4, <1>5, FactsAdvance, TableAdvance DEF SetupInv

(* A step that leaves the process alone leaves what is known of it. *)
LEMMA ProcessUnchanged ==
    ASSUME SetupInv, UNCHANGED <<request, ctx, abi, fault, step, has, fds, cloexec, limit>>
    PROVE  FactInv' /\ TableInv' /\ ProgramInv'
<1>1. \A c \in CallNames : Passed(c)' <=> Passed(c)
  BY DEF Passed
<1>2. FactInv'
  BY <1>1 DEF SetupInv, FactInv, Passed
<1>3. TableInv'
  BY <1>1 DEF SetupInv, TableInv, Passed, Closed, Context
<1>4. ProgramInv'
  BY DEF SetupInv, ProgramInv
<1> QED BY <1>2, <1>3, <1>4

LEMMA CauseUnchanged ==
    ASSUME UNCHANGED <<request, abi, fault, step>>
    PROVE  /\ (fault = Now.call \/ ~Satisfiable)' <=> (fault = Now.call \/ ~Satisfiable)
           /\ Now' = Now
  BY DEF Now, Satisfiable, HardRequirement

(* The step at which setup fails. *)
LEMMA FailureStep ==
    ASSUME SetupInv, CallFails
    PROVE  SetupInv'
<1>1. /\ at = "setup" /\ at' = "failed" /\ "program" \notin has
      /\ UNCHANGED <<request, ctx, abi, fault, step, has, fds, cloexec, limit, report>>
  BY DEF SetupInv, PlaceInv, CallFails, InSetup, fixedVars, processVars
<1>2. fault = Now.call \/ ~Satisfiable
  BY CallGranted DEF CallFails, InSetup
<1>3. FailureInv'
  BY <1>1, <1>2, CauseUnchanged DEF FailureInv
<1>4. PlaceInv' /\ CallInv'
  BY <1>1 DEF SetupInv, PlaceInv, CallInv
<1> QED BY <1>1, <1>3, <1>4, ProcessUnchanged DEF SetupInv

(* A system call of the child before its program begins. *)
LEMMA OwnCall ==
    ASSUME SetupInv, ExecTarget \/ ReportError \/ ExitChild
    PROVE  SetupInv'
<1>1. /\ UNCHANGED <<request, ctx, abi, fault, step, has, fds, cloexec, limit, report>>
      /\ "program" \notin has /\ step \in 1..38
  BY DEF SetupInv, PlaceInv, ExecTarget, ReportError, ExitChild, fixedVars, processVars
<1>2. ASSUME NEW nr, SystemCall(nr) PROVE call'.arch = X86_64 /\ call'.nr = nr
  BY <1>2 DEF SystemCall, Enter
<1>3. /\ ExecTarget => at = "setup" /\ at' = "exec" /\ call'.arch = X86_64 /\ call'.nr = EXECVE
      /\ ReportError => at = "failed" /\ at' = "write" /\ call'.arch = X86_64 /\ call'.nr = WRITE
      /\ ExitChild => /\ at = "exit" /\ at' = "exiting"
                     /\ call'.arch = X86_64 /\ call'.nr = EXIT_GROUP
  BY <1>2 DEF ExecTarget, ReportError, ExitChild
<1>4. CallInv'
  BY <1>3 DEF CallInv
<1>5. ExecTarget => step = 38
  BY <1>1, Advance, Order DEF ExecTarget
<1>6. PlaceInv'
  BY <1>1, <1>3, <1>5 DEF SetupInv, PlaceInv
<1>7. FailureInv'
  BY <1>1, <1>3, CauseUnchanged DEF SetupInv, FailureInv, Failed
<1> QED BY <1>1, <1>4, <1>6, <1>7, ProcessUnchanged DEF SetupInv

LEMMA ExecReturnsStep ==
    ASSUME FilterInv, SetupInv, ExecReturns
    PROVE  SetupInv'
<1>1. /\ UNCHANGED <<request, ctx, abi, fault, step, has, fds, cloexec, limit, report>>
      /\ at = "exec" /\ "program" \notin has /\ step = 38 /\ Decided
  BY DEF SetupInv, PlaceInv, ExecReturns, DecidedAt, Leave, fixedVars, processVars
<1>2. LetThrough /\ at' = "failed"
  BY <1>1, OwnCallsGoThrough DEF ExecReturns, DecidedAt
<1>3. Now.call = "execve"
  BY <1>1, Advance, Order
<1>4. fault = Now.call \/ ~Satisfiable
  BY <1>1, <1>2, <1>3, ExecGranted DEF ExecReturns, Executed
<1>5. FailureInv'
  BY <1>1, <1>2, <1>4, CauseUnchanged DEF FailureInv
<1>6. PlaceInv' /\ CallInv'
  BY <1>1, <1>2 DEF SetupInv, PlaceInv, CallInv
<1> QED BY <1>1, <1>5, <1>6, ProcessUnchanged DEF SetupInv

(* What the program finds. *)
LEMMA ExecSucceedsStep ==
    ASSUME FilterInv, SetupInv, ExecSucceeds
    PROVE  SetupInv'
<1>1. /\ UNCHANGED <<request, ctx, abi, fault, step, limit, report>>
      /\ at = "exec" /\ "program" \notin has /\ step = 38 /\ Decided
      /\ has' = (has \ Kernel["execve"].takes) \cup Kernel["execve"].gives \cup Regained
      /\ fds' = [n \in DOMAIN fds |-> IF n \in cloexec THEN "closed" ELSE fds[n]]
      /\ FactInv /\ TableInv
  BY DEF SetupInv, PlaceInv, ExecSucceeds, DecidedAt, Leave, fixedVars
<1>2. at' = "program"
  BY <1>1, OwnCallsGoThrough DEF ExecSucceeds, DecidedAt
<1>3. /\ Kernel["execve"].takes = {"keep_caps", "undumpable"}
      /\ Kernel["execve"].gives = {"program"}
  BY DEF Kernel, Effect
<1>4. \A f \in DOMAIN Giver : (Giver[f] \in ForExtraMounts => request.extra) => f \in has
  <2>1. \A f \in DOMAIN Giver : Number[Giver[f]] < 38
    BY DEF Giver, Number
  <2> QED BY <1>1, <2>1 DEF FactInv, Passed
<1>5. /\ {"new_root", "cwd_is_root", "rules", "landlock", "limits", "nnp", "armed"} \subseteq has
      /\ request.extra => "extra_ro" \in has
  <2>1. \A f \in {"new_root", "cwd_is_root", "rules", "landlock", "limits", "nnp", "armed"} :
           f \in DOMAIN Giver /\ Giver[f] \notin ForExtraMounts
    BY DEF Giver, ForExtraMounts
  <2>2. "extra_ro" \in DOMAIN Giver
    BY DEF Giver
  <2> QED BY <1>4, <2>1, <2>2
<1>6. /\ "masked" \in has /\ "filter" \in has
      /\ {"host_root", "old_root", "put_old", "caps", "unlocked"} \cap has = {}
      /\ "scratch" \in has => fault = "rmdir_scratch"
  BY <1>1, Order DEF FactInv, Passed
<1>7. Regained = {}
  BY <1>5 DEF Regained
<1>8. fds' = [n \in 0..MaxFd |-> CASE n < 2 -> "slave"
                                   [] n = 2 -> "stderr"
                                   [] n = 4 -> "socket"
                                   [] OTHER -> "closed"]
  <2>1. /\ DOMAIN fds = 0..MaxFd /\ cloexec \subseteq FdNumbers
        /\ ctx.slave \in FdNumbers
        /\ fds[0] = "slave" /\ fds[1] = "slave" /\ fds[2] = "stderr" /\ fds[4] = "socket"
        /\ fds[ctx.slave] = "closed" /\ fds[ctx.stderr] = "closed" /\ fds[ctx.sync] = "closed"
        /\ ctx.error \in cloexec
        /\ \A n \in FdNumbers \ Context : fds[n] = "closed" \/ n \in cloexec
    BY <1>1, Order DEF TableInv, Passed
  <2>2. \A n \in FdNumbers : fds[n] = "closed" \/ n \in cloexec
    BY <2>1 DEF Context
  <2>3. ASSUME NEW n \in 0..MaxFd
        PROVE  fds'[n] = CASE n < 2 -> "slave"
                           [] n = 2 -> "stderr"
                           [] n = 4 -> "socket"
                           [] OTHER -> "closed"
    <3>1. fds'[n] = IF n \in cloexec THEN "closed" ELSE fds[n]
      BY <1>1, <2>1
    <3>2. n \in FdNumbers \/ (n \in {0, 1, 2, 4} /\ n \notin cloexec)
      BY <2>1, MaxFdAssumption
    <3>3. CASE n \in FdNumbers
      <4>1. fds'[n] = "closed" /\ ~(n < 2) /\ n # 2 /\ n # 4
        BY <2>2, <3>1, <3>3
      <4> QED BY <4>1
    <3>4. CASE n \in {0, 1, 2, 4} /\ n \notin cloexec
      <4>1. fds'[n] = fds[n] /\ (n = 0 \/ n = 1 \/ n = 2 \/ n = 4)
        BY <3>1, <3>4
      <4> QED BY <2>1, <4>1
    <3> QED BY <3>2, <3>3, <3>4
  <2>4. fds' = [n \in 0..MaxFd |-> fds'[n]]
    BY <1>1, <2>1
  <2> QED BY <2>3, <2>4
<1>9. "program" \in has' /\ ProgramInv'
  BY <1>1, <1>3, <1>5, <1>6, <1>7, <1>8 DEF ProgramInv
<1>10. PlaceInv' /\ CallInv' /\ FailureInv' /\ FactInv' /\ TableInv'
  BY <1>1, <1>2, <1>9 DEF SetupInv, PlaceInv, CallInv, FailureInv, Failed, FactInv, TableInv
<1> QED BY <1>9, <1>10 DEF SetupInv

(* The report is written, or the child ends. *)
LEMMA ReportStep ==
    ASSUME FilterInv, SetupInv, ReportWritten \/ Exits
    PROVE  SetupInv'
<1>1. /\ UNCHANGED <<request, ctx, abi, fault, step, has, fds, cloexec, limit>>
      /\ at \in {"write", "exiting"} /\ "program" \notin has /\ step \in 1..38 /\ Decided
      /\ TableInv /\ FailureInv
  BY DEF SetupInv, PlaceInv, ReportWritten, Exits, DecidedAt, Leave, fixedVars, processVars
<1>2. LetThrough /\ verdict # "KILL_PROCESS"
  BY <1>1, OwnCallsGoThrough
<1>3. CASE ReportWritten
  <2>1. at' = "exit" /\ at = "write"
    BY <1>2, <1>3 DEF ReportWritten, DecidedAt
  <2>2. report' = Now.stage
    <3>1. fds[ctx.error] = "error"
      BY <1>1 DEF TableInv
    <3>2. report' = StageOf(ChildStage[Now.stage])
      BY <1>2, <1>3, <3>1 DEF ReportWritten
    <3> QED BY <1>1, <3>2, Stages DEF Now
  <2>3. FailureInv'
    BY <1>1, <2>1, <2>2, CauseUnchanged DEF FailureInv, Failed
  <2>4. PlaceInv' /\ CallInv'
    BY <1>1, <2>1 DEF SetupInv, PlaceInv, CallInv
  <2> QED BY <1>1, <2>3, <2>4, ProcessUnchanged DEF SetupInv
<1>4. CASE Exits
  <2>1. at' = "gone" /\ at = "exiting" /\ report' = report
    BY <1>2, <1>4 DEF Exits, DecidedAt
  <2>2. FailureInv'
    BY <1>1, <2>1, CauseUnchanged DEF FailureInv, Failed
  <2>3. PlaceInv' /\ CallInv'
    BY <1>1, <2>1 DEF SetupInv, PlaceInv, CallInv
  <2> QED BY <1>1, <2>2, <2>3, ProcessUnchanged DEF SetupInv
<1> QED BY <1>3, <1>4

(* The program runs, or the filter does, or nothing happens. *)
LEMMA OtherStep ==
    ASSUME SetupInv, ProgramCalls \/ ProgramGoesOn \/ Filtered \/ UNCHANGED vars
    PROVE  SetupInv'
<1>1. UNCHANGED <<request, ctx, abi, fault, step, has, fds, cloexec, limit, report>>
  BY DEF ProgramCalls, ProgramGoesOn, Filtered, fixedVars, processVars, vars
<1>2. CASE ProgramCalls \/ ProgramGoesOn
  <2>1. at \in {"program", "call"} /\ at' \in {"program", "call", "gone"} /\ "program" \in has
    BY <1>2 DEF SetupInv, PlaceInv, ProgramCalls, ProgramGoesOn, DecidedAt
  <2>2. PlaceInv' /\ CallInv' /\ FailureInv'
    BY <1>1, <2>1 DEF SetupInv, PlaceInv, CallInv, FailureInv, Failed
  <2> QED BY <1>1, <2>2, ProcessUnchanged DEF SetupInv
<1>3. CASE Filtered \/ UNCHANGED vars
  <2>1. at' = at /\ call' = call
    BY <1>3 DEF Filtered, FilterStep, ExecLoad, ExecJump, ExecRet, vars, filterVars
  <2>2. PlaceInv' /\ CallInv'
    BY <1>1, <2>1 DEF SetupInv, PlaceInv, CallInv
  <2>3. FailureInv'
    BY <1>1, <2>1, CauseUnchanged DEF SetupInv, FailureInv, Failed
  <2> QED BY <1>1, <2>2, <2>3, ProcessUnchanged DEF SetupInv
<1> QED BY <1>2, <1>3

LEMMA NextSetup == FilterInv /\ SetupInv /\ [Next]_vars => SetupInv'
  BY SetupStep, FailureStep, OwnCall, ExecReturnsStep, ExecSucceedsStep, ReportStep, OtherStep
     DEF Next

THEOREM SetupCorrect == Spec => []SetupInv
<1>1. FilterInv /\ SetupInv /\ [Next]_vars => SetupInv'
  BY NextSetup
<1> QED BY InitSetup, <1>1, FilterCorrect, PTL DEF Spec

-----------------------------------------------------------------------------
(***************************************************************************)
(* For every request, table and kernel: no call of child_setup takes from  *)
(* a later one what it needs, so that a setup that fails does so where a   *)
(* call was made to fail, or could not do what the request asks of this    *)
(* kernel (child_setup).                                                   *)
(***************************************************************************)
THEOREM CauseCorrect == Spec => []SetupFailsForCause
<1>1. SetupInv => SetupFailsForCause
  BY DEF SetupInv, FailureInv, SetupFailsForCause
<1> QED BY <1>1, SetupCorrect, PTL

(***************************************************************************)
(* A child that ends before its program began has told the supervisor      *)
(* where, whichever call failed and with the filter loaded or not: the end *)
(* of file on the error pipe means that execve succeeded.                  *)
(***************************************************************************)
THEOREM FailuresReported == Spec => []FailureIsReported
<1>1. SetupInv => FailureIsReported
  BY DEF SetupInv, FailureInv, FailureIsReported
<1> QED BY <1>1, SetupCorrect, PTL

(***************************************************************************)
(* No later call undoes what setup has established: a program that runs is *)
(* in its new root, without capabilities, under Landlock, limits and       *)
(* filter.                                                                 *)
(***************************************************************************)
THEOREM Confined == Spec => []ProgramIsConfined
<1>1. SetupInv => ProgramIsConfined
  BY DEF SetupInv, PlaceInv, ProgramInv, ProgramIsConfined
<1> QED BY <1>1, SetupCorrect, PTL

(***************************************************************************)
(* Wherever the server's descriptors lay, a program finds its own three    *)
(* and the server's socket, and no other.                                  *)
(***************************************************************************)
THEOREM DescriptorsCorrect == Spec => []ProgramDescriptors
<1>1. SetupInv => ProgramDescriptors
  BY DEF SetupInv, PlaceInv, ProgramInv, ProgramDescriptors
<1> QED BY <1>1, SetupCorrect, PTL

(***************************************************************************)
(* A program that runs has left no scratch directory in the host's /tmp,   *)
(* unless its removal was made to fail.                                    *)
(***************************************************************************)
THEOREM ScratchCorrect == Spec => []ScratchRemoved
<1>1. SetupInv => ScratchRemoved
  BY DEF SetupInv, PlaceInv, ProgramInv, ScratchRemoved
<1> QED BY <1>1, SetupCorrect, PTL

===============================================================================
