----------------------------- MODULE MCChildSetup -----------------------------
(***************************************************************************)
(* Requests with and without an extra mount, with a descriptor limit just  *)
(* below and just at what the child needs, and with a missing program;     *)
(* kernels without Landlock, with one too old and with one that will do;   *)
(* and for the filter every x86-64 system call number up to the last of    *)
(* the header the crate is built against, the same call of the x32         *)
(* interface and of another architecture for some, and all arguments that  *)
(* matter to a rule.                                                       *)
(***************************************************************************)
EXTENDS ChildSetup

Req(extra, nofile, target) == [extra |-> extra, nofile |-> nofile, target |-> target]

MCRequests == { Req(FALSE, 3, "workspace"), Req(TRUE, 3, "extra"),
                Req(TRUE, 2, "extra"), Req(TRUE, 256, "missing") }

(* The server's other descriptors lie above or between the new ones. *)
MCInherited == { {}, {5, 6}, {6, 9} }

Call(arch, nr, lo, hi) == [arch |-> arch, nr |-> nr, lo |-> lo, hi |-> hi]

I386    == 3
X32_BIT == 1073741824

(* Arguments that look like AF_UNIX, CLONE_NEWUSER or the number of a call. *)
Words == {0, AF_UNIX, 2, SOCKET, CLONE, 101, NEWUSER, NEWUSER + 17}

ArgumentNrs == {1, SOCKET, CLONE, CLONE3, 59, 62, 101, 231, 272, 308}

FewCalls == {Call(X86_64, nr, 0, 0) : nr \in ArgumentNrs}

MCCalls ==
    {Call(X86_64, nr, 0, 0) : nr \in 0..451}
      \cup {Call(arch, nr, lo, hi) :
               arch \in {X86_64, I386}, nr \in ArgumentNrs, lo \in Words, hi \in 0..1}
      \cup {Call(X86_64, X32_BIT + nr, 0, 0) : nr \in {SOCKET, CLONE, 101, 520}}
===============================================================================
