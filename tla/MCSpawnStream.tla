----------------------------- MODULE MCSpawnStream -----------------------------
(***************************************************************************)
(* Two calls, one with a longer argv than the other, over sockets that cut *)
(* the longer request anywhere from its eighth unit on, some of them the   *)
(* shorter one too, and over one that cuts neither.  A u32 has two digits  *)
(* to base 16.                                                             *)
(***************************************************************************)
EXTENDS SpawnStream

CONSTANTS j1, j2

Req(argv, cgroup) ==
    [ workspace_path |-> <<7>>, extra_ro_mounts |-> << <<<<8>>, <<9>>>> >>,
      memory_max_bytes |-> 3, cpu_quota_us |-> 4, cpu_period_us |-> 5,
      pids_max |-> 6, ttl_secs |-> 1, ttl_nanos |-> 2,
      argv |-> argv, env |-> << <<12>> >>,
      max_open_files |-> 10, max_file_size_bytes |-> 11, stack_size_bytes |-> 12,
      cgroup_path |-> cgroup, host_uid |-> 33, host_gid |-> 34 ]

MCRequests == (j1 :> Req(<< <<13>>, <<14, 15, 13>> >>, <<1>>))
                @@ (j2 :> Req(<< <<13>> >>, <<2>>))

MCSegMaxes == 8..70

(* One of them, which cuts the longer request in the text of its argv. *)
Narrow == {40}
================================================================================
