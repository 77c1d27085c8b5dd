--------------------------------- MODULE Codec ---------------------------------
(***************************************************************************)
(* The wire format of a spawn request and of its response (ipc.rs).        *)
(*                                                                         *)
(* An integer is written as its digits to base Base, least significant     *)
(* first: Width digits for a u32, twice as many for a u64 (in the source   *)
(* four and eight bytes).  Texts are sequences of digits too, and 0 is the *)
(* NUL that no C string may hold.                                          *)
(***************************************************************************)
EXTENDS Integers, SequencesExt

CONSTANTS
    Base,     \* values of one digit
    Width     \* digits of a u32

ASSUME DigitAssumption == Base \in Nat \ {0, 1} /\ Width \in Nat \ {0}

(* to_le_bytes: the remainders of repeated division. *)
Digits(v, n) ==
    LET shifted[i \in 0..n] == IF i = 0 THEN v ELSE shifted[i - 1] \div Base
    IN  [i \in 1..n |-> shifted[i - 1] % Base]

(* from_le_bytes, from the last digit to the first. *)
Number(bytes) ==
    LET value[i \in 0..Len(bytes)] ==
            IF i = 0 THEN 0 ELSE bytes[Len(bytes) + 1 - i] + Base * value[i - 1]
    IN  value[Len(bytes)]

(* How many values n digits can tell apart. *)
Limit(n) ==
    LET power[i \in 0..n] == IF i = 0 THEN 1 ELSE Base * power[i - 1]
    IN  power[n]

(***************************************************************************)
(* What goes over the wire.  A length is a u32: no text and no list is     *)
(* longer than that.                                                       *)
(***************************************************************************)
u32 == 0..(Limit(Width) - 1)
u64 == 0..(Limit(2 * Width) - 1)

Text    == {t \in Seq(0..(Base - 1)) : Len(t) \in u32}
CString == {t \in Text : ~Contains(t, 0)}
Vec(S)  == {v \in Seq(S) : Len(v) \in u32}

Request ==
    [ workspace_path : Text, extra_ro_mounts : Vec(Text \X Text),
      memory_max_bytes : u64, cpu_quota_us : u64, cpu_period_us : u64,
      pids_max : u32, ttl_secs : u64, ttl_nanos : u32,
      argv : Vec(CString), env : Vec(CString),
      max_open_files : u64, max_file_size_bytes : u64, stack_size_bytes : u64,
      cgroup_path : Text, host_uid : u32, host_gid : u32 ]

-----------------------------------------------------------------------------
push_u32(v)      == Digits(v, Width)
push_u64(v)      == Digits(v, 2 * Width)
push_bytes(data) == push_u32(Len(data)) \o data

PushMount(m) == push_bytes(m[1]) \o push_bytes(m[2])

PushEach(kind, items) ==
    push_u32(Len(items))
      \o FlattenSeq([i \in DOMAIN items |-> IF kind = "mounts" THEN PushMount(items[i])
                                            ELSE push_bytes(items[i])])

Push(kind, v) ==
    CASE kind = "u32"     -> push_u32(v)
      [] kind = "u64"     -> push_u64(v)
      [] kind = "path"    -> push_bytes(v)
      [] kind \in {"mounts", "strings"} -> PushEach(kind, v)

(***************************************************************************)
(* A pull gives a value with the position after it, or nothing.  A count   *)
(* that the buffer cannot back may be more than with_capacity can reserve, *)
(* which aborts the process; where it is not, the buffer ends too early.   *)
(***************************************************************************)
Some(v, p) == [tag |-> "some", value |-> v, p |-> p]
None       == [tag |-> "none"]
Unbacked   == [tag |-> "unbacked"]

(* The operator ?: the next pull, unless this one gave nothing. *)
Then(pulled, next) == IF pulled.tag = "some" THEN next ELSE pulled

(* One more value, after those there are. *)
Gather(got, pulled) ==
    Then(got, Then(pulled, Some(Append(got.value, pulled.value), pulled.p)))

PullNumber(buf, p, n) ==
    IF p + n <= Len(buf) THEN Some(Number(SubSeq(buf, p + 1, p + n)), p + n) ELSE None

pull_bytes(buf, p) ==
    LET len == PullNumber(buf, p, Width)
    IN  Then(len, IF len.p + len.value > Len(buf) THEN None
                  ELSE Some(SubSeq(buf, len.p + 1, len.p + len.value), len.p + len.value))

pull_cstring(buf, p) ==
    LET s == pull_bytes(buf, p) IN Then(s, IF Contains(s.value, 0) THEN None ELSE s)

PullMount(buf, p) ==
    LET host    == pull_bytes(buf, p)
        sandbox == pull_bytes(buf, host.p)
    IN  Then(host, Then(sandbox, Some(<<host.value, sandbox.value>>, sandbox.p)))

PullEach(kind, buf, p) ==
    LET count == PullNumber(buf, p, Width)
        pulled[i \in 0..count.value] ==
            IF i = 0 THEN Some(<< >>, count.p)
            ELSE LET got == pulled[i - 1]
                 IN  Gather(got, IF kind = "mounts" THEN PullMount(buf, got.p)
                                                       ELSE pull_cstring(buf, got.p))
    IN  Then(count, IF count.value > Len(buf) THEN Unbacked ELSE pulled[count.value])

Pull(kind, buf, p) ==
    CASE kind = "u32"     -> PullNumber(buf, p, Width)
      [] kind = "u64"     -> PullNumber(buf, p, 2 * Width)
      [] kind = "path"    -> pull_bytes(buf, p)
      [] kind \in {"mounts", "strings"} -> PullEach(kind, buf, p)

-----------------------------------------------------------------------------
(* The fields in the order serialize pushes them. *)
SerializeOrder == <<
    <<"workspace_path", "path">>,      <<"extra_ro_mounts", "mounts">>,
    <<"memory_max_bytes", "u64">>,     <<"cpu_quota_us", "u64">>,
    <<"cpu_period_us", "u64">>,        <<"pids_max", "u32">>,
    <<"ttl_secs", "u64">>,             <<"ttl_nanos", "u32">>,
    <<"argv", "strings">>,             <<"env", "strings">>,
    <<"max_open_files", "u64">>,       <<"max_file_size_bytes", "u64">>,
    <<"stack_size_bytes", "u64">>,     <<"cgroup_path", "path">>,
    <<"host_uid", "u32">>,             <<"host_gid", "u32">> >>

(* A bug: two fields of one kind change places, in the reader alone. *)
DeserializeOrderSwapped == [SerializeOrder EXCEPT ![11] = SerializeOrder[12],
                                                  ![12] = SerializeOrder[11]]

(* The fields in the order deserialize pulls them. *)
DeserializeOrder == <<
    <<"workspace_path", "path">>,      <<"extra_ro_mounts", "mounts">>,
    <<"memory_max_bytes", "u64">>,     <<"cpu_quota_us", "u64">>,
    <<"cpu_period_us", "u64">>,        <<"pids_max", "u32">>,
    <<"ttl_secs", "u64">>,             <<"ttl_nanos", "u32">>,
    <<"argv", "strings">>,             <<"env", "strings">>,
    <<"max_open_files", "u64">>,       <<"max_file_size_bytes", "u64">>,
    <<"stack_size_bytes", "u64">>,     <<"cgroup_path", "path">>,
    <<"host_uid", "u32">>,             <<"host_gid", "u32">> >>

serialize(r) ==
    FlattenSeq([i \in DOMAIN SerializeOrder |->
                   Push(SerializeOrder[i][2], r[SerializeOrder[i][1]])])

(***************************************************************************)
(* Field after field until one is not there.  What follows the last field  *)
(* is not looked at.                                                       *)
(***************************************************************************)
deserialize(buf) ==
    LET n == Len(DeserializeOrder)
        place(name) == CHOOSE i \in 1..n : DeserializeOrder[i][1] = name
        pulled[i \in 0..n] ==
            IF i = 0 THEN Some(<< >>, 0)
            ELSE LET got == pulled[i - 1]
                 IN  Gather(got, Pull(DeserializeOrder[i][2], buf, got.p))
        all == pulled[n]
    IN  Then(all, Some([name \in {DeserializeOrder[i][1] : i \in 1..n}
                            |-> all.value[place(name)]], all.p))

-----------------------------------------------------------------------------
RESP_OK  == 0
RESP_ERR == 1

encode_response(tag, v) == <<tag>> \o push_u32(v)

(* decode_response: too short, or a tag of neither kind, is "none". *)
decode_response(buf) ==
    IF Len(buf) < 1 + Width \/ buf[1] \notin {RESP_OK, RESP_ERR}
    THEN [tag |-> "none"]
    ELSE [tag   |-> IF buf[1] = RESP_OK THEN "ok" ELSE "err",
          value |-> Number(SubSeq(buf, 2, 1 + Width))]
================================================================================
