------------------------------ MODULE SpawnProofs ------------------------------
(***************************************************************************)
(* Proofs about SpawnStream: host and server do not wait for each other,   *)
(* the stream implements the exchange, and a request that fits is acted on *)
(* as it was sent, for any number of calls, any requests and wherever the  *)
(* kernel cuts them.                                                       *)
(***************************************************************************)
EXTENDS SpawnStream, CodecProofs

LEMMA PayloadType ==
    \A j \in Jobs : Payload[j] \in Seq(Nat) /\ Len(Payload[j]) \in Nat \ {0}
<1> SUFFICES ASSUME NEW j \in Jobs
             PROVE  Payload[j] \in Seq(Nat) /\ Len(Payload[j]) \in Nat \ {0}
  OBVIOUS
<1>1. Requests[j] \in Request
  BY RequestsAssumption
<1>2. serialize(Requests[j]) \in Seq(Nat) /\ Len(serialize(Requests[j])) >= Width
  BY <1>1, SerializeType
<1>3. Len(serialize(Requests[j])) \in Nat
  BY <1>2
<1> QED BY <1>2, <1>3, NumberTypes DEF Payload

-----------------------------------------------------------------------------
Unit == [unit : Nat, fds : Jobs \cup {NoJob}]

(* The places in a queue that have descriptors with them. *)
Carriers(q) == {i \in DOMAIN q : q[i].fds # NoJob}

(* No descriptors but those of call j are in the queue. *)
Only(q, j) == \A i \in DOMAIN q : q[i].fds \in {NoJob, j}

LEMMA MinIsLeast ==
    ASSUME NEW S \in SUBSET Nat, S # {}
    PROVE  Min(S) \in S /\ \A x \in S : Min(S) <= x
  BY LeastNumber DEF Min

LEMMA MaxIsGreatest ==
    ASSUME NEW n \in Nat, NEW S \in SUBSET (1..n), S # {}
    PROVE  Max(S) \in S /\ \A x \in S : x <= Max(S)
<1> DEFINE Above == {k \in Nat : \A x \in S : x <= k}
<1>1. n \in Above
  OBVIOUS
<1>2. PICK k \in Above : \A m \in Above : k <= m
  BY <1>1, LeastNumber
<1>3. k \in S
  <2> SUFFICES ASSUME k \notin S PROVE FALSE
    OBVIOUS
  <2>1. \A x \in S : x <= k - 1 /\ x >= 1
    BY <1>2
  <2>2. k - 1 \in Nat
    <3>1. PICK x \in S : TRUE
      OBVIOUS
    <3> QED BY <2>1, <3>1
  <2>3. k - 1 \in Above
    BY <2>1, <2>2
  <2> QED BY <1>2, <2>3
<1>4. \E x \in S : \A y \in S : x >= y
  BY <1>2, <1>3
<1>5. Max(S) \in S /\ \A x \in S : Max(S) >= x
  BY <1>4 DEF Max
<1> QED BY <1>5

(* A read of up to n units takes m, and goes no further than last. *)
Reads(q, n, j, m, last) ==
    LET touched == \E i \in Carriers(q) : i = 1 \/ i <= m
    IN  /\ last \in 1..Len(q)
        /\ m = IF n < last THEN n ELSE last
        /\ \A i \in Carriers(q) : i <= last
        /\ last \notin Carriers(q) => Carriers(q) = {} /\ last = Len(q)
        /\ Recv(q, n).data = [i \in 1..m |-> q[i].unit]
        /\ Recv(q, n).fds = IF touched THEN j ELSE NoJob
        /\ Recv(q, n).rest = [i \in 1..(Len(q) - m) |->
                                 IF touched /\ m + i <= last
                                 THEN [q[m + i] EXCEPT !.fds = NoJob] ELSE q[m + i]]

LEMMA RecvReads ==
    ASSUME NEW q \in Seq(Unit), q # << >>, NEW n \in Nat, NEW j, Only(q, j)
    PROVE  \E m, last : Reads(q, n, j, m, last)
<1> DEFINE C == Carriers(q)
           first == q[Min(C)].fds
           last == IF C = {} THEN Len(q) ELSE Max({i \in C : q[i].fds = first})
           m == IF n < last THEN n ELSE last
           touched == \E i \in C : i = 1 \/ i <= m
<1>1. Len(q) \in Nat \ {0} /\ C \subseteq 1..Len(q)
  BY EmptySeq DEF Carriers
<1>2. C # {} => first = j /\ {i \in C : q[i].fds = first} = C
  <2> SUFFICES ASSUME C # {} PROVE first = j /\ {i \in C : q[i].fds = first} = C
    OBVIOUS
  <2>1. Min(C) \in C
    BY <1>1, MinIsLeast
  <2>2. \A i \in C : q[i].fds = j
    BY DEF Only, Carriers
  <2> QED BY <2>1, <2>2
<1>3. /\ last \in 1..Len(q) /\ \A i \in C : i <= last
      /\ last \notin C => C = {} /\ last = Len(q)
  <2>1. CASE C = {}
    BY <1>1, <2>1
  <2>2. CASE C # {}
    <3>1. last = Max(C)
      BY <1>2, <2>2
    <3>2. Max(C) \in C /\ \A i \in C : i <= Max(C)
      BY <1>1, <2>2, MaxIsGreatest
    <3> QED BY <1>1, <3>1, <3>2
  <2> QED BY <2>1, <2>2
<1>4. /\ Recv(q, n).data = [i \in 1..m |-> q[i].unit]
      /\ Recv(q, n).fds = IF touched THEN first ELSE NoJob
      /\ Recv(q, n).rest = [i \in 1..(Len(q) - m) |->
                               IF touched /\ m + i <= last
                               THEN [q[m + i] EXCEPT !.fds = NoJob] ELSE q[m + i]]
  BY DEF Recv, Carriers
<1>5. Recv(q, n).fds = IF touched THEN j ELSE NoJob
  BY <1>2, <1>4
<1> HIDE DEF last
<1>6. Reads(q, n, j, m, last)
  BY <1>3, <1>4, <1>5 DEF Reads
<1> QED BY <1>6

(* What a read leaves is a queue again, and nothing gets lost. *)
LEMMA RecvType ==
    ASSUME NEW q \in Seq(Unit), q # << >>, NEW n \in Nat, NEW j, Only(q, j)
    PROVE  /\ Recv(q, n).data \in Seq(Nat) /\ Len(Recv(q, n).data) <= n
           /\ Recv(q, n).rest \in Seq(Unit) /\ Only(Recv(q, n).rest, j)
           /\ Len(Recv(q, n).data) + Len(Recv(q, n).rest) = Len(q)
           /\ Recv(q, n).fds \in {NoJob, j}
           /\ Recv(q, n).fds # NoJob => Carriers(Recv(q, n).rest) = {}
           /\ Carriers(q) = {} => /\ Recv(q, n).fds = NoJob /\ Carriers(Recv(q, n).rest) = {}
                                  /\ Len(Recv(q, n).data) = n \/ Recv(q, n).rest = << >>
           /\ (\A i \in Carriers(q) : i > n) /\ Carriers(q) # {} /\ n > 0 =>
                 Len(Recv(q, n).data) = n /\ Carriers(Recv(q, n).rest) # {}
<1> DEFINE r == Recv(q, n)
<1>0. PICK m, last : Reads(q, n, j, m, last)
  BY RecvReads
<1> DEFINE touched == \E i \in Carriers(q) : i = 1 \/ i <= m
<1>1. /\ last \in 1..Len(q) /\ m = (IF n < last THEN n ELSE last)
      /\ \A i \in Carriers(q) : i <= last
      /\ last \notin Carriers(q) => Carriers(q) = {} /\ last = Len(q)
      /\ r.data = [i \in 1..m |-> q[i].unit]
      /\ r.fds = IF touched THEN j ELSE NoJob
      /\ r.rest = [i \in 1..(Len(q) - m) |->
                     IF touched /\ m + i <= last
                     THEN [q[m + i] EXCEPT !.fds = NoJob] ELSE q[m + i]]
  BY <1>0 DEF Reads
<1> HIDE DEF r, touched
<1>2. Len(q) \in Nat /\ m \in 0..Len(q) /\ m <= n /\ Carriers(q) \subseteq 1..Len(q)
  BY <1>1 DEF Carriers
<1>3. ASSUME NEW i \in 1..Len(q) PROVE q[i] \in Unit /\ q[i].fds \in {NoJob, j}
  BY DEF Only
<1>4. r.data \in Seq(Nat) /\ Len(r.data) = m
  <2>1. ASSUME NEW i \in 1..m PROVE q[i].unit \in Nat
    <3>1. i \in 1..Len(q)
      BY <1>2
    <3> QED BY <1>3, <3>1 DEF Unit
  <2> DEFINE d == [i \in 1..m |-> q[i].unit]
  <2>2. m \in Nat /\ r.data = d
    BY <1>1, <1>2
  <2>3. d \in Seq(Nat) /\ Len(d) = m
    BY <2>1, <2>2
  <2> QED BY <2>2, <2>3
<1>5. ASSUME NEW i \in 1..(Len(q) - m)
      PROVE  /\ m + i \in 1..Len(q)
             /\ r.rest[i] \in Unit /\ r.rest[i].fds \in {NoJob, j}
             /\ r.rest[i].fds = IF touched /\ m + i <= last THEN NoJob ELSE q[m + i].fds
  <2>1. m + i \in 1..Len(q)
    BY <1>2
  <2>2. q[m + i] \in Unit /\ q[m + i].fds \in {NoJob, j}
    BY <1>3, <2>1
  <2>3. r.rest[i] = IF touched /\ m + i <= last
                    THEN [q[m + i] EXCEPT !.fds = NoJob] ELSE q[m + i]
    BY <1>1
  <2>4. [q[m + i] EXCEPT !.fds = NoJob] \in Unit
        /\ [q[m + i] EXCEPT !.fds = NoJob].fds = NoJob
    BY <2>2 DEF Unit
  <2> QED BY <2>1, <2>2, <2>3, <2>4
<1>6. r.rest \in Seq(Unit) /\ Len(r.rest) = Len(q) - m /\ DOMAIN r.rest = 1..(Len(q) - m)
  <2> DEFINE k == Len(q) - m
             d == [i \in 1..k |-> r.rest[i]]
  <2>1. k \in Nat
    BY <1>2
  <2>2. r.rest = d
    BY <1>1
  <2>3. \A i \in 1..k : r.rest[i] \in Unit
    BY <1>5
  <2> HIDE DEF k
  <2>4. d \in Seq(Unit) /\ Len(d) = k /\ DOMAIN d = 1..k
    BY <2>1, <2>3
  <2> HIDE DEF d
  <2> QED BY <2>2, <2>4 DEF k
<1>7. Only(r.rest, j)
  BY <1>5, <1>6 DEF Only
<1>8. ASSUME r.fds # NoJob PROVE Carriers(r.rest) = {}
  <2>1. touched
    BY <1>1, <1>8
  <2>2. ASSUME NEW i \in 1..(Len(q) - m) PROVE r.rest[i].fds = NoJob
    <3>1. CASE m + i <= last
      BY <1>5, <2>1, <3>1
    <3>2. CASE ~(m + i <= last)
      <4>1. m + i \notin Carriers(q)
        BY <1>1, <3>2
      <4> QED BY <1>5, <3>2, <4>1 DEF Carriers
    <3> QED BY <3>1, <3>2
  <2> QED BY <1>6, <2>2 DEF Carriers
<1>9. ASSUME Carriers(q) = {}
      PROVE  r.fds = NoJob /\ Carriers(r.rest) = {} /\ (Len(r.data) = n \/ r.rest = << >>)
  <2>1. ~touched /\ last = Len(q)
    BY <1>1, <1>9 DEF touched
  <2>2. ASSUME NEW i \in 1..(Len(q) - m) PROVE r.rest[i].fds = NoJob
    BY <1>5, <1>9, <2>1 DEF Carriers
  <2>3. m = n \/ Len(r.rest) = 0
    BY <1>1, <1>2, <1>6, <2>1
  <2>4. Carriers(r.rest) = {}
    BY <1>6, <2>2 DEF Carriers
  <2>5. r.rest = << >> \/ Len(r.rest) # 0
    BY <1>6
  <2> QED BY <1>1, <1>4, <2>1, <2>3, <2>4, <2>5
<1>10. ASSUME \A i \in Carriers(q) : i > n, Carriers(q) # {}, n > 0
       PROVE  Len(r.data) = n /\ Carriers(r.rest) # {}
  <2>1. PICK c \in Carriers(q) : TRUE
    BY <1>10
  <2>2. c \in 1..Len(q) /\ c > n /\ c <= last /\ m = n
    BY <1>1, <1>2, <1>10, <2>1
  <2>3. ~touched
    BY <1>2, <1>10, <2>2 DEF touched
  <2>4. c - m \in 1..(Len(q) - m) /\ m + (c - m) = c
    BY <1>2, <2>2
  <2>5. r.rest[c - m].fds = q[c].fds
    BY <1>5, <2>3, <2>4
  <2>6. c - m \in Carriers(r.rest)
    BY <1>6, <2>1, <2>4, <2>5 DEF Carriers
  <2> QED BY <1>4, <2>2, <2>6
<1>11. r.fds \in {NoJob, j}
  BY <1>1
<1> QED BY <1>2, <1>4, <1>6, <1>7, <1>8, <1>9, <1>10, <1>11 DEF r

LEMMA SegmentType ==
    ASSUME NEW data \in Seq(Nat), NEW k \in Jobs \cup {NoJob}
    PROVE  /\ Segment(data, k) \in Seq(Unit) /\ Len(Segment(data, k)) = Len(data)
           /\ \A i \in 1..Len(data) : /\ Segment(data, k)[i].unit = data[i]
                                      /\ Segment(data, k)[i].fds = k
<1>1. ASSUME NEW i \in 1..Len(data) PROVE [unit |-> data[i], fds |-> k] \in Unit
  BY DEF Unit
<1>2. Segment(data, k) = [i \in 1..Len(data) |-> [unit |-> data[i], fds |-> k]]
  BY DEF Segment
<1> QED BY <1>1, <1>2

(* A queue with a segment added. *)
LEMMA QueueGrows ==
    ASSUME NEW q \in Seq(Unit), NEW t \in Seq(Unit)
    PROVE  /\ q \o t \in Seq(Unit) /\ Len(q \o t) = Len(q) + Len(t)
           /\ \A i \in 1..Len(q) : (q \o t)[i] = q[i]
           /\ \A i \in 1..Len(t) : (q \o t)[Len(q) + i] = t[i]
           /\ \A i \in DOMAIN (q \o t) :
                 \/ i \in 1..Len(q) /\ (q \o t)[i] = q[i]
                 \/ i - Len(q) \in 1..Len(t) /\ (q \o t)[i] = t[i - Len(q)]
  OBVIOUS

-----------------------------------------------------------------------------
(***************************************************************************)
(* The inductive invariant.                                                *)
(***************************************************************************)
TypeInv ==
    /\ segMax \in u32 \ {0}
    /\ up \in Seq(Unit)
    /\ lock \in Jobs \cup {NoJob}
    /\ call \in [Jobs -> {"ready", "payload", "response", "returned"}]
    /\ sent \in Nat
    /\ srv \in {"prefix", "payload", "request", "exited"}
    /\ prefix \in Seq(Nat) /\ want \in Nat
    /\ fds \in Jobs \cup {NoJob}

(* The calls take turns. *)
TurnInv ==
    /\ \A j \in Jobs : call[j] \in {"payload", "response"} <=> lock = j
    /\ lock = NoJob => sent = 0
    /\ \A j \in Jobs : call[j] = "response" => sent > 0

(***************************************************************************)
(* What there is of a call's request and its response, as long as the      *)
(* server lives: nothing, for nobody has asked; the prefix at most; the    *)
(* descriptors on their way, behind enough to complete any prefix; a       *)
(* request with the server; the whole response.                            *)
(***************************************************************************)
Untouched == Carriers(up) = {} /\ srv # "request"

Idle == lock = NoJob /\ Untouched /\ down = << >>

Asking ==
    /\ lock # NoJob /\ sent = 0 /\ Untouched /\ down = << >>
    /\ srv = "prefix" => Len(prefix) + Len(up) >= Width

Queued ==
    /\ lock # NoJob /\ sent > 0 /\ down = << >> /\ srv # "request"
    /\ Carriers(up) # {}
    /\ srv = "prefix" => \A i \in Carriers(up) : Len(prefix) + i > Width

Served ==
    /\ lock # NoJob /\ sent > 0 /\ down = << >> /\ srv = "request" /\ fds = lock
    /\ Carriers(up) = {}

Reply(q, tag, v, k) ==
    q = Segment(push_u32(Width + 1), NoJob) \o Segment(encode_response(tag, v), k)

Response(q, j) ==
    \E tag \in {RESP_OK, RESP_ERR}, v \in {Errno, ChildPid}, k \in {NoJob, j} :
        Reply(q, tag, v, k)

Answered ==
    /\ lock # NoJob /\ sent > 0 /\ Untouched
    /\ Response(down, lock)

StreamInv ==
    srv # "exited" =>
        /\ srv = "prefix" => Len(prefix) < Width
        /\ Only(up, lock)
        /\ Idle \/ Asking \/ Queued \/ Served \/ Answered

SpawnInv == TypeInv /\ TurnInv /\ StreamInv

-----------------------------------------------------------------------------
LEMMA ResponseType ==
    ASSUME NEW j \in Jobs, NEW q, Response(q, j)
    PROVE  q \in Seq(Unit) /\ q # << >>
<1> USE DigitAssumption
<1>1. PICK tag \in {RESP_OK, RESP_ERR}, v \in {Errno, ChildPid}, k \in {NoJob, j} :
          q = Segment(push_u32(Width + 1), NoJob) \o Segment(encode_response(tag, v), k)
  BY DEF Response, Reply
<1>2. push_u32(Width + 1) \in Seq(Nat) /\ Len(push_u32(Width + 1)) = Width
  BY PushU32Type
<1>3. encode_response(tag, v) \in Seq(Nat) /\ Len(encode_response(tag, v)) = Width + 1
  <2>1. tag \in Nat /\ v \in Nat
    BY DEF RESP_OK, RESP_ERR, Errno, ChildPid
  <2>2. push_u32(v) \in Seq(Nat) /\ Len(push_u32(v)) = Width
    BY <2>1, PushU32Type
  <2> QED BY <2>1, <2>2 DEF encode_response
<1>4. Segment(push_u32(Width + 1), NoJob) \in Seq(Unit)
      /\ Len(Segment(push_u32(Width + 1), NoJob)) = Width
  BY <1>2, SegmentType
<1>5. Segment(encode_response(tag, v), k) \in Seq(Unit)
  BY <1>3, SegmentType
<1> QED BY <1>1, <1>4, <1>5, QueueGrows

(* A read of a segment that takes all of it. *)
LEMMA SegmentRead ==
    ASSUME NEW b \in Seq(Nat), b # << >>, NEW k \in Jobs \cup {NoJob}
    PROVE  LET r == Recv(Segment(b, k), Len(b))
           IN  r.data = b /\ r.fds = k /\ r.rest = << >>
<1> DEFINE q == Segment(b, k)
           n == Len(b)
           r == Recv(q, n)
<1>1. n \in Nat \ {0}
  BY EmptySeq
<1>2. /\ q \in Seq(Unit) /\ Len(q) = n
      /\ \A i \in 1..n : q[i].unit = b[i] /\ q[i].fds = k
  BY SegmentType
<1> HIDE DEF q, n
<1>3. Only(q, k) /\ q # << >>
  BY <1>1, <1>2 DEF Only
<1>4. PICK m, last : Reads(q, n, k, m, last)
  BY <1>1, <1>2, <1>3, RecvReads
<1>5. last = n
  <2>1. CASE k = NoJob
    BY <1>2, <1>4, <2>1 DEF Reads, Carriers
  <2>2. CASE k # NoJob
    <3>1. n \in Carriers(q)
      BY <1>1, <1>2, <2>2 DEF Carriers
    <3> QED BY <1>1, <1>2, <1>4, <3>1 DEF Reads
  <2> QED BY <2>1, <2>2
<1>6. m = n
  BY <1>4, <1>5 DEF Reads
<1>7. r.rest = << >>
  <2>1. Len(q) - m = 0
    BY <1>1, <1>2, <1>6
  <2> QED BY SMTT(40), <1>4, <2>1 DEF Reads
<1>8. r.fds = k
  <2>1. CASE k = NoJob
    BY <1>4, <2>1 DEF Reads
  <2>2. CASE k # NoJob
    <3>1. 1 \in Carriers(q)
      BY <1>1, <1>2, <2>2 DEF Carriers
    <3> QED BY <1>4, <3>1 DEF Reads
  <2> QED BY <2>1, <2>2
<1>9. r.data = b
  <2>1. r.data = [i \in 1..n |-> q[i].unit]
    BY <1>4, <1>6 DEF Reads
  <2>2. b = [i \in 1..n |-> b[i]]
    BY DEF n
  <2> HIDE DEF r
  <2> QED BY <1>2, <2>1, <2>2
<1> QED BY <1>7, <1>8, <1>9 DEF q, n

(* A read of the length in front of a segment takes that and no more. *)
LEMMA HeadRead ==
    ASSUME NEW a \in Seq(Nat), Len(a) = Width, NEW b \in Seq(Nat), NEW k \in Jobs \cup {NoJob}
    PROVE  LET r == Recv(Segment(a, NoJob) \o Segment(b, k), Width)
           IN  r.data = a /\ r.rest = Segment(b, k)
<1> USE NoJobAssumption
<1> DEFINE s == Segment(a, NoJob)
           t == Segment(b, k)
           q == s \o t
           n == Len(b)
           r == Recv(q, Width)
<1>0. n \in Nat /\ Width \in Nat \ {0}
  BY NumberTypes
<1>1. /\ s \in Seq(Unit) /\ Len(s) = Width
      /\ \A i \in 1..Width : s[i].unit = a[i] /\ s[i].fds = NoJob
      /\ t \in Seq(Unit) /\ Len(t) = n
      /\ \A i \in 1..n : t[i].fds = k
  BY SegmentType
<1> HIDE DEF s, t, n
<1>2. /\ q \in Seq(Unit) /\ Len(q) = Width + n
      /\ \A i \in 1..Width : q[i] = s[i]
      /\ \A i \in 1..n : q[Width + i] = t[i]
  <2>1. /\ s \o t \in Seq(Unit) /\ Len(s \o t) = Len(s) + Len(t)
        /\ \A i \in 1..Len(s) : (s \o t)[i] = s[i]
        /\ \A i \in 1..Len(t) : (s \o t)[Len(s) + i] = t[i]
    <3>1. s \in Seq(Unit) /\ t \in Seq(Unit)
      BY <1>1
    <3> QED BY <3>1, QueueGrows
  <2> QED BY <1>1, <2>1
<1> HIDE DEF q
<1>3. ASSUME NEW i \in DOMAIN q PROVE q[i].fds = IF i <= Width THEN NoJob ELSE k
  <2>1. i \in 1..(Width + n)
    BY <1>2
  <2>2. CASE i <= Width
    <3>1. i \in 1..Width
      BY <1>0, <2>1, <2>2
    <3> QED BY <1>1, <1>2, <2>2, <3>1
  <2>3. CASE ~(i <= Width)
    <3>1. i - Width \in 1..n /\ Width + (i - Width) = i
      BY <1>0, <2>1, <2>3
    <3>2. q[i] = t[i - Width]
      BY <1>2, <3>1
    <3> QED BY <1>1, <2>3, <3>1, <3>2
  <2> QED BY <2>2, <2>3
<1>4. Only(q, k) /\ q # << >> /\ DOMAIN q = 1..(Width + n)
  <2>1. Only(q, k)
    BY <1>3 DEF Only
  <2>2. q # << >>
    BY <1>0, <1>2
  <2> QED BY <1>2, <2>1, <2>2
<1>5. PICK m, last : Reads(q, Width, k, m, last)
  BY <1>0, <1>2, <1>4, RecvReads
<1>6. m = Width /\ ~\E i \in Carriers(q) : i = 1 \/ i <= m
  <2>1. \A i \in Carriers(q) : i \in 1..(Width + n) /\ i > Width
    BY <1>0, <1>3, <1>4 DEF Carriers
  <2>2. last >= Width /\ last \in Nat
    BY <1>0, <1>2, <1>5, <2>1 DEF Reads
  <2>3. m = Width
    BY <1>0, <1>5, <2>2 DEF Reads
  <2> QED BY <1>0, <2>1, <2>3
<1>7. /\ r.data = [i \in 1..Width |-> q[i].unit]
      /\ r.rest = [i \in 1..n |-> q[Width + i]]
  <2>1. Len(q) - Width = n
    BY <1>0, <1>2
  <2> QED BY <1>5, <1>6, <2>1 DEF Reads
<1> HIDE DEF r
<1>8. r.data = a
  <2>1. a = [i \in 1..Width |-> a[i]]
    OBVIOUS
  <2> QED BY <1>1, <1>2, <1>7, <2>1
<1>9. r.rest = t
  <2>1. t = [i \in 1..n |-> t[i]]
    BY <1>1
  <2> QED BY <1>2, <1>7, <2>1
<1> QED BY <1>8, <1>9 DEF r, q, s, t

LEMMA ReplyTypes ==
    ASSUME NEW tag \in {RESP_OK, RESP_ERR}, NEW v \in {Errno, ChildPid}
    PROVE  /\ encode_response(tag, v) \in Seq(Nat) /\ Len(encode_response(tag, v)) = Width + 1
           /\ encode_response(tag, v)[1] = tag
<1> USE NumberTypes
<1>1. tag \in Nat /\ v \in Nat
  BY DEF RESP_OK, RESP_ERR, Errno, ChildPid
<1>2. push_u32(v) \in Seq(Nat) /\ Len(push_u32(v)) = Width
  BY <1>1, PushU32Type
<1> QED BY <1>1, <1>2 DEF encode_response

(* The two reads of request_spawn take a response off the stream. *)
LEMMA ResponseRead ==
    ASSUME NEW q, NEW tag \in {RESP_OK, RESP_ERR}, NEW v \in {Errno, ChildPid},
           NEW k \in Jobs \cup {NoJob}, Reply(q, tag, v, k)
    PROVE  LET head == Recv(q, Width)
               body == Recv(head.rest, Number(head.data))
           IN  /\ body.rest = << >> /\ body.fds = k
               /\ decode_response(body.data).tag = IF tag = RESP_OK THEN "ok" ELSE "err"
<1> DEFINE a == push_u32(Width + 1)
           b == encode_response(tag, v)
           head == Recv(q, Width)
           body == Recv(head.rest, Number(head.data))
<1>1. Width \in Nat \ {0} /\ Width + 1 \in 0..(Limit(Width) - 1)
  BY NumberTypes, ResponseAssumption DEF u32
<1>2. a \in Seq(Nat) /\ Len(a) = Width /\ Number(a) = Width + 1
  BY <1>1, PushU32Type, NumberOfDigits DEF push_u32
<1>3. b \in Seq(Nat) /\ Len(b) = Width + 1 /\ b[1] = tag
  BY ReplyTypes
<1>4. q = Segment(a, NoJob) \o Segment(b, k)
  BY DEF Reply
<1> HIDE DEF a, b
<1>5. head.data = a /\ head.rest = Segment(b, k)
  BY <1>2, <1>3, <1>4, HeadRead
<1> HIDE DEF head
<1>6. body = Recv(Segment(b, k), Len(b)) /\ b # << >>
  BY <1>1, <1>2, <1>3, <1>5
<1> HIDE DEF body
<1>7. body.data = b /\ body.fds = k /\ body.rest = << >>
  BY <1>3, <1>6, SegmentRead
<1>8. decode_response(b).tag = IF tag = RESP_OK THEN "ok" ELSE "err"
  <2>1. ~(Len(b) < 1 + Width \/ b[1] \notin {RESP_OK, RESP_ERR})
    BY <1>1, <1>3
  <2> QED BY <1>3, <2>1 DEF decode_response, RESP_OK, RESP_ERR
<1> QED BY <1>7, <1>8 DEF head, body

-----------------------------------------------------------------------------
LEMMA InitSpawn == Init => SpawnInv
<1> SUFFICES ASSUME Init PROVE SpawnInv
  OBVIOUS
<1>1. TypeInv
  BY CutAssumption DEF Init, TypeInv
<1>2. TurnInv
  BY NoJobAssumption DEF Init, TurnInv
<1>3. StreamInv
  BY DigitAssumption DEF Init, StreamInv, Idle, Untouched, Carriers, Only
<1> QED BY <1>1, <1>2, <1>3 DEF SpawnInv

(* A call that returns gives the mutex back. *)
LEMMA ReturnTurn ==
    ASSUME TypeInv, TurnInv, NEW j \in Jobs, lock \in {j, NoJob}, NEW a, Return(j, a)
    PROVE  /\ TurnInv'
           /\ lock' \in Jobs \cup {NoJob} /\ sent' \in Nat
           /\ call' \in [Jobs -> {"ready", "payload", "response", "returned"}]
<1> USE NoJobAssumption
<1>1. lock' = NoJob /\ sent' = 0 /\ call' = [call EXCEPT ![j] = "returned"]
  BY DEF Return
<1>2. call' \in [Jobs -> {"ready", "payload", "response", "returned"}]
  BY <1>1 DEF TypeInv
<1>3. ASSUME NEW k \in Jobs PROVE call'[k] \notin {"payload", "response"}
  BY <1>1 DEF TypeInv, TurnInv
<1> QED BY <1>1, <1>2, <1>3 DEF TurnInv

LEMMA SendPrefixStep ==
    ASSUME SpawnInv, NEW j \in Jobs, SendPrefix(j)
    PROVE  SpawnInv'
<1> USE NoJobAssumption, DigitAssumption DEF SpawnInv
<1> DEFINE t == Segment(push_u32(Len(Payload[j])), NoJob)
<1>1. /\ call[j] = "ready" /\ lock = NoJob /\ lock' = j
      /\ call' = [call EXCEPT ![j] = "payload"]
      /\ up' = up \o t
      /\ UNCHANGED <<segMax, down, sent, srv, prefix, want, fds>>
  BY DEF SendPrefix, serverVars
<1>2. /\ t \in Seq(Unit) /\ Len(t) = Width /\ \A i \in 1..Width : t[i].fds = NoJob
  <2>1. Len(Payload[j]) \in Nat
    BY PayloadType
  <2>2. push_u32(Len(Payload[j])) \in Seq(Nat) /\ Len(push_u32(Len(Payload[j]))) = Width
    BY <2>1, PushU32Type
  <2> QED BY <2>2, SegmentType
<1> HIDE DEF t
<1>3. /\ up' \in Seq(Unit) /\ Len(up') = Len(up) + Width
      /\ \A i \in DOMAIN up' : \/ i \in DOMAIN up /\ up'[i] = up[i]
                              \/ up'[i].fds = NoJob
  <2>1. up \in Seq(Unit)
    BY DEF TypeInv
  <2>2. /\ up \o t \in Seq(Unit) /\ Len(up \o t) = Len(up) + Len(t)
        /\ \A i \in DOMAIN (up \o t) :
              \/ i \in 1..Len(up) /\ (up \o t)[i] = up[i]
              \/ i - Len(up) \in 1..Len(t) /\ (up \o t)[i] = t[i - Len(up)]
    <3>1. t \in Seq(Unit)
      BY <1>2
    <3> QED BY <2>1, <3>1, QueueGrows
  <2> QED BY <1>1, <1>2, <2>1, <2>2
<1>4. TypeInv'
  <2>1. call' \in [Jobs -> {"ready", "payload", "response", "returned"}]
    BY <1>1 DEF TypeInv
  <2> QED BY <1>1, <1>3, <2>1 DEF TypeInv
<1>5. TurnInv'
  BY <1>1 DEF TypeInv, TurnInv
<1>6. StreamInv'
  <2> SUFFICES ASSUME srv' # "exited"
               PROVE  (srv = "prefix" => Len(prefix) < Width) /\ Only(up', j) /\ Asking'
    BY <1>1 DEF StreamInv
  <2>1. (srv = "prefix" => Len(prefix) < Width) /\ Only(up, NoJob) /\ Idle
    BY <1>1 DEF StreamInv, Asking, Queued, Served, Answered
  <2>2. Only(up', j) /\ Carriers(up') = {}
    BY <1>3, <2>1 DEF Only, Carriers
  <2>3. Len(prefix) \in Nat /\ Len(up) \in Nat
    BY DEF TypeInv
  <2>4. Len(prefix) + Len(up') >= Width
    BY <1>3, <2>3
  <2>5. sent = 0
    BY <1>1 DEF TurnInv
  <2> QED BY <1>1, <2>1, <2>2, <2>4, <2>5 DEF Asking, Idle, Untouched
<1> QED BY <1>4, <1>5, <1>6

(* How far the payload of a call is sent after the next segment. *)
LEMMA SegmentEnd ==
    ASSUME TypeInv, NEW j \in Jobs
    PROVE  LET end == Min({sent + segMax, Len(Payload[j])})
               data == SubSeq(Payload[j], sent + 1, end)
           IN  end \in Nat \ {0} /\ data \in Seq(Nat) /\ (sent = 0 => Len(data) = end)
<1> DEFINE P == Payload[j]
           end == Min({sent + segMax, Len(P)})
<1>1. P \in Seq(Nat) /\ Len(P) \in Nat \ {0} /\ sent + segMax \in Nat \ {0} /\ sent \in Nat
  BY PayloadType, NumberTypes DEF TypeInv
<1>2. end \in {sent + segMax, Len(P)} /\ end <= Len(P)
  BY <1>1, MinIsLeast
<1> HIDE DEF P, end
<1>3. end \in Nat \ {0} /\ end <= Len(P)
  BY <1>1, <1>2
<1>4. SubSeq(P, sent + 1, end) \in Seq(Nat) /\ (sent = 0 => Len(SubSeq(P, sent + 1, end)) = end)
  BY <1>1, <1>3, SubSeqProperties
<1> QED BY <1>3, <1>4 DEF P, end

LEMMA SendPayloadStep ==
    ASSUME SpawnInv, NEW j \in Jobs, SendPayload(j)
    PROVE  SpawnInv'
<1> USE NoJobAssumption, DigitAssumption DEF SpawnInv
<1> DEFINE end == Min({sent + segMax, Len(Payload[j])})
           data == SubSeq(Payload[j], sent + 1, end)
           k == IF sent = 0 THEN j ELSE NoJob
           t == Segment(data, k)
<1>1. /\ call[j] = "payload" /\ lock = j /\ lock' = j
      /\ call' = [call EXCEPT ![j] = IF end = Len(Payload[j]) THEN "response" ELSE "payload"]
      /\ up' = up \o t /\ sent' = end
      /\ UNCHANGED <<segMax, down, srv, prefix, want, fds>>
  BY DEF SendPayload, serverVars, TurnInv
<1>2. end \in Nat \ {0} /\ data \in Seq(Nat) /\ (sent = 0 => Len(data) = end)
  BY SegmentEnd
<1> HIDE DEF end, data
<1>3. /\ t \in Seq(Unit) /\ (sent = 0 => Len(t) # 0) /\ Len(t) \in Nat
      /\ \A i \in 1..Len(t) : t[i].fds = k
  BY <1>2, SegmentType
<1> HIDE DEF t
<1>4. up \in Seq(Unit) /\ Len(up) \in Nat /\ Len(prefix) \in Nat
  BY DEF TypeInv
<1>5. /\ up' \in Seq(Unit) /\ Len(up') = Len(up) + Len(t)
      /\ \A i \in DOMAIN up : i \in DOMAIN up' /\ up'[i] = up[i]
      /\ \A i \in 1..Len(t) : Len(up) + i \in DOMAIN up' /\ up'[Len(up) + i].fds = k
      /\ \A i \in DOMAIN up' : i \in DOMAIN up \/ (i > Len(up) /\ up'[i].fds = k)
  <2>1. /\ up \o t \in Seq(Unit) /\ Len(up \o t) = Len(up) + Len(t)
        /\ \A i \in 1..Len(up) : i \in DOMAIN (up \o t) /\ (up \o t)[i] = up[i]
        /\ \A i \in 1..Len(t) : /\ Len(up) + i \in DOMAIN (up \o t)
                                /\ (up \o t)[Len(up) + i] = t[i]
        /\ \A i \in DOMAIN (up \o t) :
              \/ i \in 1..Len(up)
              \/ i > Len(up) /\ i - Len(up) \in 1..Len(t) /\ (up \o t)[i] = t[i - Len(up)]
    BY SMTT(40), <1>3, <1>4
  <2> QED BY <1>1, <1>3, <1>4, <2>1
<1>6. TypeInv'
  <2>1. call' \in [Jobs -> {"ready", "payload", "response", "returned"}]
    BY <1>1 DEF TypeInv
  <2> QED BY <1>1, <1>2, <1>5, <2>1 DEF TypeInv
<1>7. TurnInv'
  <2>1. ASSUME NEW i \in Jobs PROVE call'[i] \in {"payload", "response"} <=> j = i
    BY <1>1 DEF TypeInv, TurnInv
  <2> QED BY <1>1, <1>2, <2>1 DEF TurnInv
<1>8. StreamInv'
  <2> SUFFICES ASSUME srv' # "exited"
               PROVE  /\ srv = "prefix" => Len(prefix) < Width
                      /\ Only(up', j)
                      /\ Queued' \/ Served' \/ Answered'
    BY <1>1 DEF StreamInv
  <2>1. /\ srv = "prefix" => Len(prefix) < Width
        /\ Only(up, j)
        /\ Asking \/ Queued \/ Served \/ Answered
    BY <1>1 DEF StreamInv, Idle
  <2>2. Only(up', j)
    BY <1>5, <2>1 DEF Only
  <2>3. sent' > 0 /\ lock' # NoJob
    BY <1>1, <1>2
  <2>4. ASSUME Asking PROVE Queued'
    <3>1. sent = 0 /\ k = j /\ Carriers(up) = {} /\ down = << >> /\ srv # "request"
          /\ (srv = "prefix" => Len(prefix) + Len(up) >= Width)
      BY <2>4 DEF Asking, Untouched
    <3>2. Len(up) + 1 \in Carriers(up')
      BY <1>3, <1>5, <3>1 DEF Carriers
    <3>3. ASSUME NEW i \in Carriers(up') PROVE i > Len(up)
      <4>1. i \notin DOMAIN up
        BY <1>5, <3>1 DEF Carriers
      <4> QED BY <1>5, <4>1 DEF Carriers
    <3>4. ASSUME srv = "prefix", NEW i \in Carriers(up') PROVE Len(prefix) + i > Width
      <4>1. i \in Nat
        BY <1>5 DEF Carriers
      <4> QED BY <1>4, <3>1, <3>3, <3>4, <4>1
    <3>5. Carriers(up)' # {} /\ \A i \in Carriers(up)' : i \in Carriers(up')
      BY <3>2 DEF Carriers
    <3>6. Queued'
      <4>1. down' = << >> /\ srv' # "request" /\ sent' > 0 /\ lock' # NoJob
        BY <1>1, <2>3, <3>1
      <4>2. ASSUME srv' = "prefix", NEW i \in Carriers(up)' PROVE Len(prefix)' + i > Width
        BY <1>1, <3>4, <3>5, <4>2
      <4> QED BY <3>5, <4>1, <4>2 DEF Queued
    <3> QED BY <3>6
  <2>5. ASSUME sent > 0 PROVE Queued' \/ Served' \/ Answered'
    <3>1. k = NoJob
      BY <2>5
    <3>2. Carriers(up)' = Carriers(up)
      BY <1>5, <3>1 DEF Carriers
    <3>3. Asking => FALSE
      BY <2>5 DEF Asking
    <3>4. CASE Queued
      BY <1>1, <2>3, <3>2, <3>4 DEF Queued
    <3>5. CASE Served
      BY <1>1, <2>3, <3>2, <3>5 DEF Served
    <3>6. CASE Answered
      <4>1. Response(down, lock)' = Response(down, lock)
        BY <1>1 DEF Response
      <4> QED BY <1>1, <2>3, <3>2, <3>6, <4>1 DEF Answered, Untouched
    <3> QED BY <2>1, <3>3, <3>4, <3>5, <3>6
  <2>6. sent > 0 \/ Asking
    BY <2>1 DEF Queued, Served, Answered
  <2> QED BY <2>1, <2>2, <2>4, <2>5, <2>6
<1> QED BY <1>6, <1>7, <1>8

LEMMA SendFailsStep ==
    ASSUME SpawnInv, NEW j \in Jobs, SendFails(j)
    PROVE  SpawnInv'
<1> USE DEF SpawnInv
<1>1. /\ Return(j, "broken") /\ srv = "exited" /\ (call[j] = "payload" \/ lock = NoJob)
      /\ UNCHANGED <<segMax, up, srv, prefix, want, fds>>
  BY DEF SendFails, serverVars, Open
<1>2. lock \in {j, NoJob}
  BY <1>1 DEF TurnInv
<1>3. TypeInv' /\ TurnInv'
  BY <1>1, <1>2, ReturnTurn DEF TypeInv
<1>4. StreamInv'
  BY <1>1 DEF StreamInv
<1> QED BY <1>3, <1>4

LEMMA ReceiveEofStep ==
    ASSUME SpawnInv, NEW j \in Jobs, ReceiveEof(j)
    PROVE  SpawnInv'
<1> USE DEF SpawnInv
<1>1. /\ Return(j, "broken") /\ srv = "exited" /\ call[j] = "response"
      /\ UNCHANGED <<segMax, up, srv, prefix, want, fds>>
  BY DEF ReceiveEof, serverVars, Open
<1>2. lock \in {j, NoJob}
  BY <1>1 DEF TurnInv
<1>3. TypeInv' /\ TurnInv'
  BY <1>1, <1>2, ReturnTurn DEF TypeInv
<1>4. StreamInv'
  BY <1>1 DEF StreamInv
<1> QED BY <1>3, <1>4

(* With its response a call takes all there is on the stream. *)
LEMMA ReceiveResponseStep ==
    ASSUME SpawnInv, NEW j \in Jobs, ReceiveResponse(j)
    PROVE  SpawnInv'
<1> USE NoJobAssumption DEF SpawnInv
<1> DEFINE head == Recv(down, Width)
           body == Recv(head.rest, Number(head.data))
<1>1. PICK a : Return(j, a)
  BY DEF ReceiveResponse
<1>2. /\ call[j] = "response" /\ down # << >> /\ down' = body.rest
      /\ UNCHANGED <<segMax, up, srv, prefix, want, fds>>
  BY DEF ReceiveResponse, serverVars
<1> HIDE DEF head, body
<1>3. lock = j /\ sent > 0
  BY <1>2 DEF TurnInv
<1>4. TypeInv' /\ TurnInv'
  BY <1>1, <1>2, <1>3, ReturnTurn DEF TypeInv
<1>5. StreamInv'
  <2> SUFFICES ASSUME srv # "exited"
               PROVE  (srv = "prefix" => Len(prefix) < Width) /\ Only(up, NoJob) /\ Idle'
    <3>1. lock' = NoJob
      BY <1>1 DEF Return
    <3>2. Only(up, NoJob) => Only(up, lock)'
      BY <1>2, <3>1 DEF Only
    <3> QED BY <1>2, <3>2 DEF StreamInv
  <2>1. (srv = "prefix" => Len(prefix) < Width) /\ Answered
    BY <1>2, <1>3 DEF StreamInv, Idle, Asking, Queued, Served
  <2>2. Carriers(up) = {} /\ srv # "request" /\ Response(down, j)
    BY <1>3, <2>1 DEF Answered, Untouched
  <2>3. Only(up, NoJob)
    BY <2>2 DEF Only, Carriers
  <2>4. down' = << >>
    <3>1. PICK tag \in {RESP_OK, RESP_ERR}, v \in {Errno, ChildPid}, k \in {NoJob, j} :
              Reply(down, tag, v, k)
      BY <2>2 DEF Response
    <3> QED BY <1>2, <3>1, ResponseRead DEF head, body
  <2>5. Carriers(up)' = {}
    BY <1>2, <2>2 DEF Carriers
  <2>6. Idle'
    BY <1>1, <1>2, <2>2, <2>4, <2>5 DEF Idle, Untouched, Return
  <2> QED BY <2>1, <2>3, <2>6
<1> QED BY <1>4, <1>5

-----------------------------------------------------------------------------
LEMMA ReadPrefixStep ==
    ASSUME SpawnInv, ReadPrefix
    PROVE  SpawnInv'
<1> USE NoJobAssumption, DigitAssumption DEF SpawnInv
<1> DEFINE n == Width - Len(prefix)
           data == Recv(up, n).data
           rest == Recv(up, n).rest
           got == prefix \o data
<1>1. /\ srv = "prefix" /\ up # << >> /\ up' = rest /\ prefix' = got
      /\ IF Len(got) = Width THEN srv' = "payload" /\ want' = Number(got)
                             ELSE UNCHANGED <<srv, want>>
      /\ UNCHANGED <<segMax, down, lock, call, sent, fds>>
  BY DEF ReadPrefix, hostVars
<1>2. /\ up \in Seq(Unit) /\ prefix \in Seq(Nat) /\ Len(prefix) \in Nat /\ Len(up) \in Nat
  BY DEF TypeInv
<1>3. /\ Len(prefix) < Width /\ Only(up, lock)
      /\ Idle \/ Asking \/ Queued \/ Answered
  BY <1>1 DEF StreamInv, Served
<1>4. n \in Nat \ {0}
  BY <1>2, <1>3
<1> HIDE DEF n
<1>5. /\ data \in Seq(Nat) /\ Len(data) <= n
      /\ rest \in Seq(Unit) /\ Only(rest, lock)
      /\ Len(data) + Len(rest) = Len(up)
      /\ Carriers(up) = {} => Carriers(rest) = {}
      /\ (\A i \in Carriers(up) : i > n) /\ Carriers(up) # {} /\ n > 0 =>
            Len(data) = n /\ Carriers(rest) # {}
  BY <1>1, <1>2, <1>3, <1>4, RecvType
<1> HIDE DEF data, rest
<1>6. got \in Seq(Nat) /\ Len(got) = Len(prefix) + Len(data) /\ Len(got) <= Width
      /\ Len(data) \in Nat /\ Len(rest) \in Nat
  BY <1>2, <1>5 DEF n
<1> HIDE DEF got
<1>7. TypeInv'
  <2>1. want' \in Nat /\ srv' \in {"prefix", "payload"}
    BY <1>1, <1>6, NumberType DEF TypeInv
  <2> QED BY <1>1, <1>5, <1>6, <2>1 DEF TypeInv
<1>8. TurnInv'
  BY <1>1 DEF TurnInv
<1>9. StreamInv'
  <2>1. srv' # "request" /\ (srv' = "prefix" => Len(prefix') < Width)
    BY <1>1, <1>6
  <2>2. Only(up, lock)'
    BY <1>1, <1>5 DEF Only
  <2>3. Carriers(up)' = Carriers(rest)
    BY <1>1 DEF Carriers
  <2>4. Carriers(up) = {} => Untouched'
    BY <1>5, <2>1, <2>3 DEF Untouched
  <2>5. ASSUME Idle PROVE Idle'
    BY <1>1, <2>4, <2>5 DEF Idle, Untouched
  <2>6. ASSUME Asking PROVE Asking'
    <3>1. Len(prefix) + Len(up) >= Width /\ lock # NoJob /\ sent = 0 /\ down = << >>
          /\ Carriers(up) = {}
      BY <1>1, <2>6 DEF Asking, Untouched
    <3>2. Len(prefix') + Len(up') >= Width
      <4>1. Len(prefix') = Len(prefix) + Len(data) /\ Len(up') = Len(rest)
        BY <1>1, <1>6
      <4>2. Len(prefix') + Len(up') = Len(prefix) + Len(up)
        <5>1. Len(data) + Len(rest) = Len(up)
          BY <1>5
        <5>2. Len(prefix) \in Nat /\ Len(data) \in Nat /\ Len(rest) \in Nat
          BY <1>2, <1>6
        <5> QED BY <4>1, <5>1, <5>2
      <4> QED BY <3>1, <4>2
    <3> QED BY <1>1, <2>4, <3>1, <3>2 DEF Asking
  <2>7. ASSUME Queued PROVE Queued'
    <3>1. /\ \A i \in Carriers(up) : Len(prefix) + i > Width
          /\ Carriers(up) # {} /\ lock # NoJob /\ sent > 0 /\ down = << >>
      BY <1>1, <2>7 DEF Queued
    <3>2. ASSUME NEW i \in Carriers(up) PROVE i > n
      <4>1. i \in Nat
        BY <1>2 DEF Carriers
      <4> QED BY <1>2, <3>1, <4>1 DEF n
    <3>3. Len(data) = n /\ Carriers(rest) # {}
      BY <1>4, <1>5, <3>1, <3>2
    <3>4. srv' = "payload"
      BY <1>1, <1>2, <1>6, <3>3 DEF n
    <3> QED BY <1>1, <2>3, <3>1, <3>3, <3>4 DEF Queued
  <2>8. ASSUME Answered PROVE Answered'
    <3>1. Response(down, lock)' = Response(down, lock)
      BY <1>1 DEF Response
    <3> QED BY <1>1, <2>4, <2>8, <3>1 DEF Answered, Untouched
  <2> QED BY <1>3, <2>1, <2>2, <2>5, <2>6, <2>7, <2>8 DEF StreamInv
<1> QED BY <1>7, <1>8, <1>9

LEMMA ReadPayloadStep ==
    ASSUME SpawnInv, ReadPayload
    PROVE  SpawnInv'
<1> USE NoJobAssumption DEF SpawnInv
<1> DEFINE rest == Recv(up, want).rest
           came == Recv(up, want).fds
<1>1. /\ srv = "payload" /\ up # << >> /\ up' = rest
      /\ IF came = NoJob THEN ServerExits
                         ELSE srv' = "request" /\ fds' = came /\ UNCHANGED <<prefix, want>>
      /\ UNCHANGED <<segMax, down, lock, call, sent>>
  BY DEF ReadPayload, hostVars
<1>2. up \in Seq(Unit) /\ want \in Nat
  BY DEF TypeInv
<1>3. Only(up, lock) /\ (Idle \/ Asking \/ Queued \/ Answered)
  BY <1>1 DEF StreamInv, Served
<1>4. /\ rest \in Seq(Unit) /\ Only(rest, lock) /\ came \in {NoJob, lock}
      /\ came # NoJob => Carriers(rest) = {}
      /\ Carriers(up) = {} => came = NoJob
  BY <1>1, <1>2, <1>3, RecvType
<1> HIDE DEF rest, came
<1>5. TypeInv'
  <2>1. CASE came = NoJob
    BY <1>1, <1>4, <2>1 DEF TypeInv, ServerExits
  <2>2. CASE came # NoJob
    BY <1>1, <1>4, <2>2 DEF TypeInv
  <2> QED BY <2>1, <2>2
<1>6. TurnInv'
  BY <1>1 DEF TurnInv
<1>7. StreamInv'
  <2> SUFFICES ASSUME srv' # "exited"
               PROVE  srv' # "prefix" /\ Only(up, lock)' /\ Served'
    BY DEF StreamInv
  <2>1. came # NoJob
    BY <1>1 DEF ServerExits
  <2>2. srv' = "request" /\ fds' = lock /\ Carriers(rest) = {} /\ Queued
    BY <1>1, <1>3, <1>4, <2>1 DEF Idle, Asking, Answered, Untouched
  <2>3. Only(up, lock)' /\ Carriers(up)' = {}
    BY <1>1, <1>4, <2>2 DEF Only, Carriers
  <2>4. lock # NoJob /\ sent > 0 /\ down = << >>
    BY <2>2 DEF Queued
  <2>5. Served'
    BY <1>1, <2>2, <2>3, <2>4 DEF Served
  <2> QED BY <2>2, <2>3, <2>5
<1> QED BY <1>5, <1>6, <1>7

(* The server's answer is whole, and it is all there is. *)
LEMMA RespondStep ==
    ASSUME SpawnInv, srv = "request", UNCHANGED <<segMax, up, lock, call, sent>>,
           NEW tag \in {RESP_OK, RESP_ERR}, NEW v \in {Errno, ChildPid},
           NEW k \in {NoJob, fds}, Respond(tag, v, k)
    PROVE  SpawnInv'
<1> USE NoJobAssumption, DigitAssumption DEF SpawnInv
<1>1. /\ srv' = "prefix" /\ prefix' = << >> /\ want' = 0 /\ fds' = NoJob
      /\ down' = down \o Segment(push_u32(Len(encode_response(tag, v))), NoJob)
                      \o Segment(encode_response(tag, v), k)
  BY DEF Respond
<1>2. TypeInv'
  BY <1>1 DEF TypeInv
<1>3. TurnInv'
  BY DEF TurnInv
<1>4. StreamInv'
  <2>1. Served /\ Only(up, lock)
    BY DEF StreamInv, Idle, Asking, Queued, Answered, Untouched
  <2>2. /\ lock # NoJob /\ sent > 0 /\ down = << >> /\ fds = lock /\ Carriers(up) = {}
        /\ lock \in Jobs
    BY <2>1 DEF Served, TypeInv
  <2>3. tag \in Nat /\ push_u32(v) \in Seq(Nat) /\ Len(push_u32(v)) = Width
    <3>1. tag \in Nat /\ v \in Nat
      BY DEF RESP_OK, RESP_ERR, Errno, ChildPid
    <3> QED BY <3>1, PushU32Type
  <2>4. encode_response(tag, v) \in Seq(Nat) /\ Len(encode_response(tag, v)) = Width + 1
    BY <2>3 DEF encode_response
  <2>5. push_u32(Width + 1) \in Seq(Nat)
    BY PushU32Type
  <2>6. /\ Segment(push_u32(Width + 1), NoJob) \in Seq(Unit)
        /\ Segment(encode_response(tag, v), k) \in Seq(Unit)
    BY <2>2, <2>4, <2>5, SegmentType
  <2>7. down' = Segment(push_u32(Width + 1), NoJob) \o Segment(encode_response(tag, v), k)
    <3>1. down' = << >> \o Segment(push_u32(Width + 1), NoJob)
                      \o Segment(encode_response(tag, v), k)
      BY <1>1, <2>2, <2>4
    <3>2. << >> \o Segment(push_u32(Width + 1), NoJob) = Segment(push_u32(Width + 1), NoJob)
      BY <2>6
    <3> QED BY <3>1, <3>2
  <2>8. Response(down, lock)'
    <3>1. Response(down', lock)
      BY <2>2, <2>7 DEF Response, Reply
    <3> QED BY <3>1 DEF Response, Reply
  <2>9. Only(up, lock)' /\ Carriers(up)' = {}
    BY <2>1, <2>2 DEF Only, Carriers
  <2>10. Answered'
    BY <1>1, <2>2, <2>8, <2>9 DEF Answered, Untouched
  <2>11. Len(prefix') < Width
    BY <1>1
  <2> QED BY <2>9, <2>10, <2>11 DEF StreamInv
<1> QED BY <1>2, <1>3, <1>4

LEMMA AbortStep ==
    ASSUME SpawnInv, Abort
    PROVE  SpawnInv'
<1> USE DEF SpawnInv
<1>1. ServerExits /\ UNCHANGED <<segMax, up, lock, call, sent>>
  BY DEF Abort, hostVars
<1>2. TypeInv'
  BY <1>1 DEF TypeInv, ServerExits
<1>3. TurnInv'
  BY <1>1 DEF TurnInv
<1>4. StreamInv'
  BY <1>1 DEF StreamInv, ServerExits
<1> QED BY <1>2, <1>3, <1>4

LEMMA ServerSpawn ==
    ASSUME SpawnInv, ServerStep
    PROVE  SpawnInv'
<1>1. CASE ReadPrefix
  BY <1>1, ReadPrefixStep
<1>2. CASE ReadPayload
  BY <1>2, ReadPayloadStep
<1>3. CASE Refuse
  BY <1>3, RespondStep DEF Refuse, hostVars
<1>4. CASE Abort
  BY <1>4, AbortStep
<1>5. CASE AssignFails
  BY <1>5, RespondStep DEF AssignFails, hostVars
<1>6. CASE Start
  BY <1>6, RespondStep DEF Start, hostVars
<1> QED BY <1>1, <1>2, <1>3, <1>4, <1>5, <1>6 DEF ServerStep

LEMMA NextSpawn == SpawnInv /\ [Next]_vars => SpawnInv'
<1> SUFFICES ASSUME SpawnInv, [Next]_vars PROVE SpawnInv'
  OBVIOUS
<1>1. CASE ServerStep
  BY <1>1, ServerSpawn
<1>2. ASSUME NEW j \in Jobs, HostStep(j) PROVE SpawnInv'
  BY <1>2, SendPrefixStep, SendPayloadStep, SendFailsStep, ReceiveResponseStep, ReceiveEofStep
     DEF HostStep
<1>3. CASE UNCHANGED vars
  BY <1>3 DEF vars, hostVars, serverVars, SpawnInv, TypeInv, TurnInv, StreamInv, Only, Idle,
              Asking, Queued, Served, Answered, Untouched, Carriers, Response
<1> QED BY <1>1, <1>2, <1>3 DEF Next

(***************************************************************************)
(* At every moment what there is of a call's request and of its response   *)
(* is in one place of five, whatever the requests, however the kernel cuts *)
(* them and whatever an earlier one left on the stream (request_spawn,     *)
(* handle_one_request).                                                    *)
(***************************************************************************)
THEOREM SpawnCorrect == Spec => []SpawnInv
<1> QED BY InitSpawn, NextSpawn, PTL DEF Spec

LEMMA Moves == SpawnInv => NoStandstill
<1> SUFFICES ASSUME SpawnInv, NEW j \in Jobs, call[j] = "response", srv # "exited"
             PROVE  up # << >> \/ down # << >> \/ srv = "request"
  BY DEF NoStandstill
<1>1. lock = j /\ sent > 0
  BY DEF SpawnInv, TurnInv
<1>2. Queued \/ Served \/ Answered
  BY <1>1, NoJobAssumption DEF SpawnInv, StreamInv, Idle, Asking
<1>3. CASE Queued
  BY <1>3 DEF Queued, Carriers
<1>4. CASE Served
  BY <1>4 DEF Served
<1>5. CASE Answered
  BY <1>1, <1>5, ResponseType DEF Answered
<1> QED BY <1>2, <1>3, <1>4, <1>5

(***************************************************************************)
(* Host and server never wait for each other: while a call waits for its   *)
(* response, something is on one of the streams, or the server is at work, *)
(* or it is gone (request_spawn, handle_one_request).                      *)
(***************************************************************************)
THEOREM StandstillFree == Spec => []NoStandstill
<1> QED BY SpawnCorrect, Moves, PTL

-----------------------------------------------------------------------------
(***************************************************************************)
(* What a call is told, or is about to be.                                 *)
(***************************************************************************)
Told(q, j) ==
    IF started[j] = {} THEN Reply(q, RESP_ERR, Errno, NoJob)
                       ELSE Reply(q, RESP_OK, ChildPid, j)

ExchangeInv ==
    /\ answer \in [Jobs -> {"none", "child", "refused", "broken"}]
    /\ started = [j \in Jobs |-> started[j]]
    /\ \A j \in Jobs : answer[j] = "none" <=> call[j] # "returned"
    /\ \A j \in Jobs : call[j] = "ready" => started[j] = {}
    /\ lock = NoJob => down = << >> \/ ~Open
    /\ lock # NoJob => (down = << >> /\ started[lock] = {}) \/ Told(down, lock)

CoreInv == SpawnInv /\ ExchangeInv

LEMMA ReplyNotEmpty ==
    ASSUME NEW tag \in {RESP_OK, RESP_ERR}, NEW v \in {Errno, ChildPid},
           NEW k \in Jobs \cup {NoJob}
    PROVE  ~Reply(<< >>, tag, v, k)
<1> SUFFICES ASSUME Reply(<< >>, tag, v, k) PROVE FALSE
  OBVIOUS
<1> DEFINE s == Segment(push_u32(Width + 1), NoJob)
           t == Segment(encode_response(tag, v), k)
<1>1. << >> = s \o t
  BY DEF Reply
<1>2. push_u32(Width + 1) \in Seq(Nat) /\ Len(push_u32(Width + 1)) = Width
      /\ Width \in Nat \ {0}
  BY PushU32Type, NumberTypes
<1>3. encode_response(tag, v) \in Seq(Nat)
  BY ReplyTypes
<1>4. s \in Seq(Unit) /\ Len(s) = Width /\ t \in Seq(Unit)
  BY <1>2, <1>3, SegmentType
<1> HIDE DEF s, t
<1>5. Len(s \o t) = Len(s) + Len(t)
  <2>1. s \in Seq(Unit) /\ t \in Seq(Unit)
    BY <1>4
  <2> QED BY <2>1, QueueGrows
<1>6. Len(t) \in Nat
  BY <1>4
<1>7. Len(s \o t) = 0
  BY <1>1
<1> HIDE DEF Unit
<1> QED BY <1>2, <1>4, <1>5, <1>6, <1>7

LEMMA InitCore == Init => CoreInv
<1> SUFFICES ASSUME Init PROVE ExchangeInv
  BY InitSpawn DEF CoreInv
<1> QED BY DEF Init, ExchangeInv

(* A call that has its response is told what became of its request. *)
LEMMA ReceiveResponseTells ==
    ASSUME CoreInv, NEW j \in Jobs, ReceiveResponse(j)
    PROVE  /\ lock = j /\ call[j] = "response" /\ down' = << >>
           /\ Return(j, IF started[j] # {} THEN "child" ELSE "refused")
<1> USE NoJobAssumption DEF CoreInv
<1> DEFINE head == Recv(down, Width)
           body == Recv(head.rest, Number(head.data))
           resp == decode_response(body.data)
<1>1. /\ call[j] = "response" /\ down # << >> /\ down' = body.rest
      /\ Return(j, CASE resp.tag = "ok" /\ body.fds # NoJob -> "child"
                     [] resp.tag = "err"                    -> "refused"
                     [] OTHER                               -> "broken")
  BY DEF ReceiveResponse
<1>2. lock = j
  BY <1>1 DEF SpawnInv, TurnInv
<1>3. Told(down, j)
  BY <1>1, <1>2 DEF ExchangeInv
<1>4. CASE started[j] = {}
  <2>1. Reply(down, RESP_ERR, Errno, NoJob)
    BY <1>3, <1>4 DEF Told
  <2>2. RESP_ERR # RESP_OK
    BY DEF RESP_OK, RESP_ERR
  <2>3. body.rest = << >> /\ resp.tag = "err"
    BY <2>1, <2>2, ResponseRead
  <2> HIDE DEF body, resp
  <2> QED BY <1>1, <1>2, <1>4, <2>3
<1>5. CASE started[j] # {}
  <2>1. Reply(down, RESP_OK, ChildPid, j)
    BY <1>3, <1>5 DEF Told
  <2>2. body.rest = << >> /\ body.fds = j /\ resp.tag = "ok"
    BY <2>1, ResponseRead
  <2> HIDE DEF body, resp
  <2> QED BY <1>1, <1>2, <1>5, <2>2
<1> QED BY <1>4, <1>5

(* What a call that returns leaves. *)
LEMMA ReturnCore ==
    ASSUME CoreInv, NEW j \in Jobs, lock \in {j, NoJob},
           NEW a \in {"child", "refused", "broken"}, Return(j, a), UNCHANGED started,
           down' = << >> \/ ~Open'
    PROVE  ExchangeInv'
<1> USE NoJobAssumption DEF CoreInv
<1>1. /\ lock' = NoJob /\ call' = [call EXCEPT ![j] = "returned"]
      /\ answer' = [answer EXCEPT ![j] = a]
  BY DEF Return
<1>2. call \in [Jobs -> {"ready", "payload", "response", "returned"}]
  BY DEF SpawnInv, TypeInv
<1>3. answer' \in [Jobs -> {"none", "child", "refused", "broken"}]
  BY <1>1 DEF ExchangeInv
<1>4. ASSUME NEW k \in Jobs
      PROVE  /\ answer'[k] = "none" <=> call'[k] # "returned"
             /\ call'[k] = "ready" => started'[k] = {}
  BY <1>1, <1>2 DEF ExchangeInv
<1>5. started' = [k \in Jobs |-> started[k]]'
  BY DEF ExchangeInv
<1> QED BY <1>1, <1>3, <1>4, <1>5 DEF ExchangeInv

LEMMA HostCore ==
    ASSUME CoreInv, NEW j \in Jobs, HostStep(j)
    PROVE  ExchangeInv'
<1> USE NoJobAssumption DEF CoreInv
<1>0. call \in [Jobs -> {"ready", "payload", "response", "returned"}]
  BY DEF SpawnInv, TypeInv
<1>1. CASE SendPrefix(j)
  <2>1. /\ call[j] = "ready" /\ lock = NoJob /\ Open /\ lock' = j
        /\ call' = [call EXCEPT ![j] = "payload"]
        /\ UNCHANGED <<down, answer, started>>
    BY <1>1 DEF SendPrefix
  <2>2. down = << >> /\ started[j] = {}
    BY <2>1 DEF ExchangeInv
  <2>3. ASSUME NEW k \in Jobs
        PROVE  /\ answer'[k] = "none" <=> call'[k] # "returned"
               /\ call'[k] = "ready" => started'[k] = {}
    BY <1>0, <2>1 DEF ExchangeInv
  <2> QED BY <2>1, <2>2, <2>3 DEF ExchangeInv
<1>2. CASE SendPayload(j)
  <2>1. PICK c \in {"payload", "response"} : call' = [call EXCEPT ![j] = c]
    BY <1>2 DEF SendPayload
  <2>2. call[j] = "payload" /\ lock = j /\ UNCHANGED <<down, lock, answer, started>>
    BY <1>2 DEF SendPayload, SpawnInv, TurnInv
  <2>3. ASSUME NEW k \in Jobs
        PROVE  /\ answer'[k] = "none" <=> call'[k] # "returned"
               /\ call'[k] = "ready" => started'[k] = {}
    BY <1>0, <2>1, <2>2 DEF ExchangeInv
  <2>4. Told(down, lock)' = Told(down, lock)
    BY <2>2 DEF Told, Reply
  <2> QED BY <2>2, <2>3, <2>4 DEF ExchangeInv
<1>3. CASE SendFails(j) \/ ReceiveEof(j)
  <2>1. Return(j, "broken") /\ ~Open /\ UNCHANGED <<srv, stuck, started>>
        /\ (call[j] \in {"payload", "response"} \/ lock = NoJob)
    BY <1>3 DEF SendFails, ReceiveEof, serverVars
  <2>2. ~Open' /\ lock \in {j, NoJob}
    BY <2>1 DEF Open, SpawnInv, TurnInv
  <2> QED BY <2>1, <2>2, ReturnCore
<1>4. CASE ReceiveResponse(j)
  <2>1. lock = j /\ down' = << >> /\ UNCHANGED started
        /\ Return(j, IF started[j] # {} THEN "child" ELSE "refused")
    BY <1>4, ReceiveResponseTells DEF ReceiveResponse
  <2> QED BY <2>1, ReturnCore
<1> QED BY <1>1, <1>2, <1>3, <1>4 DEF HostStep

(* A request with the server is that of the holder of the mutex. *)
LEMMA AtServer ==
    ASSUME CoreInv, srv = "request"
    PROVE  /\ Served /\ lock \in Jobs /\ fds = lock /\ down = << >> /\ started[lock] = {}
           /\ sent > 0
<1>1. Served
  BY DEF CoreInv, SpawnInv, StreamInv, Idle, Asking, Queued, Answered, Untouched
<1>2. lock \in Jobs /\ fds = lock /\ down = << >> /\ sent > 0
  BY <1>1 DEF Served, CoreInv, SpawnInv, TypeInv
<1>3. ~Told(<< >>, lock)
  BY <1>2, ReplyNotEmpty DEF Told
<1>4. started[lock] = {}
  BY <1>1, <1>2, <1>3 DEF Served, CoreInv, ExchangeInv
<1> QED BY <1>1, <1>2, <1>4

(* What is on the stream once the server has answered. *)
LEMMA RespondTells ==
    ASSUME CoreInv, srv = "request",
           NEW tag \in {RESP_OK, RESP_ERR}, NEW v \in {Errno, ChildPid},
           NEW k \in {NoJob, fds}, Respond(tag, v, k)
    PROVE  Reply(down', tag, v, k)
<1>1. down = << >> /\ fds \in Jobs
  BY AtServer
<1> DEFINE a == push_u32(Len(encode_response(tag, v)))
           b == encode_response(tag, v)
           s == Segment(a, NoJob)
           t == Segment(b, k)
<1>2. down' = (down \o s) \o t
  BY DEF Respond
<1>3. b \in Seq(Nat) /\ Len(b) = Width + 1
  BY ReplyTypes
<1>4. a = push_u32(Width + 1) /\ a \in Seq(Nat)
  BY <1>3, PushU32Type, NumberTypes
<1>5. s \in Seq(Unit)
  BY <1>4, SegmentType
<1> HIDE DEF s
<1>6. down \o s = s
  BY <1>1, <1>5
<1> QED BY <1>2, <1>4, <1>6 DEF s, Reply

LEMMA ServerCore ==
    ASSUME CoreInv, ServerStep
    PROVE  ExchangeInv'
<1> USE NoJobAssumption DEF CoreInv
<1>1. ASSUME UNCHANGED <<down, hostVars, stuck, started>>, Open
      PROVE  ExchangeInv'
  <2>1. UNCHANGED <<down, lock, call, answer, started>>
    BY <1>1 DEF hostVars
  <2>2. Told(down, lock)' = Told(down, lock)
    BY <2>1 DEF Told, Reply
  <2>3. lock = NoJob => down = << >>
    BY <1>1 DEF ExchangeInv
  <2> QED BY <2>1, <2>2, <2>3 DEF ExchangeInv
<1>2. CASE ReadPrefix \/ ReadPayload \/ Abort
  <2>1. UNCHANGED <<down, hostVars, stuck, started>> /\ Open
    BY <1>2 DEF ReadPrefix, ReadPayload, Abort, Open
  <2> QED BY <1>1, <2>1
<1>3. CASE Refuse \/ AssignFails
  <2>1. srv = "request" /\ Respond(RESP_ERR, Errno, NoJob) /\ UNCHANGED <<hostVars, started>>
    BY <1>3 DEF Refuse, AssignFails
  <2>2. lock \in Jobs /\ started[lock] = {} /\ UNCHANGED <<lock, call, answer, started>>
    BY <2>1, AtServer DEF hostVars
  <2>3. Reply(down', RESP_ERR, Errno, NoJob)
    BY <2>1, RespondTells
  <2>4. Told(down, lock)'
    BY <2>2, <2>3 DEF Told, Reply
  <2> QED BY <2>2, <2>4 DEF ExchangeInv
<1>4. CASE Start
  <2> DEFINE r == Parsed.value
  <2>1. /\ srv = "request" /\ Respond(RESP_OK, ChildPid, fds) /\ UNCHANGED hostVars
        /\ started' = [started EXCEPT ![fds] = @ \cup {r}]
    BY <1>4 DEF Start
  <2> HIDE DEF r
  <2>2. lock \in Jobs /\ fds = lock /\ UNCHANGED <<lock, call, answer>>
    BY <2>1, AtServer DEF hostVars
  <2>3. Reply(down', RESP_OK, ChildPid, lock)
    BY <2>1, <2>2, RespondTells
  <2>4. started'[lock] # {} /\ started' = [j \in Jobs |-> started[j]]'
    BY <2>1, <2>2 DEF ExchangeInv
  <2>5. Told(down, lock)'
    BY <2>2, <2>3, <2>4 DEF Told, Reply
  <2>6. ASSUME NEW j \in Jobs, call'[j] = "ready" PROVE started'[j] = {}
    <3>1. j # lock
      BY <2>2, <2>6 DEF SpawnInv, TurnInv
    <3> QED BY <2>1, <2>2, <2>6, <3>1 DEF ExchangeInv
  <2> QED BY <2>2, <2>4, <2>5, <2>6 DEF ExchangeInv
<1> QED BY <1>2, <1>3, <1>4 DEF ServerStep

LEMMA NextCore == CoreInv /\ [Next]_vars => CoreInv'
<1> SUFFICES ASSUME CoreInv, [Next]_vars PROVE ExchangeInv'
  BY NextSpawn DEF CoreInv
<1>1. CASE UNCHANGED vars
  <2>1. UNCHANGED <<down, lock, call, answer, started, srv, stuck>>
    BY <1>1 DEF vars, hostVars, serverVars
  <2>2. Told(down, lock)' = Told(down, lock) /\ Open' = Open
    BY <2>1 DEF Told, Reply, Open
  <2> QED BY <2>1, <2>2 DEF CoreInv, ExchangeInv
<1> QED BY <1>1, ServerCore, HostCore DEF Next

-----------------------------------------------------------------------------
(***************************************************************************)
(* Where every request passes the socket in one piece, the stream holds    *)
(* nothing but the request of the holder of the mutex, and the server      *)
(* reads it as it was written.                                             *)
(***************************************************************************)
Fits == \A j \in Jobs : Len(Payload[j]) <= segMax

(* The length of the holder's payload and data of it are on their way. *)
Announced(data, k) ==
    \/ /\ srv = "prefix" /\ prefix = << >>
       /\ up = Segment(push_u32(Len(Payload[lock])), NoJob) \o Segment(data, k)
    \/ /\ srv = "payload" /\ want = Len(Payload[lock])
       /\ up = Segment(data, k)

Still == up = << >> /\ srv = "prefix" /\ prefix = << >>

Resting  == lock = NoJob /\ Still
Length   == lock # NoJob /\ sent = 0 /\ down = << >> /\ Announced(<< >>, NoJob)
Whole    == lock # NoJob /\ sent > 0 /\ down = << >> /\ Announced(Payload[lock], lock)
Received == /\ lock # NoJob /\ sent > 0 /\ down = << >>
            /\ srv = "request" /\ fds = lock /\ up = << >> /\ payload = Payload[lock]
Settled  == lock # NoJob /\ sent > 0 /\ Still

FitInv ==
    /\ srv # "exited"
    /\ \A j \in Jobs : call[j] = "payload" => sent = 0
    /\ \A j \in Jobs : started[j] \subseteq {Requests[j]}
    /\ \A j \in Jobs : answer[j] # "broken"
    /\ Resting \/ Length \/ Whole \/ Received \/ Settled

LEMMA EmptySegment == \A k : Segment(<< >>, k) = << >>
  BY DEF Segment

(* A payload that fits has a length that a u32 can tell. *)
LEMMA PayloadFits ==
    ASSUME TypeInv, Fits, NEW j \in Jobs
    PROVE  /\ Payload[j] \in Seq(Nat) /\ Payload[j] # << >>
           /\ Len(Payload[j]) \in Nat \ {0} /\ Len(Payload[j]) <= segMax
           /\ push_u32(Len(Payload[j])) \in Seq(Nat)
           /\ Len(push_u32(Len(Payload[j]))) = Width
           /\ Number(push_u32(Len(Payload[j]))) = Len(Payload[j])
<1> DEFINE n == Len(Payload[j])
<1>1. Payload[j] \in Seq(Nat) /\ n \in Nat \ {0} /\ n <= segMax
  BY PayloadType DEF Fits
<1>2. segMax \in 0..(Limit(Width) - 1) /\ Limit(Width) \in Nat /\ Width \in Nat
  BY LimitType, NumberTypes DEF TypeInv, u32
<1> HIDE DEF n
<1>3. n \in 0..(Limit(Width) - 1)
  BY <1>1, <1>2
<1>4. /\ push_u32(n) \in Seq(Nat) /\ Len(push_u32(n)) = Width
      /\ Number(push_u32(n)) = n
  BY <1>1, <1>2, <1>3, PushU32Type, NumberOfDigits DEF push_u32
<1> QED BY <1>1, <1>4 DEF n

LEMMA InitFit == Init => FitInv
<1> SUFFICES ASSUME Init PROVE FitInv
  OBVIOUS
<1> QED BY DEF Init, FitInv, Resting, Still

LEMMA HostFit ==
    ASSUME CoreInv, Fits, FitInv, NEW j \in Jobs, HostStep(j)
    PROVE  FitInv'
<1> USE NoJobAssumption DEF CoreInv
<1>0. /\ call \in [Jobs -> {"ready", "payload", "response", "returned"}]
      /\ answer \in [Jobs -> {"none", "child", "refused", "broken"}] /\ TypeInv /\ Open
  BY DEF SpawnInv, TypeInv, ExchangeInv, FitInv, Open
<1>1. CASE SendPrefix(j)
  <2> DEFINE t == Segment(push_u32(Len(Payload[j])), NoJob)
  <2>1. /\ lock = NoJob /\ lock' = j /\ call' = [call EXCEPT ![j] = "payload"]
        /\ up' = up \o t
        /\ UNCHANGED <<down, sent, answer, srv, prefix, started>>
    BY <1>1 DEF SendPrefix, serverVars
  <2>2. Still /\ down = << >> /\ sent = 0
    BY <1>0, <2>1 DEF FitInv, Resting, Length, Whole, Received, Settled, ExchangeInv,
                      SpawnInv, TurnInv
  <2>3. t \in Seq(Unit)
    BY <1>0, PayloadFits, SegmentType
  <2> HIDE DEF t
  <2>4. up' = t \o Segment(<< >>, NoJob)
    BY <2>1, <2>2, <2>3, EmptySegment DEF Still
  <2>5. Length'
    BY <2>1, <2>2, <2>4 DEF Length, Announced, Still, t
  <2> QED BY <1>0, <2>1, <2>2, <2>5 DEF FitInv
<1>2. CASE SendPayload(j)
  <2> DEFINE P == Payload[j]
             end == Min({sent + segMax, Len(P)})
             h == push_u32(Len(P))
  <2>1. /\ call[j] = "payload" /\ sent' = end
        /\ up' = up \o Segment(SubSeq(P, sent + 1, end), IF sent = 0 THEN j ELSE NoJob)
        /\ call' = [call EXCEPT ![j] = IF end = Len(P) THEN "response" ELSE "payload"]
        /\ UNCHANGED <<down, lock, answer, srv, prefix, want, started>>
    BY <1>2 DEF SendPayload, serverVars
  <2>2. lock = j /\ sent = 0 /\ Length
    BY <2>1 DEF SpawnInv, TurnInv, FitInv, Resting, Whole, Received, Settled
  <2>3. /\ P \in Seq(Nat) /\ Len(P) \in Nat \ {0} /\ Len(P) <= segMax /\ segMax \in Nat
        /\ h \in Seq(Nat)
    BY <1>0, PayloadFits, NumberTypes DEF TypeInv
  <2> HIDE DEF P, end
  <2>4. end = Len(P)
    <3> DEFINE S == {sent + segMax, Len(P)}
    <3>1. S \in SUBSET Nat /\ S # {} /\ sent + segMax = segMax
      BY <2>2, <2>3
    <3> HIDE DEF S
    <3>2. Min(S) \in S /\ \A x \in S : Min(S) <= x
      BY <3>1, MinIsLeast
    <3> QED BY <2>3, <3>1, <3>2 DEF S, end
  <2>5. SubSeq(P, sent + 1, end) = P
    BY <2>2, <2>3, <2>4, SubSeqFull
  <2>6. /\ sent' = Len(P) /\ up' = up \o Segment(P, j)
        /\ call' = [call EXCEPT ![j] = "response"]
    BY <2>1, <2>2, <2>4, <2>5
  <2>7. Segment(P, j) \in Seq(Unit) /\ Segment(h, NoJob) \in Seq(Unit)
    BY <2>3, SegmentType
  <2>8. lock' # NoJob /\ sent' > 0 /\ down' = << >>
    BY <2>1, <2>2, <2>3, <2>6 DEF Length
  <2>9. Announced(P, j)'
    <3>1. CASE /\ srv = "prefix" /\ prefix = << >>
               /\ up = Segment(h, NoJob) \o Segment(<< >>, NoJob)
      <4>1. up = Segment(h, NoJob)
        BY <2>7, <3>1, EmptySegment
      <4> QED BY <2>1, <2>2, <2>6, <3>1, <4>1 DEF Announced, P
    <3>2. CASE srv = "payload" /\ want = Len(P) /\ up = Segment(<< >>, NoJob)
      <4>1. up \o Segment(P, j) = Segment(P, j)
        BY <2>7, <3>2, EmptySegment
      <4> QED BY <2>1, <2>2, <2>6, <3>2, <4>1 DEF Announced, P
    <3> QED BY <2>2, <3>1, <3>2 DEF Length, Announced, P
  <2>10. Whole'
    BY <2>1, <2>2, <2>8, <2>9 DEF Whole, Announced, P
  <2>11. ASSUME NEW k \in Jobs PROVE call'[k] # "payload"
    BY <1>0, <2>2, <2>6 DEF SpawnInv, TurnInv
  <2> QED BY <2>1, <2>10, <2>11 DEF FitInv
<1>3. CASE SendFails(j) \/ ReceiveEof(j)
  BY <1>0, <1>3 DEF SendFails, ReceiveEof
<1>4. CASE ReceiveResponse(j)
  <2>1. /\ lock = j /\ call[j] = "response"
        /\ Return(j, IF started[j] # {} THEN "child" ELSE "refused")
        /\ UNCHANGED <<up, srv, prefix, started>> /\ down # << >>
    BY <1>4, ReceiveResponseTells DEF ReceiveResponse, serverVars
  <2>2. /\ lock' = NoJob /\ sent' = 0
        /\ answer' = [answer EXCEPT ![j] = IF started[j] # {} THEN "child" ELSE "refused"]
    BY <2>1 DEF Return
  <2>3. Still
    BY <2>1 DEF FitInv, Resting, Length, Whole, Received, Settled
  <2>4. Resting'
    BY <2>1, <2>2, <2>3 DEF Resting, Still
  <2>5. ASSUME NEW k \in Jobs PROVE answer'[k] # "broken"
    BY <1>0, <2>2 DEF FitInv
  <2> QED BY <2>1, <2>2, <2>4, <2>5 DEF FitInv
<1> QED BY <1>1, <1>2, <1>3, <1>4 DEF HostStep

(* The server reads the request of the holder as it was written. *)
LEMMA ParsedBack ==
    ASSUME CoreInv, Fits, FitInv, srv = "request"
    PROVE  /\ Received /\ lock \in Jobs /\ fds = lock
           /\ Parsed.tag = "some" /\ Parsed.value = Requests[lock]
<1>1. Received /\ lock \in Jobs /\ fds = lock
  BY AtServer DEF FitInv, Resting, Length, Whole, Settled, Announced, Still
<1> DEFINE P == Payload[lock]
           r == Requests[lock]
<1>2. P \in Seq(Nat) /\ P = serialize(r) /\ r \in Request /\ payload = P
  BY <1>1, PayloadType, RequestsAssumption DEF Payload, Received
<1> HIDE DEF P, r
<1>3. At(P, 0, P)
  BY <1>2 DEF At
<1>4. deserialize(P) = Some(r, Len(serialize(r)))
  BY <1>2, <1>3, RoundTrip
<1>5. Parsed = Some(r, Len(serialize(r)))
  BY <1>2, <1>4 DEF Parsed
<1> QED BY <1>1, <1>5 DEF Some, r

LEMMA ServerFit ==
    ASSUME CoreInv, Fits, FitInv, ServerStep
    PROVE  FitInv'
<1> USE NoJobAssumption DEF CoreInv
<1> DEFINE P == Payload[lock]
           h == push_u32(Len(P))
<1>0. TypeInv /\ lock \in Jobs \cup {NoJob} /\ \A k : Segment(<< >>, k) = << >>
  BY EmptySegment DEF SpawnInv, TypeInv
<1>1. CASE ReadPrefix
  <2> DEFINE r == Recv(up, Width)
  <2>1. srv = "prefix" /\ up # << >> /\ UNCHANGED <<down, lock, call, sent, answer, started>>
    BY <1>1 DEF ReadPrefix, hostVars
  <2>2. Length \/ Whole
    BY <2>1 DEF FitInv, Resting, Received, Settled, Still
  <2>3. PICK data, k : /\ \/ data = << >> /\ k = NoJob /\ Length
                          \/ data = P /\ k = lock /\ Whole
                       /\ prefix = << >> /\ up = Segment(h, NoJob) \o Segment(data, k)
    <3>1. ASSUME NEW data, NEW k, Announced(data, k)
          PROVE  prefix = << >> /\ up = Segment(h, NoJob) \o Segment(data, k)
      BY <2>1, <3>1 DEF Announced
    <3>2. CASE Length
      <4>1. Announced(<< >>, NoJob)
        BY <3>2 DEF Length
      <4> QED BY <3>1, <3>2, <4>1
    <3>3. CASE Whole
      <4>1. Announced(P, lock)
        BY <3>3 DEF Whole
      <4> QED BY <3>1, <3>3, <4>1
    <3> QED BY <2>2, <3>2, <3>3
  <2>4. lock \in Jobs
    BY <1>0, <2>2 DEF Length, Whole
  <2>5. P \in Seq(Nat) /\ h \in Seq(Nat) /\ Len(h) = Width /\ Number(h) = Len(P)
    BY <1>0, <2>4, PayloadFits
  <2>6. data \in Seq(Nat) /\ k \in Jobs \cup {NoJob}
    <3> HIDE DEF P
    <3>1. (data = << >> /\ k = NoJob) \/ (data = P /\ k = lock)
      BY <2>3
    <3>2. P \in Seq(Nat) /\ << >> \in Seq(Nat)
      BY <2>5
    <3> QED BY <2>4, <3>1, <3>2
  <2>7. r.data = h /\ r.rest = Segment(data, k)
    BY <2>3, <2>5, <2>6, HeadRead
  <2> HIDE DEF r, h
  <2>8. Width - Len(prefix) = Width /\ prefix \o r.data = h
    BY <2>3, <2>5, <2>7, NumberTypes
  <2>9. up' = Segment(data, k) /\ srv' = "payload" /\ want' = Len(P)
    BY <1>1, <2>5, <2>7, <2>8 DEF ReadPrefix, r
  <2>10. Length' \/ Whole'
    BY <2>1, <2>3, <2>9 DEF Length, Whole, Announced
  <2> QED BY <2>1, <2>9, <2>10 DEF FitInv
<1>2. CASE ReadPayload
  <2> DEFINE r == Recv(up, want)
  <2>1. srv = "payload" /\ up # << >> /\ UNCHANGED <<down, lock, call, sent, answer, started>>
    BY <1>2 DEF ReadPayload, hostVars
  <2>2. Whole /\ want = Len(P) /\ up = Segment(P, lock)
    BY <1>0, <2>1 DEF FitInv, Resting, Length, Whole, Received, Settled, Announced, Still
  <2>3. lock \in Jobs /\ P \in Seq(Nat) /\ P # << >> /\ Len(P) \in Nat
    BY <1>0, <2>2, PayloadFits DEF Whole
  <2>4. r.data = P /\ r.fds = lock /\ r.rest = << >>
    BY <2>2, <2>3, SegmentRead
  <2> HIDE DEF r, P
  <2>5. r.data \o [i \in 1..(want - Len(r.data)) |-> 0] = P
    <3>1. want - Len(r.data) = 0
      BY <2>2, <2>3, <2>4
    <3>2. [i \in 1..(want - Len(r.data)) |-> 0] = << >>
      BY <3>1
    <3>3. P \o << >> = P
      BY <2>3
    <3> QED BY <2>4, <3>2, <3>3
  <2>6. srv' = "request" /\ fds' = lock /\ payload' = P /\ up' = << >>
    BY <1>2, <2>3, <2>4, <2>5 DEF ReadPayload, r
  <2>7. Received'
    BY <2>1, <2>2, <2>6 DEF Whole, Received, P
  <2> QED BY <2>1, <2>6, <2>7 DEF FitInv
<1>3. ASSUME srv = "request", NEW tag, NEW v, NEW k, Respond(tag, v, k),
             UNCHANGED <<up, hostVars>>,
             \A j \in Jobs : started'[j] \subseteq {Requests[j]}
      PROVE  FitInv'
  <2>1. Received
    BY <1>3, ParsedBack
  <2>2. Settled'
    BY <1>3, <2>1 DEF Respond, hostVars, Received, Settled, Still
  <2> QED BY <1>3, <2>2 DEF Respond, hostVars, FitInv
<1>4. CASE Refuse \/ AssignFails
  BY <1>3, <1>4 DEF Refuse, AssignFails, FitInv
<1>5. CASE Abort
  BY <1>5, ParsedBack DEF Abort
<1>6. CASE Start
  <2> DEFINE r == Parsed.value
  <2>1. /\ srv = "request" /\ Respond(RESP_OK, ChildPid, fds) /\ UNCHANGED <<up, hostVars>>
        /\ started' = [started EXCEPT ![fds] = @ \cup {r}]
    BY <1>6 DEF Start
  <2>2. lock \in Jobs /\ fds = lock /\ r = Requests[lock]
    BY <2>1, ParsedBack
  <2> HIDE DEF r
  <2>3. ASSUME NEW j \in Jobs PROVE started'[j] \subseteq {Requests[j]}
    BY <2>1, <2>2 DEF ExchangeInv, FitInv
  <2> QED BY <1>3, <2>1, <2>3
<1> QED BY <1>1, <1>2, <1>4, <1>5, <1>6 DEF ServerStep

-----------------------------------------------------------------------------
(* The inductive invariant as a whole. *)
SocketInv == CoreInv /\ (Fits => FitInv)

LEMMA InitSocket == Init => SocketInv
  BY InitCore, InitFit DEF SocketInv

LEMMA SegMaxStays == [Next]_vars => UNCHANGED segMax
  BY DEF Next, ServerStep, HostStep, SendPrefix, SendPayload, SendFails, ReceiveResponse,
         ReceiveEof, ReadPrefix, ReadPayload, Refuse, Abort, AssignFails, Start, vars

LEMMA NextSocket == SocketInv /\ [Next]_vars => SocketInv'
<1> SUFFICES ASSUME SocketInv, [Next]_vars PROVE SocketInv'
  OBVIOUS
<1>1. CoreInv' /\ Fits' = Fits
  BY NextCore, SegMaxStays DEF SocketInv, Fits
<1>2. ASSUME Fits, FitInv PROVE FitInv'
  <2>1. CASE UNCHANGED vars
    <3>1. /\ UNCHANGED <<segMax, up, down, lock, call, sent, answer, started>>
          /\ UNCHANGED <<srv, prefix, want, payload, fds>>
      BY <2>1 DEF vars, hostVars, serverVars
    <3> QED BY <1>2, <3>1
            DEF FitInv, Resting, Length, Whole, Received, Settled, Still, Announced
  <2> QED BY <1>2, <2>1, ServerFit, HostFit DEF SocketInv, Next
<1> QED BY <1>1, <1>2 DEF SocketInv

LEMMA SocketCorrect == Spec => []SocketInv
<1> QED BY InitSocket, NextSocket, PTL DEF Spec

(***************************************************************************)
(* Where every request passes the socket in one piece, a child gets past   *)
(* its barrier only with the whole of the request its call sent, and with  *)
(* its own, whatever the requests hold and whoever the server runs as      *)
(* (handle_one_request, deserialize).                                      *)
(***************************************************************************)
THEOREM WholeRequestsRun == Spec => [](Fits => OnlyWholeRequestsRun)
<1>1. SocketInv => (Fits => OnlyWholeRequestsRun)
  BY DEF SocketInv, FitInv, OnlyWholeRequestsRun
<1> QED BY <1>1, SocketCorrect, PTL

(***************************************************************************)
(* Where every request passes the socket in one piece, the server never    *)
(* gives up, and no call is told that it did (request_spawn,               *)
(* handle_one_request, fork_server_main).                                  *)
(***************************************************************************)
THEOREM FittingRequestsServed ==
    Spec => [](Fits => ServerOutlivesRequests /\ BrokenCallsRunNothing)
<1>1. SocketInv => (Fits => ServerOutlivesRequests /\ BrokenCallsRunNothing)
  BY DEF SocketInv, FitInv, ServerOutlivesRequests, BrokenCallsRunNothing
<1> QED BY <1>1, SocketCorrect, PTL

-----------------------------------------------------------------------------
(***************************************************************************)
(* The stream implements the exchange.                                     *)
(***************************************************************************)
Became(j) == IF started[j] # {} THEN "granted"
             ELSE IF j = lock \/ answer[j] # "none" THEN "asked" ELSE "ready"

request == [j \in Jobs |-> Became(j)]

LEMMA ExchangeInit == Init => Exchange!Init
<1> SUFFICES ASSUME Init PROVE Exchange!Init
  OBVIOUS
<1>1. request = [j \in Jobs |-> "ready"]
  BY NoJobAssumption DEF Init, request, Became
<1> QED BY <1>1 DEF Init, Exchange!Init, request, Became

(* A step that the exchange does not see. *)
LEMMA ExchangeStutters ==
    ASSUME Fits' = Fits, (srv # "exited")' = (srv # "exited"), request' = request,
           UNCHANGED answer
    PROVE  UNCHANGED Exchange!exchangeVars
  BY DEF Exchange!exchangeVars, request, Became, Fits

LEMMA ExchangeServer ==
    ASSUME SocketInv, SocketInv', Fits' = Fits, ServerStep
    PROVE  [Exchange!Next]_Exchange!exchangeVars
<1> USE DEF SocketInv
<1>1. UNCHANGED <<lock, call, answer>> /\ srv # "exited"
  BY DEF ServerStep, ReadPrefix, ReadPayload, Refuse, Abort, AssignFails, Start, hostVars
<1>2. ASSUME UNCHANGED started PROVE request' = request
  BY <1>1, <1>2 DEF request, Became
<1>3. ASSUME UNCHANGED started, srv' # "exited"
      PROVE  UNCHANGED Exchange!exchangeVars
  BY <1>1, <1>2, <1>3, ExchangeStutters
<1>4. ASSUME UNCHANGED started, srv' = "exited"
      PROVE  Exchange!BreakDown
  <2>1. ~Fits
    BY <1>4 DEF FitInv
  <2> QED BY <1>1, <1>2, <1>4, <2>1 DEF Exchange!BreakDown, request, Became, Fits
<1>5. CASE Start
  <2> DEFINE r == Parsed.value
  <2>1. /\ srv = "request" /\ srv' = "prefix"
        /\ started' = [started EXCEPT ![fds] = @ \cup {r}]
    BY <1>5 DEF Start, Respond
  <2> HIDE DEF r
  <2>2. lock \in Jobs /\ fds = lock /\ started[lock] = {}
    BY <2>1, AtServer
  <2>3. answer[lock] = "none"
    BY <2>2, NoJobAssumption DEF CoreInv, SpawnInv, TurnInv, ExchangeInv
  <2>4. request[lock] = "asked" /\ request' = [request EXCEPT ![lock] = "granted"]
    <3>1. request[lock] = "asked"
      BY <2>2 DEF request, Became
    <3>2. started'[lock] # {} /\ \A j \in Jobs : j # lock => started'[j] = started[j]
      BY <2>1, <2>2 DEF CoreInv, ExchangeInv
    <3>3. ASSUME NEW j \in Jobs
          PROVE  Became(j)' = IF j = lock THEN "granted" ELSE Became(j)
      BY <1>1, <3>2 DEF Became
    <3> QED BY <2>2, <3>1, <3>3 DEF request
  <2>5. PICK j \in Jobs : j = lock
    BY <2>2
  <2>6. Exchange!Grant(j)
    BY <1>1, <2>1, <2>2, <2>3, <2>4, <2>5 DEF Exchange!Grant, request, Became, Fits
  <2> QED BY <2>6 DEF Exchange!Next
<1>6. CASE UNCHANGED started
  BY <1>3, <1>4, <1>6 DEF Exchange!Next
<1> QED BY <1>5, <1>6 DEF ServerStep, ReadPrefix, ReadPayload, Refuse, Abort, AssignFails

LEMMA ExchangeHost ==
    ASSUME SocketInv, SocketInv', Fits' = Fits, NEW j \in Jobs, HostStep(j)
    PROVE  [Exchange!Next]_Exchange!exchangeVars
<1> USE NoJobAssumption DEF SocketInv
<1>0. /\ call \in [Jobs -> {"ready", "payload", "response", "returned"}]
      /\ answer \in [Jobs -> {"none", "child", "refused", "broken"}]
  BY DEF CoreInv, SpawnInv, TypeInv, ExchangeInv
<1>1. UNCHANGED <<srv, started>>
  BY DEF HostStep, SendPrefix, SendPayload, SendFails, ReceiveResponse, ReceiveEof, serverVars
<1>2. CASE SendPrefix(j)
  <2>1. call[j] = "ready" /\ lock = NoJob /\ lock' = j /\ UNCHANGED answer
    BY <1>2 DEF SendPrefix
  <2>2. started[j] = {} /\ answer[j] = "none"
    BY <2>1 DEF CoreInv, ExchangeInv
  <2>3. request[j] = "ready" /\ request' = [request EXCEPT ![j] = "asked"]
    <3>1. request[j] = "ready"
      BY <2>1, <2>2 DEF request, Became
    <3>2. ASSUME NEW k \in Jobs
          PROVE  Became(k)' = IF k = j THEN "asked" ELSE Became(k)
      BY <1>1, <2>1, <2>2 DEF Became
    <3> QED BY <3>1, <3>2 DEF request
  <2>4. ASSUME NEW k \in Jobs PROVE ~(request[k] # "ready" /\ answer[k] = "none")
    <3>1. CASE call[k] = "ready"
      <4>1. started[k] = {}
        BY <3>1 DEF CoreInv, ExchangeInv
      <4> QED BY <2>1, <4>1 DEF request, Became
    <3>2. CASE call[k] = "returned"
      BY <3>2 DEF CoreInv, ExchangeInv
    <3>3. call[k] \notin {"payload", "response"}
      BY <2>1 DEF CoreInv, SpawnInv, TurnInv
    <3> QED BY <1>0, <3>1, <3>2, <3>3
  <2>5. Exchange!Ask(j)
    BY <1>1, <2>1, <2>2, <2>3, <2>4 DEF Exchange!Ask, Exchange!Waiting, request, Became, Fits
  <2> QED BY <2>5 DEF Exchange!Next
<1>3. CASE SendPayload(j)
  <2>1. UNCHANGED <<lock, answer>>
    BY <1>3 DEF SendPayload
  <2>2. request' = request
    BY <1>1, <2>1 DEF request, Became
  <2> QED BY <1>1, <2>1, <2>2, ExchangeStutters
<1>4. CASE SendFails(j) \/ ReceiveEof(j)
  <2>1. /\ srv = "exited" /\ lock \in {NoJob, j} /\ lock' = NoJob /\ call[j] # "returned"
        /\ answer' = [answer EXCEPT ![j] = "broken"]
    BY <1>4 DEF SendFails, ReceiveEof, Open, Return, CoreInv, SpawnInv, TurnInv
  <2>2. answer[j] = "none"
    BY <2>1 DEF CoreInv, ExchangeInv
  <2>3. request' = [request EXCEPT ![j] = IF @ = "granted" THEN "granted" ELSE "asked"]
    <3>1. ASSUME NEW k \in Jobs
          PROVE  Became(k)' = IF k # j \/ Became(k) = "granted" THEN Became(k) ELSE "asked"
      BY <1>0, <1>1, <2>1 DEF Became
    <3> QED BY <3>1 DEF request
  <2>4. Exchange!Fail(j)
    BY <1>1, <2>1, <2>2, <2>3 DEF Exchange!Fail, request, Became, Fits
  <2> QED BY <2>4 DEF Exchange!Next
<1>5. CASE ReceiveResponse(j)
  <2>1. /\ lock = j /\ call[j] = "response"
        /\ Return(j, IF started[j] # {} THEN "child" ELSE "refused")
    BY <1>5, ReceiveResponseTells
  <2>2. /\ lock' = NoJob
        /\ answer' = [answer EXCEPT ![j] = IF started[j] # {} THEN "child" ELSE "refused"]
    BY <2>1 DEF Return
  <2>3. answer[j] = "none"
    BY <2>1 DEF CoreInv, ExchangeInv
  <2>4. request' = request
    <3>1. ASSUME NEW k \in Jobs PROVE Became(k)' = Became(k)
      BY <1>0, <1>1, <2>1, <2>2 DEF Became
    <3> QED BY <3>1 DEF request
  <2>5. request[j] # "ready" /\ (request[j] = "granted" <=> started[j] # {})
    BY <2>1 DEF request, Became
  <2>6. Exchange!Answer(j)
    BY <1>1, <2>2, <2>3, <2>4, <2>5
       DEF Exchange!Answer, Exchange!Waiting, request, Became, Fits
  <2> QED BY <2>6 DEF Exchange!Next
<1> QED BY <1>2, <1>3, <1>4, <1>5 DEF HostStep

LEMMA ExchangeNext ==
    SocketInv /\ SocketInv' /\ [Next]_vars => [Exchange!Next]_Exchange!exchangeVars
<1> SUFFICES ASSUME SocketInv, SocketInv', [Next]_vars
             PROVE  [Exchange!Next]_Exchange!exchangeVars
  OBVIOUS
<1>1. Fits' = Fits
  BY SegMaxStays DEF Fits
<1>2. CASE UNCHANGED vars
  <2>1. UNCHANGED <<srv, lock, answer, started>>
    BY <1>2 DEF vars, hostVars, serverVars
  <2>2. request' = request
    BY <2>1 DEF request, Became
  <2> QED BY <1>1, <2>1, <2>2, ExchangeStutters
<1> QED BY <1>1, <1>2, ExchangeServer, ExchangeHost DEF Next

(***************************************************************************)
(* The stream implements the exchange of whole messages, for any number of *)
(* calls, any requests and wherever the kernel cuts: each call is granted  *)
(* at most its own child and is told so, and only where a request does not *)
(* fit may the server break down (request_spawn, handle_one_request,       *)
(* fork_server_main).                                                      *)
(***************************************************************************)
THEOREM SpawnImplementsExchange == Spec => ImplementsExchange
<1>1. Spec => []SocketInv
  BY SocketCorrect
<1> QED BY <1>1, ExchangeInit, ExchangeNext, PTL DEF Spec, ImplementsExchange, Exchange!Spec
===============================================================================
