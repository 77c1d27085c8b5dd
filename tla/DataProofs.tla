------------------------------- MODULE DataProofs ------------------------------
(***************************************************************************)
(* Facts about data that the proofs of several modules rest on.  Proofs    *)
(* about recursive functions need that a set of natural numbers has a      *)
(* least element, and that a function whose value at d is computed from    *)
(* its value at one place of lower rank exists; both are stated here       *)
(* without operators as parameters, so that they can be cited as they are. *)
(***************************************************************************)
EXTENDS WaitStatus, Sequences, WellFoundedInduction, TLAPS

(* The induction principle: a counterexample would have a least one. *)
LEMMA LeastNumber ==
  ASSUME NEW S \in SUBSET Nat, S # {}
  PROVE  \E m \in S : \A n \in S : m <= n
<1> DEFINE R == OpToRel(<, Nat)
<1>1. IsWellFoundedOn(R, Nat)
  BY NatLessThanWellFounded, Zenon
<1>2. \A a, b \in Nat : a < b => <<a, b>> \in R
  BY DEF OpToRel
<1> HIDE DEF R
<1>3. PICK m \in S : \A n \in S : ~(<<n, m>> \in R)
  BY <1>1, WFMin
<1>4. ASSUME NEW n \in S PROVE m <= n
  <2>1. n \in Nat /\ m \in Nat OBVIOUS
  <2>2. ~ (n < m) BY <2>1, <1>2, <1>3
  <2> QED BY <2>1, <2>2
<1>5. QED BY <1>4

(***************************************************************************)
(* One step of a recursion: at rank 0 the base, elsewhere a step from the  *)
(* value at the predecessor.                                               *)
(***************************************************************************)
Follows(f, d, rank, prev, base, step) ==
    f[d] = IF rank[d] = 0 THEN base[d] ELSE step[<<d, f[prev[d]]>>]

Descends(D, V, rank, prev, base, step) ==
    /\ rank \in [D -> Nat]
    /\ prev \in [D -> D]
    /\ base \in [D -> V]
    /\ step \in [D \X V -> V]
    /\ \A d \in D : rank[d] # 0 => rank[prev[d]] < rank[d]

Solves(f, D, V, rank, prev, base, step) ==
    f \in [D -> V] /\ \A d \in D : Follows(f, d, rank, prev, base, step)

(* A recursion that descends defines a function. *)
LEMMA RecursionHasSolution ==
  ASSUME NEW D, NEW V, NEW rank, NEW prev, NEW base, NEW step,
         Descends(D, V, rank, prev, base, step)
  PROVE  \E f : Solves(f, D, V, rank, prev, base, step)
<1> USE DEF Descends
<1> DEFINE UpTo(f, k) == /\ f \in [D -> V]
                         /\ \A d \in D : rank[d] <= k => Follows(f, d, rank, prev, base, step)
           Missing == {k \in Nat : ~\E f : UpTo(f, k)}
<1>1. Missing = {}
  <2> SUFFICES ASSUME Missing # {} PROVE FALSE
    OBVIOUS
  <2>1. PICK k \in Missing : \A n \in Missing : k <= n
    BY LeastNumber
  <2>2. k # 0
    <3>1. UpTo(base, 0)
      BY DEF Follows
    <3> QED BY <3>1
  <2>3. k - 1 \in Nat /\ k - 1 \notin Missing
    BY <2>1, <2>2
  <2>4. PICK g : UpTo(g, k - 1)
    BY <2>3
  <2> DEFINE h == [d \in D |-> IF rank[d] = 0 THEN base[d] ELSE step[<<d, g[prev[d]]>>]]
  <2>5. h \in [D -> V]
    BY <2>4
  <2>6. ASSUME NEW d \in D, rank[d] <= k - 1 PROVE h[d] = g[d]
    BY <2>4, <2>6 DEF Follows
  <2>7. ASSUME NEW d \in D, rank[d] <= k PROVE Follows(h, d, rank, prev, base, step)
    <3>1. CASE rank[d] = 0
      BY <3>1 DEF Follows
    <3>2. CASE rank[d] # 0
      <4>1. prev[d] \in D /\ rank[prev[d]] \in Nat /\ rank[d] \in Nat /\ k \in Nat
        OBVIOUS
      <4>2. rank[prev[d]] <= k - 1
        BY <2>7, <3>2, <4>1
      <4> QED BY <2>6, <3>2, <4>1, <4>2 DEF Follows
    <3> QED BY <3>1, <3>2
  <2>8. UpTo(h, k)
    BY <2>5, <2>7
  <2> QED BY <2>8
<1>2. ASSUME NEW k \in Nat, NEW g, NEW h, UpTo(g, k), UpTo(h, k), NEW d \in D, rank[d] <= k
      PROVE  g[d] = h[d]
  <2> DEFINE Differ == {n \in Nat : \E e \in D : rank[e] = n /\ n <= k /\ g[e] # h[e]}
  <2>1. CASE Differ = {}
    BY <1>2, <2>1
  <2>2. CASE Differ # {}
    <3>1. PICK n \in Differ : \A m \in Differ : n <= m
      BY <2>2, LeastNumber
    <3>2. PICK e \in D : rank[e] = n /\ n <= k /\ g[e] # h[e]
      BY <3>1
    <3>3. rank[e] # 0
      BY <1>2, <3>2 DEF Follows
    <3>4. prev[e] \in D /\ rank[prev[e]] \in Nat /\ rank[prev[e]] < n /\ n \in Nat
      BY <3>2, <3>3
    <3>5. g[prev[e]] = h[prev[e]]
      BY <3>1, <3>2, <3>4
    <3> QED BY ZenonT(40), <1>2, <3>2, <3>3, <3>5 DEF Follows
  <2> QED BY <2>1, <2>2
<1> DEFINE Part(k) == CHOOSE f : UpTo(f, k)
<1>3. ASSUME NEW k \in Nat PROVE UpTo(Part(k), k)
  <2>1. \E f : UpTo(f, k)
    BY <1>1
  <2> QED BY <2>1
<1> DEFINE F == [d \in D |-> Part(rank[d])[d]]
<1> HIDE DEF Part, Missing
<1>4. F \in [D -> V]
  BY <1>3
<1>5. ASSUME NEW d \in D PROVE Follows(F, d, rank, prev, base, step)
  <2> DEFINE g == Part(rank[d])
             e == prev[d]
             h == Part(rank[e])
  <2>1. rank[d] \in Nat /\ UpTo(g, rank[d]) /\ Follows(g, d, rank, prev, base, step)
    BY <1>3
  <2>2. CASE rank[d] = 0
    BY <2>1, <2>2 DEF Follows
  <2>3. CASE rank[d] # 0
    <3>1. e \in D /\ rank[e] \in Nat /\ rank[e] < rank[d]
      BY <2>3
    <3>2. UpTo(h, rank[e])
      BY <3>1, <1>3
    <3> HIDE DEF g, h
    <3>3. UpTo(g, rank[e])
      BY <2>1, <3>1
    <3>4. g[e] = h[e]
      BY <3>1, <3>2, <3>3, <1>2
    <3>5. F[e] = h[e] /\ F[d] = g[d]
      BY <3>1 DEF g, h
    <3> QED BY <2>1, <2>3, <3>4, <3>5 DEF Follows
  <2> QED BY <2>2, <2>3
<1>6. Solves(F, D, V, rank, prev, base, step)
  BY <1>4, <1>5 DEF Solves
<1> QED BY <1>6

(* Induction and recursion over the numbers up to n. *)
LEMMA CountedInduction ==
  ASSUME NEW n \in Nat, NEW good, 0 \in good, \A i \in 1..n : i - 1 \in good => i \in good
  PROVE  0..n \subseteq good
<1> DEFINE Bad == {i \in Nat : i <= n /\ i \notin good}
<1> SUFFICES ASSUME Bad # {} PROVE FALSE
  OBVIOUS
<1>1. PICK i \in Bad : \A m \in Bad : i <= m
  BY LeastNumber
<1>2. i # 0 /\ i - 1 \notin Bad
  BY <1>1
<1> QED BY <1>1, <1>2

Counts(f, n, V, first, next) ==
    /\ f \in [0..n -> V]
    /\ f[0] = first
    /\ \A i \in 1..n : f[i] = next[<<i, f[i - 1]>>]

LEMMA CountedRecursion ==
  ASSUME NEW n \in Nat, NEW V, NEW first \in V, NEW next \in [(1..n) \X V -> V]
  PROVE  \E f : Counts(f, n, V, first, next)
<1> DEFINE D    == 0..n
           rank == [i \in D |-> i]
           prev == [i \in D |-> IF i = 0 THEN 0 ELSE i - 1]
           base == [i \in D |-> first]
           step == [p \in D \X V |-> IF p[1] = 0 THEN first ELSE next[p]]
<1>1. Descends(D, V, rank, prev, base, step)
  <2>1. rank \in [D -> Nat] /\ prev \in [D -> D] /\ base \in [D -> V]
    OBVIOUS
  <2>2. step \in [D \X V -> V]
    <3>1. ASSUME NEW p \in D \X V, p[1] # 0 PROVE next[p] \in V
      <4>1. p \in (1..n) \X V
        BY <3>1
      <4> QED BY <4>1
    <3> QED BY <3>1
  <2>3. \A i \in D : rank[i] # 0 => rank[prev[i]] < rank[i]
    OBVIOUS
  <2> HIDE DEF D, rank, prev, base, step
  <2> QED BY <2>1, <2>2, <2>3 DEF Descends
<1>2. PICK f : Solves(f, D, V, rank, prev, base, step)
  BY <1>1, RecursionHasSolution
<1>3. f \in [D -> V] /\ \A i \in D : Follows(f, i, rank, prev, base, step)
  BY <1>2 DEF Solves
<1>4. ASSUME NEW i \in D PROVE f[i] = IF i = 0 THEN first ELSE next[<<i, f[i - 1]>>]
  <2>1. CASE i = 0
    BY <2>1, <1>3 DEF Follows
  <2>2. CASE i # 0
    <3>1. i - 1 \in D /\ f[i - 1] \in V
      BY <2>2, <1>3
    <3>2. step[<<i, f[i - 1]>>] = next[<<i, f[i - 1]>>]
      BY <3>1, <2>2
    <3>3. Follows(f, i, rank, prev, base, step) /\ rank[i] = i /\ prev[i] = i - 1
      BY <1>3, <2>2
    <3> HIDE DEF step, rank, prev
    <3> QED BY <3>2, <3>3, <2>2 DEF Follows
  <2> QED BY <2>1, <2>2
<1>5. 0 \in D /\ \A i \in 1..n : i \in D /\ i # 0
  OBVIOUS
<1>6. f[0] = first /\ \A i \in 1..n : f[i] = next[<<i, f[i - 1]>>]
  BY <1>4, <1>5, Zenon
<1> QED BY <1>3, <1>6 DEF Counts

(* A set that a value joins whenever its predecessor is in it. *)
Inherited(good, D, rank, prev) ==
    \A d \in D : rank[d] = 0 \/ prev[d] \in good => d \in good

(* Induction along a recursion that descends. *)
LEMMA RecursionInduction ==
  ASSUME NEW D, NEW V, NEW rank, NEW prev, NEW base, NEW step,
         Descends(D, V, rank, prev, base, step),
         NEW good, Inherited(good, D, rank, prev)
  PROVE  D \subseteq good
<1> USE DEF Descends
<1> DEFINE Bad == {n \in Nat : \E d \in D : rank[d] = n /\ d \notin good}
<1> SUFFICES ASSUME Bad # {} PROVE FALSE
  OBVIOUS
<1>1. PICK n \in Bad : \A m \in Bad : n <= m
  BY LeastNumber
<1>2. PICK d \in D : rank[d] = n /\ d \notin good
  BY <1>1
<1>3. rank[d] # 0 /\ prev[d] \notin good
  BY <1>2 DEF Inherited
<1>4. prev[d] \in D /\ rank[prev[d]] \in Nat /\ rank[prev[d]] < n
  BY <1>2, <1>3
<1> QED BY <1>1, <1>3, <1>4

-----------------------------------------------------------------------------
(***************************************************************************)
(* Decoding what the kernel encodes gives the true reason, for every exit  *)
(* code and every signal, with and without a core dump (reap_child).       *)
(***************************************************************************)
THEOREM DecodeIsTrue ==
    ASSUME NEW e \in Endings
    PROVE  DecodeStatus(KernelStatus(e)) = TrueReason(e)
  <1>1. CASE e.kind = "exit"
    <2>1. e.value \in 0..255 BY <1>1 DEF Endings
    <2>2. KernelStatus(e) = 256 * e.value BY <1>1 DEF KernelStatus
    <2>3. /\ (256 * e.value) % 128 = 0
          /\ ((256 * e.value) \div 256) % 256 = e.value
      BY <2>1
    <2> QED BY <1>1, <2>2, <2>3 DEF DecodeStatus, TrueReason, SIGSYS
  <1>2. CASE e.kind # "exit"
    <2>1. e.value \in 1..64 /\ e.kind \in {"signal", "core"} BY <1>2 DEF Endings
    <2>2. KernelStatus(e) \in {e.value, 128 + e.value}
      BY <2>1 DEF KernelStatus
    <2>3. KernelStatus(e) % 128 = e.value BY <2>1, <2>2
    <2> QED BY <1>2, <2>1, <2>3 DEF DecodeStatus, TrueReason, SIGSYS
  <1> QED BY <1>1, <1>2
================================================================================
