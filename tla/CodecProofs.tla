------------------------------ MODULE CodecProofs ------------------------------
(***************************************************************************)
(* Proofs about the wire format: what deserialize makes of a serialized    *)
(* request is that request.                                                *)
(***************************************************************************)
EXTENDS Codec, DataProofs, SequenceTheorems

(* What is put on the stream: digits, as many as asked for. *)
Shifts(s, v, n) ==
    /\ s \in [0..n -> Nat]
    /\ s[0] = v
    /\ \A i \in 1..n : s[i] = s[i - 1] \div Base
    /\ Digits(v, n) = [i \in 1..n |-> s[i - 1] % Base]

LEMMA DigitsSteps == \A v, n \in Nat : \E s : Shifts(s, v, n)
<1> SUFFICES ASSUME NEW v \in Nat, NEW n \in Nat PROVE \E s : Shifts(s, v, n)
  OBVIOUS
<1> USE DigitAssumption
<1> DEFINE next == [p \in (1..n) \X Nat |-> p[2] \div Base]
           good(f) == f = [i \in 0..n |-> IF i = 0 THEN v ELSE f[i - 1] \div Base]
           s == CHOOSE f : good(f)
<1>1. next \in [(1..n) \X Nat -> Nat]
  OBVIOUS
<1>2. PICK f : Counts(f, n, Nat, v, next)
  <2> HIDE DEF next
  <2> QED BY <1>1, CountedRecursion
<1>3. f \in [0..n -> Nat] /\ f[0] = v /\ \A i \in 1..n : f[i] = f[i - 1] \div Base
  <2>1. ASSUME NEW i \in 1..n PROVE next[<<i, f[i - 1]>>] = f[i - 1] \div Base
    <3>1. f[i - 1] \in Nat
      BY <1>2 DEF Counts
    <3> QED BY <3>1
  <2> HIDE DEF next
  <2> QED BY <1>2, <2>1 DEF Counts
<1>4. good(s)
  <2>1. good(f)
    BY <1>3
  <2> QED BY <2>1
<1> HIDE DEF s, next
<1>5. 0..n \subseteq {i \in 0..n : s[i] = f[i]}
  <2> DEFINE same == {i \in 0..n : s[i] = f[i]}
  <2>1. 0 \in same
    BY <1>3, <1>4
  <2>2. ASSUME NEW i \in 1..n, i - 1 \in same PROVE i \in same
    BY <1>3, <1>4, <2>2
  <2> HIDE DEF same
  <2>3. 0..n \subseteq same
    BY <2>1, <2>2, CountedInduction
  <2> QED BY <2>3 DEF same
<1>6. s = f
  BY <1>3, <1>4, <1>5
<1>7. Digits(v, n) = [i \in 1..n |-> s[i - 1] % Base]
  BY DEF Digits, s
<1> QED BY ZenonT(40), <1>3, <1>6, <1>7 DEF Shifts

LEMMA DigitsType ==
    ASSUME NEW v \in Nat, NEW n \in Nat
    PROVE  Digits(v, n) \in Seq(Nat) /\ Len(Digits(v, n)) = n
<1>1. PICK s : Shifts(s, v, n)
  BY DigitsSteps
<1>2. \A i \in 1..n : s[i - 1] % Base \in Nat
  BY <1>1, DigitAssumption DEF Shifts
<1> QED BY <1>1, <1>2 DEF Shifts

(* What is made of digits that were read. *)
Sums(s, b) ==
    /\ s \in [0..Len(b) -> Nat]
    /\ s[0] = 0
    /\ \A i \in 1..Len(b) : s[i] = b[Len(b) + 1 - i] + Base * s[i - 1]
    /\ Number(b) = s[Len(b)]

LEMMA NumberSteps == \A b \in Seq(Nat) : \E s : Sums(s, b)
<1> SUFFICES ASSUME NEW b \in Seq(Nat) PROVE \E s : Sums(s, b)
  OBVIOUS
<1> DEFINE n == Len(b)
           next == [p \in (1..n) \X Nat |-> b[n + 1 - p[1]] + Base * p[2]]
           good(f) == f = [i \in 0..n |-> IF i = 0 THEN 0 ELSE b[n + 1 - i] + Base * f[i - 1]]
           s == CHOOSE f : good(f)
<1>0. n \in Nat
  OBVIOUS
<1>1. next \in [(1..n) \X Nat -> Nat]
  <2>1. ASSUME NEW i \in 1..n, NEW x \in Nat PROVE b[n + 1 - i] + Base * x \in Nat
    <3>1. b[n + 1 - i] \in Nat
      OBVIOUS
    <3>2. Base * x \in Nat
      BY DigitAssumption
    <3> QED BY SMTT(40), <3>1, <3>2
  <2> HIDE DEF n
  <2> QED BY <2>1
<1> HIDE DEF n
<1>2. PICK f : Counts(f, n, Nat, 0, next)
  <2> HIDE DEF next
  <2> QED BY <1>0, <1>1, CountedRecursion
<1>3. /\ f \in [0..n -> Nat] /\ f[0] = 0
      /\ \A i \in 1..n : f[i] = b[n + 1 - i] + Base * f[i - 1]
  <2>1. ASSUME NEW i \in 1..n PROVE next[<<i, f[i - 1]>>] = b[n + 1 - i] + Base * f[i - 1]
    <3>1. i - 1 \in 0..n
      BY <1>0
    <3>2. f[i - 1] \in Nat
      BY <3>1, <1>2 DEF Counts
    <3> QED BY <3>2
  <2> HIDE DEF next
  <2> QED BY <1>2, <2>1 DEF Counts
<1>4. good(s)
  <2>1. good(f)
    BY <1>0, <1>3
  <2> QED BY <2>1
<1> HIDE DEF s, next
<1>5. 0..n \subseteq {i \in 0..n : s[i] = f[i]}
  <2> DEFINE same == {i \in 0..n : s[i] = f[i]}
  <2>1. 0 \in same
    BY <1>0, <1>3, <1>4
  <2>2. ASSUME NEW i \in 1..n, i - 1 \in same PROVE i \in same
    <3>1. i \in 0..n /\ i # 0 /\ s[i - 1] = f[i - 1]
      BY <1>0, <2>2
    <3>2. s[i] = b[n + 1 - i] + Base * s[i - 1]
      BY <1>4, <3>1, Zenon
    <3>3. s[i] = f[i]
      BY <1>3, <3>1, <3>2, Zenon
    <3> QED BY <3>1, <3>3
  <2> HIDE DEF same
  <2>3. 0..n \subseteq same
    BY <1>0, <2>1, <2>2, CountedInduction
  <2> QED BY <2>3 DEF same
<1>6. s = f
  <2>1. ASSUME NEW i \in 0..n PROVE s[i] = f[i]
    BY <1>5
  <2>2. s = [i \in 0..n |-> s[i]] /\ f = [i \in 0..n |-> f[i]]
    BY <1>3, <1>4
  <2> QED BY <2>1, <2>2
<1>7. Number(b) = s[n]
  BY DEF Number, n, s
<1> QED BY <1>3, <1>6, <1>7 DEF n, Sums

LEMMA NumberType == ASSUME NEW b \in Seq(Nat) PROVE Number(b) \in Nat
<1>1. PICK s : Sums(s, b)
  BY NumberSteps
<1> QED BY <1>1 DEF Sums

(* The powers of the base. *)
Powers(w, n) ==
    /\ w \in [0..n -> Nat]
    /\ w[0] = 1
    /\ \A i \in 1..n : w[i] = Base * w[i - 1]
    /\ Limit(n) = w[n]

LEMMA LimitSteps == \A n \in Nat : \E w : Powers(w, n)
<1> SUFFICES ASSUME NEW n \in Nat PROVE \E w : Powers(w, n)
  OBVIOUS
<1> USE DigitAssumption
<1> DEFINE next == [p \in (1..n) \X Nat |-> Base * p[2]]
           good(f) == f = [i \in 0..n |-> IF i = 0 THEN 1 ELSE Base * f[i - 1]]
           w == CHOOSE f : good(f)
<1>1. next \in [(1..n) \X Nat -> Nat]
  OBVIOUS
<1>2. PICK f : Counts(f, n, Nat, 1, next)
  <2> HIDE DEF next
  <2> QED BY <1>1, CountedRecursion
<1>3. f \in [0..n -> Nat] /\ f[0] = 1 /\ \A i \in 1..n : f[i] = Base * f[i - 1]
  <2>1. ASSUME NEW i \in 1..n PROVE next[<<i, f[i - 1]>>] = Base * f[i - 1]
    <3>1. f[i - 1] \in Nat
      BY <1>2 DEF Counts
    <3> QED BY <3>1
  <2> HIDE DEF next
  <2> QED BY <1>2, <2>1 DEF Counts
<1>4. good(w)
  <2>1. good(f)
    BY <1>3
  <2> QED BY <2>1
<1> HIDE DEF w, next
<1>5. 0..n \subseteq {i \in 0..n : w[i] = f[i]}
  <2> DEFINE same == {i \in 0..n : w[i] = f[i]}
  <2>1. 0 \in same
    BY <1>3, <1>4
  <2>2. ASSUME NEW i \in 1..n, i - 1 \in same PROVE i \in same
    <3>1. i \in 0..n /\ i # 0 /\ w[i - 1] = f[i - 1]
      BY <2>2
    <3>2. w[i] = Base * w[i - 1] /\ f[i] = Base * f[i - 1]
      BY <1>3, <1>4, <3>1
    <3> QED BY <3>1, <3>2
  <2> HIDE DEF same
  <2>3. 0..n \subseteq same
    BY <2>1, <2>2, CountedInduction
  <2> QED BY <2>3 DEF same
<1>6. w = f
  BY <1>3, <1>4, <1>5
<1>7. Limit(n) = w[n]
  BY DEF Limit, w
<1> QED BY <1>3, <1>6, <1>7 DEF Powers

LEMMA LimitType == \A n \in Nat : Limit(n) \in Nat \ {0}
<1> SUFFICES ASSUME NEW n \in Nat PROVE Limit(n) \in Nat \ {0}
  OBVIOUS
<1>1. PICK w : Powers(w, n)
  BY LimitSteps
<1> DEFINE positive == {i \in Nat : i <= n => w[i] # 0}
<1>2. 0 \in positive
  BY <1>1 DEF Powers
<1>3. ASSUME NEW i \in 1..n, i - 1 \in positive PROVE i \in positive
  <2>1. w[i - 1] \in Nat \ {0} /\ w[i] = Base * w[i - 1]
    BY <1>1, <1>3 DEF Powers
  <2>2. Base * w[i - 1] # 0
    BY <2>1, DigitAssumption
  <2> QED BY <2>1, <2>2
<1> HIDE DEF positive
<1>4. 0..n \subseteq positive
  BY <1>2, <1>3, CountedInduction
<1>5. n \in positive /\ Limit(n) = w[n] /\ w[n] \in Nat
  BY <1>1, <1>4 DEF Powers
<1> QED BY <1>5 DEF positive

(* One division. *)
LEMMA Division ==
    \A x, k \in Nat : /\ x \div Base \in Nat /\ x % Base \in Nat
                      /\ (x % Base) + Base * (x \div Base) = x
                      /\ x < Base * k => x \div Base < k
<1> SUFFICES ASSUME NEW x \in Nat, NEW k \in Nat
             PROVE  /\ x \div Base \in Nat /\ x % Base \in Nat
                    /\ (x % Base) + Base * (x \div Base) = x
                    /\ x < Base * k => x \div Base < k
  OBVIOUS
<1> USE DigitAssumption
<1> DEFINE d == x \div Base
<1>1. d \in Nat /\ x % Base \in Nat /\ (x % Base) + Base * d = x
  OBVIOUS
<1>2. ASSUME x < Base * k PROVE d < k
  <2> HIDE DEF d
  <2>1. SUFFICES ASSUME d >= k PROVE FALSE
    BY <1>1
  <2>2. Base * d = Base * k + Base * (d - k)
    BY <1>1
  <2>3. d - k \in Nat
    BY <1>1, <2>1
  <2>4. Base * (d - k) >= 0
    BY <2>3
  <2> QED BY <1>1, <1>2, <2>2, <2>4
<1> QED BY <1>1, <1>2

(* The digits of a number give the number. *)
LEMMA NumberOfDigits ==
    ASSUME NEW n \in Nat, NEW v \in 0..(Limit(n) - 1)
    PROVE  Number(Digits(v, n)) = v
<1> DEFINE b == Digits(v, n)
<1>0. Limit(n) \in Nat /\ v \in Nat /\ v < Limit(n)
  BY LimitType
<1>1. PICK s : Shifts(s, v, n)
  BY <1>0, DigitsSteps
<1>2. PICK w : Powers(w, n)
  BY LimitSteps
<1>3. b \in Seq(Nat) /\ Len(b) = n
  BY <1>0, DigitsType
<1>4. PICK t : Sums(t, b)
  BY <1>3, NumberSteps
<1>5. /\ s \in [0..n -> Nat] /\ s[0] = v /\ b = [i \in 1..n |-> s[i - 1] % Base]
      /\ \A i \in 1..n : s[i] = s[i - 1] \div Base
  BY <1>1 DEF Shifts
<1>6. /\ w \in [0..n -> Nat] /\ w[0] = 1 /\ w[n] = Limit(n)
      /\ \A i \in 1..n : w[i] = Base * w[i - 1]
  BY <1>2 DEF Powers
<1>7. /\ t \in [0..n -> Nat] /\ t[0] = 0 /\ Number(b) = t[n]
      /\ \A i \in 1..n : t[i] = b[n + 1 - i] + Base * t[i - 1]
  BY <1>3, <1>4 DEF Sums
<1> HIDE DEF b
<1>8. s[n] = 0
  <2> DEFINE small == {i \in 0..n : s[i] < w[n - i]}
  <2>1. 0 \in small
    BY <1>0, <1>5, <1>6
  <2>2. ASSUME NEW i \in 1..n, i - 1 \in small PROVE i \in small
    <3>1. n - i + 1 \in 1..n /\ n - i \in 0..n /\ (n - i + 1) - 1 = n - i
          /\ n - (i - 1) = n - i + 1 /\ i \in 0..n /\ i - 1 \in 0..n
      OBVIOUS
    <3>2. s[i - 1] < w[n - i + 1]
      BY <2>2, <3>1
    <3>3. w[n - i + 1] = Base * w[n - i]
      BY <1>6, <3>1
    <3>4. s[i - 1] \in Nat /\ w[n - i] \in Nat /\ s[i] = s[i - 1] \div Base
      BY <1>5, <1>6, <3>1
    <3>5. s[i] < w[n - i]
      BY <3>2, <3>3, <3>4, Division
    <3> QED BY <3>1, <3>5
  <2> HIDE DEF small
  <2>3. 0..n \subseteq small
    BY <2>1, <2>2, CountedInduction
  <2>4. s[n] < w[n - n]
    BY <2>3 DEF small
  <2> QED BY <1>5, <1>6, <2>4
<1>9. 0..n \subseteq {i \in 0..n : t[i] = s[n - i]}
  <2> DEFINE same == {i \in 0..n : t[i] = s[n - i]}
  <2>1. 0 \in same
    BY <1>7, <1>8
  <2>2. ASSUME NEW i \in 1..n, i - 1 \in same PROVE i \in same
    <3>1. n + 1 - i \in 1..n /\ n - i \in 0..n /\ (n + 1 - i) - 1 = n - i
          /\ n - (i - 1) = n + 1 - i /\ i \in 0..n
      OBVIOUS
    <3>2. b[n + 1 - i] = s[n - i] % Base /\ s[n + 1 - i] = s[n - i] \div Base
      BY <1>5, <3>1
    <3>3. t[i - 1] = s[n + 1 - i]
      BY <2>2, <3>1
    <3>4. t[i] = (s[n - i] % Base) + Base * (s[n - i] \div Base)
      BY <1>7, <3>2, <3>3
    <3>5. s[n - i] \in Nat
      BY <1>5, <3>1
    <3> QED BY <3>1, <3>4, <3>5, Division
  <2> HIDE DEF same
  <2>3. 0..n \subseteq same
    BY <2>1, <2>2, CountedInduction
  <2> QED BY <2>3 DEF same
<1>10. n \in 0..n /\ n - n = 0
  OBVIOUS
<1>11. t[n] = s[0]
  BY <1>9, <1>10
<1> QED BY <1>5, <1>7, <1>11 DEF b

-----------------------------------------------------------------------------
(* Sequences of sequences put together. *)
Joins(g, q, S) ==
    /\ g \in [1..Len(q) -> Seq(S)]
    /\ g[1] = q[1]
    /\ \A i \in 2..Len(q) : g[i] = g[i - 1] \o q[i]
    /\ FlattenSeq(q) = g[Len(q)]

LEMMA FlattenSteps ==
    ASSUME NEW S, NEW q \in Seq(Seq(S)), q # << >>
    PROVE  \E g : Joins(g, q, S)
<1> DEFINE n == Len(q)
           next == [p \in (1..(n - 1)) \X Seq(S) |-> p[2] \o q[p[1] + 1]]
           good(g) == g = [i \in 1..n |-> IF i = 1 THEN q[i] ELSE g[i - 1] \o q[i]]
           s == CHOOSE g : good(g)
<1>0. n \in Nat \ {0} /\ \A i \in 1..n : q[i] \in Seq(S)
  BY EmptySeq
<1>1. next \in [(1..(n - 1)) \X Seq(S) -> Seq(S)]
  <2>1. ASSUME NEW i \in 1..(n - 1), NEW v \in Seq(S) PROVE v \o q[i + 1] \in Seq(S)
    <3>1. q[i + 1] \in Seq(S)
      BY <1>0
    <3> QED BY <3>1, ConcatProperties
  <2> HIDE DEF n
  <2> QED BY <2>1
<1> HIDE DEF n
<1>2. PICK f : Counts(f, n - 1, Seq(S), q[1], next)
  <2>1. n - 1 \in Nat /\ q[1] \in Seq(S)
    BY <1>0
  <2> HIDE DEF next
  <2> QED BY <1>1, <2>1, CountedRecursion
<1> DEFINE g == [i \in 1..n |-> f[i - 1]]
<1>3. /\ g \in [1..n -> Seq(S)] /\ g[1] = q[1]
      /\ \A i \in 2..n : g[i] = g[i - 1] \o q[i]
  <2>1. f \in [0..(n - 1) -> Seq(S)] /\ f[0] = q[1]
    BY <1>2 DEF Counts
  <2>2. ASSUME NEW i \in 2..n PROVE f[i - 1] = f[i - 2] \o q[i]
    <3>1. i - 1 \in 1..(n - 1) /\ (i - 1) - 1 = i - 2 /\ i - 2 \in 0..(n - 1) /\ (i - 1) + 1 = i
      BY <1>0
    <3>2. f[i - 1] = next[<<i - 1, f[i - 2]>>]
      <4> HIDE DEF next
      <4> QED BY <1>2, <3>1 DEF Counts
    <3>3. f[i - 2] \in Seq(S)
      BY <2>1, <3>1
    <3>4. next[<<i - 1, f[i - 2]>>] = f[i - 2] \o q[(i - 1) + 1]
      BY <3>1, <3>3
    <3> HIDE DEF next
    <3> QED BY <3>1, <3>2, <3>4
  <2>3. ASSUME NEW i \in 1..n PROVE i - 1 \in 0..(n - 1)
    BY <1>0
  <2>4. ASSUME NEW i \in 2..n PROVE i \in 1..n /\ i - 1 \in 1..n /\ (i - 1) - 1 = i - 2
    BY <1>0
  <2>5. 1 \in 1..n /\ 1 - 1 = 0
    BY <1>0
  <2> HIDE DEF next
  <2>6. g \in [1..n -> Seq(S)]
    BY <2>1, <2>3
  <2>7. g[1] = q[1]
    BY <2>1, <2>5
  <2>8. ASSUME NEW i \in 2..n PROVE g[i] = g[i - 1] \o q[i]
    BY Zenon, <2>2, <2>4
  <2> QED BY <2>6, <2>7, <2>8
<1>4. good(s)
  <2>1. good(g)
    <3> HIDE DEF g
    <3>1. ASSUME NEW i \in 1..n PROVE g[i] = IF i = 1 THEN q[i] ELSE g[i - 1] \o q[i]
      <4>1. i = 1 \/ i \in 2..n
        BY <1>0
      <4> QED BY <1>3, <4>1
    <3> QED BY <1>3, <3>1
  <2> HIDE DEF g
  <2> QED BY Zenon, <2>1
<1> HIDE DEF s, next, g
<1>5. 0..n \subseteq {i \in 0..n : i = 0 \/ s[i] = g[i]}
  <2> DEFINE same == {i \in 0..n : i = 0 \/ s[i] = g[i]}
  <2>1. 0 \in same /\ n \in Nat
    BY <1>0
  <2>2. ASSUME NEW i \in 1..n, i - 1 \in same PROVE i \in same
    <3>1. i \in 0..n
      BY <1>0
    <3>2. s[i] = IF i = 1 THEN q[i] ELSE s[i - 1] \o q[i]
      BY <1>4, Zenon
    <3>3. CASE i = 1
      BY <1>3, <3>1, <3>2, <3>3
    <3>4. CASE i # 1
      <4>1. i \in 2..n /\ s[i - 1] = g[i - 1]
        BY <1>0, <2>2, <3>4
      <4>2. g[i] = g[i - 1] \o q[i]
        BY <1>3, <4>1
      <4> QED BY <3>1, <3>2, <3>4, <4>1, <4>2
    <3> QED BY <3>3, <3>4
  <2> HIDE DEF same
  <2>3. 0..n \subseteq same
    BY <2>1, <2>2, CountedInduction
  <2> QED BY <2>3 DEF same
<1>6. s[n] = g[n]
  <2>1. n \in 0..n /\ n # 0
    BY <1>0
  <2> QED BY <1>5, <2>1
<1>7. FlattenSeq(q) = s[n]
  BY <1>0 DEF FlattenSeq, n, s
<1> QED BY <1>3, <1>6, <1>7 DEF Joins, n

LEMMA FlattenType ==
    ASSUME NEW S, NEW q \in Seq(Seq(S))
    PROVE  /\ FlattenSeq(q) \in Seq(S)
           /\ q # << >> => Len(FlattenSeq(q)) >= Len(q[Len(q)])
<1>1. CASE q = << >>
  BY <1>1 DEF FlattenSeq
<1>2. CASE q # << >>
  <2> DEFINE n == Len(q)
  <2>0. PICK g : Joins(g, q, S)
    BY <1>2, FlattenSteps
  <2>1. /\ g \in [1..n -> Seq(S)]
        /\ g[1] = q[1]
        /\ \A i \in 2..n : g[i] = g[i - 1] \o q[i]
        /\ FlattenSeq(q) = g[n]
    BY <2>0 DEF Joins
  <2>2. n \in Nat \ {0} /\ DOMAIN q = 1..n /\ \A i \in 1..n : q[i] \in Seq(S)
    BY <1>2, EmptySeq
  <2> HIDE DEF n
  <2>3. FlattenSeq(q) \in Seq(S)
    BY <2>1, <2>2
  <2>4. Len(FlattenSeq(q)) >= Len(q[n])
    <3>1. CASE n = 1
      <4>1. FlattenSeq(q) = q[n] /\ q[n] \in Seq(S)
        BY <2>1, <2>2, <3>1
      <4> QED BY <4>1
    <3>2. CASE n # 1
      <4>1. n \in 2..n /\ n - 1 \in 1..n /\ n \in 1..n
        BY <2>2, <3>2
      <4>2. FlattenSeq(q) = g[n - 1] \o q[n] /\ g[n - 1] \in Seq(S)
        BY <2>1, <4>1
      <4>3. q[n] \in Seq(S)
        BY <2>2, <4>1
      <4> HIDE <2>1, <2>2
      <4> DEFINE a == g[n - 1]
                 b == q[n]
      <4>4. a \in Seq(S) /\ b \in Seq(S) /\ FlattenSeq(q) = a \o b
        BY <4>2, <4>3
      <4> HIDE DEF a, b
      <4>5. Len(a \o b) = Len(a) + Len(b) /\ Len(a) \in Nat /\ Len(b) \in Nat
        BY <4>4
      <4>6. Len(FlattenSeq(q)) >= Len(b)
        BY <4>4, <4>5
      <4> QED BY <4>6 DEF b
    <3> QED BY <3>1, <3>2
  <2> QED BY <2>2, <2>3, <2>4 DEF n
<1> QED BY <1>1, <1>2

-----------------------------------------------------------------------------
(* What a field of each kind holds. *)
Kinds == {"u32", "u64", "path", "mounts", "strings"}

Values(kind) ==
    CASE kind = "u32"     -> u32
      [] kind = "u64"     -> u64
      [] kind = "path"    -> Text
      [] kind = "mounts"  -> Vec(Text \X Text)
      [] kind = "strings" -> Vec(CString)

LEMMA NumberTypes ==
    u32 \subseteq Nat /\ u64 \subseteq Nat /\ Width \in Nat \ {0} /\ 2 * Width \in Nat
<1>1. Width \in Nat \ {0} /\ 2 * Width \in Nat
  BY DigitAssumption
<1>2. Limit(Width) \in Nat /\ Limit(2 * Width) \in Nat
  BY <1>1, LimitType
<1> QED BY <1>1, <1>2 DEF u32, u64

LEMMA TextType ==
    /\ \A t \in Text : t \in Seq(Nat) /\ Len(t) \in u32
    /\ \A t \in CString : t \in Text /\ ~Contains(t, 0)
<1>1. ASSUME NEW t \in Text PROVE t \in Seq(Nat) /\ Len(t) \in u32
  <2>1. t \in Seq(0..(Base - 1)) /\ Len(t) \in u32
    BY DEF Text
  <2>2. 0..(Base - 1) \subseteq Nat
    BY DigitAssumption
  <2>3. t \in Seq(Nat)
    <3> DEFINE D == 0..(Base - 1)
    <3> HIDE DEF D
    <3>1. t \in Seq(D) /\ D \subseteq Nat
      BY <2>1, <2>2 DEF D
    <3> QED BY <3>1, SeqMonotonic
  <2> QED BY <2>1, <2>3
<1>2. ASSUME NEW t \in CString PROVE t \in Text /\ ~Contains(t, 0)
  BY DEF CString
<1> QED BY <1>1, <1>2

LEMMA PushU32Type == \A v \in Nat : push_u32(v) \in Seq(Nat) /\ Len(push_u32(v)) = Width
  BY DigitsType, DigitAssumption DEF push_u32

LEMMA PushBytesType ==
    \A data \in Text : /\ push_bytes(data) \in Seq(Nat)
                       /\ Len(push_bytes(data)) = Width + Len(data)
<1> SUFFICES ASSUME NEW data \in Text
             PROVE  push_bytes(data) \in Seq(Nat) /\ Len(push_bytes(data)) = Width + Len(data)
  OBVIOUS
<1>1. data \in Seq(Nat)
  BY TextType
<1> DEFINE n == push_u32(Len(data))
<1>2. n \in Seq(Nat) /\ Len(n) = Width
  BY <1>1, PushU32Type
<1> HIDE DEF n
<1>3. n \o data \in Seq(Nat) /\ Len(n \o data) = Width + Len(data)
  BY SMTT(40), <1>1, <1>2
<1> QED BY <1>3 DEF push_bytes, n

LEMMA PushMountType ==
    \A m \in Text \X Text :
        /\ m[1] \in Text /\ m[2] \in Text
        /\ PushMount(m) \in Seq(Nat)
        /\ Len(PushMount(m)) = (Width + Len(m[1])) + (Width + Len(m[2]))
<1> SUFFICES ASSUME NEW m \in Text \X Text
             PROVE  /\ m[1] \in Text /\ m[2] \in Text
                    /\ PushMount(m) \in Seq(Nat)
                    /\ Len(PushMount(m)) = (Width + Len(m[1])) + (Width + Len(m[2]))
  OBVIOUS
<1>1. m[1] \in Text /\ m[2] \in Text
  OBVIOUS
<1> DEFINE a == push_bytes(m[1])
           b == push_bytes(m[2])
<1>2. /\ a \in Seq(Nat) /\ Len(a) = Width + Len(m[1])
      /\ b \in Seq(Nat) /\ Len(b) = Width + Len(m[2])
  BY <1>1, PushBytesType
<1>3. PushMount(m) = a \o b
  BY DEF PushMount
<1> HIDE DEF a, b
<1> QED BY <1>1, <1>2, <1>3

(* The pieces of a list, one for each item. *)
Pieces(kind, items) ==
    [i \in DOMAIN items |-> IF kind = "mounts" THEN PushMount(items[i])
                                              ELSE push_bytes(items[i])]

LEMMA PiecesType ==
    /\ \A v \in Vec(Text \X Text) :
          /\ v \in Seq(Text \X Text) /\ Len(v) \in u32
          /\ Pieces("mounts", v) \in Seq(Seq(Nat)) /\ Len(Pieces("mounts", v)) = Len(v)
          /\ \A i \in 1..Len(v) : /\ Pieces("mounts", v)[i] = PushMount(v[i])
                                   /\ Len(Pieces("mounts", v)[i]) >= Width
    /\ \A v \in Vec(CString) :
          /\ v \in Seq(CString) /\ Len(v) \in u32
          /\ Pieces("strings", v) \in Seq(Seq(Nat)) /\ Len(Pieces("strings", v)) = Len(v)
          /\ \A i \in 1..Len(v) : /\ Pieces("strings", v)[i] = push_bytes(v[i])
                                   /\ Len(Pieces("strings", v)[i]) >= Width
<1>1. ASSUME NEW v \in Vec(Text \X Text)
      PROVE  /\ v \in Seq(Text \X Text) /\ Len(v) \in u32
             /\ Pieces("mounts", v) \in Seq(Seq(Nat)) /\ Len(Pieces("mounts", v)) = Len(v)
             /\ \A i \in 1..Len(v) : /\ Pieces("mounts", v)[i] = PushMount(v[i])
                                      /\ Len(Pieces("mounts", v)[i]) >= Width
  <2>1. v \in Seq(Text \X Text) /\ Len(v) \in u32
    BY DEF Vec
  <2>2. Pieces("mounts", v) = [i \in 1..Len(v) |-> PushMount(v[i])]
    BY <2>1 DEF Pieces
  <2>3. ASSUME NEW i \in 1..Len(v)
        PROVE  PushMount(v[i]) \in Seq(Nat) /\ Len(PushMount(v[i])) >= Width
    <3>1. v[i] \in Text \X Text
      BY <2>1
    <3> DEFINE m == v[i]
    <3>2. /\ m[1] \in Text /\ m[2] \in Text /\ PushMount(m) \in Seq(Nat)
          /\ Len(PushMount(m)) = (Width + Len(m[1])) + (Width + Len(m[2]))
      BY <3>1, PushMountType
    <3>3. Len(m[1]) \in Nat /\ Len(m[2]) \in Nat
      BY <3>2, TextType, NumberTypes
    <3> DEFINE a == Len(m[1])
               b == Len(m[2])
               c == Len(PushMount(m))
    <3>4. c = (Width + a) + (Width + b) /\ a \in Nat /\ b \in Nat /\ Width \in Nat
      BY <3>2, <3>3, NumberTypes
    <3> HIDE DEF a, b, c
    <3>5. c >= Width
      BY <3>4
    <3> QED BY <3>2, <3>5 DEF c
  <2> QED BY <2>1, <2>2, <2>3
<1>2. ASSUME NEW v \in Vec(CString)
      PROVE  /\ v \in Seq(CString) /\ Len(v) \in u32
             /\ Pieces("strings", v) \in Seq(Seq(Nat)) /\ Len(Pieces("strings", v)) = Len(v)
             /\ \A i \in 1..Len(v) : /\ Pieces("strings", v)[i] = push_bytes(v[i])
                                      /\ Len(Pieces("strings", v)[i]) >= Width
  <2>1. v \in Seq(CString) /\ Len(v) \in u32
    BY DEF Vec
  <2>2. Pieces("strings", v) = [i \in 1..Len(v) |-> push_bytes(v[i])]
    BY <2>1 DEF Pieces
  <2>3. ASSUME NEW i \in 1..Len(v)
        PROVE  push_bytes(v[i]) \in Seq(Nat) /\ Len(push_bytes(v[i])) >= Width
    <3>1. v[i] \in Text
      BY <2>1, TextType
    <3>2. Len(v[i]) \in Nat
      BY <3>1, TextType, NumberTypes
    <3> QED BY <3>1, <3>2, PushBytesType, NumberTypes
  <2> QED BY SMTT(40), <2>1, <2>2, <2>3
<1> QED BY <1>1, <1>2

LEMMA PushEachType ==
    ASSUME NEW kind, NEW items, Pieces(kind, items) \in Seq(Seq(Nat)), Len(items) \in Nat
    PROVE  /\ PushEach(kind, items) = push_u32(Len(items)) \o FlattenSeq(Pieces(kind, items))
           /\ FlattenSeq(Pieces(kind, items)) \in Seq(Nat)
           /\ PushEach(kind, items) \in Seq(Nat)
<1>1. PushEach(kind, items) = push_u32(Len(items)) \o FlattenSeq(Pieces(kind, items))
  BY DEF PushEach, Pieces
<1>2. FlattenSeq(Pieces(kind, items)) \in Seq(Nat) /\ push_u32(Len(items)) \in Seq(Nat)
  BY FlattenType, PushU32Type
<1> QED BY <1>1, <1>2, ConcatProperties

LEMMA PushType == \A kind \in Kinds : \A v \in Values(kind) : Push(kind, v) \in Seq(Nat)
<1> SUFFICES ASSUME NEW kind \in Kinds, NEW v \in Values(kind) PROVE Push(kind, v) \in Seq(Nat)
  OBVIOUS
<1>1. CASE kind = "u32"
  <2>1. v \in u32 /\ Push(kind, v) = push_u32(v)
    BY <1>1 DEF Values, Push
  <2> QED BY <2>1, NumberTypes, PushU32Type
<1>2. CASE kind = "u64"
  <2>1. v \in u64 /\ Push(kind, v) = Digits(v, 2 * Width)
    BY <1>2 DEF Values, Push, push_u64
  <2> QED BY <2>1, NumberTypes, DigitsType
<1>3. CASE kind = "path"
  <2>1. v \in Text /\ Push(kind, v) = push_bytes(v)
    BY <1>3 DEF Values, Push
  <2> QED BY <2>1, PushBytesType
<1>4. CASE kind = "mounts"
  <2>1. v \in Vec(Text \X Text) /\ Push(kind, v) = PushEach("mounts", v)
    BY <1>4 DEF Values, Push
  <2>2. Pieces("mounts", v) \in Seq(Seq(Nat)) /\ Len(v) \in Nat
    BY <2>1, PiecesType, NumberTypes
  <2> QED BY <2>1, <2>2, PushEachType
<1>5. CASE kind = "strings"
  <2>1. v \in Vec(CString) /\ Push(kind, v) = PushEach("strings", v)
    BY <1>5 DEF Values, Push
  <2>2. Pieces("strings", v) \in Seq(Seq(Nat)) /\ Len(v) \in Nat
    BY <2>1, PiecesType, NumberTypes
  <2> QED BY <2>1, <2>2, PushEachType
<1> QED BY <1>1, <1>2, <1>3, <1>4, <1>5 DEF Kinds

(* Every field of a request is of the kind it is written as. *)
LEMMA FieldTypes ==
    /\ Len(SerializeOrder) = 16 /\ DOMAIN SerializeOrder = 1..16
    /\ \A r \in Request : \A i \in 1..16 :
          /\ SerializeOrder[i][2] \in Kinds
          /\ r[SerializeOrder[i][1]] \in Values(SerializeOrder[i][2])
<1>1. Len(SerializeOrder) = 16 /\ DOMAIN SerializeOrder = 1..16
  BY DEF SerializeOrder
<1>2. ASSUME NEW r \in Request, NEW i \in 1..16
      PROVE  /\ SerializeOrder[i][2] \in Kinds
             /\ r[SerializeOrder[i][1]] \in Values(SerializeOrder[i][2])
  <2> DEFINE Typed(name, kind) == kind \in Kinds /\ r[name] \in Values(kind)
             Ok(k) == Typed(SerializeOrder[k][1], SerializeOrder[k][2])
  <2>0. /\ Values("u32") = u32 /\ Values("u64") = u64 /\ Values("path") = Text
        /\ Values("mounts") = Vec(Text \X Text) /\ Values("strings") = Vec(CString)
    BY DEF Values
  <2>1. Typed("workspace_path", "path") /\ Typed("cgroup_path", "path")
    BY <2>0 DEF Request, Kinds
  <2>2. Typed("extra_ro_mounts", "mounts")
    BY <2>0 DEF Request, Kinds
  <2>3. Typed("argv", "strings") /\ Typed("env", "strings")
    BY <2>0 DEF Request, Kinds
  <2>4. /\ Typed("memory_max_bytes", "u64") /\ Typed("cpu_quota_us", "u64")
        /\ Typed("cpu_period_us", "u64") /\ Typed("ttl_secs", "u64")
        /\ Typed("max_open_files", "u64") /\ Typed("max_file_size_bytes", "u64")
        /\ Typed("stack_size_bytes", "u64")
    BY <2>0 DEF Request, Kinds
  <2>5. /\ Typed("pids_max", "u32") /\ Typed("ttl_nanos", "u32")
        /\ Typed("host_uid", "u32") /\ Typed("host_gid", "u32")
    BY <2>0 DEF Request, Kinds
  <2> HIDE DEF Typed
  <2>6. Ok(1) /\ Ok(2) /\ Ok(3) /\ Ok(4) /\ Ok(5) /\ Ok(6) /\ Ok(7) /\ Ok(8)
    BY <2>1, <2>2, <2>4, <2>5 DEF SerializeOrder
  <2>7. Ok(9) /\ Ok(10) /\ Ok(11) /\ Ok(12) /\ Ok(13) /\ Ok(14) /\ Ok(15) /\ Ok(16)
    BY <2>1, <2>3, <2>4, <2>5 DEF SerializeOrder
  <2> HIDE DEF Ok
  <2>8. Ok(i)
    <3>1. CASE i \in 1..8
      BY <2>6, <3>1
    <3>2. CASE i \in 9..16
      BY <2>7, <3>2
    <3> QED BY <3>1, <3>2
  <2> QED BY <2>8 DEF Ok, Typed
<1> QED BY <1>1, <1>2

(* The pieces of a request, one for each field. *)
Fields(r) ==
    [i \in DOMAIN SerializeOrder |-> Push(SerializeOrder[i][2], r[SerializeOrder[i][1]])]

LEMMA SerializeType ==
    \A r \in Request : /\ Fields(r) \in Seq(Seq(Nat)) /\ Len(Fields(r)) = 16
                       /\ serialize(r) = FlattenSeq(Fields(r))
                       /\ serialize(r) \in Seq(Nat) /\ Len(serialize(r)) >= Width
<1> SUFFICES ASSUME NEW r \in Request
             PROVE  /\ Fields(r) \in Seq(Seq(Nat)) /\ Len(Fields(r)) = 16
                    /\ serialize(r) = FlattenSeq(Fields(r))
                    /\ serialize(r) \in Seq(Nat) /\ Len(serialize(r)) >= Width
  OBVIOUS
<1> DEFINE Field(i) == Push(SerializeOrder[i][2], r[SerializeOrder[i][1]])
<1>1. ASSUME NEW i \in 1..16 PROVE Field(i) \in Seq(Nat)
  BY FieldTypes, PushType
<1>2. Len(Field(16)) = Width
  <2>1. Field(16) = push_u32(r.host_gid) /\ r.host_gid \in u32
    BY DEF SerializeOrder, Push, Request
  <2> QED BY <2>1, PushU32Type, NumberTypes
<1>3. Fields(r) = [i \in 1..16 |-> Field(i)]
  BY FieldTypes DEF Fields
<1> HIDE DEF Field
<1>4. Fields(r) \in Seq(Seq(Nat)) /\ Len(Fields(r)) = 16 /\ Fields(r)[16] = Field(16)
  BY <1>1, <1>3
<1>5. serialize(r) = FlattenSeq(Fields(r))
  BY DEF serialize, Fields
<1>6. Fields(r) # << >>
  BY <1>4
<1> QED BY <1>2, <1>4, <1>5, <1>6, FlattenType, NumberTypes

-----------------------------------------------------------------------------
(* What is in the buffer from a position on. *)
At(buf, p, s) == p + Len(s) <= Len(buf) /\ \A k \in 1..Len(s) : buf[p + k] = s[k]

LEMMA AtJoin ==
    ASSUME NEW buf \in Seq(Nat), NEW p \in Nat, NEW s \in Seq(Nat), NEW t \in Seq(Nat),
           At(buf, p, s \o t)
    PROVE  At(buf, p, s) /\ At(buf, p + Len(s), t)
<1>1. /\ Len(s \o t) = Len(s) + Len(t) /\ Len(s) \in Nat /\ Len(t) \in Nat /\ Len(buf) \in Nat
      /\ \A k \in 1..Len(s) : (s \o t)[k] = s[k]
      /\ \A k \in 1..Len(t) : (s \o t)[Len(s) + k] = t[k]
  BY SMTT(40)
<1> DEFINE st == s \o t
           m == Len(s)
           n == Len(t)
<1>2. /\ Len(st) = m + n /\ m \in Nat /\ n \in Nat
      /\ \A k \in 1..m : st[k] = s[k]
      /\ \A k \in 1..n : st[m + k] = t[k]
  BY <1>1
<1>3. p + Len(st) <= Len(buf) /\ \A k \in 1..Len(st) : buf[p + k] = st[k]
  BY DEF At
<1> HIDE DEF st, m, n
<1>4. p + m <= Len(buf) /\ (p + m) + n <= Len(buf)
  BY <1>1, <1>2, <1>3
<1>5. ASSUME NEW k \in 1..m PROVE buf[p + k] = s[k]
  <2>1. k \in 1..(m + n)
    BY <1>2
  <2> QED BY <1>2, <1>3, <2>1
<1>6. ASSUME NEW k \in 1..n PROVE buf[(p + m) + k] = t[k]
  <2>1. m + k \in 1..(m + n) /\ p + (m + k) = (p + m) + k
    BY <1>2
  <2>2. buf[p + (m + k)] = st[m + k]
    BY <1>2, <1>3, <2>1
  <2> QED BY <1>2, <2>1, <2>2
<1> QED BY <1>4, <1>5, <1>6 DEF At, m, n

LEMMA AtSubSeq ==
    ASSUME NEW buf \in Seq(Nat), NEW p \in Nat, NEW s \in Seq(Nat), At(buf, p, s)
    PROVE  SubSeq(buf, p + 1, p + Len(s)) = s /\ p + Len(s) <= Len(buf)
<1> DEFINE n == Len(s)
           t == SubSeq(buf, p + 1, p + n)
<1>1. n \in Nat /\ Len(buf) \in Nat /\ p + n <= Len(buf) /\ \A k \in 1..n : buf[p + k] = s[k]
  BY DEF At
<1>2. \A i \in (p + 1)..(p + n) : buf[i] \in Nat
  BY SMTT(40), <1>1
<1>3. /\ t \in Seq(Nat) /\ Len(t) = IF p + 1 <= p + n THEN (p + n) - (p + 1) + 1 ELSE 0
      /\ \A i \in 1..((p + n) - (p + 1) + 1) : t[i] = buf[(p + 1) + i - 1]
  <2> HIDE DEF n
  <2> QED BY <1>1, <1>2, SubSeqProperties
<1> HIDE DEF t
<1>4. Len(t) = n
  BY <1>1, <1>3
<1>5. ASSUME NEW i \in 1..n PROVE t[i] = s[i]
  <2>1. (p + n) - (p + 1) + 1 = n /\ (p + 1) + i - 1 = p + i
    BY <1>1
  <2> QED BY <1>1, <1>3, <2>1
<1> QED BY <1>1, <1>3, <1>4, <1>5, SeqEqual DEF t

(* The pieces of a sequence of sequences lie one behind the other. *)
Lays(buf, p, q, at) ==
    /\ at \in [0..Len(q) -> Nat]
    /\ at[0] = p /\ at[Len(q)] = p + Len(FlattenSeq(q))
    /\ \A i \in 1..Len(q) : at[i] = at[i - 1] + Len(q[i]) /\ At(buf, at[i - 1], q[i])

LEMMA FlattenLays ==
    ASSUME NEW buf \in Seq(Nat), NEW p \in Nat, NEW q \in Seq(Seq(Nat)),
           At(buf, p, FlattenSeq(q))
    PROVE  \E at : Lays(buf, p, q, at)
<1>1. CASE q = << >>
  <2> DEFINE at == [i \in 0..0 |-> p]
  <2>1. FlattenSeq(q) = << >> /\ Len(q) = 0 /\ Len(<< >>) = 0
    BY <1>1 DEF FlattenSeq
  <2>2. Lays(buf, p, q, at)
    BY <2>1 DEF Lays
  <2> QED BY <2>2
<1>2. CASE q # << >>
  <2> DEFINE n == Len(q)
  <2>0. PICK g : Joins(g, q, Nat)
    BY <1>2, FlattenSteps
  <2>1. /\ g \in [1..n -> Seq(Nat)] /\ g[1] = q[1] /\ FlattenSeq(q) = g[n]
        /\ \A i \in 2..n : g[i] = g[i - 1] \o q[i]
    BY <2>0 DEF Joins
  <2>2. n \in Nat \ {0} /\ \A i \in 1..n : q[i] \in Seq(Nat)
    BY <1>2, EmptySeq
  <2> HIDE DEF n
  <2>3. \A i \in 1..n : At(buf, p, g[i])
    <3> DEFINE there == {k \in 0..(n - 1) : At(buf, p, g[n - k])}
    <3>1. 0 \in there /\ n - 1 \in Nat
      BY <2>1, <2>2
    <3>2. ASSUME NEW k \in 1..(n - 1), k - 1 \in there PROVE k \in there
      <4>1. n - k + 1 \in 2..n /\ n - (k - 1) = n - k + 1 /\ (n - k + 1) - 1 = n - k
            /\ k \in 0..(n - 1) /\ n - k \in 1..n /\ n - k + 1 \in 1..n
        BY <2>2
      <4>2. g[n - k + 1] = g[n - k] \o q[n - k + 1] /\ At(buf, p, g[n - k + 1])
        BY <2>1, <3>2, <4>1
      <4>3. g[n - k] \in Seq(Nat) /\ q[n - k + 1] \in Seq(Nat)
        BY <2>1, <2>2, <4>1
      <4>4. At(buf, p, g[n - k])
        BY <4>2, <4>3, AtJoin
      <4> QED BY <4>1, <4>4
    <3> HIDE DEF there
    <3>3. 0..(n - 1) \subseteq there
      BY <3>1, <3>2, CountedInduction
    <3>4. ASSUME NEW i \in 1..n PROVE At(buf, p, g[i])
      <4>1. n - i \in 0..(n - 1) /\ n - (n - i) = i
        BY <2>2
      <4>2. n - i \in there
        BY <3>3, <4>1
      <4>3. At(buf, p, g[n - (n - i)])
        BY <4>2 DEF there
      <4> QED BY <4>1, <4>3
    <3> QED BY <3>4
  <2> DEFINE ends == [i \in 0..n |-> IF i = 0 THEN p ELSE p + Len(g[i])]
  <2>4. ASSUME NEW i \in 1..n PROVE ends[i] = p + Len(g[i]) /\ Len(g[i]) \in Nat
    BY <2>1
  <2>5. ends \in [0..n -> Nat] /\ ends[0] = p /\ ends[n] = p + Len(FlattenSeq(q))
    <3>1. 0 \in 0..n /\ n \in 0..n /\ n # 0
      BY <2>2
    <3>2. ASSUME NEW i \in 0..n, i # 0 PROVE p + Len(g[i]) \in Nat
      <4>1. i \in 1..n
        BY <3>2
      <4> QED BY <2>1, <4>1
    <3> QED BY <2>1, <3>1, <3>2
  <2> HIDE DEF ends
  <2>6. ASSUME NEW i \in 1..n
        PROVE  ends[i] = ends[i - 1] + Len(q[i]) /\ At(buf, ends[i - 1], q[i])
    <3>1. CASE i = 1
      <4>1. ends[i - 1] = p /\ g[i] = q[i]
        BY <2>1, <2>5, <3>1
      <4> QED BY <2>3, <2>4, <4>1
    <3>2. CASE i # 1
      <4>1. i \in 2..n /\ i - 1 \in 1..n
        BY <2>2, <3>2
      <4> DEFINE a == g[i - 1]
                 b == q[i]
      <4>2. g[i] = a \o b /\ a \in Seq(Nat) /\ b \in Seq(Nat)
            /\ ends[i - 1] = p + Len(a) /\ At(buf, p, a \o b)
        BY <2>1, <2>2, <2>3, <2>4, <4>1
      <4>3. ends[i] = p + Len(a \o b)
        BY <2>4, <4>2
      <4> HIDE DEF a, b
      <4>4. At(buf, p + Len(a), b)
        BY <4>2, AtJoin
      <4>5. Len(a \o b) = Len(a) + Len(b) /\ Len(a) \in Nat /\ Len(b) \in Nat
        BY <4>2
      <4>6. ends[i] = ends[i - 1] + Len(b)
        BY <4>2, <4>3, <4>5
      <4> QED BY <4>2, <4>4, <4>6 DEF b
    <3> QED BY <3>1, <3>2
  <2>7. Lays(buf, p, q, ends)
    BY <2>5, <2>6 DEF Lays, n
  <2> QED BY <2>7
<1> QED BY <1>1, <1>2

-----------------------------------------------------------------------------
(* What was pushed is what is pulled. *)
LEMMA ThenSome ==
    \A v, p, next : Then(Some(v, p), next) = next /\ Some(v, p).value = v /\ Some(v, p).p = p
  BY DEF Then, Some

LEMMA PullNumberBack ==
    ASSUME NEW buf \in Seq(Nat), NEW p \in Nat, NEW n \in Nat, NEW v \in 0..(Limit(n) - 1),
           At(buf, p, Digits(v, n))
    PROVE  PullNumber(buf, p, n) = Some(v, p + n) /\ p + n <= Len(buf)
<1>1. v \in Nat
  BY LimitType
<1>2. Digits(v, n) \in Seq(Nat) /\ Len(Digits(v, n)) = n
  BY <1>1, DigitsType
<1>3. SubSeq(buf, p + 1, p + n) = Digits(v, n) /\ p + n <= Len(buf)
  <2> DEFINE d == Digits(v, n)
  <2>1. d \in Seq(Nat) /\ Len(d) = n /\ At(buf, p, d)
    BY <1>2
  <2> HIDE DEF d
  <2>2. SubSeq(buf, p + 1, p + Len(d)) = d /\ p + Len(d) <= Len(buf)
    BY <2>1, AtSubSeq
  <2> QED BY <2>1, <2>2 DEF d
<1> QED BY <1>3, NumberOfDigits DEF PullNumber

LEMMA pull_bytesBack ==
    ASSUME NEW buf \in Seq(Nat), NEW p \in Nat, NEW data \in Text,
           At(buf, p, push_bytes(data))
    PROVE  pull_bytes(buf, p) = Some(data, p + Len(push_bytes(data)))
<1> DEFINE n == push_u32(Len(data))
           l == Len(data)
           len == PullNumber(buf, p, Width)
<1>1. data \in Seq(Nat) /\ l \in u32 /\ l \in Nat /\ Width \in Nat
  BY TextType, NumberTypes
<1>2. n \in Seq(Nat) /\ Len(n) = Width
  BY <1>1, PushU32Type
<1>3. At(buf, p, n) /\ At(buf, p + Width, data)
  BY <1>1, <1>2, AtJoin DEF push_bytes
<1>4. len = Some(l, p + Width)
  BY <1>1, <1>3, PullNumberBack DEF u32, push_u32
<1>5. p + Width \in Nat
  BY <1>1
<1>6. SubSeq(buf, (p + Width) + 1, (p + Width) + l) = data /\ (p + Width) + l <= Len(buf)
  BY <1>1, <1>3, <1>5, AtSubSeq
<1>7. (p + Width) + l = p + Len(push_bytes(data)) /\ Len(buf) \in Nat
  <2>1. Len(push_bytes(data)) = Width + l /\ Len(buf) \in Nat
    BY PushBytesType
  <2> HIDE DEF l
  <2> QED BY <1>1, <2>1
<1>8. pull_bytes(buf, p) =
         Then(len, IF len.p + len.value > Len(buf) THEN None
                   ELSE Some(SubSeq(buf, len.p + 1, len.p + len.value), len.p + len.value))
  BY DEF pull_bytes
<1> HIDE DEF len, l, n
<1>9. len.p = p + Width /\ len.value = l
  BY <1>4, ThenSome
<1>10. ~((p + Width) + l > Len(buf))
  BY <1>1, <1>5, <1>6, <1>7
<1>11. pull_bytes(buf, p) = Then(len, Some(data, (p + Width) + l))
  BY <1>6, <1>8, <1>9, <1>10
<1> QED BY <1>4, <1>7, <1>11, ThenSome

LEMMA pull_cstringBack ==
    ASSUME NEW buf \in Seq(Nat), NEW p \in Nat, NEW data \in CString,
           At(buf, p, push_bytes(data))
    PROVE  pull_cstring(buf, p) = Some(data, p + Len(push_bytes(data)))
<1> DEFINE s == pull_bytes(buf, p)
<1>1. data \in Text /\ ~Contains(data, 0)
  BY TextType
<1>2. s = Some(data, p + Len(push_bytes(data)))
  BY <1>1, pull_bytesBack
<1>3. pull_cstring(buf, p) = Then(s, IF Contains(s.value, 0) THEN None ELSE s)
  BY DEF pull_cstring
<1> HIDE DEF s
<1>4. s.value = data
  BY <1>2, ThenSome
<1>5. pull_cstring(buf, p) = Then(s, s)
  BY <1>1, <1>3, <1>4
<1> QED BY <1>2, <1>5, ThenSome

LEMMA PullMountBack ==
    ASSUME NEW buf \in Seq(Nat), NEW p \in Nat, NEW m \in Text \X Text,
           At(buf, p, PushMount(m))
    PROVE  PullMount(buf, p) = Some(m, p + Len(PushMount(m)))
<1> DEFINE a == push_bytes(m[1])
           b == push_bytes(m[2])
           host == pull_bytes(buf, p)
           sandbox == pull_bytes(buf, host.p)
<1>1. m[1] \in Text /\ m[2] \in Text /\ m = <<m[1], m[2]>>
  OBVIOUS
<1>2. a \in Seq(Nat) /\ b \in Seq(Nat)
  BY <1>1, PushBytesType
<1>3. PushMount(m) = a \o b
  BY DEF PushMount
<1> HIDE DEF a, b
<1>4. At(buf, p, a) /\ At(buf, p + Len(a), b) /\ p + Len(a) \in Nat
      /\ Len(a \o b) = Len(a) + Len(b) /\ Len(a) \in Nat /\ Len(b) \in Nat
  BY <1>2, <1>3, AtJoin
<1>5. host = Some(m[1], p + Len(a))
  BY <1>1, <1>4, pull_bytesBack DEF a
<1> DEFINE p2 == p + Len(a)
<1>6. p2 \in Nat /\ At(buf, p2, push_bytes(m[2])) /\ host.p = p2
  BY <1>4, <1>5, ThenSome DEF b
<1> HIDE DEF p2
<1>7. pull_bytes(buf, p2) = Some(m[2], p2 + Len(push_bytes(m[2])))
  BY <1>1, <1>6, pull_bytesBack
<1>8. sandbox = Some(m[2], p2 + Len(b))
  BY <1>6, <1>7 DEF b
<1>9. PullMount(buf, p)
        = Then(host, Then(sandbox, Some(<<host.value, sandbox.value>>, sandbox.p)))
  BY DEF PullMount
<1> HIDE DEF host, sandbox
<1>10. host.value = m[1] /\ sandbox.value = m[2] /\ sandbox.p = p2 + Len(b)
  BY <1>5, <1>8, ThenSome
<1>11. PullMount(buf, p) = Some(<<m[1], m[2]>>, p2 + Len(b))
  BY <1>5, <1>8, <1>9, <1>10, ThenSome
<1>12. p2 + Len(b) = p + Len(PushMount(m))
  BY <1>3, <1>4 DEF p2
<1> QED BY <1>1, <1>11, <1>12

(***************************************************************************)
(* Items gathered one after the other: s[i] is what there is after i of    *)
(* them, and at[i] the position.                                           *)
(***************************************************************************)
Gathered(items, at, i) == Some(SubSeq(items, 1, i), at[i])

LEMMA GatherNext ==
    \A S : \A items \in Seq(S) : \A at : \A i \in 1..Len(items) :
        Gather(Gathered(items, at, i - 1), Some(items[i], at[i])) = Gathered(items, at, i)
<1> SUFFICES ASSUME NEW S, NEW items \in Seq(S), NEW at, NEW i \in 1..Len(items)
             PROVE  Gather(Gathered(items, at, i - 1), Some(items[i], at[i]))
                      = Gathered(items, at, i)
  OBVIOUS
<1> DEFINE a == SubSeq(items, 1, i - 1)
           c == SubSeq(items, 1, i)
<1>0. Len(items) \in Nat /\ i \in Nat
  OBVIOUS
<1>1. /\ a \in Seq(S) /\ Len(a) = i - 1 /\ \A k \in 1..(i - 1) : a[k] = items[k]
      /\ c \in Seq(S) /\ Len(c) = i /\ \A k \in 1..i : c[k] = items[k]
  OBVIOUS
<1> HIDE DEF a, c
<1>2. Append(a, items[i]) = c
  <2> DEFINE d == Append(a, items[i])
  <2>1. /\ d \in Seq(S) /\ Len(d) = (i - 1) + 1 /\ d[(i - 1) + 1] = items[i]
        /\ \A k \in 1..(i - 1) : d[k] = a[k]
    BY <1>1
  <2> HIDE DEF d
  <2>2. Len(d) = i /\ d[i] = items[i]
    BY <1>0, <2>1
  <2>3. ASSUME NEW k \in 1..i PROVE d[k] = c[k]
    <3>1. k = i \/ k \in 1..(i - 1)
      BY <1>0
    <3> QED BY <1>1, <2>1, <2>2, <3>1
  <2>4. d = c
    BY <1>1, <2>1, <2>2, <2>3, SeqEqual
  <2> QED BY <2>4 DEF d
<1>3. Gather(Some(a, at[i - 1]), Some(items[i], at[i])) = Some(Append(a, items[i]), at[i])
  BY ThenSome DEF Gather
<1> QED BY <1>2, <1>3 DEF Gathered, a, c

LEMMA GatherAll ==
    ASSUME NEW S, NEW items \in Seq(S), NEW at, NEW s,
           s[0] = Gathered(items, at, 0),
           \A i \in 1..Len(items) :
               s[i - 1] = Gathered(items, at, i - 1) => s[i] = Gathered(items, at, i)
    PROVE  s[Len(items)] = Some(items, at[Len(items)])
<1> DEFINE n == Len(items)
           good == {i \in Nat : s[i] = Gathered(items, at, i)}
<1>1. n \in Nat /\ 0 \in good /\ \A i \in 1..n : i - 1 \in good => i \in good
  OBVIOUS
<1>2. SubSeq(items, 1, n) = items
  BY SubSeqFull
<1> HIDE DEF n, good
<1>3. 0..n \subseteq good
  BY <1>1, CountedInduction
<1>4. s[n] = Gathered(items, at, n)
  BY <1>1, <1>3 DEF good
<1> QED BY <1>2, <1>4 DEF n, Gathered

(* One item of a list. *)
PullItem(kind, buf, p) == IF kind = "mounts" THEN PullMount(buf, p) ELSE pull_cstring(buf, p)

LEMMA PullEachBack ==
    ASSUME NEW S, NEW items \in Seq(S), Len(items) \in u32, NEW kind,
           Pieces(kind, items) \in Seq(Seq(Nat)), Len(Pieces(kind, items)) = Len(items),
           \A i \in 1..Len(items) : Len(Pieces(kind, items)[i]) >= Width,
           NEW buf \in Seq(Nat), NEW p \in Nat, At(buf, p, PushEach(kind, items)),
           \A i \in 1..Len(items) : \A b \in Nat :
               At(buf, b, Pieces(kind, items)[i]) =>
                   PullItem(kind, buf, b) = Some(items[i], b + Len(Pieces(kind, items)[i]))
    PROVE  PullEach(kind, buf, p) = Some(items, p + Len(PushEach(kind, items)))
<1> DEFINE n == Len(items)
           q == Pieces(kind, items)
           head == push_u32(n)
           tail == FlattenSeq(q)
           count == PullNumber(buf, p, Width)
<1>1. n \in Nat /\ n \in u32 /\ Width \in Nat \ {0}
  BY NumberTypes
<1>2. /\ PushEach(kind, items) = head \o tail
      /\ head \in Seq(Nat) /\ Len(head) = Width /\ tail \in Seq(Nat)
  BY <1>1, PushEachType, PushU32Type
<1>0. /\ q \in Seq(Seq(Nat)) /\ Len(q) = n
      /\ \A i \in 1..n : Len(q[i]) >= Width
      /\ \A i \in 1..n : \A b \in Nat :
            At(buf, b, q[i]) => PullItem(kind, buf, b) = Some(items[i], b + Len(q[i]))
  OBVIOUS
<1> HIDE DEF n, q, head, tail
<1>3. At(buf, p, head) /\ At(buf, p + Width, tail) /\ p + Width \in Nat
  <2>1. At(buf, p, head \o tail)
    BY <1>2
  <2>2. At(buf, p, head) /\ At(buf, p + Len(head), tail)
    BY <1>2, <2>1, AtJoin
  <2> QED BY <1>1, <1>2, <2>2
<1>4. count = Some(n, p + Width)
  BY <1>1, <1>3, PullNumberBack DEF u32, push_u32, head
<1>5. PICK at : Lays(buf, p + Width, q, at)
  BY <1>0, <1>3, FlattenLays DEF tail
<1>6. /\ at \in [0..n -> Nat] /\ at[0] = p + Width /\ at[n] = (p + Width) + Len(tail)
      /\ \A i \in 1..n : at[i] = at[i - 1] + Len(q[i]) /\ At(buf, at[i - 1], q[i])
  BY <1>0, <1>5 DEF Lays, tail
<1>7. ~(n > Len(buf))
  <2> DEFINE far == {i \in Nat : i <= n => at[i] >= i}
  <2>1. 0 \in far
    BY <1>6
  <2>2. ASSUME NEW i \in 1..n, i - 1 \in far PROVE i \in far
    <3>1. /\ i - 1 \in 0..n /\ at[i - 1] \in Nat /\ at[i - 1] >= i - 1
          /\ at[i] = at[i - 1] + Len(q[i]) /\ Len(q[i]) >= Width
      BY SMTT(40), <1>0, <1>6, <2>2
    <3>2. q[i] \in Seq(Nat)
      BY <1>0
    <3> DEFINE w == Len(q[i])
    <3>3. w \in Nat /\ w >= Width /\ at[i] = at[i - 1] + w
      BY <3>1, <3>2
    <3> HIDE DEF w, q
    <3>4. at[i] >= i
      BY <1>1, <3>1, <3>3
    <3> QED BY <3>4
  <2> HIDE DEF far
  <2>3. 0..n \subseteq far
    BY <1>1, <2>1, <2>2, CountedInduction
  <2>4. at[n] >= n
    BY <1>1, <2>3 DEF far
  <2>5. At(buf, p + Width, tail)
    BY <1>3
  <2>6. (p + Width) + Len(tail) <= Len(buf)
    BY <2>5 DEF At
  <2>7. Len(buf) \in Nat /\ Len(tail) \in Nat
    BY <1>2
  <2> QED BY <1>1, <1>6, <2>4, <2>6, <2>7
<1> DEFINE Step(got) ==
               Gather(got, IF kind = "mounts" THEN PullMount(buf, got.p)
                                              ELSE pull_cstring(buf, got.p))
           good(f) == f = [i \in 0..count.value |->
                              IF i = 0 THEN Some(<< >>, count.p) ELSE Step(f[i - 1])]
           s == CHOOSE f : good(f)
           witness == [i \in 0..n |-> Gathered(items, at, i)]
<1>8. PullEach(kind, buf, p) =
         Then(count, IF count.value > Len(buf) THEN Unbacked ELSE s[count.value])
  BY DEF PullEach
<1>9. count.value = n /\ count.p = p + Width
  BY <1>4, ThenSome
<1>10. ASSUME NEW i \in 1..n PROVE Step(Gathered(items, at, i - 1)) = Gathered(items, at, i)
  <2>1. at[i - 1] \in Nat /\ At(buf, at[i - 1], q[i]) /\ at[i] = at[i - 1] + Len(q[i])
    BY <1>1, <1>6
  <2>2. PullItem(kind, buf, at[i - 1]) = Some(items[i], at[i])
    BY <1>0, <2>1
  <2>3. Gathered(items, at, i - 1).p = at[i - 1]
    BY ThenSome DEF Gathered
  <2>4. Step(Gathered(items, at, i - 1))
           = Gather(Gathered(items, at, i - 1), PullItem(kind, buf, at[i - 1]))
    BY <2>3 DEF PullItem
  <2> HIDE DEF Step
  <2>5. Gather(Gathered(items, at, i - 1), Some(items[i], at[i])) = Gathered(items, at, i)
    BY GatherNext DEF n
  <2> QED BY <2>2, <2>4, <2>5
<1>11. Gathered(items, at, 0) = Some(<< >>, p + Width)
  <2>1. SubSeq(items, 1, 0) = << >>
    BY SubSeqEmpty
  <2> QED BY <1>6, <2>1 DEF Gathered
<1> HIDE DEF Step, count
<1>12. good(witness)
  <2>1. ASSUME NEW i \in 0..n
        PROVE  witness[i] = IF i = 0 THEN Some(<< >>, p + Width) ELSE Step(witness[i - 1])
    <3>1. CASE i = 0
      BY <1>11, <3>1
    <3>2. CASE i # 0
      <4>1. i \in 1..n /\ i - 1 \in 0..n
        BY <1>1, <3>2
      <4>2. witness[i] = Gathered(items, at, i) /\ witness[i - 1] = Gathered(items, at, i - 1)
        BY <4>1
      <4> HIDE DEF witness
      <4> QED BY <1>10, <3>2, <4>1, <4>2
    <3> QED BY <3>1, <3>2
  <2>2. witness = [i \in 0..n |-> witness[i]]
    OBVIOUS
  <2> HIDE DEF witness
  <2> QED BY <1>9, <2>1, <2>2
<1>13. good(s)
  <2> HIDE DEF witness, good
  <2> QED BY <1>12
<1> HIDE DEF s
<1>14. s[0] = Gathered(items, at, 0)
  BY <1>1, <1>9, <1>11, <1>13
<1>15. ASSUME NEW i \in 1..n, s[i - 1] = Gathered(items, at, i - 1)
       PROVE  s[i] = Gathered(items, at, i)
  <2>1. i \in 0..n /\ i # 0
    BY <1>1
  <2>2. s[i] = Step(s[i - 1])
    BY <1>9, <1>13, <2>1
  <2> QED BY <1>10, <1>15, <2>2
<1>16. s[n] = Some(items, at[n])
  BY <1>14, <1>15, GatherAll DEF n
<1>17. PullEach(kind, buf, p) = Some(items, at[n])
  BY <1>4, <1>7, <1>8, <1>9, <1>16, ThenSome
<1>18. at[n] = p + Len(PushEach(kind, items))
  <2>1. Len(head \o tail) = Len(head) + Len(tail) /\ Len(tail) \in Nat
    BY SMTT(40), <1>2
  <2> QED BY <1>1, <1>2, <1>6, <2>1
<1> QED BY <1>17, <1>18

LEMMA PullPush ==
    ASSUME NEW kind \in Kinds, NEW v \in Values(kind),
           NEW buf \in Seq(Nat), NEW p \in Nat, At(buf, p, Push(kind, v))
    PROVE  Pull(kind, buf, p) = Some(v, p + Len(Push(kind, v)))
<1>1. CASE kind = "u32"
  <2>1. /\ v \in u32 /\ Push(kind, v) = Digits(v, Width)
        /\ Pull(kind, buf, p) = PullNumber(buf, p, Width)
    BY <1>1 DEF Values, Push, Pull, push_u32
  <2>2. Len(Digits(v, Width)) = Width
    BY <2>1, NumberTypes, DigitsType
  <2> QED BY <2>1, <2>2, NumberTypes, PullNumberBack DEF u32
<1>2. CASE kind = "u64"
  <2>1. /\ v \in u64 /\ Push(kind, v) = Digits(v, 2 * Width)
        /\ Pull(kind, buf, p) = PullNumber(buf, p, 2 * Width)
    BY <1>2 DEF Values, Push, Pull, push_u64
  <2> DEFINE w == 2 * Width
  <2>2. /\ Len(Digits(v, w)) = w /\ w \in Nat /\ v \in 0..(Limit(w) - 1)
        /\ At(buf, p, Digits(v, w))
    BY <2>1, NumberTypes, DigitsType DEF u64
  <2> HIDE DEF w
  <2>3. PullNumber(buf, p, w) = Some(v, p + w)
    BY <2>2, PullNumberBack
  <2> QED BY <2>1, <2>2, <2>3 DEF w
<1>3. CASE kind = "path"
  <2>1. v \in Text /\ Push(kind, v) = push_bytes(v) /\ Pull(kind, buf, p) = pull_bytes(buf, p)
    BY <1>3 DEF Values, Push, Pull
  <2> QED BY <2>1, pull_bytesBack
<1>4. CASE kind = "mounts"
  <2>1. /\ v \in Vec(Text \X Text) /\ Push(kind, v) = PushEach("mounts", v)
        /\ Pull(kind, buf, p) = PullEach("mounts", buf, p)
    BY <1>4 DEF Values, Push, Pull
  <2>2. /\ v \in Seq(Text \X Text) /\ Len(v) \in u32
        /\ Pieces("mounts", v) \in Seq(Seq(Nat)) /\ Len(Pieces("mounts", v)) = Len(v)
        /\ \A i \in 1..Len(v) : /\ Pieces("mounts", v)[i] = PushMount(v[i])
                                 /\ Len(Pieces("mounts", v)[i]) >= Width
    BY <2>1, PiecesType
  <2>3. ASSUME NEW i \in 1..Len(v), NEW b \in Nat, At(buf, b, Pieces("mounts", v)[i])
        PROVE  PullItem("mounts", buf, b) = Some(v[i], b + Len(Pieces("mounts", v)[i]))
    <3>1. v[i] \in Text \X Text /\ At(buf, b, PushMount(v[i]))
      BY <2>2, <2>3
    <3>2. PullMount(buf, b) = Some(v[i], b + Len(PushMount(v[i])))
      BY <3>1, PullMountBack
    <3> QED BY <2>2, <3>2 DEF PullItem
  <2> QED BY <2>1, <2>2, <2>3, PullEachBack
<1>5. CASE kind = "strings"
  <2>1. /\ v \in Vec(CString) /\ Push(kind, v) = PushEach("strings", v)
        /\ Pull(kind, buf, p) = PullEach("strings", buf, p)
    BY <1>5 DEF Values, Push, Pull
  <2>2. /\ v \in Seq(CString) /\ Len(v) \in u32
        /\ Pieces("strings", v) \in Seq(Seq(Nat)) /\ Len(Pieces("strings", v)) = Len(v)
        /\ \A i \in 1..Len(v) : /\ Pieces("strings", v)[i] = push_bytes(v[i])
                                 /\ Len(Pieces("strings", v)[i]) >= Width
    BY <2>1, PiecesType
  <2>3. ASSUME NEW i \in 1..Len(v), NEW b \in Nat, At(buf, b, Pieces("strings", v)[i])
        PROVE  PullItem("strings", buf, b) = Some(v[i], b + Len(Pieces("strings", v)[i]))
    <3>1. v[i] \in CString /\ At(buf, b, push_bytes(v[i]))
      BY <2>2, <2>3
    <3>2. pull_cstring(buf, b) = Some(v[i], b + Len(push_bytes(v[i])))
      BY <3>1, pull_cstringBack
    <3> QED BY <2>2, <3>2 DEF PullItem
  <2> QED BY <2>1, <2>2, <2>3, PullEachBack
<1> QED BY <1>1, <1>2, <1>3, <1>4, <1>5 DEF Kinds

(***************************************************************************)
(* What the fork server makes of a serialized request, when it is all      *)
(* there, is that request: every field with its value, every text and      *)
(* every list with all there is in it, whatever follows in the buffer      *)
(* (SpawnRequest::serialize, SpawnRequest::deserialize).                   *)
(***************************************************************************)
THEOREM RoundTrip ==
    ASSUME NEW r \in Request, NEW buf \in Seq(Nat), At(buf, 0, serialize(r))
    PROVE  deserialize(buf) = Some(r, Len(serialize(r)))
<1> DEFINE q == Fields(r)
           name(i) == DeserializeOrder[i][1]
           kind(i) == DeserializeOrder[i][2]
           items == [i \in 1..16 |-> r[name(i)]]
           S == {r[name(i)] : i \in 1..16}
           Names == {name(i) : i \in 1..16}
           place(x) == CHOOSE i \in 1..16 : name(i) = x
           Step(i, got) == Gather(got, Pull(kind(i), buf, got.p))
<1>1. DeserializeOrder = SerializeOrder
  BY DEF DeserializeOrder, SerializeOrder
<1>2. /\ Len(DeserializeOrder) = 16
      /\ \A i \in 1..16 : kind(i) \in Kinds /\ r[name(i)] \in Values(kind(i))
  BY <1>1, FieldTypes
<1>3. /\ q \in Seq(Seq(Nat)) /\ Len(q) = 16 /\ serialize(r) = FlattenSeq(q)
      /\ \A i \in 1..16 : q[i] = Push(kind(i), r[name(i)])
  BY SMTT(40), <1>1, SerializeType, FieldTypes DEF Fields
<1>4. items \in Seq(S) /\ Len(items) = 16 /\ \A i \in 1..16 : items[i] = r[name(i)]
  OBVIOUS
<1>5. r = [x \in Names |-> r[x]]
  BY SMTT(40) DEF Request, DeserializeOrder
<1> HIDE DEF q, name, kind, items, S, Names, place
<1>6. PICK at : Lays(buf, 0, q, at)
  BY <1>3, FlattenLays
<1>7. /\ at \in [0..16 -> Nat] /\ at[0] = 0 /\ at[16] = Len(serialize(r))
      /\ \A i \in 1..16 : at[i] = at[i - 1] + Len(q[i]) /\ At(buf, at[i - 1], q[i])
  <2>1. Len(serialize(r)) \in Nat
    BY SerializeType
  <2> QED BY <1>3, <1>6, <2>1 DEF Lays
<1>8. ASSUME NEW i \in 1..16 PROVE Step(i, Gathered(items, at, i - 1)) = Gathered(items, at, i)
  <2>1. at[i - 1] \in Nat /\ At(buf, at[i - 1], q[i]) /\ at[i] = at[i - 1] + Len(q[i])
    <3>1. i - 1 \in 0..16
      OBVIOUS
    <3> QED BY <1>7, <3>1
  <2>2. Pull(kind(i), buf, at[i - 1]) = Some(items[i], at[i])
    <3> DEFINE k == kind(i)
               v == r[name(i)]
               b == at[i - 1]
    <3>1. k \in Kinds /\ v \in Values(k) /\ q[i] = Push(k, v) /\ items[i] = v
      BY <1>2, <1>3, <1>4
    <3>2. b \in Nat /\ At(buf, b, Push(k, v)) /\ at[i] = b + Len(Push(k, v))
      BY <2>1, <3>1
    <3> HIDE DEF k, v, b
    <3>3. Pull(k, buf, b) = Some(v, b + Len(Push(k, v)))
      BY <3>1, <3>2, PullPush
    <3> QED BY <3>1, <3>2, <3>3 DEF k, b
  <2>3. Gathered(items, at, i - 1).p = at[i - 1]
    BY ThenSome DEF Gathered
  <2>4. Gather(Gathered(items, at, i - 1), Some(items[i], at[i])) = Gathered(items, at, i)
    BY <1>4, GatherNext
  <2> QED BY <2>2, <2>3, <2>4
<1>9. Gathered(items, at, 0) = Some(<< >>, 0)
  <2>1. SubSeq(items, 1, 0) = << >>
    BY SubSeqEmpty
  <2> QED BY <1>7, <2>1 DEF Gathered
<1> DEFINE good(f) == f = [i \in 0..16 |-> IF i = 0 THEN Some(<< >>, 0) ELSE Step(i, f[i - 1])]
           s == CHOOSE f : good(f)
           witness == [i \in 0..16 |-> Gathered(items, at, i)]
<1>10. deserialize(buf) = Then(s[16], Some([x \in Names |-> s[16].value[place(x)]], s[16].p))
  BY <1>2 DEF deserialize, name, kind, Names, place
<1> HIDE DEF Step
<1>11. good(witness)
  <2>1. ASSUME NEW i \in 0..16
        PROVE  witness[i] = IF i = 0 THEN Some(<< >>, 0) ELSE Step(i, witness[i - 1])
    <3>1. CASE i = 0
      BY <1>9, <3>1
    <3>2. CASE i # 0
      <4>1. i \in 1..16 /\ i - 1 \in 0..16
        BY <3>2
      <4>2. witness[i] = Gathered(items, at, i) /\ witness[i - 1] = Gathered(items, at, i - 1)
        BY <4>1
      <4> HIDE DEF witness
      <4> QED BY <1>8, <3>2, <4>1, <4>2
    <3> QED BY <3>1, <3>2
  <2>2. witness = [i \in 0..16 |-> witness[i]]
    OBVIOUS
  <2> HIDE DEF witness
  <2> QED BY <2>1, <2>2
<1>12. good(s)
  <2> HIDE DEF witness, good
  <2> QED BY <1>11
<1> HIDE DEF s
<1>13. s[0] = Gathered(items, at, 0)
  BY <1>9, <1>12
<1>14. ASSUME NEW i \in 1..Len(items), s[i - 1] = Gathered(items, at, i - 1)
       PROVE  s[i] = Gathered(items, at, i)
  <2>1. i \in 1..16 /\ i \in 0..16 /\ i # 0
    BY <1>4
  <2>2. s[i] = Step(i, s[i - 1])
    BY <1>12, <2>1
  <2> QED BY <1>8, <1>14, <2>1, <2>2
<1>15. s[16] = Some(items, at[16])
  <2>1. s[Len(items)] = Some(items, at[Len(items)])
    BY <1>4, <1>13, <1>14, GatherAll
  <2> QED BY <1>4, <2>1
<1>16. s[16].value = items /\ s[16].p = at[16]
  BY <1>15, ThenSome
<1>17. [x \in Names |-> items[place(x)]] = [x \in Names |-> r[x]]
  <2>1. ASSUME NEW x \in Names PROVE items[place(x)] = r[x]
    <3>1. \E i \in 1..16 : name(i) = x
      BY DEF Names
    <3>2. place(x) \in 1..16 /\ name(place(x)) = x
      BY <3>1 DEF place
    <3> QED BY <1>4, <3>2
  <2> QED BY <2>1
<1>18. deserialize(buf) = Then(s[16], Some(r, at[16]))
  BY <1>5, <1>10, <1>16, <1>17
<1> QED BY <1>7, <1>15, <1>18, ThenSome
================================================================================
