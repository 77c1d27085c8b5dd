----------------------------- MODULE BridgeProofs -----------------------------
(***************************************************************************)
(* Proofs about Bridge and StatusFile: the status file carries any wait    *)
(* status of any process id; and what the client calls a success is one,   *)
(* for every script and capacity and every mishap of Bridge.               *)
(***************************************************************************)
EXTENDS Bridge, DataProofs, SequenceTheorems, TLAPS

(* Bytes of a decimal number. *)
DigitBytes == 48..57

(* The recursion of DigitLoop, and what it yields. *)
LEMMA DigitLoopDef ==
    /\ DigitLoop \in [Nat -> Seq(DigitBytes)]
    /\ \A n \in Nat : DigitLoop[n] =
           IF n = 0 THEN << >> ELSE <<ZERO + (n % 10)>> \o DigitLoop[n \div 10]
<1> DEFINE V    == Seq(DigitBytes)
           rank == [n \in Nat |-> n]
           prev == [n \in Nat |-> n \div 10]
           base == [n \in Nat |-> << >>]
           step == [p \in Nat \X V |-> <<ZERO + (p[1] % 10)>> \o p[2]]
<1>1. ASSUME NEW n \in Nat PROVE n \div 10 \in Nat /\ (n # 0 => n \div 10 < n)
  OBVIOUS
<1>2. ASSUME NEW n \in Nat, NEW v \in V PROVE <<ZERO + (n % 10)>> \o v \in V
  <2>1. ZERO + (n % 10) \in DigitBytes
    BY DEF ZERO, DigitBytes
  <2>2. <<ZERO + (n % 10)>> \in V
    BY <2>1
  <2> QED BY <2>2, ConcatProperties
<1>3. Descends(Nat, V, rank, prev, base, step)
  <2>1. rank \in [Nat -> Nat] /\ prev \in [Nat -> Nat] /\ base \in [Nat -> V]
    BY <1>1
  <2>2. step \in [Nat \X V -> V]
    BY <1>2
  <2>3. \A n \in Nat : rank[n] # 0 => rank[prev[n]] < rank[n]
    BY <1>1
  <2> HIDE DEF rank, prev, base, step, V
  <2> QED BY <2>1, <2>2, <2>3 DEF Descends
<1>4. PICK f : Solves(f, Nat, V, rank, prev, base, step)
  BY <1>3, RecursionHasSolution
<1>5. f \in [Nat -> V] /\ \A n \in Nat : f[n] =
           IF n = 0 THEN << >> ELSE <<ZERO + (n % 10)>> \o f[n \div 10]
  <2>1. f \in [Nat -> V] /\ \A n \in Nat : Follows(f, n, rank, prev, base, step)
    BY <1>4 DEF Solves
  <2>2. ASSUME NEW n \in Nat
        PROVE  f[n] = IF n = 0 THEN << >> ELSE <<ZERO + (n % 10)>> \o f[n \div 10]
    <3>1. f[n \div 10] \in V
      BY <2>1, <1>1
    <3>2. step[<<n, f[n \div 10]>>] = <<ZERO + (n % 10)>> \o f[n \div 10]
      BY <3>1
    <3>3. Follows(f, n, rank, prev, base, step)
      BY <2>1
    <3> HIDE DEF step
    <3> QED BY <3>2, <3>3 DEF Follows
  <2> QED BY <2>1, <2>2
<1>6. f = [n \in Nat |-> IF n = 0 THEN << >> ELSE <<ZERO + (n % 10)>> \o f[n \div 10]]
  BY <1>5
<1> HIDE DEF rank, prev, base, step
<1>7. DigitLoop = [n \in Nat |-> IF n = 0 THEN << >>
                                 ELSE <<ZERO + (n % 10)>> \o DigitLoop[n \div 10]]
  BY <1>6, Zenon DEF DigitLoop
<1>8. ASSUME NEW n \in Nat
      PROVE  DigitLoop[n] = IF n = 0 THEN << >>
                            ELSE <<ZERO + (n % 10)>> \o DigitLoop[n \div 10]
  BY <1>7, Zenon
<1>9. Inherited({n \in Nat : DigitLoop[n] \in V}, Nat, rank, prev)
  BY ZenonT(40), <1>1, <1>2, <1>8, EmptySeq DEF Inherited, rank, prev, V
<1>10. \A n \in Nat : DigitLoop[n] \in V
  BY <1>3, <1>9, RecursionInduction
<1>11. DigitLoop \in [Nat -> V]
  BY <1>7, <1>10
<1> QED BY <1>8, <1>11

(* The same of the name the supervisor formats. *)
LEMMA DecimalDef ==
    /\ Decimal \in [Nat -> Seq(DigitBytes)]
    /\ \A n \in Nat : Decimal[n] =
           IF n < 10 THEN <<ZERO + n>> ELSE Append(Decimal[n \div 10], ZERO + (n % 10))
<1> DEFINE V    == Seq(DigitBytes)
           rank == [n \in Nat |-> IF n < 10 THEN 0 ELSE n]
           prev == [n \in Nat |-> n \div 10]
           base == [n \in Nat |-> IF n < 10 THEN <<ZERO + n>> ELSE << >>]
           step == [p \in Nat \X V |-> Append(p[2], ZERO + (p[1] % 10))]
<1>1. ASSUME NEW n \in Nat PROVE n \div 10 \in Nat /\ (n >= 10 => n \div 10 < n)
  OBVIOUS
<1>2. ASSUME NEW n \in Nat, NEW v \in V PROVE Append(v, ZERO + (n % 10)) \in V
  <2>1. ZERO + (n % 10) \in DigitBytes
    BY DEF ZERO, DigitBytes
  <2> QED BY <2>1, AppendProperties
<1>3. ASSUME NEW n \in Nat, n < 10 PROVE <<ZERO + n>> \in V
  <2>1. ZERO + n \in DigitBytes
    BY <1>3 DEF ZERO, DigitBytes
  <2> QED BY <2>1
<1>4. Descends(Nat, V, rank, prev, base, step)
  <2>1. rank \in [Nat -> Nat] /\ prev \in [Nat -> Nat]
    BY <1>1
  <2>2. base \in [Nat -> V]
    BY <1>3
  <2>3. step \in [Nat \X V -> V]
    BY <1>2
  <2>4. \A n \in Nat : rank[n] # 0 => rank[prev[n]] < rank[n]
    BY <1>1
  <2> HIDE DEF rank, prev, base, step, V
  <2> QED BY <2>1, <2>2, <2>3, <2>4 DEF Descends
<1>5. PICK f : Solves(f, Nat, V, rank, prev, base, step)
  BY <1>4, RecursionHasSolution
<1>6. f \in [Nat -> V] /\ \A n \in Nat : Follows(f, n, rank, prev, base, step)
  BY <1>5 DEF Solves
<1>7. ASSUME NEW n \in Nat
      PROVE  f[n] = IF n < 10 THEN <<ZERO + n>> ELSE Append(f[n \div 10], ZERO + (n % 10))
  <2>1. f[n \div 10] \in V
    BY <1>6, <1>1
  <2>2. step[<<n, f[n \div 10]>>] = Append(f[n \div 10], ZERO + (n % 10))
    BY <2>1
  <2>3. Follows(f, n, rank, prev, base, step)
    BY <1>6
  <2>4. n < 10 => rank[n] = 0 /\ base[n] = <<ZERO + n>>
    OBVIOUS
  <2>5. ~(n < 10) => rank[n] # 0 /\ prev[n] = n \div 10
    OBVIOUS
  <2> HIDE DEF rank, prev, base, step
  <2> QED BY <2>2, <2>3, <2>4, <2>5 DEF Follows
<1>8. f = [n \in Nat |-> IF n < 10 THEN <<ZERO + n>>
                         ELSE Append(f[n \div 10], ZERO + (n % 10))]
  BY <1>6, <1>7
<1> HIDE DEF rank, prev, base, step
<1>9. Decimal = [n \in Nat |-> IF n < 10 THEN <<ZERO + n>>
                               ELSE Append(Decimal[n \div 10], ZERO + (n % 10))]
  BY <1>8, Zenon DEF Decimal
<1>10. ASSUME NEW n \in Nat
       PROVE  Decimal[n] = IF n < 10 THEN <<ZERO + n>>
                           ELSE Append(Decimal[n \div 10], ZERO + (n % 10))
  BY <1>9, Zenon
<1>11. Inherited({n \in Nat : Decimal[n] \in V}, Nat, rank, prev)
  <2> SUFFICES ASSUME NEW n \in Nat, rank[n] = 0 \/ Decimal[prev[n]] \in V
               PROVE  Decimal[n] \in V
    BY <1>1 DEF Inherited, prev
  <2>1. CASE n < 10
    BY <1>3, <1>10, <2>1
  <2>2. CASE n >= 10
    <3>1. Decimal[n \div 10] \in V
      BY <2>2 DEF rank, prev
    <3> ~(n < 10)
      BY <2>2
    <3>2. Decimal[n] = Append(Decimal[n \div 10], ZERO + (n % 10))
      BY <1>10, Zenon
    <3>3. Append(Decimal[n \div 10], ZERO + (n % 10)) \in V
      BY <1>2, <3>1
    <3> QED BY <3>2, <3>3
  <2> QED BY <2>1, <2>2
<1>12. \A n \in Nat : Decimal[n] \in V
  BY <1>4, <1>11, RecursionInduction
<1>13. Decimal \in [Nat -> V]
  BY <1>9, <1>12
<1> QED BY <1>10, <1>13

(* The recursion of ParseDigits, which goes from a text to its front. *)
LEMMA ParseDigitsDef ==
    \A s \in Seq(Int) :
        /\ ParseDigits[s] \in Int
        /\ ParseDigits[s] = IF s = << >> THEN 0
                            ELSE 10 * ParseDigits[Front(s)] + (Last(s) - ZERO)
<1> DEFINE D    == Seq(Int)
           rank == [s \in D |-> Len(s)]
           prev == [s \in D |-> IF s = << >> THEN s ELSE Front(s)]
           base == [s \in D |-> 0]
           step == [p \in D \X Int |-> IF p[1] = << >> THEN 0
                                       ELSE 10 * p[2] + (Last(p[1]) - ZERO)]
<1>1. ASSUME NEW s \in D, s # << >>
      PROVE  /\ Front(s) \in D /\ Len(Front(s)) = Len(s) - 1
             /\ Last(s) \in Int /\ Len(s) \in Nat \ {0}
  <2>1. Len(s) \in Nat \ {0}
    BY <1>1
  <2>2. \A i \in 1..(Len(s) - 1) : s[i] \in Int
    BY <2>1
  <2>3. Front(s) \in D /\ Len(Front(s)) = Len(s) - 1
    <3> DEFINE k == Len(s) - 1
    <3>1. k \in Nat /\ 1 \in Int /\ k \in Int
      BY <2>1
    <3> HIDE DEF k
    <3>2. SubSeq(s, 1, k) \in Seq(Int) /\ Len(SubSeq(s, 1, k)) = IF 1 <= k THEN k - 1 + 1 ELSE 0
      BY <3>1, <2>2, SubSeqProperties, Z3 DEF k
    <3>3. Len(SubSeq(s, 1, k)) = k
      BY <3>1, <3>2
    <3> QED BY <3>2, <3>3 DEF Front, k
  <2> QED BY <2>1, <2>3 DEF Last
<1>2. Len(<< >>) = 0 /\ \A s \in D : Len(s) = 0 <=> s = << >>
  OBVIOUS
<1>3. Descends(D, Int, rank, prev, base, step)
  <2>1. rank \in [D -> Nat] /\ prev \in [D -> D]
    BY <1>1, <1>2
  <2>2. base \in [D -> Int]
    OBVIOUS
  <2>3. step \in [D \X Int -> Int]
    BY <1>1 DEF ZERO
  <2>4. \A s \in D : rank[s] # 0 => rank[prev[s]] < rank[s]
    BY <1>1, <1>2
  <2> HIDE DEF rank, prev, base, step, D
  <2> QED BY <2>1, <2>2, <2>3, <2>4 DEF Descends
<1>4. PICK f : Solves(f, D, Int, rank, prev, base, step)
  BY <1>3, RecursionHasSolution
<1>5. f \in [D -> Int] /\ \A s \in D : Follows(f, s, rank, prev, base, step)
  BY <1>4 DEF Solves
<1>6. ASSUME NEW s \in D
      PROVE  f[s] = IF s = << >> THEN 0 ELSE 10 * f[Front(s)] + (Last(s) - ZERO)
  <2>1. CASE s = << >>
    BY <1>2, <1>5, <2>1 DEF Follows
  <2>2. CASE s # << >>
    <3>1. f[Front(s)] \in Int
      BY <1>1, <1>5, <2>2
    <3>2. step[<<s, f[Front(s)]>>] = 10 * f[Front(s)] + (Last(s) - ZERO)
      BY <3>1, <2>2
    <3>3. Follows(f, s, rank, prev, base, step)
      BY <1>5
    <3>4. rank[s] # 0 /\ prev[s] = Front(s)
      BY <1>2, <2>2
    <3> HIDE DEF step, rank, prev
    <3> QED BY <2>2, <3>2, <3>3, <3>4 DEF Follows
  <2> QED BY <2>1, <2>2
<1>7. f = [s \in D |-> IF s = << >> THEN 0 ELSE 10 * f[Front(s)] + (Last(s) - ZERO)]
  BY <1>5, <1>6
<1> HIDE DEF rank, prev, base, step
<1>8. ParseDigits = [s \in D |-> IF s = << >> THEN 0
                                 ELSE 10 * ParseDigits[Front(s)] + (Last(s) - ZERO)]
  BY <1>7, Zenon DEF ParseDigits
<1>9. ASSUME NEW s \in D
      PROVE  ParseDigits[s] = IF s = << >> THEN 0
                              ELSE 10 * ParseDigits[Front(s)] + (Last(s) - ZERO)
  BY <1>8, Zenon
<1>10. Inherited({s \in D : ParseDigits[s] \in Int}, D, rank, prev)
  BY SMTT(40), <1>1, <1>2, <1>9 DEF Inherited, rank, prev, ZERO
<1>11. \A s \in D : ParseDigits[s] \in Int
  BY <1>3, <1>10, RecursionInduction
<1> QED BY <1>9, <1>11

-----------------------------------------------------------------------------
(* Reversing puts the first element last. *)
LEMMA ReverseCons ==
    ASSUME NEW S, NEW x \in S, NEW s \in Seq(S)
    PROVE  /\ Reverse(s) \in Seq(S) /\ Len(Reverse(s)) = Len(s)
           /\ Reverse(<<x>> \o s) = Append(Reverse(s), x)
<1>1. Reverse(s) \in Seq(S) /\ Len(Reverse(s)) = Len(s)
  BY DEF Reverse
<1>2. <<x>> \o s \in Seq(S) /\ Len(<<x>> \o s) = Len(s) + 1
  OBVIOUS
<1>3. Reverse(<<x>> \o s) \in Seq(S) /\ Len(Reverse(<<x>> \o s)) = Len(s) + 1
  BY <1>2 DEF Reverse
<1>4. Append(Reverse(s), x) \in Seq(S) /\ Len(Append(Reverse(s), x)) = Len(s) + 1
  BY <1>1
<1>5. ASSUME NEW i \in 1..(Len(s) + 1)
      PROVE  Reverse(<<x>> \o s)[i] = Append(Reverse(s), x)[i]
  <2>1. CASE i = Len(s) + 1
    BY <1>1, <1>2, <2>1 DEF Reverse
  <2>2. CASE i \in 1..Len(s)
    BY <1>1, <1>2, <2>2 DEF Reverse
  <2>3. i = Len(s) + 1 \/ i \in 1..Len(s)
    OBVIOUS
  <2> QED BY <2>1, <2>2, <2>3
<1> QED BY <1>1, <1>3, <1>4, <1>5, SeqEqual

(* The handler's digits: those of all but the last, and the last. *)
LEMMA EmitDigitsStep ==
    ASSUME NEW n \in Nat
    PROVE  /\ EmitDigits(n) \in Seq(DigitBytes)
           /\ EmitDigits(n) = IF n < 10 THEN <<ZERO + n>>
                              ELSE Append(EmitDigits(n \div 10), ZERO + (n % 10))
<1>1. n \div 10 \in Nat /\ (n < 10 => n \div 10 = 0 /\ n % 10 = n) /\ (n >= 10 => n \div 10 # 0)
  OBVIOUS
<1>2. ZERO + (n % 10) \in DigitBytes
  BY DEF ZERO, DigitBytes
<1>3. /\ DigitLoop[n] \in Seq(DigitBytes) /\ DigitLoop[n \div 10] \in Seq(DigitBytes)
      /\ n # 0 => DigitLoop[n] = <<ZERO + (n % 10)>> \o DigitLoop[n \div 10]
      /\ DigitLoop[0] = << >>
  BY <1>1, DigitLoopDef
<1>4. Reverse(<< >>) = << >>
  BY DEF Reverse
<1>5. n # 0 => EmitDigits(n) = Append(Reverse(DigitLoop[n \div 10]), ZERO + (n % 10))
  BY <1>2, <1>3, ReverseCons DEF EmitDigits
<1>6. Reverse(DigitLoop[n]) \in Seq(DigitBytes)
  BY <1>2, <1>3, ReverseCons
<1>7. EmitDigits(n) \in Seq(DigitBytes)
  <2>1. <<ZERO>> \in Seq(DigitBytes)
    BY DEF ZERO, DigitBytes
  <2> QED BY <1>6, <2>1 DEF EmitDigits
<1>8. CASE n = 0
  <2>1. EmitDigits(n) = <<ZERO>> /\ ZERO + n = ZERO
    BY <1>8 DEF EmitDigits, ZERO
  <2> QED BY <1>7, <1>8, <2>1
<1>9. CASE n # 0 /\ n < 10
  BY <1>1, <1>3, <1>4, <1>5, <1>7, <1>9
<1>10. CASE n >= 10
  <2>1. EmitDigits(n \div 10) = Reverse(DigitLoop[n \div 10])
    BY <1>1, <1>10 DEF EmitDigits
  <2>2. n # 0 /\ ~(n < 10)
    BY <1>10
  <2> QED BY <1>5, <1>7, <2>1, <2>2
<1> QED BY <1>8, <1>9, <1>10


(* A natural number is some digits and a last one, or a digit alone. *)
LEMMA DecimalInduction ==
    ASSUME NEW good,
           \A n \in Nat : n < 10 => n \in good,
           \A n \in Nat : n >= 10 /\ n \div 10 \in good => n \in good
    PROVE  Nat \subseteq good
<1> DEFINE Bad == {n \in Nat : n \notin good}
<1> SUFFICES ASSUME Bad # {} PROVE FALSE
  OBVIOUS
<1>1. PICK n \in Bad : \A m \in Bad : n <= m
  BY LeastNumber
<1>2. n \in Nat /\ n >= 10 /\ n \div 10 \notin good
  BY <1>1
<1>3. n \div 10 \in Nat /\ n \div 10 < n
  BY <1>2
<1> QED BY <1>1, <1>2, <1>3

(***************************************************************************)
(* Handler and supervisor, each with its own conversion, arrive at the     *)
(* same file name (sigchld_handler, reap_child).                           *)
(***************************************************************************)
LEMMA NamesAgree == \A n \in Nat : EmitDigits(n) = Decimal[n]
<1> DEFINE good == {n \in Nat : EmitDigits(n) = Decimal[n]}
<1>1. ASSUME NEW n \in Nat, n < 10 PROVE n \in good
  <2>1. EmitDigits(n) = <<ZERO + n>>
    BY <1>1, EmitDigitsStep, Zenon
  <2>2. Decimal[n] = <<ZERO + n>>
    BY <1>1, DecimalDef, Zenon
  <2> QED BY <2>1, <2>2
<1>2. ASSUME NEW n \in Nat, n >= 10, n \div 10 \in good PROVE n \in good
  <2> ~(n < 10)
    BY <1>2
  <2>1. EmitDigits(n) = Append(EmitDigits(n \div 10), ZERO + (n % 10))
    BY EmitDigitsStep, Zenon
  <2>2. Decimal[n] = Append(Decimal[n \div 10], ZERO + (n % 10))
    BY DecimalDef, Zenon
  <2> QED BY <1>2, <2>1, <2>2
<1> HIDE DEF good
<1>3. Nat \subseteq good
  BY <1>1, <1>2, DecimalInduction
<1> QED BY <1>3 DEF good

(* What Append adds is the last, and the rest the front. *)
LEMMA FrontAppend ==
    ASSUME NEW S, NEW s \in Seq(S), NEW x \in S
    PROVE  /\ Append(s, x) \in Seq(S) /\ Append(s, x) # << >>
           /\ Front(Append(s, x)) = s /\ Last(Append(s, x)) = x
<1>1. /\ Append(s, x) \in Seq(S) /\ Len(Append(s, x)) = Len(s) + 1 /\ Len(s) \in Nat
      /\ Append(s, x)[Len(s) + 1] = x
      /\ \A i \in 1..Len(s) : Append(s, x)[i] = s[i]
  BY AppendProperties
<1>2. Append(s, x) # << >> /\ Last(Append(s, x)) = x
  BY <1>1 DEF Last
<1>3. Front(Append(s, x)) = SubSeq(Append(s, x), 1, Len(s))
  BY <1>1 DEF Front
<1>4. SubSeq(Append(s, x), 1, Len(s)) = s
  BY <1>1
<1> QED BY <1>1, <1>2, <1>3, <1>4

(* Parsing the digits the handler emits gives the number back. *)
LEMMA ParseOfDigits == \A n \in Nat : ParseDigits[EmitDigits(n)] = n
<1> DEFINE good == {n \in Nat : ParseDigits[EmitDigits(n)] = n}
<1>0. /\ << >> \in Seq(Int) /\ ParseDigits[<< >>] = 0
      /\ Seq(DigitBytes) \subseteq Seq(Int)
  <2>1. << >> \in Seq(Int)
    OBVIOUS
  <2>2. Seq(DigitBytes) \subseteq Seq(Int)
    BY DEF DigitBytes
  <2> QED BY <2>1, <2>2, ParseDigitsDef
<1>1. ASSUME NEW s \in Seq(Int), NEW d \in Int
      PROVE  ParseDigits[Append(s, ZERO + d)] = 10 * ParseDigits[s] + d
  <2>1. ZERO + d \in Int
    BY DEF ZERO
  <2>2. /\ Append(s, ZERO + d) \in Seq(Int) /\ Append(s, ZERO + d) # << >>
        /\ Front(Append(s, ZERO + d)) = s /\ Last(Append(s, ZERO + d)) = ZERO + d
    BY <2>1, FrontAppend
  <2>3. ParseDigits[Append(s, ZERO + d)] = 10 * ParseDigits[s] + ((ZERO + d) - ZERO)
    BY <2>2, ParseDigitsDef, Zenon
  <2>4. ParseDigits[s] \in Int
    BY ParseDigitsDef
  <2> QED BY <2>3, <2>4 DEF ZERO
<1>2. ASSUME NEW n \in Nat, n < 10 PROVE n \in good
  <2>1. EmitDigits(n) = <<ZERO + n>>
    BY <1>2, EmitDigitsStep, Zenon
  <2>2. <<ZERO + n>> = Append(<< >>, ZERO + n)
    OBVIOUS
  <2>3. n \in Int
    OBVIOUS
  <2>4. ParseDigits[Append(<< >>, ZERO + n)] = 10 * ParseDigits[<< >>] + n
    BY <1>0, <1>1, <2>3, Zenon
  <2> QED BY <1>0, <2>1, <2>2, <2>4
<1>3. ASSUME NEW n \in Nat, n >= 10, n \div 10 \in good PROVE n \in good
  <2> ~(n < 10)
    BY <1>3
  <2>1. EmitDigits(n) = Append(EmitDigits(n \div 10), ZERO + (n % 10))
    BY EmitDigitsStep, Zenon
  <2>2. n \div 10 \in Nat /\ n % 10 \in Int /\ n = 10 * (n \div 10) + (n % 10)
    <3> n \div 10 \in Nat
      OBVIOUS
    <3> n % 10 \in Int
      OBVIOUS
    <3> QED OBVIOUS
  <2>3. EmitDigits(n \div 10) \in Seq(Int)
    BY <1>0, <2>2, EmitDigitsStep
  <2>4. ParseDigits[EmitDigits(n)] = 10 * ParseDigits[EmitDigits(n \div 10)] + (n % 10)
    BY <1>1, <2>1, <2>2, <2>3
  <2> QED BY <1>3, <2>2, <2>4
<1> HIDE DEF good
<1>4. Nat \subseteq good
  BY <1>2, <1>3, DecimalInduction
<1> QED BY <1>4 DEF good

(* Trimming takes the newline off, and no digit. *)
LEMMA TrimOfText ==
    ASSUME NEW s \in Seq(DigitBytes), s # << >>
    PROVE  Trim(Append(s, NEWLINE)) = s
<1> DEFINE t    == Append(s, NEWLINE)
           kept == {i \in DOMAIN t : t[i] # NEWLINE}
<1>1. Len(s) \in Nat /\ Len(s) >= 1 /\ \A i \in 1..Len(s) : s[i] \in DigitBytes
  OBVIOUS
<1>2. /\ DOMAIN t = 1..(Len(s) + 1) /\ t[Len(s) + 1] = NEWLINE
      /\ \A i \in 1..Len(s) : t[i] = s[i]
  OBVIOUS
<1>3. \A i \in 1..Len(s) : s[i] # NEWLINE
  BY SMTT(40), <1>1 DEF DigitBytes, NEWLINE
<1>4. kept = 1..Len(s)
  BY <1>1, <1>2, <1>3
<1> HIDE DEF kept
<1>5. Min(kept) = 1
  <2>1. 1 \in kept /\ \A y \in kept : 1 =< y
    BY <1>1, <1>4
  <2>2. \A x : x \in kept /\ (\A y \in kept : x =< y) => x = 1
    BY <1>1, <1>4, <2>1
  <2> QED BY <2>1, <2>2 DEF Min
<1>6. Max(kept) = Len(s)
  <2>1. Len(s) \in kept /\ \A y \in kept : Len(s) >= y
    BY <1>1, <1>4
  <2>2. \A x : x \in kept /\ (\A y \in kept : x >= y) => x = Len(s)
    BY <1>1, <1>4, <2>1
  <2> QED BY <2>1, <2>2 DEF Max
<1>7. Trim(t) = SubSeq(t, 1, Len(s))
  <2>1. kept # {}
    BY <1>1, <1>4
  <2> QED BY Zenon, <1>5, <1>6, <2>1 DEF Trim, kept
<1>8. SubSeq(t, 1, Len(s)) = s
  BY <1>1, <1>2
<1> QED BY <1>7, <1>8

LEMMA ParseOfText == \A n \in Nat : Parse(StatusText(n)) = n
<1> SUFFICES ASSUME NEW n \in Nat PROVE Parse(StatusText(n)) = n
  OBVIOUS
<1>1. EmitDigits(n) \in Seq(DigitBytes)
  BY EmitDigitsStep
<1>2. EmitDigits(n) # << >>
  <2>1. CASE n < 10
    <3>1. EmitDigits(n) = <<ZERO + n>>
      BY <2>1, EmitDigitsStep, Zenon
    <3> QED BY <3>1
  <2>2. CASE ~(n < 10)
    <3>1. EmitDigits(n) = Append(EmitDigits(n \div 10), ZERO + (n % 10))
      BY <2>2, EmitDigitsStep, Zenon
    <3>2. ZERO + (n % 10) \in DigitBytes /\ n \div 10 \in Nat
      BY DEF ZERO, DigitBytes
    <3>3. EmitDigits(n \div 10) \in Seq(DigitBytes)
      BY <3>2, EmitDigitsStep
    <3> QED BY <3>1, <3>2, <3>3, FrontAppend
  <2> QED BY <2>1, <2>2
<1>3. Trim(StatusText(n)) = EmitDigits(n)
  BY <1>1, <1>2, TrimOfText DEF StatusText
<1> QED BY <1>3, ParseOfDigits DEF Parse


(* A number below a power of ten has as many digits as its exponent. *)
LEMMA DigitCount ==
    /\ \A n \in Nat : n < 100000 => Len(EmitDigits(n)) <= 5
    /\ \A n \in Nat : n < 10 * 1000000000 => Len(EmitDigits(n)) <= 10
<1> DEFINE Fits(bound, k) == \A n \in Nat : n < bound => Len(EmitDigits(n)) <= k
<1>1. ASSUME NEW bound \in Nat, NEW k \in Nat, Fits(bound, k), k >= 1
      PROVE  Fits(10 * bound, k + 1)
  <2> SUFFICES ASSUME NEW n \in Nat, n < 10 * bound PROVE Len(EmitDigits(n)) <= k + 1
    OBVIOUS
  <2>1. CASE n < 10
    <3>1. EmitDigits(n) = <<ZERO + n>>
      BY <2>1, EmitDigitsStep, Zenon
    <3> QED BY <3>1
  <2>2. CASE ~(n < 10)
    <3>1. EmitDigits(n) = Append(EmitDigits(n \div 10), ZERO + (n % 10))
      BY <2>2, EmitDigitsStep, Zenon
    <3>2. n \div 10 \in Nat /\ n \div 10 < bound /\ ZERO + (n % 10) \in DigitBytes
      BY DEF ZERO, DigitBytes
    <3>3. EmitDigits(n \div 10) \in Seq(DigitBytes)
      BY <3>2, EmitDigitsStep
    <3>4. Len(EmitDigits(n)) = Len(EmitDigits(n \div 10)) + 1
      BY <3>1, <3>2, <3>3, AppendProperties
    <3>5. Len(EmitDigits(n \div 10)) <= k /\ Len(EmitDigits(n \div 10)) \in Nat
      BY <1>1, <3>2, <3>3
    <3> QED BY <3>4, <3>5
  <2> QED BY <2>1, <2>2
<1>2. Fits(10, 1)
  <2> SUFFICES ASSUME NEW n \in Nat, n < 10 PROVE Len(EmitDigits(n)) <= 1
    OBVIOUS
  <2>1. EmitDigits(n) = <<ZERO + n>>
    BY EmitDigitsStep, Zenon
  <2> QED BY <2>1
<1> HIDE DEF Fits
<1>3. Fits(100, 2)
  BY <1>1, <1>2
<1>4. Fits(1000, 3)
  BY <1>1, <1>3
<1>5. Fits(10000, 4)
  BY <1>1, <1>4
<1>6. Fits(100000, 5)
  BY <1>1, <1>5
<1>7. Fits(1000000, 6)
  BY <1>1, <1>6
<1>8. Fits(10000000, 7)
  BY <1>1, <1>7
<1>9. Fits(100000000, 8)
  BY <1>1, <1>8
<1>10. Fits(1000000000, 9)
  BY <1>1, <1>9
<1>11. Fits(10 * 1000000000, 10)
  BY <1>1, <1>10
<1> QED BY <1>6, <1>11 DEF Fits

LEMMA KernelStatusRange ==
    ASSUME NEW e \in Endings
    PROVE  KernelStatus(e) \in Nat /\ KernelStatus(e) < 100000
<1>1. CASE e.kind = "exit"
  <2>1. e.value \in 0..255 /\ KernelStatus(e) = 256 * e.value
    BY <1>1 DEF Endings, KernelStatus
  <2> QED BY <2>1
<1>2. CASE e.kind # "exit"
  <2>1. e.value \in 1..64 /\ e.kind \in {"signal", "core"}
    BY <1>2 DEF Endings
  <2>2. KernelStatus(e) \in {e.value, 128 + e.value}
    BY <2>1 DEF KernelStatus
  <2> QED BY <2>1, <2>2
<1> QED BY <1>1, <1>2


-----------------------------------------------------------------------------
(***************************************************************************)
(* The inductive invariant.  The status file is what the handler made of   *)
(* the child's true ending.                                                *)
(***************************************************************************)
StatusInv ==
    /\ at \in {"alive", "dead", "written", "read"}
    /\ ending \in Endings
    /\ pid \in 0..MaxPid
    /\ at \in {"written", "read"} =>
          path = EmitDigits(pid) /\ text = StatusText(KernelStatus(ending))
    /\ at = "read" => reason = TrueReason(ending)

Success == [kind |-> "exit", value |-> 0]

(* The bridge knows that exec succeeded. *)
Confirmed == {"collect", "reap", "report", "kill"}

(***************************************************************************)
(* Only a program at the end of its script ends in success, and only one   *)
(* that failed in setup is at position 0.                                  *)
(***************************************************************************)
ProgramInv ==
    /\ child \in {"none", "barrier", "woken", "setup", "program", "dead"}
    /\ script \in Scripts /\ script \in Seq(Items)
    /\ pos \in 0..(Len(script) + 1)
    /\ child = "dead" <=> at # "alive"
    /\ child \notin {"program", "dead"} => pos = 1
    /\ pos = 0 => child = "dead"
    /\ ending = Success => pos = Len(script) + 1
    /\ server = "cloned" => child = "barrier"
    /\ bridge \in Confirmed => child \in {"program", "dead"}

(* Nobody can write any more. *)
Ended == child \in {"program", "dead"} /\ ~HoldsStreams

Bytes == {"out", "cr", "nl", "out_1st", "out_2nd", "err", "err_2nd"}

(* No write has been refused: somebody reads, or nothing is left to write. *)
Unrefused == ReadersOpen \/ (outDone /\ errDone)

(***************************************************************************)
(* What was collected and what is in the kernel together are what the      *)
(* program has written; a stream that has ended is empty, and stays so.    *)
(***************************************************************************)
StreamInv ==
    /\ ptyBuf \in Seq(Bytes) /\ stdout \in Seq(Bytes)
    /\ errBuf \in Seq(Bytes) /\ stderr \in Seq(Bytes)
    /\ pos # 0 /\ Unrefused =>
          /\ stdout \o ptyBuf = WrittenBy(script, ToStdout)[pos - 1]
          /\ stderr \o errBuf = WrittenBy(script, ToStderr)[pos - 1]
    /\ outDone => ptyBuf = << >> /\ Ended
    /\ errDone => errBuf = << >> /\ Ended

(* Once writes are refused, they are a beginning of it. *)
Begins(s, t) == \E lost \in Seq(Bytes) : t = s \o lost

PartInv ==
    pos # 0 =>
        /\ Begins(stdout \o ptyBuf, WrittenBy(script, ToStdout)[pos - 1])
        /\ Begins(stderr \o errBuf, WrittenBy(script, ToStderr)[pos - 1])

(***************************************************************************)
(* The bridge reports when both streams have ended, or a read has failed,  *)
(* and the status is read; its output does not change after that.          *)
(***************************************************************************)
ReportInv ==
    /\ ReadersOpen => result = "none"
    /\ bridge \in {"reap", "report"} => result \in {"ok", "error"}
    /\ result = "ok" => outDone /\ errDone
    /\ bridge = "report" => at = "read"
    /\ printed.ok => bridge = "exited"
    /\ printed.ok /\ success(printed) =>
          /\ result \in {"ok", "error"} /\ at = "read" /\ reason = Reason("Exited", 0)
          /\ printed.stdout = Lossy(stdout) /\ printed.stderr = Lossy(stderr)
    /\ client = "returned" => printed.ok /\ answer = printed

BridgeInv == StatusInv /\ ProgramInv /\ StreamInv /\ PartInv /\ ReportInv

-----------------------------------------------------------------------------
(* What a program has written, as the recursion it is defined by. *)
LEMMA CookedBytes ==
    ASSUME NEW items, NEW b \in Items, items \subseteq ToStdout \cup ToStderr
    PROVE  Emitted(items, b) \in Seq(Bytes)
<1>1. << >> \in Seq(Bytes)
  OBVIOUS
<1>2. CASE b \in items
  <2>1. b = "out_nl" \/ b \in Bytes
    BY <1>2 DEF ToStdout, ToStderr, Bytes
  <2>2. <<"cr", "nl">> \in Seq(Bytes) /\ \A c \in Bytes : <<c>> \in Seq(Bytes)
    BY DEF Bytes
  <2> QED BY <1>2, <2>1, <2>2 DEF Emitted, Cooked
<1> QED BY <1>1, <1>2 DEF Emitted

LEMMA WrittenByDef ==
    ASSUME NEW s \in Seq(Items), NEW items, items \subseteq ToStdout \cup ToStderr
    PROVE  /\ WrittenBy(s, items) \in [0..Len(s) -> Seq(Bytes)]
           /\ WrittenBy(s, items)[0] = << >>
           /\ \A n \in 1..Len(s) :
                 WrittenBy(s, items)[n] = WrittenBy(s, items)[n - 1] \o Emitted(items, s[n])
<1> DEFINE V    == Seq(Bytes)
           D    == 0..Len(s)
           W    == WrittenBy(s, items)
           rank == [n \in D |-> n]
           prev == [n \in D |-> IF n = 0 THEN n ELSE n - 1]
           base == [n \in D |-> << >>]
           step == [p \in D \X V |-> IF p[1] = 0 THEN << >> ELSE p[2] \o Emitted(items, s[p[1]])]
<1>0. Len(s) \in Nat /\ << >> \in V
  OBVIOUS
<1>1. ASSUME NEW n \in D, n # 0 PROVE n - 1 \in D /\ n - 1 < n /\ s[n] \in Items
  BY <1>0, <1>1
<1>2. ASSUME NEW n \in D, n # 0, NEW v \in V PROVE v \o Emitted(items, s[n]) \in V
  <2>1. Emitted(items, s[n]) \in V
    BY <1>1, <1>2, CookedBytes
  <2> QED BY <2>1, ConcatProperties
<1>3. Descends(D, V, rank, prev, base, step)
  <2>1. rank \in [D -> Nat] /\ prev \in [D -> D] /\ base \in [D -> V]
    BY <1>0, <1>1
  <2>2. step \in [D \X V -> V]
    BY <1>0, <1>2
  <2>3. \A n \in D : rank[n] # 0 => rank[prev[n]] < rank[n]
    BY <1>0, <1>1
  <2> HIDE DEF rank, prev, base, step, V, D
  <2> QED BY <2>1, <2>2, <2>3 DEF Descends
<1>4. PICK f : Solves(f, D, V, rank, prev, base, step)
  BY <1>3, RecursionHasSolution
<1>5. f \in [D -> V] /\ \A n \in D : Follows(f, n, rank, prev, base, step)
  BY <1>4 DEF Solves
<1>6. ASSUME NEW n \in D
      PROVE  f[n] = IF n = 0 THEN << >> ELSE f[n - 1] \o Emitted(items, s[n])
  <2>1. CASE n = 0
    BY <1>5, <2>1 DEF Follows
  <2>2. CASE n # 0
    <3>1. f[n - 1] \in V
      BY <1>1, <1>5, <2>2
    <3>2. step[<<n, f[n - 1]>>] = f[n - 1] \o Emitted(items, s[n])
      BY <3>1, <2>2
    <3>3. Follows(f, n, rank, prev, base, step)
      BY <1>5
    <3>4. rank[n] # 0 /\ prev[n] = n - 1
      BY <2>2
    <3> HIDE DEF step, rank, prev
    <3> QED BY <2>2, <3>2, <3>3, <3>4 DEF Follows
  <2> QED BY <2>1, <2>2
<1>7. f = [n \in D |-> IF n = 0 THEN << >> ELSE f[n - 1] \o Emitted(items, s[n])]
  BY <1>5, <1>6
<1> HIDE DEF rank, prev, base, step
<1>8. W = [n \in 0..Len(s) |-> IF n = 0 THEN << >> ELSE W[n - 1] \o Emitted(items, s[n])]
  BY <1>7, Zenon DEF WrittenBy
<1>9. ASSUME NEW n \in D
      PROVE  W[n] = IF n = 0 THEN << >> ELSE W[n - 1] \o Emitted(items, s[n])
  BY <1>8, Zenon
<1> HIDE DEF W
<1>10. Inherited({n \in D : W[n] \in V}, D, rank, prev)
  <2> SUFFICES ASSUME NEW n \in D, rank[n] = 0 \/ W[prev[n]] \in V
               PROVE  W[n] \in V
    BY <1>1 DEF Inherited, prev
  <2>1. CASE n = 0
    BY <1>9, <2>1, <1>0
  <2>2. CASE n # 0
    BY <1>2, <1>9, <2>2 DEF rank, prev
  <2> QED BY <2>1, <2>2
<1>11. \A n \in D : W[n] \in V
  <2> DEFINE good == {n \in D : W[n] \in V}
  <2>1. Inherited(good, D, rank, prev)
    BY <1>10
  <2> HIDE DEF good, V, D
  <2>2. D \subseteq good
    BY <1>3, <2>1, RecursionInduction
  <2> QED BY <2>2 DEF good
<1>12. W \in [D -> V]
  BY <1>8, <1>11
<1>13. W[0] = << >> /\ \A n \in 1..Len(s) : W[n] = W[n - 1] \o Emitted(items, s[n])
  <2>1. 0 \in D /\ \A n \in 1..Len(s) : n \in D /\ n # 0
    BY <1>0
  <2> HIDE DEF D
  <2> QED BY <1>9, <2>1, Zenon
<1> QED BY <1>12, <1>13 DEF W

-----------------------------------------------------------------------------
(* What an action leaves alone, as variables. *)
LEMMA NextCases ==
    ASSUME [Next]_vars
    PROVE  \/ Clone \/ Release \/ ServerExits \/ WriteStatus
           \/ Arm \/ ExecTarget \/ WriteStdout \/ WriteStderr \/ CloseOutput \/ Exit
           \/ ReceiveResponse \/ Confirm \/ ReadStdout \/ ReadStderr \/ EndOutput
           \/ PrintTimeout \/ ReadStatus \/ PrintReport \/ ReapGivesUp \/ Receive
           \/ WriteRefused \/ ReadFails
           \/ AssignFails \/ SetupFails \/ TtlExpires \/ TimeOut
           \/ UNCHANGED vars
  BY DEF Next, Progress, Mishap

LEMMA MaxPidRange == MaxPid \in Nat /\ MaxPid < 10 * 1000000000
  BY DEF MaxPid

LEMMA InitStatus == Init => StatusInv
  <1>1. Killed \in Endings
    BY DEF Killed, Endings, SIGKILL
  <1>2. Init => at = "alive" /\ pid = 0 /\ ending = Killed
    BY DEF Init, NoStatusYet
  <1>3. 0 \in 0..MaxPid
    BY MaxPidRange
  <1> QED BY <1>1, <1>2, <1>3 DEF StatusInv

(* A child ends in one of the ways there are. *)
LEMMA DiesStatus ==
    ASSUME StatusInv, NEW e \in Endings, Dies(e)
    PROVE  StatusInv' /\ at' = "dead" /\ at = "alive" /\ ending' = e /\ child' = "dead"
  BY DEF StatusInv, Dies, ChildEnds

(***************************************************************************)
(* The status file: written of the true ending, under the name that the    *)
(* reader formats; what it reads is what was written (sigchld_handler,     *)
(* reap_child).                                                            *)
(***************************************************************************)
LEMMA NextStatus == StatusInv /\ ProgramInv /\ [Next]_vars => StatusInv'
<1> SUFFICES ASSUME StatusInv, ProgramInv, [Next]_vars PROVE StatusInv'
  OBVIOUS
<1>1. ASSUME UNCHANGED statusVars PROVE StatusInv'
  BY <1>1 DEF StatusInv, statusVars
<1>2. CASE Clone
  <2>1. pid' \in 0..MaxPid /\ at = "alive"
    <3>1. pid' \in ChildPids /\ child = "none"
      BY <1>2 DEF Clone
    <3>2. 1..MaxPid \subseteq 0..MaxPid
      OBVIOUS
    <3> QED BY <3>1, <3>2, ChildPidsAssumption DEF ProgramInv, StatusInv
  <2> QED BY <1>2, <2>1 DEF Clone, StatusInv
<1>3. CASE ServerExits
  <2>1. Killed \in Endings
    BY DEF Killed, Endings, SIGKILL
  <2> QED BY <1>1, <1>3, <2>1, DiesStatus DEF ServerExits
<1>4. CASE TtlExpires
  <2>1. Killed \in Endings
    BY DEF Killed, Endings, SIGKILL
  <2> QED BY <1>1, <1>4, <2>1, DiesStatus DEF TtlExpires
<1>5. CASE Exit
  BY <1>5, ExitsAssumption, DiesStatus DEF Exit
<1>6. CASE SetupFails
  <2>1. [kind |-> "exit", value |-> 1] \in Endings
    BY DEF Endings
  <2> QED BY <1>6, <2>1, DiesStatus DEF SetupFails
<1>7. CASE WriteStatus
  BY <1>7 DEF WriteStatus, HandlerWritesFile, StatusInv
<1>8. CASE ReadStatus
  <2>1. /\ at = "written" /\ at' = "read"
        /\ reason' = DecodeStatus(Parse(text))
        /\ UNCHANGED <<pid, ending, path, text>>
    BY <1>8 DEF ReadStatus, SupervisorReadsFile
  <2>2. text = StatusText(KernelStatus(ending)) /\ ending \in Endings
    BY <2>1 DEF StatusInv
  <2>3. reason' = TrueReason(ending)
    BY <2>1, <2>2, ParseOfText, KernelStatusRange, DecodeIsTrue
  <2> QED BY <2>1, <2>3 DEF StatusInv
<1>9. CASE \/ Release \/ Arm \/ ExecTarget \/ WriteStdout \/ WriteStderr \/ CloseOutput
           \/ ReceiveResponse \/ Confirm \/ ReadStdout \/ ReadStderr \/ EndOutput
           \/ PrintTimeout \/ PrintReport \/ ReapGivesUp \/ Receive
           \/ WriteRefused \/ ReadFails \/ AssignFails \/ TimeOut \/ UNCHANGED vars
  BY <1>1, <1>9 DEF Release, Arm, ExecTarget, WriteStdout, WriteStderr,
     WriteRefused, CloseOutput, ReceiveResponse, Confirm, ReadStdout, ReadStderr, EndOutput,
     ReadFails, PrintTimeout, PrintReport, ReapGivesUp, Receive, AssignFails, TimeOut, clientOnly,
     vars
<1> QED BY <1>2, <1>3, <1>4, <1>5, <1>6, <1>7, <1>8, <1>9, NextCases

LEMMA InitProgram == Init => ProgramInv
<1> SUFFICES ASSUME Init PROVE ProgramInv
  OBVIOUS
<1>1. script \in Scripts /\ script \in Seq(Items) /\ Len(script) \in Nat
  BY ScriptsAssumption DEF Init
<1>2. ending # Success
  BY DEF Init, NoStatusYet, Killed, Success
<1>3. /\ child = "none" /\ at = "alive" /\ pos = 1 /\ server = "idle"
      /\ bridge \notin Confirmed
  BY DEF Init, NoStatusYet, Confirmed
<1> QED BY <1>1, <1>2, <1>3 DEF ProgramInv

(* A program that ends without success does not say it did. *)
LEMMA DiesProgram ==
    ASSUME StatusInv, ProgramInv, NEW e \in Endings, Dies(e), UNCHANGED script,
           server' # "cloned",
           pos' = pos \/ pos' = 0,
           e = Success => pos' = Len(script) + 1
    PROVE  ProgramInv'
<1>1. child' = "dead" /\ at' = "dead" /\ ending' = e
  BY DiesStatus
<1>2. Len(script) \in Nat /\ pos' \in 0..(Len(script) + 1)
  BY DEF ProgramInv
<1> QED BY <1>1, <1>2 DEF ProgramInv

(* The program advances through its script, and ends where it stands. *)
LEMMA NextProgram == StatusInv /\ ProgramInv /\ [Next]_vars => ProgramInv'
<1> SUFFICES ASSUME StatusInv, ProgramInv, [Next]_vars PROVE ProgramInv'
  OBVIOUS
<1>0. Len(script) \in Nat /\ pos \in Nat /\ Killed # Success /\ Killed \in Endings
  BY DEF ProgramInv, Killed, Success, Endings, SIGKILL
<1>1. ASSUME UNCHANGED <<child, script, pos, at, ending>>,
             server' = server \/ server' # "cloned",
             \/ bridge' = bridge \/ bridge' \notin Confirmed
             \/ bridge \in Confirmed \/ child \in {"program", "dead"}
      PROVE  ProgramInv'
  BY <1>1 DEF ProgramInv
<1>2. CASE Clone
  <2>1. /\ child = "none" /\ child' = "barrier"
        /\ bridge' = bridge /\ UNCHANGED <<script, pos, at, ending>>
    BY <1>2 DEF Clone, bridgeVars
  <2> QED BY <2>1 DEF ProgramInv
<1>3. CASE Release
  <2>1. /\ child = "barrier" /\ child' = "woken" /\ server' = "idle"
        /\ bridge' = bridge /\ UNCHANGED <<script, pos, at, ending>>
    BY <1>3 DEF Release, ProgramInv, bridgeVars, statusVars
  <2> QED BY <2>1 DEF ProgramInv
<1>4. CASE AssignFails
  BY <1>1, <1>4 DEF AssignFails, bridgeVars, childVars, statusVars
<1>5. CASE ServerExits
  <2>1. UNCHANGED <<script, pos, bridge>> /\ server' = "exited"
    BY <1>5 DEF ServerExits, bridgeVars
  <2>2. CASE Dies(Killed)
    BY <1>0, <2>1, <2>2, DiesProgram
  <2>3. CASE UNCHANGED <<child, statusVars>>
    BY <1>1, <2>1, <2>3 DEF statusVars
  <2> QED BY <1>5, <2>2, <2>3 DEF ServerExits
<1>6. CASE TtlExpires
  <2>1. UNCHANGED <<script, pos, server>> /\ bridge = "collect"
    BY <1>6 DEF TtlExpires, serverVars
  <2>2. child \in {"program", "dead"} /\ server # "cloned" /\ bridge \in Confirmed
    BY <2>1 DEF ProgramInv, Confirmed
  <2>4. CASE Dies(Killed)
    BY <1>0, <2>1, <2>2, <2>4, DiesProgram
  <2>3. CASE UNCHANGED <<child, statusVars>>
    BY <1>1, <2>1, <2>2, <2>3 DEF statusVars
  <2> QED BY <1>6, <2>3, <2>4 DEF TtlExpires
<1>7. CASE WriteStatus
  BY <1>7 DEF WriteStatus, HandlerWritesFile, ProgramInv, bridgeVars, childVars, serverVars
<1>8. CASE Arm
  <2>1. /\ child = "woken" /\ child' = "setup" /\ server' = server
        /\ bridge' = bridge /\ UNCHANGED <<script, pos, at, ending>>
    BY <1>8 DEF Arm, childOnly, bridgeVars, serverVars, statusVars
  <2> QED BY <2>1 DEF ProgramInv
<1>9. CASE SetupFails
  <2> DEFINE e == [kind |-> "exit", value |-> 1]
  <2>1. /\ child = "setup" /\ Dies(e) /\ pos' = 0 /\ server' = server /\ UNCHANGED script
    BY <1>9 DEF SetupFails, childOnly, serverVars
  <2>2. e \in Endings /\ e # Success /\ server # "cloned"
    BY <2>1 DEF ProgramInv, Endings, Success
  <2> HIDE DEF e
  <2> QED BY <1>0, <2>1, <2>2, DiesProgram
<1>10. CASE ExecTarget
  <2>1. /\ child = "setup" /\ child' = "program" /\ server' = server
        /\ bridge' = bridge /\ UNCHANGED <<script, pos, at, ending>>
    BY <1>10 DEF ExecTarget, childOnly, bridgeVars, serverVars, statusVars
  <2> QED BY <2>1 DEF ProgramInv
<1>11. ASSUME NEW b, NextItem = b, b # "none", pos' = pos + 1, pos # 0,
              UNCHANGED <<child, script, server, bridge, at, ending>>
       PROVE  ProgramInv'
  <2>1. child = "program" /\ pos <= Len(script)
    BY <1>11 DEF NextItem
  <2>2. ending # Success
    BY <1>0, <2>1 DEF ProgramInv
  <2> QED BY <1>0, <1>11, <2>1, <2>2 DEF ProgramInv
<1>12. NextItem # "none" => child = "program" /\ pos # 0
  BY DEF NextItem, ProgramInv
<1>13. CASE WriteStdout
  BY <1>11, <1>12, <1>13 DEF WriteStdout, ToStdout, childOnly, bridgeVars, serverVars, statusVars
<1>14. CASE WriteStderr
  BY <1>11, <1>12, <1>14 DEF WriteStderr, ToStderr, childOnly, bridgeVars, serverVars, statusVars
<1>15. CASE CloseOutput
  BY <1>11, <1>12, <1>15 DEF CloseOutput, childOnly, bridgeVars, serverVars, statusVars
<1>19. CASE WriteRefused
  BY <1>11, <1>12, <1>19 DEF WriteRefused, ToStdout, ToStderr, childOnly, bridgeVars, serverVars,
     statusVars
<1>16. CASE Exit
  <2>1. /\ child = "program" /\ pos = Len(script) + 1
        /\ UNCHANGED <<script, pos, server>>
    BY <1>16 DEF Exit, childOnly, serverVars
  <2>2. PICK e \in Endings : Dies(e)
    BY <1>16, ExitsAssumption DEF Exit
  <2>3. server # "cloned"
    BY <2>1 DEF ProgramInv
  <2> QED BY <2>1, <2>2, <2>3, DiesProgram
<1>17. CASE ReadStatus
  BY <1>17 DEF ReadStatus, Goto, Confirmed, SupervisorReadsFile, ProgramInv, bridgeOnly, childVars,
     serverVars
<1>18. CASE \/ ReceiveResponse \/ Confirm \/ ReadStdout \/ ReadStderr \/ EndOutput
            \/ ReadFails \/ PrintTimeout \/ PrintReport \/ ReapGivesUp \/ Receive \/ TimeOut
            \/ UNCHANGED vars
  BY <1>1, <1>18 DEF Goto, Fail, PrintResult, Confirmed, PeerClosed, bridgeVars, ReceiveResponse, Confirm, ReadStdout, ReadStderr, EndOutput, ReadFails, PrintTimeout,
     PrintReport, ReapGivesUp, Receive, TimeOut, bridgeOnly, clientOnly, childVars, serverVars,
     statusVars, vars
<1> QED BY <1>2, <1>3, <1>4, <1>5, <1>6, <1>7, <1>8, <1>9, <1>10, <1>13, <1>14, <1>15, <1>16,
           <1>17, <1>18, <1>19, NextCases

-----------------------------------------------------------------------------
(* From exec on, the script only moves forward. *)
LEMMA ProgramStep ==
    ASSUME StatusInv, ProgramInv, child \in {"program", "dead"}, [Next]_vars
    PROVE  /\ script' = script /\ server' # "cloned"
           /\ child' = "dead" \/ child' = child
           /\ pos' = pos \/ pos' = pos + 1
<1>0. server # "cloned"
  BY DEF ProgramInv
<1>1. CASE Clone \/ AssignFails \/ Release \/ Arm \/ ExecTarget \/ SetupFails
  BY <1>0, <1>1 DEF Clone, AssignFails, Release, Arm, ExecTarget, SetupFails, ProgramInv
<1>2. CASE \/ ServerExits \/ WriteStatus \/ TtlExpires \/ Exit
           \/ WriteStdout \/ WriteStderr \/ WriteRefused \/ CloseOutput
  BY <1>0, <1>2 DEF ServerExits, WriteStatus, TtlExpires, Exit, WriteStdout, WriteStderr,
     WriteRefused, CloseOutput, Dies, childOnly, serverVars, childVars
<1>3. CASE \/ ReceiveResponse \/ Confirm \/ ReadStdout \/ ReadStderr \/ EndOutput
           \/ PrintTimeout \/ ReadStatus \/ PrintReport \/ ReapGivesUp \/ Receive \/ TimeOut
           \/ ReadFails \/ UNCHANGED vars
  BY <1>0, <1>3 DEF ReadFails, ReceiveResponse, Confirm, ReadStdout, ReadStderr, EndOutput, PrintTimeout,
     ReadStatus, PrintReport, ReapGivesUp, Receive, TimeOut, bridgeOnly, clientOnly, childVars,
     serverVars, vars
<1> QED BY <1>1, <1>2, <1>3, NextCases

(* Streams that nobody holds stay so ... *)
LEMMA EndedStays ==
    ASSUME StatusInv, ProgramInv, Ended, [Next]_vars
    PROVE  Ended'
<1>1. /\ script' = script /\ server' # "cloned" /\ server # "cloned"
      /\ child' = "dead" \/ child' = child
      /\ pos' = pos \/ pos' = pos + 1
  BY ProgramStep DEF Ended, HoldsStreams
<1>2. pos \in Nat /\ Len(script) \in Nat
  BY DEF ProgramInv
<1>3. CASE child' = "dead"
  BY <1>1, <1>3 DEF Ended, HoldsStreams, Alive
<1>4. CASE child' = child /\ child' # "dead"
  <2>1. PICK i \in 1..Len(script) : script[i] = "close" /\ i < pos
    BY <1>4 DEF Ended, HoldsStreams, Alive
  <2>2. script'[i] = "close" /\ i < pos' /\ i \in 1..Len(script')
    BY <1>1, <1>2, <2>1
  <2> QED BY <1>1, <1>4, <2>2 DEF Ended, HoldsStreams, Alive
<1> QED BY <1>1, <1>3, <1>4

(* ... and nothing is written to them. *)
LEMMA EndedIsSilent ==
    ASSUME ProgramInv, Ended
    PROVE  NextItem \notin ToStdout \cup ToStderr
<1> SUFFICES ASSUME NextItem \in ToStdout \cup ToStderr PROVE FALSE
  OBVIOUS
<1>1. child = "program" /\ pos \in 1..Len(script) /\ NextItem = script[pos]
  BY DEF NextItem, ToStdout, ToStderr, ProgramInv
<1>2. PICK i \in 1..Len(script) : script[i] = "close" /\ i < pos
  BY <1>1 DEF Ended, HoldsStreams, Alive
<1> QED BY <1>1, <1>2, ScriptsAssumption DEF ProgramInv

(* What the next item adds to what was written. *)
LEMMA WrittenNext ==
    ASSUME ProgramInv, NextItem # "none", NEW items, items \subseteq ToStdout \cup ToStderr
    PROVE  /\ pos \in 1..Len(script) /\ NextItem \in Items
           /\ WrittenBy(script, items)[pos - 1] \in Seq(Bytes)
           /\ WrittenBy(script, items)[pos]
                = WrittenBy(script, items)[pos - 1] \o Emitted(items, NextItem)
<1>1. child = "program" /\ pos <= Len(script) /\ NextItem = script[pos]
  BY DEF NextItem
<1>2. pos \in 1..Len(script) /\ script \in Seq(Items) /\ Len(script) \in Nat
  BY <1>1 DEF ProgramInv
<1>3. NextItem \in Items /\ pos - 1 \in 0..Len(script)
  BY <1>1, <1>2
<1> QED BY <1>1, <1>2, <1>3, WrittenByDef

LEMMA InitStream == Init => StreamInv
<1> SUFFICES ASSUME Init PROVE StreamInv
  OBVIOUS
<1>1. script \in Seq(Items)
  BY ScriptsAssumption DEF Init
<1>2. /\ WrittenBy(script, ToStdout)[0] = << >>
      /\ WrittenBy(script, ToStderr)[0] = << >>
  BY <1>1, WrittenByDef
<1>3. << >> \in Seq(Bytes) /\ << >> \o << >> = << >>
  OBVIOUS
<1> QED BY <1>2, <1>3 DEF Init, StreamInv

(* A refused write is followed by others, and streams that ended by none. *)
LEMMA UnrefusedBefore ==
    ASSUME [Next]_vars, Unrefused'
    PROVE  Unrefused
<1>1. CASE ReadStdout \/ ReadStderr
  BY <1>1 DEF ReadStdout, ReadStderr, Unrefused, ReadersOpen
<1>2. CASE \/ Clone \/ Release \/ ServerExits \/ WriteStatus \/ Arm \/ ExecTarget \/ Exit
           \/ WriteStdout \/ WriteStderr \/ WriteRefused \/ CloseOutput
           \/ AssignFails \/ SetupFails \/ Receive \/ UNCHANGED vars
  BY <1>2 DEF Clone, Release, ServerExits, WriteStatus, Arm, ExecTarget, Exit, WriteStdout,
     WriteStderr, WriteRefused, CloseOutput, AssignFails, SetupFails, Receive, childOnly,
     clientOnly, bridgeVars, streamVars, vars, Unrefused, ReadersOpen
<1>3. CASE \/ ReceiveResponse \/ Confirm \/ EndOutput \/ ReadFails \/ TtlExpires \/ PrintTimeout
           \/ ReadStatus \/ PrintReport \/ ReapGivesUp \/ TimeOut
  BY <1>3 DEF ReceiveResponse, Confirm, EndOutput, ReadFails, TtlExpires, PrintTimeout, ReadStatus,
     PrintReport, ReapGivesUp, TimeOut, Goto, Fail, PrintResult, PeerClosed, clientOnly,
     streamVars, Unrefused, ReadersOpen
<1> QED BY <1>1, <1>2, <1>3, NextCases

(* Where neither bytes nor the script move, an ended stream is one still. *)
LEMMA StreamStays ==
    ASSUME StatusInv, ProgramInv, StreamInv, [Next]_vars,
           UNCHANGED <<streamVars, script>>, pos' = pos \/ (pos' = 0 /\ child = "setup")
    PROVE  StreamInv'
<1>1. (outDone \/ errDone) => Ended'
  BY EndedStays DEF StreamInv
<1>2. Ended => child # "setup"
  BY DEF Ended
<1>3. UNCHANGED <<ptyBuf, errBuf, stdout, stderr, outDone, errDone>>
  BY DEF streamVars
<1> QED BY <1>1, <1>2, <1>3, UnrefusedBefore DEF StreamInv

(* What a program writes to a stream is added to it, at its end. *)
LEMMA Added ==
    ASSUME NEW s \in Seq(Bytes), NEW t \in Seq(Bytes), NEW u \in Seq(Bytes)
    PROVE  /\ (s \o t) \o u = s \o (t \o u) /\ t \o u \in Seq(Bytes)
           /\ s \o t \in Seq(Bytes)
           /\ s \o << >> = s
  BY SMTT(40), ConcatAssociative, ConcatProperties, ConcatEmptySeq

(* Reading moves bytes, writing adds them, and both streams are apart. *)
LEMMA NextStream == StatusInv /\ ProgramInv /\ StreamInv /\ [Next]_vars => StreamInv'
<1> SUFFICES ASSUME StatusInv, ProgramInv, StreamInv, [Next]_vars PROVE StreamInv'
  OBVIOUS
<1> DEFINE W(items) == WrittenBy(script, items)
<1>0. /\ ptyBuf \in Seq(Bytes) /\ stdout \in Seq(Bytes)
      /\ errBuf \in Seq(Bytes) /\ stderr \in Seq(Bytes)
      /\ << >> \in Seq(Bytes) /\ pos \in Nat
  BY DEF StreamInv, ProgramInv
<1>1. CASE WriteStdout
  <2> DEFINE b == NextItem
  <2>1. /\ b \in ToStdout /\ b \notin ToStderr /\ b # "none" /\ pos' = pos + 1
        /\ ptyBuf' = ptyBuf \o Cooked(b)
        /\ UNCHANGED <<script, errBuf, stdout, stderr, outDone, errDone>>
    BY <1>1 DEF WriteStdout, ToStdout, ToStderr
  <2>2. pos # 0 /\ ~outDone /\ ~errDone /\ Unrefused
    <3>1. ~Ended
      BY <2>1, EndedIsSilent
    <3>2. pos \in 1..Len(script)
      BY <2>1, WrittenNext
    <3> QED BY <1>1, <3>1, <3>2 DEF StreamInv, WriteStdout, Unrefused
  <2>3. /\ W(ToStdout)[pos] = W(ToStdout)[pos - 1] \o Cooked(b)
        /\ W(ToStderr)[pos] = W(ToStderr)[pos - 1] \o << >>
        /\ W(ToStderr)[pos - 1] \in Seq(Bytes)
        /\ Cooked(b) \in Seq(Bytes)
    <3>1. Emitted(ToStdout, b) = Cooked(b) /\ Emitted(ToStderr, b) = << >>
      BY <2>1 DEF Emitted
    <3>2. b \in Items
      BY <2>1, WrittenNext
    <3>3. Emitted(ToStdout, b) \in Seq(Bytes)
      BY <3>2, CookedBytes
    <3> QED BY <2>1, <3>1, <3>3, WrittenNext
  <2> HIDE DEF b, W
  <2>4. stdout \o (ptyBuf \o Cooked(b)) = W(ToStdout)[pos]
    <3>1. stdout \o ptyBuf = W(ToStdout)[pos - 1]
      BY <2>2 DEF StreamInv, W
    <3>2. (stdout \o ptyBuf) \o Cooked(b) = stdout \o (ptyBuf \o Cooked(b))
      <4>1. Cooked(b) \in Seq(Bytes)
        BY <2>3
      <4> QED BY SMTT(40), <1>0, <4>1, ConcatAssociative
    <3> QED BY <2>3, <3>1, <3>2
  <2>5. stderr \o errBuf = W(ToStderr)[pos]
    BY <1>0, <2>2, <2>3, Added DEF StreamInv, W
  <2>6. ptyBuf' \in Seq(Bytes) /\ pos' - 1 = pos
    BY <1>0, <2>1, <2>3, Added
  <2> QED BY <1>0, <2>1, <2>2, <2>4, <2>5, <2>6 DEF StreamInv, W
<1>2. CASE WriteStderr
  <2> DEFINE b == NextItem
  <2>1. /\ b \in ToStderr /\ b \notin ToStdout /\ b # "none" /\ pos' = pos + 1
        /\ errBuf' = errBuf \o <<b>> /\ Cooked(b) = <<b>>
        /\ UNCHANGED <<script, ptyBuf, stdout, stderr, outDone, errDone>>
    <3>1. b \in Bytes
      BY <1>2 DEF WriteStderr, ToStderr, Bytes
    <3>2. Append(errBuf, b) = errBuf \o <<b>>
      BY <1>0, <3>1, AppendIsConcat
    <3> QED BY <1>2, <3>2 DEF WriteStderr, ToStdout, ToStderr, Cooked
  <2>2. pos # 0 /\ ~outDone /\ ~errDone /\ Unrefused
    <3>1. ~Ended
      BY <2>1, EndedIsSilent
    <3>2. pos \in 1..Len(script)
      BY <2>1, WrittenNext
    <3> QED BY <1>2, <3>1, <3>2 DEF StreamInv, WriteStderr, Unrefused
  <2>3. /\ W(ToStderr)[pos] = W(ToStderr)[pos - 1] \o Cooked(b)
        /\ W(ToStdout)[pos] = W(ToStdout)[pos - 1] \o << >>
        /\ W(ToStdout)[pos - 1] \in Seq(Bytes)
        /\ Cooked(b) \in Seq(Bytes)
    <3>1. Emitted(ToStderr, b) = Cooked(b) /\ Emitted(ToStdout, b) = << >>
      BY <2>1 DEF Emitted
    <3>2. b \in Items
      BY <2>1, WrittenNext
    <3>3. Emitted(ToStderr, b) \in Seq(Bytes)
      BY <3>2, CookedBytes
    <3> QED BY <2>1, <3>1, <3>3, WrittenNext
  <2> HIDE DEF b, W
  <2>4. stderr \o (errBuf \o Cooked(b)) = W(ToStderr)[pos]
    <3>1. stderr \o errBuf = W(ToStderr)[pos - 1]
      BY <2>2 DEF StreamInv, W
    <3>2. (stderr \o errBuf) \o Cooked(b) = stderr \o (errBuf \o Cooked(b))
      <4>1. Cooked(b) \in Seq(Bytes)
        BY <2>3
      <4> QED BY SMTT(40), <1>0, <4>1, ConcatAssociative
    <3> QED BY <2>3, <3>1, <3>2
  <2>5. stdout \o ptyBuf = W(ToStdout)[pos]
    BY <1>0, <2>2, <2>3, Added DEF StreamInv, W
  <2>6. errBuf' \in Seq(Bytes) /\ pos' - 1 = pos /\ errBuf' = errBuf \o Cooked(b)
    BY <1>0, <2>1, <2>3, Added
  <2> QED BY <1>0, <2>1, <2>2, <2>4, <2>5, <2>6 DEF StreamInv, W
<1>3. CASE CloseOutput
  <2>1. /\ NextItem = "close" /\ pos' = pos + 1 /\ UNCHANGED <<script, streamVars>>
    BY <1>3 DEF CloseOutput
  <2>2. /\ pos \in 1..Len(script)
        /\ W(ToStdout)[pos] = W(ToStdout)[pos - 1]
        /\ W(ToStderr)[pos] = W(ToStderr)[pos - 1]
    <3>1. Emitted(ToStdout, NextItem) = << >> /\ Emitted(ToStderr, NextItem) = << >>
      BY <2>1 DEF Emitted, ToStdout, ToStderr
    <3> QED BY <2>1, <3>1, WrittenNext, ConcatEmptySeq
  <2>3. (outDone \/ errDone) => Ended'
    BY EndedStays DEF StreamInv
  <2>4. UNCHANGED <<ptyBuf, errBuf, stdout, stderr, outDone, errDone>>
    BY <2>1 DEF streamVars
  <2>5. pos' - 1 = pos /\ pos # 0
    BY <1>0, <2>1, <2>2
  <2> HIDE DEF W
  <2> QED BY <2>1, <2>2, <2>3, <2>4, <2>5, UnrefusedBefore DEF StreamInv, W
<1>4. CASE ReadStdout
  <2>1. /\ stdout' = stdout \o ptyBuf /\ ptyBuf' = << >>
        /\ ~outDone /\ outDone' = (ptyBuf = << >>)
        /\ UNCHANGED <<errBuf, stderr, errDone, script, pos>>
        /\ bridge = "collect" /\ (ptyBuf = << >> => ~HoldsStreams)
    BY <1>4 DEF ReadStdout, StdoutReadable, bridgeOnly, childVars
  <2>2. ptyBuf = << >> => Ended
    BY <2>1 DEF Ended, ProgramInv, Confirmed
  <2>3. Ended => Ended'
    BY EndedStays
  <2>4. stdout' \in Seq(Bytes) /\ stdout' \o ptyBuf' = stdout \o ptyBuf
    BY <1>0, <2>1, Added
  <2> QED BY <1>0, <2>1, <2>2, <2>3, <2>4, UnrefusedBefore DEF StreamInv
<1>5. CASE ReadStderr
  <2>1. /\ stderr' = stderr \o errBuf /\ errBuf' = << >>
        /\ ~errDone /\ errDone' = (errBuf = << >>)
        /\ UNCHANGED <<ptyBuf, stdout, outDone, script, pos>>
        /\ bridge = "collect" /\ (errBuf = << >> => ~HoldsStreams)
    BY <1>5 DEF ReadStderr, bridgeOnly, childVars
  <2>2. errBuf = << >> => Ended
    BY <2>1 DEF Ended, ProgramInv, Confirmed
  <2>3. Ended => Ended'
    BY EndedStays
  <2>4. stderr' \in Seq(Bytes) /\ stderr' \o errBuf' = stderr \o errBuf
    BY <1>0, <2>1, Added
  <2> QED BY <1>0, <2>1, <2>2, <2>3, <2>4, UnrefusedBefore DEF StreamInv
<1>7. CASE WriteRefused
  <2>1. /\ NextItem \in ToStdout \cup ToStderr /\ ~ReadersOpen
        /\ UNCHANGED <<ptyBuf, errBuf, stdout, stderr, outDone, errDone>>
    BY <1>7 DEF WriteRefused, streamVars
  <2>2. ~outDone /\ ~errDone
    BY <2>1, EndedIsSilent DEF StreamInv
  <2>3. ~Unrefused'
    BY <2>1, <2>2, UnrefusedBefore DEF Unrefused
  <2> QED BY <1>0, <2>1, <2>2, <2>3 DEF StreamInv
<1>6. CASE \/ Clone \/ Release \/ ServerExits \/ WriteStatus \/ Arm \/ ExecTarget \/ Exit
           \/ ReceiveResponse \/ Confirm \/ EndOutput \/ ReadFails \/ PrintTimeout \/ ReadStatus
           \/ PrintReport \/ ReapGivesUp \/ Receive \/ AssignFails \/ SetupFails
           \/ TtlExpires \/ TimeOut \/ UNCHANGED vars
  <2>1. UNCHANGED <<streamVars, script>> /\ (pos' = pos \/ (pos' = 0 /\ child = "setup"))
    BY <1>6 DEF Clone, Release, ServerExits, WriteStatus, Arm, ExecTarget, Exit, ReceiveResponse,
       Confirm, EndOutput, ReadFails, PrintTimeout, ReadStatus, PrintReport, ReapGivesUp, Receive,
       AssignFails, SetupFails, TtlExpires, TimeOut, childOnly, bridgeOnly, clientOnly,
       childVars, vars
  <2> QED BY <2>1, StreamStays
<1> QED BY <1>1, <1>2, <1>3, <1>4, <1>5, <1>6, <1>7, NextCases

(* Where no write is refused, the beginning is all of it. *)
LEMMA AllIsPart == ProgramInv /\ StreamInv /\ Unrefused => PartInv
<1> SUFFICES ASSUME ProgramInv, StreamInv, Unrefused, pos # 0 PROVE PartInv
  BY DEF PartInv
<1>1. stdout \o ptyBuf \in Seq(Bytes) /\ stderr \o errBuf \in Seq(Bytes)
  BY Added DEF StreamInv
<1>2. \A t \in Seq(Bytes) : << >> \in Seq(Bytes) /\ t \o << >> = t
  BY ConcatEmptySeq
<1>3. \A t \in Seq(Bytes) : Begins(t, t)
  BY <1>2 DEF Begins
<1> QED BY <1>1, <1>3 DEF StreamInv, PartInv

LEMMA PartStays ==
    ASSUME PartInv, UNCHANGED <<streamVars, script>>, pos' = pos \/ pos' = 0
    PROVE  PartInv'
  BY DEF PartInv, streamVars

(* A refused write leaves what was there the beginning of one item more. *)
LEMMA NextPart ==
    StatusInv /\ ProgramInv /\ StreamInv /\ StreamInv' /\ ProgramInv' /\ PartInv /\ [Next]_vars
        => PartInv'
<1> SUFFICES ASSUME StatusInv, ProgramInv, StreamInv, StreamInv', ProgramInv', PartInv, [Next]_vars
             PROVE  PartInv'
  OBVIOUS
<1>1. CASE Unrefused'
  BY <1>1, AllIsPart, PTL
<1>2. ASSUME ~Unrefused', WriteStdout \/ WriteStderr \/ ReadStdout \/ ReadStderr PROVE FALSE
  BY <1>2 DEF WriteStdout, WriteStderr, ReadStdout, ReadStderr, childOnly, bridgeVars, Unrefused,
     ReadersOpen
<1>3. CASE WriteRefused \/ CloseOutput
  <2> DEFINE W(items) == WrittenBy(script, items)
             b == NextItem
             more(items) == Emitted(items, b)
  <2>1. /\ b \in Items /\ b # "none" /\ pos' = pos + 1 /\ pos \in Nat
        /\ UNCHANGED <<script, ptyBuf, errBuf, stdout, stderr>>
    BY <1>3 DEF WriteRefused, CloseOutput, ToStdout, ToStderr, Items, streamVars, ProgramInv
  <2>2. /\ pos # 0 /\ pos' - 1 = pos
        /\ W(ToStdout)[pos] = W(ToStdout)[pos - 1] \o more(ToStdout)
        /\ W(ToStderr)[pos] = W(ToStderr)[pos - 1] \o more(ToStderr)
    BY <2>1, WrittenNext
  <2>3. more(ToStdout) \in Seq(Bytes) /\ more(ToStderr) \in Seq(Bytes)
    BY <2>1, CookedBytes
  <2>4. stdout \o ptyBuf \in Seq(Bytes) /\ stderr \o errBuf \in Seq(Bytes)
    BY Added DEF StreamInv
  <2>5. ASSUME NEW s \in Seq(Bytes), NEW t, NEW u \in Seq(Bytes), Begins(s, t)
        PROVE  Begins(s, t \o u)
    <3>1. PICK lost \in Seq(Bytes) : t = s \o lost
      BY <2>5 DEF Begins
    <3>2. t \o u = s \o (lost \o u) /\ lost \o u \in Seq(Bytes)
      BY <3>1, Added
    <3> QED BY <3>2 DEF Begins
  <2> HIDE DEF W, b, more
  <2>6. Begins(stdout \o ptyBuf, W(ToStdout)[pos]) /\ Begins(stderr \o errBuf, W(ToStderr)[pos])
    BY <2>2, <2>3, <2>4, <2>5 DEF PartInv, W
  <2> QED BY <2>1, <2>2, <2>6 DEF PartInv, W
<1>4. CASE \/ Clone \/ Release \/ ServerExits \/ WriteStatus \/ Arm \/ ExecTarget \/ Exit
           \/ ReceiveResponse \/ Confirm \/ EndOutput \/ ReadFails \/ PrintTimeout \/ ReadStatus
           \/ PrintReport \/ ReapGivesUp \/ Receive \/ AssignFails \/ SetupFails
           \/ TtlExpires \/ TimeOut \/ UNCHANGED vars
  <2>1. UNCHANGED <<streamVars, script>> /\ (pos' = pos \/ pos' = 0)
    BY <1>4 DEF Clone, Release, ServerExits, WriteStatus, Arm, ExecTarget, Exit, ReceiveResponse,
       Confirm, EndOutput, ReadFails, PrintTimeout, ReadStatus, PrintReport, ReapGivesUp, Receive,
       AssignFails, SetupFails, TtlExpires, TimeOut, childOnly, bridgeOnly, clientOnly,
       childVars, vars
  <2> QED BY <2>1, PartStays
<1> QED BY <1>1, <1>2, <1>3, <1>4, NextCases

-----------------------------------------------------------------------------
LEMMA InitReport == Init => ReportInv
  BY DEF Init, Nothing, ReportInv

(* A reason is that of an exit with 0 only if it has that tag and value. *)
LEMMA ReasonOfSuccess ==
    ASSUME StatusInv, at = "read"
    PROVE  /\ reason = TrueReason(ending)
           /\ reason.tag = "Exited" /\ reason.value = 0 =>
                 reason = Reason("Exited", 0) /\ ending = Success
<1>1. reason = TrueReason(ending) /\ ending \in Endings
  BY DEF StatusInv
<1>2. CASE ending.kind = "exit"
  <2>1. reason = Reason("Exited", ending.value) /\ ending = [kind |-> "exit", value |-> ending.value]
    BY <1>1, <1>2 DEF TrueReason, Endings
  <2> QED BY <1>1, <2>1 DEF Reason, Success
<1>3. CASE ending.kind # "exit"
  <2>1. reason.tag # "Exited"
    BY <1>1, <1>3 DEF TrueReason, Reason
  <2> QED BY <1>1, <2>1
<1> QED BY <1>2, <1>3

(* Once it is printed, nothing it says changes. *)
LEMMA ReportStays ==
    ASSUME ReportInv, UNCHANGED result,
           bridge' = bridge \/ bridge' \notin Confirmed \cup {"exited", "requested", "confirm"},
           bridge = "exited" => bridge' = "exited",
           ~ReadersOpen => UNCHANGED <<outDone, errDone, stdout, stderr>>,
           at = "read" => UNCHANGED <<at, reason>>,
           UNCHANGED <<printed, answer>>, client' = client \/ client' # "returned"
    PROVE  ReportInv'
  BY DEF ReportInv, Confirmed, ReadersOpen

LEMMA NextReport == StatusInv /\ ReportInv /\ [Next]_vars => ReportInv'
<1> SUFFICES ASSUME StatusInv, ReportInv, [Next]_vars PROVE ReportInv'
  OBVIOUS
<1>1. CASE \/ Clone \/ Release \/ ServerExits \/ WriteStatus \/ AssignFails
           \/ Arm \/ ExecTarget \/ WriteStdout \/ WriteStderr \/ CloseOutput \/ Exit \/ SetupFails
           \/ WriteRefused
  <2>1. UNCHANGED <<bridge, result, printed, client, answer, outDone, errDone, stdout, stderr>>
    BY <1>1 DEF WriteRefused, Clone, Release, ServerExits, WriteStatus, AssignFails, Arm, ExecTarget, WriteStdout,
       WriteStderr, CloseOutput, Exit, SetupFails, childOnly, clientVars, bridgeVars, streamVars
  <2>2. at = "read" => UNCHANGED <<at, reason>>
    BY <1>1 DEF WriteRefused, Clone, Release, ServerExits, WriteStatus, AssignFails, Arm, ExecTarget, WriteStdout,
       WriteStderr, CloseOutput, Exit, SetupFails, Dies, ChildEnds, HandlerWritesFile, statusVars
  <2> QED BY <2>1, <2>2, ReportStays
<1>2. CASE ReadStdout \/ ReadStderr
  <2>1. UNCHANGED <<bridge, result, printed, client, answer, at, reason>> /\ bridge = "collect"
    BY <1>2 DEF ReadStdout, ReadStderr, bridgeOnly, clientVars, bridgeVars, statusVars
  <2> QED BY <2>1, ReportStays DEF ReadersOpen
<1>3. CASE ReceiveResponse \/ Confirm \/ ReapGivesUp
  <2>1. /\ UNCHANGED <<result, client, answer, at, reason, outDone, errDone, stdout, stderr>>
        /\ bridge \in {"requested", "confirm", "reap"}
    BY <1>3 DEF ReceiveResponse, Confirm, ReapGivesUp, bridgeOnly, clientVars, streamVars, statusVars
  <2>2. \/ ReadersOpen /\ printed' = printed /\ bridge' \in {"confirm", "collect"}
        \/ bridge' = "exited" /\ printed' = Nothing
    BY <1>3 DEF ReceiveResponse, Confirm, ReapGivesUp, Fail, Goto, ReadersOpen
  <2>3. ~printed.ok /\ client # "returned"
    BY <2>1 DEF ReportInv
  <2> QED BY <2>1, <2>2, <2>3 DEF ReportInv, Nothing, ReadersOpen
<1>4. CASE EndOutput \/ ReadFails
  <2>1. /\ UNCHANGED <<printed, client, answer, at, reason, outDone, errDone, stdout, stderr>>
        /\ bridge = "collect" /\ bridge' = "reap" /\ result' \in {"ok", "error"}
        /\ result' = "ok" => outDone /\ errDone
    BY <1>4 DEF EndOutput, ReadFails, StreamsEnded, Goto, bridgeOnly, clientVars, streamVars, statusVars
  <2> QED BY <2>1 DEF ReportInv, ReadersOpen
<1>5. CASE TtlExpires
  <2>1. /\ UNCHANGED <<printed, client, answer, outDone, errDone, stdout, stderr>>
        /\ bridge = "collect" /\ bridge' = "kill" /\ result' = "elapsed"
    BY <1>5 DEF TtlExpires, Goto, clientVars, streamVars
  <2> QED BY <2>1 DEF ReportInv, ReadersOpen
<1>6. CASE PrintTimeout
  <2>1. /\ UNCHANGED <<result, client, answer, at, reason, outDone, errDone, stdout, stderr>>
        /\ bridge = "kill" /\ bridge' = "exited" /\ printed'.exit_status = -1
    BY <1>6 DEF PrintTimeout, PrintResult, Goto, bridgeOnly, clientVars, streamVars, statusVars
  <2>2. client # "returned"
    BY <2>1 DEF ReportInv
  <2> QED BY <2>1, <2>2 DEF ReportInv, ReadersOpen, success
<1>7. CASE ReadStatus
  <2>1. /\ UNCHANGED <<result, printed, client, answer, outDone, errDone, stdout, stderr>>
        /\ bridge = "reap" /\ bridge' = "report" /\ at' = "read"
    BY <1>7 DEF ReadStatus, SupervisorReadsFile, Goto, bridgeOnly, clientVars, streamVars
  <2> QED BY <2>1 DEF ReportInv, ReadersOpen
<1>8. CASE PrintReport
  <2>1. /\ UNCHANGED <<result, client, answer, at, reason, outDone, errDone, stdout, stderr>>
        /\ bridge = "report" /\ bridge' = "exited"
        /\ printed'.stdout = Lossy(stdout) /\ printed'.stderr = Lossy(stderr)
        /\ printed'.termination = reason.tag
        /\ reason.tag # "SeccompViolation" => printed'.exit_status = reason.value
    BY <1>8 DEF PrintReport, PrintResult, Goto, bridgeOnly, clientVars, streamVars, statusVars
  <2>2. client # "returned" /\ result \in {"ok", "error"} /\ at = "read"
    BY <2>1 DEF ReportInv
  <2>3. success(printed') => reason = Reason("Exited", 0)
    BY <2>1, <2>2, ReasonOfSuccess DEF success
  <2> QED BY <2>1, <2>2, <2>3 DEF ReportInv, ReadersOpen
<1>9. CASE Receive
  <2>1. /\ UNCHANGED <<bridge, result, printed, at, reason, outDone, errDone, stdout, stderr>>
        /\ client' = "returned" => printed.ok
        /\ answer' = printed
    BY <1>9 DEF Receive, bridgeVars, clientOnly, streamVars, statusVars
  <2> QED BY <2>1 DEF ReportInv, ReadersOpen
<1>10. CASE TimeOut
  <2>1. /\ UNCHANGED <<answer, result, printed, at, reason, outDone, errDone, stdout, stderr>>
        /\ client' = "timed_out"
        /\ bridge' = IF bridge \in {"exited", "killed"} THEN bridge ELSE "killed"
    BY <1>10 DEF TimeOut, PeerClosed, clientOnly, streamVars, statusVars
  <2> QED BY <2>1, ReportStays DEF Confirmed
<1>11. CASE UNCHANGED vars
  BY <1>11, ReportStays DEF vars, clientVars, bridgeVars, streamVars, statusVars
<1> QED BY <1>1, <1>2, <1>3, <1>4, <1>5, <1>6, <1>7, <1>8, <1>9, <1>10, <1>11, NextCases

-----------------------------------------------------------------------------
THEOREM BridgeCorrect == Spec => []BridgeInv
<1>1. Init => BridgeInv
  <2>1. Init => PartInv
    BY InitProgram, InitStream, AllIsPart DEF Init, Unrefused, ReadersOpen
  <2> QED BY <2>1, InitStatus, InitProgram, InitStream, InitReport DEF BridgeInv
<1>2. BridgeInv /\ [Next]_vars => BridgeInv'
  BY NextStatus, NextProgram, NextStream, NextPart, NextReport DEF BridgeInv
<1> QED BY <1>1, <1>2, PTL DEF Spec

(***************************************************************************)
(* For every process id and every way to end: the reason the supervisor    *)
(* reads out of the status file is the true one (sigchld_handler and       *)
(* reap_child taken together).                                             *)
(***************************************************************************)
THEOREM ReasonCorrect == Spec => []ReasonIsTrue
<1>1. BridgeInv => ReasonIsTrue
  BY DEF BridgeInv, StatusInv, ReasonIsTrue
<1> QED BY <1>1, BridgeCorrect, PTL

(***************************************************************************)
(* The handler's fixed buffers take any process id and any wait status     *)
(* (sigchld_handler).                                                      *)
(***************************************************************************)
THEOREM BuffersCorrect == Spec => []BuffersSuffice
<1>1. BridgeInv => BuffersSuffice
  <2> SUFFICES ASSUME BridgeInv, at \in {"written", "read"}
               PROVE  /\ Len(path) <= DigitBuf
                      /\ PrefixLen + Len(path) + 1 <= PathBuf
                      /\ Len(text) <= DigitBuf
    BY DEF BuffersSuffice
  <2>1. /\ path = EmitDigits(pid) /\ text = StatusText(KernelStatus(ending))
        /\ pid \in Nat /\ pid < 10 * 1000000000 /\ ending \in Endings
    BY MaxPidRange DEF BridgeInv, StatusInv
  <2>2. Len(path) <= 10 /\ Len(path) \in Nat
    BY <2>1, DigitCount, EmitDigitsStep
  <2> DEFINE k == KernelStatus(ending)
  <2>3. EmitDigits(k) \in Seq(DigitBytes) /\ Len(EmitDigits(k)) <= 5
    BY SMTT(40), <2>1, KernelStatusRange, DigitCount, EmitDigitsStep
  <2>4. Len(text) = Len(EmitDigits(k)) + 1
    <3>1. NEWLINE \in Int /\ Seq(DigitBytes) \subseteq Seq(Int)
      BY DEF NEWLINE, DigitBytes
    <3> QED BY <2>1, <2>3, <3>1, AppendProperties DEF StatusText
  <2> QED BY <2>2, <2>3, <2>4 DEF DigitBuf, PrefixLen, PathBuf
<1> QED BY <1>1, BridgeCorrect, PTL

(* A beginning is what is left when the rest is cut off. *)
LEMMA BeginsIsPart ==
    ASSUME NEW s \in Seq(Bytes), NEW u \in Seq(Bytes), NEW t, Begins(s \o u, t)
    PROVE  \E n \in 0..Len(t) : Lossy(s) = Lossy(SubSeq(t, 1, n))
<1>1. PICK lost \in Seq(Bytes) : t = (s \o u) \o lost
  BY DEF Begins
<1>2. t = s \o (u \o lost) /\ u \o lost \in Seq(Bytes)
  BY <1>1, Added
<1>3. Len(t) = Len(s) + Len(u \o lost) /\ Len(s) \in Nat /\ Len(u \o lost) \in Nat
  BY <1>2, ConcatProperties
<1>4. SubSeq(t, 1, Len(s)) = s
  <2> DEFINE w == u \o lost
  <2>1. w \in Seq(Bytes) /\ t = s \o w /\ t \in Seq(Bytes)
    BY <1>2, ConcatProperties
  <2> HIDE DEF w
  <2>2. CASE Len(s) = 0
    BY <2>1, <2>2, SubSeqEmpty, EmptySeq
  <2>3. CASE Len(s) # 0
    <3>1. 1 \in 1..Len(s) /\ Len(s) \in 1..Len(s)
      BY <1>3, <2>3
    <3>2. SubSeq(t, 1, Len(s)) = SubSeq(s, 1, Len(s))
      BY <2>1, <3>1, SubSeqOfConcat1
    <3> QED BY <3>2, SubSeqFull
  <2> QED BY <2>2, <2>3
<1>5. Len(s) \in 0..Len(t)
  BY <1>3
<1>6. Lossy(s) = Lossy(SubSeq(t, 1, Len(s)))
  BY <1>4
<1> QED BY <1>5, <1>6, Zenon

(***************************************************************************)
(* For every script, capacity, ending and mishap of Events: what the       *)
(* client calls a success is a program that ran to its end and exited with *)
(* 0.  It has the text of all that was written to either stream, or, if a  *)
(* read failed, of a beginning of it; what is not UTF-8 is replaced        *)
(* (collect_output, reap_child, main, RunResult.success).                  *)
(***************************************************************************)
THEOREM SuccessCorrect == Spec => []SuccessIsTrue
<1>1. BridgeInv => SuccessIsTrue
  <2> SUFFICES ASSUME BridgeInv, client = "returned", success(answer)
               PROVE  /\ ending = Success /\ pos = Len(script) + 1
                      /\ result # "error" => /\ TextOfAll(answer.stdout, ToStdout)
                                             /\ TextOfAll(answer.stderr, ToStderr)
                      /\ TextOfPart(answer.stdout, ToStdout)
                      /\ TextOfPart(answer.stderr, ToStderr)
    BY DEF SuccessIsTrue, Success
  <2>1. /\ result \in {"ok", "error"}
        /\ result = "ok" => outDone /\ errDone
        /\ at = "read" /\ reason = Reason("Exited", 0)
        /\ answer.stdout = Lossy(stdout) /\ answer.stderr = Lossy(stderr)
    BY DEF BridgeInv, ReportInv
  <2>2. ending = Success
    BY <2>1, ReasonOfSuccess DEF BridgeInv, Reason
  <2>3. pos = Len(script) + 1 /\ pos # 0 /\ pos - 1 = Len(script)
    BY <2>2 DEF BridgeInv, ProgramInv
  <2>4. /\ stdout \in Seq(Bytes) /\ ptyBuf \in Seq(Bytes)
        /\ stderr \in Seq(Bytes) /\ errBuf \in Seq(Bytes)
    BY DEF BridgeInv, StreamInv
  <2>5. ASSUME result # "error"
        PROVE  Lossy(stdout) = Lossy(Written(ToStdout)) /\ Lossy(stderr) = Lossy(Written(ToStderr))
    <3>1. stdout \o << >> = Written(ToStdout) /\ stderr \o << >> = Written(ToStderr)
      <4>1. Unrefused /\ ptyBuf = << >> /\ errBuf = << >>
        BY <2>1, <2>5 DEF BridgeInv, StreamInv, Unrefused
      <4> QED BY <2>3, <4>1 DEF BridgeInv, StreamInv, Written
    <3>2. stdout \o << >> = stdout /\ stderr \o << >> = stderr
      BY <2>4, ConcatEmptySeq
    <3>3. stdout = Written(ToStdout) /\ stderr = Written(ToStderr)
      BY <3>1, <3>2
    <3> QED BY <3>3
  <2>6. /\ Begins(stdout \o ptyBuf, Written(ToStdout))
        /\ Begins(stderr \o errBuf, Written(ToStderr))
    BY <2>3 DEF BridgeInv, PartInv, Written
  <2>7. /\ TextOfPart(answer.stdout, ToStdout)
        /\ TextOfPart(answer.stderr, ToStderr)
    BY <2>1, <2>4, <2>6, BeginsIsPart DEF TextOfPart
  <2> QED BY <2>1, <2>2, <2>3, <2>5, <2>7 DEF TextOfAll
<1> QED BY <1>1, BridgeCorrect, PTL

===============================================================================
