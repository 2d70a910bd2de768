------------------------ MODULE GzipFormatterProofs ------------------------
(***************************************************************************)
(* Proofs about LogplexFormatter and GzipFormatter, for every limit and    *)
(* header size, every batch and every sequence of buffers.                 *)
(*                                                                         *)
(* What has been read of a body and what the formatters left would still   *)
(* give are together one sequence, Whole, that is fixed when the formatter *)
(* is made.  So whatever is true of Whole, however it is cut into buffers, *)
(* is true of the body: the properties of text and frames are proved of    *)
(* Whole by induction over the formatters, and then of its prefixes.       *)
(*                                                                         *)
(* The writer goroutine and the transport only move what has been read:    *)
(* sent, held in the compressor or in the transport's hands, it is body.   *)
(***************************************************************************)
EXTENDS GzipFormatter, SequenceTheorems, FiniteSetTheorems, WellFoundedInduction, TLAPS

-----------------------------------------------------------------------------
(***************************************************************************)
(* Induction over numbers and sequences, in terms of sets: the provers     *)
(* cannot instantiate an operator, but they can define a set.              *)
(***************************************************************************)
\* A set of numbers has a smallest one.
LEMMA SmallestNumber ==
  ASSUME NEW T \in SUBSET Nat, T # {}
  PROVE  \E n \in T : \A m \in T : n <= m
<1>1. \E n \in T : \A m \in T : ~(<<m, n>> \in OpToRel(<, Nat))
  BY NatLessThanWellFounded, WFMin
<1>2. PICK n \in T : \A m \in T : ~(<<m, n>> \in OpToRel(<, Nat))
  BY <1>1
<1>3. ASSUME NEW m \in T PROVE n <= m
  <2>1. ~(m < n)
    BY <1>2, <1>3 DEF OpToRel
  <2> QED
    BY <2>1
<1> QED
  BY <1>3

\* A set that has 0 and with a number the next one has all numbers.
LEMMA AllNumbers ==
  ASSUME NEW T, 0 \in T, \A n \in Nat : n \in T => n + 1 \in T
  PROVE  \A n \in Nat : n \in T
<1> SUFFICES ASSUME Nat \ T # {} PROVE FALSE
  OBVIOUS
<1>1. PICK n \in Nat \ T : \A m \in Nat \ T : n <= m
  BY SmallestNumber
<1>2. n # 0 /\ n - 1 \in Nat
  BY <1>1
<1>3. n - 1 \in T
  BY <1>1, <1>2
<1>4. (n - 1) + 1 \in T
  BY <1>2, <1>3
<1> QED
  BY <1>1, <1>4

\* A set that has <<>> and with a sequence each that is longer by one has all.
LEMMA AllSequences ==
  ASSUME NEW S, NEW T, <<>> \in T, \A s \in Seq(S) : s \in T => \A x \in S : Append(s, x) \in T
  PROVE  \A s \in Seq(S) : s \in T
<1> DEFINE N == {n \in Nat : \A s \in Seq(S) : Len(s) = n => s \in T}
<1>1. 0 \in N
  <2>1. \A s \in Seq(S) : Len(s) = 0 => s = <<>>
    OBVIOUS
  <2> QED
    BY <2>1
<1>2. ASSUME NEW n \in Nat, n \in N PROVE n + 1 \in N
  <2> SUFFICES ASSUME NEW s \in Seq(S), Len(s) = n + 1 PROVE s \in T
    OBVIOUS
  <2>1. s # <<>>
    OBVIOUS
  <2>2. PICK t \in Seq(S), x \in S : s = Append(t, x)
    BY <2>1, SequenceEmptyOrAppend
  <2>3. Len(t) = n
    BY <2>2
  <2>4. t \in T
    BY <1>2, <2>3
  <2> QED
    BY <2>2, <2>4
<1>3. \A n \in Nat : n \in N
  <2> HIDE DEF N
  <2> QED
    BY <1>1, <1>2, AllNumbers
<1> QED
  <2>1. \A s \in Seq(S) : Len(s) \in Nat
    OBVIOUS
  <2> QED
    BY <1>3, <2>1

-----------------------------------------------------------------------------
(***************************************************************************)
(* FlattenSeq                                                              *)
(***************************************************************************)
\* f[i] is what the first i elements of s make, as FlattenSeq defines it.
IsFlat(f, s, n) == f = [i \in 1..n |-> IF i = 1 THEN s[i] ELSE f[i - 1] \o s[i]]

\* There is such a function.
LEMMA FlatExists ==
  ASSUME NEW s
  PROVE  \A n \in Nat : \E f : IsFlat(f, s, n)
<1> DEFINE T == {n \in Nat : \E f : IsFlat(f, s, n)}
<1>1. 0 \in T
  <2>1. IsFlat([i \in 1..0 |-> 0], s, 0)
    BY DEF IsFlat
  <2> QED
    BY <2>1
<1>2. ASSUME NEW n \in Nat, n \in T PROVE n + 1 \in T
  <2>1. PICK f : IsFlat(f, s, n)
    BY <1>2
  <2> DEFINE g == [i \in 1..(n + 1) |-> IF i = 1 THEN s[i] ELSE f[i - 1] \o s[i]]
  <2>2. ASSUME NEW i \in 1..n PROVE g[i] = f[i]
    <3>1. i \in 1..(n + 1)
      OBVIOUS
    <3>2. f[i] = IF i = 1 THEN s[i] ELSE f[i - 1] \o s[i]
      BY <2>1 DEF IsFlat
    <3> QED
      BY <3>1, <3>2
  <2>3. ASSUME NEW i \in 1..(n + 1) PROVE g[i] = IF i = 1 THEN s[i] ELSE g[i - 1] \o s[i]
    <3>1. i # 1 => i - 1 \in 1..n
      OBVIOUS
    <3>2. i # 1 => g[i - 1] = f[i - 1]
      BY <2>2, <3>1
    <3>3. g[i] = IF i = 1 THEN s[i] ELSE f[i - 1] \o s[i]
      OBVIOUS
    <3> HIDE DEF g
    <3> QED
      BY <3>2, <3>3
  <2>4. g = [i \in 1..(n + 1) |-> g[i]]
    OBVIOUS
  <2> HIDE DEF g
  <2>5. g = [i \in 1..(n + 1) |-> IF i = 1 THEN s[i] ELSE g[i - 1] \o s[i]]
    BY <2>3, <2>4
  <2>6. IsFlat(g, s, n + 1)
    BY <2>5 DEF IsFlat
  <2> QED
    BY <2>6
<1> QED
  <2> HIDE DEF T
  <2>1. \A n \in Nat : n \in T
    BY <1>1, <1>2, AllNumbers
  <2> QED
    BY <2>1 DEF T

\* And FlattenSeq is its last value.
LEMMA FlatIs ==
  ASSUME NEW s, Len(s) \in Nat \ {0}
  PROVE  \E f : IsFlat(f, s, Len(s)) /\ FlattenSeq(s) = f[Len(s)]
<1> DEFINE f == CHOOSE g : IsFlat(g, s, Len(s))
<1>1. IsFlat(f, s, Len(s))
  BY FlatExists
<1>2. FlattenSeq(s) = f[Len(s)]
  BY DEF FlattenSeq, IsFlat
<1> QED
  BY <1>1, <1>2

\* What the first elements make does not depend on those behind them.
LEMMA FlatAgrees ==
  ASSUME NEW s, NEW t, NEW f, NEW g, NEW m \in Nat, NEW n \in Nat, n <= m,
         IsFlat(f, s, n), IsFlat(g, t, m), \A i \in 1..n : s[i] = t[i]
  PROVE  \A i \in 1..n : f[i] = g[i]
<1> DEFINE T == {k \in Nat : k + 1 \in 1..n => f[k + 1] = g[k + 1]}
<1>1. \A i \in 1..n : /\ f[i] = IF i = 1 THEN s[i] ELSE f[i - 1] \o s[i]
                      /\ g[i] = IF i = 1 THEN s[i] ELSE g[i - 1] \o s[i]
  <2>1. \A i \in 1..n : f[i] = IF i = 1 THEN s[i] ELSE f[i - 1] \o s[i]
    BY DEF IsFlat
  <2>2. \A i \in 1..m : g[i] = IF i = 1 THEN t[i] ELSE g[i - 1] \o t[i]
    BY DEF IsFlat
  <2>3. \A i \in 1..n : i \in 1..m /\ t[i] = s[i]
    OBVIOUS
  <2> QED
    BY <2>1, <2>2, <2>3
<1>2. 0 \in T
  BY <1>1
<1>3. ASSUME NEW k \in Nat, k \in T PROVE k + 1 \in T
  <2> SUFFICES ASSUME (k + 1) + 1 \in 1..n PROVE f[(k + 1) + 1] = g[(k + 1) + 1]
    OBVIOUS
  <2>1. f[k + 1] = g[k + 1]
    BY <1>3
  <2>2. (k + 1) + 1 # 1 /\ ((k + 1) + 1) - 1 = k + 1
    OBVIOUS
  <2> QED
    BY <1>1, <2>1, <2>2
<1>4. \A k \in Nat : k \in T
  <2> HIDE DEF T
  <2> QED
    BY <1>2, <1>3, AllNumbers
<1> SUFFICES ASSUME NEW i \in 1..n PROVE f[i] = g[i]
  OBVIOUS
<1>5. i - 1 \in Nat /\ (i - 1) + 1 = i
  OBVIOUS
<1> QED
  BY <1>4, <1>5

\* Nothing makes nothing.
LEMMA FlatEmpty == FlattenSeq(<<>>) = <<>>
BY DEF FlattenSeq

\* One element makes itself, and one more comes behind what is there.
LEMMA FlatStep ==
  ASSUME NEW S, NEW s \in Seq(Seq(S)), NEW x \in Seq(S)
  PROVE  FlattenSeq(Append(s, x)) = IF s = <<>> THEN x ELSE FlattenSeq(s) \o x
<1> DEFINE t == Append(s, x)
           n == Len(s)
<1>1. /\ n \in Nat /\ Len(t) = n + 1 /\ t[n + 1] = x
      /\ \A i \in 1..n : s[i] = t[i]
  OBVIOUS
<1>2. PICK g : IsFlat(g, t, n + 1) /\ FlattenSeq(t) = g[n + 1]
  <2> HIDE DEF t, n
  <2> QED
    BY <1>1, FlatIs
<1>3. g[n + 1] = IF n + 1 = 1 THEN x ELSE g[n] \o x
  <2> HIDE DEF t, n
  <2>1. n + 1 \in 1..(n + 1) /\ (n + 1) - 1 = n
    BY <1>1
  <2>2. g[n + 1] = IF n + 1 = 1 THEN t[n + 1] ELSE g[(n + 1) - 1] \o t[n + 1]
    BY <1>2, <2>1 DEF IsFlat
  <2> QED
    BY <1>1, <2>1, <2>2
<1>4. CASE s = <<>>
  BY <1>2, <1>3, <1>4
<1>5. CASE s # <<>>
  <2>1. n # 0
    BY <1>5
  <2> HIDE DEF t
  <2>2. PICK f : IsFlat(f, s, n) /\ FlattenSeq(s) = f[n]
    BY <2>1, <1>1, FlatIs
  <2> HIDE DEF n
  <2>3. n \in 1..n /\ n <= n + 1
    BY <1>1, <2>1
  <2>4. f[n] = g[n]
    BY <1>1, <1>2, <2>2, <2>3, FlatAgrees
  <2>5. FlattenSeq(t) = FlattenSeq(s) \o x
    BY <1>1, <1>2, <1>3, <2>1, <2>2, <2>4
  <2> QED
    BY <1>5, <2>5 DEF t
<1> QED
  BY <1>4, <1>5

\* Sequences over S make a sequence over S.
LEMMA FlatType ==
  ASSUME NEW S
  PROVE  \A s \in Seq(Seq(S)) : FlattenSeq(s) \in Seq(S)
<1> DEFINE T == {s \in Seq(Seq(S)) : FlattenSeq(s) \in Seq(S)}
<1>1. <<>> \in T
  <2>1. <<>> \in Seq(Seq(S)) /\ <<>> \in Seq(S)
    OBVIOUS
  <2> QED
    BY <2>1, FlatEmpty
<1>2. ASSUME NEW s \in Seq(Seq(S)), s \in T, NEW x \in Seq(S) PROVE Append(s, x) \in T
  <2>1. FlattenSeq(Append(s, x)) = IF s = <<>> THEN x ELSE FlattenSeq(s) \o x
    BY FlatStep
  <2>2. Append(s, x) \in Seq(Seq(S))
    OBVIOUS
  <2>3. FlattenSeq(s) \in Seq(S) /\ FlattenSeq(s) \o x \in Seq(S)
    BY <1>2
  <2> QED
    BY <2>1, <2>2, <2>3
<1> QED
  <2> HIDE DEF T
  <2>1. \A s \in Seq(Seq(S)) : s \in T
    BY <1>1, <1>2, AllSequences
  <2> QED
    BY <2>1 DEF T

\* One more comes behind what is there.
LEMMA FlatAppend ==
  ASSUME NEW S, NEW s \in Seq(Seq(S)), NEW x \in Seq(S)
  PROVE  FlattenSeq(Append(s, x)) = FlattenSeq(s) \o x
<1>1. s = <<>> => FlattenSeq(s) \o x = x
  BY FlatEmpty
<1> QED
  BY <1>1, FlatStep

\* FlattenSeq of a concatenation.
LEMMA FlatConcat ==
  ASSUME NEW S, NEW s \in Seq(Seq(S))
  PROVE  \A t \in Seq(Seq(S)) : FlattenSeq(s \o t) = FlattenSeq(s) \o FlattenSeq(t)
<1> DEFINE T == {t \in Seq(Seq(S)) : FlattenSeq(s \o t) = FlattenSeq(s) \o FlattenSeq(t)}
<1>1. <<>> \in T
  <2>1. s \o <<>> = s /\ FlattenSeq(s) \in Seq(S)
    BY FlatType
  <2> QED
    BY <2>1, FlatEmpty
<1>2. ASSUME NEW t \in Seq(Seq(S)), t \in T, NEW x \in Seq(S) PROVE Append(t, x) \in T
  <2>1. s \o Append(t, x) = Append(s \o t, x) /\ s \o t \in Seq(Seq(S))
    OBVIOUS
  <2>2. /\ FlattenSeq(Append(s \o t, x)) = FlattenSeq(s \o t) \o x
        /\ FlattenSeq(Append(t, x)) = FlattenSeq(t) \o x
    BY <2>1, FlatAppend
  <2>3. FlattenSeq(s) \in Seq(S) /\ FlattenSeq(t) \in Seq(S)
    BY FlatType
  <2>4. (FlattenSeq(s) \o FlattenSeq(t)) \o x = FlattenSeq(s) \o (FlattenSeq(t) \o x)
    BY <2>3, ConcatAssociative
  <2>5. Append(t, x) \in Seq(Seq(S)) /\ FlattenSeq(s \o t) = FlattenSeq(s) \o FlattenSeq(t)
    BY <1>2
  <2>6. FlattenSeq(s \o Append(t, x)) = FlattenSeq(s) \o FlattenSeq(Append(t, x))
    BY ONLY <2>1, <2>2, <2>4, <2>5
  <2> QED
    BY <2>5, <2>6
<1> QED
  <2> HIDE DEF T
  <2>1. \A t \in Seq(Seq(S)) : t \in T
    BY <1>1, <1>2, AllSequences
  <2> QED
    BY <2>1 DEF T

\* What a body is made of.
Unit == {"line", "drop", "lost", "prefix", "name", "gzip"} \X Nat \X Nat

\* The bytes of a line or of a report, and the rest.
TextUnit == {u \in Unit : IsText(u)}
HeaderUnit == {u \in Unit : IsHeaderUnit(u)}

\* A formatter that readers may have.
Formatter == [header : Seq(HeaderUnit), text : Seq(TextUnit) \ {<<>>}]

\* What formatters put out, read to the end, and the text of it.
Outputs(fs) == [i \in DOMAIN fs |-> fs[i].header \o fs[i].text]
Output(fs) == FlattenSeq(Outputs(fs))
Texts(fs) == [i \in DOMAIN fs |-> fs[i].text]

\* What is left to be read.
Rest ==
  IF readers = <<>> THEN <<>> ELSE
    SubSeq(Head(readers).header, headerPos + 1, Len(Head(readers).header)) \o
    (SubSeq(Head(readers).text, msgPos + 1, Len(Head(readers).text)) \o
     Output(Tail(readers)))

\* Min, of two.
LEMMA MinOfTwo ==
  ASSUME NEW a \in Int, NEW b \in Int
  PROVE  Min({a, b}) = IF a <= b THEN a ELSE b
<1> DEFINE P(x) == x \in {a, b} /\ \A y \in {a, b} : x <= y
<1>1. \E x : P(x)
  <2>1. P(a) \/ P(b)
    OBVIOUS
  <2> QED
    BY <2>1
<1>2. P(CHOOSE x : P(x))
  BY <1>1
<1>3. Min({a, b}) = CHOOSE x : P(x)
  BY DEF Min
<1> QED
  BY <1>2, <1>3

\* A sequence is what comes first and then the rest.
LEMMA SeqFirst ==
  ASSUME NEW S, NEW x \in S, NEW s \in Seq(S), NEW t \in Seq(S), Len(t) = Len(s) + 1,
         t[1] = x, \A i \in 1..Len(s) : t[i + 1] = s[i]
  PROVE  t = <<x>> \o s
<1>1. <<x>> \in Seq(S) /\ Len(<<x>>) = 1
  OBVIOUS
<1>2. ASSUME NEW i \in 1..Len(t) PROVE t[i] = (<<x>> \o s)[i]
  <2>1. CASE i = 1
    BY <2>1
  <2>2. CASE i # 1
    <3>1. i - 1 \in 1..Len(s) /\ (i - 1) + 1 = i
      BY <2>2
    <3>2. (<<x>> \o s)[i] = s[i - 1]
      BY <2>2, <3>1
    <3> QED
      BY <3>1, <3>2
  <2> QED
    BY <2>1, <2>2
<1>3. <<x>> \o s \in Seq(S) /\ Len(<<x>> \o s) = Len(t)
  BY <1>1
<1> QED
  BY <1>2, <1>3, SeqEqual

\* What a formatter puts out.
LEMMA FormatterType ==
  ASSUME NEW f \in Formatter
  PROVE  /\ f.header \in Seq(Unit) /\ f.text \in Seq(Unit) /\ Len(f.text) > 0
         /\ f.header \o f.text \in Seq(Unit)
<1>1. f.header \in Seq(HeaderUnit) /\ f.text \in Seq(TextUnit) /\ f.text # <<>>
  BY DEF Formatter
<1>2. HeaderUnit \subseteq Unit /\ TextUnit \subseteq Unit
  BY DEF HeaderUnit, TextUnit
<1>3. f.header \in Seq(Unit) /\ f.text \in Seq(Unit)
  BY <1>1, <1>2, SeqMonotonic
<1> QED
  BY <1>1, <1>3

\* The outputs are sequences of units.
LEMMA OutputsType ==
  ASSUME NEW fs \in Seq(Formatter)
  PROVE  /\ Outputs(fs) \in Seq(Seq(Unit)) /\ Len(Outputs(fs)) = Len(fs)
         /\ \A i \in 1..Len(fs) : Outputs(fs)[i] = fs[i].header \o fs[i].text
         /\ Output(fs) \in Seq(Unit)
<1>1. \A i \in 1..Len(fs) : fs[i].header \o fs[i].text \in Seq(Unit)
  BY FormatterType
<1>2. Outputs(fs) = [i \in 1..Len(fs) |-> fs[i].header \o fs[i].text]
  BY DEF Outputs
<1>3. Outputs(fs) \in Seq(Seq(Unit)) /\ Len(Outputs(fs)) = Len(fs)
  BY <1>1, <1>2
<1>4. \A i \in 1..Len(fs) : Outputs(fs)[i] = fs[i].header \o fs[i].text
  BY <1>2
<1> QED
  BY <1>3, <1>4, FlatType DEF Output

\* Output of a formatter in front of others.
LEMMA OutputFirst ==
  ASSUME NEW fs \in Seq(Formatter), fs # <<>>
  PROVE  Output(fs) = Head(fs).header \o (Head(fs).text \o Output(Tail(fs)))
<1> DEFINE f == Head(fs)
           t == Tail(fs)
<1>1. f \in Formatter /\ t \in Seq(Formatter) /\ Len(fs) = Len(t) + 1 /\ fs[1] = f
      /\ \A i \in 1..Len(t) : fs[i + 1] = t[i]
  OBVIOUS
<1> HIDE DEF f, t
<1> DEFINE o == f.header \o f.text
<1>2. /\ o \in Seq(Unit) /\ f.header \in Seq(Unit) /\ f.text \in Seq(Unit)
      /\ <<o>> \in Seq(Seq(Unit)) /\ <<>> \in Seq(Seq(Unit)) /\ <<o>> = Append(<<>>, o)
      /\ Outputs(t) \in Seq(Seq(Unit)) /\ Outputs(fs) \in Seq(Seq(Unit)) /\ Output(t) \in Seq(Unit)
      /\ Len(Outputs(t)) = Len(t) /\ Len(Outputs(fs)) = Len(fs)
  <2>1. o \in Seq(Unit) /\ f.header \in Seq(Unit) /\ f.text \in Seq(Unit)
    BY <1>1, FormatterType
  <2>2. /\ Outputs(t) \in Seq(Seq(Unit)) /\ Outputs(fs) \in Seq(Seq(Unit)) /\ Output(t) \in Seq(Unit)
        /\ Len(Outputs(t)) = Len(t) /\ Len(Outputs(fs)) = Len(fs)
    BY <1>1, OutputsType
  <2> HIDE DEF o
  <2>3. <<o>> \in Seq(Seq(Unit)) /\ <<>> \in Seq(Seq(Unit)) /\ <<o>> = Append(<<>>, o)
    BY <2>1
  <2> QED
    BY <2>1, <2>2, <2>3
<1>3. Outputs(fs) = <<o>> \o Outputs(t)
  <2> DEFINE os == Outputs(fs)
             ot == Outputs(t)
  <2>1. \A i \in 1..Len(fs) : os[i] = fs[i].header \o fs[i].text
    BY OutputsType
  <2>2. \A i \in 1..Len(t) : ot[i] = t[i].header \o t[i].text
    BY <1>1, OutputsType
  <2> HIDE DEF os, ot
  <2>3. os[1] = o
    <3>1. 1 \in 1..Len(fs)
      BY <1>1
    <3> QED
      BY <1>1, <2>1, <3>1
  <2>4. ASSUME NEW i \in 1..Len(t) PROVE os[i + 1] = ot[i]
    <3>1. i + 1 \in 1..Len(fs)
      BY <1>1
    <3> QED
      BY <1>1, <2>1, <2>2, <3>1
  <2> HIDE DEF o
  <2>5. os \in Seq(Seq(Unit)) /\ ot \in Seq(Seq(Unit)) /\ Len(os) = Len(ot) + 1 /\ Len(ot) = Len(t) /\ o \in Seq(Unit)
    <3>1. Len(fs) = Len(t) + 1 /\ os \in Seq(Seq(Unit)) /\ ot \in Seq(Seq(Unit)) /\ Len(ot) = Len(t) /\ Len(os) = Len(fs)
      BY <1>1, <1>2 DEF os, ot
    <3>2. o \in Seq(Unit)
      BY <1>2
    <3> QED
      BY ONLY <3>1, <3>2
  <2>6. os = <<o>> \o ot
    <3> DEFINE Q == Seq(Unit)
    <3>1. o \in Q /\ os \in Seq(Q) /\ ot \in Seq(Q) /\ Len(os) = Len(ot) + 1
      BY <2>5
    <3>2. \A i \in 1..Len(ot) : os[i + 1] = ot[i]
      BY <2>4, <2>5
    <3> HIDE DEF Q
    <3> QED
      BY <2>3, <3>1, <3>2, SeqFirst
  <2> QED
    BY <2>6 DEF os, ot
<1> HIDE DEF o
<1>4. FlattenSeq(<<o>> \o Outputs(t)) = FlattenSeq(<<o>>) \o FlattenSeq(Outputs(t))
  BY <1>2, FlatConcat
<1>5. FlattenSeq(<<o>>) = o
  <2>1. FlattenSeq(Append(<<>>, o)) = o
    BY <1>2, FlatStep
  <2> QED
    BY <1>2, <2>1
<1>6. Output(fs) = o \o Output(t)
  BY <1>3, <1>4, <1>5 DEF Output
<1>7. o \o Output(t) = f.header \o (f.text \o Output(t))
  <2> DEFINE h == f.header
             x == f.text
             r == Output(t)
  <2>1. h \in Seq(Unit) /\ x \in Seq(Unit) /\ r \in Seq(Unit)
    BY <1>2
  <2> HIDE DEF h, x, r
  <2>2. (h \o x) \o r = h \o (x \o r)
    BY <2>1, ConcatAssociative
  <2> QED
    BY <2>2 DEF o, h, x, r
<1> QED
  BY <1>6, <1>7 DEF f, t

-----------------------------------------------------------------------------
\* The parts of the body on both sides of a position.
LEMMA SubSeqSplit ==
  ASSUME NEW S, NEW s \in Seq(S), NEW a \in Nat, NEW b \in Nat, a + b <= Len(s)
  PROVE  /\ SubSeq(s, a + 1, a + b) \in Seq(S)
         /\ SubSeq(s, a + b + 1, Len(s)) \in Seq(S)
         /\ SubSeq(s, a + 1, Len(s)) = SubSeq(s, a + 1, a + b) \o SubSeq(s, a + b + 1, Len(s))
<1>1. SubSeq(s, a + 1, a + b) \in Seq(S) /\ SubSeq(s, a + b + 1, Len(s)) \in Seq(S)
  OBVIOUS
<1>2. a + 1 \in 1..(Len(s) + 1) /\ a + b \in ((a + 1) - 1)..Len(s) /\ Len(s) \in (a + b)..Len(s)
  OBVIOUS
<1> QED
  BY <1>1, <1>2, ConcatAdjacentSubSeq

\* What is behind a part is what one has from its length on.
LEMMA SubSeqAdded ==
  ASSUME NEW S, NEW s \in Seq(S), NEW t \in Seq(S)
  PROVE  SubSeq(s \o t, Len(s) + 1, Len(s \o t)) = t
OBVIOUS

\* What NewFormatter makes of reports and lines.
Errors(rs) == [i \in DOMAIN rs |-> ErrorFormatter(rs[i])]
LineFormatters(ls) == [i \in DOMAIN ls |-> SubFormatters(LineText(i, ls[i]))]
Formatters(rs, ls) == Errors(rs) \o FlattenSeq(LineFormatters(ls))

\* What the configuration is.
ConfigOK ==
  /\ format \in Formats
  /\ maxLine \in Nat \ {0}
  /\ names \in Nat \ {0}
  /\ headerSize \in Nat \ {0}

\* As many pieces as needed, and no more.
LEMMA PieceBounds ==
  ASSUME NEW m \in Nat \ {0}, NEW n \in Nat \ {0}
  PROVE  LET c == (n + m - 1) \div m
         IN  c \in Nat \ {0} /\ (c - 1) * m < n /\ n <= c * m
<1> DEFINE a == n + m - 1
           c == a \div m
<1>1. a \in Nat /\ a >= m
  OBVIOUS
<1> HIDE DEF a
<1>2. c \in Int /\ a = m * c + (a % m) /\ a % m \in 0..(m - 1)
  BY <1>1
<1> HIDE DEF c
<1>3. (c - 1) * m = m * c - m /\ c * m = m * c
  BY <1>2
<1> DEFINE p == m * c
           r == a % m
<1>4. p \in Int /\ r \in 0..(m - 1) /\ a = p + r
  BY <1>2
<1>5. c >= 1
  <2>1. p > 0
    <3> HIDE DEF p, r
    <3> QED
      BY <1>1, <1>4
  <2>2. c <= 0 => m * c <= 0
    BY <1>2
  <2> QED
    BY <1>2, <2>1, <2>2
<1> HIDE DEF p, r
<1>6. p - m < n /\ n <= p
  BY <1>4 DEF a
<1>7. c \in Nat \ {0} /\ (c - 1) * m < n /\ n <= c * m
  BY <1>2, <1>3, <1>5, <1>6 DEF p
<1> QED
  BY <1>7 DEF a, c

\* The units there are.
LEMMA UnitKinds ==
  ASSUME NEW s \in {"line", "drop", "lost", "prefix", "name", "gzip"}, NEW a \in Nat, NEW b \in Nat
  PROVE  /\ <<s, a, b>> \in Unit
         /\ s \in {"line", "drop", "lost"} => <<s, a, b>> \in TextUnit
         /\ s \in {"prefix", "name"} => <<s, a, b>> \in HeaderUnit
<1>2. <<s, a, b>> \in Unit
  BY DEF Unit
<1>3. <<s, a, b>>[1] = s
  OBVIOUS
<1>4. s \in {"line", "drop", "lost"} => s # "prefix" /\ s # "name"
  OBVIOUS
<1>5. IsHeaderUnit(<<s, a, b>>) <=> s \in {"prefix", "name"}
  BY <1>3 DEF IsHeaderUnit
<1> HIDE DEF IsHeaderUnit
<1> QED
  BY <1>2, <1>4, <1>5 DEF TextUnit, HeaderUnit, IsText

\* The bytes of a line.
LEMMA LineTextType ==
  ASSUME NEW i \in Nat, NEW n \in Nat \ {0}
  PROVE  LineText(i, n) \in Seq(TextUnit) \ {<<>>} /\ Len(LineText(i, n)) = n
<1>1. \A k \in 1..n : <<"line", i, k>> \in TextUnit
  BY UnitKinds
<1>2. LineText(i, n) \in Seq(TextUnit) /\ Len(LineText(i, n)) = n
  BY <1>1 DEF LineText
<1>3. LineText(i, n) # <<>>
  BY <1>2
<1> QED
  BY <1>2, <1>3

\* The formatter of a report.
LEMMA ErrorType ==
  ASSUME NEW e \in {"drop", "lost"}
  PROVE  /\ ErrorFormatter(e) \in Formatter
         /\ ErrorFormatter(e).header = <<Prefix(ReportLength)>>
         /\ ErrorFormatter(e).text = ReportText(e)
         /\ ReportText(e) \in Seq(TextUnit) \ {<<>>} /\ Len(ReportText(e)) = ReportLength
<1>1. \A k \in 1..ReportLength : <<e, 0, k>> \in TextUnit
  BY UnitKinds DEF ReportLength
<1>2. ReportText(e) \in Seq(TextUnit) /\ Len(ReportText(e)) = ReportLength /\ ReportLength = 2
  BY <1>1 DEF ReportText, ReportLength
<1>3. ReportText(e) # <<>>
  BY <1>2
<1>4. Prefix(ReportLength) \in HeaderUnit
  BY UnitKinds DEF Prefix, ReportLength
<1>5. <<Prefix(ReportLength)>> \in Seq(HeaderUnit)
  BY <1>4
<1> QED
  BY <1>2, <1>3, <1>5 DEF ErrorFormatter, Formatter

\* The formatter of a line.
LEMMA LineFormatterType ==
  ASSUME ConfigOK, NEW t \in Seq(TextUnit) \ {<<>>}
  PROVE  LineFormatter(t) \in Formatter
<1>1. Len(t) \in Nat
  OBVIOUS
<1>2. Prefix(Len(t) + headerSize) \in HeaderUnit /\ Prefix(Len(t)) \in HeaderUnit
  <2>1. Len(t) + headerSize \in Nat
    BY <1>1 DEF ConfigOK
  <2> QED
    BY <1>1, <2>1, UnitKinds DEF Prefix
<1>3. <<Prefix(Len(t) + headerSize)>> \in Seq(HeaderUnit) /\ <<Prefix(Len(t))>> \in Seq(HeaderUnit)
      /\ <<>> \in Seq(HeaderUnit)
  BY <1>2
<1>4. SyslogHeader \in Seq(HeaderUnit)
  <2>1. \A k \in 1..names : <<"name", 0, k>> \in HeaderUnit
    BY UnitKinds DEF ConfigOK
  <2> QED
    BY <2>1 DEF SyslogHeader, ConfigOK
<1>5. <<Prefix(Len(t) + headerSize)>> \o SyslogHeader \in Seq(HeaderUnit)
  BY <1>3, <1>4
<1>6. LineHeader(t) \in Seq(HeaderUnit)
  BY <1>3, <1>5 DEF LineHeader, ConfigOK, Formats
<1> QED
  BY <1>6 DEF LineFormatter, Formatter

\* The pieces of a line.
LEMMA PieceType ==
  ASSUME ConfigOK, NEW t \in Seq(TextUnit) \ {<<>>}, NEW j \in 1..PieceCount(Len(t))
  PROVE  /\ SubSeq(t, (j - 1) * maxLine + 1, Min({j * maxLine, Len(t)})) \in Seq(TextUnit) \ {<<>>}
         /\ Len(SubSeq(t, (j - 1) * maxLine + 1, Min({j * maxLine, Len(t)}))) <= maxLine
<1> DEFINE n == Len(t)
           m == maxLine
           c == PieceCount(n)
           a == (j - 1) * m
           b == j * m
           e == Min({b, n})
<1>1. n \in Nat \ {0} /\ m \in Nat \ {0}
  BY DEF ConfigOK
<1>2. c \in Nat \ {0} /\ (c - 1) * m < n /\ n <= c * m
  <2> HIDE DEF n
  <2> QED
    BY <1>1, PieceBounds DEF PieceCount
<1> HIDE DEF c
<1>3. j \in Nat \ {0} /\ j <= c
  BY <1>2 DEF c
<1>4. a \in Nat /\ b = a + m /\ a <= (c - 1) * m
  BY <1>1, <1>2, <1>3
<1> HIDE DEF a, b
<1>5. a < n
  <2> DEFINE d == (c - 1) * m
  <2>1. d \in Int /\ a <= d /\ d < n
    BY <1>1, <1>2, <1>4
  <2> HIDE DEF d, n
  <2> QED
    BY <1>1, <1>4, <2>1
<1>6. e = IF b <= n THEN b ELSE n
  <2> HIDE DEF n
  <2> QED
    BY <1>1, <1>4, MinOfTwo
<1> HIDE DEF e
<1>7. e \in Nat /\ a < e /\ e <= n /\ e <= a + m
  <2> HIDE DEF n, m
  <2> QED
    BY <1>1, <1>4, <1>5, <1>6
<1>8. SubSeq(t, a + 1, e) \in Seq(TextUnit) /\ Len(SubSeq(t, a + 1, e)) = e - a
  BY <1>4, <1>7
<1>9. SubSeq(t, a + 1, e) # <<>> /\ Len(SubSeq(t, a + 1, e)) <= m
  <2> HIDE DEF m, n
  <2> QED
    BY <1>1, <1>4, <1>7, <1>8
<1> QED
  BY <1>8, <1>9 DEF a, b, e

\* What becomes of a line.
LEMMA SubFormattersType ==
  ASSUME ConfigOK, NEW t \in Seq(TextUnit) \ {<<>>}
  PROVE  /\ SubFormatters(t) \in Seq(Formatter)
         /\ ~Splits(t) => SubFormatters(t) = <<LineFormatter(t)>>
         /\ Splits(t) => /\ Len(SubFormatters(t)) = PieceCount(Len(t))
                         /\ \A j \in 1..PieceCount(Len(t)) :
                              SubFormatters(t)[j] =
                              LineFormatter(SubSeq(t, (j - 1) * maxLine + 1, Min({j * maxLine, Len(t)})))
<1>1. CASE ~Splits(t)
  <2>1. SubFormatters(t) = [j \in DOMAIN <<t>> |-> LineFormatter(<<t>>[j])]
    BY <1>1 DEF SubFormatters
  <2>2. SubFormatters(t) = <<LineFormatter(t)>>
    BY <2>1
  <2>3. LineFormatter(t) \in Formatter
    BY LineFormatterType
  <2> QED
    BY <1>1, <2>2, <2>3
<1>2. CASE Splits(t)
  <2> DEFINE c == PieceCount(Len(t))
             p(j) == SubSeq(t, (j - 1) * maxLine + 1, Min({j * maxLine, Len(t)}))
  <2>1. c \in Nat
    <3>1. Len(t) \in Nat \ {0} /\ maxLine \in Nat \ {0}
      BY DEF ConfigOK
    <3> QED
      BY <3>1, PieceBounds DEF PieceCount
  <2>2. Pieces(t) = [j \in 1..c |-> p(j)]
    BY DEF Pieces
  <2>3. \A j \in 1..c : p(j) \in Seq(TextUnit) \ {<<>>}
    BY PieceType
  <2>4. SubFormatters(t) = [j \in DOMAIN Pieces(t) |-> LineFormatter(Pieces(t)[j])]
    BY <1>2 DEF SubFormatters
  <2> HIDE DEF p, c
  <2>5. SubFormatters(t) = [j \in 1..c |-> LineFormatter(p(j))]
    BY <2>2, <2>4
  <2>6. \A j \in 1..c : LineFormatter(p(j)) \in Formatter
    BY <2>3, LineFormatterType
  <2>7. SubFormatters(t) \in Seq(Formatter) /\ Len(SubFormatters(t)) = c
        /\ \A j \in 1..c : SubFormatters(t)[j] = LineFormatter(p(j))
    BY <2>1, <2>5, <2>6
  <2> QED
    BY <1>2, <2>7 DEF p, c
<1> QED
  BY <1>1, <1>2

\* The parts of what NewFormatter makes.
LEMMA FormattersType ==
  ASSUME ConfigOK, NEW rs \in EData, NEW ls \in Seq(Nat \ {0})
  PROVE  /\ rs \in Seq({"drop", "lost"})
         /\ Errors(rs) \in Seq(Formatter) /\ Len(Errors(rs)) = Len(rs)
         /\ \A i \in 1..Len(rs) : Errors(rs)[i] = ErrorFormatter(rs[i])
         /\ LineFormatters(ls) \in Seq(Seq(Formatter)) /\ Len(LineFormatters(ls)) = Len(ls)
         /\ \A i \in 1..Len(ls) : LineFormatters(ls)[i] = SubFormatters(LineText(i, ls[i]))
         /\ FlattenSeq(LineFormatters(ls)) \in Seq(Formatter)
         /\ Formatters(rs, ls) \in Seq(Formatter)
<1>1. rs \in Seq({"drop", "lost"})
  <2> DEFINE R == {"drop", "lost"}
  <2>1. "drop" \in R /\ "lost" \in R
    OBVIOUS
  <2> HIDE DEF R
  <2>2. <<>> \in Seq(R) /\ <<"drop">> \in Seq(R) /\ <<"lost">> \in Seq(R) /\ <<"drop", "lost">> \in Seq(R)
    BY <2>1
  <2>3. rs \in Seq(R)
    BY <2>2 DEF EData
  <2> QED
    BY <2>3 DEF R
<1>2. Errors(rs) = [i \in 1..Len(rs) |-> ErrorFormatter(rs[i])]
  BY <1>1 DEF Errors
<1>3. \A i \in 1..Len(rs) : ErrorFormatter(rs[i]) \in Formatter
  BY <1>1, ErrorType
<1>4. Len(rs) \in Nat
  BY <1>1
<1>5. Errors(rs) \in Seq(Formatter) /\ Len(Errors(rs)) = Len(rs)
      /\ \A i \in 1..Len(rs) : Errors(rs)[i] = ErrorFormatter(rs[i])
  BY <1>2, <1>3, <1>4
<1>6. LineFormatters(ls) = [i \in 1..Len(ls) |-> SubFormatters(LineText(i, ls[i]))]
  BY DEF LineFormatters
<1>7. \A i \in 1..Len(ls) : SubFormatters(LineText(i, ls[i])) \in Seq(Formatter)
  <2> TAKE i \in 1..Len(ls)
  <2>1. i \in Nat /\ ls[i] \in Nat \ {0}
    OBVIOUS
  <2>2. LineText(i, ls[i]) \in Seq(TextUnit) \ {<<>>}
    BY <2>1, LineTextType
  <2> QED
    BY <2>2, SubFormattersType
<1>8. LineFormatters(ls) \in Seq(Seq(Formatter)) /\ Len(LineFormatters(ls)) = Len(ls)
      /\ \A i \in 1..Len(ls) : LineFormatters(ls)[i] = SubFormatters(LineText(i, ls[i]))
  <2>1. Len(ls) \in Nat
    OBVIOUS
  <2> QED
    BY <1>6, <1>7, <2>1
<1>9. FlattenSeq(LineFormatters(ls)) \in Seq(Formatter)
  BY <1>8, FlatType
<1>10. Formatters(rs, ls) \in Seq(Formatter)
  BY <1>5, <1>9 DEF Formatters
<1> QED
  BY <1>1, <1>5, <1>8, <1>9, <1>10

\* They depend on the configuration and on nothing else.
LEMMA FormattersSame ==
  ASSUME UNCHANGED <<format, maxLine, names, headerSize>>, NEW rs, NEW ls
  PROVE  Formatters(rs, ls)' = Formatters(rs, ls)
<1>1. ASSUME NEW t PROVE LineFormatter(t)' = LineFormatter(t)
  <2>1. SyslogHeader' = SyslogHeader
    BY DEF SyslogHeader
  <2>2. LineHeader(t)' = LineHeader(t)
    BY <2>1 DEF LineHeader
  <2> QED
    BY <2>2 DEF LineFormatter
<1>2. ASSUME NEW t PROVE SubFormatters(t)' = SubFormatters(t)
  <2>1. PieceCount(Len(t))' = PieceCount(Len(t))
    BY DEF PieceCount
  <2>2. Pieces(t)' = Pieces(t)
    BY <2>1 DEF Pieces
  <2>3. Splits(t)' = Splits(t)
    BY DEF Splits
  <2> QED
    BY <1>1, <2>2, <2>3 DEF SubFormatters
<1>3. LineFormatters(ls)' = LineFormatters(ls)
  BY <1>2 DEF LineFormatters
<1> QED
  BY <1>3 DEF Formatters, Errors

-----------------------------------------------------------------------------
(***************************************************************************)
(* The formatter                                                           *)
(***************************************************************************)
\* All that the formatters put out, in their order.
Whole == Output(Formatters(reports, lines))

\* What is read and what is left are the whole.
LPInv ==
  /\ LPTypeOK
  /\ readers \in Seq(Formatter)
  /\ body \in Seq(Unit)
  /\ stage # "read" => body = <<>> /\ readers = <<>>
  /\ stage \in {"format", "read"} => headerSize = names
  /\ stage = "read" => /\ body \o Rest = Whole
                       /\ msgCount = Len(Formatters(reports, lines))

\* The types, taken together.
LEMMA LPInvTypes ==
  ASSUME LPInv
  PROVE  /\ ConfigOK
         /\ reports \in EData /\ lines \in Seq(Nat \ {0})
         /\ Formatters(reports, lines) \in Seq(Formatter)
         /\ Whole \in Seq(Unit)
<1>1. ConfigOK
  BY LogplexAssumption DEF LPInv, LPTypeOK, ConfigOK
<1>2. reports \in EData /\ lines \in Seq(Nat \ {0})
  <2>1. lines \in Seq(LineLengths) /\ LineLengths \subseteq Nat \ {0}
    BY LogplexAssumption DEF LPInv, LPTypeOK
  <2> QED
    BY <2>1, SeqMonotonic DEF LPInv, LPTypeOK
<1>3. Formatters(reports, lines) \in Seq(Formatter)
  BY <1>1, <1>2, FormattersType
<1> QED
  BY <1>1, <1>2, <1>3, OutputsType DEF Whole

\* There is a shortest syslog header.
LEMMA DefaultSizeType == DefaultSize \in HeaderSizes
<1>1. \E s \in HeaderSizes : \A t \in HeaderSizes : s <= t
  BY LogplexAssumption, SmallestNumber
<1> QED
  BY <1>1 DEF DefaultSize

\* The invariant holds at first.
LEMMA LPInvInit == LPInit => LPInv
<1> SUFFICES ASSUME LPInit PROVE LPInv
  OBVIOUS
<1>1. <<>> \in Seq(LineLengths) /\ <<>> \in Seq(Formatter) /\ <<>> \in Seq(Unit)
  OBVIOUS
<1>2. LPTypeOK
  BY <1>1, DefaultSizeType DEF LPInit, LPTypeOK, Formats, EData
<1> QED
  BY <1>1, <1>2 DEF LPInit, LPInv

\* What a list of formatters not begun has left.
LEMMA RestIs ==
  ASSUME NEW rs \in Seq(Formatter)
  PROVE  (IF rs = <<>> THEN <<>> ELSE
            SubSeq(Head(rs).header, 0 + 1, Len(Head(rs).header)) \o
            (SubSeq(Head(rs).text, 0 + 1, Len(Head(rs).text)) \o
             Output(Tail(rs)))) = Output(rs)
<1>1. CASE rs = <<>>
  <2>1. Outputs(<<>>) = <<>>
    BY DEF Outputs
  <2> QED
    BY <1>1, <2>1, FlatEmpty DEF Output
<1>2. CASE rs # <<>>
  <2> DEFINE g == Head(rs)
  <2>1. g \in Formatter /\ g.header \in Seq(Unit) /\ g.text \in Seq(Unit)
    BY <1>2, FormatterType
  <2>2. SubSeq(g.header, 0 + 1, Len(g.header)) = g.header /\ SubSeq(g.text, 0 + 1, Len(g.text)) = g.text
    BY <2>1, SubSeqFull
  <2> QED
    BY <1>2, <2>2, OutputFirst
<1> QED
  BY <1>1, <1>2

\* A Read of the body, of nothing but what is left.
LEMMA ReadStep ==
  ASSUME LPInv, NEW size \in Buffers, ReadBody(size)
  PROVE  LPInv' /\ \E x \in Seq(Unit) : body' = body \o x
<1> DEFINE f == Head(readers)
           hd == f.header
           tx == f.text
           r == Output(Tail(readers))
           h == Min({size, Len(hd) - headerPos})
           m == Min({size - h, Len(tx) - msgPos})
           x == SubSeq(hd, headerPos + 1, headerPos + h)
           y == SubSeq(tx, msgPos + 1, msgPos + m)
           hr == SubSeq(hd, headerPos + h + 1, Len(hd))
           tr == SubSeq(tx, msgPos + m + 1, Len(tx))
<1>1. /\ readers \in Seq(Formatter) /\ readers # <<>> /\ f = readers[1] /\ f \in Formatter
      /\ Tail(readers) \in Seq(Formatter) /\ body \in Seq(Unit) /\ stage = "read"
  BY DEF LPInv, ReadBody
<1>2. /\ hd \in Seq(Unit) /\ tx \in Seq(Unit) /\ Len(tx) > 0 /\ Len(tx) \in Nat /\ Len(hd) \in Nat
      /\ r \in Seq(Unit)
  <2>1. hd \in Seq(Unit) /\ tx \in Seq(Unit) /\ Len(tx) > 0
    BY <1>1, FormatterType
  <2>2. r \in Seq(Unit)
    BY <1>1, OutputsType
  <2> HIDE DEF hd, tx, r
  <2> QED
    BY <2>1, <2>2
<1>3. /\ headerPos \in 0..Len(hd) /\ msgPos \in 0..(Len(tx) - 1)
      /\ msgPos > 0 => headerPos = Len(hd)
  BY <1>1 DEF LPInv, LPTypeOK
<1>4. size \in Nat \ {0}
  BY LogplexAssumption
<1>5. /\ body' = body \o x \o y
      /\ \/ /\ msgPos + m = Len(tx)
            /\ readers' = Tail(readers) /\ headerPos' = 0 /\ msgPos' = 0
         \/ /\ msgPos + m < Len(tx)
            /\ headerPos' = headerPos + h /\ msgPos' = msgPos + m /\ readers' = readers
      /\ UNCHANGED <<stage, format, maxLine, names, headerSize, reports, lines, msgCount>>
  BY DEF ReadBody, configVars, batchVars
<1> HIDE DEF f, hd, tx, r
<1>6. h = (IF size <= Len(hd) - headerPos THEN size ELSE Len(hd) - headerPos) /\ h \in Nat
  BY <1>2, <1>3, <1>4, MinOfTwo
<1> HIDE DEF h
<1>7. h <= size /\ headerPos + h <= Len(hd) /\ (h < size => headerPos + h = Len(hd))
  BY <1>2, <1>3, <1>4, <1>6
<1>8. m = (IF size - h <= Len(tx) - msgPos THEN size - h ELSE Len(tx) - msgPos) /\ m \in Nat
  <2>1. size - h \in Nat /\ Len(tx) - msgPos \in Nat
    BY <1>2, <1>3, <1>4, <1>6, <1>7
  <2>2. m = IF size - h <= Len(tx) - msgPos THEN size - h ELSE Len(tx) - msgPos
    BY <2>1, MinOfTwo
  <2> HIDE DEF m
  <2> QED
    BY <2>1, <2>2
<1> HIDE DEF m
<1>9. msgPos + m <= Len(tx) /\ (m > 0 => headerPos + h = Len(hd))
  BY <1>2, <1>3, <1>4, <1>6, <1>7, <1>8
<1>10. /\ x \in Seq(Unit) /\ hr \in Seq(Unit) /\ SubSeq(hd, headerPos + 1, Len(hd)) = x \o hr
       /\ y \in Seq(Unit) /\ tr \in Seq(Unit) /\ SubSeq(tx, msgPos + 1, Len(tx)) = y \o tr
  <2>1. headerPos \in Nat /\ msgPos \in Nat
    BY <1>2, <1>3
  <2>2. x \in Seq(Unit) /\ hr \in Seq(Unit) /\ SubSeq(hd, headerPos + 1, Len(hd)) = x \o hr
    <3>1. hd \in Seq(Unit) /\ headerPos \in Nat /\ h \in Nat /\ headerPos + h <= Len(hd)
      BY <1>2, <1>6, <1>7, <2>1
    <3> QED
      BY ONLY <3>1, SubSeqSplit
  <2>3. y \in Seq(Unit) /\ tr \in Seq(Unit) /\ SubSeq(tx, msgPos + 1, Len(tx)) = y \o tr
    <3>1. tx \in Seq(Unit) /\ msgPos \in Nat /\ m \in Nat /\ msgPos + m <= Len(tx)
      BY <1>2, <1>8, <1>9, <2>1
    <3> QED
      BY ONLY <3>1, SubSeqSplit
  <2> HIDE DEF x, y, hr, tr
  <2> QED
    BY <2>2, <2>3
<1>11. m > 0 => hr = <<>>
  <2> SUFFICES ASSUME m > 0 PROVE hr = <<>>
    OBVIOUS
  <2>1. headerPos + h + 1 \in Int /\ Len(hd) \in Int /\ Len(hd) < headerPos + h + 1
    BY <1>2, <1>3, <1>6, <1>9
  <2> QED
    BY <2>1, SubSeqEmpty
<1>12. m = 0 => y = <<>>
  <2> SUFFICES ASSUME m = 0 PROVE y = <<>>
    OBVIOUS
  <2>1. msgPos + 1 \in Int /\ msgPos + m \in Int /\ msgPos + m < msgPos + 1
    BY <1>2, <1>3
  <2> QED
    BY <2>1, SubSeqEmpty
<1>13. Rest = SubSeq(hd, headerPos + 1, Len(hd)) \o (SubSeq(tx, msgPos + 1, Len(tx)) \o r)
  BY <1>1 DEF Rest, f, hd, tx, r
<1> HIDE DEF x, y, hr, tr
<1>14. x \in Seq(Unit) /\ y \in Seq(Unit) /\ hr \in Seq(Unit) /\ tr \in Seq(Unit) /\ r \in Seq(Unit) /\ body \in Seq(Unit)
  BY <1>1, <1>2, <1>10
<1> DEFINE z == hr \o (tr \o r)
           xy == x \o y
<1>15. /\ z \in Seq(Unit) /\ xy \in Seq(Unit)
       /\ body' = body \o xy
       /\ Rest = xy \o z
  <2>1. tr \o r \in Seq(Unit) /\ xy \in Seq(Unit)
    BY <1>14
  <2>2. z \in Seq(Unit)
    BY <1>14, <2>1
  <2>3. (body \o x) \o y = body \o (x \o y)
    BY <1>14, ConcatAssociative
  <2>4. hr = <<>> \/ y = <<>>
    BY <1>8, <1>11, <1>12
  <2>5. (x \o hr) \o ((y \o tr) \o r) = xy \o z
    <3> DEFINE v == tr \o r
    <3>1. v \in Seq(Unit) /\ (y \o tr) \o r = y \o v
      <4>1. y \in Seq(Unit) /\ tr \in Seq(Unit) /\ r \in Seq(Unit)
        BY <1>14
      <4> QED
        BY ONLY <4>1, ConcatAssociative
    <3>2. z = hr \o v
      OBVIOUS
    <3> HIDE DEF v, z
    <3>3. CASE hr = <<>>
      <4>1. x \in Seq(Unit) /\ y \in Seq(Unit) /\ v \in Seq(Unit)
        BY <1>14, <3>1
      <4>2. x \o hr = x /\ hr \o v = v
        BY ONLY <3>3, <4>1
      <4>3. x \o (y \o v) = (x \o y) \o v
        BY ONLY <4>1, ConcatAssociative
      <4> QED
        BY ONLY <3>1, <3>2, <4>2, <4>3
    <3>4. CASE y = <<>>
      <4>1. x \in Seq(Unit) /\ hr \in Seq(Unit) /\ v \in Seq(Unit)
        BY <1>14, <3>1
      <4>2. y \o v = v /\ x \o y = x
        BY ONLY <3>4, <4>1
      <4>3. (x \o hr) \o v = x \o (hr \o v)
        BY ONLY <4>1, ConcatAssociative
      <4> QED
        BY ONLY <3>1, <3>2, <4>2, <4>3
    <3> QED
      BY <2>4, <3>3, <3>4
  <2>6. Rest = (x \o hr) \o ((y \o tr) \o r)
    BY <1>10, <1>13
  <2> HIDE DEF z
  <2> QED
    BY <1>5, <2>1, <2>2, <2>3, <2>5, <2>6
<1> HIDE DEF xy
<1>16. readers' \in Seq(Formatter) /\ body' \in Seq(Unit)
  <2>1. readers' \in Seq(Formatter)
    BY <1>1, <1>5
  <2> HIDE DEF z
  <2>2. body \o xy \in Seq(Unit)
    BY <1>14, <1>15
  <2> QED
    BY <1>15, <2>1, <2>2
<1>17. Rest' = z
  <2>1. CASE msgPos + m = Len(tx)
    <3>1. readers' = Tail(readers) /\ headerPos' = 0 /\ msgPos' = 0
      BY <1>5, <2>1, <1>2
    <3>2. m > 0 /\ hr = <<>>
      BY <1>3, <1>2, <1>8, <1>11, <2>1
    <3>3. tr = <<>>
      BY <1>2, <2>1, SubSeqEmpty DEF tr
    <3>4. z = r
      BY <1>2, <3>2, <3>3
    <3> HIDE DEF z
    <3>5. Rest' = Output(readers')
      BY <1>16, <3>1, RestIs DEF Rest, Output, Outputs
    <3> QED
      BY <3>1, <3>4, <3>5 DEF r
  <2>2. CASE msgPos + m < Len(tx)
    <3>1. headerPos' = headerPos + h /\ msgPos' = msgPos + m /\ readers' = readers
      BY <1>5, <2>2, <1>2
    <3>2. Rest' = SubSeq(hd, headerPos' + 1, Len(hd)) \o (SubSeq(tx, msgPos' + 1, Len(tx)) \o r)
      BY <1>1, <3>1 DEF Rest, f, hd, tx, r, Output, Outputs
    <3> QED
      BY <3>1, <3>2 DEF hr, tr
  <2> QED
    BY <1>5, <2>1, <2>2
<1>18. body' \o Rest' = body \o Rest
  <2> HIDE DEF z
  <2>1. (body \o xy) \o z = body \o (xy \o z)
    <3>1. body \in Seq(Unit) /\ xy \in Seq(Unit) /\ z \in Seq(Unit)
      BY <1>14, <1>15
    <3> QED
      BY ONLY <3>1, ConcatAssociative
  <2> QED
    BY <1>15, <1>17, <2>1
<1>19. Whole' = Whole /\ Formatters(reports, lines)' = Formatters(reports, lines)
  <2>1. Formatters(reports, lines)' = Formatters(reports, lines)
    BY <1>5, FormattersSame
  <2> QED
    BY <2>1 DEF Whole, Output, Outputs
<1>20. LPTypeOK'
  <2>1. \A i \in DOMAIN readers' : readers'[i].text # <<>>
    <3>1. \A i \in DOMAIN readers' : readers'[i] \in Formatter
      BY <1>16
    <3> QED
      BY <3>1 DEF Formatter
  <2>2. readers' = <<>> => headerPos' = 0 /\ msgPos' = 0
    BY <1>1, <1>5
  <2>3. CASE msgPos + m = Len(tx)
    <3>1. headerPos' = 0 /\ msgPos' = 0
      BY <1>2, <1>5, <2>3
    <3>2. readers' # <<>> => /\ readers'[1] \in Formatter /\ Len(readers'[1].header) \in Nat
                             /\ Len(readers'[1].text) \in Nat /\ Len(readers'[1].text) > 0
      <4>1. readers' # <<>> => readers'[1] \in Formatter
        BY <1>16
      <4>2. readers' # <<>> => /\ readers'[1].header \in Seq(Unit) /\ readers'[1].text \in Seq(Unit)
                               /\ Len(readers'[1].text) > 0
        BY <4>1, FormatterType
      <4> QED
        BY <4>1, <4>2
    <3> QED
      BY <1>5, <2>1, <2>2, <3>1, <3>2 DEF LPInv, LPTypeOK
  <2>4. CASE msgPos + m < Len(tx)
    <3>1. headerPos' = headerPos + h /\ msgPos' = msgPos + m /\ readers' = readers
      BY <1>2, <1>5, <2>4
    <3>2. readers[1].header = hd /\ readers[1].text = tx
      BY <1>1 DEF hd, tx
    <3>3. headerPos' \in 0..Len(hd) /\ msgPos' \in 0..(Len(tx) - 1) /\ (msgPos' > 0 => headerPos' = Len(hd))
      BY <1>2, <1>3, <1>6, <1>7, <1>8, <1>9, <2>4, <3>1
    <3> QED
      BY <1>1, <1>5, <2>1, <3>1, <3>2, <3>3 DEF LPInv, LPTypeOK
  <2> QED
    BY <1>5, <2>3, <2>4
<1>21. LPInv'
  BY <1>1, <1>5, <1>16, <1>18, <1>19, <1>20 DEF LPInv
<1> QED
  BY <1>15, <1>21

\* The other steps of the formatter.
LEMMA PrepareStep ==
  ASSUME LPInv, ParseFlags \/ ComputeHeader \/ NewFormatter
  PROVE  LPInv' /\ body' = body /\ body = <<>> /\ stage # "read"
<1>1. CASE ParseFlags
  <2>1. stage # "read" /\ stage' \in {"header", "refused"} /\ format' \in Formats
    BY <1>1 DEF ParseFlags, readVars, Formats
  <2>2. LPTypeOK'
    BY <1>1, <2>1 DEF ParseFlags, NameFlags, LPInv, LPTypeOK, batchVars, readVars
  <2> QED
    BY <1>1, <2>1, <2>2 DEF ParseFlags, NameFlags, LPInv, batchVars, readVars
<1>2. CASE ComputeHeader
  <2>1. LPTypeOK'
    BY <1>2 DEF ComputeHeader, NewHeaderSize, LPInv, LPTypeOK, batchVars, readVars
  <2> QED
    BY <1>2, <2>1 DEF ComputeHeader, NewHeaderSize, LPInv, batchVars, readVars
<1>3. CASE NewFormatter
  <2>1. /\ stage = "format" /\ stage' = "read" /\ reports' \in EData
        /\ body' = body /\ headerPos' = headerPos /\ msgPos' = msgPos
        /\ UNCHANGED <<format, maxLine, names, headerSize>>
        /\ readers' = Formatters(reports', lines') /\ msgCount' = Len(readers')
    BY <1>3 DEF NewFormatter, configVars, MsgCount, Formatters, Errors, LineFormatters
  <2>2. lines' \in Seq(LineLengths)
    <3>1. PICK n \in 1..MaxLines : lines' \in [1..n -> LineLengths]
      BY <1>3 DEF NewFormatter
    <3>2. n \in Nat
      BY LogplexAssumption, <3>1
    <3> QED
      BY <3>1, <3>2
  <2>3. lines' \in Seq(Nat \ {0})
    BY <2>2, LogplexAssumption, SeqMonotonic
  <2>4. body = <<>> /\ readers = <<>> /\ headerPos = 0 /\ msgPos = 0 /\ headerSize = names
    BY <2>1 DEF LPInv, LPTypeOK
  <2>5. ConfigOK
    BY LPInvTypes
  <2>6. readers' \in Seq(Formatter)
    BY <2>1, <2>3, <2>5, FormattersType
  <2>7. Formatters(reports, lines)' = Formatters(reports', lines')
    <3>1. \A rs, ls : Formatters(rs, ls)' = Formatters(rs, ls)
      BY <2>1, FormattersSame
    <3> QED
      BY <3>1
  <2>8. Whole' = Output(readers')
    BY <2>1, <2>7 DEF Whole, Output, Outputs
  <2>9. Rest' = Output(readers')
    <3>1. headerPos' = 0 /\ msgPos' = 0
      BY <2>1, <2>4
    <3> QED
      BY <2>6, <3>1, RestIs DEF Rest, Output, Outputs
  <2>10. body' \o Rest' = Whole'
    <3>1. Output(readers') \in Seq(Unit)
      BY <2>6, OutputsType
    <3> QED
      BY <2>1, <2>4, <2>8, <2>9, <3>1
  <2>11. LPTypeOK'
    <3>1. \A i \in DOMAIN readers' : readers'[i].text # <<>>
      <4>1. \A i \in DOMAIN readers' : readers'[i] \in Formatter
        BY <2>6
      <4> QED
        BY <4>1 DEF Formatter
    <3>2. readers' # <<>> => /\ Len(readers'[1].header) \in Nat
                             /\ Len(readers'[1].text) \in Nat /\ Len(readers'[1].text) > 0
      <4>1. readers' # <<>> => readers'[1] \in Formatter
        BY <2>6
      <4>2. readers' # <<>> => /\ readers'[1].header \in Seq(Unit) /\ readers'[1].text \in Seq(Unit)
                               /\ Len(readers'[1].text) > 0
        BY <4>1, FormatterType
      <4> QED
        BY <4>2
    <3> QED
      BY <2>1, <2>2, <2>4, <3>1, <3>2 DEF LPInv, LPTypeOK
  <2> QED
    BY <2>1, <2>4, <2>6, <2>7, <2>10, <2>11 DEF LPInv
<1> QED
  BY <1>1, <1>2, <1>3

\* And the stutters.
LEMMA LPStutter ==
  ASSUME LPInv, UNCHANGED lpVars
  PROVE  LPInv'
<1>1. UNCHANGED <<stage, format, maxLine, names, headerSize, reports, lines, msgCount, readers, headerPos, msgPos, body>>
  BY DEF lpVars, configVars, batchVars, readVars
<1>2. Formatters(reports, lines)' = Formatters(reports, lines)
  BY <1>1, FormattersSame
<1>3. Whole' = Whole
  BY <1>2 DEF Whole, Output, Outputs
<1>4. Rest' = Rest
  BY <1>1 DEF Rest, Output, Outputs
<1> QED
  BY <1>1, <1>2, <1>3, <1>4 DEF LPInv, LPTypeOK

-----------------------------------------------------------------------------
(***************************************************************************)
(* The writer, the pipe and the transport                                  *)
(***************************************************************************)
\* Types, of what TypeOK does not say.
GZTypes ==
  /\ useGzip \in BOOLEAN /\ once \in BOOLEAN /\ closed \in BOOLEAN
  /\ wpc \in [Writers -> {"none", "copy", "close", "done"}]
  /\ transport \in {"idle", "asking", "ended", "gone"}
  /\ got \in Seq(Unit)
  /\ held \in [Writers -> Seq(Unit)]

\* One writer at most, none without -gzip, and none before there is a body.
OneWriter ==
  /\ \A w, v \in Writers : wpc[w] # "none" /\ wpc[v] # "none" => w = v
  /\ \A w \in Writers : wpc[w] # "none" => once /\ useGzip /\ stage = "read"

\* What a writer does not hold, and when it has gone beyond copying.
WriterHolds ==
  /\ \A w \in Writers : wpc[w] \in {"none", "done"} => held[w] = <<>>
  /\ \A w \in Writers : wpc[w] \in {"close", "done"} => AtEnd
  /\ closed => \E w \in Writers : wpc[w] = "done"

\* What has gone out when no writer runs.
NoWriter ==
  /\ ~useGzip => got = body /\ transport # "asking"
  /\ (useGzip /\ \A w \in Writers : wpc[w] = "none") => got = <<>> /\ body = <<>>
  /\ stage # "read" => transport = "idle"

GZInv == LPInv /\ GZTypes /\ OneWriter /\ WriterHolds /\ NoWriter /\ SentWhole

\* The invariant holds at first.
LEMMA GZInvInit == Init => GZInv
<1> SUFFICES ASSUME Init PROVE GZInv
  OBVIOUS
<1>1. <<>> \in Seq(Unit)
  OBVIOUS
<1>2. LPInv
  BY LPInvInit DEF Init
<1>3. GZTypes
  BY <1>1 DEF Init, GZTypes
<1>4. OneWriter /\ WriterHolds /\ SentWhole
  BY DEF Init, OneWriter, WriterHolds, SentWhole
<1>5. NoWriter
  BY DEF Init, LPInit, NoWriter
<1> QED
  BY <1>2, <1>3, <1>4, <1>5 DEF GZInv

\* Before there is a body there is nothing to be sent.
LEMMA PrepareGz ==
  ASSUME GZInv, Prepare
  PROVE  GZInv'
<1>1. LPInv' /\ body' = body /\ body = <<>> /\ stage # "read"
  BY PrepareStep DEF GZInv, Prepare
<1>2. UNCHANGED <<useGzip, once, wpc, held, closed, transport, got>>
  BY DEF Prepare, gzVars
<1>3. \A w \in Writers : wpc[w] = "none"
  BY <1>1 DEF GZInv, OneWriter, GZTypes
<1>4. transport = "idle"
  BY <1>1 DEF GZInv, NoWriter
<1>5. GZTypes'
  BY <1>2 DEF GZInv, GZTypes
<1>6. OneWriter' /\ SentWhole'
  BY <1>2, <1>3, <1>4 DEF OneWriter, SentWhole
<1>7. WriterHolds'
  BY <1>2, <1>3 DEF GZInv, WriterHolds
<1>8. NoWriter'
  BY <1>1, <1>2, <1>4 DEF GZInv, NoWriter
<1> QED
  BY <1>1, <1>5, <1>6, <1>7, <1>8 DEF GZInv

\* What stays the same when the formatter is left alone.
LEMMA FormatterStill ==
  ASSUME GZInv, UNCHANGED lpVars
  PROVE  LPInv' /\ body' = body /\ stage' = stage /\ readers' = readers /\ AtEnd' = AtEnd
<1>1. LPInv'
  BY LPStutter DEF GZInv
<1> QED
  BY <1>1 DEF lpVars, readVars, AtEnd

\* A Read of the transport, from the formatter.
LEMMA ReadPlainStep ==
  ASSUME GZInv, NEW size \in Buffers, ReadPlain(size)
  PROVE  GZInv'
<1>1. /\ ~useGzip /\ transport = "idle" /\ got' = body'
      /\ transport' = (IF readers' = <<>> THEN "ended" ELSE "idle")
      /\ UNCHANGED <<useGzip, once, wpc, held, closed>>
      /\ ReadBody(size)
  BY DEF ReadPlain
<1>2. LPInv' /\ stage = "read" /\ stage' = "read"
  BY <1>1, ReadStep DEF GZInv, ReadBody
<1>3. \A w \in Writers : wpc[w] = "none"
  BY <1>1 DEF GZInv, OneWriter, GZTypes
<1>4. GZTypes'
  BY <1>1, <1>2 DEF GZInv, GZTypes, LPInv
<1>5. OneWriter' /\ NoWriter'
  BY <1>1, <1>2, <1>3 DEF OneWriter, NoWriter
<1>6. WriterHolds'
  BY <1>1, <1>3 DEF GZInv, WriterHolds
<1>7. SentWhole'
  BY <1>1, <1>2, <1>3 DEF SentWhole, AtEnd
<1> QED
  BY <1>2, <1>4, <1>5, <1>6, <1>7 DEF GZInv

\* A Read of the transport, from the pipe: the first starts the writer.
LEMMA AskPipeStep ==
  ASSUME GZInv, AskPipe
  PROVE  GZInv'
<1>1. /\ useGzip /\ stage = "read" /\ transport = "idle" /\ transport' = "asking" /\ once' = TRUE
      /\ UNCHANGED <<lpVars, useGzip, held, closed, got>>
  BY DEF AskPipe
<1>2. LPInv' /\ body' = body /\ stage' = stage /\ readers' = readers /\ AtEnd' = AtEnd
  BY <1>1, FormatterStill
<1>3. CASE \E w \in Writers : wpc[w] = "none" /\ wpc' = [wpc EXCEPT ![w] = "copy"] /\ ~once
  <2>1. PICK w \in Writers : wpc[w] = "none" /\ wpc' = [wpc EXCEPT ![w] = "copy"] /\ ~once
    BY <1>3
  <2>2. \A v \in Writers : wpc[v] = "none"
    BY <2>1 DEF GZInv, OneWriter, GZTypes
  <2>3. got = <<>> /\ body = <<>> /\ held[w] = <<>>
    BY <1>1, <2>1, <2>2 DEF GZInv, NoWriter, WriterHolds
  <2>4. wpc'[w] = "copy" /\ \A v \in Writers \ {w} : wpc'[v] = "none"
    BY <2>1, <2>2 DEF GZInv, GZTypes
  <2>5. GZTypes'
    BY <1>1, <2>1 DEF GZInv, GZTypes
  <2>6. OneWriter' /\ NoWriter'
    BY <1>1, <1>2, <2>4 DEF OneWriter, NoWriter
  <2>7. WriterHolds'
    BY <1>1, <2>2, <2>4 DEF GZInv, WriterHolds
  <2>8. <<>> \o <<>> = <<>>
    OBVIOUS
  <2>9. SentWhole'
    BY <1>1, <1>2, <2>3, <2>4, <2>8 DEF SentWhole
  <2> QED
    BY <1>2, <2>5, <2>6, <2>7, <2>9 DEF GZInv
<1>4. CASE UNCHANGED wpc
  <2>1. GZTypes'
    BY <1>1, <1>4 DEF GZInv, GZTypes
  <2>2. OneWriter' /\ NoWriter'
    BY <1>1, <1>2, <1>4 DEF GZInv, OneWriter, NoWriter
  <2>3. WriterHolds'
    BY <1>1, <1>2, <1>4 DEF GZInv, WriterHolds
  <2>4. SentWhole'
    BY <1>1, <1>2, <1>4 DEF GZInv, SentWhole
  <2> QED
    BY <1>2, <2>1, <2>2, <2>3, <2>4 DEF GZInv
<1> QED
  BY <1>3, <1>4 DEF AskPipe, MustStart

\* The writer reads from the formatter.
LEMMA CopyStep ==
  ASSUME GZInv, NEW w \in Writers, NEW size \in Buffers, Copy(w, size)
  PROVE  GZInv'
<1>1. /\ wpc[w] = "copy" /\ ReadBody(size)
      /\ held' = [held EXCEPT ![w] = @ \o SubSeq(body', Len(body) + 1, Len(body'))]
      /\ UNCHANGED <<useGzip, once, wpc, closed, transport, got>>
  BY DEF Copy
<1>2. LPInv' /\ \E x \in Seq(Unit) : body' = body \o x
  BY <1>1, ReadStep DEF GZInv
<1>3. PICK x \in Seq(Unit) : body' = body \o x
  BY <1>2
<1>4. /\ body \in Seq(Unit) /\ got \in Seq(Unit) /\ held[w] \in Seq(Unit)
      /\ useGzip /\ stage = "read" /\ stage' = "read" /\ readers # <<>>
  BY <1>1 DEF GZInv, LPInv, GZTypes, OneWriter, ReadBody
<1>5. held' = [held EXCEPT ![w] = held[w] \o x]
  <2>1. SubSeq(body \o x, Len(body) + 1, Len(body \o x)) = x
    BY <1>4, SubSeqAdded
  <2> QED
    BY <1>1, <1>3, <2>1
<1>6. \A v \in Writers \ {w} : wpc[v] = "none" /\ held'[v] = held[v]
  BY <1>1, <1>5 DEF GZInv, OneWriter, GZTypes
<1>7. held'[w] = held[w] \o x /\ held' \in [Writers -> Seq(Unit)]
  BY <1>4, <1>5 DEF GZInv, GZTypes
<1>8. GZTypes'
  BY <1>1, <1>7 DEF GZInv, GZTypes
<1>9. OneWriter' /\ NoWriter'
  BY <1>1, <1>4 DEF GZInv, OneWriter, NoWriter
<1>10. WriterHolds'
  BY <1>1, <1>6 DEF GZInv, WriterHolds
<1>11. got' \o held'[w] = body'
  <2>1. got \o held[w] = body
    BY <1>1 DEF GZInv, SentWhole
  <2> DEFINE d == held[w]
  <2>2. d \in Seq(Unit) /\ got \in Seq(Unit) /\ x \in Seq(Unit)
    BY <1>4
  <2> HIDE DEF d
  <2>3. got \o (d \o x) = (got \o d) \o x
    BY ONLY <2>2, ConcatAssociative
  <2> QED
    BY <1>1, <1>3, <1>7, <2>1, <2>3 DEF d
<1>12. transport # "ended"
  <2>1. ~AtEnd
    BY <1>4 DEF AtEnd
  <2> QED
    BY <2>1 DEF GZInv, SentWhole
<1>13. SentWhole'
  BY <1>1, <1>6, <1>11, <1>12 DEF SentWhole
<1> QED
  BY <1>2, <1>8, <1>9, <1>10, <1>13 DEF GZInv

\* The writer has read to the end.
LEMMA CopyEndsStep ==
  ASSUME GZInv, NEW w \in Writers, CopyEnds(w)
  PROVE  GZInv'
<1>1. /\ wpc[w] = "copy" /\ AtEnd
      /\ wpc' = [wpc EXCEPT ![w] = "close"]
      /\ held' = [held EXCEPT ![w] = Append(@, Trailer)]
      /\ UNCHANGED <<lpVars, useGzip, once, closed, transport, got>>
  BY DEF CopyEnds
<1>2. LPInv' /\ body' = body /\ stage' = stage /\ readers' = readers /\ AtEnd' = AtEnd
  BY <1>1, FormatterStill
<1>3. \A v \in Writers \ {w} : wpc[v] = "none" /\ wpc'[v] = wpc[v] /\ held'[v] = held[v]
  BY <1>1 DEF GZInv, OneWriter, GZTypes
<1>4. useGzip /\ stage = "read" /\ once
  BY <1>1 DEF GZInv, OneWriter
<1>5. Trailer \in Unit
  BY UnitKinds DEF Trailer
<1> DEFINE d == held[w]
<1>6. d \in Seq(Unit) /\ got \in Seq(Unit)
  BY DEF GZInv, GZTypes
<1>7. wpc'[w] = "close" /\ held'[w] = Append(d, Trailer)
  BY <1>1 DEF GZInv, GZTypes
<1>8. GZTypes'
  <2>1. Append(d, Trailer) \in Seq(Unit)
    BY <1>5, <1>6
  <2> QED
    BY <1>1, <2>1 DEF GZInv, GZTypes
<1>9. OneWriter' /\ NoWriter'
  BY <1>2, <1>1, <1>3, <1>4, <1>7 DEF GZInv, OneWriter, NoWriter
<1>10. WriterHolds'
  <2>1. \A v \in Writers : wpc'[v] \in {"none", "done"} => held'[v] = <<>>
    BY <1>3, <1>7 DEF GZInv, WriterHolds
  <2>2. \A v \in Writers : wpc'[v] \in {"close", "done"} => AtEnd'
    BY <1>1, <1>2
  <2>3. ~closed'
    BY <1>1, <1>3 DEF GZInv, WriterHolds
  <2> QED
    BY <2>1, <2>2, <2>3 DEF WriterHolds
<1>11. got' \o held'[w] = Append(body', Trailer)
  <2>1. got \o d = body
    BY <1>1 DEF GZInv, SentWhole
  <2> HIDE DEF d
  <2>2. got \o Append(d, Trailer) = Append(got \o d, Trailer)
    BY ONLY <1>5, <1>6
  <2> QED
    BY <1>1, <1>2, <1>7, <2>1, <2>2
<1>12. transport # "ended"
  <2>1. got \o d = body
    BY <1>1 DEF GZInv, SentWhole
  <2>2. transport = "ended" => got = Append(body, Trailer)
    BY <1>4 DEF GZInv, SentWhole
  <2> HIDE DEF d
  <2>3. body \in Seq(Unit)
    BY DEF GZInv, LPInv
  <2>4. Len(body) = Len(got) + Len(d)
    BY <1>6, <2>1
  <2>5. got = Append(body, Trailer) => Len(got) = Len(body) + 1
    BY <1>5, <2>3
  <2>6. Len(got) \in Nat /\ Len(d) \in Nat /\ Len(body) \in Nat
    BY <1>6, <2>3
  <2> QED
    BY <2>2, <2>4, <2>5, <2>6
<1>13. SentWhole'
  BY <1>1, <1>3, <1>7, <1>11, <1>12 DEF SentWhole
<1> QED
  BY <1>2, <1>8, <1>9, <1>10, <1>13 DEF GZInv

\* The writer hands out what it holds.
LEMMA WritePipeStep ==
  ASSUME GZInv, NEW w \in Writers, WritePipe(w)
  PROVE  GZInv'
<1>1. /\ wpc[w] \in {"copy", "close"}
      /\ got' = got \o held[w]
      /\ held' = [held EXCEPT ![w] = <<>>]
      /\ transport' = "idle"
      /\ UNCHANGED <<lpVars, useGzip, once, wpc, closed>>
  BY DEF WritePipe
<1>2. LPInv' /\ body' = body /\ stage' = stage /\ readers' = readers /\ AtEnd' = AtEnd
  BY <1>1, FormatterStill
<1>3. \A v \in Writers \ {w} : wpc[v] = "none" /\ held'[v] = held[v]
  BY <1>1 DEF GZInv, OneWriter, GZTypes
<1>4. useGzip /\ stage = "read" /\ once
  BY <1>1 DEF GZInv, OneWriter
<1>5. got' \in Seq(Unit) /\ held'[w] = <<>> /\ got' \o <<>> = got'
  <2>1. got \in Seq(Unit) /\ held[w] \in Seq(Unit)
    BY DEF GZInv, GZTypes
  <2>2. got' \in Seq(Unit) /\ got' \o <<>> = got'
    BY <1>1, <2>1
  <2> QED
    BY <1>1, <2>2 DEF GZInv, GZTypes
<1>6. GZTypes'
  <2>1. <<>> \in Seq(Unit)
    OBVIOUS
  <2> QED
    BY <1>1, <1>5, <2>1 DEF GZInv, GZTypes
<1>7. OneWriter' /\ NoWriter'
  BY <1>1, <1>2, <1>4 DEF GZInv, OneWriter, NoWriter
<1>8. WriterHolds'
  BY <1>1, <1>2, <1>3 DEF GZInv, WriterHolds
<1>9. SentWhole'
  BY <1>1, <1>2, <1>3, <1>5 DEF GZInv, SentWhole
<1> QED
  BY <1>2, <1>6, <1>7, <1>8, <1>9 DEF GZInv

\* The writer closes the pipe and is gone.
LEMMA ClosePipeStep ==
  ASSUME GZInv, NEW w \in Writers, ClosePipe(w)
  PROVE  GZInv'
<1>1. /\ wpc[w] = "close" /\ held[w] = <<>> /\ closed' = TRUE
      /\ wpc' = [wpc EXCEPT ![w] = "done"]
      /\ UNCHANGED <<lpVars, useGzip, once, held, transport, got>>
  BY DEF ClosePipe, Flushed, PipeClosed
<1>2. LPInv' /\ body' = body /\ stage' = stage /\ readers' = readers /\ AtEnd' = AtEnd
  BY <1>1, FormatterStill
<1>3. wpc'[w] = "done" /\ \A v \in Writers \ {w} : wpc[v] = "none" /\ wpc'[v] = wpc[v]
  BY <1>1 DEF GZInv, OneWriter, GZTypes
<1>4. useGzip /\ stage = "read" /\ once
  BY <1>1 DEF GZInv, OneWriter
<1>5. GZTypes'
  BY <1>1 DEF GZInv, GZTypes
<1>6. OneWriter' /\ NoWriter'
  BY <1>1, <1>2, <1>3, <1>4 DEF GZInv, OneWriter, NoWriter
<1>7. WriterHolds'
  BY <1>1, <1>2, <1>3 DEF GZInv, WriterHolds
<1>8. SentWhole'
  BY <1>1, <1>2, <1>3 DEF GZInv, SentWhole
<1> QED
  BY <1>2, <1>5, <1>6, <1>7, <1>8 DEF GZInv

\* The transport sees the end of the pipe, or gives up.
LEMMA TransportEnds ==
  ASSUME GZInv, PipeEOF \/ GiveUp
  PROVE  GZInv'
<1>1. UNCHANGED <<lpVars, useGzip, once, wpc, held, closed, got>>
  BY DEF PipeEOF, GiveUp
<1>2. LPInv' /\ body' = body /\ stage' = stage /\ readers' = readers /\ AtEnd' = AtEnd
  BY <1>1, FormatterStill
<1>3. OneWriter' /\ WriterHolds'
  BY <1>1, <1>2 DEF GZInv, OneWriter, WriterHolds
<1>4. CASE PipeEOF
  <2>1. transport = "asking" /\ closed /\ transport' = "ended"
    BY <1>4 DEF PipeEOF
  <2>2. useGzip /\ stage = "read"
    BY <2>1 DEF GZInv, NoWriter
  <2>3. PICK w \in Writers : wpc[w] = "done"
    BY <2>1 DEF GZInv, WriterHolds
  <2>4. held[w] = <<>> /\ AtEnd /\ got \o held[w] = Append(body, Trailer) /\ got \in Seq(Unit)
    BY <2>3 DEF GZInv, WriterHolds, SentWhole, GZTypes
  <2>5. got = Append(body, Trailer)
    BY <2>4
  <2>6. GZTypes' /\ NoWriter'
    BY <1>1, <1>2, <2>1, <2>2 DEF GZInv, GZTypes, NoWriter
  <2>7. SentWhole'
    BY <1>1, <1>2, <2>1, <2>2, <2>4, <2>5 DEF GZInv, SentWhole
  <2> QED
    BY <1>2, <1>3, <2>6, <2>7 DEF GZInv
<1>5. CASE GiveUp
  <2>1. transport = "idle" /\ transport' = "gone" /\ stage = "read"
    BY <1>5 DEF GiveUp
  <2>2. GZTypes' /\ NoWriter'
    BY <1>1, <1>2, <2>1 DEF GZInv, GZTypes, NoWriter
  <2>3. SentWhole'
    BY <1>1, <1>2, <2>1 DEF GZInv, SentWhole
  <2> QED
    BY <1>2, <1>3, <2>2, <2>3 DEF GZInv
<1> QED
  BY <1>4, <1>5

\* Every step keeps the invariant.
LEMMA GZInvNext ==
  ASSUME GZInv, [Next]_vars
  PROVE  GZInv'
<1>1. CASE Prepare
  BY <1>1, PrepareGz
<1>2. CASE TransportStep
  BY <1>2, ReadPlainStep, AskPipeStep, TransportEnds DEF TransportStep
<1>3. ASSUME NEW w \in Writers, WriterStep(w) PROVE GZInv'
  BY <1>3, CopyStep, CopyEndsStep, WritePipeStep, ClosePipeStep DEF WriterStep
<1>4. CASE UNCHANGED vars
  <2>1. UNCHANGED <<lpVars, useGzip, once, wpc, held, closed, transport, got>>
    BY <1>4 DEF vars, gzVars
  <2>2. LPInv' /\ body' = body /\ stage' = stage /\ readers' = readers /\ AtEnd' = AtEnd
    BY <2>1, FormatterStill
  <2>3. GZTypes'
    BY <2>1 DEF GZInv, GZTypes
  <2>4. OneWriter' /\ WriterHolds'
    BY <2>1, <2>2 DEF GZInv, OneWriter, WriterHolds
  <2>5. NoWriter'
    BY <2>1, <2>2 DEF GZInv, NoWriter
  <2>6. SentWhole'
    BY <2>1, <2>2 DEF GZInv, SentWhole
  <2> QED
    BY <2>2, <2>3, <2>4, <2>5, <2>6 DEF GZInv
<1> QED
  BY <1>1, <1>2, <1>3, <1>4 DEF Next, Terminated

\* The invariant, for every number of writers and every configuration.
THEOREM GzipInvariance == Safety => []GZInv
<1>1. Init => GZInv
  BY GZInvInit
<1>2. GZInv /\ [Next]_vars => GZInv'
  BY GZInvNext
<1> QED
  BY <1>1, <1>2, PTL DEF Safety

\* TypeOK, one writer at most among it.
THEOREM GzipTypes == Safety => []TypeOK
<1>1. GZInv => TypeOK
  <2> SUFFICES ASSUME GZInv PROVE TypeOK
    OBVIOUS
  <2> DEFINE W == {w \in Writers : wpc[w] # "none"}
  <2>1. Cardinality(W) <= IF once /\ useGzip THEN 1 ELSE 0
    <3>1. CASE W = {}
      <4>1. Cardinality(W) = 0
        BY <3>1, FS_EmptySet
      <4> QED
        BY <4>1
    <3>2. CASE W # {}
      <4>1. PICK w : w \in W
        BY <3>2
      <4>2. W = {w} /\ once /\ useGzip
        BY <4>1 DEF GZInv, OneWriter
      <4>3. Cardinality({w}) = 1
        BY FS_Singleton
      <4> QED
        BY <4>2, <4>3
    <3> QED
      BY <3>1, <3>2
  <2> QED
    BY <2>1 DEF GZInv, LPInv, GZTypes, TypeOK
<1> QED
  BY <1>1, GzipInvariance, PTL

\* SentWhole.
THEOREM GzipSendsAll == Safety => []SentWhole
<1>1. GZInv => SentWhole
  BY DEF GZInv
<1> QED
  BY <1>1, GzipInvariance, PTL

-----------------------------------------------------------------------------
(***************************************************************************)
(* The text of a body                                                      *)
(***************************************************************************)
\* The elements of one more.
LEMMA MappedAppend ==
  ASSUME NEW S, NEW s \in Seq(S), NEW x \in S, NEW R, NEW f \in Seq(R), NEW y \in R, NEW g \in Seq(R),
         Len(f) = Len(s), Len(g) = Len(s) + 1, \A i \in 1..Len(s) : g[i] = f[i], g[Len(s) + 1] = y
  PROVE  g = Append(f, y)
<1>1. Append(f, y) \in Seq(R) /\ Len(Append(f, y)) = Len(g)
  OBVIOUS
<1>2. ASSUME NEW i \in 1..Len(g) PROVE g[i] = Append(f, y)[i]
  <2>1. i \in 1..Len(s) \/ i = Len(s) + 1
    OBVIOUS
  <2> QED
    BY <2>1
<1> QED
  BY <1>1, <1>2, SeqEqual

\* The text of one more unit.
LEMMA TextOfAppend ==
  ASSUME NEW s \in Seq(Unit), NEW x \in Unit
  PROVE  TextOf(Append(s, x)) = TextOf(s) \o (IF IsText(x) THEN <<x>> ELSE <<>>) /\ TextOf(s) \in Seq(Unit)
<1> DEFINE k(u) == IF IsText(u) THEN <<u>> ELSE <<>>
           f == [i \in DOMAIN s |-> k(s[i])]
           t == Append(s, x)
           g == [i \in DOMAIN t |-> k(t[i])]
           Q == Seq(Unit)
<1>1. \A u \in Unit : k(u) \in Q
  OBVIOUS
<1>2. t \in Seq(Unit) /\ Len(t) = Len(s) + 1 /\ t[Len(s) + 1] = x /\ \A i \in 1..Len(s) : t[i] = s[i]
  OBVIOUS
<1>3. TextOf(s) = FlattenSeq(f) /\ TextOf(t) = FlattenSeq(g)
  BY DEF TextOf
<1> HIDE DEF k, t
<1>4. f \in Seq(Q) /\ Len(f) = Len(s) /\ \A i \in 1..Len(s) : f[i] = k(s[i])
  <2> HIDE DEF Q
  <2>1. f = [i \in 1..Len(s) |-> k(s[i])]
    OBVIOUS
  <2>2. \A i \in 1..Len(s) : s[i] \in Unit
    OBVIOUS
  <2> QED
    BY <1>1, <2>1, <2>2
<1>5. g \in Seq(Q) /\ Len(g) = Len(s) + 1 /\ \A i \in 1..(Len(s) + 1) : g[i] = k(t[i])
  <2> HIDE DEF Q
  <2>1. g = [i \in 1..Len(t) |-> k(t[i])]
    BY <1>2
  <2>2. \A i \in 1..Len(t) : t[i] \in Unit
    BY <1>2
  <2> QED
    BY <1>1, <1>2, <2>1, <2>2
<1> HIDE DEF f, g, Q
<1>6. g = Append(f, k(x))
  <2>1. \A i \in 1..Len(s) : g[i] = f[i]
    BY <1>2, <1>4, <1>5
  <2>2. g[Len(s) + 1] = k(x) /\ k(x) \in Q
    BY <1>1, <1>2, <1>5
  <2> QED
    BY <1>4, <1>5, <2>1, <2>2, MappedAppend
<1>7. FlattenSeq(g) = FlattenSeq(f) \o k(x) /\ FlattenSeq(f) \in Seq(Unit)
  BY <1>1, <1>4, <1>6, FlatAppend, FlatType DEF Q
<1> QED
  BY <1>3, <1>7 DEF t, k

\* Nothing has no text.
LEMMA TextOfEmpty == TextOf(<<>>) = <<>>
<1>1. [i \in DOMAIN <<>> |-> IF IsText(<<>>[i]) THEN <<<<>>[i]>> ELSE <<>>] = <<>>
  OBVIOUS
<1> QED
  BY <1>1, FlatEmpty DEF TextOf

\* The text of two parts of a body.
LEMMA TextOfConcat ==
  ASSUME NEW s \in Seq(Unit)
  PROVE  \A t \in Seq(Unit) : TextOf(s \o t) = TextOf(s) \o TextOf(t)
<1> DEFINE T == {t \in Seq(Unit) : TextOf(s \o t) = TextOf(s) \o TextOf(t)}
<1>1. TextOf(s) \in Seq(Unit)
  <2>1. <<"line", 0, 0>> \in Unit
    BY UnitKinds
  <2>2. \A x \in Unit : TextOf(s) \in Seq(Unit)
    BY TextOfAppend
  <2> QED
    BY <2>1, <2>2
<1>2. <<>> \in T
  BY <1>1, TextOfEmpty
<1>3. ASSUME NEW t \in Seq(Unit), t \in T, NEW x \in Unit PROVE Append(t, x) \in T
  <2> DEFINE k == IF IsText(x) THEN <<x>> ELSE <<>>
             a == TextOf(s)
             b == TextOf(t)
  <2>1. s \o Append(t, x) = Append(s \o t, x) /\ s \o t \in Seq(Unit) /\ Append(t, x) \in Seq(Unit)
    OBVIOUS
  <2>2. k \in Seq(Unit) /\ a \in Seq(Unit) /\ b \in Seq(Unit)
    <3>1. k \in Seq(Unit)
      OBVIOUS
    <3>2. b \in Seq(Unit)
      BY TextOfAppend
    <3> HIDE DEF k, b
    <3> QED
      BY <1>1, <3>1, <3>2
  <2>3. TextOf(Append(s \o t, x)) = TextOf(s \o t) \o k
    BY <2>1, TextOfAppend
  <2>4. TextOf(Append(t, x)) = b \o k
    BY TextOfAppend
  <2>5. TextOf(s \o t) = a \o b
    BY <1>3
  <2> HIDE DEF k, a, b
  <2>6. (a \o b) \o k = a \o (b \o k)
    BY ONLY <2>2, ConcatAssociative
  <2>7. TextOf(s \o Append(t, x)) = a \o TextOf(Append(t, x))
    BY ONLY <2>1, <2>3, <2>4, <2>5, <2>6
  <2> QED
    BY <2>1, <2>7 DEF a
<1> QED
  <2> HIDE DEF T
  <2>1. \A t \in Seq(Unit) : t \in T
    BY <1>2, <1>3, AllSequences
  <2> QED
    BY <2>1 DEF T

\* A text is its own text.
LEMMA TextOfText == \A s \in Seq(TextUnit) : TextOf(s) = s
<1> DEFINE T == {s \in Seq(TextUnit) : TextOf(s) = s}
<1>1. <<>> \in T
  BY TextOfEmpty
<1>2. ASSUME NEW s \in Seq(TextUnit), s \in T, NEW x \in TextUnit PROVE Append(s, x) \in T
  <2>1. x \in Unit /\ IsText(x)
    BY DEF TextUnit
  <2>2. s \in Seq(Unit)
    BY SeqMonotonic DEF TextUnit
  <2>3. TextOf(Append(s, x)) = TextOf(s) \o <<x>>
    BY <2>1, <2>2, TextOfAppend
  <2>4. TextOf(s) = s /\ s \o <<x>> = Append(s, x) /\ Append(s, x) \in Seq(TextUnit)
    BY <1>2
  <2> QED
    BY <2>3, <2>4
<1> QED
  <2> HIDE DEF T
  <2>1. \A s \in Seq(TextUnit) : s \in T
    BY <1>1, <1>2, AllSequences
  <2> QED
    BY <2>1 DEF T

\* A header has none.
LEMMA TextOfHeader == \A s \in Seq(HeaderUnit) : TextOf(s) = <<>>
<1> DEFINE T == {s \in Seq(HeaderUnit) : TextOf(s) = <<>>}
<1>1. <<>> \in T
  BY TextOfEmpty
<1>2. ASSUME NEW s \in Seq(HeaderUnit), s \in T, NEW x \in HeaderUnit PROVE Append(s, x) \in T
  <2>1. x \in Unit /\ ~IsText(x)
    BY DEF HeaderUnit, IsText
  <2>2. s \in Seq(Unit)
    BY SeqMonotonic DEF HeaderUnit
  <2>3. TextOf(Append(s, x)) = TextOf(s) \o <<>>
    BY <2>1, <2>2, TextOfAppend
  <2>4. TextOf(s) = <<>> /\ <<>> \o <<>> = <<>> /\ Append(s, x) \in Seq(HeaderUnit)
    BY <1>2
  <2> QED
    BY <2>3, <2>4
<1> QED
  <2> HIDE DEF T
  <2>1. \A s \in Seq(HeaderUnit) : s \in T
    BY <1>1, <1>2, AllSequences
  <2> QED
    BY <2>1 DEF T

\* The texts of formatters.
LEMMA TextsType ==
  ASSUME NEW fs \in Seq(Formatter)
  PROVE  /\ Texts(fs) \in Seq(Seq(Unit)) /\ Len(Texts(fs)) = Len(fs)
         /\ \A i \in 1..Len(fs) : Texts(fs)[i] = fs[i].text
         /\ FlattenSeq(Texts(fs)) \in Seq(Unit)
<1>1. \A i \in 1..Len(fs) : fs[i].text \in Seq(Unit)
  BY FormatterType
<1>2. Texts(fs) = [i \in 1..Len(fs) |-> fs[i].text]
  BY DEF Texts
<1>3. Texts(fs) \in Seq(Seq(Unit)) /\ Len(Texts(fs)) = Len(fs)
  BY <1>1, <1>2
<1>4. \A i \in 1..Len(fs) : Texts(fs)[i] = fs[i].text
  BY <1>2
<1> QED
  BY <1>3, <1>4, FlatType

\* One formatter more.
LEMMA OneMore ==
  ASSUME NEW fs \in Seq(Formatter), NEW f \in Formatter
  PROVE  /\ FlattenSeq(Texts(Append(fs, f))) = FlattenSeq(Texts(fs)) \o f.text
         /\ Output(Append(fs, f)) = Output(fs) \o (f.header \o f.text)
         /\ Outputs(Append(fs, f)) = Append(Outputs(fs), f.header \o f.text)
<1> DEFINE gs == Append(fs, f)
           n == Len(fs)
           Q == Seq(Unit)
<1>1. gs \in Seq(Formatter) /\ Len(gs) = n + 1 /\ gs[n + 1] = f /\ n \in Nat
      /\ \A i \in 1..n : gs[i] = fs[i] /\ i \in 1..(n + 1)
  OBVIOUS
<1> HIDE DEF gs
<1>2. f.text \in Q /\ f.header \o f.text \in Q
  BY FormatterType
<1>3. /\ Texts(fs) \in Seq(Q) /\ Len(Texts(fs)) = n /\ Texts(gs) \in Seq(Q) /\ Len(Texts(gs)) = n + 1
      /\ \A i \in 1..n : Texts(fs)[i] = fs[i].text
      /\ \A i \in 1..(n + 1) : Texts(gs)[i] = gs[i].text
  BY <1>1, TextsType
<1>4. /\ Outputs(fs) \in Seq(Q) /\ Len(Outputs(fs)) = n /\ Outputs(gs) \in Seq(Q) /\ Len(Outputs(gs)) = n + 1
      /\ \A i \in 1..n : Outputs(fs)[i] = fs[i].header \o fs[i].text
      /\ \A i \in 1..(n + 1) : Outputs(gs)[i] = gs[i].header \o gs[i].text
  BY <1>1, OutputsType
<1> HIDE DEF Q
<1>5. Texts(gs) = Append(Texts(fs), f.text)
  <2>1. \A i \in 1..n : Texts(gs)[i] = Texts(fs)[i]
    BY <1>1, <1>3
  <2>2. Texts(gs)[n + 1] = f.text
    BY <1>1, <1>3
  <2> QED
    BY <1>2, <1>3, <2>1, <2>2, MappedAppend
<1>6. Outputs(gs) = Append(Outputs(fs), f.header \o f.text)
  <2>1. \A i \in 1..n : Outputs(gs)[i] = Outputs(fs)[i]
    BY <1>1, <1>4
  <2>2. Outputs(gs)[n + 1] = f.header \o f.text
    <3>1. n + 1 \in 1..(n + 1) /\ gs[n + 1] = f
      BY <1>1
    <3>2. Outputs(gs)[n + 1] = gs[n + 1].header \o gs[n + 1].text
      BY <1>4, <3>1
    <3> QED
      BY ONLY <3>1, <3>2
  <2> DEFINE o == f.header \o f.text
  <2>3. o \in Q /\ Outputs(gs)[n + 1] = o
    BY <1>2, <2>2
  <2> HIDE DEF o
  <2>4. Outputs(gs) = Append(Outputs(fs), o)
    BY <1>4, <2>1, <2>3, MappedAppend
  <2> QED
    BY <2>4 DEF o
<1>7. FlattenSeq(Texts(gs)) = FlattenSeq(Texts(fs)) \o f.text
  BY <1>2, <1>3, <1>5, FlatAppend DEF Q
<1>8. FlattenSeq(Outputs(gs)) = FlattenSeq(Outputs(fs)) \o (f.header \o f.text)
  BY <1>2, <1>4, <1>6, FlatAppend DEF Q
<1> QED
  BY <1>6, <1>7, <1>8 DEF gs, Output

\* What formatters put out has the text of the formatters.
LEMMA TextOfOutput == \A fs \in Seq(Formatter) : TextOf(Output(fs)) = FlattenSeq(Texts(fs))
<1> DEFINE T == {fs \in Seq(Formatter) : TextOf(Output(fs)) = FlattenSeq(Texts(fs))}
<1>1. <<>> \in T
  <2>1. Outputs(<<>>) = <<>> /\ Texts(<<>>) = <<>>
    BY DEF Outputs, Texts
  <2>2. TextOf(Output(<<>>)) = <<>> /\ FlattenSeq(Texts(<<>>)) = <<>>
    BY <2>1, FlatEmpty, TextOfEmpty DEF Output
  <2> QED
    BY <2>2
<1>2. ASSUME NEW fs \in Seq(Formatter), fs \in T, NEW f \in Formatter PROVE Append(fs, f) \in T
  <2> DEFINE h == f.header
             t == f.text
             o == h \o t
  <2>1. h \in Seq(HeaderUnit) /\ t \in Seq(TextUnit)
    BY DEF Formatter
  <2>2. h \in Seq(Unit) /\ t \in Seq(Unit) /\ o \in Seq(Unit) /\ Output(fs) \in Seq(Unit)
    BY FormatterType, OutputsType
  <2>3. FlattenSeq(Texts(Append(fs, f))) = FlattenSeq(Texts(fs)) \o t /\ Output(Append(fs, f)) = Output(fs) \o o
    BY OneMore
  <2>4. TextOf(Output(fs)) = FlattenSeq(Texts(fs))
    BY <1>2
  <2> HIDE DEF h, t
  <2>5. TextOf(o) = TextOf(h) \o TextOf(t)
    BY <2>2, TextOfConcat
  <2>6. TextOf(h) = <<>> /\ TextOf(t) = t
    BY <2>1, TextOfHeader, TextOfText
  <2>7. <<>> \o t = t
    BY <2>2
  <2> HIDE DEF o
  <2>8. TextOf(Output(fs) \o o) = TextOf(Output(fs)) \o TextOf(o)
    BY <2>2, TextOfConcat
  <2>9. TextOf(Output(Append(fs, f))) = FlattenSeq(Texts(Append(fs, f)))
    BY ONLY <2>3, <2>4, <2>5, <2>6, <2>7, <2>8
  <2>10. Append(fs, f) \in Seq(Formatter)
    OBVIOUS
  <2> QED
    BY <2>9, <2>10
<1> QED
  <2> HIDE DEF T
  <2>1. \A fs \in Seq(Formatter) : fs \in T
    BY <1>1, <1>2, AllSequences
  <2> QED
    BY <2>1 DEF T

\* The texts of two lists of formatters.
LEMMA TextsConcat ==
  ASSUME NEW fs \in Seq(Formatter)
  PROVE  \A gs \in Seq(Formatter) :
           FlattenSeq(Texts(fs \o gs)) = FlattenSeq(Texts(fs)) \o FlattenSeq(Texts(gs))
<1> DEFINE F(s) == FlattenSeq(Texts(s))
           T == {gs \in Seq(Formatter) : F(fs \o gs) = F(fs) \o F(gs)}
<1>1. \A s \in Seq(Formatter) : F(s) \in Seq(Unit)
  BY TextsType
<1>2. \A s \in Seq(Formatter), f \in Formatter : F(Append(s, f)) = F(s) \o f.text
  BY OneMore
<1>3. F(<<>>) = <<>>
  <2>1. Texts(<<>>) = <<>>
    BY DEF Texts
  <2> QED
    BY <2>1, FlatEmpty
<1> HIDE DEF F
<1>4. <<>> \in T
  <2>1. fs \o <<>> = fs /\ F(fs) \in Seq(Unit) /\ <<>> \in Seq(Formatter)
    BY <1>1
  <2>2. F(fs) \o <<>> = F(fs)
    BY <2>1
  <2> QED
    BY <1>3, <2>1, <2>2
<1>5. ASSUME NEW gs \in Seq(Formatter), gs \in T, NEW f \in Formatter PROVE Append(gs, f) \in T
  <2>1. fs \o Append(gs, f) = Append(fs \o gs, f) /\ fs \o gs \in Seq(Formatter) /\ Append(gs, f) \in Seq(Formatter)
    OBVIOUS
  <2> DEFINE a == F(fs)
             b == F(gs)
             t == f.text
  <2>2. a \in Seq(Unit) /\ b \in Seq(Unit) /\ t \in Seq(Unit)
    BY <1>1, FormatterType
  <2>3. F(Append(fs \o gs, f)) = F(fs \o gs) \o t /\ F(Append(gs, f)) = b \o t
    BY <1>2, <2>1
  <2>4. F(fs \o gs) = a \o b
    BY <1>5
  <2> HIDE DEF a, b, t
  <2>5. (a \o b) \o t = a \o (b \o t)
    BY ONLY <2>2, ConcatAssociative
  <2>6. F(fs \o Append(gs, f)) = a \o F(Append(gs, f))
    BY ONLY <2>1, <2>3, <2>4, <2>5
  <2> QED
    BY <2>1, <2>6 DEF a
<1>6. \A gs \in Seq(Formatter) : gs \in T
  <2> HIDE DEF T
  <2> QED
    BY <1>4, <1>5, AllSequences
<1> QED
  BY <1>6 DEF F

\* The texts of lists of formatters, one after the other.
LEMMA TextsFlat ==
  \A ss \in Seq(Seq(Formatter)) : \A ts \in Seq(Seq(Unit)) :
    Len(ts) = Len(ss) /\ (\A i \in 1..Len(ss) : FlattenSeq(Texts(ss[i])) = ts[i]) =>
      FlattenSeq(Texts(FlattenSeq(ss))) = FlattenSeq(ts)
<1> DEFINE Q == Seq(Formatter)
           V == Seq(Unit)
           F(s) == FlattenSeq(Texts(s))
           Good(ss, ts) == Len(ts) = Len(ss) /\ \A i \in 1..Len(ss) : F(ss[i]) = ts[i]
           T == {ss \in Seq(Q) : \A ts \in Seq(V) : Good(ss, ts) => F(FlattenSeq(ss)) = FlattenSeq(ts)}
<1>1. <<>> \in T
  <2>1. Texts(<<>>) = <<>>
    BY DEF Texts
  <2>2. F(FlattenSeq(<<>>)) = FlattenSeq(<<>>)
    BY <2>1, FlatEmpty
  <2>3. ASSUME NEW ts \in Seq(V), Good(<<>>, ts) PROVE ts = <<>>
    <3>1. Len(ts) = Len(<<>>)
      BY <2>3
    <3> HIDE DEF V
    <3> QED
      BY <3>1
  <2>4. <<>> \in Seq(Q)
    <3> HIDE DEF Q, T
    <3> QED
      BY EmptySeq
  <2> HIDE DEF Good, F, Q, V
  <2> QED
    BY <2>2, <2>3, <2>4
<1>2. \A s, t \in Q : F(s \o t) = F(s) \o F(t)
  BY TextsConcat
<1>3. \A s \in Seq(Q) : FlattenSeq(s) \in Q
  BY FlatType
<1>4. \A s \in Seq(Q), x \in Q : FlattenSeq(Append(s, x)) = FlattenSeq(s) \o x
  BY FlatAppend
<1>5. \A s \in Seq(V), x \in V : FlattenSeq(Append(s, x)) = FlattenSeq(s) \o x
  BY FlatAppend
<1> HIDE DEF Q, V, F
<1>6. ASSUME NEW ss \in Seq(Q), ss \in T, NEW x \in Q PROVE Append(ss, x) \in T
  <2>0. Append(ss, x) \in Seq(Q)
    BY ONLY ss \in Seq(Q), x \in Q, AppendProperties
  <2> SUFFICES ASSUME NEW ts \in Seq(V), Good(Append(ss, x), ts)
               PROVE  F(FlattenSeq(Append(ss, x))) = FlattenSeq(ts)
    <3> HIDE DEF Good
    <3> QED
      BY <2>0
  <2>1. Len(ts) = Len(ss) + 1 /\ Len(ss) \in Nat /\ ts # <<>>
    OBVIOUS
  <2>2. PICK u \in Seq(V), v \in V : ts = Append(u, v)
    BY <2>1, SequenceEmptyOrAppend
  <2>3. Len(u) = Len(ss) /\ v = ts[Len(ss) + 1] /\ \A i \in 1..Len(ss) : ts[i] = u[i]
    BY <2>1, <2>2
  <2>4. /\ Append(ss, x)[Len(ss) + 1] = x /\ Len(Append(ss, x)) = Len(ss) + 1
        /\ \A i \in 1..Len(ss) : Append(ss, x)[i] = ss[i] /\ i \in 1..(Len(ss) + 1)
    OBVIOUS
  <2>5. Good(ss, u)
    BY <2>3, <2>4
  <2>6. F(x) = v
    <3>1. Len(ss) + 1 \in 1..Len(Append(ss, x))
      BY <2>1, <2>4
    <3>2. F(Append(ss, x)[Len(ss) + 1]) = ts[Len(ss) + 1]
      BY <3>1
    <3> QED
      BY ONLY <2>3, <2>4, <3>2
  <2>7. F(FlattenSeq(ss)) = FlattenSeq(u)
    BY <1>6, <2>5
  <2>8. FlattenSeq(Append(ss, x)) = FlattenSeq(ss) \o x /\ FlattenSeq(ss) \in Q
    BY <1>3, <1>4
  <2>9. F(FlattenSeq(ss) \o x) = F(FlattenSeq(ss)) \o F(x)
    BY <1>2, <2>8
  <2>10. FlattenSeq(ts) = FlattenSeq(u) \o v
    BY <1>5, <2>2
  <2> QED
    BY ONLY <2>6, <2>7, <2>8, <2>9, <2>10
<1>7. \A ss \in Seq(Q) : ss \in T
  <2> HIDE DEF T
  <2> QED
    BY <1>1, <1>6, AllSequences
<1> QED
  BY <1>7 DEF Q, V, F

\* Multiples grow.
LEMMA Multiples ==
  ASSUME NEW i \in Nat, NEW j \in Nat, NEW m \in Nat, i <= j
  PROVE  i * m \in Nat /\ i * m <= j * m /\ (i + 1) * m = i * m + m
OBVIOUS

\* The pieces of a line are the line.
LEMMA PiecesWhole ==
  ASSUME ConfigOK, NEW t \in Seq(TextUnit) \ {<<>>}, NEW ps \in Seq(Seq(Unit)),
         Len(ps) = PieceCount(Len(t)),
         \A j \in 1..PieceCount(Len(t)) :
           ps[j] = SubSeq(t, (j - 1) * maxLine + 1, Min({j * maxLine, Len(t)}))
  PROVE  FlattenSeq(ps) = t
<1> DEFINE n == Len(t)
           m == maxLine
           c == PieceCount(n)
           e(k) == IF k * m <= n THEN k * m ELSE n
           T == {k \in Nat : \A us \in Seq(Seq(Unit)) :
                   Len(us) = k /\ k <= c /\ (\A j \in 1..k : us[j] = ps[j]) =>
                     FlattenSeq(us) = SubSeq(t, 1, e(k))}
<1>1. n \in Nat \ {0} /\ m \in Nat \ {0} /\ t \in Seq(Unit)
  <2>1. t \in Seq(Unit)
    BY SeqMonotonic DEF TextUnit
  <2> QED
    BY <2>1 DEF ConfigOK
<1>2. c \in Nat \ {0} /\ (c - 1) * m < n /\ n <= c * m
  <2> HIDE DEF n
  <2> QED
    BY <1>1, PieceBounds DEF PieceCount
<1> HIDE DEF c
<1>3. 0 \in T
  <2>1. \A us \in Seq(Seq(Unit)) : Len(us) = 0 => us = <<>>
    OBVIOUS
  <2>2. e(0) = 0
    BY <1>1
  <2>3. SubSeq(t, 1, 0) = <<>>
    OBVIOUS
  <2> HIDE DEF e
  <2> QED
    BY <2>1, <2>2, <2>3, FlatEmpty
<1>4. ASSUME NEW k \in Nat, k \in T PROVE k + 1 \in T
  <2> SUFFICES ASSUME NEW us \in Seq(Seq(Unit)), Len(us) = k + 1, k + 1 <= c, \A j \in 1..(k + 1) : us[j] = ps[j]
               PROVE  FlattenSeq(us) = SubSeq(t, 1, e(k + 1))
    OBVIOUS
  <2> DEFINE V == Seq(Unit)
             a == k * m
             b == e(k + 1)
  <2>1. PICK vs \in Seq(V), v \in V : us = Append(vs, v)
    <3>1. us # <<>>
      OBVIOUS
    <3> QED
      BY <3>1, SequenceEmptyOrAppend
  <2>2. Len(vs) = k /\ v = us[k + 1] /\ \A j \in 1..k : us[j] = vs[j]
    BY <2>1
  <2>3. a \in Nat /\ a < n /\ (k + 1) * m = a + m
    <3>1. k <= c - 1 /\ c - 1 \in Nat
      BY <1>2
    <3>2. k * m <= (c - 1) * m
      BY <1>1, <3>1, Multiples
    <3> DEFINE d == (c - 1) * m
    <3>3. a \in Nat /\ d \in Int /\ a <= d /\ d < n
      BY <1>1, <1>2, <3>1, <3>2
    <3>4. (k + 1) * m = a + m
      BY <1>1
    <3> HIDE DEF a, d, n
    <3> QED
      BY <1>1, <3>3, <3>4
  <2>4. b = (IF a + m <= n THEN a + m ELSE n) /\ b \in Nat /\ a < b /\ b <= n /\ e(k) = a
    <3>1. b = IF a + m <= n THEN a + m ELSE n
      BY <2>3
    <3>2. e(k) = a
      BY <2>3
    <3> HIDE DEF a, b, n, m, e
    <3> QED
      BY <1>1, <2>3, <3>1, <3>2
  <2>5. v = SubSeq(t, a + 1, b)
    <3>1. k + 1 \in 1..c /\ (k + 1) - 1 = k
      BY <1>2
    <3>2. ps[k + 1] = SubSeq(t, ((k + 1) - 1) * m + 1, Min({(k + 1) * m, n}))
      BY <3>1 DEF c
    <3>3. Min({(k + 1) * m, n}) = b
      <4>1. (k + 1) * m \in Int /\ n \in Int
        BY <1>1, <2>3
      <4> HIDE DEF n
      <4> QED
        BY <4>1, MinOfTwo
    <3> HIDE DEF b, n, e
    <3>4. us[k + 1] = ps[k + 1]
      OBVIOUS
    <3> QED
      BY <2>2, <3>1, <3>2, <3>3, <3>4
  <2>6. FlattenSeq(vs) = SubSeq(t, 1, a)
    <3>1. k <= c
      BY <1>2
    <3>2. ASSUME NEW j \in 1..k PROVE vs[j] = ps[j]
      <4>1. j \in 1..(k + 1)
        OBVIOUS
      <4> QED
        BY <2>2, <4>1
    <3> HIDE DEF e, a
    <3> QED
      BY <1>4, <2>2, <2>4, <3>1, <3>2
  <2>7. FlattenSeq(us) = FlattenSeq(vs) \o v
    BY <2>1, FlatAppend
  <2>8. SubSeq(t, 1, a) \o SubSeq(t, a + 1, b) = SubSeq(t, 1, b)
    <3>1. 1 \in 1..(Len(t) + 1) /\ a \in (1 - 1)..Len(t) /\ b \in a..Len(t)
      <4> HIDE DEF a, b
      <4> QED
        BY <1>1, <2>3, <2>4
    <3> HIDE DEF a, b
    <3> QED
      BY <1>1, <3>1, ConcatAdjacentSubSeq
  <2> QED
    BY <2>5, <2>6, <2>7, <2>8
<1>5. \A k \in Nat : k \in T
  <2> HIDE DEF T
  <2> QED
    BY <1>3, <1>4, AllNumbers
<1>6. c \in T /\ Len(ps) = c
  BY <1>2, <1>5 DEF c
<1>7. e(c) = n
  <2> DEFINE d == c * m
  <2>1. d \in Int /\ n <= d
    BY <1>1, <1>2
  <2>2. e(c) = IF d <= n THEN d ELSE n
    OBVIOUS
  <2> HIDE DEF d, n, e
  <2> QED
    BY <1>1, <2>1, <2>2
<1>8. FlattenSeq(ps) = SubSeq(t, 1, e(c))
  <2> HIDE DEF e
  <2>1. c <= c /\ \A j \in 1..c : ps[j] = ps[j]
    BY <1>2
  <2> QED
    BY <1>6, <2>1
<1> QED
  BY <1>1, <1>7, <1>8, SubSeqFull

\* The text of what becomes of a line is the line.
LEMMA LineTextKept ==
  ASSUME ConfigOK, NEW t \in Seq(TextUnit) \ {<<>>}
  PROVE  FlattenSeq(Texts(SubFormatters(t))) = t
<1>1. t \in Seq(Unit)
  BY SeqMonotonic DEF TextUnit
<1> DEFINE sf == SubFormatters(t)
<1>2. sf \in Seq(Formatter)
  BY SubFormattersType
<1>3. Texts(sf) \in Seq(Seq(Unit)) /\ Len(Texts(sf)) = Len(sf) /\ \A i \in 1..Len(sf) : Texts(sf)[i] = sf[i].text
  BY <1>2, TextsType
<1> HIDE DEF sf
<1>4. CASE ~Splits(t)
  <2>1. sf = <<LineFormatter(t)>>
    BY <1>4, SubFormattersType DEF sf
  <2>2. Len(sf) = 1 /\ sf[1].text = t
    BY <2>1 DEF LineFormatter
  <2>3. Texts(sf)[1] = t
    BY <1>3, <2>2
  <2>4. <<>> \in Seq(Seq(Unit)) /\ Texts(sf) = Append(<<>>, t)
    BY <1>1, <1>3, <2>2, <2>3
  <2>5. FlattenSeq(Append(<<>>, t)) = t
    BY <1>1, <2>4, FlatStep
  <2> QED
    BY <2>4, <2>5 DEF sf
<1>5. CASE Splits(t)
  <2> DEFINE p(j) == SubSeq(t, (j - 1) * maxLine + 1, Min({j * maxLine, Len(t)}))
  <2>1. Len(sf) = PieceCount(Len(t)) /\ \A j \in 1..PieceCount(Len(t)) : sf[j] = LineFormatter(p(j))
    BY <1>5, SubFormattersType DEF sf
  <2>2. \A j \in 1..PieceCount(Len(t)) : Texts(sf)[j] = p(j)
    <3> TAKE j \in 1..PieceCount(Len(t))
    <3> HIDE DEF p
    <3>1. Texts(sf)[j] = sf[j].text /\ sf[j] = LineFormatter(p(j))
      BY <1>3, <2>1
    <3>2. LineFormatter(p(j)).text = p(j)
      BY DEF LineFormatter
    <3> QED
      BY <3>1, <3>2
  <2>3. FlattenSeq(Texts(sf)) = t
    BY <1>3, <2>1, <2>2, PiecesWhole
  <2> QED
    BY <2>3 DEF sf
<1> QED
  BY <1>4, <1>5

\* The whole body has the text of the reports and of the lines.
LEMMA WholeText ==
  ASSUME LPInv
  PROVE  TextOf(Whole) = AllText
<1> DEFINE es == Errors(reports)
           lf == LineFormatters(lines)
           rt == [i \in DOMAIN reports |-> ReportText(reports[i])]
           lt == [i \in DOMAIN lines |-> LineText(i, lines[i])]
<1>1. ConfigOK /\ reports \in EData /\ lines \in Seq(Nat \ {0}) /\ Formatters(reports, lines) \in Seq(Formatter)
  BY LPInvTypes
<1>2. /\ reports \in Seq({"drop", "lost"})
      /\ es \in Seq(Formatter) /\ Len(es) = Len(reports)
      /\ \A i \in 1..Len(reports) : es[i] = ErrorFormatter(reports[i])
      /\ lf \in Seq(Seq(Formatter)) /\ Len(lf) = Len(lines)
      /\ \A i \in 1..Len(lines) : lf[i] = SubFormatters(LineText(i, lines[i]))
      /\ FlattenSeq(lf) \in Seq(Formatter)
  BY <1>1, FormattersType
<1>3. TextOf(Whole) = FlattenSeq(Texts(Formatters(reports, lines)))
  BY <1>1, TextOfOutput DEF Whole
<1>4. FlattenSeq(Texts(Formatters(reports, lines))) = FlattenSeq(Texts(es)) \o FlattenSeq(Texts(FlattenSeq(lf)))
  BY <1>2, TextsConcat DEF Formatters
<1>5. Texts(es) = rt
  <2>1. Texts(es) = [i \in 1..Len(reports) |-> es[i].text]
    BY <1>2 DEF Texts
  <2>2. \A i \in 1..Len(reports) : es[i].text = ReportText(reports[i])
    <3>1. \A i \in 1..Len(reports) : reports[i] \in {"drop", "lost"}
      BY <1>2
    <3> QED
      BY <1>2, <3>1, ErrorType
  <2>3. DOMAIN reports = 1..Len(reports)
    BY <1>2
  <2> HIDE DEF es
  <2> QED
    BY <2>1, <2>2, <2>3
<1>6. /\ lt \in Seq(Seq(Unit)) /\ Len(lt) = Len(lines)
      /\ \A i \in 1..Len(lines) : lt[i] = LineText(i, lines[i]) /\ lt[i] \in Seq(TextUnit) \ {<<>>}
  <2>1. \A i \in 1..Len(lines) : LineText(i, lines[i]) \in Seq(TextUnit) \ {<<>>}
    BY <1>1, LineTextType
  <2>2. \A i \in 1..Len(lines) : LineText(i, lines[i]) \in Seq(Unit)
    BY <2>1, SeqMonotonic DEF TextUnit
  <2>3. lt = [i \in 1..Len(lines) |-> LineText(i, lines[i])] /\ Len(lines) \in Nat
    BY <1>1
  <2> HIDE DEF lt
  <2> QED
    BY <2>1, <2>2, <2>3
<1> HIDE DEF es, lf, rt, lt
<1>7. \A i \in 1..Len(lf) : FlattenSeq(Texts(lf[i])) = lt[i]
  BY <1>1, <1>2, <1>6, LineTextKept
<1>8. FlattenSeq(Texts(FlattenSeq(lf))) = FlattenSeq(lt)
  BY <1>2, <1>6, <1>7, TextsFlat
<1>9. AllText = FlattenSeq(rt) \o FlattenSeq(lt)
  BY DEF AllText, rt, lt
<1> QED
  BY <1>3, <1>4, <1>5, <1>8, <1>9

-----------------------------------------------------------------------------
(***************************************************************************)
(* Frames                                                                  *)
(***************************************************************************)
\* A frame: a length prefix for what follows, text at the end.
Frame ==
  {o \in Seq(Unit) :
     /\ Len(o) > 1 /\ IsPrefixUnit(o[1]) /\ o[1][2] = Len(o) - 1
     /\ IsText(o[Len(o)])
     /\ \A k \in 2..Len(o) : ~IsPrefixUnit(o[k])}

\* Where frames start in a body, and where the next should.
Starts(b) == {p \in 1..Len(b) : IsPrefixUnit(b[p])}
NextStart(b, p) == p + b[p][2] + 1

\* A body of frames, one after the other.
WellFramed(b) ==
  /\ b # <<>> => 1 \in Starts(b)
  /\ \A p \in Starts(b) :
       /\ NextStart(b, p) \in Nat /\ p + 1 < NextStart(b, p) /\ NextStart(b, p) <= Len(b) + 1
       /\ NextStart(b, p) <= Len(b) => NextStart(b, p) \in Starts(b)
       /\ \A q \in Starts(b) : p < q => NextStart(b, p) <= q
       /\ IsText(b[NextStart(b, p) - 1])

\* One frame more.
LEMMA FrameAdded ==
  ASSUME NEW b \in Seq(Unit), NEW o \in Frame, WellFramed(b)
  PROVE  WellFramed(b \o o) /\ Starts(b \o o) = Starts(b) \cup {Len(b) + 1}
<1> DEFINE n == Len(b)
           l == Len(o)
           c == b \o o
<1>1. n \in Nat /\ l \in Nat /\ l > 1 /\ Len(c) = n + l
  BY DEF Frame
<1>2. (\A i \in 1..n : c[i] = b[i]) /\ (\A i \in (n + 1)..(n + l) : c[i] = o[i - n])
  BY DEF Frame
<1>3. /\ IsPrefixUnit(o[1]) /\ o[1][2] = l - 1 /\ IsText(o[l])
      /\ \A k \in 2..l : ~IsPrefixUnit(o[k])
  BY DEF Frame
<1>4. b # <<>> <=> n > 0
  OBVIOUS
<1> HIDE DEF n, l, c, IsPrefixUnit, IsText
<1>5. c[n + 1] = o[1] /\ c[n + l] = o[l]
  <2>1. n + 1 \in (n + 1)..(n + l) /\ n + l \in (n + 1)..(n + l) /\ (n + 1) - n = 1 /\ (n + l) - n = l
    BY <1>1
  <2> QED
    BY <1>2, <2>1
<1>6. Starts(c) = Starts(b) \cup {n + 1}
  <2>1. Starts(b) = {p \in 1..n : IsPrefixUnit(b[p])} /\ Starts(c) = {p \in 1..(n + l) : IsPrefixUnit(c[p])}
    BY <1>1 DEF Starts, n
  <2>2. ASSUME NEW p \in 1..(n + l) PROVE IsPrefixUnit(c[p]) <=> p \in Starts(b) \cup {n + 1}
    <3>1. CASE p \in 1..n
      BY <1>1, <1>2, <2>1, <3>1
    <3>2. CASE p = n + 1
      BY <1>3, <1>5, <3>2
    <3>3. CASE p \in (n + 2)..(n + l)
      <4>1. p \in (n + 1)..(n + l) /\ p - n \in 2..l /\ p \notin 1..n /\ p # n + 1
        BY <1>1, <3>3
      <4> QED
        BY <1>2, <1>3, <2>1, <4>1
    <3> QED
      BY <1>1, <3>1, <3>2, <3>3
  <2>3. n + 1 \in 1..(n + l) /\ \A p \in 1..n : p \in 1..(n + l)
    BY <1>1
  <2> QED
    BY <2>1, <2>2, <2>3
<1>7. NextStart(c, n + 1) = n + l + 1
  BY <1>1, <1>3, <1>5 DEF NextStart
<1>8. ASSUME NEW p \in Starts(b)
      PROVE  /\ p \in 1..n /\ NextStart(c, p) = NextStart(b, p)
             /\ NextStart(b, p) \in Nat /\ p + 1 < NextStart(b, p) /\ NextStart(b, p) <= n + 1
             /\ NextStart(b, p) <= n => NextStart(b, p) \in Starts(b)
             /\ \A q \in Starts(b) : p < q => NextStart(b, p) <= q
             /\ IsText(b[NextStart(b, p) - 1])
  <2>1. p \in 1..n
    BY DEF Starts, n
  <2> QED
    BY <1>2, <2>1 DEF WellFramed, NextStart, n
<1>9. 1 \in Starts(c)
  <2>1. CASE n = 0
    BY <1>6, <2>1
  <2>2. CASE n # 0
    BY <1>1, <1>4, <1>6, <2>2 DEF WellFramed
  <2> QED
    BY <2>1, <2>2
<1>10. ASSUME NEW p \in Starts(c)
       PROVE  /\ NextStart(c, p) \in Nat /\ p + 1 < NextStart(c, p) /\ NextStart(c, p) <= n + l + 1
              /\ NextStart(c, p) <= n + l => NextStart(c, p) \in Starts(c)
              /\ \A q \in Starts(c) : p < q => NextStart(c, p) <= q
              /\ IsText(c[NextStart(c, p) - 1])
  <2>1. CASE p \in Starts(b)
    <3> DEFINE s == NextStart(b, p)
    <3>1. /\ p \in 1..n /\ NextStart(c, p) = s /\ s \in Nat /\ p + 1 < s /\ s <= n + 1
          /\ s <= n => s \in Starts(b)
          /\ \A q \in Starts(b) : p < q => s <= q
          /\ IsText(b[s - 1])
      BY <1>8, <2>1
    <3> HIDE DEF s
    <3>2. s <= n + l => s \in Starts(c)
      BY <1>1, <1>6, <3>1
    <3>3. \A q \in Starts(c) : p < q => s <= q
      BY <1>6, <3>1
    <3>4. c[s - 1] = b[s - 1]
      <4>1. s - 1 \in 1..n
        BY <1>1, <3>1
      <4> QED
        BY <1>2, <4>1
    <3>5. s <= n + l + 1
      BY <1>1, <3>1
    <3> QED
      BY <3>1, <3>2, <3>3, <3>4, <3>5
  <2>2. CASE p = n + 1
    <3>1. NextStart(c, p) = n + l + 1 /\ (n + l + 1) - 1 = n + l
      BY <1>1, <1>7, <2>2
    <3>2. \A q \in Starts(c) : ~(p < q)
      <4>1. \A q \in Starts(b) : q \in 1..n
        BY <1>8
      <4> QED
        BY <1>1, <1>6, <2>2, <4>1
    <3>3. IsText(c[n + l])
      BY <1>3, <1>5
    <3> QED
      BY <1>1, <2>2, <3>1, <3>2, <3>3
  <2> QED
    BY <1>6, <2>1, <2>2
<1>11. WellFramed(c)
  BY <1>1, <1>9, <1>10 DEF WellFramed
<1> QED
  BY <1>6, <1>11 DEF c, n

\* Frames make a body of frames, with as many starts as frames.
LEMMA FramesAll ==
  \A s \in Seq(Frame) : /\ WellFramed(FlattenSeq(s))
                        /\ IsFiniteSet(Starts(FlattenSeq(s)))
                        /\ Cardinality(Starts(FlattenSeq(s))) = Len(s)
<1> DEFINE F(s) == FlattenSeq(s)
           T == {s \in Seq(Frame) : /\ WellFramed(F(s)) /\ IsFiniteSet(Starts(F(s)))
                                    /\ Cardinality(Starts(F(s))) = Len(s)}
<1>1. Frame \subseteq Seq(Unit)
  BY DEF Frame
<1>2. \A s \in Seq(Frame) : s \in Seq(Seq(Unit)) /\ F(s) \in Seq(Unit)
  <2>1. \A s \in Seq(Frame) : s \in Seq(Seq(Unit))
    BY <1>1, SeqMonotonic
  <2> QED
    BY <2>1, FlatType
<1>3. \A s \in Seq(Frame), o \in Frame : F(Append(s, o)) = F(s) \o o
  BY <1>1, <1>2, FlatAppend
<1>4. F(<<>>) = <<>>
  BY FlatEmpty
<1> HIDE DEF F
<1>5. <<>> \in T
  <2>1. Starts(<<>>) = {}
    BY DEF Starts
  <2>2. WellFramed(<<>>)
    BY <2>1 DEF WellFramed
  <2>3. IsFiniteSet({}) /\ Cardinality({}) = 0
    BY FS_EmptySet
  <2>4. Len(<<>>) = 0 /\ <<>> \in Seq(Frame)
    OBVIOUS
  <2> QED
    BY ONLY <1>4, <2>1, <2>2, <2>3, <2>4
<1>6. ASSUME NEW s \in Seq(Frame), s \in T, NEW o \in Frame PROVE Append(s, o) \in T
  <2> DEFINE b == F(s)
  <2>1. b \in Seq(Unit) /\ WellFramed(b) /\ IsFiniteSet(Starts(b)) /\ Cardinality(Starts(b)) = Len(s)
    BY <1>2, <1>6
  <2> HIDE DEF b
  <2>2. WellFramed(b \o o) /\ Starts(b \o o) = Starts(b) \cup {Len(b) + 1}
    BY <2>1, FrameAdded
  <2>3. Len(b) + 1 \notin Starts(b)
    BY <2>1 DEF Starts
  <2>4. IsFiniteSet(Starts(b \o o)) /\ Cardinality(Starts(b \o o)) = Len(s) + 1
    BY <2>1, <2>2, <2>3, FS_AddElement
  <2>5. F(Append(s, o)) = b \o o
    BY <1>3 DEF b
  <2>6. Len(Append(s, o)) = Len(s) + 1 /\ Append(s, o) \in Seq(Frame)
    OBVIOUS
  <2> QED
    BY ONLY <2>2, <2>4, <2>5, <2>6
<1>7. \A s \in Seq(Frame) : s \in T
  <2> HIDE DEF T
  <2> QED
    BY <1>5, <1>6, AllSequences
<1> QED
  BY <1>7 DEF F

\* A bound on every length prefix.
Within(s, m) == \A p \in Starts(s) : s[p][2] <= m

\* It holds for frames put together.
LEMMA FramesWithin ==
  ASSUME NEW m \in Nat
  PROVE  \A s \in Seq(Seq(Unit)) :
           (\A i \in 1..Len(s) : Within(s[i], m)) => Within(FlattenSeq(s), m)
<1> DEFINE T == {s \in Seq(Seq(Unit)) : (\A i \in 1..Len(s) : Within(s[i], m)) => Within(FlattenSeq(s), m)}
<1>1. <<>> \in T
  <2>1. Within(<<>>, m)
    BY DEF Within, Starts
  <2>2. <<>> \in Seq(Seq(Unit))
    OBVIOUS
  <2> QED
    BY <2>1, <2>2, FlatEmpty
<1>2. ASSUME NEW s \in Seq(Seq(Unit)), s \in T, NEW o \in Seq(Unit) PROVE Append(s, o) \in T
  <2>0. Append(s, o) \in Seq(Seq(Unit))
    <3> DEFINE V == Seq(Unit)
    <3>1. s \in Seq(V) /\ o \in V
      OBVIOUS
    <3> HIDE DEF V
    <3>2. Append(s, o) \in Seq(V)
      BY ONLY <3>1
    <3> QED
      BY <3>2 DEF V
  <2> SUFFICES ASSUME \A i \in 1..Len(Append(s, o)) : Within(Append(s, o)[i], m)
               PROVE  Within(FlattenSeq(Append(s, o)), m)
    BY <2>0
  <2> DEFINE b == FlattenSeq(s)
  <2>1. /\ Len(Append(s, o)) = Len(s) + 1 /\ Append(s, o)[Len(s) + 1] = o /\ Len(s) \in Nat
        /\ \A i \in 1..Len(s) : Append(s, o)[i] = s[i] /\ i \in 1..(Len(s) + 1)
    <3> DEFINE V == Seq(Unit)
    <3>1. s \in Seq(V) /\ o \in V
      OBVIOUS
    <3> HIDE DEF V
    <3> QED
      BY ONLY <3>1
  <2>2. Within(b, m)
    <3>1. \A i \in 1..Len(s) : Within(s[i], m)
      BY <2>1
    <3> QED
      BY <1>2, <3>1
  <2>3. Within(o, m)
    <3>1. Len(s) + 1 \in 1..Len(Append(s, o))
      BY <2>1
    <3>2. Within(Append(s, o)[Len(s) + 1], m)
      BY <3>1
    <3> QED
      BY ONLY <2>1, <3>2
  <2>4. FlattenSeq(Append(s, o)) = b \o o /\ b \in Seq(Unit)
    BY FlatAppend, FlatType
  <2> HIDE DEF b
  <2>5. Within(b \o o, m)
    <3> SUFFICES ASSUME NEW p \in 1..Len(b \o o), IsPrefixUnit((b \o o)[p])
                 PROVE  (b \o o)[p][2] <= m
      BY DEF Within, Starts
    <3>1. Len(b \o o) = Len(b) + Len(o) /\ Len(b) \in Nat /\ Len(o) \in Nat
      BY <2>4
    <3>2. CASE p <= Len(b)
      <4>1. p \in 1..Len(b) /\ (b \o o)[p] = b[p]
        BY <2>4, <3>1, <3>2
      <4> HIDE DEF IsPrefixUnit
      <4> QED
        BY <2>2, <4>1 DEF Within, Starts
    <3>3. CASE p > Len(b)
      <4>1. p - Len(b) \in 1..Len(o) /\ (b \o o)[p] = o[p - Len(b)]
        BY <2>4, <3>1, <3>3
      <4> HIDE DEF IsPrefixUnit
      <4> QED
        BY <2>3, <4>1 DEF Within, Starts
    <3> QED
      BY <3>1, <3>2, <3>3
  <2> QED
    BY <2>4, <2>5
<1> QED
  <2> HIDE DEF T
  <2>1. \A s \in Seq(Seq(Unit)) : s \in T
    BY <1>1, <1>2, AllSequences
  <2> QED
    BY <2>1 DEF T

\* The frame of a formatter with a length prefix.
LEMMA PrefixedFrame ==
  ASSUME NEW t \in Seq(TextUnit) \ {<<>>}, NEW h \in Seq(HeaderUnit), NEW k \in Nat,
         \A i \in 1..Len(h) : ~IsPrefixUnit(h[i]), k = Len(h) + Len(t),
         Prefix(k) \in HeaderUnit
  PROVE  /\ (<<Prefix(k)>> \o h) \o t \in Frame
         /\ \A m \in Nat : k <= m => Within((<<Prefix(k)>> \o h) \o t, m)
<1> DEFINE x == Prefix(k)
           g == <<x>> \o h
           o == g \o t
<1>1. IsPrefixUnit(x) /\ x[2] = k
  BY DEF Prefix, IsPrefixUnit
<1>2. t \in Seq(Unit) /\ h \in Seq(Unit) /\ x \in Unit /\ \A u \in TextUnit : IsText(u) /\ ~IsPrefixUnit(u)
  <2>1. t \in Seq(Unit)
    BY SeqMonotonic DEF TextUnit
  <2>2. h \in Seq(Unit)
    BY SeqMonotonic DEF HeaderUnit
  <2>3. x \in Unit
    BY DEF HeaderUnit
  <2>4. \A u \in TextUnit : IsText(u) /\ ~IsPrefixUnit(u)
    BY DEF TextUnit, IsText, IsHeaderUnit, IsPrefixUnit
  <2> QED
    BY <2>1, <2>2, <2>3, <2>4
<1> HIDE DEF x, IsPrefixUnit, IsText
<1> DEFINE a == Len(h)
           b == Len(t)
<1>3. a \in Nat /\ b \in Nat /\ b > 0 /\ k = a + b
  OBVIOUS
<1>4. g \in Seq(Unit) /\ Len(g) = a + 1 /\ g[1] = x /\ \A i \in 2..(a + 1) : g[i] = h[i - 1]
  BY <1>2
<1> HIDE DEF g
<1>5. o \in Seq(Unit) /\ Len(o) = (a + 1) + b
      /\ (\A i \in 1..(a + 1) : o[i] = g[i]) /\ (\A i \in (a + 2)..(a + 1 + b) : o[i] = t[i - (a + 1)])
  <2>1. g \in Seq(Unit) /\ t \in Seq(Unit) /\ Len(g) = a + 1 /\ Len(t) = b /\ a \in Nat /\ b \in Nat
    BY <1>2, <1>3, <1>4
  <2> HIDE DEF a, b
  <2> DEFINE n == Len(g)
             m == Len(t)
  <2>2. /\ o \in Seq(Unit) /\ Len(o) = n + m
        /\ \A i \in 1..(n + m) : o[i] = IF i <= n THEN g[i] ELSE t[i - n]
    BY <2>1, ConcatProperties
  <2>3. n = a + 1 /\ m = b /\ a \in Nat /\ b \in Nat
    BY <2>1
  <2> HIDE DEF o, n, m
  <2>4. Len(o) = (a + 1) + b
    BY ONLY <2>2, <2>3
  <2>5. \A i \in 1..(a + 1) : o[i] = g[i]
    BY ONLY <2>2, <2>3
  <2>6. \A i \in (a + 2)..(a + 1 + b) : o[i] = t[i - (a + 1)]
    BY ONLY <2>2, <2>3
  <2>7. o \in Seq(Unit)
    BY ONLY <2>2
  <2> QED
    BY ONLY <2>4, <2>5, <2>6, <2>7
<1> HIDE DEF o, a, b
<1>6. o[1] = x
  <2>1. 1 \in 1..(a + 1)
    BY ONLY <1>3
  <2>2. o[1] = g[1]
    BY ONLY <1>5, <2>1
  <2> QED
    BY ONLY <1>4, <2>2
<1>7. ASSUME NEW i \in 2..Len(o) PROVE ~IsPrefixUnit(o[i])
  <2>1. CASE i <= a + 1
    <3>1. i \in 1..(a + 1) /\ i \in 2..(a + 1) /\ i - 1 \in 1..a
      BY <1>3, <1>5, <2>1
    <3>2. o[i] = h[i - 1]
      BY <1>4, <1>5, <3>1
    <3> QED
      BY <3>1, <3>2 DEF a
  <2>2. CASE i > a + 1
    <3>1. i \in (a + 2)..(a + 1 + b) /\ i - (a + 1) \in 1..b
      BY <1>3, <1>5, <2>2
    <3>2. o[i] = t[i - (a + 1)] /\ t[i - (a + 1)] \in TextUnit
      BY <1>5, <3>1 DEF b
    <3> QED
      BY <1>2, <3>2
  <2> QED
    BY <1>3, <1>5, <2>1, <2>2
<1>8. IsText(o[Len(o)])
  <2>1. Len(o) \in (a + 2)..(a + 1 + b) /\ Len(o) - (a + 1) = b /\ b \in 1..b
    BY <1>3, <1>5
  <2>2. o[Len(o)] = t[b] /\ t[b] \in TextUnit
    <3>1. o[Len(o)] = t[Len(o) - (a + 1)]
      BY <1>5, <2>1
    <3> QED
      BY <2>1, <3>1 DEF b
  <2> QED
    BY <1>2, <2>2
<1>9. o \in Frame
  <2>1. Len(o) > 1 /\ Len(o) - 1 = k
    <3>1. Len(o) = (a + 1) + b
      BY <1>5
    <3> QED
      BY ONLY <1>3, <3>1
  <2>2. IsPrefixUnit(o[1]) /\ o[1][2] = Len(o) - 1
    BY <1>1, <1>6, <2>1
  <2> QED
    BY <1>5, <1>7, <1>8, <2>1, <2>2 DEF Frame
<1>10. ASSUME NEW m \in Nat, k <= m PROVE Within(o, m)
  <2>1. \A p \in 1..Len(o) : p = 1 \/ p \in 2..Len(o)
    BY <1>3, <1>5
  <2>2. \A p \in Starts(o) : p = 1
    BY <1>7, <2>1 DEF Starts
  <2> QED
    BY <1>1, <1>6, <1>10, <2>2 DEF Within
<1> QED
  BY <1>9, <1>10 DEF o, g, x

\* Max, of two.
LEMMA MaxOfTwo ==
  ASSUME NEW a \in Int, NEW b \in Int
  PROVE  Max({a, b}) = IF a >= b THEN a ELSE b
<1> DEFINE P(x) == x \in {a, b} /\ \A y \in {a, b} : x >= y
<1>1. \E x : P(x)
  <2>1. P(a) \/ P(b)
    OBVIOUS
  <2> QED
    BY <2>1
<1>2. P(CHOOSE x : P(x))
  BY <1>1
<1>3. Max({a, b}) = CHOOSE x : P(x)
  BY DEF Max
<1> QED
  BY <1>2, <1>3

\* What all lines not too long become, all formatters are.
LEMMA FormattersIn ==
  ASSUME ConfigOK, NEW rs \in EData, NEW ls \in Seq(Nat \ {0}), NEW G,
         \A e \in {"drop", "lost"} : ErrorFormatter(e) \in G,
         \A t \in Seq(TextUnit) \ {<<>>} :
           (format = "raw" => Len(t) <= maxLine) => LineFormatter(t) \in G
  PROVE  Formatters(rs, ls) \in Seq(G)
<1>1. ASSUME NEW t \in Seq(TextUnit) \ {<<>>} PROVE SubFormatters(t) \in Seq(G)
  <2>1. CASE ~Splits(t)
    <3>1. Len(t) \in Nat /\ maxLine \in Nat
      BY DEF ConfigOK
    <3>2. format = "raw" => Len(t) <= maxLine
      BY <2>1, <3>1 DEF Splits
    <3>3. LineFormatter(t) \in G
      BY <3>2
    <3>4. SubFormatters(t) = <<LineFormatter(t)>>
      BY <2>1, SubFormattersType
    <3> QED
      BY <3>3, <3>4
  <2>2. CASE Splits(t)
    <3> DEFINE p(j) == SubSeq(t, (j - 1) * maxLine + 1, Min({j * maxLine, Len(t)}))
               c == PieceCount(Len(t))
               sf == SubFormatters(t)
    <3>1. sf \in Seq(Formatter) /\ Len(sf) = c /\ \A j \in 1..c : sf[j] = LineFormatter(p(j))
      BY <2>2, SubFormattersType
    <3>2. \A j \in 1..c : p(j) \in Seq(TextUnit) \ {<<>>} /\ Len(p(j)) <= maxLine
      BY PieceType
    <3> HIDE DEF p, c, sf
    <3>3. \A j \in 1..c : sf[j] \in G
      BY <3>1, <3>2
    <3>4. sf = [j \in 1..c |-> sf[j]] /\ c \in Nat
      BY <3>1
    <3>5. sf \in Seq(G)
      BY <3>3, <3>4
    <3> QED
      BY <3>5 DEF sf
  <2> QED
    BY <2>1, <2>2
<1> DEFINE es == Errors(rs)
           lf == LineFormatters(ls)
           Q == Seq(G)
<1>2. /\ rs \in Seq({"drop", "lost"})
      /\ es \in Seq(Formatter) /\ Len(es) = Len(rs)
      /\ \A i \in 1..Len(rs) : es[i] = ErrorFormatter(rs[i])
      /\ lf \in Seq(Seq(Formatter)) /\ Len(lf) = Len(ls)
      /\ \A i \in 1..Len(ls) : lf[i] = SubFormatters(LineText(i, ls[i]))
  BY FormattersType
<1> HIDE DEF es, lf
<1>3. es \in Seq(G)
  <2>1. \A i \in 1..Len(rs) : es[i] \in G
    BY <1>2
  <2>2. es = [i \in 1..Len(rs) |-> es[i]] /\ Len(rs) \in Nat
    BY <1>2
  <2> QED
    BY <2>1, <2>2
<1>4. lf \in Seq(Q)
  <2>1. \A i \in 1..Len(ls) : LineText(i, ls[i]) \in Seq(TextUnit) \ {<<>>}
    BY LineTextType
  <2>2. \A i \in 1..Len(ls) : lf[i] \in Q
    BY <1>1, <1>2, <2>1
  <2>3. lf = [i \in 1..Len(ls) |-> lf[i]] /\ Len(ls) \in Nat
    BY <1>2
  <2> HIDE DEF Q
  <2> QED
    BY <2>2, <2>3
<1>5. FlattenSeq(lf) \in Seq(G)
  BY <1>4, FlatType
<1> QED
  BY <1>3, <1>5 DEF Formatters, es, lf

\* What a formatter puts out is a frame, unless the input has its own.
LEMMA LineFrame ==
  ASSUME ConfigOK, format # "lprfc5424", headerSize = names, NEW t \in Seq(TextUnit) \ {<<>>}
  PROVE  /\ LineFormatter(t).header \o LineFormatter(t).text \in Frame
         /\ format = "raw" /\ Len(t) <= maxLine =>
              Within(LineFormatter(t).header \o LineFormatter(t).text, maxLine + headerSize)
<1>1. LineFormatter(t).header = LineHeader(t) /\ LineFormatter(t).text = t
  BY DEF LineFormatter
<1>2. Len(t) \in Nat /\ names \in Nat /\ maxLine \in Nat /\ headerSize = names
  BY DEF ConfigOK
<1>3. CASE format = "raw"
  <2> DEFINE h == SyslogHeader
             k == Len(t) + headerSize
  <2>1. LineHeader(t) = <<Prefix(k)>> \o h
    BY <1>3 DEF LineHeader
  <2>2. h \in Seq(HeaderUnit) /\ Len(h) = names /\ \A i \in 1..Len(h) : ~IsPrefixUnit(h[i])
    <3>1. \A i \in 1..names : <<"name", 0, i>> \in HeaderUnit /\ ~IsPrefixUnit(<<"name", 0, i>>)
      <4>1. \A i \in 1..names : <<"name", 0, i>> \in HeaderUnit
        BY <1>2, UnitKinds
      <4>2. \A i \in 1..names : ~IsPrefixUnit(<<"name", 0, i>>)
        BY DEF IsPrefixUnit
      <4> QED
        BY <4>1, <4>2
    <3>2. h = [i \in 1..names |-> <<"name", 0, i>>]
      BY DEF SyslogHeader
    <3> HIDE DEF h, IsPrefixUnit
    <3> QED
      BY <1>2, <3>1, <3>2
  <2>3. k \in Nat /\ k = Len(h) + Len(t)
    <3> HIDE DEF h
    <3> QED
      BY <1>2, <2>2
  <2>4. Prefix(k) \in HeaderUnit
    BY <2>3, UnitKinds DEF Prefix
  <2> DEFINE o == (<<Prefix(k)>> \o h) \o t
  <2> HIDE DEF h, k
  <2>5. o \in Frame /\ \A m \in Nat : k <= m => Within(o, m)
    BY <2>2, <2>3, <2>4, PrefixedFrame
  <2>6. Len(t) <= maxLine => k <= maxLine + headerSize /\ maxLine + headerSize \in Nat
    BY <1>2 DEF k
  <2>7. LineFormatter(t).header \o LineFormatter(t).text = o
    BY <1>1, <2>1
  <2> HIDE DEF o
  <2> QED
    BY <2>5, <2>6, <2>7
<1>4. CASE format = "rfc5424"
  <2> DEFINE k == Len(t)
             o == (<<Prefix(k)>> \o <<>>) \o t
  <2>1. LineHeader(t) = <<Prefix(k)>>
    BY <1>4 DEF LineHeader
  <2>2. Prefix(k) \in HeaderUnit
    BY <1>2, UnitKinds DEF Prefix
  <2>3. <<>> \in Seq(HeaderUnit) /\ Len(<<>>) = 0 /\ k = 0 + Len(t)
    BY <1>2
  <2>4. \A i \in 1..Len(<<>>) : ~IsPrefixUnit(<<>>[i])
    BY <2>3
  <2>5. o \in Frame
    <3>1. k \in Nat /\ k = Len(<<>>) + Len(t)
      BY <1>2, <2>3
    <3> HIDE DEF k
    <3> QED
      BY <2>2, <2>3, <2>4, <3>1, PrefixedFrame
  <2>6. <<Prefix(k)>> \o <<>> = <<Prefix(k)>>
    <3> DEFINE x == Prefix(k)
    <3> HIDE DEF x
    <3>1. <<x>> \in Seq({x})
      OBVIOUS
    <3>2. <<x>> \o <<>> = <<x>>
      BY <3>1
    <3> QED
      BY <3>2 DEF x
  <2> QED
    BY <1>1, <1>4, <2>1, <2>5, <2>6
<1> QED
  BY <1>3, <1>4 DEF ConfigOK, Formats

\* So is a report.
LEMMA ErrorFrame ==
  ASSUME NEW e \in {"drop", "lost"}
  PROVE  /\ ErrorFormatter(e).header \o ErrorFormatter(e).text \in Frame
         /\ \A m \in Nat : ReportLength <= m => Within(ErrorFormatter(e).header \o ErrorFormatter(e).text, m)
<1> DEFINE t == ReportText(e)
           k == ReportLength
           o == (<<Prefix(k)>> \o <<>>) \o t
<1>1. t \in Seq(TextUnit) \ {<<>>} /\ Len(t) = k /\ k \in Nat
      /\ ErrorFormatter(e).header = <<Prefix(k)>> /\ ErrorFormatter(e).text = t
  BY ErrorType DEF ReportLength
<1> HIDE DEF k, t
<1>2. Prefix(k) \in HeaderUnit
  BY <1>1, UnitKinds DEF Prefix
<1>3. <<>> \in Seq(HeaderUnit) /\ Len(<<>>) = 0 /\ k = Len(<<>>) + Len(t)
  BY <1>1
<1>4. \A i \in 1..Len(<<>>) : ~IsPrefixUnit(<<>>[i])
  BY <1>3
<1>5. o \in Frame /\ \A m \in Nat : k <= m => Within(o, m)
  BY <1>1, <1>2, <1>3, <1>4, PrefixedFrame
<1>6. <<Prefix(k)>> \o <<>> = <<Prefix(k)>>
  <2> DEFINE x == Prefix(k)
  <2> HIDE DEF x
  <2>1. <<x>> \in Seq({x})
    OBVIOUS
  <2>2. <<x>> \o <<>> = <<x>>
    BY <2>1
  <2> QED
    BY <2>2 DEF x
<1>7. ErrorFormatter(e).header \o ErrorFormatter(e).text = o
  BY <1>1, <1>6
<1> HIDE DEF o
<1> QED
  BY <1>5, <1>7 DEF k

\* The whole body is made of frames, and msgCount of them.
LEMMA WholeFramed ==
  ASSUME LPInv, stage = "read", format # "lprfc5424"
  PROVE  /\ Whole \in Seq(Unit) /\ WellFramed(Whole)
         /\ Cardinality(Starts(Whole)) = msgCount
         /\ format = "raw" => Within(Whole, Max({ReportLength, maxLine + headerSize}))
<1> DEFINE fs == Formatters(reports, lines)
           G == {f \in Formatter : f.header \o f.text \in Frame}
           os == Outputs(fs)
<1>1. /\ ConfigOK /\ reports \in EData /\ lines \in Seq(Nat \ {0})
      /\ fs \in Seq(Formatter) /\ Whole \in Seq(Unit) /\ headerSize = names /\ msgCount = Len(fs)
  BY LPInvTypes DEF LPInv
<1>2. fs \in Seq(G)
  <2>1. \A e \in {"drop", "lost"} : ErrorFormatter(e) \in G
    BY ErrorType, ErrorFrame
  <2>2. \A t \in Seq(TextUnit) \ {<<>>} : LineFormatter(t) \in G
    BY <1>1, LineFormatterType, LineFrame
  <2> HIDE DEF G
  <2> QED
    BY <1>1, <2>1, <2>2, FormattersIn
<1> HIDE DEF fs
<1>3. /\ os \in Seq(Seq(Unit)) /\ Len(os) = Len(fs) /\ Len(fs) \in Nat
      /\ \A i \in 1..Len(fs) : os[i] = fs[i].header \o fs[i].text
      /\ Whole = FlattenSeq(os)
  <2>1. Whole = FlattenSeq(os)
    BY DEF Whole, Output, fs
  <2>2. Len(fs) \in Nat
    BY <1>1
  <2>3. /\ os \in Seq(Seq(Unit)) /\ Len(os) = Len(fs)
        /\ \A i \in 1..Len(fs) : os[i] = fs[i].header \o fs[i].text
    BY <1>1, OutputsType
  <2> HIDE DEF os
  <2> QED
    BY <2>1, <2>2, <2>3
<1> HIDE DEF os
<1>4. os \in Seq(Frame)
  <2>1. \A i \in 1..Len(fs) : fs[i] \in G
    BY <1>2
  <2>2. \A i \in 1..Len(fs) : os[i] \in Frame
    BY <1>3, <2>1
  <2>3. os = [i \in 1..Len(fs) |-> os[i]]
    BY <1>3
  <2> QED
    BY <1>3, <2>2, <2>3
<1>5. WellFramed(Whole) /\ Cardinality(Starts(Whole)) = msgCount
  BY <1>1, <1>3, <1>4, FramesAll
<1>6. ASSUME format = "raw" PROVE Within(Whole, Max({ReportLength, maxLine + headerSize}))
  <2> DEFINE m == Max({ReportLength, maxLine + headerSize})
             H == {f \in Formatter : Within(f.header \o f.text, m)}
  <2>1. m \in Nat /\ ReportLength <= m /\ maxLine + headerSize <= m
    <3>1. ReportLength \in Nat /\ maxLine + headerSize \in Nat
      BY <1>1 DEF ReportLength, ConfigOK
    <3>2. m = IF ReportLength >= maxLine + headerSize THEN ReportLength ELSE maxLine + headerSize
      BY <3>1, MaxOfTwo
    <3> HIDE DEF m
    <3> QED
      BY <3>1, <3>2
  <2> HIDE DEF m
  <2>2. \A e \in {"drop", "lost"} : ErrorFormatter(e) \in H
    BY <2>1, ErrorType, ErrorFrame
  <2>3. \A t \in Seq(TextUnit) \ {<<>>} : Len(t) <= maxLine => LineFormatter(t) \in H
    <3> SUFFICES ASSUME NEW t \in Seq(TextUnit) \ {<<>>}, Len(t) <= maxLine PROVE LineFormatter(t) \in H
      OBVIOUS
    <3> DEFINE o == LineFormatter(t).header \o LineFormatter(t).text
    <3>1. o \in Frame /\ Within(o, maxLine + headerSize) /\ LineFormatter(t) \in Formatter
      BY <1>1, <1>6, LineFormatterType, LineFrame
    <3> HIDE DEF o
    <3>2. Within(o, m)
      <4> SUFFICES ASSUME NEW p \in Starts(o) PROVE o[p][2] <= m
        BY DEF Within
      <4>1. o[p][2] <= maxLine + headerSize
        BY <3>1 DEF Within
      <4>2. o[p] \in Unit
        BY <3>1 DEF Frame, Starts
      <4>3. o[p][2] \in Nat
        BY <4>2 DEF Unit
      <4>4. maxLine + headerSize \in Nat
        BY <1>1 DEF ConfigOK
      <4> QED
        BY <2>1, <4>1, <4>3, <4>4
    <3> QED
      BY <3>1, <3>2 DEF o
  <2>4. fs \in Seq(H)
    <3> HIDE DEF H
    <3> QED
      BY <1>1, <1>6, <2>2, <2>3, FormattersIn DEF fs
  <2>5. \A i \in 1..Len(os) : Within(os[i], m)
    <3>1. \A i \in 1..Len(fs) : fs[i] \in H
      BY <2>4
    <3> QED
      BY <1>3, <3>1
  <2>6. Within(Whole, m)
    BY <1>3, <2>1, <2>5, FramesWithin
  <2> QED
    BY <2>6 DEF m
<1> QED
  BY <1>1, <1>5, <1>6

-----------------------------------------------------------------------------
(***************************************************************************)
(* What has been read                                                      *)
(***************************************************************************)
\* It is what the whole begins with.
LEMMA BodyBegins ==
  ASSUME LPInv, stage = "read"
  PROVE  /\ body \in Seq(Unit) /\ Whole \in Seq(Unit)
         /\ \E r \in Seq(Unit) : body \o r = Whole
         /\ AtEnd => body = Whole
<1>1. Rest \in Seq(Unit)
  <2>1. CASE readers = <<>>
    BY <2>1 DEF Rest
  <2>2. CASE readers # <<>>
    <3> DEFINE f == Head(readers)
               r == Output(Tail(readers))
               hd == f.header
               tx == f.text
    <3>1. f = readers[1] /\ f \in Formatter /\ Tail(readers) \in Seq(Formatter)
      BY <2>2 DEF LPInv
    <3>2. hd \in Seq(Unit) /\ tx \in Seq(Unit) /\ Len(tx) > 0 /\ r \in Seq(Unit)
      BY <3>1, FormatterType, OutputsType
    <3>3. headerPos \in 0..Len(hd) /\ msgPos \in 0..(Len(tx) - 1)
      BY <2>2, <3>1 DEF LPInv, LPTypeOK
    <3>4. Rest = SubSeq(hd, headerPos + 1, Len(hd)) \o (SubSeq(tx, msgPos + 1, Len(tx)) \o r)
      BY <2>2 DEF Rest
    <3> HIDE DEF f, r, hd, tx
    <3>5. SubSeq(hd, headerPos + 1, Len(hd)) \in Seq(Unit) /\ SubSeq(tx, msgPos + 1, Len(tx)) \in Seq(Unit)
      BY <3>2, <3>3
    <3> QED
      BY <3>2, <3>4, <3>5
  <2> QED
    BY <2>1, <2>2
<1>2. body \in Seq(Unit) /\ body \o Rest = Whole /\ Whole \in Seq(Unit)
  BY LPInvTypes DEF LPInv
<1>3. AtEnd => body = Whole
  <2>1. AtEnd => Rest = <<>>
    BY DEF AtEnd, Rest
  <2>2. body \o <<>> = body
    BY <1>2
  <2> QED
    BY <1>2, <2>1, <2>2
<1> QED
  BY <1>1, <1>2, <1>3

\* TextWhole.
LEMMA TextWholeHolds == LPInv => TextWhole
<1> SUFFICES ASSUME LPInv PROVE TextWhole
  OBVIOUS
<1>1. AllText \in Seq(Unit)
  <2>1. Whole \in Seq(Unit) /\ TextOf(Whole) = AllText
    BY LPInvTypes, WholeText
  <2>2. <<"line", 0, 0>> \in Unit
    BY UnitKinds
  <2>3. \A x \in Unit : TextOf(Whole) \in Seq(Unit)
    BY <2>1, TextOfAppend
  <2> QED
    BY <2>1, <2>2, <2>3
<1>2. CASE stage # "read"
  <2>1. body = <<>> /\ ~AtEnd
    BY <1>2 DEF LPInv, AtEnd
  <2>2. TextOf(body) = <<>>
    BY <2>1, TextOfEmpty
  <2>3. IsPrefix(<<>>, AllText)
    BY <1>1 DEF IsPrefix
  <2> QED
    BY <2>1, <2>2, <2>3 DEF TextWhole
<1>3. CASE stage = "read"
  <2>1. PICK r \in Seq(Unit) : body \o r = Whole
    BY <1>3, BodyBegins
  <2>2. body \in Seq(Unit) /\ (AtEnd => body = Whole)
    BY <1>3, BodyBegins
  <2>3. TextOf(Whole) = AllText
    BY WholeText
  <2>4. TextOf(body \o r) = TextOf(body) \o TextOf(r)
    BY <2>2, TextOfConcat
  <2> DEFINE a == TextOf(body)
             b == TextOf(r)
  <2>5. a \in Seq(Unit) /\ b \in Seq(Unit)
    <3>1. <<"line", 0, 0>> \in Unit
      BY UnitKinds
    <3>2. \A x \in Unit : TextOf(body) \in Seq(Unit) /\ TextOf(r) \in Seq(Unit)
      BY <2>2, TextOfAppend
    <3> QED
      BY <3>1, <3>2
  <2>6. AllText = a \o b
    BY <2>1, <2>3, <2>4
  <2> HIDE DEF a, b
  <2>7. IsPrefix(a, a \o b)
    <3>1. Len(a) <= Len(a \o b)
      BY <2>5
    <3>2. SubSeq(a, 1, Len(a)) = a
      BY <2>5, SubSeqFull
    <3>3. SubSeq(a \o b, 1, Len(a)) = a
      BY ONLY <2>5
    <3> QED
      BY <3>1, <3>2, <3>3 DEF IsPrefix
  <2>8. AtEnd => a = AllText
    BY <2>2, <2>3 DEF a
  <2> QED
    BY <2>6, <2>7, <2>8 DEF TextWhole, a
<1> QED
  BY <1>2, <1>3

\* The frames of what w begins with are frames of w.
FramedPrefix(b, w) ==
  /\ Starts(b) = Starts(w) \cap (1..Len(b))
  /\ Len(b) \in Nat /\ Len(b) <= Len(w)
  /\ \A i \in 1..Len(b) : w[i] = b[i]
  /\ b # <<>> => 1 \in Starts(b)
  /\ \A p \in Starts(b) :
       /\ NextStart(b, p) = NextStart(w, p) /\ NextStart(b, p) \in Nat /\ p + 1 < NextStart(b, p)
       /\ NextStart(b, p) <= Len(b) => NextStart(b, p) \in Starts(b) /\ IsText(b[NextStart(b, p) - 1])
       /\ \A q \in Starts(b) : p < q => NextStart(b, p) <= q

\* A prefix of frames put together.
LEMMA PrefixFramed ==
  ASSUME NEW b \in Seq(Unit), NEW r \in Seq(Unit), NEW w, w = b \o r, WellFramed(w)
  PROVE  FramedPrefix(b, w)
<1> DEFINE n == Len(b)
<1>1. n \in Nat /\ Len(w) \in Nat /\ n <= Len(w) /\ (\A i \in 1..n : w[i] = b[i]) /\ (b # <<>> => n > 0)
      /\ (b # <<>> => w # <<>>)
  OBVIOUS
<1> HIDE DEF n, IsPrefixUnit, IsText
<1>2. Starts(b) = Starts(w) \cap (1..n)
  BY <1>1 DEF Starts, n
<1>3. b # <<>> => 1 \in Starts(b)
  <2>1. b # <<>> => 1 \in 1..n /\ 1 \in Starts(w)
    BY <1>1 DEF WellFramed
  <2> QED
    BY <1>2, <2>1
<1>4. ASSUME NEW p \in Starts(b)
      PROVE  /\ NextStart(b, p) = NextStart(w, p) /\ NextStart(b, p) \in Nat /\ p + 1 < NextStart(b, p)
             /\ NextStart(b, p) <= n => NextStart(b, p) \in Starts(b) /\ IsText(b[NextStart(b, p) - 1])
             /\ \A q \in Starts(b) : p < q => NextStart(b, p) <= q
  <2>1. p \in Starts(w) /\ p \in 1..n
    BY <1>2
  <2> DEFINE s == NextStart(w, p)
  <2>2. NextStart(b, p) = s
    BY <1>1, <2>1 DEF NextStart
  <2>3. /\ s \in Nat /\ p + 1 < s
        /\ s <= Len(w) => s \in Starts(w)
        /\ \A q \in Starts(w) : p < q => s <= q
        /\ IsText(w[s - 1])
    BY <2>1 DEF WellFramed
  <2> HIDE DEF s
  <2>4. s <= n => s \in Starts(b) /\ IsText(b[s - 1])
    <3> SUFFICES ASSUME s <= n PROVE s \in Starts(b) /\ IsText(b[s - 1])
      OBVIOUS
    <3>1. s \in 1..n /\ s - 1 \in 1..n /\ s <= Len(w)
      BY <1>1, <2>1, <2>3
    <3>2. b[s - 1] = w[s - 1]
      BY <1>1, <3>1
    <3> QED
      BY <1>2, <2>3, <3>1, <3>2
  <2>5. \A q \in Starts(b) : p < q => s <= q
    BY <1>2, <2>3
  <2> QED
    BY <2>2, <2>3, <2>4, <2>5 DEF s
<1> QED
  BY <1>1, <1>2, <1>3, <1>4 DEF n, FramedPrefix

\* Framed, FramesCounted of formats with frames, and LineLimit, of the body.
LEMMA BodyFramed ==
  ASSUME LPInv, stage = "read", format # "lprfc5424"
  PROVE  /\ Framed
         /\ AtEnd => msgCount = Cardinality(FrameStarts)
         /\ LineLimit
<1>1. PICK r \in Seq(Unit) : body \o r = Whole
  BY BodyBegins
<1>2. body \in Seq(Unit) /\ (AtEnd => body = Whole) /\ Whole \in Seq(Unit)
  BY BodyBegins
<1>3. /\ WellFramed(Whole) /\ Cardinality(Starts(Whole)) = msgCount
      /\ format = "raw" => Within(Whole, Max({ReportLength, maxLine + headerSize}))
  BY WholeFramed
<1>4. FrameStarts = Starts(body) /\ \A p : After(p) = NextStart(body, p)
  BY <1>2 DEF FrameStarts, Starts, After, NextStart
<1>5. /\ Starts(body) = Starts(Whole) \cap (1..Len(body))
      /\ Len(body) \in Nat /\ Len(body) <= Len(Whole)
      /\ \A i \in 1..Len(body) : Whole[i] = body[i]
      /\ body # <<>> => 1 \in Starts(body)
      /\ \A p \in Starts(body) :
           /\ NextStart(body, p) = NextStart(Whole, p) /\ NextStart(body, p) \in Nat /\ p + 1 < NextStart(body, p)
           /\ NextStart(body, p) <= Len(body) =>
                NextStart(body, p) \in Starts(body) /\ IsText(body[NextStart(body, p) - 1])
           /\ \A q \in Starts(body) : p < q => NextStart(body, p) <= q
  <2>1. body \in Seq(Unit) /\ r \in Seq(Unit) /\ Whole = body \o r /\ WellFramed(Whole)
    BY <1>1, <1>2, <1>3
  <2>2. FramedPrefix(body, Whole)
    BY ONLY <2>1, PrefixFramed
  <2> QED
    BY ONLY <2>2 DEF FramedPrefix
<1>6. Framed
  <2>1. AtEnd => \A p \in Starts(body) : NextStart(body, p) <= Len(body) + 1
    BY <1>2, <1>3 DEF WellFramed
  <2> QED
    BY <1>4, <1>5, <2>1 DEF Framed
<1>7. AtEnd => msgCount = Cardinality(FrameStarts)
  BY <1>2, <1>3, <1>4
<1>8. LineLimit
  <2> SUFFICES ASSUME format = "raw", NEW p \in Starts(body)
               PROVE  /\ body[p][2] <= Max({ReportLength, maxLine + headerSize})
                      /\ NextStart(body, p) <= Len(body) => IsText(body[NextStart(body, p) - 1])
    BY <1>4 DEF LineLimit
  <2>1. p \in Starts(Whole) /\ Whole[p] = body[p]
    BY <1>5
  <2>2. Whole[p][2] <= Max({ReportLength, maxLine + headerSize})
    BY <1>3, <2>1 DEF Within
  <2>3. NextStart(body, p) <= Len(body) => IsText(body[NextStart(body, p) - 1])
    BY <1>5
  <2> QED
    BY <2>1, <2>2, <2>3
<1> QED
  BY <1>6, <1>7, <1>8

\* The lists of one formatter each.
LEMMA FlatSingles ==
  \A ss \in Seq(Seq(Formatter)) : (\A i \in 1..Len(ss) : Len(ss[i]) = 1) => Len(FlattenSeq(ss)) = Len(ss)
<1> DEFINE Q == Seq(Formatter)
           T == {ss \in Seq(Q) : (\A i \in 1..Len(ss) : Len(ss[i]) = 1) => Len(FlattenSeq(ss)) = Len(ss)}
<1>1. \A s \in Seq(Q), x \in Q : FlattenSeq(Append(s, x)) = FlattenSeq(s) \o x /\ FlattenSeq(s) \in Q
  BY FlatAppend, FlatType
<1>2. \A s, x \in Q : Len(s \o x) = Len(s) + Len(x) /\ Len(s) \in Nat
  OBVIOUS
<1> HIDE DEF Q
<1>3. <<>> \in T
  <2>1. <<>> \in Seq(Q)
    BY EmptySeq
  <2>2. Len(FlattenSeq(<<>>)) = Len(<<>>)
    BY FlatEmpty
  <2> QED
    BY <2>1, <2>2
<1>4. ASSUME NEW s \in Seq(Q), s \in T, NEW x \in Q PROVE Append(s, x) \in T
  <2>1. /\ Append(s, x) \in Seq(Q) /\ Len(Append(s, x)) = Len(s) + 1 /\ Len(s) \in Nat
        /\ \A i \in 1..Len(s) : Append(s, x)[i] = s[i]
        /\ Append(s, x)[Len(s) + 1] = x
    BY AppendProperties
  <2> SUFFICES ASSUME \A i \in 1..Len(Append(s, x)) : Len(Append(s, x)[i]) = 1
               PROVE  Len(FlattenSeq(Append(s, x))) = Len(Append(s, x))
    BY <2>1
  <2>2. \A i \in 1..Len(s) : Len(s[i]) = 1
    <3> TAKE i \in 1..Len(s)
    <3>1. i \in 1..Len(Append(s, x)) /\ Append(s, x)[i] = s[i]
      BY <2>1
    <3>2. Len(Append(s, x)[i]) = 1
      BY <3>1
    <3> QED
      BY ONLY <3>1, <3>2
  <2>3. Len(x) = 1
    <3>1. Len(s) + 1 \in 1..Len(Append(s, x))
      BY <2>1
    <3>2. Len(Append(s, x)[Len(s) + 1]) = 1
      BY <3>1
    <3> QED
      BY ONLY <2>1, <3>2
  <2>4. Len(FlattenSeq(s)) = Len(s)
    BY <1>4, <2>2
  <2>5. Len(FlattenSeq(s) \o x) = Len(FlattenSeq(s)) + Len(x) /\ FlattenSeq(Append(s, x)) = FlattenSeq(s) \o x
    BY <1>1, <1>2
  <2> QED
    BY ONLY <2>1, <2>3, <2>4, <2>5
<1> QED
  <2> HIDE DEF T
  <2>1. \A s \in Seq(Q) : s \in T
    BY <1>3, <1>4, AllSequences
  <2> QED
    BY <2>1 DEF T, Q

\* Lines that are not raw become a formatter each.
LEMMA CountedWhole ==
  ASSUME LPInv, stage = "read", format # "raw"
  PROVE  msgCount = Len(reports) + Len(lines)
<1> DEFINE es == Errors(reports)
           lf == LineFormatters(lines)
<1>1. ConfigOK /\ reports \in EData /\ lines \in Seq(Nat \ {0}) /\ msgCount = Len(Formatters(reports, lines))
  BY LPInvTypes DEF LPInv
<1>2. /\ es \in Seq(Formatter) /\ Len(es) = Len(reports)
      /\ lf \in Seq(Seq(Formatter)) /\ Len(lf) = Len(lines)
      /\ \A i \in 1..Len(lines) : lf[i] = SubFormatters(LineText(i, lines[i]))
      /\ FlattenSeq(lf) \in Seq(Formatter)
  BY <1>1, FormattersType
<1> HIDE DEF es, lf
<1>3. \A i \in 1..Len(lf) : Len(lf[i]) = 1
  <2> TAKE i \in 1..Len(lf)
  <2>1. LineText(i, lines[i]) \in Seq(TextUnit) \ {<<>>} /\ lf[i] = SubFormatters(LineText(i, lines[i]))
    BY <1>1, <1>2, LineTextType
  <2>2. ~Splits(LineText(i, lines[i]))
    BY DEF Splits
  <2>3. lf[i] = <<LineFormatter(LineText(i, lines[i]))>>
    BY <1>1, <2>1, <2>2, SubFormattersType
  <2> QED
    BY <2>3
<1>4. Len(FlattenSeq(lf)) = Len(lines)
  BY <1>2, <1>3, FlatSingles
<1>5. Len(es \o FlattenSeq(lf)) = Len(es) + Len(FlattenSeq(lf))
  <2> DEFINE v == FlattenSeq(lf)
             Q == Formatter
  <2>1. es \in Seq(Q) /\ v \in Seq(Q)
    BY <1>2
  <2> HIDE DEF v, Q
  <2>2. Len(es \o v) = Len(es) + Len(v)
    BY ONLY <2>1
  <2> QED
    BY <2>2 DEF v
<1> QED
  BY <1>1, <1>2, <1>4, <1>5 DEF Formatters, es, lf

\* All three, in every state.
LEMMA FramesHold == LPInv => Framed /\ FramesCounted /\ LineLimit
<1> SUFFICES ASSUME LPInv PROVE Framed /\ FramesCounted /\ LineLimit
  OBVIOUS
<1>1. CASE stage # "read"
  <2>1. body = <<>> /\ ~AtEnd
    BY <1>1 DEF LPInv, AtEnd
  <2>2. FrameStarts = {}
    BY <2>1 DEF FrameStarts
  <2> QED
    BY <2>1, <2>2 DEF Framed, FramesCounted, LineLimit
<1>2. CASE stage = "read" /\ format = "lprfc5424"
  BY <1>2, CountedWhole DEF Framed, FramesCounted, LineLimit
<1>3. CASE stage = "read" /\ format # "lprfc5424"
  BY <1>3, BodyFramed, CountedWhole DEF FramesCounted
<1> QED
  BY <1>1, <1>2, <1>3

\* TextWhole, for whatever lines, limits and buffers.
THEOREM TextKept == Safety => []TextWhole
<1>1. GZInv => TextWhole
  BY TextWholeHolds DEF GZInv
<1> QED
  BY <1>1, GzipInvariance, PTL

\* Framed.
THEOREM BodyIsFramed == Safety => []Framed
<1>1. GZInv => Framed
  BY FramesHold DEF GZInv
<1> QED
  BY <1>1, GzipInvariance, PTL

\* FramesCounted.
THEOREM CountIsFrames == Safety => []FramesCounted
<1>1. GZInv => FramesCounted
  BY FramesHold DEF GZInv
<1> QED
  BY <1>1, GzipInvariance, PTL

\* LineLimit.
THEOREM LinesWithinLimit == Safety => []LineLimit
<1>1. GZInv => LineLimit
  BY FramesHold DEF GZInv
<1> QED
  BY <1>1, GzipInvariance, PTL
=============================================================================
