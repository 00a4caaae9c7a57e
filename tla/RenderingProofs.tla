--------------------------- MODULE RenderingProofs ---------------------------
(***************************************************************************)
(* What a host writes survives: MarkupIsSafe and MarkdownIsSafe, for texts *)
(* of any length over any characters, and every card sent to WhatsApp is   *)
(* usable: WhatsAppCardsStayUsable.  The properties speak of one state, so *)
(* the work is in the parsers and renderers, by induction over texts.      *)
(*                                                                         *)
(* The parsers are loops.  Of the one for the HTML subset it is enough     *)
(* that every round keeps the whole text (ParseLosesNothing).  For the     *)
(* ways back, Ends turns a loop into the function from each of its states  *)
(* to the one it stops in, and ReadsBack says what such a function must do *)
(* with the piece that a renderer writes of each span.  TreeReadsBack then *)
(* puts the pieces together; RichTextReadsBack and DiscordReadsBack are    *)
(* its two uses.  Spells is the invariant of the loop of parse_markdown:   *)
(* weaker than WellFormed, for a code run may have back quotes that do not *)
(* close it, yet enough for the tree to be read back.                      *)
(*                                                                         *)
(* For the cards, OneIsFree is the point: among as many candidates as      *)
(* there are titles and one, no two the same, one is free, so the loop     *)
(* that numbers equal titles ends, and with a title Meta takes.            *)
(***************************************************************************)
EXTENDS Rendering, Integers, SequenceTheorems, FiniteSetTheorems, WellFoundedInduction, TLAPS

------------------------------------------------------------------------------
(***************************************************************************)
(* Sequences, loops and concatenation.                                     *)
(***************************************************************************)

\* Every nonempty set of naturals has a least element.
LEMMA LeastNatural ==
  ASSUME NEW T \in SUBSET Nat, T # {}
  PROVE  \E m \in T : \A k \in T : m <= k
<1> DEFINE R == OpToRel(<, Nat)
<1>1. IsWellFoundedOn(R, Nat)
  BY NatLessThanWellFounded
<1>2. \A x, y \in Nat : <<x, y>> \in R <=> x < y
  BY DEF OpToRel
<1> HIDE DEF R
<1>3. PICK m \in T : \A k \in T : ~ (<<k, m>> \in R)
  BY <1>1, WFMin
<1>4. \A k \in T : k \in Nat /\ m \in Nat /\ ~ (k < m)
  BY <1>2, <1>3
<1>5. QED
  BY <1>4

\* Induction: a set of naturals with zero and every successor has every natural.
LEMMA NaturalInduction ==
  ASSUME NEW T, 0 \in T, \A n \in Nat : n \in T => n + 1 \in T
  PROVE  \A n \in Nat : n \in T
<1> DEFINE Others == {n \in Nat : n \notin T}
<1>1. SUFFICES ASSUME Others # {} PROVE FALSE
  OBVIOUS
<1>2. PICK m \in Others : \A k \in Others : m <= k
  BY <1>1, LeastNatural
<1>3. m \in Nat /\ m # 0 /\ m \notin T
  BY <1>2
<1>4. m - 1 \in Nat /\ ~ (m <= m - 1) /\ (m - 1) + 1 = m
  BY <1>3
<1>5. m - 1 \in T
  BY <1>2, <1>4
<1>6. QED
  BY <1>3, <1>4, <1>5

\* Induction on sequences, from the left to the right.
LEMMA SequenceInduction ==
  ASSUME NEW S, NEW T, << >> \in T,
         \A s \in Seq(S) : \A e \in S : s \in T => Append(s, e) \in T
  PROVE  \A s \in Seq(S) : s \in T
<1> DEFINE Done == {n \in Nat : \A s \in Seq(S) : Len(s) = n => s \in T}
<1>1. 0 \in Done
  BY EmptySeq
<1>2. ASSUME NEW n \in Nat, n \in Done PROVE n + 1 \in Done
  <2>1. SUFFICES ASSUME NEW s \in Seq(S), Len(s) = n + 1 PROVE s \in T
    OBVIOUS
  <2>2. s # << >>
    BY <2>1, EmptySeq
  <2>3. PICK t \in Seq(S), e \in S : s = Append(t, e)
    BY <2>2, SequenceEmptyOrAppend
  <2>4. Len(t) = n
    BY <2>1, <2>3, AppendProperties, LenProperties
  <2>5. QED
    BY <1>2, <2>3, <2>4
<1> HIDE DEF Done
<1>3. \A n \in Nat : n \in Done
  BY <1>1, <1>2, NaturalInduction
<1>4. QED
  BY <1>3, LenProperties DEF Done

\* A loop of n rounds, each of which stays in A, ...
Stays(round, A, n) == \A k \in 1..n : \A a \in A : round[<<k, a>>] \in A

\* ... and the states f it runs through.
Runs(f, A, first, round, n) ==
  /\ f \in [0..n -> A]
  /\ f[0] = first
  /\ \A k \in 1..n : f[k] = round[<<k, f[k - 1]>>]

\* Such a loop runs through some states.
LEMMA LoopRuns ==
  ASSUME NEW A, NEW first \in A, NEW round, NEW n \in Nat, Stays(round, A, n)
  PROVE  \E f : Runs(f, A, first, round, n)
<1> USE DEF Stays, Runs
<1> DEFINE Done == {m \in Nat : m <= n => \E f : Runs(f, A, first, round, m)}
<1>1. 0 \in Done
  <2>1. Runs([k \in 0..0 |-> first], A, first, round, 0)
    OBVIOUS
  <2>2. QED
    BY <2>1
<1>2. ASSUME NEW m \in Nat, m \in Done PROVE m + 1 \in Done
  <2>1. SUFFICES ASSUME m + 1 <= n PROVE \E f : Runs(f, A, first, round, m + 1)
    OBVIOUS
  <2>2. PICK f : Runs(f, A, first, round, m)
    BY <1>2, <2>1
  <2> DEFINE last == round[<<m + 1, f[m]>>]
             g == [k \in 0..m + 1 |-> IF k = m + 1 THEN last ELSE f[k]]
  <2>3. last \in A
    <3>1. m + 1 \in 1..n /\ f[m] \in A
      BY <2>1, <2>2
    <3>2. QED
      BY <3>1
  <2> HIDE DEF last
  <2>4. g \in [0..m + 1 -> A]
    BY <2>2, <2>3
  <2>5. g[0] = first
    BY <2>2
  <2>6. ASSUME NEW k \in 1..m + 1 PROVE g[k] = round[<<k, g[k - 1]>>]
    <3>1. g[k - 1] = f[k - 1]
      BY <2>6
    <3>2. CASE k = m + 1
      <4>1. g[k] = last /\ k - 1 = m
        BY <3>2
      <4>2. last = round[<<k, f[k - 1]>>]
        BY <3>2, <4>1 DEF last
      <4>3. QED
        BY <3>1, <4>1, <4>2
    <3>3. CASE k # m + 1
      <4>1. k \in 1..m /\ g[k] = f[k]
        BY <3>3
      <4>2. QED
        BY <2>2, <3>1, <4>1
    <3>4. QED
      BY <3>2, <3>3
  <2> HIDE DEF g
  <2>7. Runs(g, A, first, round, m + 1)
    BY <2>4, <2>5, <2>6
  <2>8. QED
    BY <2>7
<1> HIDE DEF Done
<1>3. \A m \in Nat : m \in Done
  BY <1>1, <1>2, NaturalInduction
<1>4. n <= n
  OBVIOUS
<1> HIDE DEF Runs
<1>5. QED
  BY <1>3, <1>4 DEF Done

\* Two loops that start alike and go on alike are the same.
Agree(f, g, n) == f[0] = g[0] /\ \A k \in 1..n : f[k - 1] = g[k - 1] => f[k] = g[k]

\* Two runs of a loop that agree in every round are one.
LEMMA LoopIsOne ==
  ASSUME NEW f, NEW g, NEW n \in Nat, Agree(f, g, n)
  PROVE  \A k \in 0..n : f[k] = g[k]
<1> DEFINE Done == {k \in Nat : k <= n => f[k] = g[k]}
<1>1. 0 \in Done
  BY DEF Agree
<1>2. ASSUME NEW k \in Nat, k \in Done PROVE k + 1 \in Done
  <2>1. SUFFICES ASSUME k + 1 <= n PROVE f[k + 1] = g[k + 1]
    OBVIOUS
  <2>2. k + 1 \in 1..n /\ (k + 1) - 1 = k /\ k <= n
    BY <2>1
  <2>3. f[k] = g[k]
    BY <1>2, <2>2
  <2>4. QED
    BY <2>2, <2>3 DEF Agree
<1> HIDE DEF Done
<1>3. \A k \in Nat : k \in Done
  BY <1>1, <1>2, NaturalInduction
<1>4. QED
  BY <1>3 DEF Done

(***************************************************************************)
(* FlattenSeq.                                                             *)
(***************************************************************************)
\* The pieces are put together from the left.
LEMMA FlattenRuns ==
  ASSUME NEW S, NEW s \in Seq(Seq(S))
  PROVE  \E f \in [0..Len(s) -> Seq(S)] :
           /\ f[0] = << >>
           /\ \A k \in 1..Len(s) : f[k] = f[k - 1] \o s[k]
           /\ FlattenSeq(s) = f[Len(s)]
<1> DEFINE n == Len(s)
           round == [p \in (1..n) \X Seq(S) |-> p[2] \o s[p[1]]]
           Step(f, i) == IF i = 1 THEN s[i] ELSE f[i - 1] \o s[i]
           flatten == CHOOSE f : f = [i \in 1..n |-> Step(f, i)]
<1>1. n \in Nat /\ << >> \in Seq(S) /\ \A k \in 1..n : s[k] \in Seq(S)
  BY EmptySeq, LenProperties, ElementOfSeq
<1> HIDE DEF n
<1>2. \A k \in 1..n : \A a \in Seq(S) : round[<<k, a>>] = a \o s[k]
  OBVIOUS
<1>3. \A k \in 1..n : \A a \in Seq(S) : round[<<k, a>>] \in Seq(S)
  BY <1>1, <1>2, ConcatProperties
<1> HIDE DEF round
<1>4. PICK f : Runs(f, Seq(S), << >>, round, n)
  BY <1>1, <1>3, LoopRuns DEF Stays
<1> USE DEF Runs
<1>5. \A k \in 1..n : f[k] = f[k - 1] \o s[k]
  <2>1. SUFFICES ASSUME NEW k \in 1..n PROVE f[k] = f[k - 1] \o s[k]
    OBVIOUS
  <2>2. k - 1 \in 0..n
    BY <1>1
  <2>3. f[k - 1] \in Seq(S)
    BY <1>4, <2>2
  <2>4. QED
    BY <1>2, <1>4, <2>3
<1>6. ASSUME n # 0 PROVE f[1] = s[1]
  <2>1. 1 \in 1..n /\ 1 - 1 = 0
    BY <1>1, <1>6
  <2>2. f[1] = << >> \o s[1] /\ s[1] \in Seq(S)
    BY <1>1, <1>4, <1>5, <2>1
  <2>3. QED
    BY <2>2, ConcatEmptySeq
<1>7. FlattenSeq(s) = f[n]
  <2>1. CASE n = 0
    <3>1. s = << >>
      BY <2>1, EmptySeq DEF n
    <3>2. FlattenSeq(s) = s
      BY <2>1 DEF FlattenSeq, n
    <3>3. QED
      BY <1>4, <2>1, <3>1, <3>2
  <2>2. CASE n # 0
    <3> DEFINE g == [i \in 1..n |-> f[i]]
    <3>1. \A i \in 1..n : g[i] = Step(g, i)
      <4>1. SUFFICES ASSUME NEW i \in 1..n PROVE g[i] = Step(g, i)
        OBVIOUS
      <4>2. CASE i = 1
        BY <1>6, <2>2, <4>2
      <4>3. CASE i # 1
        <5>1. i - 1 \in 1..n
          BY <1>1, <4>3
        <5>2. g[i] = f[i] /\ g[i - 1] = f[i - 1]
          BY <5>1
        <5>3. QED
          BY <1>5, <4>3, <5>2
      <4>4. QED
        BY <4>2, <4>3
    <3>2. g = [i \in 1..n |-> Step(g, i)]
      BY <3>1
    <3>3. flatten = [i \in 1..n |-> Step(flatten, i)]
      BY <3>2
    <3>4. FlattenSeq(s) = flatten[n]
      BY <2>2 DEF FlattenSeq, n
    <3> HIDE DEF flatten
    <3> DEFINE Done == {i \in Nat : i \in 1..n => flatten[i] = f[i]}
    <3>5. 0 \in Done
      OBVIOUS
    <3>6. ASSUME NEW i \in Nat, i \in Done PROVE i + 1 \in Done
      <4>1. SUFFICES ASSUME i + 1 \in 1..n PROVE flatten[i + 1] = f[i + 1]
        OBVIOUS
      <4>2. (i + 1) - 1 = i
        OBVIOUS
      <4>3. flatten[i + 1] = Step(flatten, i + 1)
        BY <3>3, <4>1
      <4>4. CASE i = 0
        BY <1>6, <2>2, <4>3, <4>4
      <4>5. CASE i # 0
        <5>1. i \in 1..n /\ i + 1 # 1
          BY <1>1, <4>1, <4>5
        <5>2. flatten[i] = f[i]
          BY <3>6, <5>1
        <5>3. f[i + 1] = f[i] \o s[i + 1]
          BY <1>5, <4>1, <4>2
        <5>4. flatten[i + 1] = flatten[i] \o s[i + 1]
          BY <4>2, <4>3, <5>1
        <5>5. QED
          BY <5>2, <5>3, <5>4
      <4>6. QED
        BY <4>4, <4>5
    <3> HIDE DEF Done
    <3>7. \A i \in Nat : i \in Done
      BY <3>5, <3>6, NaturalInduction
    <3>8. n \in 1..n
      BY <1>1, <2>2
    <3>9. flatten[n] = f[n]
      BY <1>1, <3>7, <3>8 DEF Done
    <3>10. QED
      BY <3>4, <3>9
  <2>3. QED
    BY <2>1, <2>2
<1>8. QED
  BY <1>4, <1>5, <1>7 DEF n

\* Flattening is a homomorphism.
LEMMA FlattenEmpty == FlattenSeq(<< >>) = << >>
BY DEF FlattenSeq

\* FlattenSeq joins the sequences in order: one more at the end, ...
LEMMA FlattenAppend ==
  ASSUME NEW S, NEW s \in Seq(Seq(S)), NEW x \in Seq(S)
  PROVE  /\ FlattenSeq(s) \in Seq(S)
         /\ FlattenSeq(Append(s, x)) = FlattenSeq(s) \o x
<1> DEFINE t == Append(s, x)
           n == Len(s)
<1>1. /\ n \in Nat /\ t \in Seq(Seq(S)) /\ Len(t) = n + 1
      /\ \A k \in 1..n : t[k] = s[k]
      /\ t[n + 1] = x
  BY AppendProperties, LenProperties
<1>2. PICK f \in [0..n -> Seq(S)] :
        /\ f[0] = << >>
        /\ \A k \in 1..n : f[k] = f[k - 1] \o s[k]
        /\ FlattenSeq(s) = f[n]
  BY FlattenRuns
<1>3. PICK g \in [0..Len(t) -> Seq(S)] :
        /\ g[0] = << >>
        /\ \A k \in 1..Len(t) : g[k] = g[k - 1] \o t[k]
        /\ FlattenSeq(t) = g[Len(t)]
  BY <1>1, FlattenRuns
<1> HIDE DEF n, t
<1> DEFINE Done == {k \in Nat : k <= n => g[k] = f[k]}
<1>4. 0 \in Done
  BY <1>2, <1>3
<1>5. ASSUME NEW k \in Nat, k \in Done PROVE k + 1 \in Done
  <2>1. SUFFICES ASSUME k + 1 <= n PROVE g[k + 1] = f[k + 1]
    OBVIOUS
  <2>2. k + 1 \in 1..n /\ k + 1 \in 1..Len(t) /\ (k + 1) - 1 = k /\ k <= n
    <3>1. n \in Nat /\ Len(t) = n + 1
      BY <1>1
    <3>2. QED
      BY <2>1, <3>1
  <2>3. g[k] = f[k]
    BY <1>5, <2>2
  <2>4. g[k + 1] = g[k] \o t[k + 1] /\ f[k + 1] = f[k] \o s[k + 1]
    BY <1>2, <1>3, <2>2
  <2>5. QED
    BY <1>1, <2>2, <2>3, <2>4
<1> HIDE DEF Done
<1>6. \A k \in Nat : k \in Done
  BY <1>4, <1>5, NaturalInduction
<1>7. g[n] = f[n]
  BY <1>1, <1>6 DEF Done
<1>8. g[n + 1] = g[n] \o x
  <2>1. n + 1 \in 1..Len(t) /\ (n + 1) - 1 = n
    BY <1>1
  <2>2. QED
    BY <1>1, <1>3, <2>1
<1>9. f[n] \in Seq(S)
  BY <1>1, <1>2
<1>10. QED
  BY <1>1, <1>2, <1>3, <1>7, <1>8, <1>9 DEF t

\* ... and many more.
LEMMA FlattenConcat ==
  ASSUME NEW S, NEW s \in Seq(Seq(S)), NEW t \in Seq(Seq(S))
  PROVE  FlattenSeq(s \o t) = FlattenSeq(s) \o FlattenSeq(t)
<1> DEFINE T == {u \in Seq(Seq(S)) : FlattenSeq(s \o u) = FlattenSeq(s) \o FlattenSeq(u)}
<1>1. FlattenSeq(s) \in Seq(S)
  <2>1. << >> \in Seq(S)
    BY EmptySeq
  <2>2. QED
    BY <2>1, FlattenAppend
<1>2. << >> \in T
  <2>1. s \o << >> = s /\ FlattenSeq(s) \o << >> = FlattenSeq(s)
    BY <1>1, ConcatEmptySeq
  <2>2. QED
    BY <2>1, FlattenEmpty, EmptySeq
<1>3. ASSUME NEW u \in Seq(Seq(S)), NEW e \in Seq(S), u \in T PROVE Append(u, e) \in T
  <2>1. Append(u, e) \in Seq(Seq(S)) /\ s \o u \in Seq(Seq(S))
    BY AppendProperties, ConcatProperties
  <2>2. s \o Append(u, e) = Append(s \o u, e)
    <3>1. <<e>> \in Seq(Seq(S))
      OBVIOUS
    <3>2. Append(u, e) = u \o <<e>> /\ Append(s \o u, e) = (s \o u) \o <<e>>
      BY <2>1, AppendIsConcat
    <3>3. QED
      BY <3>1, <3>2, ConcatAssociative, SMTT(20)
  <2>3. FlattenSeq(s \o Append(u, e)) = FlattenSeq(s \o u) \o e
    BY <2>1, <2>2, FlattenAppend
  <2>4. FlattenSeq(Append(u, e)) = FlattenSeq(u) \o e /\ FlattenSeq(u) \in Seq(S)
    BY FlattenAppend
  <2>5. FlattenSeq(s \o u) = FlattenSeq(s) \o FlattenSeq(u)
    BY <1>3
  <2>6. (FlattenSeq(s) \o FlattenSeq(u)) \o e = FlattenSeq(s) \o (FlattenSeq(u) \o e)
    BY <1>1, <2>4, ConcatAssociative, SMTT(20)
  <2>7. QED
    BY <2>1, <2>3, <2>4, <2>5, <2>6
<1> HIDE DEF T
<1>4. \A u \in Seq(Seq(S)) : u \in T
  BY <1>2, <1>3, SequenceInduction
<1>5. QED
  BY <1>4 DEF T

(***************************************************************************)
(* Every renderer puts a piece in the place of each item of a sequence.    *)
(***************************************************************************)
Parts(items, piece) == [i \in DOMAIN items |-> piece[items[i]]]
\* ... and the pieces in a row.
Pieced(items, piece) == FlattenSeq(Parts(items, piece))
\* The ways to write the items of I in the characters of S.
Writers(I, S) == [I -> Seq(S)]

\* What it writes for items together is what it writes for them apart.
LEMMA PiecesOf ==
  ASSUME NEW I, NEW S, NEW piece \in Writers(I, S),
         NEW items \in Seq(I)
  PROVE  /\ Parts(items, piece) \in Seq(Seq(S))
         /\ Len(Parts(items, piece)) = Len(items)
         /\ \A i \in 1..Len(items) : Parts(items, piece)[i] = piece[items[i]]
         /\ Pieced(items, piece) \in Seq(S)
<1> DEFINE parts == [i \in 1..Len(items) |-> piece[items[i]]]
<1>1. Len(items) \in Nat /\ DOMAIN items = 1..Len(items) /\ \A i \in 1..Len(items) : items[i] \in I
  BY LenProperties, ElementOfSeq
<1>2. parts \in [1..Len(items) -> Seq(S)]
  BY <1>1 DEF Writers
<1>3. parts \in Seq(Seq(S)) /\ Len(parts) = Len(items)
  <2>1. parts \in Seq(Seq(S))
    BY <1>1, <1>2, SeqDef
  <2>2. DOMAIN parts = 1..Len(items)
    OBVIOUS
  <2> HIDE DEF parts
  <2>3. Len(parts) \in Nat /\ 1..Len(parts) = 1..Len(items)
    BY <2>1, <2>2, LenProperties
  <2>4. QED
    BY <1>1, <2>1, <2>3
<1>4. Parts(items, piece) = parts /\ \A i \in 1..Len(items) : parts[i] = piece[items[i]]
  BY <1>1 DEF Parts
<1> HIDE DEF parts
<1>5. FlattenSeq(parts) \in Seq(S)
  BY <1>3, EmptySeq, FlattenAppend
<1>6. QED
  BY <1>3, <1>4, <1>5 DEF Pieced

\* What is written of no item, ...
LEMMA PiecedEmpty == ASSUME NEW piece PROVE Pieced(<< >>, piece) = << >>
<1>1. Parts(<< >>, piece) = << >>
  BY DEF Parts
<1>2. QED
  BY <1>1, FlattenEmpty DEF Pieced

\* ... of one more, ...
LEMMA PiecedAppend ==
  ASSUME NEW I, NEW S, NEW piece \in Writers(I, S),
         NEW items \in Seq(I), NEW x \in I
  PROVE  Pieced(Append(items, x), piece) = Pieced(items, piece) \o piece[x]
<1> DEFINE all == Append(items, x)
           parts == Parts(items, piece)
           allParts == Parts(all, piece)
           n == Len(items)
<1>1. /\ n \in Nat /\ DOMAIN items = 1..n /\ all \in Seq(I) /\ DOMAIN all = 1..(n + 1)
      /\ \A i \in 1..n : all[i] = items[i]
      /\ all[n + 1] = x /\ Len(all) = n + 1
  BY AppendProperties, LenProperties
<1> HIDE DEF all, n
<1>2. parts \in Seq(Seq(S)) /\ Len(parts) = n /\ \A i \in 1..n : parts[i] = piece[items[i]]
  BY PiecesOf DEF n
<1>3. /\ allParts \in Seq(Seq(S)) /\ Len(allParts) = n + 1
      /\ \A i \in 1..(n + 1) : allParts[i] = piece[all[i]]
  <2>1. all \in Seq(I) /\ Len(all) = n + 1
    BY <1>1
  <2>2. /\ allParts \in Seq(Seq(S)) /\ Len(allParts) = Len(all)
        /\ \A i \in 1..Len(all) : allParts[i] = piece[all[i]]
    BY <2>1, PiecesOf
  <2>3. QED
    BY <2>1, <2>2
<1>4. piece[x] \in Seq(S)
  BY DEF Writers
<1> HIDE DEF parts, allParts
<1>5. allParts = Append(parts, piece[x])
  <2> DEFINE t == Append(parts, piece[x])
  <2>1. /\ t \in Seq(Seq(S)) /\ Len(t) = n + 1 /\ t[n + 1] = piece[x]
        /\ \A i \in 1..n : t[i] = parts[i]
    BY <1>2, <1>4, AppendProperties
  <2> HIDE DEF t
  <2>2. ASSUME NEW i \in 1..(n + 1) PROVE allParts[i] = t[i]
    <3>1. CASE i = n + 1
      BY <1>1, <1>3, <2>1, <3>1
    <3>2. CASE i # n + 1
      <4>1. i \in 1..n
        BY <1>1, <3>2
      <4>2. allParts[i] = piece[all[i]] /\ all[i] = items[i]
        BY <1>1, <1>3, <4>1
      <4>3. t[i] = parts[i] /\ parts[i] = piece[items[i]]
        BY <1>2, <2>1, <4>1
      <4>4. QED
        BY <4>2, <4>3
    <3>3. QED
      BY <3>1, <3>2
  <2>3. allParts = t
    BY <1>3, <2>1, <2>2, SeqEqual
  <2>4. QED
    BY <2>3 DEF t
<1>6. FlattenSeq(allParts) = FlattenSeq(parts) \o piece[x]
  BY <1>2, <1>4, <1>5, FlattenAppend
<1>7. QED
  BY <1>6 DEF Pieced, all, parts, allParts

\* ... of one ...
LEMMA PiecedOne ==
  ASSUME NEW I, NEW S, NEW piece \in Writers(I, S),
         NEW x \in I
  PROVE  Pieced(<<x>>, piece) = piece[x]
<1>1. << >> \in Seq(I) /\ <<x>> = Append(<< >>, x) /\ piece[x] \in Seq(S)
  BY EmptySeq DEF Writers
<1>2. Pieced(<<x>>, piece) = Pieced(<< >>, piece) \o piece[x]
  BY <1>1, PiecedAppend
<1>3. QED
  BY <1>1, <1>2, PiecedEmpty, ConcatEmptySeq

\* Appending to the right of a concatenation.
LEMMA ConcatAppend ==
  ASSUME NEW S, NEW s \in Seq(S), NEW t \in Seq(S), NEW e \in S
  PROVE  s \o Append(t, e) = Append(s \o t, e)
<1>1. <<e>> \in Seq(S) /\ s \o t \in Seq(S)
  BY ConcatProperties
<1>2. Append(t, e) = t \o <<e>> /\ Append(s \o t, e) = (s \o t) \o <<e>>
  BY <1>1, AppendIsConcat
<1>3. QED
  BY <1>1, <1>2, ConcatAssociative

\* ... and of two sequences of items.
LEMMA PiecedConcat ==
  ASSUME NEW I, NEW S, NEW piece \in Writers(I, S),
         NEW items \in Seq(I), NEW more \in Seq(I)
  PROVE  Pieced(items \o more, piece) = Pieced(items, piece) \o Pieced(more, piece)
<1> DEFINE T == {m \in Seq(I) : Pieced(items \o m, piece) = Pieced(items, piece) \o Pieced(m, piece)}
<1>1. Pieced(items, piece) \in Seq(S)
  BY PiecesOf
<1>2. << >> \in T
  BY <1>1, EmptySeq, ConcatEmptySeq, PiecedEmpty
<1>3. ASSUME NEW m \in Seq(I), NEW x \in I, m \in T PROVE Append(m, x) \in T
  <2>1. Append(m, x) \in Seq(I) /\ items \o m \in Seq(I) /\ piece[x] \in Seq(S)
    BY AppendProperties, ConcatProperties DEF Writers
  <2>2. items \o Append(m, x) = Append(items \o m, x)
    BY ConcatAppend
  <2>3. Pieced(items \o Append(m, x), piece) = Pieced(items \o m, piece) \o piece[x]
    BY <2>1, <2>2, PiecedAppend
  <2>4. Pieced(Append(m, x), piece) = Pieced(m, piece) \o piece[x] /\ Pieced(m, piece) \in Seq(S)
    BY PiecedAppend, PiecesOf
  <2>5. Pieced(items \o m, piece) = Pieced(items, piece) \o Pieced(m, piece)
    BY <1>3
  <2>6. (Pieced(items, piece) \o Pieced(m, piece)) \o piece[x]
          = Pieced(items, piece) \o (Pieced(m, piece) \o piece[x])
    <3> DEFINE p == Pieced(items, piece)
               q == Pieced(m, piece)
               r == piece[x]
    <3>1. p \in Seq(S) /\ q \in Seq(S) /\ r \in Seq(S)
      BY <1>1, <2>1, <2>4
    <3> HIDE DEF p, q, r
    <3>2. (p \o q) \o r = p \o (q \o r)
      BY <3>1, ConcatAssociative, SMTT(20)
    <3>3. QED
      BY <3>2 DEF p, q, r
  <2>7. QED
    BY <2>1, <2>3, <2>4, <2>5, <2>6
<1> HIDE DEF T
<1>4. \A m \in Seq(I) : m \in T
  BY <1>2, <1>3, SequenceInduction
<1>5. QED
  BY <1>4 DEF T

------------------------------------------------------------------------------
(***************************************************************************)
(* The parser of the HTML subset loses nothing.                            *)
(***************************************************************************)

\* The kinds of spans, ...
Kinds == {"Text", "Bold", "Italic", "Code"}
\* ... and the spans over the characters S.
SpanOf(S) == [kind : Kinds, body : Seq(S)]

\* A sequence cut in two before any of its items.
LEMMA CutInTwo ==
  ASSUME NEW S, NEW s \in Seq(S), NEW n \in 0..Len(s)
  PROVE  /\ SubSeq(s, 1, n) \in Seq(S) /\ Len(SubSeq(s, 1, n)) = n
         /\ Drop(s, n) \in Seq(S) /\ Len(Drop(s, n)) = Len(s) - n
         /\ \A i \in 1..n : SubSeq(s, 1, n)[i] = s[i]
         /\ \A i \in 1..(Len(s) - n) : Drop(s, n)[i] = s[n + i]
         /\ s = SubSeq(s, 1, n) \o Drop(s, n)
<1>1. Len(s) \in Nat /\ n \in Nat /\ n <= Len(s) /\ \A i \in 1..Len(s) : s[i] \in S
  BY LenProperties, ElementOfSeq
<1> DEFINE m == Len(s)
<1> HIDE DEF m
<1>2. m \in Nat /\ n <= m /\ \A i \in 1..m : s[i] \in S
  BY <1>1 DEF m
<1>3. /\ SubSeq(s, 1, n) \in Seq(S) /\ Len(SubSeq(s, 1, n)) = n
      /\ \A i \in 1..n : SubSeq(s, 1, n)[i] = s[i]
  <2>1. \A i \in 1..n : s[i] \in S
    BY <1>1, <1>2
  <2>2. /\ SubSeq(s, 1, n) \in Seq(S)
        /\ Len(SubSeq(s, 1, n)) = IF 1 <= n THEN n - 1 + 1 ELSE 0
        /\ \A i \in 1..n - 1 + 1 : SubSeq(s, 1, n)[i] = s[1 + i - 1]
    BY <1>1, <2>1, SubSeqProperties
  <2>3. n - 1 + 1 = n /\ \A i \in 1..n : 1 + i - 1 = i
    BY <1>1
  <2>4. QED
    BY <1>1, <2>2, <2>3
<1>4. /\ SubSeq(s, n + 1, m) \in Seq(S) /\ Len(SubSeq(s, n + 1, m)) = m - n
      /\ \A i \in 1..(m - n) : SubSeq(s, n + 1, m)[i] = s[n + i]
  <2>1. \A i \in n + 1..m : s[i] \in S
    BY <1>1, <1>2
  <2>2. /\ SubSeq(s, n + 1, m) \in Seq(S)
        /\ Len(SubSeq(s, n + 1, m)) = IF n + 1 <= m THEN m - (n + 1) + 1 ELSE 0
        /\ \A i \in 1..m - (n + 1) + 1 : SubSeq(s, n + 1, m)[i] = s[n + 1 + i - 1]
    BY <1>1, <1>2, <2>1, SubSeqProperties
  <2>3. m - (n + 1) + 1 = m - n /\ \A i \in 1..m - n : n + 1 + i - 1 = n + i
    BY <1>1, <1>2
  <2>4. (IF n + 1 <= m THEN m - (n + 1) + 1 ELSE 0) = m - n
    BY <1>1, <1>2
  <2>5. QED
    BY <1>1, <2>2, <2>3, <2>4
<1>5. SubSeq(s, 1, n) \o SubSeq(s, n + 1, m) = s
  <2>1. 1 \in 1..m + 1 /\ n \in 1 - 1..m /\ m \in n..m
    BY <1>1, <1>2
  <2>2. SubSeq(s, 1, n) \o SubSeq(s, n + 1, m) = SubSeq(s, 1, m)
    BY <2>1, ConcatAdjacentSubSeq DEF m
  <2>3. QED
    BY <2>2, SubSeqFull DEF m
<1>6. QED
  BY <1>3, <1>4, <1>5 DEF Drop, m

\* The first item apart from the others.
LEMMA HeadApart ==
  ASSUME NEW S, NEW s \in Seq(S), s # << >>
  PROVE  /\ Len(s) \in Nat \ {0} /\ Head(s) = s[1] /\ s[1] \in S
         /\ Tail(s) = Drop(s, 1) /\ s = <<s[1]>> \o Tail(s)
<1>1. Len(s) \in Nat \ {0}
  BY EmptySeq
<1>2. Tail(s) = SubSeq(s, 2, Len(s)) /\ 1 + 1 = 2
  BY TailIsSubSeq
<1>3. 1 \in 1..Len(s) /\ Len(s) \in 1..Len(s)
  BY <1>1
<1>4. s[1] \in S
  BY <1>3, ElementOfSeq
<1>5. SubSeq(s, 1, Len(s)) = <<s[1]>> \o SubSeq(s, 1 + 1, Len(s))
  BY <1>3, SubSeqRecursiveFirst
<1>6. s = <<s[1]>> \o Tail(s)
  BY <1>2, <1>5, SubSeqFull
<1>7. Head(s) = s[1]
  OBVIOUS
<1>8. QED
  BY <1>1, <1>2, <1>4, <1>6, <1>7 DEF Drop

\* What a concatenation drops to.
LEMMA DropConcat ==
  ASSUME NEW S, NEW s \in Seq(S), NEW t \in Seq(S)
  PROVE  Drop(s \o t, Len(s)) = t /\ SubSeq(s \o t, 1, Len(s)) = s
<1> DEFINE n == Len(s)
           u == s \o t
<1>1. n \in Nat /\ Len(t) \in Nat /\ u \in Seq(S) /\ Len(u) = n + Len(t)
  BY LenProperties, ConcatProperties
<1>2. \A i \in 1..(n + Len(t)) : u[i] = IF i <= n THEN s[i] ELSE t[i - n]
  BY ConcatProperties
<1> HIDE DEF n, u
<1>3. n \in 0..Len(u)
  BY <1>1
<1>4. /\ Drop(u, n) \in Seq(S) /\ Len(Drop(u, n)) = Len(u) - n
      /\ \A i \in 1..(Len(u) - n) : Drop(u, n)[i] = u[n + i]
      /\ SubSeq(u, 1, n) \in Seq(S) /\ Len(SubSeq(u, 1, n)) = n
      /\ \A i \in 1..n : SubSeq(u, 1, n)[i] = u[i]
  BY <1>1, <1>3, CutInTwo
<1>5. Drop(u, n) = t
  <2>1. Len(Drop(u, n)) = Len(t)
    BY <1>1, <1>4
  <2>2. ASSUME NEW i \in 1..Len(t) PROVE Drop(u, n)[i] = t[i]
    <3>1. n + i \in 1..(n + Len(t)) /\ ~ (n + i <= n) /\ (n + i) - n = i /\ i \in 1..(Len(u) - n)
      BY <1>1
    <3>2. QED
      BY <1>2, <1>4, <3>1
  <2>3. QED
    BY <1>4, <2>1, <2>2, SeqEqual
<1>6. SubSeq(u, 1, n) = s
  <2>1. \A i \in 1..n : SubSeq(u, 1, n)[i] = s[i]
    BY <1>1, <1>2, <1>4
  <2>2. QED
    BY <1>4, <2>1, SeqEqual DEF n
<1>7. QED
  BY <1>5, <1>6 DEF n, u

\* The six tags are different.
LEMMA TagFacts ==
  \A k, j \in TagKinds :
    /\ TAG_TABLE[k].open \in Tags /\ TAG_TABLE[k].close \in Tags
    /\ TAG_TABLE[k].open = TAG_TABLE[j].open => k = j
    /\ TAG_TABLE[k].close = TAG_TABLE[j].close => k = j
    /\ TAG_TABLE[k].open # TAG_TABLE[j].close
BY DEF TagKinds, TAG_TABLE, Tags

\* A run that is found is the head of what is read.
LEMMA TagFound ==
  ASSUME NEW S, NEW rest \in Seq(S), rest # << >>, TryMatchTag(rest) # NoMatch
  PROVE  \E kind \in TagKinds, body \in Seq(S), after \in Seq(S) :
           /\ TryMatchTag(rest) = [span |-> Span(kind, body), consumed |-> Len(body) + 2]
           /\ Drop(rest, Len(body) + 2) = after
           /\ rest = (<<TAG_TABLE[kind].open>> \o body \o <<TAG_TABLE[kind].close>>) \o after
           /\ Len(after) < Len(rest)
<1> DEFINE ends(k) == {j \in 2..Len(rest) : rest[j] = TAG_TABLE[k].close}
           kinds   == {k \in TagKinds : Head(rest) = TAG_TABLE[k].open /\ ends(k) # {}}
           kind    == CHOOSE k \in kinds : TRUE
           end     == Min(ends(kind))
           body    == SubSeq(rest, 2, end - 1)
           after   == Drop(rest, end)
           n       == Len(rest)
<1>1. n \in Nat \ {0} /\ Head(rest) = rest[1] /\ \A i \in 1..n : rest[i] \in S
  BY HeadApart, LenProperties, ElementOfSeq
<1>2. /\ kinds # {}
      /\ TryMatchTag(rest) = [span |-> Span(kind, body), consumed |-> end]
  BY DEF TryMatchTag
<1>3. kind \in kinds
  BY <1>2
<1>4. kind \in TagKinds /\ rest[1] = TAG_TABLE[kind].open /\ ends(kind) # {}
  BY <1>1, <1>3
<1> HIDE DEF kind
<1>5. end \in ends(kind)
  <2>1. ends(kind) \in SUBSET Nat
    BY <1>1
  <2>2. \E m \in ends(kind) : \A k \in ends(kind) : m <= k
    BY <1>4, <2>1, LeastNatural
  <2>3. QED
    BY <2>2 DEF Min
<1>6. end \in 2..n /\ rest[end] = TAG_TABLE[kind].close
  BY <1>5
<1> HIDE DEF n, end
<1>7. end \in Nat /\ end - 1 \in Nat /\ 2 <= end /\ end <= n /\ end - 1 \in 1..n /\ end \in 1..n
  BY <1>1, <1>6
<1>8. body \in Seq(S) /\ Len(body) = end - 2
  <2>1. \A i \in 2..end - 1 : rest[i] \in S
    BY <1>1, <1>7
  <2>2. body \in Seq(S) /\ Len(body) = IF 2 <= end - 1 THEN end - 1 - 2 + 1 ELSE 0
    BY <1>7, <2>1, SubSeqProperties
  <2>3. (IF 2 <= end - 1 THEN end - 1 - 2 + 1 ELSE 0) = end - 2
    BY <1>7
  <2>4. QED
    BY <2>2, <2>3
<1>9. Len(body) + 2 = end
  BY <1>7, <1>8
<1>10. after \in Seq(S) /\ Len(after) = n - end /\ rest = SubSeq(rest, 1, end) \o after
  <2>1. end \in 0..Len(rest)
    BY <1>1, <1>7 DEF n
  <2>2. QED
    BY <2>1, CutInTwo DEF n
<1>11. SubSeq(rest, 1, end) = <<TAG_TABLE[kind].open>> \o body \o <<TAG_TABLE[kind].close>>
  <2>1. SubSeq(rest, 1, end) = SubSeq(rest, 1, end - 1) \o <<rest[end]>>
    <3>1. 1 \in 1..n /\ end \in 1..n
      BY <1>1, <1>7
    <3>2. QED
      BY <3>1, SubSeqRecursiveSecond DEF n
  <2>2. SubSeq(rest, 1, end - 1) = <<rest[1]>> \o SubSeq(rest, 1 + 1, end - 1)
    <3>1. 1 \in 1..n /\ end - 1 \in 1..n
      BY <1>1, <1>7
    <3>2. QED
      BY <3>1, SubSeqRecursiveFirst DEF n
  <2>3. QED
    BY <1>4, <1>6, <2>1, <2>2
<1>12. Len(after) < n
  BY <1>1, <1>7, <1>10
<1>13. QED
  BY <1>2, <1>4, <1>8, <1>9, <1>10, <1>11, <1>12 DEF n

\* A span as rich text.
RawPiece(S) == [s \in SpanOf(S) |-> Tagged(s, s.body)]

\* It writes in the same characters.
LEMMA RawPieceType ==
  ASSUME NEW S, Tags \subseteq S
  PROVE  /\ RawPiece(S) \in Writers(SpanOf(S), S)
         /\ \A s \in Seq(SpanOf(S)) : RenderRichText(s) = Pieced(s, RawPiece(S))
<1>1. ASSUME NEW s \in SpanOf(S) PROVE Tagged(s, s.body) \in Seq(S)
  <2>1. s.kind \in Kinds /\ s.body \in Seq(S)
    BY DEF SpanOf
  <2>2. CASE s.kind = "Text"
    BY <2>1, <2>2 DEF Tagged
  <2>3. CASE s.kind # "Text"
    <3>1. s.kind \in TagKinds
      BY <2>1, <2>3 DEF Kinds, TagKinds
    <3>2. TAG_TABLE[s.kind].open \in S /\ TAG_TABLE[s.kind].close \in S
      BY <3>1, TagFacts
    <3> DEFINE open == <<TAG_TABLE[s.kind].open>>
               close == <<TAG_TABLE[s.kind].close>>
    <3>3. open \in Seq(S) /\ close \in Seq(S)
      BY <3>2
    <3> HIDE DEF open, close
    <3>4. open \o s.body \o close \in Seq(S)
      BY <2>1, <3>3, ConcatProperties
    <3>5. QED
      BY <2>3, <3>4 DEF Tagged, open, close
  <2>4. QED
    BY <2>2, <2>3
<1>2. RawPiece(S) \in Writers(SpanOf(S), S)
  BY <1>1 DEF RawPiece, Writers
<1>3. ASSUME NEW s \in Seq(SpanOf(S)) PROVE RenderRichText(s) = Pieced(s, RawPiece(S))
  <2>1. \A i \in DOMAIN s : s[i] \in SpanOf(S)
    BY LenProperties, ElementOfSeq
  <2>2. [i \in DOMAIN s |-> Tagged(s[i], s[i].body)] = [i \in DOMAIN s |-> RawPiece(S)[s[i]]]
    BY <2>1 DEF RawPiece
  <2>3. QED
    BY <2>2 DEF RenderRichText, Pieced, Parts
<1>4. QED
  BY <1>2, <1>3

\* Rich text is written span by span.
LEMMA RawText ==
  ASSUME NEW S, Tags \subseteq S, NEW s \in Seq(SpanOf(S))
  PROVE  /\ RenderRichText(s) \in Seq(S)
         /\ \A t \in Seq(SpanOf(S)) : RenderRichText(s \o t) = RenderRichText(s) \o RenderRichText(t)
         /\ \A x \in SpanOf(S) : RenderRichText(<<x>>) = Tagged(x, x.body)
         /\ RenderRichText(<< >>) = << >>
<1> DEFINE I == SpanOf(S)
           piece == RawPiece(S)
<1>1. piece \in Writers(I, S) /\ \A u \in Seq(I) : RenderRichText(u) = Pieced(u, piece)
  BY RawPieceType
<1>2. \A x \in I : piece[x] = Tagged(x, x.body)
  BY DEF RawPiece
<1>3. s \in Seq(I)
  OBVIOUS
<1> HIDE DEF I, piece
<1>4. RenderRichText(s) \in Seq(S)
  BY <1>1, <1>3, PiecesOf
<1>5. ASSUME NEW t \in Seq(I) PROVE RenderRichText(s \o t) = RenderRichText(s) \o RenderRichText(t)
  <2>1. s \o t \in Seq(I)
    BY <1>3, ConcatProperties
  <2>2. Pieced(s \o t, piece) = Pieced(s, piece) \o Pieced(t, piece)
    BY <1>1, <1>3, PiecedConcat
  <2>3. QED
    BY <1>1, <1>3, <2>1, <2>2
<1>6. ASSUME NEW x \in I PROVE RenderRichText(<<x>>) = Tagged(x, x.body)
  <2>1. <<x>> \in Seq(I)
    OBVIOUS
  <2>2. Pieced(<<x>>, piece) = piece[x]
    BY <1>1, PiecedOne
  <2>3. QED
    BY <1>1, <1>2, <2>1, <2>2
<1>7. RenderRichText(<< >>) = << >>
  BY <1>1, EmptySeq, PiecedEmpty
<1>8. QED
  BY <1>4, <1>5, <1>6, <1>7 DEF I

\* The literal text is one span, or none.
LEMMA FlushType ==
  ASSUME NEW S, NEW buf \in Seq(S)
  PROVE  Flush(buf) \in Seq(SpanOf(S))
<1>1. Span("Text", buf) \in SpanOf(S)
  BY DEF Span, SpanOf, Kinds
<1>2. QED
  BY <1>1 DEF Flush

\* The pending text is written as it is.
LEMMA FlushIsText ==
  ASSUME NEW S, Tags \subseteq S, NEW buf \in Seq(S)
  PROVE  RenderRichText(Flush(buf)) = buf
<1> DEFINE s == Span("Text", buf)
<1>1. s \in SpanOf(S) /\ Tagged(s, s.body) = buf
  BY DEF Span, SpanOf, Kinds, Tagged
<1>2. Flush(buf) = IF buf = << >> THEN << >> ELSE <<s>>
  BY DEF Flush
<1> HIDE DEF s
<1>3. RenderRichText(<<s>>) = buf /\ RenderRichText(<< >>) = << >>
  BY <1>1, EmptySeq, RawText
<1>4. QED
  BY <1>2, <1>3

\* The states of the loop of parse, and the text a state stands for.
Cursors(S) == [spans : Seq(SpanOf(S)), buf : Seq(S), rest : Seq(S)]
\* The whole text, as a cursor has it: read, pending and left.
Whole(at) == RenderRichText(at.spans) \o at.buf \o at.rest

\* The parts of a cursor, ...
LEMMA CursorParts ==
  ASSUME NEW spans, NEW buf, NEW rest
  PROVE  /\ Cursor(spans, buf, rest).spans = spans
         /\ Cursor(spans, buf, rest).buf = buf
         /\ Cursor(spans, buf, rest).rest = rest
         /\ Whole(Cursor(spans, buf, rest)) = RenderRichText(spans) \o buf \o rest
BY DEF Cursor, Whole

\* ... and its type.
LEMMA CursorType ==
  ASSUME NEW S, NEW spans \in Seq(SpanOf(S)), NEW buf \in Seq(S), NEW rest \in Seq(S)
  PROVE  Cursor(spans, buf, rest) \in Cursors(S)
BY DEF Cursor, Cursors

\* A round that finds a tag moves its run from what is left to the spans.
LEMMA TagRound ==
  ASSUME NEW S, Tags \subseteq S,
         NEW spans \in Seq(SpanOf(S)), NEW buf \in Seq(S), NEW rest \in Seq(S),
         rest # << >>, TryMatchTag(rest) # NoMatch
  PROVE  \E s \in Seq(SpanOf(S)), after \in Seq(S) :
           /\ ParseRound(Cursor(spans, buf, rest)) = Cursor(s, << >>, after)
           /\ RenderRichText(s) \o after = RenderRichText(spans) \o buf \o rest
           /\ Len(after) < Len(rest)
<1>1. PICK kind \in TagKinds, body \in Seq(S), after \in Seq(S) :
        /\ TryMatchTag(rest) = [span |-> Span(kind, body), consumed |-> Len(body) + 2]
        /\ Drop(rest, Len(body) + 2) = after
        /\ rest = (<<TAG_TABLE[kind].open>> \o body \o <<TAG_TABLE[kind].close>>) \o after
        /\ Len(after) < Len(rest)
  BY TagFound
<1> DEFINE x == Span(kind, body)
           run == Tagged(x, x.body)
           flushed == Flush(buf)
           s == spans \o flushed \o <<x>>
<1>2. x \in SpanOf(S) /\ run = <<TAG_TABLE[kind].open>> \o body \o <<TAG_TABLE[kind].close>>
  BY DEF Span, SpanOf, Kinds, TagKinds, Tagged
<1>3. ParseRound(Cursor(spans, buf, rest)) = Cursor(s, << >>, after)
  <2> DEFINE at == Cursor(spans, buf, rest)
             tag == TryMatchTag(rest)
  <2>1. at.spans = spans /\ at.buf = buf /\ at.rest = rest
    BY CursorParts
  <2>2. tag # NoMatch /\ tag.span = x /\ Drop(rest, tag.consumed) = after
    BY <1>1
  <2>3. ParseRound(at) = Cursor(spans \o flushed \o <<tag.span>>, << >>, Drop(rest, tag.consumed))
    <3> HIDE DEF at
    <3>1. QED
      BY <2>1, <2>2 DEF ParseRound
  <2>4. QED
    BY <2>2, <2>3
<1>4. flushed \in Seq(SpanOf(S)) /\ <<x>> \in Seq(SpanOf(S))
  BY <1>2, FlushType
<1>5. RenderRichText(flushed) = buf /\ RenderRichText(<<x>>) = run
  BY <1>2, FlushIsText, RawText
<1>6. rest = run \o after
  BY <1>1, <1>2
<1> DEFINE raw == RenderRichText(spans)
<1> HIDE DEF x, run, flushed
<1>7. spans \o flushed \in Seq(SpanOf(S)) /\ s \in Seq(SpanOf(S))
  BY <1>4, ConcatProperties
<1>8. RenderRichText(spans \o flushed) = raw \o buf
  BY <1>4, <1>5, RawText
<1>9. RenderRichText(s) = (raw \o buf) \o run
  BY <1>4, <1>5, <1>7, <1>8, RawText
<1>10. raw \in Seq(S) /\ run \in Seq(S)
  BY <1>4, <1>5, RawText
<1> HIDE DEF raw, s
<1>11. (raw \o buf) \in Seq(S)
  BY <1>10, ConcatProperties
<1>12. ((raw \o buf) \o run) \o after = (raw \o buf) \o (run \o after)
  <2> DEFINE before == raw \o buf
  <2>1. before \in Seq(S) /\ run \in Seq(S) /\ after \in Seq(S)
    BY <1>10, <1>11
  <2> HIDE DEF before
  <2>2. (before \o run) \o after = before \o (run \o after)
    BY ONLY <2>1, ConcatAssociative, SMTT(20)
  <2>3. QED
    BY <2>2 DEF before
<1>13. QED
  BY <1>1, <1>3, <1>6, <1>7, <1>9, <1>12 DEF raw

\* Any other round moves a character to the literal text.
LEMMA CharacterRound ==
  ASSUME NEW S, Tags \subseteq S,
         NEW spans \in Seq(SpanOf(S)), NEW buf \in Seq(S), NEW rest \in Seq(S),
         rest # << >>, TryMatchTag(rest) = NoMatch
  PROVE  /\ ParseRound(Cursor(spans, buf, rest)) = Cursor(spans, Append(buf, rest[1]), Tail(rest))
         /\ Append(buf, rest[1]) \in Seq(S) /\ Tail(rest) \in Seq(S)
         /\ RenderRichText(spans) \o Append(buf, rest[1]) \o Tail(rest)
              = RenderRichText(spans) \o buf \o rest
         /\ Len(Tail(rest)) < Len(rest)
<1> DEFINE c == rest[1]
           raw == RenderRichText(spans)
           more == Tail(rest)
<1>1. Len(rest) \in Nat \ {0} /\ Head(rest) = c /\ c \in S /\ rest = <<c>> \o more
  BY HeadApart
<1>2. more \in Seq(S) /\ Len(more) = Len(rest) - 1
  BY HeadTailProperties
<1>3. ParseRound(Cursor(spans, buf, rest)) = Cursor(spans, Append(buf, c), more)
  BY <1>1, CursorParts DEF ParseRound
<1>4. raw \in Seq(S)
  BY RawText
<1> HIDE DEF c, raw, more
<1>5. Append(buf, c) \in Seq(S) /\ Append(buf, c) = buf \o <<c>> /\ <<c>> \in Seq(S)
  BY <1>1, AppendProperties, AppendIsConcat
<1>6. raw \o (buf \o <<c>>) = (raw \o buf) \o <<c>> /\ raw \o buf \in Seq(S)
  BY <1>4, <1>5, ConcatAssociative, ConcatProperties
<1>7. ((raw \o buf) \o <<c>>) \o more = (raw \o buf) \o (<<c>> \o more)
  BY <1>2, <1>5, <1>6, ConcatAssociative, SMTT(20)
<1>8. Len(more) < Len(rest)
  BY <1>1, <1>2
<1>9. raw \o Append(buf, c) \o more = raw \o buf \o rest
  BY <1>1, <1>5, <1>6, <1>7
<1>10. QED
  BY <1>2, <1>3, <1>5, <1>8, <1>9 DEF c, raw, more

\* A round of parse keeps the text it stands for and reads some of what is left.
LEMMA RoundKeepsText ==
  ASSUME NEW S, Tags \subseteq S, NEW at \in Cursors(S)
  PROVE  /\ ParseRound(at) \in Cursors(S)
         /\ Whole(ParseRound(at)) = Whole(at)
         /\ at.rest # << >> => Len(ParseRound(at).rest) < Len(at.rest)
         /\ at.rest = << >> => ParseRound(at) = at
<1>1. PICK spans \in Seq(SpanOf(S)), buf \in Seq(S), rest \in Seq(S) : at = Cursor(spans, buf, rest)
  BY DEF Cursors, Cursor
<1>2. at.rest = rest /\ Whole(at) = RenderRichText(spans) \o buf \o rest
  BY <1>1, CursorParts
<1>3. CASE rest = << >>
  BY <1>2, <1>3 DEF ParseRound
<1>4. CASE rest # << >> /\ TryMatchTag(rest) # NoMatch
  <2>1. PICK s \in Seq(SpanOf(S)), after \in Seq(S) :
           /\ ParseRound(Cursor(spans, buf, rest)) = Cursor(s, << >>, after)
           /\ RenderRichText(s) \o after = RenderRichText(spans) \o buf \o rest
           /\ Len(after) < Len(rest)
    BY <1>4, TagRound
  <2>2. RenderRichText(s) \in Seq(S) /\ << >> \in Seq(S)
    BY RawText, EmptySeq
  <2>3. RenderRichText(s) \o << >> = RenderRichText(s)
    BY <2>2, ConcatEmptySeq
  <2>4. ParseRound(at) = Cursor(s, << >>, after)
    BY <1>1, <2>1
  <2>5. /\ Cursor(s, << >>, after) \in Cursors(S) /\ Cursor(s, << >>, after).rest = after
        /\ Whole(Cursor(s, << >>, after)) = RenderRichText(s) \o << >> \o after
    <3>1. Cursor(s, << >>, after) \in Cursors(S)
      BY <2>2, CursorType
    <3>2. /\ Cursor(s, << >>, after).rest = after
          /\ Whole(Cursor(s, << >>, after)) = RenderRichText(s) \o << >> \o after
      BY CursorParts, SMTT(20)
    <3>3. QED
      BY <3>1, <3>2
  <2>6. QED
    BY <1>2, <1>4, <2>1, <2>3, <2>4, <2>5
<1>5. CASE rest # << >> /\ TryMatchTag(rest) = NoMatch
  <2> DEFINE more == Append(buf, rest[1])
             left == Tail(rest)
  <2>1. /\ ParseRound(Cursor(spans, buf, rest)) = Cursor(spans, more, left)
        /\ more \in Seq(S) /\ left \in Seq(S)
        /\ RenderRichText(spans) \o more \o left = RenderRichText(spans) \o buf \o rest
        /\ Len(left) < Len(rest)
    BY <1>5, CharacterRound
  <2> HIDE DEF more, left
  <2>2. ParseRound(at) = Cursor(spans, more, left)
    BY <1>1, <2>1
  <2>3. /\ Cursor(spans, more, left) \in Cursors(S)
        /\ Cursor(spans, more, left).rest = left
        /\ Whole(Cursor(spans, more, left)) = RenderRichText(spans) \o more \o left
    <3>1. Cursor(spans, more, left) \in Cursors(S)
      BY <2>1, CursorType
    <3>2. /\ Cursor(spans, more, left).rest = left
          /\ Whole(Cursor(spans, more, left)) = RenderRichText(spans) \o more \o left
      BY CursorParts
    <3>3. QED
      BY <3>1, <3>2
  <2>4. QED
    BY <1>2, <1>5, <2>1, <2>2, <2>3
<1>6. QED
  BY <1>3, <1>4, <1>5

\* The rounds of parse, one after the other.
LEMMA ParseRuns ==
  ASSUME NEW S, Tags \subseteq S, NEW input \in Seq(S)
  PROVE  \E at \in [0..Len(input) -> Cursors(S)] :
           /\ at[0] = Cursor(<< >>, << >>, input)
           /\ \A k \in 1..Len(input) : at[k] = ParseRound(at[k - 1])
           /\ Parse(input) = at[Len(input)].spans \o Flush(at[Len(input)].buf)
<1> DEFINE n == Len(input)
           A == Cursors(S)
           first == Cursor(<< >>, << >>, input)
           round == [p \in (1..n) \X A |-> ParseRound(p[2])]
           Step(f, k) == IF k = 0 THEN first ELSE ParseRound(f[k - 1])
           at == CHOOSE f : f = [k \in 0..n |-> Step(f, k)]
<1>1. n \in Nat /\ first \in A
  BY LenProperties, EmptySeq, CursorType
<1>2. \A a \in A : ParseRound(a) \in A
  BY RoundKeepsText
<1>3. Parse(input) = at[n].spans \o Flush(at[n].buf)
  BY DEF Parse
<1> HIDE DEF n, A, first
<1>4. \A k \in 1..n : \A a \in A : round[<<k, a>>] = ParseRound(a)
  OBVIOUS
<1>5. Stays(round, A, n)
  BY <1>2, <1>4 DEF Stays
<1> HIDE DEF round
<1>6. PICK g : Runs(g, A, first, round, n)
  BY <1>1, <1>5, LoopRuns
<1>7. g \in [0..n -> A] /\ g[0] = first /\ \A k \in 1..n : g[k] = ParseRound(g[k - 1])
  <2>1. g \in [0..n -> A] /\ g[0] = first /\ \A k \in 1..n : g[k] = round[<<k, g[k - 1]>>]
    BY <1>6 DEF Runs
  <2>2. ASSUME NEW k \in 1..n PROVE g[k] = ParseRound(g[k - 1])
    <3>1. k - 1 \in 0..n
      BY <1>1
    <3>2. g[k - 1] \in A
      BY <2>1, <3>1
    <3>3. QED
      BY <1>4, <2>1, <3>2
  <2>3. QED
    BY <2>1, <2>2
<1>8. g = [k \in 0..n |-> Step(g, k)]
  BY <1>1, <1>7
<1>9. at = [k \in 0..n |-> Step(at, k)]
  BY <1>8
<1> HIDE DEF at
<1>10. at[0] = first /\ \A k \in 1..n : at[k] = ParseRound(at[k - 1])
  BY <1>1, <1>9
<1>11. \A k \in 0..n : at[k] = g[k]
  <2>1. Agree(at, g, n)
    BY <1>7, <1>10 DEF Agree
  <2>2. QED
    BY <1>1, <2>1, LoopIsOne
<1>12. at \in [0..n -> A]
  BY <1>7, <1>9, <1>11
<1>13. QED
  BY <1>3, <1>10, <1>12 DEF n, A, first

\* The spans of a text spell the text again, whatever it is.
LEMMA ParseLosesNothing ==
  ASSUME NEW S, Tags \subseteq S, NEW input \in Seq(S)
  PROVE  Parse(input) \in Seq(SpanOf(S)) /\ RenderRichText(Parse(input)) = input
<1> DEFINE n == Len(input)
<1>1. n \in Nat
  BY LenProperties
<1>2. PICK at \in [0..n -> Cursors(S)] :
        /\ at[0] = Cursor(<< >>, << >>, input)
        /\ \A k \in 1..n : at[k] = ParseRound(at[k - 1])
        /\ Parse(input) = at[n].spans \o Flush(at[n].buf)
  BY ParseRuns
<1> DEFINE Done == {k \in Nat : k <= n => /\ Whole(at[k]) = input
                                          /\ Len(at[k].rest) <= n - k \/ at[k].rest = << >>}
<1>3. 0 \in Done
  <2>1. at[0].rest = input /\ Whole(at[0]) = RenderRichText(<< >>) \o << >> \o input
    <3> DEFINE first == Cursor(<< >>, << >>, input)
    <3>1. first.rest = input /\ Whole(first) = RenderRichText(<< >>) \o << >> \o input
      BY CursorParts, SMTT(20)
    <3>2. at[0] = first
      BY <1>2
    <3> HIDE DEF first
    <3>3. QED
      BY <3>1, <3>2
  <2>2. RenderRichText(<< >>) = << >>
    BY EmptySeq, RawText
  <2>3. << >> \o << >> = << >> /\ << >> \o input = input
    BY EmptySeq, ConcatEmptySeq
  <2>4. n <= n - 0
    BY <1>1
  <2>5. QED
    BY <2>1, <2>2, <2>3, <2>4
<1> HIDE DEF n
<1>4. ASSUME NEW k \in Nat, k \in Done PROVE k + 1 \in Done
  <2>1. SUFFICES ASSUME k + 1 <= n
                 PROVE  /\ Whole(at[k + 1]) = input
                        /\ Len(at[k + 1].rest) <= n - (k + 1) \/ at[k + 1].rest = << >>
    OBVIOUS
  <2>2. k \in 0..n /\ k + 1 \in 1..n /\ (k + 1) - 1 = k /\ k <= n
    BY <1>1, <2>1
  <2> DEFINE b == at[k]
             c == at[k + 1]
  <2>3. b \in Cursors(S) /\ c = ParseRound(b)
    BY <1>2, <2>2
  <2>4. Whole(b) = input /\ (Len(b.rest) <= n - k \/ b.rest = << >>)
    BY <1>4, <2>2
  <2> HIDE DEF b, c
  <2>5. /\ c \in Cursors(S) /\ Whole(c) = Whole(b)
        /\ b.rest # << >> => Len(c.rest) < Len(b.rest)
        /\ b.rest = << >> => c = b
    BY <2>3, RoundKeepsText
  <2>6. Len(b.rest) \in Nat /\ Len(c.rest) \in Nat
    <3>1. b.rest \in Seq(S) /\ c.rest \in Seq(S)
      BY <2>3, <2>5 DEF Cursors
    <3>2. QED
      BY <3>1, LenProperties
  <2>7. Len(c.rest) <= n - (k + 1) \/ c.rest = << >>
    BY <1>1, <2>2, <2>4, <2>5, <2>6
  <2>8. QED
    BY <2>4, <2>5, <2>7 DEF c
<1> HIDE DEF Done
<1>5. \A k \in Nat : k \in Done
  BY <1>3, <1>4, NaturalInduction
<1> DEFINE end == at[n]
<1>6. end \in Cursors(S) /\ Whole(end) = input /\ (Len(end.rest) <= n - n \/ end.rest = << >>)
  BY <1>1, <1>2, <1>5 DEF Done
<1>7. Parse(input) = end.spans \o Flush(end.buf)
  BY <1>2
<1> HIDE DEF end
<1>8. end.spans \in Seq(SpanOf(S)) /\ end.buf \in Seq(S) /\ end.rest \in Seq(S)
  BY <1>6 DEF Cursors
<1>9. end.rest = << >>
  <2>1. n - n = 0
    BY <1>1
  <2>2. QED
    BY <1>6, <1>8, <2>1, EmptySeq
<1> DEFINE spans == end.spans
           buf == end.buf
<1> HIDE DEF spans, buf
<1>10. spans \in Seq(SpanOf(S)) /\ buf \in Seq(S) /\ Parse(input) = spans \o Flush(buf)
  BY <1>7, <1>8 DEF spans, buf
<1>11. input = RenderRichText(spans) \o buf \o << >>
  BY <1>6, <1>9 DEF Whole, spans, buf
<1>12. Flush(buf) \in Seq(SpanOf(S)) /\ RenderRichText(Flush(buf)) = buf
  BY <1>10, FlushType, FlushIsText
<1>13. RenderRichText(spans \o Flush(buf)) = RenderRichText(spans) \o buf
  BY <1>10, <1>12, RawText
<1>14. RenderRichText(spans) \o buf \in Seq(S)
  BY <1>10, RawText, ConcatProperties
<1>15. input = RenderRichText(spans) \o buf
  BY <1>11, <1>14, ConcatEmptySeq
<1>16. spans \o Flush(buf) \in Seq(SpanOf(S))
  BY <1>10, <1>12, ConcatProperties
<1>17. QED
  BY <1>10, <1>13, <1>15, <1>16

------------------------------------------------------------------------------
(***************************************************************************)
(* Slack and Messenger: what is encoded is decoded again.                  *)
(***************************************************************************)

\* What a character is sent as.
Encoded(c) == IF c \in DOMAIN Entity THEN Entity[c] ELSE c

\* No character of S is an entity.
Plain(S) == S \cap Range(Entity) = {}

\* The entities are none of the characters they stand for, and no two are the same.
LEMMA EntityFacts ==
  /\ DOMAIN Entity = Tags \cup {"<", ">", "&"}
  /\ \A c \in DOMAIN Entity : Entity[c] \notin DOMAIN Entity /\ Entity[c] \in Range(Entity)
  /\ \A c, d \in DOMAIN Entity : Entity[c] = Entity[d] => c = d
<1> DEFINE D == {"<", ">", "&", "<b>", "</b>", "<i>", "</i>", "<code>", "</code>"}
<1>1. DOMAIN Entity = D
  BY DEF Entity
<1>2. \A c \in D : Entity[c] \notin D
  BY DEF Entity
<1>3. \A c, d \in D : Entity[c] = Entity[d] => c = d
  <2>1. /\ Entity["<"] = "&lt;" /\ Entity[">"] = "&gt;" /\ Entity["&"] = "&amp;"
        /\ Entity["<b>"] = "&lt;b&gt;" /\ Entity["</b>"] = "&lt;/b&gt;"
        /\ Entity["<i>"] = "&lt;i&gt;" /\ Entity["</i>"] = "&lt;/i&gt;"
        /\ Entity["<code>"] = "&lt;code&gt;" /\ Entity["</code>"] = "&lt;/code&gt;"
    BY DEF Entity
  <2>2. SUFFICES ASSUME NEW c \in D, NEW d \in D, Entity[c] = Entity[d] PROVE c = d
    OBVIOUS
  <2>3. CASE c = "<"
    BY <2>1, <2>2, <2>3
  <2>4. CASE c = ">"
    BY <2>1, <2>2, <2>4
  <2>5. CASE c = "&"
    BY <2>1, <2>2, <2>5
  <2>6. CASE c = "<b>"
    BY <2>1, <2>2, <2>6
  <2>7. CASE c = "</b>"
    BY <2>1, <2>2, <2>7
  <2>8. CASE c = "<i>"
    BY <2>1, <2>2, <2>8
  <2>9. CASE c = "</i>"
    BY <2>1, <2>2, <2>9
  <2>10. CASE c = "<code>"
    BY <2>1, <2>2, <2>10
  <2>11. CASE c = "</code>"
    BY <2>1, <2>2, <2>11
  <2>12. QED
    BY <2>3, <2>4, <2>5, <2>6, <2>7, <2>8, <2>9, <2>10, <2>11
<1>4. \A c \in DOMAIN Entity : Entity[c] \in Range(Entity)
  BY DEF Range
<1>5. D = Tags \cup {"<", ">", "&"}
  BY DEF Tags
<1> HIDE DEF D
<1>6. QED
  BY <1>1, <1>2, <1>3, <1>4, <1>5

\* A reader decodes what was encoded, and reads anything else as it is.
LEMMA Decoded ==
  ASSUME NEW S, Plain(S), NEW c \in S
  PROVE  Decode(Encoded(c)) = c /\ Decode(c) = c /\ Encoded(c) \notin DOMAIN Entity
<1>1. c \notin Range(Entity)
  BY DEF Plain
<1>2. ~ \E r \in DOMAIN Entity : Entity[r] = c
  BY <1>1 DEF Range
<1>3. Decode(c) = c
  BY <1>2 DEF Decode
<1>4. CASE c \in DOMAIN Entity
  <2>1. Encoded(c) = Entity[c]
    BY <1>4 DEF Encoded
  <2>2. \A r \in DOMAIN Entity : Entity[r] = Entity[c] <=> r = c
    BY <1>4, EntityFacts
  <2>3. Decode(Entity[c]) = c
    BY <1>4, <2>2 DEF Decode
  <2>4. QED
    BY <1>3, <1>4, <2>1, <2>3, EntityFacts
<1>5. CASE c \notin DOMAIN Entity
  BY <1>3, <1>5 DEF Encoded
<1>6. QED
  BY <1>4, <1>5

(***************************************************************************)
(* Sequences changed item by item.                                         *)
(***************************************************************************)
Maps(S, T) == [S -> T]
\* A text, character by character.
Mapped(map, s) == [i \in DOMAIN s |-> map[s[i]]]

\* It has as many characters, of the other kind.
LEMMA MappedType ==
  ASSUME NEW S, NEW T, NEW map \in Maps(S, T), NEW s \in Seq(S)
  PROVE  /\ Mapped(map, s) \in Seq(T)
         /\ Len(Mapped(map, s)) = Len(s)
         /\ \A i \in 1..Len(s) : Mapped(map, s)[i] = map[s[i]]
<1> DEFINE m == [i \in 1..Len(s) |-> map[s[i]]]
<1>1. Len(s) \in Nat /\ DOMAIN s = 1..Len(s) /\ \A i \in 1..Len(s) : s[i] \in S
  BY LenProperties, ElementOfSeq
<1>2. m \in [1..Len(s) -> T]
  BY <1>1 DEF Maps
<1>3. m \in Seq(T)
  BY <1>1, <1>2, SeqDef
<1>4. Len(m) = Len(s)
  <2>1. DOMAIN m = 1..Len(s)
    OBVIOUS
  <2> HIDE DEF m
  <2>2. Len(m) \in Nat /\ 1..Len(m) = 1..Len(s)
    BY <1>3, <2>1, LenProperties
  <2>3. QED
    BY <1>1, <2>2
<1>5. Mapped(map, s) = m /\ \A i \in 1..Len(s) : m[i] = map[s[i]]
  BY <1>1 DEF Mapped
<1> HIDE DEF m
<1>6. QED
  BY <1>3, <1>4, <1>5

\* It goes through two texts one after the other.
LEMMA MappedConcat ==
  ASSUME NEW S, NEW T, NEW map \in Maps(S, T), NEW s \in Seq(S), NEW t \in Seq(S)
  PROVE  Mapped(map, s \o t) = Mapped(map, s) \o Mapped(map, t)
<1> DEFINE u == s \o t
           a == Mapped(map, s)
           b == Mapped(map, t)
           m == Mapped(map, u)
           n == Len(s)
           k == Len(t)
<1>1. /\ n \in Nat /\ k \in Nat /\ u \in Seq(S) /\ Len(u) = n + k
      /\ \A i \in 1..(n + k) : u[i] = IF i <= n THEN s[i] ELSE t[i - n]
  BY LenProperties, ConcatProperties
<1>2. a \in Seq(T) /\ Len(a) = n /\ \A i \in 1..n : a[i] = map[s[i]]
  BY MappedType
<1>3. b \in Seq(T) /\ Len(b) = k /\ \A i \in 1..k : b[i] = map[t[i]]
  BY MappedType
<1> HIDE DEF u, n, k
<1>4. m \in Seq(T) /\ Len(m) = Len(u) /\ \A i \in 1..Len(u) : m[i] = map[u[i]]
  BY <1>1, MappedType
<1> HIDE DEF a, b, m
<1> DEFINE c == a \o b
<1>5. /\ c \in Seq(T) /\ Len(c) = n + k
      /\ \A i \in 1..(n + k) : c[i] = IF i <= n THEN a[i] ELSE b[i - n]
  <2>1. a \in Seq(T) /\ b \in Seq(T)
    BY <1>2, <1>3
  <2>2. /\ c \in Seq(T) /\ Len(c) = Len(a) + Len(b)
        /\ \A i \in 1..(Len(a) + Len(b)) :
             c[i] = IF i <= Len(a) THEN a[i] ELSE b[i - Len(a)]
    BY ONLY <2>1, ConcatProperties
  <2> HIDE DEF c
  <2>3. QED
    BY <1>2, <1>3, <2>2
<1> HIDE DEF c
<1>6. ASSUME NEW i \in 1..Len(m) PROVE m[i] = c[i]
  <2>1. i \in 1..(n + k) /\ m[i] = map[u[i]]
    BY <1>1, <1>4
  <2>2. CASE i <= n
    <3>1. i \in 1..n
      BY <1>1, <2>1, <2>2
    <3>2. u[i] = s[i] /\ c[i] = a[i] /\ a[i] = map[s[i]]
      BY <1>1, <1>2, <1>5, <2>1, <2>2, <3>1
    <3>3. QED
      BY <2>1, <3>2
  <2>3. CASE ~ (i <= n)
    <3>1. i - n \in 1..k
      BY <1>1, <2>1, <2>3
    <3>2. u[i] = t[i - n] /\ c[i] = b[i - n] /\ b[i - n] = map[t[i - n]]
      BY <1>1, <1>3, <1>5, <2>1, <2>3, <3>1
    <3>3. QED
      BY <2>1, <3>2
  <2>4. QED
    BY <2>2, <2>3
<1>7. m = c
  <2>1. Len(m) = Len(c)
    BY <1>1, <1>4, <1>5
  <2>2. QED
    BY <1>4, <1>5, <1>6, <2>1, SeqEqual
<1>8. QED
  BY <1>7 DEF m, u, c, a, b

\* Pieces that are each the image of another's are so together.
LEMMA PiecedMapped ==
  ASSUME NEW I, NEW S, NEW T, NEW piece \in Writers(I, S), NEW other \in Writers(I, T),
         NEW map \in Maps(S, T), \A x \in I : other[x] = Mapped(map, piece[x]),
         NEW items \in Seq(I)
  PROVE  Pieced(items, other) = Mapped(map, Pieced(items, piece))
<1> DEFINE D == {s \in Seq(I) : Pieced(s, other) = Mapped(map, Pieced(s, piece))}
<1>1. << >> \in D
  <2>1. Mapped(map, << >>) = << >>
    BY DEF Mapped
  <2>2. QED
    BY <2>1, PiecedEmpty, EmptySeq
<1>2. ASSUME NEW s \in Seq(I), NEW x \in I, s \in D PROVE Append(s, x) \in D
  <2> DEFINE p == Pieced(s, piece)
             q == piece[x]
  <2>1. p \in Seq(S) /\ q \in Seq(S)
    BY PiecesOf DEF Writers
  <2>2. Pieced(Append(s, x), piece) = p \o q
    BY PiecedAppend
  <2>3. Pieced(Append(s, x), other) = Pieced(s, other) \o other[x]
    BY PiecedAppend
  <2>4. Pieced(s, other) = Mapped(map, p) /\ other[x] = Mapped(map, q)
    BY <1>2
  <2> HIDE DEF p, q
  <2>5. Mapped(map, p \o q) = Mapped(map, p) \o Mapped(map, q)
    BY <2>1, MappedConcat
  <2>6. Append(s, x) \in Seq(I)
    BY AppendProperties
  <2>7. QED
    BY <2>2, <2>3, <2>4, <2>5, <2>6
<1> HIDE DEF D
<1>3. \A s \in Seq(I) : s \in D
  BY <1>1, <1>2, SequenceInduction
<1>4. QED
  BY <1>3 DEF D

(***************************************************************************)
(* Slack's, WhatsApp's and Messenger's texts.                              *)
(***************************************************************************)
MarkChars == {"*", "_", Tick}
\* What Slack may be sent, ...
Safe(S) == (S \cup Range(Entity) \cup MarkChars) \ DOMAIN Entity
\* ... and what its reader may see.
Read(S) == S \cup MarkChars \cup DOMAIN Entity

\* The marks of a chat channel around a run are none of the reserved characters, and
\* no entity.
LEMMA MarkFacts ==
  /\ MarkChars \cap DOMAIN Entity = {}
  /\ MarkChars \cap Range(Entity) = {}
  /\ \A k \in TagKinds : \E c \in MarkChars : ChatMarks[k] = <<c>>
<1> DEFINE D == {"<", ">", "&", "<b>", "</b>", "<i>", "</i>", "<code>", "</code>"}
<1>1. DOMAIN Entity = D
  BY DEF Entity
<1>2. \A c \in D : Entity[c] \notin MarkChars
  BY DEF Entity, MarkChars, Tick
<1>3. D \cap MarkChars = {}
  BY DEF MarkChars, Tick
<1>4. \A k \in TagKinds : \E c \in MarkChars : ChatMarks[k] = <<c>>
  <2>1. ChatMarks["Bold"] = <<"*">> /\ ChatMarks["Italic"] = <<"_">> /\ ChatMarks["Code"] = <<Tick>>
    BY DEF ChatMarks
  <2>2. "*" \in MarkChars /\ "_" \in MarkChars /\ Tick \in MarkChars
    BY DEF MarkChars
  <2>3. QED
    BY <2>1, <2>2 DEF TagKinds
<1> HIDE DEF D
<1>5. MarkChars \cap Range(Entity) = {}
  BY <1>1, <1>2 DEF Range
<1>6. QED
  BY <1>1, <1>3, <1>4, <1>5

\* The encoder, ...
Encoding(S) == [c \in S |-> Encoded(c)]
\* ... and the reader, as maps of characters.
Decoding(S) == [c \in Safe(S) |-> Decode(c)]

\* Encoded characters are safe, ...
LEMMA EncodingType ==
  ASSUME NEW S, Plain(S)
  PROVE  Encoding(S) \in Maps(S, Safe(S))
<1>1. ASSUME NEW c \in S PROVE Encoded(c) \in Safe(S)
  <2>1. Encoded(c) \notin DOMAIN Entity
    BY Decoded
  <2>2. Encoded(c) \in S \cup Range(Entity)
    BY EntityFacts DEF Encoded
  <2>3. QED
    BY <2>1, <2>2 DEF Safe
<1>2. QED
  BY <1>1 DEF Encoding, Maps

\* ... and decoded ones readable.
LEMMA DecodingType ==
  ASSUME NEW S, Plain(S)
  PROVE  Decoding(S) \in Maps(Safe(S), Read(S))
<1>1. ASSUME NEW c \in Safe(S) PROVE Decode(c) \in Read(S)
  <2>1. CASE \E r \in DOMAIN Entity : Entity[r] = c
    <3>1. Decode(c) = CHOOSE r \in DOMAIN Entity : Entity[r] = c
      BY <2>1 DEF Decode
    <3>2. Decode(c) \in DOMAIN Entity
      BY <2>1, <3>1
    <3>3. QED
      BY <3>2 DEF Read
  <2>2. CASE ~ \E r \in DOMAIN Entity : Entity[r] = c
    <3>1. Decode(c) = c
      BY <2>2 DEF Decode
    <3>2. c \notin Range(Entity)
      BY <2>2 DEF Range
    <3>3. QED
      BY <3>1, <3>2 DEF Safe, Read
  <2>3. QED
    BY <2>1, <2>2
<1>2. QED
  BY <1>1 DEF Decoding, Maps

\* Encoding is item by item, and decoding undoes it.
LEMMA EncodeIsMapped ==
  ASSUME NEW S, Plain(S), NEW said \in Seq(S)
  PROVE  /\ EncodeText(said) = Mapped(Encoding(S), said)
         /\ EncodeText(said) \in Seq(Safe(S))
         /\ Mapped(Decoding(S), EncodeText(said)) = said
<1>1. Len(said) \in Nat /\ DOMAIN said = 1..Len(said) /\ \A i \in 1..Len(said) : said[i] \in S
  BY LenProperties, ElementOfSeq
<1>2. EncodeText(said) = Mapped(Encoding(S), said)
  BY <1>1 DEF EncodeText, Mapped, Encoding, Encoded
<1> DEFINE e == EncodeText(said)
           d == Mapped(Decoding(S), e)
<1>3. e \in Seq(Safe(S)) /\ Len(e) = Len(said) /\ \A i \in 1..Len(said) : e[i] = Encoding(S)[said[i]]
  BY <1>2, EncodingType, MappedType
<1>4. \A i \in 1..Len(said) : e[i] = Encoded(said[i])
  BY <1>1, <1>3 DEF Encoding
<1> HIDE DEF e
<1>5. d \in Seq(Read(S)) /\ Len(d) = Len(e) /\ \A i \in 1..Len(e) : d[i] = Decoding(S)[e[i]]
  BY <1>3, DecodingType, MappedType
<1> HIDE DEF d
<1>6. \A i \in 1..Len(e) : d[i] = said[i]
  <2>1. SUFFICES ASSUME NEW i \in 1..Len(e) PROVE d[i] = said[i]
    OBVIOUS
  <2>2. e[i] \in Safe(S)
    BY <1>3, ElementOfSeq
  <2>3. d[i] = Decode(e[i])
    BY <1>5, <2>2 DEF Decoding
  <2>4. Decode(Encoded(said[i])) = said[i]
    BY <1>1, <1>3, Decoded
  <2>5. QED
    BY <1>3, <1>4, <2>3, <2>4
<1>7. said \in Seq(Read(S))
  <2>1. S \subseteq Read(S)
    BY DEF Read
  <2>2. QED
    BY <2>1, SeqMonotonic
<1>8. d = said
  BY <1>3, <1>5, <1>6, <1>7, SeqEqual
<1>9. QED
  BY <1>2, <1>3, <1>8 DEF d, e

\* What Slack is sent for a span, ...
SlackPiece(S) == [s \in SpanOf(S) |-> Marked(s, ChatMarks, EscapeSlack(s.body))]
\* ... and WhatsApp.
WhatsAppPiece(S) == [s \in SpanOf(S) |-> Marked(s, ChatMarks, s.body)]

\* A run of Slack's is what WhatsApp's reader sees, encoded.
LEMMA ChatPieces ==
  ASSUME NEW S, Plain(S)
  PROVE  /\ SlackPiece(S) \in Writers(SpanOf(S), Safe(S))
         /\ WhatsAppPiece(S) \in Writers(SpanOf(S), Read(S))
         /\ \A s \in SpanOf(S) : WhatsAppPiece(S)[s] = Mapped(Decoding(S), SlackPiece(S)[s])
<1>1. ASSUME NEW s \in SpanOf(S)
      PROVE  /\ Marked(s, ChatMarks, EscapeSlack(s.body)) \in Seq(Safe(S))
             /\ Marked(s, ChatMarks, s.body) \in Seq(Read(S))
             /\ Marked(s, ChatMarks, s.body)
                  = Mapped(Decoding(S), Marked(s, ChatMarks, EscapeSlack(s.body)))
  <2> DEFINE b == s.body
             e == EscapeSlack(b)
             dec == Decoding(S)
  <2>1. s.kind \in Kinds /\ b \in Seq(S)
    BY DEF SpanOf
  <2>2. e \in Seq(Safe(S)) /\ Mapped(dec, e) = b
    BY <2>1, EncodeIsMapped DEF EscapeSlack
  <2>3. dec \in Maps(Safe(S), Read(S))
    BY DecodingType
  <2> HIDE DEF b, e
  <2>4. b \in Seq(Read(S))
    BY <2>2, <2>3, MappedType
  <2>5. CASE s.kind = "Text"
    BY <2>2, <2>4, <2>5 DEF Marked, b, e
  <2>6. CASE s.kind # "Text"
    <3>1. s.kind \in TagKinds
      BY <2>1, <2>6 DEF Kinds, TagKinds
    <3>2. PICK c \in MarkChars : ChatMarks[s.kind] = <<c>>
      BY <3>1, MarkFacts
    <3>3. c \in Safe(S) /\ c \in Read(S) /\ c \notin Range(Entity)
      BY MarkFacts DEF Safe, Read
    <3>4. Decode(c) = c
      BY <3>3 DEF Decode, Range
    <3> DEFINE m == <<c>>
    <3>5. m \in Seq(Safe(S)) /\ m \in Seq(Read(S))
      BY <3>3
    <3>6. Mapped(dec, m) = m
      BY <3>3, <3>4 DEF Mapped, Decoding
    <3> HIDE DEF m, dec
    <3>7. m \o e \in Seq(Safe(S)) /\ (m \o e) \o m \in Seq(Safe(S))
      BY <2>2, <3>5, ConcatProperties
    <3>8. (m \o b) \o m \in Seq(Read(S))
      BY <2>4, <3>5, ConcatProperties
    <3>9. Mapped(dec, m \o e) = m \o b
      <4>1. e \in Seq(Safe(S)) /\ m \in Seq(Safe(S))
        BY <2>2, <3>5
      <4>2. Mapped(dec, m \o e) = Mapped(dec, m) \o Mapped(dec, e)
        BY <2>3, <4>1, MappedConcat
      <4>3. QED
        BY <2>2, <3>6, <4>2 DEF dec
    <3>10. Mapped(dec, (m \o e) \o m) = (m \o b) \o m
      <4> DEFINE u == m \o e
      <4>1. u \in Seq(Safe(S))
        BY <3>7
      <4> HIDE DEF u
      <4>2. Mapped(dec, u \o m) = Mapped(dec, u) \o Mapped(dec, m)
        BY <2>3, <3>5, <4>1, MappedConcat
      <4>3. QED
        BY <3>6, <3>9, <4>2 DEF dec, u
    <3>11. /\ Marked(s, ChatMarks, e) = (m \o e) \o m
           /\ Marked(s, ChatMarks, b) = (m \o b) \o m
      BY <2>6, <3>2 DEF Marked, m
    <3>12. QED
      BY <3>7, <3>8, <3>10, <3>11 DEF e, b, dec
  <2>7. QED
    BY <2>5, <2>6
<1>2. QED
  BY <1>1 DEF SlackPiece, WhatsAppPiece, Writers

\* Slack gets no bare reserved character, and its reader decodes WhatsApp's text.
LEMMA SlackIsDecoded ==
  ASSUME NEW S, Plain(S), NEW spans \in Seq(SpanOf(S))
  PROVE  /\ RenderSlackMrkdwn(spans) \in Seq(Safe(S))
         /\ Range(RenderSlackMrkdwn(spans)) \cap DOMAIN Entity = {}
         /\ [i \in DOMAIN RenderSlackMrkdwn(spans) |-> Decode(RenderSlackMrkdwn(spans)[i])]
              = RenderWhatsAppText(spans)
<1> DEFINE I == SpanOf(S)
           slack == SlackPiece(S)
           whatsapp == WhatsAppPiece(S)
           dec == Decoding(S)
           out == RenderSlackMrkdwn(spans)
<1>1. \A i \in DOMAIN spans : spans[i] \in I
  BY LenProperties, ElementOfSeq
<1>2. RenderSlackMrkdwn(spans) = Pieced(spans, slack)
  BY <1>1 DEF RenderSlackMrkdwn, Pieced, Parts, SlackPiece
<1>3. RenderWhatsAppText(spans) = Pieced(spans, whatsapp)
  BY <1>1 DEF RenderWhatsAppText, Pieced, Parts, WhatsAppPiece
<1>4. /\ slack \in Writers(I, Safe(S)) /\ whatsapp \in Writers(I, Read(S))
      /\ \A s \in I : whatsapp[s] = Mapped(dec, slack[s])
  BY ChatPieces
<1>5. spans \in Seq(I)
  OBVIOUS
<1>6. dec \in Maps(Safe(S), Read(S))
  BY DecodingType
<1>7. \A c \in Safe(S) : dec[c] = Decode(c)
  BY DEF Decoding
<1> HIDE DEF I, slack, whatsapp, dec, out
<1>8. Pieced(spans, whatsapp) = Mapped(dec, Pieced(spans, slack))
  BY <1>4, <1>5, <1>6, PiecedMapped
<1>9. out \in Seq(Safe(S))
  BY <1>2, <1>4, <1>5, PiecesOf DEF out
<1>10. \A i \in DOMAIN out : out[i] \in Safe(S)
  BY <1>9, LenProperties, ElementOfSeq
<1>11. Range(out) \cap DOMAIN Entity = {}
  BY <1>10 DEF Range, Safe
<1>12. [i \in DOMAIN out |-> Decode(out[i])] = Mapped(dec, out)
  BY <1>7, <1>10 DEF Mapped
<1>13. QED
  BY <1>2, <1>3, <1>8, <1>9, <1>11, <1>12 DEF out

(***************************************************************************)
(* What the spans say, and the words Messenger is sent.                    *)
(***************************************************************************)
Words(S) == Kinds \X S
\* A body in a style, ...
Styled(kind, body) == [j \in DOMAIN body |-> <<kind, body[j]>>]
\* ... the words of a span, ...
MeaningPiece(S) == [s \in SpanOf(S) |-> Styled(s.kind, s.body)]
\* ... what Messenger is sent of it, ...
PlainPiece(S) == [s \in SpanOf(S) |-> s.body]
\* ... and a word without its style.
Second(S) == [w \in Words(S) |-> w[2]]

\* A styled body spells the body.
LEMMA StyledType ==
  ASSUME NEW S, NEW kind \in Kinds, NEW body \in Seq(S)
  PROVE  /\ Styled(kind, body) \in Seq(Words(S))
         /\ Mapped(Second(S), Styled(kind, body)) = body
         /\ Styled(kind, << >>) = << >>
         /\ \A c \in S : Styled(kind, Append(body, c)) = Append(Styled(kind, body), <<kind, c>>)
<1> DEFINE style == [c \in S |-> <<kind, c>>]
           w == Styled(kind, body)
           back == Mapped(Second(S), w)
<1>1. style \in Maps(S, Words(S)) /\ \A c \in S : style[c] = <<kind, c>>
  BY DEF Maps, Words
<1>2. ASSUME NEW b \in Seq(S) PROVE Styled(kind, b) = Mapped(style, b)
  <2>1. \A j \in DOMAIN b : b[j] \in S
    BY LenProperties, ElementOfSeq
  <2>2. QED
    BY <2>1 DEF Styled, Mapped
<1> HIDE DEF style
<1>3. w \in Seq(Words(S)) /\ Len(w) = Len(body) /\ \A i \in 1..Len(body) : w[i] = style[body[i]]
  BY <1>1, <1>2, MappedType
<1> HIDE DEF w
<1>4. Second(S) \in Maps(Words(S), S)
  BY DEF Second, Maps, Words
<1>5. back \in Seq(S) /\ Len(back) = Len(w) /\ \A i \in 1..Len(w) : back[i] = Second(S)[w[i]]
  BY <1>3, <1>4, MappedType
<1> HIDE DEF back
<1>6. \A i \in 1..Len(back) : back[i] = body[i]
  <2>1. SUFFICES ASSUME NEW i \in 1..Len(back) PROVE back[i] = body[i]
    OBVIOUS
  <2>2. i \in 1..Len(body) /\ body[i] \in S
    BY <1>3, <1>5, ElementOfSeq
  <2>3. w[i] = <<kind, body[i]>> /\ w[i] \in Words(S)
    BY <1>1, <1>3, <2>2 DEF Words
  <2>4. back[i] = Second(S)[w[i]]
    BY <1>5, <2>1
  <2>5. QED
    BY <2>3, <2>4 DEF Second
<1>7. back = body
  BY <1>3, <1>5, <1>6, SeqEqual
<1>8. Styled(kind, << >>) = << >>
  BY DEF Styled
<1>9. ASSUME NEW c \in S PROVE Styled(kind, Append(body, c)) = Append(w, <<kind, c>>)
  <2> DEFINE one == <<c>>
  <2>1. one \in Seq(S) /\ Append(body, c) = body \o one /\ Append(body, c) \in Seq(S)
    BY AppendIsConcat, AppendProperties
  <2>2. Mapped(style, one) = <<style[c]>>
    BY DEF Mapped
  <2> HIDE DEF one
  <2>3. Mapped(style, body \o one) = Mapped(style, body) \o Mapped(style, one)
    BY <1>1, <2>1, MappedConcat
  <2>4. Styled(kind, Append(body, c)) = w \o <<style[c]>>
    BY <1>2, <2>1, <2>2, <2>3 DEF w
  <2>5. style[c] \in Words(S)
    <3>1. <<kind, c>> \in Words(S)
      BY DEF Words
    <3>2. QED
      BY <1>1, <3>1
  <2>6. Append(w, style[c]) = w \o <<style[c]>>
    BY <1>3, <2>5, AppendIsConcat
  <2>7. QED
    BY <1>1, <2>4, <2>6
<1>10. QED
  BY <1>3, <1>7, <1>8, <1>9 DEF w, back

\* The words are those of the meaning, without their styles.
LEMMA PlainIsMeaning ==
  ASSUME NEW S, NEW spans \in Seq(SpanOf(S))
  PROVE  /\ Meaning(spans) = Pieced(spans, MeaningPiece(S))
         /\ MeaningPiece(S) \in Writers(SpanOf(S), Words(S))
         /\ Meaning(spans) \in Seq(Words(S))
         /\ RenderPlain(spans) = [i \in DOMAIN Meaning(spans) |-> Meaning(spans)[i][2]]
<1> DEFINE I == SpanOf(S)
           plain == PlainPiece(S)
           meaning == MeaningPiece(S)
           m == Meaning(spans)
<1>1. \A i \in DOMAIN spans : spans[i] \in I
  BY LenProperties, ElementOfSeq
<1>2. \A s \in I : s.kind \in Kinds /\ s.body \in Seq(S)
  BY DEF SpanOf
<1>3. m = Pieced(spans, meaning)
  BY <1>1 DEF Meaning, Pieced, Parts, MeaningPiece, Styled
<1>4. RenderPlain(spans) = Pieced(spans, plain)
  BY <1>1 DEF RenderPlain, Pieced, Parts, PlainPiece
<1>5. meaning \in Writers(I, Words(S))
  BY <1>2, StyledType DEF MeaningPiece, Writers
<1>6. plain \in Writers(I, S)
  BY <1>2 DEF PlainPiece, Writers
<1>7. \A s \in I : plain[s] = Mapped(Second(S), meaning[s])
  <2>1. SUFFICES ASSUME NEW s \in I PROVE plain[s] = Mapped(Second(S), meaning[s])
    OBVIOUS
  <2>2. plain[s] = s.body /\ meaning[s] = Styled(s.kind, s.body)
    BY DEF PlainPiece, MeaningPiece
  <2>3. s.kind \in Kinds /\ s.body \in Seq(S)
    BY <1>2
  <2>4. Mapped(Second(S), Styled(s.kind, s.body)) = s.body
    BY <2>3, StyledType
  <2>5. QED
    BY <2>2, <2>4
<1>8. Second(S) \in Maps(Words(S), S) /\ \A w \in Words(S) : Second(S)[w] = w[2]
  BY DEF Second, Maps, Words
<1>9. spans \in Seq(I)
  OBVIOUS
<1> HIDE DEF I, plain, meaning, m
<1>10. Pieced(spans, plain) = Mapped(Second(S), Pieced(spans, meaning))
  BY <1>5, <1>6, <1>7, <1>8, <1>9, PiecedMapped
<1>11. m \in Seq(Words(S))
  BY <1>3, <1>5, <1>9, PiecesOf
<1>12. [i \in DOMAIN m |-> m[i][2]] = Mapped(Second(S), m)
  <2>1. \A i \in DOMAIN m : m[i] \in Words(S)
    BY <1>11, LenProperties, ElementOfSeq
  <2>2. QED
    BY <1>8, <2>1 DEF Mapped
<1>13. QED
  BY <1>3, <1>4, <1>5, <1>10, <1>11, <1>12 DEF m, I, meaning

------------------------------------------------------------------------------
(***************************************************************************)
(* Telegram reads the words of the spans in their styles.                  *)
(***************************************************************************)

\* The characters Telegram may be sent.
Html(S) == Safe(S) \cup Tags
\* What a reader may have seen, ...
Seen(S) == [style : Kinds, words : Seq(Words(Read(S))), ok : BOOLEAN]
\* ... and has when it starts.
Unread == [style |-> "Text", words |-> << >>, ok |-> TRUE]

\* A tag opens or closes its own kind, ...
LEMMA TagOpens ==
  \A k \in TagKinds : Opens(TAG_TABLE[k].open) = k /\ Opens(TAG_TABLE[k].close) = k
<1>1. SUFFICES ASSUME NEW k \in TagKinds
               PROVE  Opens(TAG_TABLE[k].open) = k /\ Opens(TAG_TABLE[k].close) = k
  OBVIOUS
<1>2. \A j \in TagKinds :
        /\ TAG_TABLE[k].open \in {TAG_TABLE[j].open, TAG_TABLE[j].close} => j = k
        /\ TAG_TABLE[k].close \in {TAG_TABLE[j].open, TAG_TABLE[j].close} => j = k
  BY TagFacts
<1>3. QED
  BY <1>2 DEF Opens

\* ... and each is of a kind.
LEMMA EveryTagOpens == \A c \in Tags : Opens(c) \in TagKinds
<1>1. SUFFICES ASSUME NEW c \in Tags PROVE Opens(c) \in TagKinds
  OBVIOUS
<1>2. \E k \in TagKinds : c \in {TAG_TABLE[k].open, TAG_TABLE[k].close}
  BY DEF Tags, TAG_TABLE, TagKinds
<1>3. QED
  BY <1>2 DEF Opens

\* A character read leaves the reader in a state of its type.
LEMMA ReadsOneType ==
  ASSUME NEW S, Plain(S), NEW seen \in Seen(S), NEW c \in Html(S)
  PROVE  TelegramReadsOne(seen, c) \in Seen(S)
<1>1. /\ seen.style \in Kinds /\ seen.words \in Seq(Words(Read(S))) /\ seen.ok \in BOOLEAN
      /\ seen = [style |-> seen.style, words |-> seen.words, ok |-> seen.ok]
  BY DEF Seen
<1>2. CASE c \in Tags
  <2>1. Opens(c) \in Kinds
    BY <1>2, EveryTagOpens DEF Kinds, TagKinds
  <2>2. "Text" \in Kinds
    BY DEF Kinds
  <2>3. QED
    BY <1>1, <1>2, <2>1, <2>2 DEF TelegramReadsOne, Seen
<1>3. CASE c \notin Tags
  <2>1. c \in Safe(S)
    BY <1>3 DEF Html
  <2>2. Decode(c) \in Read(S)
    BY <2>1, DecodingType DEF Decoding, Maps
  <2>3. <<seen.style, Decode(c)>> \in Words(Read(S))
    BY <1>1, <2>2 DEF Words
  <2>4. Append(seen.words, <<seen.style, Decode(c)>>) \in Seq(Words(Read(S)))
    BY <1>1, <2>3, AppendProperties
  <2>5. QED
    BY <1>1, <1>3, <2>4 DEF TelegramReadsOne, Seen
<1>4. QED
  BY <1>2, <1>3

\* The reader takes one character after the other.
LEMMA TelegramRuns ==
  ASSUME NEW S, Plain(S), NEW html \in Seq(Html(S))
  PROVE  \E seen \in [0..Len(html) -> Seen(S)] :
           /\ seen[0] = Unread
           /\ \A k \in 1..Len(html) : seen[k] = TelegramReadsOne(seen[k - 1], html[k])
           /\ TelegramReads(html) = seen[Len(html)]
<1> DEFINE n == Len(html)
           A == Seen(S)
           round == [p \in (1..n) \X A |-> TelegramReadsOne(p[2], html[p[1]])]
           Step(f, k) == IF k = 0 THEN [style |-> "Text", words |-> << >>, ok |-> TRUE]
                         ELSE TelegramReadsOne(f[k - 1], html[k])
           seen == CHOOSE f : f = [k \in 0..n |-> Step(f, k)]
<1>1. n \in Nat /\ Unread \in A /\ \A k \in 1..n : html[k] \in Html(S)
  BY LenProperties, EmptySeq, ElementOfSeq DEF Unread, Seen, Kinds
<1>2. \A k \in 1..n : \A a \in A : TelegramReadsOne(a, html[k]) \in A
  BY <1>1, ReadsOneType
<1>3. TelegramReads(html) = seen[n]
  BY DEF TelegramReads
<1> HIDE DEF n, A
<1>4. \A k \in 1..n : \A a \in A : round[<<k, a>>] = TelegramReadsOne(a, html[k])
  OBVIOUS
<1>5. Stays(round, A, n)
  BY <1>2, <1>4 DEF Stays
<1> HIDE DEF round
<1>6. PICK g : Runs(g, A, Unread, round, n)
  BY <1>1, <1>5, LoopRuns
<1>7. /\ g \in [0..n -> A] /\ g[0] = Unread
      /\ \A k \in 1..n : g[k] = TelegramReadsOne(g[k - 1], html[k])
  <2>1. g \in [0..n -> A] /\ g[0] = Unread /\ \A k \in 1..n : g[k] = round[<<k, g[k - 1]>>]
    BY <1>6 DEF Runs
  <2>2. ASSUME NEW k \in 1..n PROVE g[k] = TelegramReadsOne(g[k - 1], html[k])
    <3>1. k - 1 \in 0..n
      BY <1>1
    <3>2. g[k - 1] \in A
      BY <2>1, <3>1
    <3>3. QED
      BY <1>4, <2>1, <3>2
  <2>3. QED
    BY <2>1, <2>2
<1>8. g = [k \in 0..n |-> Step(g, k)]
  BY <1>1, <1>7 DEF Unread
<1>9. seen = [k \in 0..n |-> Step(seen, k)]
  BY <1>8
<1> HIDE DEF seen
<1>10. seen[0] = Unread /\ \A k \in 1..n : seen[k] = TelegramReadsOne(seen[k - 1], html[k])
  <2>1. seen[0] = Unread
    BY <1>1, <1>9 DEF Unread
  <2>2. \A k \in 1..n : k \in 0..n /\ k # 0
    BY <1>1
  <2>3. ASSUME NEW k \in 1..n PROVE seen[k] = TelegramReadsOne(seen[k - 1], html[k])
    <3>1. seen[k] = Step(seen, k)
      BY <1>9, <2>2
    <3>2. QED
      BY <2>2, <3>1
  <2>4. QED
    BY <2>1, <2>3
<1>11. \A k \in 0..n : seen[k] = g[k]
  <2>1. Agree(seen, g, n)
    BY <1>7, <1>10 DEF Agree
  <2>2. QED
    BY <1>1, <2>1, LoopIsOne
<1>12. seen \in [0..n -> A]
  BY <1>7, <1>9, <1>11
<1>13. QED
  BY <1>3, <1>10, <1>12 DEF n, A

\* A reader goes on where it is.
LEMMA TelegramReadsOn ==
  ASSUME NEW S, Plain(S), NEW html \in Seq(Html(S)), NEW c \in Html(S)
  PROVE  /\ TelegramReads(html) \in Seen(S)
         /\ TelegramReads(Append(html, c)) = TelegramReadsOne(TelegramReads(html), c)
<1> DEFINE all == Append(html, c)
           n == Len(html)
<1>1. /\ n \in Nat /\ all \in Seq(Html(S)) /\ Len(all) = n + 1 /\ all[n + 1] = c
      /\ \A k \in 1..n : all[k] = html[k]
  BY AppendProperties, LenProperties
<1>2. PICK f \in [0..n -> Seen(S)] :
        /\ f[0] = Unread
        /\ \A k \in 1..n : f[k] = TelegramReadsOne(f[k - 1], html[k])
        /\ TelegramReads(html) = f[n]
  BY TelegramRuns
<1> HIDE DEF all, n
<1>3. PICK g \in [0..Len(all) -> Seen(S)] :
        /\ g[0] = Unread
        /\ \A k \in 1..Len(all) : g[k] = TelegramReadsOne(g[k - 1], all[k])
        /\ TelegramReads(all) = g[Len(all)]
  BY <1>1, TelegramRuns
<1>4. n + 1 \in 1..Len(all) /\ (n + 1) - 1 = n /\ \A k \in 1..n : k \in 1..Len(all)
  <2>1. n \in Nat /\ Len(all) = n + 1
    BY <1>1
  <2>2. QED
    BY <2>1
<1>5. Agree(g, f, n)
  <2>1. ASSUME NEW k \in 1..n, g[k - 1] = f[k - 1] PROVE g[k] = f[k]
    <3>1. g[k] = TelegramReadsOne(g[k - 1], all[k]) /\ f[k] = TelegramReadsOne(f[k - 1], html[k])
      BY <1>2, <1>3, <1>4
    <3>2. QED
      BY <1>1, <2>1, <3>1
  <2>2. QED
    BY <1>2, <1>3, <2>1 DEF Agree
<1>6. g[n] = f[n] /\ f[n] \in Seen(S)
  <2>1. n \in 0..n
    BY <1>1
  <2>2. QED
    BY <1>1, <1>2, <1>5, <2>1, LoopIsOne
<1>7. g[n + 1] = TelegramReadsOne(g[n], c)
  BY <1>1, <1>3, <1>4
<1>8. QED
  BY <1>1, <1>2, <1>3, <1>6, <1>7 DEF all

\* A reader starts in plain text.
LEMMA TelegramStarts == ASSUME NEW S, Plain(S) PROVE TelegramReads(<< >>) = Unread
<1>1. << >> \in Seq(Html(S)) /\ Len(<< >>) = 0
  BY EmptySeq
<1>2. PICK f \in [0..Len(<< >>) -> Seen(S)] : f[0] = Unread /\ TelegramReads(<< >>) = f[Len(<< >>)]
  BY <1>1, TelegramRuns
<1>3. QED
  BY <1>1, <1>2

\* Encoding goes character by character.
LEMMA EncodeAppend ==
  ASSUME NEW S, Plain(S), NEW body \in Seq(S), NEW c \in S
  PROVE  /\ EncodeText(Append(body, c)) = Append(EncodeText(body), Encoded(c))
         /\ Encoded(c) \in Safe(S)
         /\ EncodeText(<< >>) = << >>
<1> DEFINE enc == Encoding(S)
           one == <<c>>
           e == Mapped(enc, body)
<1>1. enc \in Maps(S, Safe(S)) /\ enc[c] = Encoded(c)
  BY EncodingType DEF Encoding
<1>2. one \in Seq(S) /\ Append(body, c) = body \o one /\ Append(body, c) \in Seq(S)
  BY AppendIsConcat, AppendProperties
<1>3. Mapped(enc, one) = <<enc[c]>>
  BY DEF Mapped
<1>4. enc[c] \in Safe(S)
  <2>1. Encoding(S)[c] \in Safe(S)
    BY EncodingType DEF Maps
  <2>2. QED
    BY <2>1
<1> HIDE DEF enc, one
<1>5. Mapped(enc, body \o one) = e \o Mapped(enc, one)
  BY <1>1, <1>2, MappedConcat
<1>6. e \in Seq(Safe(S))
  BY <1>1, MappedType
<1> HIDE DEF e
<1>7. Append(e, enc[c]) = e \o <<enc[c]>>
  BY <1>4, <1>6, AppendIsConcat
<1>8. EncodeText(body) = e
  BY EncodeIsMapped DEF e, enc
<1>9. EncodeText(Append(body, c)) = Mapped(enc, body \o one)
  BY <1>2, EncodeIsMapped DEF enc
<1>10. EncodeText(<< >>) = << >>
  BY DEF EncodeText
<1>11. QED
  BY <1>1, <1>3, <1>4, <1>5, <1>7, <1>8, <1>9, <1>10

\* A reader's state, by its parts.
ReadTo(style, words, ok) == [style |-> style, words |-> words, ok |-> ok]

\* An encoded character is a word in the style of the moment ...
LEMMA ReadsCharacter ==
  ASSUME NEW S, Plain(S), NEW c \in S, NEW style \in Kinds,
         NEW words \in Seq(Words(Read(S))), NEW ok \in BOOLEAN
  PROVE  TelegramReadsOne(ReadTo(style, words, ok), Encoded(c))
           = ReadTo(style, Append(words, <<style, c>>), ok)
<1> DEFINE x == Encoded(c)
<1>1. x \notin Tags /\ x \notin {"<", ">", "&"}
  BY Decoded, EntityFacts
<1>2. Decode(x) = c
  BY Decoded
<1> HIDE DEF x
<1>3. TelegramReadsOne(ReadTo(style, words, ok), x)
        = [ReadTo(style, words, ok) EXCEPT !.words = Append(@, <<style, Decode(x)>>),
                                           !.ok = @ /\ x \notin {"<", ">", "&"}]
  BY <1>1 DEF TelegramReadsOne, ReadTo
<1>4. (ok /\ x \notin {"<", ">", "&"}) = ok
  BY <1>1
<1>5. QED
  BY <1>2, <1>3, <1>4 DEF x, ReadTo

\* ... and a tag that is opened in plain text or closed in its own run changes the style.
LEMMA ReadsTag ==
  ASSUME NEW k \in TagKinds, NEW words, NEW ok \in BOOLEAN
  PROVE  /\ TelegramReadsOne(ReadTo("Text", words, ok), TAG_TABLE[k].open) = ReadTo(k, words, ok)
         /\ TelegramReadsOne(ReadTo(k, words, ok), TAG_TABLE[k].close) = ReadTo("Text", words, ok)
<1> DEFINE open == TAG_TABLE[k].open
           close == TAG_TABLE[k].close
<1>1. open \in Tags /\ close \in Tags /\ open # close
  BY TagFacts
<1>2. Opens(open) = k /\ Opens(close) = k
  BY TagOpens
<1>3. TAG_TABLE[Opens(open)].open = open /\ TAG_TABLE[Opens(close)].open # close
  BY <1>1, <1>2
<1> HIDE DEF open, close
<1>4. TelegramReadsOne(ReadTo("Text", words, ok), open)
        = [ReadTo("Text", words, ok) EXCEPT !.style = k, !.ok = @ /\ "Text" = "Text"]
  BY <1>1, <1>2, <1>3 DEF TelegramReadsOne, ReadTo
<1>5. TelegramReadsOne(ReadTo(k, words, ok), close)
        = [ReadTo(k, words, ok) EXCEPT !.style = "Text", !.ok = @ /\ k = k]
  BY <1>1, <1>2, <1>3 DEF TelegramReadsOne, ReadTo
<1>6. QED
  BY <1>4, <1>5 DEF open, close, ReadTo

\* A text that is encoded is read as its own words, in the style of the moment.
LEMMA ReadsText ==
  ASSUME NEW S, Plain(S), NEW html \in Seq(Html(S)), NEW style \in Kinds,
         NEW words \in Seq(Words(Read(S))), NEW ok \in BOOLEAN,
         TelegramReads(html) = ReadTo(style, words, ok)
  PROVE  \A body \in Seq(S) :
           /\ html \o EncodeText(body) \in Seq(Html(S))
           /\ TelegramReads(html \o EncodeText(body)) = ReadTo(style, words \o Styled(style, body), ok)
           /\ words \o Styled(style, body) \in Seq(Words(Read(S)))
<1> DEFINE H == Html(S)
           W == Words(Read(S))
           out(b) == html \o EncodeText(b)
           said(b) == words \o Styled(style, b)
           T == {b \in Seq(S) : /\ out(b) \in Seq(H)
                                /\ TelegramReads(out(b)) = ReadTo(style, said(b), ok)
                                /\ said(b) \in Seq(W)}
<1>1. << >> \in T
  <2>1. EncodeText(<< >>) = << >> /\ Styled(style, << >>) = << >>
    BY DEF EncodeText, Styled
  <2>2. out(<< >>) = html /\ said(<< >>) = words
    BY <2>1, ConcatEmptySeq
  <2>3. QED
    BY <2>2, EmptySeq
<1>2. ASSUME NEW b \in Seq(S), NEW c \in S, b \in T PROVE Append(b, c) \in T
  <2> DEFINE e == EncodeText(b)
             w == Styled(style, b)
             x == Encoded(c)
             word == <<style, c>>
  <2>1. EncodeText(Append(b, c)) = Append(e, x) /\ x \in Safe(S) /\ e \in Seq(Safe(S))
    BY EncodeAppend, EncodeIsMapped
  <2>2. x \in H /\ e \in Seq(H)
    <3>1. Safe(S) \subseteq H
      BY DEF Html
    <3> HIDE DEF H
    <3>2. QED
      BY <2>1, <3>1, SeqMonotonic
  <2>3. Styled(style, Append(b, c)) = Append(w, word)
    BY StyledType
  <2>4. word \in W /\ w \in Seq(W)
    <3>1. S \subseteq Read(S)
      BY DEF Read
    <3>2. b \in Seq(Read(S))
      BY <3>1, SeqMonotonic
    <3>3. w \in Seq(Words(Read(S)))
      BY <3>2, StyledType
    <3>4. word \in Words(Read(S))
      BY <3>1 DEF Words
    <3>5. QED
      BY <3>3, <3>4
  <2>5. out(b) \in Seq(H) /\ TelegramReads(out(b)) = ReadTo(style, said(b), ok) /\ said(b) \in Seq(W)
    BY <1>2
  <2>6. TelegramReadsOne(ReadTo(style, said(b), ok), x) = ReadTo(style, Append(said(b), word), ok)
    BY <2>5, ReadsCharacter
  <2>7. TelegramReads(Append(out(b), x)) = TelegramReadsOne(TelegramReads(out(b)), x)
    BY <2>2, <2>5, TelegramReadsOn
  <2> HIDE DEF H, W, e, w, x, word
  <2>8. html \o Append(e, x) = Append(html \o e, x)
    BY <2>2, ConcatAppend DEF H
  <2>9. words \o Append(w, word) = Append(words \o w, word)
    BY <2>4, ConcatAppend DEF W
  <2>10. out(b) = html \o e /\ out(Append(b, c)) = html \o Append(e, x)
    BY <2>1 DEF e
  <2>11. said(b) = words \o w /\ said(Append(b, c)) = words \o Append(w, word)
    BY <2>3 DEF w
  <2>12. Append(out(b), x) \in Seq(H) /\ Append(said(b), word) \in Seq(W)
    BY <2>2, <2>4, <2>5, AppendProperties
  <2>13. Append(b, c) \in Seq(S)
    BY AppendProperties
  <2> HIDE DEF out, said
  <2>14. out(Append(b, c)) = Append(out(b), x) /\ said(Append(b, c)) = Append(said(b), word)
    BY <2>8, <2>9, <2>10, <2>11
  <2>15. TelegramReads(Append(out(b), x)) = ReadTo(style, Append(said(b), word), ok)
    BY <2>5, <2>6, <2>7
  <2>16. QED
    BY <2>12, <2>13, <2>14, <2>15
<1> HIDE DEF T
<1>3. \A b \in Seq(S) : b \in T
  BY <1>1, <1>2, SequenceInduction
<1>4. QED
  BY <1>3 DEF T

\* What Telegram is sent for a span.
TelegramPiece(S) == [s \in SpanOf(S) |-> Tagged(s, EncodeText(s.body))]

\* A span is read as its own words in its own style, and leaves no tag open.
LEMMA ReadsSpan ==
  ASSUME NEW S, Plain(S), NEW html \in Seq(Html(S)), NEW words \in Seq(Words(Read(S))),
         NEW ok \in BOOLEAN, TelegramReads(html) = ReadTo("Text", words, ok),
         NEW s \in SpanOf(S)
  PROVE  /\ html \o Tagged(s, EncodeText(s.body)) \in Seq(Html(S))
         /\ TelegramReads(html \o Tagged(s, EncodeText(s.body)))
              = ReadTo("Text", words \o Styled(s.kind, s.body), ok)
         /\ words \o Styled(s.kind, s.body) \in Seq(Words(Read(S)))
<1> DEFINE H == Html(S)
           b == s.body
           k == s.kind
           e == EncodeText(b)
           said == words \o Styled(k, b)
<1>1. k \in Kinds /\ b \in Seq(S) /\ "Text" \in Kinds
  BY DEF SpanOf, Kinds
<1>2. CASE k = "Text"
  <2>1. Tagged(s, e) = e
    BY <1>2 DEF Tagged
  <2>2. /\ html \o EncodeText(b) \in Seq(Html(S))
        /\ TelegramReads(html \o EncodeText(b)) = ReadTo("Text", words \o Styled("Text", b), ok)
        /\ words \o Styled("Text", b) \in Seq(Words(Read(S)))
    BY <1>1, ReadsText
  <2>3. QED
    BY <1>2, <2>1, <2>2
<1>3. CASE k # "Text"
  <2> DEFINE open == TAG_TABLE[k].open
             close == TAG_TABLE[k].close
             begun == Append(html, open)
  <2>1. k \in TagKinds
    BY <1>1, <1>3 DEF Kinds, TagKinds
  <2>2. open \in Html(S) /\ close \in Html(S)
    BY <2>1, TagFacts DEF Html
  <2>3. TelegramReads(begun) = ReadTo(k, words, ok)
    <3>1. TelegramReads(Append(html, open)) = TelegramReadsOne(TelegramReads(html), open)
      BY <2>2, TelegramReadsOn
    <3>2. QED
      BY <2>1, <3>1, ReadsTag
  <2>4. begun \in Seq(Html(S))
    BY <2>2, AppendProperties
  <2> HIDE DEF begun
  <2>5. /\ begun \o EncodeText(b) \in Seq(Html(S))
        /\ TelegramReads(begun \o EncodeText(b)) = ReadTo(k, said, ok)
        /\ said \in Seq(Words(Read(S)))
    BY <1>1, <2>3, <2>4, ReadsText
  <2> DEFINE run == begun \o e
  <2>6. TelegramReads(Append(run, close)) = ReadTo("Text", said, ok)
    <3>1. run \in Seq(Html(S)) /\ TelegramReads(run) = ReadTo(k, said, ok)
      BY <2>5
    <3> HIDE DEF run
    <3>2. TelegramReads(Append(run, close)) = TelegramReadsOne(TelegramReads(run), close)
      BY <2>2, <3>1, TelegramReadsOn
    <3>3. QED
      BY <2>1, <3>1, <3>2, ReadsTag
  <2>7. Append(run, close) \in Seq(Html(S))
    BY <2>2, <2>5, AppendProperties
  <2>8. Append(run, close) = html \o Tagged(s, e)
    <3> DEFINE o == <<open>>
               c == <<close>>
    <3>1. o \in Seq(H) /\ c \in Seq(H)
      BY <2>2
    <3>2. begun = html \o o
      BY <2>2, AppendIsConcat DEF begun
    <3>3. run \in Seq(H)
      BY <2>5
    <3>4. Append(run, close) = run \o c
      BY <2>2, <3>3, AppendIsConcat
    <3>5. Tagged(s, e) = (o \o e) \o c
      BY <1>3 DEF Tagged
    <3>6. e \in Seq(H) /\ html \in Seq(H)
      <4>1. Safe(S) \subseteq Html(S)
        BY DEF Html
      <4>2. EncodeText(b) \in Seq(Safe(S))
        BY <1>1, EncodeIsMapped
      <4>3. QED
        BY <4>1, <4>2, SeqMonotonic
    <3>7. run = begun \o e
      OBVIOUS
    <3> HIDE DEF H, o, c, run, e, open, close
    <3>8. o \o e \in Seq(H)
      BY <3>1, <3>6, ConcatProperties
    <3>9. (html \o o) \o e = html \o (o \o e)
      BY <3>1, <3>6, ConcatAssociative
    <3> DEFINE oe == o \o e
    <3>10. oe \in Seq(H)
      BY <3>8
    <3> HIDE DEF oe
    <3>11. (html \o oe) \o c = html \o (oe \o c)
      BY <3>1, <3>6, <3>10, ConcatAssociative
    <3>12. QED
      BY <3>2, <3>4, <3>5, <3>7, <3>9, <3>11 DEF oe
  <2>9. QED
    BY <2>5, <2>6, <2>7, <2>8
<1>4. QED
  BY <1>2, <1>3

\* Telegram's reader of the rendered spans reads what the spans say.
LEMMA TelegramReadsMeaning ==
  ASSUME NEW S, Plain(S)
  PROVE  \A spans \in Seq(SpanOf(S)) :
           TelegramReads(RenderTelegramHtml(spans)) = ReadTo("Text", Meaning(spans), TRUE)
<1> DEFINE I == SpanOf(S)
           W == Words(Read(S))
           out(s) == RenderTelegramHtml(s)
           T == {s \in Seq(I) : /\ out(s) \in Seq(Html(S)) /\ Meaning(s) \in Seq(W)
                                /\ TelegramReads(out(s)) = ReadTo("Text", Meaning(s), TRUE)}
           piece == TelegramPiece(S)
           meaning == MeaningPiece(S)
<1>1. piece \in Writers(I, Html(S))
  <2>1. ASSUME NEW s \in I PROVE Tagged(s, EncodeText(s.body)) \in Seq(Html(S))
    <3> DEFINE p == Tagged(s, EncodeText(s.body))
    <3>4. p \in Seq(Html(S))
      <4>1. s.kind \in Kinds /\ s.body \in Seq(S)
        BY DEF SpanOf
      <4> DEFINE e == EncodeText(s.body)
      <4>2. e \in Seq(Html(S))
        <5>1. Safe(S) \subseteq Html(S)
          BY DEF Html
        <5>2. QED
          BY <4>1, <5>1, EncodeIsMapped, SeqMonotonic
      <4>3. CASE s.kind = "Text"
        BY <4>2, <4>3 DEF Tagged
      <4>4. CASE s.kind # "Text"
        <5> DEFINE o == <<TAG_TABLE[s.kind].open>>
                   c == <<TAG_TABLE[s.kind].close>>
        <5>1. s.kind \in TagKinds
          BY <4>1, <4>4 DEF Kinds, TagKinds
        <5>2. o \in Seq(Html(S)) /\ c \in Seq(Html(S))
          BY <5>1, TagFacts DEF Html
        <5>3. p = o \o e \o c
          BY <4>4 DEF Tagged
        <5> HIDE DEF o, c, e, p
        <5>4. o \o e \in Seq(Html(S))
          BY <4>2, <5>2, ConcatProperties
        <5>5. QED
          BY <5>2, <5>3, <5>4, ConcatProperties
      <4>5. QED
        BY <4>3, <4>4
    <3>5. QED
      BY <3>4
  <2>2. QED
    BY <2>1 DEF TelegramPiece, Writers
<1>2. ASSUME NEW s \in Seq(I) PROVE out(s) = Pieced(s, piece)
  <2>1. \A i \in DOMAIN s : s[i] \in I
    BY LenProperties, ElementOfSeq
  <2>2. QED
    BY <2>1 DEF RenderTelegramHtml, Pieced, Parts, TelegramPiece
<1>3. << >> \in T
  <2>1. out(<< >>) = << >> /\ Meaning(<< >>) = << >> /\ << >> \in Seq(I)
    BY <1>2, EmptySeq, PiecedEmpty, PlainIsMeaning
  <2>2. TelegramReads(<< >>) = ReadTo("Text", << >>, TRUE)
    BY TelegramStarts DEF Unread, ReadTo
  <2>3. QED
    BY <2>1, <2>2, EmptySeq
<1>4. ASSUME NEW s \in Seq(I), NEW x \in I, s \in T PROVE Append(s, x) \in T
  <2> DEFINE p == Tagged(x, EncodeText(x.body))
             w == Styled(x.kind, x.body)
             words == Meaning(s)
             html == out(s)
  <2>1. html \in Seq(Html(S)) /\ words \in Seq(W) /\ TelegramReads(html) = ReadTo("Text", words, TRUE)
    BY <1>4
  <2>2. Append(s, x) \in Seq(I)
    BY AppendProperties
  <2>3. out(Append(s, x)) = html \o p
    <3>1. Pieced(Append(s, x), piece) = Pieced(s, piece) \o piece[x]
      BY <1>1, PiecedAppend
    <3>2. piece[x] = p
      BY DEF TelegramPiece
    <3>3. QED
      BY <1>2, <2>2, <3>1, <3>2
  <2>4. Meaning(Append(s, x)) = words \o w
    <3>1. meaning \in Writers(I, Words(S)) /\ Meaning(s) = Pieced(s, meaning)
      BY PlainIsMeaning
    <3>2. Meaning(Append(s, x)) = Pieced(Append(s, x), meaning)
      BY <2>2, PlainIsMeaning
    <3>3. meaning[x] = w
      BY DEF MeaningPiece
    <3> HIDE DEF meaning
    <3>4. Pieced(Append(s, x), meaning) = Pieced(s, meaning) \o meaning[x]
      BY <3>1, PiecedAppend
    <3>5. QED
      BY <3>1, <3>2, <3>3, <3>4
  <2> HIDE DEF words, html
  <2>5. /\ html \o p \in Seq(Html(S))
        /\ TelegramReads(html \o p) = ReadTo("Text", words \o w, TRUE)
        /\ words \o w \in Seq(Words(Read(S)))
    BY <2>1, ReadsSpan
  <2>6. QED
    BY <2>2, <2>3, <2>4, <2>5
<1> HIDE DEF T
<1>5. \A s \in Seq(I) : s \in T
  BY <1>3, <1>4, SequenceInduction
<1>6. QED
  BY <1>5 DEF T

\* The same of a text sent as it is.
LEMMA TelegramReadsPlainText ==
  ASSUME NEW S, Plain(S), NEW said \in Seq(S)
  PROVE  TelegramReads(EncodeText(said)).words = Meaning(Flush(said))
<1> DEFINE e == EncodeText(said)
           w == Styled("Text", said)
<1>1. /\ << >> \in Seq(Html(S)) /\ << >> \in Seq(Words(Read(S))) /\ "Text" \in Kinds
      /\ TelegramReads(<< >>) = ReadTo("Text", << >>, TRUE)
  BY EmptySeq, TelegramStarts DEF Unread, ReadTo, Kinds
<1>2. TelegramReads(<< >> \o e) = ReadTo("Text", << >> \o w, TRUE)
  <2> DEFINE none == << >>
             style == "Text"
             ok == TRUE
  <2>1. /\ none \in Seq(Html(S)) /\ none \in Seq(Words(Read(S))) /\ style \in Kinds
        /\ ok \in BOOLEAN /\ TelegramReads(none) = ReadTo(style, none, ok)
    BY <1>1
  <2> HIDE DEF none, style, ok
  <2>2. TelegramReads(none \o EncodeText(said)) = ReadTo(style, none \o Styled(style, said), ok)
    BY <2>1, ReadsText
  <2>3. QED
    BY <2>2 DEF none, style, ok
<1>3. e \in Seq(Safe(S)) /\ w \in Seq(Words(S))
  BY <1>1, EncodeIsMapped, StyledType
<1>4. << >> \o e = e /\ << >> \o w = w
  BY <1>3, ConcatEmptySeq
<1>5. TelegramReads(e).words = w
  BY <1>2, <1>4 DEF ReadTo
<1>6. Meaning(Flush(said)) = w
  <2> DEFINE s == Span("Text", said)
             meaning == MeaningPiece(S)
  <2>1. s \in SpanOf(S) /\ meaning[s] = w
    BY DEF Span, SpanOf, Kinds, MeaningPiece
  <2>2. meaning \in Writers(SpanOf(S), Words(S)) /\ Flush(said) \in Seq(SpanOf(S))
    BY FlushType, PlainIsMeaning
  <2>3. Meaning(Flush(said)) = Pieced(Flush(said), meaning)
    BY <2>2, PlainIsMeaning
  <2>4. Flush(said) = IF said = << >> THEN << >> ELSE <<s>>
    BY DEF Flush
  <2> HIDE DEF s, meaning
  <2>5. Pieced(<<s>>, meaning) = w /\ Pieced(<< >>, meaning) = << >>
    BY <2>1, <2>2, PiecedOne, PiecedEmpty
  <2>6. said = << >> => w = << >>
    BY DEF Styled
  <2>7. QED
    BY <2>3, <2>4, <2>5, <2>6
<1>7. QED
  BY <1>5, <1>6

------------------------------------------------------------------------------
(***************************************************************************)
(* Loops that end: each state of a parser leads to the one it stops in.    *)
(***************************************************************************)

\* Every round leaves less to read, until there is nothing.
Tame(A, step, size) ==
  /\ step \in [A -> A]
  /\ size \in [A -> Nat]
  /\ \A a \in A : size[a] = 0 => step[a] = a
  /\ \A a \in A : size[a] # 0 => size[step[a]] < size[a]

\* The states f of n rounds from a.
Follows(f, A, a, step, n) ==
  /\ f \in [0..n -> A]
  /\ f[0] = a
  /\ \A k \in 1..n : f[k] = step[f[k - 1]]

\* The state e[a] in which the loop from a has nothing left to read.
Ends(e, A, step, size) ==
  /\ e \in [A -> A]
  /\ \A a \in A : size[a] = 0 => e[a] = a
  /\ \A a \in A : size[a] # 0 => e[a] = e[step[a]]

\* As many rounds as there is to read are enough, and further ones change nothing.
LEMMA FollowsToTheEnd ==
  ASSUME NEW A, NEW step, NEW size, Tame(A, step, size), NEW a \in A, NEW n \in Nat, NEW f,
         Follows(f, A, a, step, n)
  PROVE  \A k \in 0..n : size[a] <= k => size[f[k]] = 0 /\ f[k] = f[size[a]]
<1> DEFINE m == size[a]
<1>1. m \in Nat
  BY DEF Tame
<1>2. /\ f[0] = a /\ \A k \in 0..n : f[k] \in A
      /\ \A k \in 1..n : f[k] = step[f[k - 1]]
  BY DEF Follows
<1>3. \A b \in A : /\ size[b] \in Nat /\ size[step[b]] \in Nat
                   /\ size[b] = 0 => step[b] = b
                   /\ size[b] # 0 => size[step[b]] < size[b]
  BY DEF Tame
<1> DEFINE Less == {k \in Nat : k <= n => size[f[k]] = 0 \/ size[f[k]] <= m - k}
           Same == {k \in Nat : k <= n => (m <= k => size[f[k]] = 0 /\ f[k] = f[m])}
<1>4. 0 \in Less
  BY <1>1, <1>2
<1> HIDE DEF m
<1>5. ASSUME NEW k \in Nat, k \in Less PROVE k + 1 \in Less
  <2>1. SUFFICES ASSUME k + 1 <= n PROVE size[f[k + 1]] = 0 \/ size[f[k + 1]] <= m - (k + 1)
    OBVIOUS
  <2>2. k \in 0..n /\ k + 1 \in 1..n /\ (k + 1) - 1 = k /\ k <= n
    BY <2>1
  <2> DEFINE b == f[k]
  <2>3. b \in A /\ f[k + 1] = step[b] /\ (size[b] = 0 \/ size[b] <= m - k)
    BY <1>2, <1>5, <2>2
  <2> HIDE DEF b
  <2>4. QED
    BY <1>1, <1>3, <2>3
<1>6. \A k \in Nat : k \in Less
  <2> HIDE DEF Less
  <2>1. QED
    BY <1>4, <1>5, NaturalInduction
<1>7. \A k \in Nat : k <= n /\ m <= k => size[f[k]] = 0
  <2>1. SUFFICES ASSUME NEW k \in Nat, k <= n, m <= k PROVE size[f[k]] = 0
    OBVIOUS
  <2>2. f[k] \in A
    BY <1>2, <2>1
  <2>3. size[f[k]] \in Nat
    BY <1>3, <2>2
  <2>4. size[f[k]] = 0 \/ size[f[k]] <= m - k
    BY <1>6, <2>1
  <2>5. QED
    BY <1>1, <2>1, <2>3, <2>4
<1> HIDE DEF Less
<1>8. 0 \in Same
  BY <1>1, <1>7
<1>9. ASSUME NEW k \in Nat, k \in Same PROVE k + 1 \in Same
  <2>1. SUFFICES ASSUME k + 1 <= n, m <= k + 1 PROVE size[f[k + 1]] = 0 /\ f[k + 1] = f[m]
    OBVIOUS
  <2>2. size[f[k + 1]] = 0
    BY <1>7, <2>1
  <2>3. CASE m = k + 1
    BY <2>2, <2>3
  <2>4. CASE m # k + 1
    <3>1. m <= k /\ k <= n /\ k \in 0..n /\ k + 1 \in 1..n /\ (k + 1) - 1 = k
      BY <1>1, <2>1, <2>4
    <3> DEFINE b == f[k]
    <3>2. b \in A /\ f[k + 1] = step[b] /\ size[b] = 0 /\ b = f[m]
      BY <1>2, <1>9, <3>1
    <3> HIDE DEF b
    <3>3. QED
      BY <1>3, <2>2, <3>2
  <2>5. QED
    BY <2>3, <2>4
<1> HIDE DEF Same
<1>10. \A k \in Nat : k \in Same
  BY <1>8, <1>9, NaturalInduction
<1>11. QED
  BY <1>10 DEF Same, m

\* There is such an end to every tame loop, and enough rounds reach it.
LEMMA LoopEnds ==
  ASSUME NEW A, NEW step, NEW size, Tame(A, step, size)
  PROVE  \E e : /\ Ends(e, A, step, size)
                /\ \A a \in A : \A n \in Nat : \A f :
                     Follows(f, A, a, step, n) /\ size[a] <= n => f[n] = e[a]
<1> DEFINE Reach(a, b) == \E f : Follows(f, A, a, step, size[a]) /\ b = f[size[a]]
           e == [a \in A |-> CHOOSE b \in A : Reach(a, b)]
<1>1. /\ \A a \in A : step[a] \in A /\ size[a] \in Nat
      /\ \A a \in A : size[a] = 0 => step[a] = a
      /\ \A a \in A : size[a] # 0 => size[step[a]] < size[a]
  BY DEF Tame
<1>2. ASSUME NEW a \in A PROVE \E b \in A : Reach(a, b)
  <2> DEFINE n == size[a]
             round == [p \in (1..n) \X A |-> step[p[2]]]
  <2>1. n \in Nat
    BY <1>1
  <2> HIDE DEF n
  <2>2. \A k \in 1..n : \A b \in A : round[<<k, b>>] = step[b]
    OBVIOUS
  <2> HIDE DEF round
  <2>3. Stays(round, A, n)
    BY <1>1, <2>2 DEF Stays
  <2>4. PICK f : Runs(f, A, a, round, n)
    BY <2>1, <2>3, LoopRuns
  <2>5. f \in [0..n -> A] /\ f[0] = a /\ \A k \in 1..n : f[k] = round[<<k, f[k - 1]>>]
    BY <2>4 DEF Runs
  <2>6. ASSUME NEW k \in 1..n PROVE f[k] = step[f[k - 1]]
    <3>1. k - 1 \in 0..n
      BY <2>1
    <3>2. f[k - 1] \in A
      BY <2>5, <3>1
    <3>3. QED
      BY <2>2, <2>5, <3>2
  <2>7. Follows(f, A, a, step, n) /\ f[n] \in A
    BY <2>1, <2>5, <2>6 DEF Follows
  <2>8. QED
    BY <2>7 DEF n
<1>3. \A a \in A : e[a] \in A /\ Reach(a, e[a])
  BY <1>2
<1>4. e \in [A -> A]
  BY <1>2
<1> HIDE DEF e
<1>5. ASSUME NEW a \in A, NEW n \in Nat, NEW f, Follows(f, A, a, step, n), size[a] <= n
      PROVE  f[n] = e[a]
  <2> DEFINE m == size[a]
  <2>1. m \in Nat /\ m <= n
    BY <1>1, <1>5
  <2>2. PICK g : Follows(g, A, a, step, m) /\ e[a] = g[m]
    BY <1>3
  <2>3. f[n] = f[m]
    <3>1. n \in 0..n
      OBVIOUS
    <3>2. QED
      BY <1>5, <3>1, FollowsToTheEnd
  <2> HIDE DEF m
  <2>4. \A k \in 0..m : f[k] = g[k]
    <3>1. f[0] = g[0] /\ \A k \in 1..n : f[k] = step[f[k - 1]]
      BY <1>5, <2>2 DEF Follows
    <3>2. \A k \in 1..m : g[k] = step[g[k - 1]]
      BY <2>2 DEF Follows
    <3>3. ASSUME NEW k \in 1..m, f[k - 1] = g[k - 1] PROVE f[k] = g[k]
      <4>1. k \in 1..n
        BY <2>1
      <4>2. QED
        BY <3>1, <3>2, <3>3, <4>1
    <3>4. Agree(f, g, m)
      BY <3>1, <3>3 DEF Agree
    <3>5. QED
      BY <2>1, <3>4, LoopIsOne
  <2>5. m \in 0..m
    BY <2>1
  <2>6. QED
    BY <2>2, <2>3, <2>4, <2>5
<1>6. ASSUME NEW a \in A, size[a] = 0 PROVE e[a] = a
  <2>1. PICK f : Follows(f, A, a, step, size[a]) /\ e[a] = f[size[a]]
    BY <1>3
  <2>2. QED
    BY <1>6, <2>1 DEF Follows
<1>7. ASSUME NEW a \in A, size[a] # 0 PROVE e[a] = e[step[a]]
  <2> DEFINE m == size[a]
             next == step[a]
  <2>1. m \in Nat \ {0} /\ next \in A /\ size[next] \in Nat /\ size[next] < m
    BY <1>1, <1>7
  <2>2. PICK f : Follows(f, A, a, step, m) /\ e[a] = f[m]
    BY <1>3
  <2>3. f[0] = a /\ \A k \in 1..m : f[k] = step[f[k - 1]]
    BY <2>2 DEF Follows
  <2>4. \A k \in 0..m : f[k] \in A
    BY <2>2 DEF Follows
  <2> HIDE DEF m
  <2> DEFINE n == m - 1
             g == [k \in 0..n |-> f[k + 1]]
  <2>5. n \in Nat /\ n + 1 = m
    BY <2>1
  <2>6. f[1] = next
    <3>1. 1 \in 1..m /\ 1 - 1 = 0
      BY <2>1
    <3>2. f[1] = step[f[0]]
      BY <2>3, <3>1
    <3>3. QED
      BY <2>3, <3>2
  <2>7. Follows(g, A, next, step, n)
    <3>1. ASSUME NEW k \in 0..n PROVE g[k] \in A
      <4>1. k + 1 \in 0..m
        BY <2>1
      <4>2. QED
        BY <2>4, <4>1
    <3>2. ASSUME NEW k \in 1..n PROVE g[k] = step[g[k - 1]]
      <4>1. k + 1 \in 1..m /\ (k + 1) - 1 = k /\ (k - 1) + 1 = k /\ k - 1 \in 0..n /\ k \in 0..n
        BY <2>1
      <4>2. g[k] = f[k + 1] /\ g[k - 1] = f[k]
        BY <4>1
      <4>3. f[k + 1] = step[f[k]]
        BY <2>3, <4>1
      <4>4. QED
        BY <4>2, <4>3
    <3>3. g[0] = next
      BY <2>5, <2>6
    <3>4. g \in [0..n -> A]
      BY <3>1
    <3> HIDE DEF g
    <3>5. QED
      BY <3>2, <3>3, <3>4 DEF Follows
  <2>8. g[n] = f[m]
    BY <2>5
  <2> HIDE DEF g, n, next
  <2>9. size[next] <= n
    BY <2>1, <2>5
  <2>10. g[n] = e[next]
    BY <1>5, <2>1, <2>5, <2>7, <2>9
  <2>11. QED
    BY <2>2, <2>8, <2>10 DEF next
<1>8. Ends(e, A, step, size)
  BY <1>4, <1>6, <1>7 DEF Ends
<1>9. QED
  BY <1>5, <1>8

\* What every round keeps, the loop keeps.
LEMMA LoopKeeps ==
  ASSUME NEW A, NEW step, NEW size, Tame(A, step, size), NEW e, Ends(e, A, step, size),
         NEW I \in SUBSET A, \A a \in I : size[a] # 0 => step[a] \in I
  PROVE  \A a \in I : e[a] \in I /\ size[e[a]] = 0
<1> DEFINE Done == {n \in Nat : \A a \in I : size[a] <= n => e[a] \in I /\ size[e[a]] = 0}
<1>1. /\ \A a \in A : size[a] \in Nat /\ step[a] \in A
      /\ \A a \in A : size[a] # 0 => size[step[a]] < size[a]
      /\ \A a \in A : size[a] = 0 => e[a] = a
      /\ \A a \in A : size[a] # 0 => e[a] = e[step[a]]
  BY DEF Tame, Ends
<1>2. 0 \in Done
  BY <1>1
<1>3. ASSUME NEW n \in Nat, n \in Done PROVE n + 1 \in Done
  <2>1. SUFFICES ASSUME NEW a \in I, size[a] <= n + 1 PROVE e[a] \in I /\ size[e[a]] = 0
    OBVIOUS
  <2>2. CASE size[a] = 0
    BY <1>1, <2>2
  <2>3. CASE size[a] # 0
    <3> DEFINE b == step[a]
    <3>1. b \in I /\ size[b] < size[a] /\ size[b] \in Nat /\ size[a] \in Nat /\ e[a] = e[b]
      BY <1>1, <2>3
    <3> HIDE DEF b
    <3>2. size[b] <= n
      BY <2>1, <3>1
    <3>3. QED
      BY <1>3, <3>1, <3>2
  <2>4. QED
    BY <2>2, <2>3
<1> HIDE DEF Done
<1>4. \A n \in Nat : n \in Done
  BY <1>2, <1>3, NaturalInduction
<1>5. ASSUME NEW a \in I PROVE e[a] \in I /\ size[e[a]] = 0
  <2>1. size[a] \in Nat /\ size[a] <= size[a]
    BY <1>1
  <2>2. QED
    BY <1>4, <2>1 DEF Done
<1>6. QED
  BY <1>5

\* Induction on sequences, from the right to the left.
LEMMA ConsInduction ==
  ASSUME NEW S, NEW T, << >> \in T,
         \A s \in Seq(S) : \A e \in S : s \in T => <<e>> \o s \in T
  PROVE  \A s \in Seq(S) : s \in T
<1> DEFINE Done == {n \in Nat : \A s \in Seq(S) : Len(s) = n => s \in T}
<1>1. 0 \in Done
  BY EmptySeq
<1>2. ASSUME NEW n \in Nat, n \in Done PROVE n + 1 \in Done
  <2>1. SUFFICES ASSUME NEW s \in Seq(S), Len(s) = n + 1 PROVE s \in T
    OBVIOUS
  <2>2. s # << >>
    BY <2>1, EmptySeq
  <2>3. s[1] \in S /\ s = <<s[1]>> \o Tail(s)
    BY <2>2, HeadApart
  <2>4. Tail(s) \in Seq(S) /\ Len(Tail(s)) = n
    BY <2>1, <2>2, HeadTailProperties
  <2>5. Tail(s) \in T
    BY <1>2, <2>4
  <2>6. QED
    BY <2>3, <2>4, <2>5
<1> HIDE DEF Done
<1>3. \A n \in Nat : n \in Done
  BY <1>1, <1>2, NaturalInduction
<1>4. QED
  BY <1>3, LenProperties DEF Done

------------------------------------------------------------------------------
(***************************************************************************)
(* find_closer finds the first delimiter that closes.                      *)
(***************************************************************************)

\* What the search from a place answers, in terms of the search from a later one.
Searches(closer, hay, delim, flanking) ==
  /\ closer \in [0..Len(hay) -> Nat]
  /\ \A from \in 0..Len(hay) :
       LET found == Places(hay, delim, from)
           idx   == Min(found)
       IN /\ found = {} => closer[from] = 0
          /\ found # {} /\ Closes(hay, delim, flanking, idx) => closer[from] = idx
          /\ found # {} /\ ~ Closes(hay, delim, flanking, idx)
               => closer[from] = closer[idx + Len(delim)]

\* The first place from somewhere on is there, and leaves room for the delimiter.
LEMMA FirstPlace ==
  ASSUME NEW S, NEW hay \in Seq(S), NEW delim \in Seq(S), delim # << >>,
         NEW from \in 0..Len(hay), Places(hay, delim, from) # {}
  PROVE  LET idx == Min(Places(hay, delim, from))
         IN /\ idx \in Places(hay, delim, from)
            /\ \A j \in Places(hay, delim, from) : idx <= j
            /\ idx \in from..Len(hay)
            /\ idx + Len(delim) \in 0..Len(hay)
            /\ from < idx + Len(delim)
<1> DEFINE found == Places(hay, delim, from)
           idx == Min(found)
<1>1. Len(hay) \in Nat /\ Len(delim) \in Nat \ {0}
  BY LenProperties, EmptySeq
<1>2. found \in SUBSET Nat /\ \A j \in found : from <= j /\ j + Len(delim) <= Len(hay)
  BY <1>1 DEF Places
<1>3. idx \in found /\ \A j \in found : idx <= j
  <2>1. \E m \in found : \A k \in found : m <= k
    BY <1>2, LeastNatural
  <2> HIDE DEF found
  <2>2. QED
    BY <2>1 DEF Min
<1> HIDE DEF idx, found
<1>4. idx \in Nat /\ from <= idx /\ idx + Len(delim) <= Len(hay)
  BY <1>2, <1>3
<1>5. idx \in from..Len(hay) /\ idx + Len(delim) \in 0..Len(hay) /\ from < idx + Len(delim)
  BY <1>1, <1>4
<1>6. QED
  BY <1>3, <1>5 DEF idx, found

\* A place from a point on is a place not before it.
LEMMA PlacesFrom ==
  ASSUME NEW S, NEW hay \in Seq(S), NEW delim, NEW from \in 0..Len(hay), NEW j
  PROVE  j \in Places(hay, delim, from) <=> j \in Places(hay, delim, 0) /\ from <= j
<1> DEFINE last == Len(hay) - Len(delim)
           Here == SubSeq(hay, j + 1, j + Len(delim)) = delim
<1>1. Len(hay) \in Nat
  BY LenProperties
<1>2. from \in Nat
  BY <1>1
<1>3. /\ j \in Places(hay, delim, from) <=> j \in from..last /\ Here
      /\ j \in Places(hay, delim, 0) <=> j \in 0..last /\ Here
  BY DEF Places
<1> HIDE DEF last, Here
<1>4. j \in from..last <=> j \in 0..last /\ from <= j
  BY <1>2
<1>5. QED
  BY <1>3, <1>4

\* find_closer is such a search.
LEMMA CloserSearches ==
  ASSUME NEW S, NEW hay \in Seq(S), NEW delim \in Seq(S), delim # << >>, NEW flanking
  PROVE  \E closer : /\ Searches(closer, hay, delim, flanking)
                     /\ FindCloser(hay, delim, flanking) = closer[0]
<1> DEFINE L == Len(hay)
           A == 0..L
           F(from) == Places(hay, delim, from)
           Skips(from) == F(from) # {} /\ ~ Closes(hay, delim, flanking, Min(F(from)))
           answer == [from \in A |-> IF F(from) = {} THEN 0 ELSE Min(F(from))]
           step == [from \in A |-> IF Skips(from) THEN Min(F(from)) + Len(delim) ELSE from]
           size == [from \in A |-> IF Skips(from) THEN 1 + L - from ELSE 0]
           Def(f) == [from \in A |->
                        LET found == F(from)
                            idx   == Min(found)
                        IN IF found = {} THEN 0
                           ELSE IF Closes(hay, delim, flanking, idx) THEN idx
                           ELSE f[idx + Len(delim)]]
           chosen == CHOOSE f : f = Def(f)
<1>1. FindCloser(hay, delim, flanking) = chosen[0]
  BY DEF FindCloser
<1>2. L \in Nat
  BY LenProperties
<1>3. \A from \in A : F(from) # {} => /\ Min(F(from)) \in Nat
                                      /\ Min(F(from)) + Len(delim) \in A
                                      /\ from < Min(F(from)) + Len(delim)
  <2>1. SUFFICES ASSUME NEW from \in A, F(from) # {}
                 PROVE  /\ Min(F(from)) \in Nat
                        /\ Min(F(from)) + Len(delim) \in A
                        /\ from < Min(F(from)) + Len(delim)
    OBVIOUS
  <2> DEFINE idx == Min(F(from))
  <2>2. idx \in from..Len(hay) /\ idx + Len(delim) \in 0..Len(hay) /\ from < idx + Len(delim)
    BY <2>1, FirstPlace
  <2> HIDE DEF idx
  <2>3. idx \in Nat
    BY <1>2, <2>2
  <2>4. QED
    BY <2>2, <2>3 DEF idx
<1> HIDE DEF L, F
<1>4. answer \in [A -> Nat]
  BY <1>3
<1>5. Tame(A, step, size)
  <2>1. ASSUME NEW from \in A
        PROVE  /\ step[from] \in A /\ size[from] \in Nat
               /\ size[from] = 0 => step[from] = from
               /\ size[from] # 0 => size[step[from]] < size[from]
    <3>1. from \in Nat /\ from <= L
      BY <1>2
    <3>2. CASE ~ Skips(from)
      <4>1. step[from] = from /\ size[from] = 0
        BY <3>2
      <4> HIDE DEF step, size
      <4>2. QED
        BY <4>1
    <3>3. CASE Skips(from)
      <4> DEFINE to == Min(F(from)) + Len(delim)
      <4>1. step[from] = to /\ size[from] = 1 + L - from
        BY <3>3
      <4>2. to \in A /\ from < to
        BY <1>3, <3>3
      <4> HIDE DEF to
      <4>3. size[to] = 0 \/ size[to] = 1 + L - to
        BY <4>2
      <4>4. to \in Nat /\ to <= L /\ 1 + L - from \in Nat /\ 1 + L - from # 0
            /\ 0 < 1 + L - from /\ 1 + L - to < 1 + L - from
        BY <1>2, <3>1, <4>2
      <4> HIDE DEF step, size
      <4>5. QED
        BY <4>1, <4>2, <4>3, <4>4
    <3>4. QED
      BY <3>2, <3>3
  <2>2. step \in [A -> A] /\ size \in [A -> Nat]
    <3>1. \A from \in A : step[from] \in A /\ size[from] \in Nat
      BY <2>1
    <3>2. step = [from \in A |-> step[from]] /\ size = [from \in A |-> size[from]]
      OBVIOUS
    <3> HIDE DEF step, size
    <3>3. QED
      BY <3>1, <3>2
  <2> HIDE DEF step, size
  <2>3. QED
    BY <2>1, <2>2 DEF Tame
<1>6. PICK e : Ends(e, A, step, size)
  BY <1>5, LoopEnds
<1>7. /\ \A from \in A : e[from] \in A
      /\ \A from \in A : size[from] = 0 => e[from] = from
      /\ \A from \in A : size[from] # 0 => e[from] = e[step[from]]
  <2> HIDE DEF step, size
  <2>1. QED
    BY <1>6 DEF Ends
<1> DEFINE f == [from \in A |-> answer[e[from]]]
<1>8. ASSUME NEW from \in A
      PROVE  /\ F(from) = {} => f[from] = 0
             /\ F(from) # {} /\ ~ Skips(from) => f[from] = Min(F(from))
             /\ Skips(from) => f[from] = f[Min(F(from)) + Len(delim)]
  <2>1. CASE ~ Skips(from)
    <3>1. size[from] = 0
      BY <2>1
    <3>2. e[from] = from
      BY <1>7, <3>1
    <3>3. f[from] = answer[from]
      BY <3>2
    <3>4. QED
      BY <2>1, <3>3
  <2>2. CASE Skips(from)
    <3> DEFINE to == Min(F(from)) + Len(delim)
    <3>1. size[from] = 1 + L - from /\ step[from] = to /\ to \in A
      BY <1>3, <2>2
    <3>2. size[from] # 0
      BY <1>2, <3>1
    <3>3. e[from] = e[to]
      BY <1>7, <3>1, <3>2
    <3> HIDE DEF to
    <3>4. f[from] = f[to]
      BY <3>1, <3>3
    <3>5. QED
      BY <2>2, <3>4 DEF to
  <2>3. QED
    BY <2>1, <2>2
<1>9. f \in [A -> Nat]
  BY <1>4, <1>7
<1>10. f = Def(f)
  <2>1. ASSUME NEW from \in A PROVE f[from] = Def(f)[from]
    <3> HIDE DEF f
    <3>1. QED
      BY <1>8
  <2>2. f = [from \in A |-> f[from]] /\ Def(f) = [from \in A |-> Def(f)[from]]
    OBVIOUS
  <2> HIDE DEF f, Def
  <2>3. QED
    BY <2>1, <2>2
<1>11. chosen = Def(chosen)
  <2> HIDE DEF f, Def
  <2>1. QED
    BY <1>10
<1> HIDE DEF chosen, f
<1>12. ASSUME NEW from \in A
       PROVE  /\ F(from) = {} => chosen[from] = 0
              /\ F(from) # {} /\ ~ Skips(from) => chosen[from] = Min(F(from))
              /\ Skips(from) => chosen[from] = chosen[Min(F(from)) + Len(delim)]
  <2>1. chosen[from] = Def(chosen)[from]
    BY <1>11
  <2>2. QED
    BY <2>1
<1>13. chosen \in [A -> Nat]
  <2> DEFINE T == {n \in Nat : \A from \in A : L - from <= n => chosen[from] \in Nat}
  <2>1. ASSUME NEW from \in A, \A to \in A : from < to => chosen[to] \in Nat
        PROVE  chosen[from] \in Nat
    BY <1>3, <1>12, <2>1
  <2>2. 0 \in T
    <3>1. SUFFICES ASSUME NEW from \in A, L - from <= 0 PROVE chosen[from] \in Nat
      OBVIOUS
    <3>2. \A to \in A : ~ (from < to)
      BY <1>2, <3>1
    <3>3. QED
      BY <2>1, <3>2
  <2>3. ASSUME NEW n \in Nat, n \in T PROVE n + 1 \in T
    <3>1. SUFFICES ASSUME NEW from \in A, L - from <= n + 1 PROVE chosen[from] \in Nat
      OBVIOUS
    <3>2. \A to \in A : from < to => L - to <= n
      BY <1>2, <3>1
    <3>3. QED
      BY <2>1, <2>3, <3>2
  <2> HIDE DEF T
  <2>4. \A n \in Nat : n \in T
    BY <2>2, <2>3, NaturalInduction
  <2>5. \A from \in A : chosen[from] \in Nat
    <3>1. \A from \in A : L - from <= L
      BY <1>2
    <3>2. QED
      BY <1>2, <2>4, <3>1 DEF T
  <2>6. chosen = [from \in A |-> chosen[from]]
    BY <1>11
  <2>7. QED
    BY <2>5, <2>6
<1>14. Searches(chosen, hay, delim, flanking)
  BY <1>12, <1>13 DEF Searches, F, L
<1>15. QED
  BY <1>1, <1>14

\* What holds of the end of the text, and of a place if it holds of every later one, holds
\* from the start.
LEMMA Downward ==
  ASSUME NEW L \in Nat, NEW T,
         \A from \in 0..L : (\A to \in 0..L : from < to => to \in T) => from \in T
  PROVE  \A from \in 0..L : from \in T
<1> DEFINE Done == {n \in Nat : \A from \in 0..L : L - from <= n => from \in T}
<1>1. 0 \in Done
  <2>1. SUFFICES ASSUME NEW from \in 0..L, L - from <= 0 PROVE from \in T
    OBVIOUS
  <2>2. \A to \in 0..L : ~ (from < to)
    BY <2>1
  <2>3. QED
    BY <2>2
<1>2. ASSUME NEW n \in Nat, n \in Done PROVE n + 1 \in Done
  <2>1. SUFFICES ASSUME NEW from \in 0..L, L - from <= n + 1 PROVE from \in T
    OBVIOUS
  <2>2. \A to \in 0..L : from < to => L - to <= n
    BY <2>1
  <2>3. QED
    BY <1>2, <2>2
<1> HIDE DEF Done
<1>3. \A n \in Nat : n \in Done
  BY <1>1, <1>2, NaturalInduction
<1>4. \A from \in 0..L : L - from <= L
  OBVIOUS
<1>5. QED
  BY <1>3, <1>4 DEF Done

\* A closer that is found stands there and closes; and when the delimiter is one character,
\* nothing before it does.
LEMMA CloserFound ==
  ASSUME NEW S, NEW hay \in Seq(S), NEW delim \in Seq(S), delim # << >>, NEW flanking
  PROVE  LET end == FindCloser(hay, delim, flanking)
         IN /\ end \in Nat
            /\ end # 0 => /\ end \in Places(hay, delim, 0)
                          /\ Closes(hay, delim, flanking, end)
            /\ end # 0 /\ Len(delim) = 1
                 => \A j \in Places(hay, delim, 0) : j < end => ~ Closes(hay, delim, flanking, j)
<1> DEFINE L == Len(hay)
           d == Len(delim)
           F(from) == Places(hay, delim, from)
           C(j) == Closes(hay, delim, flanking, j)
<1>1. PICK closer : Searches(closer, hay, delim, flanking) /\ FindCloser(hay, delim, flanking) = closer[0]
  BY CloserSearches
<1>2. L \in Nat /\ d \in Nat \ {0}
  BY LenProperties, EmptySeq
<1>3. ASSUME NEW from \in 0..L
      PROVE  /\ closer[from] \in Nat
             /\ F(from) = {} => closer[from] = 0
             /\ F(from) # {} /\ C(Min(F(from))) => closer[from] = Min(F(from))
             /\ F(from) # {} /\ ~ C(Min(F(from))) => closer[from] = closer[Min(F(from)) + d]
  BY <1>1 DEF Searches
<1>4. ASSUME NEW from \in 0..L, NEW j PROVE j \in F(from) <=> j \in F(0) /\ from <= j
  BY PlacesFrom
<1>5. \A j \in F(0) : j \in Nat
  BY <1>2 DEF Places
<1>6. ASSUME NEW from \in 0..L, F(from) # {}
      PROVE  /\ Min(F(from)) \in F(from)
             /\ \A j \in F(from) : Min(F(from)) <= j
             /\ Min(F(from)) + d \in 0..L
             /\ from < Min(F(from)) + d
  BY <1>6, FirstPlace
<1> DEFINE T == {from \in 0..L : closer[from] # 0 =>
                   /\ closer[from] \in F(from)
                   /\ C(closer[from])
                   /\ d = 1 => \A j \in F(from) : j < closer[from] => ~ C(j)}
<1>7. ASSUME NEW from \in 0..L, \A to \in 0..L : from < to => to \in T
      PROVE  from \in T
  <2>1. SUFFICES ASSUME closer[from] # 0
                 PROVE  /\ closer[from] \in F(from)
                        /\ C(closer[from])
                        /\ d = 1 => \A j \in F(from) : j < closer[from] => ~ C(j)
    OBVIOUS
  <2>2. F(from) # {}
    BY <1>3, <2>1
  <2> DEFINE idx == Min(F(from))
             to == idx + d
  <2>3. idx \in F(from) /\ (\A j \in F(from) : idx <= j) /\ to \in 0..L /\ from < to
    BY <1>6, <2>2
  <2>4. /\ C(idx) => closer[from] = idx
        /\ ~ C(idx) => closer[from] = closer[to]
    BY <1>3, <2>2
  <2>5. idx \in Nat /\ from <= idx
    BY <1>4, <1>5, <2>3
  <2> HIDE DEF idx, F, C
  <2>6. CASE C(idx)
    <3>1. closer[from] = idx
      BY <2>4, <2>6
    <3>2. \A j \in F(from) : ~ (j < idx)
      <4>1. \A j \in F(from) : j \in Nat /\ idx <= j
        BY <1>4, <1>5, <2>3
      <4>2. QED
        BY <2>5, <4>1
    <3>3. QED
      BY <2>3, <2>6, <3>1, <3>2
  <2>7. CASE ~ C(idx)
    <3>1. closer[from] = closer[to] /\ closer[to] # 0
      BY <2>1, <2>4, <2>7
    <3>2. to \in T
      BY <1>7, <2>3
    <3>3. /\ closer[to] \in F(to) /\ C(closer[to])
          /\ d = 1 => \A j \in F(to) : j < closer[to] => ~ C(j)
      BY <3>1, <3>2
    <3>4. closer[to] \in F(from)
      <4>1. closer[to] \in F(0) /\ to <= closer[to] /\ closer[to] \in Nat
        BY <1>4, <1>5, <2>3, <3>3
      <4>2. from <= closer[to]
        BY <1>2, <2>3, <4>1
      <4>3. QED
        BY <1>4, <4>1, <4>2
    <3>5. ASSUME d = 1, NEW j \in F(from), j < closer[to] PROVE ~ C(j)
      <4>1. j \in Nat /\ idx <= j /\ j \in F(0)
        BY <1>4, <1>5, <2>3
      <4>2. CASE j = idx
        BY <2>7, <4>2
      <4>3. CASE j # idx
        <5>1. to <= j
          BY <2>5, <3>5, <4>1, <4>3
        <5>2. j \in F(to)
          BY <1>4, <2>3, <4>1, <5>1
        <5>3. QED
          BY <3>3, <3>5, <5>2
      <4>4. QED
        BY <4>2, <4>3
    <3>6. QED
      BY <3>1, <3>3, <3>4, <3>5
  <2>8. QED
    BY <2>6, <2>7
<1> HIDE DEF T
<1>8. \A from \in 0..L : from \in T
  BY <1>2, <1>7, Downward
<1>9. 0 \in 0..L
  BY <1>2
<1>10. closer[0] \in Nat
  BY <1>3, <1>9
<1>11. closer[0] # 0 => /\ closer[0] \in F(0)
                        /\ C(closer[0])
                        /\ d = 1 => \A j \in F(0) : j < closer[0] => ~ C(j)
  BY <1>8, <1>9 DEF T
<1>12. QED
  BY <1>1, <1>10, <1>11

\* The search stops at a place that closes, if nothing before it does or hides it.
LEMMA CloserAt ==
  ASSUME NEW S, NEW hay \in Seq(S), NEW delim \in Seq(S), delim # << >>, NEW flanking,
         NEW end \in Places(hay, delim, 0), Closes(hay, delim, flanking, end),
         \A j \in Places(hay, delim, 0) :
           j < end => ~ Closes(hay, delim, flanking, j) /\ j + Len(delim) <= end
  PROVE  FindCloser(hay, delim, flanking) = end
<1> DEFINE L == Len(hay)
           d == Len(delim)
           F(from) == Places(hay, delim, from)
           C(j) == Closes(hay, delim, flanking, j)
<1>1. PICK closer : Searches(closer, hay, delim, flanking) /\ FindCloser(hay, delim, flanking) = closer[0]
  BY CloserSearches
<1>2. L \in Nat /\ d \in Nat \ {0}
  BY LenProperties, EmptySeq
<1>3. ASSUME NEW from \in 0..L, F(from) # {}
      PROVE  /\ C(Min(F(from))) => closer[from] = Min(F(from))
             /\ ~ C(Min(F(from))) => closer[from] = closer[Min(F(from)) + d]
  BY <1>1, <1>3 DEF Searches
<1>4. ASSUME NEW from \in 0..L, NEW j PROVE j \in F(from) <=> j \in F(0) /\ from <= j
  BY PlacesFrom
<1>5. \A j \in F(0) : j \in Nat
  BY <1>2 DEF Places
<1>6. ASSUME NEW from \in 0..L, F(from) # {}
      PROVE  /\ Min(F(from)) \in F(from)
             /\ \A j \in F(from) : Min(F(from)) <= j
             /\ Min(F(from)) + d \in 0..L
             /\ from < Min(F(from)) + d
  BY <1>6, FirstPlace
<1>7. end \in F(0) /\ end \in Nat /\ C(end) /\ \A j \in F(0) : j < end => ~ C(j) /\ j + d <= end
  BY <1>5
<1> DEFINE T == {from \in 0..L : from <= end => closer[from] = end}
<1>8. ASSUME NEW from \in 0..L, \A to \in 0..L : from < to => to \in T
      PROVE  from \in T
  <2>1. SUFFICES ASSUME from <= end PROVE closer[from] = end
    OBVIOUS
  <2>2. end \in F(from)
    BY <1>4, <1>7, <2>1
  <2> DEFINE idx == Min(F(from))
             to == idx + d
  <2>3. idx \in F(from) /\ idx <= end /\ to \in 0..L /\ from < to
    BY <1>6, <2>2
  <2>4. /\ C(idx) => closer[from] = idx
        /\ ~ C(idx) => closer[from] = closer[to]
    BY <1>3, <2>2
  <2>5. idx \in Nat /\ idx \in F(0)
    BY <1>4, <1>5, <2>3
  <2> HIDE DEF idx, F, C
  <2>6. CASE idx = end
    BY <1>7, <2>4, <2>6
  <2>7. CASE idx # end
    <3>1. idx < end
      BY <1>7, <2>3, <2>5, <2>7
    <3>2. ~ C(idx) /\ to <= end
      BY <1>7, <2>5, <3>1
    <3>3. to \in T
      BY <1>8, <2>3
    <3>4. QED
      BY <2>4, <3>2, <3>3
  <2>8. QED
    BY <2>6, <2>7
<1> HIDE DEF T
<1>9. \A from \in 0..L : from \in T
  BY <1>2, <1>8, Downward
<1>10. 0 \in 0..L /\ 0 <= end
  BY <1>2, <1>7
<1>11. QED
  BY <1>1, <1>9, <1>10 DEF T

------------------------------------------------------------------------------
(***************************************************************************)
(* The loop of unescape_markdown.                                          *)
(***************************************************************************)

\* A loop can be followed for as many rounds as one likes.
LEMMA LoopFollows ==
  ASSUME NEW A, NEW step \in [A -> A], NEW a \in A, NEW n \in Nat
  PROVE  \E f : Follows(f, A, a, step, n)
<1> DEFINE round == [p \in (1..n) \X A |-> step[p[2]]]
<1>1. \A k \in 1..n : \A b \in A : round[<<k, b>>] = step[b]
  OBVIOUS
<1> HIDE DEF round
<1>2. Stays(round, A, n)
  BY <1>1 DEF Stays
<1>3. PICK f : Runs(f, A, a, round, n)
  BY <1>2, LoopRuns
<1>4. f \in [0..n -> A] /\ f[0] = a /\ \A k \in 1..n : f[k] = round[<<k, f[k - 1]>>]
  BY <1>3 DEF Runs
<1>5. ASSUME NEW k \in 1..n PROVE f[k] = step[f[k - 1]]
  <2>1. k - 1 \in 0..n
    OBVIOUS
  <2>2. f[k - 1] \in A
    BY <1>4, <2>1
  <2>3. QED
    BY <1>1, <1>4, <2>2
<1>6. QED
  BY <1>4, <1>5 DEF Follows

\* Whatever goes on like a loop as long as it is in its states is the loop.
GoesOn(at, A, a, step, n) ==
  /\ at = [k \in 0..n |-> at[k]]
  /\ at[0] = a
  /\ \A k \in 1..n : at[k - 1] \in A => at[k] = step[at[k - 1]]

\* What goes on by the step follows the loop.
LEMMA LoopFollowed ==
  ASSUME NEW A, NEW step \in [A -> A], NEW a \in A, NEW n \in Nat, NEW at,
         GoesOn(at, A, a, step, n)
  PROVE  Follows(at, A, a, step, n)
<1>1. PICK f : Follows(f, A, a, step, n)
  BY LoopFollows
<1>2. f \in [0..n -> A] /\ f[0] = a /\ \A k \in 1..n : f[k] = step[f[k - 1]]
  BY <1>1 DEF Follows
<1>3. at = [k \in 0..n |-> at[k]] /\ at[0] = a
      /\ \A k \in 1..n : at[k - 1] \in A => at[k] = step[at[k - 1]]
  BY DEF GoesOn
<1>4. ASSUME NEW k \in 1..n, at[k - 1] = f[k - 1] PROVE at[k] = f[k]
  <2>1. k - 1 \in 0..n
    OBVIOUS
  <2>2. f[k - 1] \in A
    BY <1>2, <2>1
  <2>3. QED
    BY <1>2, <1>3, <1>4, <2>2
<1>5. Agree(at, f, n)
  BY <1>2, <1>3, <1>4 DEF Agree
<1>6. \A k \in 0..n : at[k] = f[k]
  BY <1>5, LoopIsOne
<1>7. at = f
  BY <1>2, <1>3, <1>6
<1>8. QED
  BY <1>1, <1>7

(***************************************************************************)
(* Escaping and unescaping.                                                *)
(***************************************************************************)
Reading(S) == [out : Seq(S), rest : Seq(S)]
\* A state of the reader, ...
ReadSoFar(out, rest) == [out |-> out, rest |-> rest]
\* ... its step, ...
UnescapeStep(S) == [at \in Reading(S) |-> UnescapeRound(at)]
\* ... and what it has left to read.
UnescapeSize(S) == [at \in Reading(S) |-> Len(at.rest)]

\* An escape is two characters that become the second, ...
LEMMA EscapeReads ==
  ASSUME NEW S, NEW out \in Seq(S), NEW rest \in Seq(S), StartsEscape(rest)
  PROVE  /\ UnescapeRound(ReadSoFar(out, rest)) = ReadSoFar(Append(out, rest[2]), Drop(rest, 2))
         /\ rest[2] \in S /\ rest[2] \in MARKDOWN_ESCAPABLE /\ rest # << >>
         /\ Drop(rest, 2) \in Seq(S) /\ Len(Drop(rest, 2)) = Len(rest) - 2
<1>1. Len(rest) \in Nat /\ Len(rest) >= 2 /\ rest[2] \in MARKDOWN_ESCAPABLE
  BY LenProperties DEF StartsEscape
<1>2. rest # << >>
  BY <1>1, EmptySeq
<1>3. 2 \in 1..Len(rest) /\ 2 \in 0..Len(rest)
  BY <1>1
<1>4. rest[2] \in S
  BY <1>3, ElementOfSeq
<1>5. Drop(rest, 2) \in Seq(S) /\ Len(Drop(rest, 2)) = Len(rest) - 2
  BY <1>3, CutInTwo
<1>6. UnescapeRound(ReadSoFar(out, rest)) = ReadSoFar(Append(out, rest[2]), Drop(rest, 2))
  BY <1>2 DEF UnescapeRound, ReadSoFar
<1>7. QED
  BY <1>1, <1>2, <1>4, <1>5, <1>6

\* ... and any other character is itself.
LEMMA OtherReads ==
  ASSUME NEW S, NEW out \in Seq(S), NEW rest \in Seq(S), rest # << >>, ~ StartsEscape(rest)
  PROVE  /\ UnescapeRound(ReadSoFar(out, rest)) = ReadSoFar(Append(out, rest[1]), Tail(rest))
         /\ rest[1] \in S
         /\ Tail(rest) \in Seq(S) /\ Len(Tail(rest)) = Len(rest) - 1
<1>1. Head(rest) = rest[1] /\ rest[1] \in S
  BY HeadApart
<1>2. Tail(rest) \in Seq(S) /\ Len(Tail(rest)) = Len(rest) - 1
  BY HeadTailProperties
<1>3. UnescapeRound(ReadSoFar(out, rest)) = ReadSoFar(Append(out, Head(rest)), Tail(rest))
  BY DEF UnescapeRound, ReadSoFar
<1>4. QED
  BY <1>1, <1>2, <1>3

\* Every round reads something.
LEMMA UnescapeTame ==
  ASSUME NEW S
  PROVE  /\ Tame(Reading(S), UnescapeStep(S), UnescapeSize(S))
         /\ UnescapeStep(S) \in [Reading(S) -> Reading(S)]
<1> DEFINE A == Reading(S)
           step == UnescapeStep(S)
           size == UnescapeSize(S)
<1>1. \A at \in A : step[at] = UnescapeRound(at) /\ size[at] = Len(at.rest)
  BY DEF UnescapeStep, UnescapeSize
<1>2. step = [at \in A |-> step[at]] /\ size = [at \in A |-> size[at]]
  BY DEF UnescapeStep, UnescapeSize
<1> HIDE DEF step, size
<1>3. ASSUME NEW at \in A
      PROVE  /\ UnescapeRound(at) \in A /\ Len(at.rest) \in Nat
             /\ Len(at.rest) = 0 => UnescapeRound(at) = at
             /\ Len(at.rest) # 0 => Len(UnescapeRound(at).rest) < Len(at.rest)
  <2>1. PICK out \in Seq(S), rest \in Seq(S) : at = ReadSoFar(out, rest)
    BY DEF Reading, ReadSoFar
  <2>2. at.rest = rest /\ Len(rest) \in Nat /\ (rest = << >> <=> Len(rest) = 0)
    BY <2>1, LenProperties, EmptySeq DEF ReadSoFar
  <2>3. ASSUME NEW c \in S, NEW more \in Seq(S)
        PROVE  ReadSoFar(Append(out, c), more) \in A /\ ReadSoFar(Append(out, c), more).rest = more
    <3>1. Append(out, c) \in Seq(S)
      BY AppendProperties
    <3>2. QED
      BY <3>1 DEF ReadSoFar, Reading
  <2>4. CASE rest = << >>
    BY <2>2, <2>4 DEF UnescapeRound
  <2>5. CASE StartsEscape(rest)
    <3> DEFINE c == rest[2]
               more == Drop(rest, 2)
    <3>1. /\ UnescapeRound(at) = ReadSoFar(Append(out, c), more)
          /\ c \in S /\ rest # << >> /\ more \in Seq(S) /\ Len(more) = Len(rest) - 2
      BY <2>1, <2>5, EscapeReads
    <3> HIDE DEF c, more
    <3>2. Len(more) < Len(rest)
      BY <2>2, <3>1
    <3>3. UnescapeRound(at) \in A /\ UnescapeRound(at).rest = more
      BY <2>3, <3>1
    <3>4. QED
      BY <2>2, <3>1, <3>2, <3>3
  <2>6. CASE rest # << >> /\ ~ StartsEscape(rest)
    <3> DEFINE c == rest[1]
               more == Tail(rest)
    <3>1. /\ UnescapeRound(at) = ReadSoFar(Append(out, c), more)
          /\ c \in S /\ more \in Seq(S) /\ Len(more) = Len(rest) - 1
      BY <2>1, <2>6, OtherReads
    <3> HIDE DEF c, more
    <3>2. Len(more) < Len(rest)
      BY <2>2, <3>1
    <3>3. UnescapeRound(at) \in A /\ UnescapeRound(at).rest = more
      BY <2>3, <3>1
    <3>4. QED
      BY <2>2, <2>6, <3>2, <3>3
  <2>7. QED
    BY <2>4, <2>5, <2>6
<1>4. \A at \in A : step[at] \in A /\ size[at] \in Nat
  BY <1>1, <1>3
<1>5. step \in [A -> A] /\ size \in [A -> Nat]
  BY <1>2, <1>4
<1>6. \A at \in A : size[at] = 0 => step[at] = at
  BY <1>1, <1>3
<1>7. \A at \in A : size[at] # 0 => size[step[at]] < size[at]
  <2>1. SUFFICES ASSUME NEW at \in A, size[at] # 0 PROVE size[step[at]] < size[at]
    OBVIOUS
  <2>2. step[at] \in A
    BY <1>4
  <2>3. size[step[at]] = Len(step[at].rest)
    BY <1>1, <2>2
  <2>4. QED
    BY <1>1, <1>3, <2>1, <2>3
<1>8. QED
  BY <1>5, <1>6, <1>7 DEF Tame, A, step, size

\* Unescaping ends where its loop ends.
LEMMA UnescapeEnds ==
  ASSUME NEW S
  PROVE  \E e : /\ Ends(e, Reading(S), UnescapeStep(S), UnescapeSize(S))
                /\ \A said \in Seq(S) : UnescapeMarkdown(said) = e[ReadSoFar(<< >>, said)].out
<1> DEFINE A == Reading(S)
           step == UnescapeStep(S)
           size == UnescapeSize(S)
<1>1. Tame(A, step, size) /\ step \in [A -> A]
  BY UnescapeTame
<1>2. PICK e : /\ Ends(e, A, step, size)
               /\ \A a \in A : \A n \in Nat : \A f :
                    Follows(f, A, a, step, n) /\ size[a] <= n => f[n] = e[a]
  BY <1>1, LoopEnds
<1>3. ASSUME NEW said \in Seq(S) PROVE UnescapeMarkdown(said) = e[ReadSoFar(<< >>, said)].out
  <2> DEFINE n == Len(said)
             first == ReadSoFar(<< >>, said)
             Def(f) == [k \in 0..n |->
                          IF k = 0 THEN [out |-> << >>, rest |-> said] ELSE UnescapeRound(f[k - 1])]
             at == CHOOSE f : f = Def(f)
  <2>1. n \in Nat /\ first \in A /\ size[first] = n
    BY LenProperties, EmptySeq DEF ReadSoFar, Reading, UnescapeSize
  <2>2. UnescapeMarkdown(said) = at[n].out
    BY DEF UnescapeMarkdown
  <2>3. \A a \in A : step[a] = UnescapeRound(a)
    BY DEF UnescapeStep
  <2>4. first = [out |-> << >>, rest |-> said]
    BY DEF ReadSoFar
  <2> HIDE DEF n, A, step, size
  <2>5. PICK g : Follows(g, A, first, step, n)
    BY <1>1, <2>1, LoopFollows
  <2>6. g \in [0..n -> A] /\ g[0] = first /\ \A k \in 1..n : g[k] = step[g[k - 1]]
    BY <2>5 DEF Follows
  <2>7. g = Def(g)
    <3>1. ASSUME NEW k \in 0..n PROVE g[k] = Def(g)[k]
      <4>1. CASE k = 0
        BY <2>4, <2>6, <4>1
      <4>2. CASE k # 0
        <5>1. k \in 1..n /\ k - 1 \in 0..n
          BY <2>1, <4>2
        <5>2. g[k - 1] \in A
          BY <2>6, <5>1
        <5>3. g[k] = UnescapeRound(g[k - 1])
          BY <2>3, <2>6, <5>1, <5>2
        <5>4. QED
          BY <4>2, <5>3
      <4>3. QED
        BY <4>1, <4>2
    <3>2. g = [k \in 0..n |-> g[k]] /\ Def(g) = [k \in 0..n |-> Def(g)[k]]
      BY <2>6
    <3> HIDE DEF Def
    <3>3. QED
      BY <3>1, <3>2
  <2>8. at = Def(at)
    <3> HIDE DEF Def
    <3>1. QED
      BY <2>7
  <2> HIDE DEF at, first
  <2>9. GoesOn(at, A, first, step, n)
    <3>1. at = [k \in 0..n |-> at[k]] /\ at[0] = first
      BY <2>1, <2>4, <2>8
    <3>2. ASSUME NEW k \in 1..n, at[k - 1] \in A PROVE at[k] = step[at[k - 1]]
      <4>1. k \in 0..n /\ k # 0
        OBVIOUS
      <4>2. at[k] = UnescapeRound(at[k - 1])
        BY <2>8, <4>1
      <4>3. QED
        BY <2>3, <3>2, <4>2
    <3>3. QED
      BY <3>1, <3>2 DEF GoesOn
  <2>10. Follows(at, A, first, step, n)
    BY <1>1, <2>1, <2>9, LoopFollowed
  <2>11. at[n] = e[first]
    <3>1. n <= n
      BY <2>1
    <3>2. QED
      BY <1>2, <2>1, <2>10, <3>1
  <2>12. QED
    BY <2>2, <2>11 DEF first
<1>4. QED
  BY <1>2, <1>3

------------------------------------------------------------------------------
(***************************************************************************)
(* What is escaped is read back.                                           *)
(***************************************************************************)

\* A character, escaped if need be, ...
Escaped(c) == IF c \in MARKDOWN_ESCAPABLE THEN <<"\\", c>> ELSE <<c>>
\* ... as a piece of text.
EscapePiece(S) == [c \in S |-> Escaped(c)]

\* The escapable characters are distinct, and none is white space.
LEMMA EscapableFacts ==
  /\ "\\" \in MARKDOWN_ESCAPABLE /\ "*" \in MARKDOWN_ESCAPABLE /\ Tick \in MARKDOWN_ESCAPABLE
  /\ "\\" # "*" /\ "\\" # Tick /\ "*" # Tick
  /\ MARKDOWN_ESCAPABLE \cap Whitespace = {}
BY DEF MARKDOWN_ESCAPABLE, Tick, Whitespace

\* Text is escaped character by character.
LEMMA EscapeText ==
  ASSUME NEW S, MARKDOWN_ESCAPABLE \subseteq S
  PROVE  /\ EscapeMarkdown(<< >>) = << >>
         /\ \A c \in S : Escaped(c) \in Seq(S)
         /\ \A b \in Seq(S) : EscapeMarkdown(b) \in Seq(S)
         /\ \A b \in Seq(S) : \A c \in S :
              /\ EscapeMarkdown(Append(b, c)) = EscapeMarkdown(b) \o Escaped(c)
              /\ EscapeMarkdown(<<c>> \o b) = Escaped(c) \o EscapeMarkdown(b)
<1> DEFINE piece == EscapePiece(S)
<1>1. \A c \in S : Escaped(c) \in Seq(S)
  <2>1. SUFFICES ASSUME NEW c \in S PROVE Escaped(c) \in Seq(S)
    OBVIOUS
  <2>2. "\\" \in S
    BY EscapableFacts
  <2>3. <<"\\", c>> \in Seq(S) /\ <<c>> \in Seq(S)
    BY <2>2
  <2>4. QED
    BY <2>3 DEF Escaped
<1>2. piece \in Writers(S, S) /\ \A c \in S : piece[c] = Escaped(c)
  BY <1>1 DEF EscapePiece, Writers
<1>3. ASSUME NEW b \in Seq(S) PROVE EscapeMarkdown(b) = Pieced(b, piece)
  <2>1. \A i \in DOMAIN b : b[i] \in S
    BY LenProperties, ElementOfSeq
  <2>2. [i \in DOMAIN b |-> IF b[i] \in MARKDOWN_ESCAPABLE THEN <<"\\", b[i]>> ELSE <<b[i]>>]
          = Parts(b, piece)
    BY <1>2, <2>1 DEF Parts, Escaped
  <2>3. QED
    BY <2>2 DEF EscapeMarkdown, Pieced
<1> HIDE DEF piece
<1>4. \A b \in Seq(S) : EscapeMarkdown(b) \in Seq(S)
  BY <1>2, <1>3, PiecesOf
<1>5. EscapeMarkdown(<< >>) = << >>
  BY <1>3, EmptySeq, PiecedEmpty
<1>6. ASSUME NEW b \in Seq(S), NEW c \in S
      PROVE  /\ EscapeMarkdown(Append(b, c)) = EscapeMarkdown(b) \o Escaped(c)
             /\ EscapeMarkdown(<<c>> \o b) = Escaped(c) \o EscapeMarkdown(b)
  <2>1. Append(b, c) \in Seq(S) /\ <<c>> \in Seq(S)
    BY AppendProperties
  <2>2. <<c>> \o b \in Seq(S)
    BY <2>1, ConcatProperties
  <2>3. Pieced(Append(b, c), piece) = Pieced(b, piece) \o piece[c]
    BY <1>2, PiecedAppend
  <2>4. Pieced(<<c>> \o b, piece) = Pieced(<<c>>, piece) \o Pieced(b, piece)
    BY <1>2, <2>1, PiecedConcat
  <2>5. Pieced(<<c>>, piece) = piece[c]
    BY <1>2, PiecedOne
  <2>6. QED
    BY <1>2, <1>3, <2>1, <2>2, <2>3, <2>4, <2>5
<1>7. QED
  BY <1>1, <1>4, <1>5, <1>6

\* Escaped text ends as the text does, begins with no delimiter, and has a backslash before
\* every delimiter in it.
Covered(e) == \A i \in 1..Len(e) : e[i] \in {"*", Tick} => i > 1 /\ e[i - 1] = "\\"

\* Escaping covers every delimiter and keeps the end of a text.
LEMMA EscapedShape ==
  ASSUME NEW S, MARKDOWN_ESCAPABLE \subseteq S
  PROVE  \A b \in Seq(S) :
           /\ Covered(EscapeMarkdown(b))
           /\ b # << >> => /\ Len(EscapeMarkdown(b)) > 0
                           /\ EscapeMarkdown(b)[Len(EscapeMarkdown(b))] = b[Len(b)]
                           /\ EscapeMarkdown(b)[1] = b[1] \/ EscapeMarkdown(b)[1] = "\\"
<1> DEFINE E(b) == EscapeMarkdown(b)
           Good(b) == /\ Covered(E(b))
                      /\ b # << >> => /\ Len(E(b)) > 0
                                      /\ E(b)[Len(E(b))] = b[Len(b)]
                                      /\ E(b)[1] = b[1] \/ E(b)[1] = "\\"
           T == {b \in Seq(S) : Good(b)}
<1>1. << >> \in T
  <2>1. E(<< >>) = << >> /\ Len(<< >>) = 0
    BY EscapeText
  <2>2. QED
    BY <2>1, EmptySeq DEF Covered
<1>2. ASSUME NEW b \in Seq(S), NEW c \in S, b \in T PROVE Append(b, c) \in T
  <2> DEFINE e == E(b)
             x == Escaped(c)
             f == e \o x
             m == Len(e)
             n == Len(b)
             a == Append(b, c)
  <2>1. E(a) = f /\ e \in Seq(S) /\ x \in Seq(S) /\ a \in Seq(S)
    BY EscapeText, AppendProperties
  <2>2. /\ Len(x) = 1 \/ Len(x) = 2
        /\ x[Len(x)] = c
        /\ x[1] = c \/ x[1] = "\\"
        /\ Covered(x)
    <3>1. CASE c \in MARKDOWN_ESCAPABLE
      <4>1. x = <<"\\", c>>
        BY <3>1 DEF Escaped
      <4> HIDE DEF x
      <4>2. Len(x) = 2 /\ x[1] = "\\" /\ x[2] = c
        BY <4>1
      <4>3. Covered(x)
        BY <4>2, EscapableFacts DEF Covered
      <4>4. QED
        BY <4>2, <4>3
    <3>2. CASE c \notin MARKDOWN_ESCAPABLE
      <4>1. x = <<c>> /\ c # "*" /\ c # Tick
        BY <3>2, EscapableFacts DEF Escaped
      <4> HIDE DEF x
      <4>2. Len(x) = 1 /\ x[1] = c
        BY <4>1
      <4>3. Covered(x)
        BY <4>1, <4>2 DEF Covered
      <4>4. QED
        BY <4>2, <4>3
    <3>3. QED
      BY <3>1, <3>2
  <2>3. Good(b)
    BY <1>2
  <2>4. /\ m \in Nat /\ n \in Nat /\ Len(a) = n + 1 /\ a[n + 1] = c
        /\ b # << >> => a[1] = b[1]
        /\ b = << >> => n = 0
    <3>1. n \in Nat /\ Len(a) = n + 1 /\ a[n + 1] = c /\ \A i \in 1..n : a[i] = b[i]
      BY AppendProperties, LenProperties
    <3>2. b # << >> => n # 0
      BY EmptySeq
    <3>3. b # << >> => 1 \in 1..n
      BY <3>1, <3>2
    <3>4. b = << >> => n = 0
      BY EmptySeq
    <3> HIDE DEF a, n
    <3>5. QED
      BY <2>1, <3>1, <3>3, <3>4, LenProperties
  <2> HIDE DEF a, x
  <2>5. /\ f \in Seq(S) /\ Len(f) = m + Len(x)
        /\ \A i \in 1..(m + Len(x)) : f[i] = IF i <= m THEN e[i] ELSE x[i - m]
    BY <2>1, ConcatProperties
  <2> DEFINE k == Len(x)
  <2>6. k = 1 \/ k = 2
    BY <2>2
  <2>7. Covered(e) /\ (b # << >> => m > 0 /\ (e[1] = b[1] \/ e[1] = "\\"))
    BY <2>3
  <2>8. b = << >> => e = << >> /\ m = 0
    BY EscapeText, EmptySeq
  <2>9. E(a) = f /\ Len(f) = m + k /\ x[k] = c /\ (x[1] = c \/ x[1] = "\\") /\ Covered(x)
        /\ \A i \in 1..(m + k) : f[i] = IF i <= m THEN e[i] ELSE x[i - m]
    BY <2>1, <2>2, <2>5
  <2>10. \A i \in 1..k : x[i] \in {"*", Tick} => i > 1 /\ x[i - 1] = "\\"
    BY <2>9 DEF Covered
  <2>11. \A i \in 1..m : e[i] \in {"*", Tick} => i > 1 /\ e[i - 1] = "\\"
    BY <2>7 DEF Covered
  <2> HIDE DEF f, m, k, e
  <2>12. Covered(f)
    <3>1. ASSUME NEW i \in 1..(m + k), f[i] \in {"*", Tick} PROVE i > 1 /\ f[i - 1] = "\\"
      <4>1. CASE i <= m
        <5>1. i \in 1..m /\ f[i] = e[i]
          BY <2>4, <2>9, <4>1
        <5>2. i > 1 /\ e[i - 1] = "\\"
          BY <2>11, <3>1, <5>1
        <5>3. i - 1 \in 1..(m + k) /\ i - 1 <= m
          BY <2>4, <2>6, <4>1, <5>1, <5>2
        <5>4. f[i - 1] = e[i - 1]
          BY <2>9, <5>3
        <5>5. QED
          BY <5>2, <5>4
      <4>2. CASE ~ (i <= m)
        <5>1. i - m \in 1..k /\ f[i] = x[i - m]
          BY <2>4, <2>6, <2>9, <4>2
        <5>2. i - m > 1 /\ x[(i - m) - 1] = "\\"
          BY <2>10, <3>1, <5>1
        <5>3. i - 1 \in 1..(m + k) /\ ~ (i - 1 <= m) /\ (i - 1) - m = (i - m) - 1 /\ i > 1
          BY <2>4, <2>6, <5>1, <5>2
        <5>4. f[i - 1] = x[(i - m) - 1]
          BY <2>9, <5>3
        <5>5. QED
          BY <5>2, <5>3, <5>4
      <4>3. QED
        BY <4>1, <4>2
    <3>2. QED
      BY <2>9, <3>1 DEF Covered
  <2>13. Len(f) > 0
    BY <2>4, <2>6, <2>9
  <2>14. f[Len(f)] = a[Len(a)]
    <3>1. m + k \in 1..(m + k) /\ ~ (m + k <= m) /\ (m + k) - m = k
      BY <2>4, <2>6
    <3>2. f[m + k] = x[k]
      BY <2>9, <3>1
    <3>3. QED
      BY <2>4, <2>9, <3>2
  <2>15. f[1] = a[1] \/ f[1] = "\\"
    <3>1. 1 \in 1..(m + k)
      BY <2>4, <2>6
    <3>2. CASE b # << >>
      <4>1. 1 <= m
        BY <2>4, <2>7, <3>2
      <4>2. f[1] = e[1]
        BY <2>9, <3>1, <4>1
      <4>3. QED
        BY <2>4, <2>7, <3>2, <4>2
    <3>3. CASE b = << >>
      <4>1. m = 0 /\ n = 0
        BY <2>4, <2>8, <3>3
      <4>2. f[1] = x[1] /\ a[1] = c
        BY <2>4, <2>9, <3>1, <4>1
      <4>3. QED
        BY <2>9, <4>2
    <3>4. QED
      BY <3>2, <3>3
  <2>16. QED
    BY <2>1, <2>9, <2>12, <2>13, <2>14, <2>15 DEF a
<1> HIDE DEF T
<1>3. \A b \in Seq(S) : b \in T
  BY <1>1, <1>2, SequenceInduction
<1>4. QED
  BY <1>3 DEF T

\* The head of escaped text is an escape or an ordinary character, and the rest is escaped.
LEMMA EscapedHead ==
  ASSUME NEW S, MARKDOWN_ESCAPABLE \subseteq S, NEW c \in S, NEW more \in Seq(S)
  PROVE  LET rest == Escaped(c) \o more
         IN /\ rest \in Seq(S) /\ rest # << >>
            /\ c \in MARKDOWN_ESCAPABLE => /\ StartsEscape(rest) /\ rest[2] = c
                                           /\ Drop(rest, 2) = more
            /\ c \notin MARKDOWN_ESCAPABLE => /\ rest[1] = c /\ ~ StartsEscape(rest)
                                              /\ Tail(rest) = more
<1> DEFINE x == Escaped(c)
           rest == x \o more
<1>1. x \in Seq(S) /\ rest \in Seq(S)
  BY EscapeText, ConcatProperties
<1>2. CASE c \in MARKDOWN_ESCAPABLE
  <2>1. x = <<"\\", c>>
    BY <1>2 DEF Escaped
  <2> HIDE DEF x
  <2>2. Len(x) = 2 /\ x[1] = "\\" /\ x[2] = c
    BY <2>1
  <2>3. /\ Len(rest) = 2 + Len(more) /\ Len(more) \in Nat
        /\ \A i \in 1..(2 + Len(more)) : rest[i] = IF i <= 2 THEN x[i] ELSE more[i - 2]
    <3>1. /\ Len(rest) = Len(x) + Len(more) /\ Len(more) \in Nat
          /\ \A i \in 1..(Len(x) + Len(more)) :
               rest[i] = IF i <= Len(x) THEN x[i] ELSE more[i - Len(x)]
      BY <1>1, ConcatProperties, LenProperties
    <3> HIDE DEF rest
    <3>2. QED
      BY <2>2, <3>1
  <2>4. Drop(rest, 2) = more
    BY <1>1, <2>2, DropConcat
  <2> HIDE DEF rest
  <2>5. rest[1] = "\\" /\ rest[2] = c /\ Len(rest) >= 2
    <3>1. 1 \in 1..(2 + Len(more)) /\ 2 \in 1..(2 + Len(more)) /\ 1 <= 2 /\ 2 <= 2
      BY <2>3
    <3>2. QED
      BY <2>2, <2>3, <3>1
  <2>6. rest # << >>
    BY <1>1, <2>5, EmptySeq
  <2>7. StartsEscape(rest)
    BY <1>2, <2>5 DEF StartsEscape
  <2>8. QED
    BY <1>1, <1>2, <2>4, <2>5, <2>6, <2>7 DEF rest, x
<1>3. CASE c \notin MARKDOWN_ESCAPABLE
  <2>1. x = <<c>> /\ c # "\\"
    BY <1>3, EscapableFacts DEF Escaped
  <2> HIDE DEF x
  <2>2. Len(x) = 1 /\ x[1] = c
    BY <2>1
  <2>3. /\ Len(rest) = 1 + Len(more) /\ Len(more) \in Nat
        /\ \A i \in 1..(1 + Len(more)) : rest[i] = IF i <= 1 THEN x[i] ELSE more[i - 1]
    <3>1. x \in Seq(S) /\ more \in Seq(S)
      BY <1>1
    <3>2. /\ Len(rest) = Len(x) + Len(more)
          /\ \A i \in 1..(Len(x) + Len(more)) :
               rest[i] = IF i <= Len(x) THEN x[i] ELSE more[i - Len(x)]
      BY ONLY <3>1, ConcatProperties
    <3>3. Len(more) \in Nat
      BY LenProperties
    <3> HIDE DEF rest
    <3>4. QED
      BY <2>2, <3>2, <3>3
  <2>4. Drop(rest, 1) = more
    BY <1>1, <2>2, DropConcat
  <2> HIDE DEF rest
  <2>5. rest[1] = c
    <3>1. 1 \in 1..(1 + Len(more)) /\ 1 <= 1
      BY <2>3
    <3>2. QED
      BY <2>2, <2>3, <3>1
  <2>6. rest # << >>
    <3>1. Len(rest) # 0
      BY <2>3
    <3>2. QED
      BY <3>1, EmptySeq
  <2>7. ~ StartsEscape(rest)
    BY <2>1, <2>5 DEF StartsEscape
  <2>8. Tail(rest) = more
    BY <1>1, <2>4, <2>6, HeadApart
  <2>9. QED
    BY <1>1, <1>3, <2>5, <2>6, <2>7, <2>8 DEF rest, x
<1>4. QED
  BY <1>2, <1>3

\* Unescaping gives escaped text back.
LEMMA UnescapeEscaped ==
  ASSUME NEW S, MARKDOWN_ESCAPABLE \subseteq S, NEW said \in Seq(S)
  PROVE  UnescapeMarkdown(EscapeMarkdown(said)) = said
<1> DEFINE A == Reading(S)
           step == UnescapeStep(S)
           size == UnescapeSize(S)
<1>1. PICK e : /\ Ends(e, A, step, size)
               /\ \A t \in Seq(S) : UnescapeMarkdown(t) = e[ReadSoFar(<< >>, t)].out
  BY UnescapeEnds
<1>2. ASSUME NEW out \in Seq(S), NEW rest \in Seq(S)
      PROVE  LET at == ReadSoFar(out, rest)
             IN /\ rest = << >> => e[at] = at
                /\ rest # << >> => e[at] = e[UnescapeRound(at)]
  <2> DEFINE at == ReadSoFar(out, rest)
  <2>1. at \in A /\ at.rest = rest
    BY DEF ReadSoFar, Reading
  <2>2. size[at] = Len(rest) /\ step[at] = UnescapeRound(at)
    BY <2>1 DEF UnescapeSize, UnescapeStep
  <2> HIDE DEF at, step, size
  <2>3. /\ size[at] = 0 => e[at] = at
        /\ size[at] # 0 => e[at] = e[step[at]]
    BY <1>1, <2>1 DEF Ends
  <2>4. QED
    BY <2>2, <2>3, EmptySeq DEF at
<1> DEFINE T == {b \in Seq(S) : \A out \in Seq(S) :
                   e[ReadSoFar(out, EscapeMarkdown(b))] = ReadSoFar(out \o b, << >>)}
<1>3. << >> \in T
  <2>1. ASSUME NEW out \in Seq(S)
        PROVE  e[ReadSoFar(out, EscapeMarkdown(<< >>))] = ReadSoFar(out \o << >>, << >>)
    <3>1. EscapeMarkdown(<< >>) = << >> /\ out \o << >> = out /\ << >> \in Seq(S)
      BY EscapeText, ConcatEmptySeq, EmptySeq
    <3>2. QED
      BY <1>2, <3>1
  <2>2. QED
    BY <2>1, EmptySeq
<1>4. ASSUME NEW b \in Seq(S), NEW c \in S, b \in T PROVE <<c>> \o b \in T
  <2> DEFINE more == EscapeMarkdown(b)
             rest == Escaped(c) \o more
             a == <<c>> \o b
  <2>1. more \in Seq(S) /\ EscapeMarkdown(a) = rest
    BY EscapeText
  <2>2. a \in Seq(S)
    <3>1. <<c>> \in Seq(S)
      OBVIOUS
    <3>2. QED
      BY <3>1, ConcatProperties
  <2>3. ASSUME NEW out \in Seq(S) PROVE e[ReadSoFar(out, rest)] = ReadSoFar(out \o a, << >>)
    <3> DEFINE longer == Append(out, c)
    <3>1. longer \in Seq(S)
      BY AppendProperties
    <3>2. rest \in Seq(S) /\ rest # << >>
      BY <2>1, EscapedHead
    <3>3. UnescapeRound(ReadSoFar(out, rest)) = ReadSoFar(longer, more)
      <4>1. CASE c \in MARKDOWN_ESCAPABLE
        <5>1. StartsEscape(rest) /\ rest[2] = c /\ Drop(rest, 2) = more
          BY <2>1, <4>1, EscapedHead
        <5> HIDE DEF rest
        <5>2. UnescapeRound(ReadSoFar(out, rest)) = ReadSoFar(Append(out, rest[2]), Drop(rest, 2))
          BY <3>2, <5>1, EscapeReads
        <5>3. QED
          BY <5>1, <5>2
      <4>2. CASE c \notin MARKDOWN_ESCAPABLE
        <5>1. ~ StartsEscape(rest) /\ rest[1] = c /\ Tail(rest) = more
          BY <2>1, <4>2, EscapedHead
        <5> HIDE DEF rest
        <5>2. UnescapeRound(ReadSoFar(out, rest)) = ReadSoFar(Append(out, rest[1]), Tail(rest))
          BY <3>2, <5>1, OtherReads
        <5>3. QED
          BY <5>1, <5>2
      <4>3. QED
        BY <4>1, <4>2
    <3> HIDE DEF rest, more
    <3>4. e[ReadSoFar(out, rest)] = e[ReadSoFar(longer, more)]
      BY <1>2, <3>2, <3>3
    <3>5. e[ReadSoFar(longer, more)] = ReadSoFar(longer \o b, << >>)
      BY <1>4, <3>1 DEF more
    <3>6. longer \o b = out \o a
      <4>1. longer = out \o <<c>> /\ <<c>> \in Seq(S)
        BY AppendIsConcat
      <4>2. (out \o <<c>>) \o b = out \o (<<c>> \o b)
        BY <4>1, ConcatAssociative
      <4>3. QED
        BY <4>1, <4>2
    <3>7. QED
      BY <3>4, <3>5, <3>6
  <2> HIDE DEF rest, a
  <2>4. QED
    BY <2>1, <2>2, <2>3 DEF a
<1> HIDE DEF T
<1>5. \A b \in Seq(S) : b \in T
  BY <1>3, <1>4, ConsInduction
<1>6. e[ReadSoFar(<< >>, EscapeMarkdown(said))] = ReadSoFar(<< >> \o said, << >>)
  BY <1>5, EmptySeq DEF T
<1>7. << >> \o said = said /\ EscapeMarkdown(said) \in Seq(S)
  BY ConcatEmptySeq, EscapeText
<1>8. QED
  BY <1>1, <1>6, <1>7 DEF ReadSoFar

\* Unescaping keeps the end of a text, and puts nothing but an escapable character at its
\* head.
LEMMA UnescapedShape ==
  ASSUME NEW S, NEW said \in Seq(S)
  PROVE  LET u == UnescapeMarkdown(said)
         IN /\ u \in Seq(S)
            /\ said # << >> => /\ u # << >>
                               /\ u[Len(u)] = said[Len(said)]
                               /\ u[1] = said[1] \/ u[1] \in MARKDOWN_ESCAPABLE
<1> DEFINE A == Reading(S)
           step == UnescapeStep(S)
           size == UnescapeSize(S)
           last == said[Len(said)]
           first == said[1]
           Rest(r) == r # << >> => r[Len(r)] = last
           Out(o) == o # << >> => o[1] = first \/ o[1] \in MARKDOWN_ESCAPABLE
           Inv(o, r) == /\ Rest(r)
                        /\ Out(o)
                        /\ r = << >> => o # << >> /\ o[Len(o)] = last
                        /\ o = << >> => r = said
           I == {at \in A : Inv(at.out, at.rest)}
           start == ReadSoFar(<< >>, said)
<1>1. PICK e : /\ Ends(e, A, step, size)
               /\ \A t \in Seq(S) : UnescapeMarkdown(t) = e[ReadSoFar(<< >>, t)].out
  BY UnescapeEnds
<1>2. Tame(A, step, size)
  BY UnescapeTame
<1>3. start \in A /\ start.out = << >> /\ start.rest = said
  BY EmptySeq DEF ReadSoFar, Reading
<1>4. e[start] \in A /\ UnescapeMarkdown(said) = e[start].out
  BY <1>1, <1>3 DEF Ends
<1>5. UnescapeMarkdown(said) \in Seq(S)
  BY <1>4 DEF Reading
<1>6. ASSUME said # << >>
      PROVE  LET u == UnescapeMarkdown(said)
             IN /\ u # << >>
                /\ u[Len(u)] = last
                /\ u[1] = first \/ u[1] \in MARKDOWN_ESCAPABLE
  <2>1. start \in I
    BY <1>3, <1>6
  <2>2. ASSUME NEW out \in Seq(S), NEW rest \in Seq(S), rest # << >>, Inv(out, rest),
               NEW c \in S, NEW more \in Seq(S), NEW n \in 1..Len(rest), n = Len(rest) - Len(more),
               rest[n] = c, more = Drop(rest, n),
               (n = 1 /\ c = rest[1]) \/ c \in MARKDOWN_ESCAPABLE
        PROVE  Inv(Append(out, c), more)
    <3> DEFINE o == Append(out, c)
               k == Len(out)
    <3>1. /\ o \in Seq(S) /\ Len(o) = k + 1 /\ o[k + 1] = c /\ k \in Nat /\ Len(rest) \in Nat
          /\ \A i \in 1..k : o[i] = out[i]
      BY AppendProperties, LenProperties
    <3>2. /\ \A i \in 1..(Len(rest) - n) : more[i] = rest[n + i]
          /\ Len(more) = Len(rest) - n /\ Len(more) \in Nat
      <4>1. n \in 0..Len(rest)
        BY <3>1
      <4>2. /\ \A i \in 1..(Len(rest) - n) : Drop(rest, n)[i] = rest[n + i]
            /\ Len(Drop(rest, n)) = Len(rest) - n
        BY <4>1, CutInTwo
      <4>3. more = Drop(rest, n)
        BY <2>2
      <4>4. Len(more) \in Nat
        BY LenProperties
      <4>5. QED
        BY <4>2, <4>3, <4>4
    <3>3. more # << >> => more[Len(more)] = last
      <4>1. SUFFICES ASSUME more # << >> PROVE more[Len(more)] = last
        OBVIOUS
      <4>2. Len(more) # 0
        BY <4>1, EmptySeq
      <4> DEFINE m == Len(more)
                 l == Len(rest)
      <4>3. m \in Nat \ {0} /\ m = l - n /\ l \in Nat
        BY <3>1, <3>2, <4>2
      <4>4. more[m] = rest[n + m]
        <5>1. m \in 1..(l - n)
          BY <4>3
        <5>2. QED
          BY <3>2, <5>1
      <4>5. n + m = l
        BY <4>3, <3>1
      <4>6. rest[l] = last
        BY <2>2
      <4>7. QED
        BY <4>4, <4>5, <4>6
    <3>4. more = << >> => c = last
      <4>1. SUFFICES ASSUME more = << >> PROVE c = last
        OBVIOUS
      <4>2. Len(rest) - n = 0
        BY <3>2, <4>1, EmptySeq
      <4>3. n = Len(rest)
        BY <3>1, <4>2
      <4>4. QED
        BY <2>2, <4>3
    <3> HIDE DEF o
    <3>5. o # << >>
      <4>1. Len(o) # 0
        BY <3>1
      <4>2. QED
        BY <3>1, <4>1, EmptySeq
    <3>6. o[1] = first \/ o[1] \in MARKDOWN_ESCAPABLE
      <4>1. CASE out = << >>
        <5>1. k = 0 /\ o[1] = c
          BY <3>1, <4>1, EmptySeq
        <5>2. rest = said
          BY <2>2, <4>1
        <5>3. QED
          BY <2>2, <5>1, <5>2
      <4>2. CASE out # << >>
        <5>1. k # 0
          BY <4>2, EmptySeq
        <5>2. 1 \in 1..k
          BY <3>1, <5>1
        <5>3. o[1] = out[1]
          BY <3>1, <5>2
        <5>4. QED
          BY <2>2, <4>2, <5>3
      <4>3. QED
        BY <4>1, <4>2
    <3>7. more = << >> => o[Len(o)] = last
      BY <3>1, <3>4
    <3>8. QED
      BY <3>3, <3>5, <3>6, <3>7 DEF o
  <2>3. ASSUME NEW at \in I, size[at] # 0 PROVE step[at] \in I
    <3>1. PICK out \in Seq(S), rest \in Seq(S) :
             at = ReadSoFar(out, rest) /\ at.out = out /\ at.rest = rest
      BY DEF Reading, ReadSoFar
    <3>2. at \in A /\ Inv(out, rest) /\ size[at] = Len(rest) /\ step[at] = UnescapeRound(at)
      BY <3>1 DEF UnescapeSize, UnescapeStep
    <3>3. rest # << >> /\ Len(rest) \in Nat
      BY <2>3, <3>2, EmptySeq, LenProperties
    <3> HIDE DEF Inv, step, size
    <3>4. ASSUME NEW c \in S, NEW more \in Seq(S),
                 UnescapeRound(at) = ReadSoFar(Append(out, c), more), Inv(Append(out, c), more)
          PROVE  UnescapeRound(at) \in I
      <4> DEFINE o == Append(out, c)
      <4>1. o \in Seq(S)
        BY AppendProperties
      <4> HIDE DEF o
      <4>2. ReadSoFar(o, more) \in A /\ ReadSoFar(o, more).out = o /\ ReadSoFar(o, more).rest = more
        BY <4>1 DEF ReadSoFar, Reading
      <4>3. UnescapeRound(at) = ReadSoFar(o, more) /\ Inv(o, more)
        BY <3>4 DEF o
      <4>4. QED
        BY <4>2, <4>3
    <3>5. CASE StartsEscape(rest)
      <4>1. /\ UnescapeRound(at) = ReadSoFar(Append(out, rest[2]), Drop(rest, 2))
            /\ rest[2] \in S /\ rest[2] \in MARKDOWN_ESCAPABLE
            /\ Drop(rest, 2) \in Seq(S) /\ Len(Drop(rest, 2)) = Len(rest) - 2
        BY <3>1, <3>5, EscapeReads
      <4>2. 2 \in 1..Len(rest) /\ 2 = Len(rest) - (Len(rest) - 2)
        BY <3>3, <3>5 DEF StartsEscape
      <4> DEFINE c == rest[2]
                 more == Drop(rest, 2)
      <4>3. c \in S /\ more \in Seq(S) /\ 2 = Len(rest) - Len(more) /\ rest[2] = c
            /\ c \in MARKDOWN_ESCAPABLE /\ more = Drop(rest, 2)
        BY <4>1, <4>2
      <4> HIDE DEF c, more
      <4>4. Inv(Append(out, c), more)
        BY <2>2, <3>2, <3>3, <4>2, <4>3
      <4>5. QED
        BY <3>2, <3>4, <4>1, <4>3, <4>4 DEF c, more
    <3>6. CASE ~ StartsEscape(rest)
      <4> DEFINE c == rest[1]
                 more == Tail(rest)
      <4>0. more = Drop(rest, 1)
        BY <3>3, HeadApart
      <4>1. /\ UnescapeRound(at) = ReadSoFar(Append(out, c), more)
            /\ c \in S /\ more \in Seq(S) /\ Len(more) = Len(rest) - 1
        BY <3>1, <3>3, <3>6, OtherReads
      <4>2. 1 \in 1..Len(rest)
        BY <3>3, EmptySeq
      <4>3. rest[1] = c
        OBVIOUS
      <4> HIDE DEF c, more
      <4>4. 1 = Len(rest) - Len(more)
        BY <3>3, <4>1
      <4>5. Inv(Append(out, c), more)
        BY <2>2, <3>2, <3>3, <4>0, <4>1, <4>2, <4>3, <4>4
      <4>6. QED
        BY <3>2, <3>4, <4>1, <4>5
    <3>7. QED
      BY <3>5, <3>6
  <2>4. I \in SUBSET A
    OBVIOUS
  <2> HIDE DEF I
  <2>5. e[start] \in I /\ size[e[start]] = 0
    BY <1>1, <1>2, <2>1, <2>3, <2>4, LoopKeeps
  <2> DEFINE end == e[start]
  <2>6. end \in A /\ end \in I /\ end.rest \in Seq(S) /\ Len(end.rest) = 0
    BY <1>4, <2>5 DEF UnescapeSize, Reading
  <2>7. Inv(end.out, end.rest)
    BY <2>6 DEF I
  <2> HIDE DEF end
  <2>8. end.rest = << >>
    BY <2>6, EmptySeq
  <2>9. UnescapeMarkdown(said) = end.out
    BY <1>4 DEF end
  <2>10. QED
    BY <2>7, <2>8, <2>9
<1>7. QED
  BY <1>5, <1>6

(***************************************************************************)
(* The trees that markdown can spell, and the runs that spell their spans. *)
(***************************************************************************)
\* A span that can be spelled: WellFormed's demands, except that a code run may have back
\* quotes that do not close it.
SpanSpells(x) ==
  /\ x.body # << >>
  /\ x.kind \in {"Bold", "Italic"} =>
       /\ x.body[1] \notin Whitespace
       /\ x.body[Len(x.body)] \notin Whitespace \cup {"\\", "*"}
  /\ x.kind = "Code" =>
       /\ x.body[Len(x.body)] # "\\"
       /\ \A i \in 1..Len(x.body) : x.body[i] = Tick => i = 1 \/ x.body[i - 1] = "\\"

\* Two that do not run together.
Apart(x, y) ==
  /\ x.kind = "Text" => y.kind # "Text"
  /\ x.kind \in {"Bold", "Italic"} => y.kind \notin {"Bold", "Italic"}

\* Where a single character stands.
LEMMA PlaceOfOne ==
  ASSUME NEW S, NEW hay \in Seq(S), NEW c, NEW j \in 0..(Len(hay) - 1)
  PROVE  j \in Places(hay, <<c>>, 0) <=> hay[j + 1] = c
<1>1. Len(hay) \in Nat /\ Len(<<c>>) = 1 /\ j + 1 \in 1..Len(hay)
  BY LenProperties
<1>2. SubSeq(hay, j + 1, j + 1) = <<hay[j + 1]>>
  <2> DEFINE k == j + 1
             one == SubSeq(hay, k, k)
  <2>1. k \in 1..Len(hay) /\ k \in Nat
    BY <1>1
  <2>2. \A i \in k..k : hay[i] \in S
    BY <2>1, ElementOfSeq
  <2> HIDE DEF k
  <2>3. /\ one \in Seq(S) /\ Len(one) = IF k <= k THEN k - k + 1 ELSE 0
        /\ \A i \in 1..k - k + 1 : one[i] = hay[k + i - 1]
    BY <2>1, <2>2, SubSeqProperties
  <2> HIDE DEF one
  <2>4. k - k + 1 = 1 /\ k <= k /\ k + 1 - 1 = k /\ 1 \in 1..1
    BY <2>1
  <2>5. Len(one) = 1 /\ one[1] = hay[k]
    BY <2>3, <2>4
  <2>6. hay[k] \in S /\ <<hay[k]>> \in Seq(S)
    BY <2>1, ElementOfSeq
  <2>7. one = <<hay[k]>>
    BY <2>3, <2>5, <2>6, SeqEqual
  <2>8. QED
    BY <2>7 DEF one, k
<1>3. j \in Places(hay, <<c>>, 0) <=> j \in 0..(Len(hay) - 1) /\ SubSeq(hay, j + 1, j + 1) = <<c>>
  BY <1>1 DEF Places
<1>4. <<hay[j + 1]>> = <<c>> <=> hay[j + 1] = c
  OBVIOUS
<1>5. QED
  BY <1>2, <1>3, <1>4

\* Dropping twice.
LEMMA DropDrop ==
  ASSUME NEW S, NEW s \in Seq(S), NEW m \in Nat, NEW n \in Nat, m + n <= Len(s)
  PROVE  Drop(Drop(s, m), n) = Drop(s, m + n)
<1> DEFINE L == Len(s)
           t == Drop(s, m)
           u == Drop(t, n)
           v == Drop(s, m + n)
<1>1. L \in Nat
  BY LenProperties
<1>2. m \in 0..Len(s) /\ m + n \in 0..Len(s)
  BY <1>1
<1>3. /\ t \in Seq(S) /\ Len(t) = L - m /\ \A i \in 1..(L - m) : t[i] = s[m + i]
      /\ v \in Seq(S) /\ Len(v) = L - (m + n) /\ \A i \in 1..(L - (m + n)) : v[i] = s[(m + n) + i]
  BY <1>2, CutInTwo
<1> HIDE DEF t, v
<1>4. n \in 0..Len(t)
  BY <1>1, <1>3
<1>5. u \in Seq(S) /\ Len(u) = Len(t) - n /\ \A i \in 1..(Len(t) - n) : u[i] = t[n + i]
  BY <1>3, <1>4, CutInTwo
<1> HIDE DEF u, L
<1>6. Len(u) = Len(v)
  BY <1>1, <1>3, <1>5
<1>7. ASSUME NEW i \in 1..Len(v) PROVE u[i] = v[i]
  <2>1. i \in 1..(Len(t) - n) /\ n + i \in 1..(L - m) /\ m + (n + i) = (m + n) + i
    BY <1>1, <1>3
  <2>2. QED
    BY <1>3, <1>5, <2>1
<1>8. u = v
  BY <1>3, <1>5, <1>6, <1>7, SeqEqual
<1>9. QED
  BY <1>8 DEF u, t, v

------------------------------------------------------------------------------
(***************************************************************************)
(* The run that the table finds can be spelled.                            *)
(***************************************************************************)

\* The table of delimiters.
LEMMA TableFacts ==
  /\ DOMAIN MARKDOWN_TABLE = 1..3
  /\ MARKDOWN_TABLE[1] = [delim |-> <<"*", "*">>, kind |-> "Bold"]
  /\ MARKDOWN_TABLE[2] = [delim |-> <<"*">>, kind |-> "Italic"]
  /\ MARKDOWN_TABLE[3] = [delim |-> <<Tick>>, kind |-> "Code"]
BY DEF MARKDOWN_TABLE

\* Which delimiter spells which kind.
Delimits(delim, kind) ==
  \/ kind = "Bold" /\ delim = <<"*", "*">>
  \/ kind = "Italic" /\ delim = <<"*">>
  \/ kind = "Code" /\ delim = <<Tick>>

\* A run that an entry of the table finds is the head of what is left to read; its body can
\* be spelled, and nothing after it runs together with it.
Runs3(rest, kind, body, after) ==
  /\ SpanSpells(Span(kind, body))
  /\ Len(after) < Len(rest)
  /\ kind \in {"Bold", "Italic"} => /\ rest[1] = "*"
                                    /\ after # << >> => after[1] # "*"

\* A run that an entry of the table finds is one.
LEMMA EntryFound ==
  ASSUME NEW S, MARKDOWN_ESCAPABLE \subseteq S, NEW rest \in Seq(S), NEW kind \in TagKinds,
         NEW delim, Delimits(delim, kind),
         MatchEntry(rest, [delim |-> delim, kind |-> kind]) # NoMatch
  PROVE  \E body \in Seq(S), after \in Seq(S), n \in Nat :
           /\ MatchEntry(rest, [delim |-> delim, kind |-> kind])
                = [span |-> Span(kind, body), consumed |-> n]
           /\ Drop(rest, n) = after
           /\ Runs3(rest, kind, body, after)
<1> DEFINE entry == [delim |-> delim, kind |-> kind]
           size == Len(delim)
           hay == Drop(rest, size)
           flanking == kind # "Code"
           end == FindCloser(hay, delim, flanking)
           raw == SubSeq(hay, 1, end)
           body == IF flanking THEN UnescapeMarkdown(raw) ELSE raw
           n == size + end + size
           after == Drop(rest, n)
<1>1. /\ delim \in Seq(S) /\ delim # << >> /\ size \in Nat \ {0}
      /\ flanking => delim[1] = "*"
      /\ kind = "Code" => delim = <<Tick>> /\ size = 1
  <2>1. "*" \in S /\ Tick \in S
    BY EscapableFacts
  <2>2. CASE kind = "Bold"
    <3>1. delim = <<"*", "*">>
      BY <2>2 DEF Delimits
    <3>2. delim \in Seq(S) /\ delim # << >> /\ size = 2 /\ delim[1] = "*"
      BY <2>1, <3>1
    <3>3. QED
      BY <2>2, <3>2
  <2>3. CASE kind = "Italic"
    <3>1. delim = <<"*">>
      BY <2>3 DEF Delimits
    <3>2. delim \in Seq(S) /\ delim # << >> /\ size = 1 /\ delim[1] = "*"
      BY <2>1, <3>1
    <3>3. QED
      BY <2>3, <3>2
  <2>4. CASE kind = "Code"
    <3>1. delim = <<Tick>>
      BY <2>4 DEF Delimits
    <3>2. delim \in Seq(S) /\ delim # << >> /\ size = 1
      BY <2>1, <3>1
    <3>3. QED
      BY <2>4, <3>1, <3>2
  <2>5. QED
    BY <2>2, <2>3, <2>4 DEF Delimits
<1>2. entry.delim = delim /\ entry.kind = kind
  OBVIOUS
<1>3. /\ IsPrefix(delim, rest)
      /\ ~ (flanking /\ hay # << >> /\ Head(hay) \in Whitespace \cup {"*"})
      /\ end # 0
      /\ MatchEntry(rest, entry) = [span |-> Span(kind, body), consumed |-> n]
  <2> HIDE DEF body, end, hay, entry, raw
  <2>1. MatchEntry(rest, entry)
          = IF \/ ~ IsPrefix(delim, rest)
               \/ flanking /\ hay # << >> /\ Head(hay) \in Whitespace \cup {"*"}
               \/ end = 0
            THEN NoMatch
            ELSE [span |-> Span(kind, body), consumed |-> n]
    BY <1>2 DEF MatchEntry, body, raw, end, hay
  <2>2. MatchEntry(rest, entry) # NoMatch
    BY DEF entry
  <2>3. QED
    BY <2>1, <2>2
<1> HIDE DEF body, entry
<1>4. Len(rest) \in Nat /\ size <= Len(rest)
  BY <1>3, LenProperties DEF IsPrefix
<1>5. flanking => rest[1] = "*"
  <2>1. SUFFICES ASSUME flanking PROVE rest[1] = "*"
    OBVIOUS
  <2>2. SubSeq(delim, 1, size) = SubSeq(rest, 1, size)
    BY <1>3 DEF IsPrefix
  <2>3. size \in 0..Len(rest) /\ size \in 0..Len(delim) /\ 1 \in 1..size
    BY <1>1, <1>4
  <2>4. \A i \in 1..size : SubSeq(rest, 1, size)[i] = rest[i]
    BY <2>3, CutInTwo
  <2>5. \A i \in 1..size : SubSeq(delim, 1, size)[i] = delim[i]
    BY <1>1, <2>3, CutInTwo
  <2>6. QED
    BY <1>1, <2>1, <2>2, <2>3, <2>4, <2>5
<1>6. hay \in Seq(S) /\ Len(hay) = Len(rest) - size
  <2>1. size \in 0..Len(rest)
    BY <1>1, <1>4
  <2>2. QED
    BY <2>1, CutInTwo
<1> HIDE DEF hay
<1>7. /\ end \in Nat
      /\ end \in Places(hay, delim, 0)
      /\ Closes(hay, delim, flanking, end)
      /\ size = 1 => \A j \in Places(hay, delim, 0) : j < end => ~ Closes(hay, delim, flanking, j)
  BY <1>1, <1>3, <1>6, CloserFound
<1> HIDE DEF end, size, flanking
<1>8. end + size <= Len(hay) /\ end \in Nat \ {0}
  <2>1. end \in 0..(Len(hay) - size)
    BY <1>7 DEF Places, size
  <2>2. QED
    BY <1>1, <1>3, <1>4, <1>6, <1>7, <2>1
<1>9. /\ hay[end] # "\\"
      /\ flanking => /\ hay[end] \notin Whitespace \cup {"*"}
                     /\ Drop(hay, end + size) = << >> \/ Head(Drop(hay, end + size)) # "*"
  BY <1>7 DEF Closes, size
<1>10. /\ raw \in Seq(S) /\ Len(raw) = end /\ \A i \in 1..end : raw[i] = hay[i]
  <2>1. end \in 0..Len(hay)
    BY <1>1, <1>4, <1>6, <1>8
  <2>2. QED
    BY <1>6, <2>1, CutInTwo
<1> HIDE DEF raw
<1>11. raw # << >> /\ 1 \in 1..end /\ end \in 1..end
  BY <1>8, <1>10, EmptySeq
<1>12. n \in Nat /\ n <= Len(rest) /\ n > 0
  BY <1>1, <1>4, <1>6, <1>8
<1>13. after \in Seq(S) /\ Len(after) < Len(rest)
  <2>1. n \in 0..Len(rest)
    BY <1>4, <1>12
  <2>2. after \in Seq(S) /\ Len(after) = Len(rest) - n
    BY <2>1, CutInTwo
  <2>3. QED
    BY <1>4, <1>12, <2>2
<1>14. after = Drop(hay, end + size)
  <2>1. end + size \in Nat /\ size + (end + size) <= Len(rest) /\ n = size + (end + size)
    BY <1>1, <1>4, <1>6, <1>8
  <2>2. Drop(Drop(rest, size), end + size) = Drop(rest, size + (end + size))
    BY <1>1, <2>1, DropDrop
  <2>3. QED
    BY <2>1, <2>2 DEF hay
<1>15. flanking => (after # << >> => after[1] # "*")
  BY <1>9, <1>13, <1>14, HeadApart
<1> HIDE DEF after, n
<1>16. body \in Seq(S) /\ SpanSpells(Span(kind, body))
  <2>1. Span(kind, body).kind = kind /\ Span(kind, body).body = body
    BY DEF Span
  <2>2. CASE flanking
    <3>1. body = UnescapeMarkdown(raw) /\ kind # "Code"
      BY <2>2 DEF body, flanking
    <3>2. /\ body \in Seq(S) /\ body # << >> /\ body[Len(body)] = raw[Len(raw)]
          /\ body[1] = raw[1] \/ body[1] \in MARKDOWN_ESCAPABLE
      BY <1>10, <1>11, <3>1, UnescapedShape
    <3>3. body[Len(body)] \notin Whitespace \cup {"\\", "*"}
      BY <1>9, <1>10, <1>11, <2>2, <3>2
    <3>4. hay # << >> /\ Head(hay) = hay[1]
      <4>1. Len(hay) # 0
        BY <1>1, <1>4, <1>6, <1>8
      <4>2. hay # << >>
        BY <1>6, <4>1, EmptySeq
      <4>3. QED
        BY <1>6, <4>2, HeadApart
    <3>5. raw[1] \notin Whitespace
      BY <1>3, <1>10, <1>11, <2>2, <3>4
    <3>6. body[1] \notin Whitespace
      BY <3>2, <3>5, EscapableFacts
    <3>7. QED
      BY <2>1, <3>1, <3>2, <3>3, <3>6 DEF SpanSpells
  <2>3. CASE ~ flanking
    <3>1. body = raw /\ kind = "Code" /\ delim = <<Tick>> /\ size = 1
      BY <1>1, <2>3 DEF body, flanking
    <3>2. body \in Seq(S) /\ body # << >> /\ Len(body) = end /\ \A i \in 1..end : body[i] = hay[i]
      BY <1>10, <1>11, <3>1
    <3>3. body[Len(body)] # "\\"
      BY <1>9, <1>11, <3>2
    <3>4. ASSUME NEW i \in 1..Len(body), body[i] = Tick PROVE i = 1 \/ body[i - 1] = "\\"
      <4> DEFINE j == i - 1
      <4>1. i \in 1..end /\ j \in 0..(Len(hay) - 1) /\ j < end /\ j + 1 = i
        BY <1>4, <1>6, <1>8, <3>1, <3>2
      <4> HIDE DEF j
      <4>2. hay[j + 1] = Tick
        BY <3>2, <3>4, <4>1
      <4>3. j \in Places(hay, <<Tick>>, 0)
        BY <1>6, <4>1, <4>2, PlaceOfOne
      <4>4. ~ Closes(hay, delim, flanking, j)
        BY <1>7, <3>1, <4>1, <4>3
      <4>5. j = 0 \/ hay[j] = "\\"
        BY <2>3, <4>1, <4>4 DEF Closes
      <4>6. CASE j = 0
        BY <4>1, <4>6
      <4>7. CASE j # 0
        <5>1. j \in 1..end /\ j = i - 1
          BY <1>8, <4>1, <4>7
        <5>2. QED
          BY <3>2, <4>5, <4>7, <5>1
      <4>8. QED
        BY <4>6, <4>7
    <3>5. QED
      BY <2>1, <3>1, <3>2, <3>3, <3>4 DEF SpanSpells
  <2>4. QED
    BY <2>2, <2>3
<1>17. Runs3(rest, kind, body, after)
  BY <1>5, <1>13, <1>15, <1>16 DEF Runs3, flanking
<1>18. MatchEntry(rest, [delim |-> delim, kind |-> kind]) = [span |-> Span(kind, body), consumed |-> n]
  BY <1>3 DEF entry
<1>19. QED
  BY <1>12, <1>13, <1>16, <1>17, <1>18 DEF after

\* So is a run that the table finds.
LEMMA RunFound ==
  ASSUME NEW S, MARKDOWN_ESCAPABLE \subseteq S, NEW rest \in Seq(S), TryMatchMarkdown(rest) # NoMatch
  PROVE  \E kind \in TagKinds, body \in Seq(S), after \in Seq(S), n \in Nat :
           /\ TryMatchMarkdown(rest) = [span |-> Span(kind, body), consumed |-> n]
           /\ Drop(rest, n) = after
           /\ Runs3(rest, kind, body, after)
<1> DEFINE runs == {k \in DOMAIN MARKDOWN_TABLE : MatchEntry(rest, MARKDOWN_TABLE[k]) # NoMatch}
           k == Min(runs)
<1>1. runs # {} /\ TryMatchMarkdown(rest) = MatchEntry(rest, MARKDOWN_TABLE[k])
  BY DEF TryMatchMarkdown
<1>2. k \in runs
  <2>1. runs \in SUBSET Nat
    BY TableFacts
  <2>2. \E m \in runs : \A j \in runs : m <= j
    BY <1>1, <2>1, LeastNatural
  <2> HIDE DEF runs
  <2>3. QED
    BY <2>2 DEF Min
<1>3. k \in 1..3
  BY <1>2, TableFacts
<1> HIDE DEF k, runs
<1>4. k = 1 \/ k = 2 \/ k = 3
  BY <1>3
<1>5. PICK kind, delim : /\ kind \in TagKinds
                        /\ MARKDOWN_TABLE[k] = [delim |-> delim, kind |-> kind]
                        /\ Delimits(delim, kind)
  <2>1. "Bold" \in TagKinds /\ "Italic" \in TagKinds /\ "Code" \in TagKinds
    BY DEF TagKinds
  <2>2. Delimits(<<"*", "*">>, "Bold") /\ Delimits(<<"*">>, "Italic") /\ Delimits(<<Tick>>, "Code")
    BY DEF Delimits
  <2>3. QED
    BY <1>4, <2>1, <2>2, TableFacts
<1>6. MatchEntry(rest, [delim |-> delim, kind |-> kind]) # NoMatch
  BY <1>2, <1>5 DEF runs
<1>7. PICK body \in Seq(S), after \in Seq(S), n \in Nat :
           /\ MatchEntry(rest, [delim |-> delim, kind |-> kind])
                = [span |-> Span(kind, body), consumed |-> n]
           /\ Drop(rest, n) = after
           /\ Runs3(rest, kind, body, after)
  BY <1>5, <1>6, EntryFound
<1>8. QED
  BY <1>1, <1>5, <1>7

------------------------------------------------------------------------------
(***************************************************************************)
(* The rounds of parse_markdown keep the tree one that can be spelled.     *)
(***************************************************************************)

\* A round of parse_markdown, ...
MarkdownStep(S) == [at \in Cursors(S) |-> ParseMarkdownRound(at)]
\* ... and what is left to read.
MarkdownSize(S) == [at \in Cursors(S) |-> Len(at.rest)]

\* The rounds of parse_markdown: an escape, ...
LEMMA EscapeRound ==
  ASSUME NEW S, NEW spans, NEW buf \in Seq(S), NEW rest \in Seq(S), StartsEscape(rest)
  PROVE  ParseMarkdownRound(Cursor(spans, buf, rest))
           = Cursor(spans, Append(buf, rest[2]), Drop(rest, 2))
<1>1. rest # << >>
  BY EscapeReads, EmptySeq
<1> DEFINE at == Cursor(spans, buf, rest)
<1>2. at.spans = spans /\ at.buf = buf /\ at.rest = rest
  BY CursorParts
<1> HIDE DEF at
<1>3. ParseMarkdownRound(at) = Cursor(spans, Append(buf, rest[2]), Drop(rest, 2))
  BY <1>1, <1>2 DEF ParseMarkdownRound
<1>4. QED
  BY <1>3 DEF at

\* ... a run, ...
LEMMA RunRound ==
  ASSUME NEW spans, NEW buf, NEW rest, rest # << >>, ~ StartsEscape(rest),
         NEW x, NEW n, TryMatchMarkdown(rest) = [span |-> x, consumed |-> n],
         TryMatchMarkdown(rest) # NoMatch
  PROVE  ParseMarkdownRound(Cursor(spans, buf, rest))
           = Cursor(spans \o Flush(buf) \o <<x>>, << >>, Drop(rest, n))
<1> DEFINE at == Cursor(spans, buf, rest)
           run == TryMatchMarkdown(rest)
           done == spans \o Flush(buf)
<1>1. at.spans = spans /\ at.buf = buf /\ at.rest = rest
  BY CursorParts
<1>2. run # NoMatch /\ run.span = x /\ run.consumed = n
  OBVIOUS
<1> HIDE DEF at
<1>3. ParseMarkdownRound(at) = Cursor(done \o <<run.span>>, << >>, Drop(rest, run.consumed))
  BY <1>1, <1>2 DEF ParseMarkdownRound
<1> HIDE DEF run
<1>4. QED
  BY <1>2, <1>3 DEF at

\* ... or a character.
LEMMA PlainRound ==
  ASSUME NEW S, NEW spans, NEW buf, NEW rest \in Seq(S), rest # << >>, ~ StartsEscape(rest),
         TryMatchMarkdown(rest) = NoMatch
  PROVE  ParseMarkdownRound(Cursor(spans, buf, rest)) = Cursor(spans, Append(buf, rest[1]), Tail(rest))
<1> DEFINE at == Cursor(spans, buf, rest)
<1>1. at.spans = spans /\ at.buf = buf /\ at.rest = rest /\ Head(rest) = rest[1]
  BY CursorParts, HeadApart
<1> HIDE DEF at
<1>2. ParseMarkdownRound(at) = Cursor(spans, Append(buf, rest[1]), Tail(rest))
  BY <1>1 DEF ParseMarkdownRound
<1>3. QED
  BY <1>2 DEF at

\* A tree that can be spelled.
Spells(s) ==
  /\ \A i \in 1..Len(s) : SpanSpells(s[i])
  /\ \A i \in 1..(Len(s) - 1) : Apart(s[i], s[i + 1])

\* What is found so far can be spelled, and ends neither in text nor in an emphasis that the
\* next round could lengthen.
Open(spans, buf, rest) ==
  LET last == spans[Len(spans)] IN
  /\ Spells(spans)
  /\ spans # << >> =>
       /\ last.kind # "Text"
       /\ last.kind \in {"Bold", "Italic"} /\ buf = << >> /\ rest # << >> => rest[1] # "*"

\* A tree that can be spelled still can with a span that stays apart from its last, ...
LEMMA SpellsAppend ==
  ASSUME NEW S, NEW s \in Seq(SpanOf(S)), NEW x \in SpanOf(S), Spells(s), SpanSpells(x),
         s # << >> => Apart(s[Len(s)], x)
  PROVE  s \o <<x>> \in Seq(SpanOf(S)) /\ Spells(s \o <<x>>) /\ s \o <<x>> # << >>
         /\ (s \o <<x>>)[Len(s \o <<x>>)] = x
<1> DEFINE t == s \o <<x>>
           n == Len(s)
           I == SpanOf(S)
<1>1. x \in I /\ s \in Seq(I)
  OBVIOUS
<1> HIDE DEF I
<1>2. t = Append(s, x) /\ n \in Nat
  BY <1>1, AppendIsConcat, LenProperties
<1>3. t \in Seq(I) /\ Len(t) = n + 1 /\ t[n + 1] = x /\ \A i \in 1..n : t[i] = s[i]
  BY <1>1, <1>2, AppendProperties
<1>4. s # << >> <=> n # 0
  BY <1>1, EmptySeq
<1> HIDE DEF t
<1>5. t # << >>
  <2>1. Len(t) # 0
    BY <1>2, <1>3
  <2>2. QED
    BY <1>3, <2>1, EmptySeq
<1>6. ASSUME NEW i \in 1..Len(t) PROVE SpanSpells(t[i])
  <2>1. CASE i = n + 1
    BY <1>3, <2>1
  <2>2. CASE i # n + 1
    <3>1. i \in 1..n
      BY <1>2, <1>3, <2>2
    <3>2. SpanSpells(s[i])
      BY <3>1 DEF Spells, n
    <3>3. QED
      BY <1>3, <3>1, <3>2
  <2>3. QED
    BY <2>1, <2>2
<1>7. ASSUME NEW i \in 1..(Len(t) - 1) PROVE Apart(t[i], t[i + 1])
  <2>1. i \in 1..n
    BY <1>2, <1>3
  <2>2. CASE i = n
    <3>1. n # 0 /\ t[i] = s[n] /\ t[i + 1] = x
      BY <1>2, <1>3, <2>1, <2>2
    <3>2. QED
      BY <1>4, <3>1 DEF n
  <2>3. CASE i # n
    <3>1. i \in 1..(n - 1) /\ i + 1 \in 1..n
      BY <1>2, <2>1, <2>3
    <3>2. Apart(s[i], s[i + 1])
      BY <3>1 DEF Spells, n
    <3>3. QED
      BY <1>3, <2>1, <3>1, <3>2
  <2>4. QED
    BY <2>2, <2>3
<1>8. Spells(t)
  BY <1>6, <1>7 DEF Spells
<1>9. t[Len(t)] = x
  BY <1>3
<1>10. QED
  BY <1>3, <1>5, <1>8, <1>9 DEF t, I

\* ... and with the pending text.
LEMMA SpellsFlush ==
  ASSUME NEW S, NEW s \in Seq(SpanOf(S)), NEW buf \in Seq(S), Spells(s),
         s # << >> => s[Len(s)].kind # "Text"
  PROVE  /\ s \o Flush(buf) \in Seq(SpanOf(S)) /\ Spells(s \o Flush(buf))
         /\ buf = << >> => s \o Flush(buf) = s
         /\ buf # << >> => s \o Flush(buf) # << >>
                           /\ (s \o Flush(buf))[Len(s \o Flush(buf))] = Span("Text", buf)
<1>1. CASE buf = << >>
  <2>1. Flush(buf) = << >>
    BY <1>1 DEF Flush
  <2>2. s \o << >> = s
    BY ConcatEmptySeq
  <2>3. QED
    BY <1>1, <2>1, <2>2
<1>2. CASE buf # << >>
  <2> DEFINE x == Span("Text", buf)
  <2>1. x \in SpanOf(S) /\ x.kind = "Text" /\ x.body = buf
    BY DEF Span, SpanOf, Kinds
  <2>2. Flush(buf) = <<x>>
    BY <1>2 DEF Flush
  <2> HIDE DEF x
  <2>3. SpanSpells(x)
    BY <1>2, <2>1 DEF SpanSpells
  <2>4. s # << >> => Apart(s[Len(s)], x)
    BY <2>1 DEF Apart
  <2>5. s \o <<x>> \in Seq(SpanOf(S)) /\ Spells(s \o <<x>>) /\ s \o <<x>> # << >>
         /\ (s \o <<x>>)[Len(s \o <<x>>)] = x
    BY <2>1, <2>3, <2>4, SpellsAppend
  <2>6. QED
    BY <1>2, <2>2, <2>5 DEF x
<1>3. QED
  BY <1>1, <1>2

\* A round stays among the cursors, reads some of what is left, and keeps what is found
\* within what can be spelled.
LEMMA MarkdownRound ==
  ASSUME NEW S, MARKDOWN_ESCAPABLE \subseteq S,
         NEW spans \in Seq(SpanOf(S)), NEW buf \in Seq(S), NEW rest \in Seq(S), rest # << >>
  PROVE  \E s \in Seq(SpanOf(S)), b \in Seq(S), r \in Seq(S) :
           /\ ParseMarkdownRound(Cursor(spans, buf, rest)) = Cursor(s, b, r)
           /\ Len(r) < Len(rest)
           /\ Open(spans, buf, rest) => Open(s, b, r)
<1>1. Len(rest) \in Nat
  BY LenProperties
<1>2. ASSUME NEW c \in S, NEW r \in Seq(S), Open(spans, buf, rest)
      PROVE  Append(buf, c) \in Seq(S) /\ Open(spans, Append(buf, c), r)
  <2> DEFINE b == Append(buf, c)
  <2>1. b \in Seq(S) /\ Len(b) = Len(buf) + 1 /\ Len(buf) \in Nat
    BY AppendProperties, LenProperties
  <2>2. b # << >>
    <3>1. Len(b) # 0
      BY <2>1
    <3>2. QED
      BY <2>1, <3>1, EmptySeq
  <2> HIDE DEF b
  <2>3. Open(spans, b, r)
    BY <1>2, <2>2 DEF Open
  <2>4. QED
    BY <2>1, <2>3 DEF b
<1>3. CASE StartsEscape(rest)
  <2> DEFINE c == rest[2]
             r == Drop(rest, 2)
             b == Append(buf, c)
  <2>1. ParseMarkdownRound(Cursor(spans, buf, rest)) = Cursor(spans, b, r)
    BY <1>3, EscapeRound
  <2>2. c \in S /\ r \in Seq(S) /\ Len(r) = Len(rest) - 2
    BY <1>3, EmptySeq, EscapeReads
  <2> HIDE DEF r, c
  <2>3. b \in Seq(S) /\ (Open(spans, buf, rest) => Open(spans, b, r))
    BY <1>2, <2>2, AppendProperties
  <2>4. Len(r) < Len(rest)
    BY <1>1, <2>2
  <2>5. QED
    BY <2>1, <2>2, <2>3, <2>4
<1>4. CASE ~ StartsEscape(rest) /\ TryMatchMarkdown(rest) = NoMatch
  <2> DEFINE c == rest[1]
             r == Tail(rest)
             b == Append(buf, c)
  <2>1. ParseMarkdownRound(Cursor(spans, buf, rest)) = Cursor(spans, b, r)
    BY <1>4, PlainRound
  <2>2. c \in S /\ r \in Seq(S) /\ Len(r) = Len(rest) - 1
    BY HeadApart, HeadTailProperties
  <2> HIDE DEF r, c
  <2>3. b \in Seq(S) /\ (Open(spans, buf, rest) => Open(spans, b, r))
    BY <1>2, <2>2, AppendProperties
  <2>4. Len(r) < Len(rest)
    BY <1>1, <2>2
  <2>5. QED
    BY <2>1, <2>2, <2>3, <2>4
<1>5. CASE ~ StartsEscape(rest) /\ TryMatchMarkdown(rest) # NoMatch
  <2>1. PICK kind \in TagKinds, body \in Seq(S), r \in Seq(S), n \in Nat :
           /\ TryMatchMarkdown(rest) = [span |-> Span(kind, body), consumed |-> n]
           /\ Drop(rest, n) = r
           /\ Runs3(rest, kind, body, r)
    BY <1>5, RunFound
  <2> DEFINE x == Span(kind, body)
             done == spans \o Flush(buf)
             s == done \o <<x>>
  <2>2. x \in SpanOf(S) /\ x.kind = kind /\ kind # "Text"
    BY DEF Span, SpanOf, Kinds, TagKinds
  <2>3. ParseMarkdownRound(Cursor(spans, buf, rest)) = Cursor(s, << >>, r)
    BY <1>5, <2>1, RunRound
  <2>4. SpanSpells(x) /\ Len(r) < Len(rest)
        /\ (kind \in {"Bold", "Italic"} => rest[1] = "*" /\ (r # << >> => r[1] # "*"))
    BY <2>1 DEF Runs3
  <2>5. << >> \in Seq(S)
    BY EmptySeq
  <2> HIDE DEF x
  <2>6. Flush(buf) \in Seq(SpanOf(S)) /\ <<x>> \in Seq(SpanOf(S))
    BY <2>2, FlushType
  <2>7. s \in Seq(SpanOf(S))
    <3>1. done \in Seq(SpanOf(S))
      BY <2>6, ConcatProperties
    <3> HIDE DEF done
    <3>2. QED
      BY <2>6, <3>1, ConcatProperties
  <2>8. ASSUME Open(spans, buf, rest) PROVE Open(s, << >>, r)
    <3>1. /\ Spells(spans)
          /\ spans # << >> =>
               /\ spans[Len(spans)].kind # "Text"
               /\ spans[Len(spans)].kind \in {"Bold", "Italic"} /\ buf = << >> => rest[1] # "*"
      BY <2>8 DEF Open
    <3>2. /\ done \in Seq(SpanOf(S)) /\ Spells(done)
          /\ buf = << >> => done = spans
          /\ buf # << >> => done # << >> /\ done[Len(done)] = Span("Text", buf)
      BY <3>1, SpellsFlush
    <3> HIDE DEF done
    <3>3. done # << >> => Apart(done[Len(done)], x)
      <4>1. CASE buf = << >>
        BY <2>2, <2>4, <3>1, <3>2, <4>1 DEF Apart
      <4>2. CASE buf # << >>
        <5>1. done[Len(done)].kind = "Text"
          BY <3>2, <4>2 DEF Span
        <5>2. QED
          BY <2>2, <5>1 DEF Apart
      <4>3. QED
        BY <4>1, <4>2
    <3>4. Spells(s) /\ s # << >> /\ s[Len(s)] = x
      BY <2>2, <2>4, <3>2, <3>3, SpellsAppend
    <3> HIDE DEF s
    <3>5. QED
      BY <2>2, <2>4, <3>4 DEF Open
  <2>9. QED
    BY <2>3, <2>4, <2>5, <2>7, <2>8
<1>6. QED
  BY <1>3, <1>4, <1>5

------------------------------------------------------------------------------
(***************************************************************************)
(* The parsers as loops that end.                                          *)
(***************************************************************************)

\* The loop of parse_markdown, by where it ends.
LEMMA MarkdownTame ==
  ASSUME NEW S, MARKDOWN_ESCAPABLE \subseteq S
  PROVE  /\ Tame(Cursors(S), MarkdownStep(S), MarkdownSize(S))
         /\ MarkdownStep(S) \in [Cursors(S) -> Cursors(S)]
<1> DEFINE A == Cursors(S)
           step == MarkdownStep(S)
           size == MarkdownSize(S)
<1>1. \A at \in A : step[at] = ParseMarkdownRound(at) /\ size[at] = Len(at.rest)
  BY DEF MarkdownStep, MarkdownSize
<1>2. step = [at \in A |-> step[at]] /\ size = [at \in A |-> size[at]]
  BY DEF MarkdownStep, MarkdownSize
<1> HIDE DEF step, size
<1>3. ASSUME NEW at \in A
      PROVE  /\ ParseMarkdownRound(at) \in A /\ Len(at.rest) \in Nat
             /\ Len(at.rest) = 0 => ParseMarkdownRound(at) = at
             /\ Len(at.rest) # 0 => Len(ParseMarkdownRound(at).rest) < Len(at.rest)
  <2>1. PICK spans \in Seq(SpanOf(S)), buf \in Seq(S), rest \in Seq(S) : at = Cursor(spans, buf, rest)
    BY DEF Cursors, Cursor
  <2>2. at.rest = rest /\ Len(rest) \in Nat /\ (rest = << >> <=> Len(rest) = 0)
    BY <2>1, CursorParts, LenProperties, EmptySeq
  <2>3. CASE rest = << >>
    BY <2>2, <2>3 DEF ParseMarkdownRound
  <2>4. CASE rest # << >>
    <3>1. PICK s \in Seq(SpanOf(S)), b \in Seq(S), r \in Seq(S) :
             ParseMarkdownRound(Cursor(spans, buf, rest)) = Cursor(s, b, r) /\ Len(r) < Len(rest)
      BY <2>4, MarkdownRound
    <3>2. ParseMarkdownRound(at) \in A
      BY <2>1, <3>1, CursorType
    <3>3. ParseMarkdownRound(at).rest = r
      BY <2>1, <3>1, CursorParts
    <3>4. QED
      BY <2>2, <2>4, <3>1, <3>2, <3>3
  <2>5. QED
    BY <2>3, <2>4
<1>4. \A at \in A : step[at] \in A /\ size[at] \in Nat
  BY <1>1, <1>3
<1>5. step \in [A -> A] /\ size \in [A -> Nat]
  BY <1>2, <1>4
<1>6. \A at \in A : size[at] = 0 => step[at] = at
  BY <1>1, <1>3
<1>7. \A at \in A : size[at] # 0 => size[step[at]] < size[at]
  <2>1. SUFFICES ASSUME NEW at \in A, size[at] # 0 PROVE size[step[at]] < size[at]
    OBVIOUS
  <2>2. step[at] \in A
    BY <1>4
  <2>3. size[step[at]] = Len(step[at].rest)
    BY <1>1, <2>2
  <2>4. QED
    BY <1>1, <1>3, <2>1, <2>3
<1>8. QED
  BY <1>5, <1>6, <1>7 DEF Tame, A, step, size

\* parse_markdown gives what its loop ends with.
LEMMA MarkdownEnds ==
  ASSUME NEW S, MARKDOWN_ESCAPABLE \subseteq S
  PROVE  \E e : /\ Ends(e, Cursors(S), MarkdownStep(S), MarkdownSize(S))
                /\ \A input \in Seq(S) :
                     LET end == e[Cursor(<< >>, << >>, input)]
                     IN ParseMarkdown(input) = end.spans \o Flush(end.buf)
<1> DEFINE A == Cursors(S)
           step == MarkdownStep(S)
           size == MarkdownSize(S)
<1>1. Tame(A, step, size) /\ step \in [A -> A]
  BY MarkdownTame
<1>2. PICK e : /\ Ends(e, A, step, size)
               /\ \A a \in A : \A n \in Nat : \A f :
                    Follows(f, A, a, step, n) /\ size[a] <= n => f[n] = e[a]
  BY <1>1, LoopEnds
<1>3. ASSUME NEW input \in Seq(S)
      PROVE  LET end == e[Cursor(<< >>, << >>, input)]
             IN ParseMarkdown(input) = end.spans \o Flush(end.buf)
  <2> DEFINE n == Len(input)
             first == Cursor(<< >>, << >>, input)
             Def(f) == [k \in 0..n |-> IF k = 0 THEN first ELSE ParseMarkdownRound(f[k - 1])]
             at == CHOOSE f : f = Def(f)
  <2>1. n \in Nat /\ first \in A /\ first.rest = input
    <3>1. n \in Nat
      BY LenProperties
    <3>2. first \in A
      BY EmptySeq, CursorType
    <3>3. first.rest = input
      BY CursorParts
    <3> HIDE DEF first
    <3>4. QED
      BY <3>1, <3>2, <3>3
  <2>2. ParseMarkdown(input) = at[n].spans \o Flush(at[n].buf)
    BY DEF ParseMarkdown
  <2>3. \A a \in A : step[a] = ParseMarkdownRound(a)
    BY DEF MarkdownStep
  <2> HIDE DEF first
  <2>4. size[first] = n
    BY <2>1 DEF MarkdownSize
  <2> HIDE DEF n, A, step, size
  <2>5. PICK g : Follows(g, A, first, step, n)
    BY <1>1, <2>1, LoopFollows
  <2>6. g \in [0..n -> A] /\ g[0] = first /\ \A k \in 1..n : g[k] = step[g[k - 1]]
    BY <2>5 DEF Follows
  <2>7. g = Def(g)
    <3>1. ASSUME NEW k \in 0..n PROVE g[k] = Def(g)[k]
      <4>1. CASE k = 0
        BY <2>6, <4>1
      <4>2. CASE k # 0
        <5>1. k \in 1..n /\ k - 1 \in 0..n
          BY <2>1, <4>2
        <5>2. g[k - 1] \in A
          BY <2>6, <5>1
        <5>3. g[k] = ParseMarkdownRound(g[k - 1])
          BY <2>3, <2>6, <5>1, <5>2
        <5>4. QED
          BY <4>2, <5>3
      <4>3. QED
        BY <4>1, <4>2
    <3>2. g = [k \in 0..n |-> g[k]] /\ Def(g) = [k \in 0..n |-> Def(g)[k]]
      BY <2>6
    <3> HIDE DEF Def
    <3>3. QED
      BY <3>1, <3>2
  <2>8. at = Def(at)
    <3> HIDE DEF Def
    <3>1. QED
      BY <2>7
  <2> HIDE DEF at
  <2>9. GoesOn(at, A, first, step, n)
    <3>1. at = [k \in 0..n |-> at[k]] /\ at[0] = first
      BY <2>1, <2>8
    <3>2. ASSUME NEW k \in 1..n, at[k - 1] \in A PROVE at[k] = step[at[k - 1]]
      <4>1. k \in 0..n /\ k # 0
        OBVIOUS
      <4>2. at[k] = ParseMarkdownRound(at[k - 1])
        BY <2>8, <4>1
      <4>3. QED
        BY <2>3, <3>2, <4>2
    <3>3. QED
      BY <3>1, <3>2 DEF GoesOn
  <2>10. Follows(at, A, first, step, n)
    BY <1>1, <2>1, <2>9, LoopFollowed
  <2>11. at[n] = e[first]
    <3>1. size[first] <= n
      BY <2>1, <2>4
    <3>2. QED
      BY <1>2, <2>1, <2>10, <3>1
  <2>12. QED
    BY <2>2, <2>11 DEF first
<1>4. QED
  BY <1>2, <1>3

\* A round of parse, ...
HtmlStep(S) == [at \in Cursors(S) |-> ParseRound(at)]
\* ... and what is left to read.
HtmlSize(S) == [at \in Cursors(S) |-> Len(at.rest)]

\* The loop of parse, by where it ends.
LEMMA HtmlTame ==
  ASSUME NEW S, Tags \subseteq S
  PROVE  /\ Tame(Cursors(S), HtmlStep(S), HtmlSize(S))
         /\ HtmlStep(S) \in [Cursors(S) -> Cursors(S)]
<1> DEFINE A == Cursors(S)
           step == HtmlStep(S)
           size == HtmlSize(S)
<1>1. \A at \in A : step[at] = ParseRound(at) /\ size[at] = Len(at.rest)
  BY DEF HtmlStep, HtmlSize
<1>2. step = [at \in A |-> step[at]] /\ size = [at \in A |-> size[at]]
  BY DEF HtmlStep, HtmlSize
<1> HIDE DEF step, size
<1>3. ASSUME NEW at \in A
      PROVE  /\ ParseRound(at) \in A /\ Len(at.rest) \in Nat
             /\ Len(at.rest) = 0 => ParseRound(at) = at
             /\ Len(at.rest) # 0 => Len(ParseRound(at).rest) < Len(at.rest)
  <2>1. /\ ParseRound(at) \in Cursors(S)
        /\ at.rest # << >> => Len(ParseRound(at).rest) < Len(at.rest)
        /\ at.rest = << >> => ParseRound(at) = at
    BY RoundKeepsText
  <2>2. at.rest \in Seq(S)
    BY DEF Cursors
  <2>3. QED
    BY <2>1, <2>2, LenProperties, EmptySeq
<1>4. \A at \in A : step[at] \in A /\ size[at] \in Nat
  BY <1>1, <1>3
<1>5. step \in [A -> A] /\ size \in [A -> Nat]
  BY <1>2, <1>4
<1>6. \A at \in A : size[at] = 0 => step[at] = at
  BY <1>1, <1>3
<1>7. \A at \in A : size[at] # 0 => size[step[at]] < size[at]
  <2>1. SUFFICES ASSUME NEW at \in A, size[at] # 0 PROVE size[step[at]] < size[at]
    OBVIOUS
  <2>2. step[at] \in A
    BY <1>4
  <2>3. size[step[at]] = Len(step[at].rest)
    BY <1>1, <2>2
  <2>4. QED
    BY <1>1, <1>3, <2>1, <2>3
<1>8. QED
  BY <1>5, <1>6, <1>7 DEF Tame, A, step, size

\* parse gives what its loop ends with.
LEMMA HtmlEnds ==
  ASSUME NEW S, Tags \subseteq S
  PROVE  \E e : /\ Ends(e, Cursors(S), HtmlStep(S), HtmlSize(S))
                /\ \A input \in Seq(S) :
                     LET end == e[Cursor(<< >>, << >>, input)]
                     IN Parse(input) = end.spans \o Flush(end.buf)
<1> DEFINE A == Cursors(S)
           step == HtmlStep(S)
           size == HtmlSize(S)
<1>1. Tame(A, step, size) /\ step \in [A -> A]
  BY HtmlTame
<1>2. PICK e : /\ Ends(e, A, step, size)
               /\ \A a \in A : \A n \in Nat : \A f :
                    Follows(f, A, a, step, n) /\ size[a] <= n => f[n] = e[a]
  BY <1>1, LoopEnds
<1>3. ASSUME NEW input \in Seq(S)
      PROVE  LET end == e[Cursor(<< >>, << >>, input)]
             IN Parse(input) = end.spans \o Flush(end.buf)
  <2> DEFINE n == Len(input)
             first == Cursor(<< >>, << >>, input)
             Def(f) == [k \in 0..n |-> IF k = 0 THEN first ELSE ParseRound(f[k - 1])]
             at == CHOOSE f : f = Def(f)
  <2>1. n \in Nat /\ first \in A /\ first.rest = input
    <3>1. n \in Nat
      BY LenProperties
    <3>2. first \in A
      BY EmptySeq, CursorType
    <3>3. first.rest = input
      BY CursorParts
    <3> HIDE DEF first
    <3>4. QED
      BY <3>1, <3>2, <3>3
  <2>2. Parse(input) = at[n].spans \o Flush(at[n].buf)
    BY DEF Parse
  <2>3. \A a \in A : step[a] = ParseRound(a)
    BY DEF HtmlStep
  <2> HIDE DEF first
  <2>4. size[first] = n
    BY <2>1 DEF HtmlSize
  <2> HIDE DEF n, A, step, size
  <2>5. PICK g : Follows(g, A, first, step, n)
    BY <1>1, <2>1, LoopFollows
  <2>6. g \in [0..n -> A] /\ g[0] = first /\ \A k \in 1..n : g[k] = step[g[k - 1]]
    BY <2>5 DEF Follows
  <2>7. g = Def(g)
    <3>1. ASSUME NEW k \in 0..n PROVE g[k] = Def(g)[k]
      <4>1. CASE k = 0
        BY <2>6, <4>1
      <4>2. CASE k # 0
        <5>1. k \in 1..n /\ k - 1 \in 0..n
          BY <2>1, <4>2
        <5>2. g[k - 1] \in A
          BY <2>6, <5>1
        <5>3. g[k] = ParseRound(g[k - 1])
          BY <2>3, <2>6, <5>1, <5>2
        <5>4. QED
          BY <4>2, <5>3
      <4>3. QED
        BY <4>1, <4>2
    <3>2. g = [k \in 0..n |-> g[k]] /\ Def(g) = [k \in 0..n |-> Def(g)[k]]
      BY <2>6
    <3> HIDE DEF Def
    <3>3. QED
      BY <3>1, <3>2
  <2>8. at = Def(at)
    <3> HIDE DEF Def
    <3>1. QED
      BY <2>7
  <2> HIDE DEF at
  <2>9. GoesOn(at, A, first, step, n)
    <3>1. at = [k \in 0..n |-> at[k]] /\ at[0] = first
      BY <2>1, <2>8
    <3>2. ASSUME NEW k \in 1..n, at[k - 1] \in A PROVE at[k] = step[at[k - 1]]
      <4>1. k \in 0..n /\ k # 0
        OBVIOUS
      <4>2. at[k] = ParseRound(at[k - 1])
        BY <2>8, <4>1
      <4>3. QED
        BY <2>3, <3>2, <4>2
    <3>3. QED
      BY <3>1, <3>2 DEF GoesOn
  <2>10. Follows(at, A, first, step, n)
    BY <1>1, <2>1, <2>9, LoopFollowed
  <2>11. at[n] = e[first]
    <3>1. size[first] <= n
      BY <2>1, <2>4
    <3>2. QED
      BY <1>2, <2>1, <2>10, <3>1
  <2>12. QED
    BY <2>2, <2>11 DEF first
<1>4. QED
  BY <1>2, <1>3

\* Whatever is parsed as markdown can be spelled.
LEMMA ParsedSpells ==
  ASSUME NEW S, MARKDOWN_ESCAPABLE \subseteq S, NEW input \in Seq(S)
  PROVE  ParseMarkdown(input) \in Seq(SpanOf(S)) /\ Spells(ParseMarkdown(input))
<1> DEFINE A == Cursors(S)
           step == MarkdownStep(S)
           size == MarkdownSize(S)
           first == Cursor(<< >>, << >>, input)
           I == {at \in A : Open(at.spans, at.buf, at.rest)}
<1>1. PICK e : /\ Ends(e, A, step, size)
               /\ \A t \in Seq(S) : LET end == e[Cursor(<< >>, << >>, t)]
                                    IN ParseMarkdown(t) = end.spans \o Flush(end.buf)
  BY MarkdownEnds
<1>2. Tame(A, step, size)
  BY MarkdownTame
<1>3. first \in I
  <2>1. first \in A
    BY EmptySeq, CursorType
  <2>2. first.spans = << >> /\ first.buf = << >> /\ first.rest = input
    BY CursorParts
  <2> HIDE DEF first
  <2>3. Spells(<< >>)
    BY DEF Spells
  <2>4. QED
    BY <2>1, <2>2, <2>3 DEF Open
<1>4. ASSUME NEW at \in I, size[at] # 0 PROVE step[at] \in I
  <2>1. PICK spans \in Seq(SpanOf(S)), buf \in Seq(S), rest \in Seq(S) :
           at = Cursor(spans, buf, rest) /\ at.spans = spans /\ at.buf = buf /\ at.rest = rest
    BY DEF Cursors, Cursor
  <2>2. at \in A /\ Open(spans, buf, rest) /\ size[at] = Len(rest) /\ step[at] = ParseMarkdownRound(at)
    BY <2>1 DEF MarkdownSize, MarkdownStep
  <2>3. rest # << >>
    BY <1>4, <2>2, EmptySeq
  <2>4. PICK s \in Seq(SpanOf(S)), b \in Seq(S), r \in Seq(S) :
           ParseMarkdownRound(Cursor(spans, buf, rest)) = Cursor(s, b, r) /\ Open(s, b, r)
    BY <2>2, <2>3, MarkdownRound
  <2>5. Cursor(s, b, r) \in A
    BY CursorType
  <2>6. Cursor(s, b, r).spans = s /\ Cursor(s, b, r).buf = b /\ Cursor(s, b, r).rest = r
    BY CursorParts
  <2>7. step[at] = Cursor(s, b, r)
    BY <2>1, <2>2, <2>4
  <2>8. QED
    BY <2>4, <2>5, <2>6, <2>7
<1>5. I \in SUBSET A
  OBVIOUS
<1>6. ParseMarkdown(input) = e[first].spans \o Flush(e[first].buf)
  BY <1>1
<1> HIDE DEF I, first, A, step, size
<1>7. e[first] \in I
  BY <1>1, <1>2, <1>3, <1>4, <1>5, LoopKeeps
<1> DEFINE end == e[first]
           spans == end.spans
           buf == end.buf
<1>8. spans \in Seq(SpanOf(S)) /\ buf \in Seq(S) /\ Open(spans, buf, end.rest)
  BY <1>7 DEF I, A, Cursors
<1>9. ParseMarkdown(input) = spans \o Flush(buf)
  BY <1>6
<1> HIDE DEF end, spans, buf
<1>10. Spells(spans) /\ (spans # << >> => spans[Len(spans)].kind # "Text")
  BY <1>8 DEF Open
<1>11. QED
  BY <1>8, <1>9, <1>10, SpellsFlush

------------------------------------------------------------------------------
(***************************************************************************)
(* A parser that reads every piece back reads every tree back.             *)
(***************************************************************************)

\* What can be spelled can be spelled from any of its spans on.
LEMMA SpellsCons ==
  ASSUME NEW I, NEW x \in I, NEW s \in Seq(I), Spells(<<x>> \o s)
  PROVE  SpanSpells(x) /\ Spells(s) /\ (s # << >> => Apart(x, s[1]))
<1> DEFINE one == <<x>>
           t == one \o s
           n == Len(s)
<1>1. one \in Seq(I) /\ Len(one) = 1 /\ one[1] = x /\ n \in Nat
  BY LenProperties
<1> HIDE DEF one
<1>2. /\ t \in Seq(I) /\ Len(t) = 1 + n
      /\ \A i \in 1..(1 + n) : t[i] = IF i <= 1 THEN one[i] ELSE s[i - 1]
  <2>1. /\ t \in Seq(I) /\ Len(t) = Len(one) + Len(s)
        /\ \A i \in 1..(Len(one) + Len(s)) :
             t[i] = IF i <= Len(one) THEN one[i] ELSE s[i - Len(one)]
    BY <1>1, ConcatProperties
  <2> HIDE DEF t
  <2>2. QED
    BY <1>1, <2>1
<1>3. Spells(t)
  BY DEF one
<1> HIDE DEF t
<1>4. t[1] = x /\ \A i \in 1..n : t[i + 1] = s[i]
  <2>1. 1 \in 1..(1 + n) /\ 1 <= 1
    BY <1>1
  <2>2. t[1] = x
    BY <1>1, <1>2, <2>1
  <2>3. ASSUME NEW i \in 1..n PROVE t[i + 1] = s[i]
    <3>1. i + 1 \in 1..(1 + n) /\ ~ (i + 1 <= 1) /\ (i + 1) - 1 = i
      BY <1>1
    <3>2. QED
      BY <1>2, <3>1
  <2>4. QED
    BY <2>2, <2>3
<1>5. /\ \A i \in 1..(1 + n) : SpanSpells(t[i])
      /\ \A i \in 1..n : Apart(t[i], t[i + 1])
  <2>1. Len(t) - 1 = n
    BY <1>1, <1>2
  <2>2. QED
    BY <1>2, <1>3, <2>1 DEF Spells
<1>6. SpanSpells(x)
  <2>1. 1 \in 1..(1 + n)
    BY <1>1
  <2>2. QED
    BY <1>4, <1>5, <2>1
<1>7. Spells(s)
  <2>1. ASSUME NEW i \in 1..n PROVE SpanSpells(s[i])
    <3>1. i + 1 \in 1..(1 + n)
      BY <1>1
    <3>2. QED
      BY <1>4, <1>5, <3>1
  <2>2. ASSUME NEW i \in 1..(n - 1) PROVE Apart(s[i], s[i + 1])
    <3>1. i \in 1..n /\ i + 1 \in 1..n
      BY <1>1
    <3>2. t[i + 1] = s[i] /\ t[(i + 1) + 1] = s[i + 1]
      BY <1>4, <3>1
    <3>3. Apart(t[i + 1], t[(i + 1) + 1])
      BY <1>5, <3>1
    <3>4. QED
      BY <3>2, <3>3
  <2>3. QED
    BY <2>1, <2>2 DEF Spells
<1>8. ASSUME s # << >> PROVE Apart(x, s[1])
  <2>1. 1 \in 1..n
    BY <1>1, <1>8, EmptySeq
  <2>2. t[1] = x /\ t[1 + 1] = s[1]
    BY <1>4, <2>1
  <2>3. Apart(t[1], t[1 + 1])
    BY <1>5, <2>1
  <2>4. QED
    BY <2>2, <2>3
<1>9. QED
  BY <1>6, <1>7, <1>8

\* A parser, by the ends e of its loop, that reads each span of I as that span, if what
\* follows is among those that Sep allows after it.
ReadsBack(e, S, I, piece, Sep) ==
  /\ \A done \in Seq(SpanOf(S)), buf \in Seq(S) :
       e[Cursor(done, buf, << >>)] = Cursor(done, buf, << >>)
  /\ \A done \in Seq(SpanOf(S)), buf \in Seq(S), x \in I, more \in Seq(S) :
       x.kind = "Text" =>
         e[Cursor(done, buf, piece[x] \o more)] = e[Cursor(done, buf \o x.body, more)]
  /\ \A done \in Seq(SpanOf(S)), buf \in Seq(S), x \in I, more \in Seq(S) :
       x.kind # "Text" /\ SpanSpells(x) /\ <<x, more>> \in Sep =>
         e[Cursor(done, buf, piece[x] \o more)]
           = e[Cursor(done \o Flush(buf) \o <<x>>, << >>, more)]
  /\ \A x \in I, s \in Seq(I) : Spells(<<x>> \o s) => <<x, Pieced(s, piece)>> \in Sep

\* It reads a text as a tree.
ReadsTree(e, said, spans) ==
  e[Cursor(<< >>, << >>, said)].spans \o Flush(e[Cursor(<< >>, << >>, said)].buf) = spans

\* Such a parser reads every tree that can be spelled back.
LEMMA TreeReadsBack ==
  ASSUME NEW S, NEW I \in SUBSET SpanOf(S), NEW piece \in Writers(I, S), NEW Sep, NEW e,
         ReadsBack(e, S, I, piece, Sep), NEW spans \in Seq(I), Spells(spans)
  PROVE  ReadsTree(e, Pieced(spans, piece), spans)
<1> DEFINE A == SpanOf(S)
           R(s) == Pieced(s, piece)
           End(done, buf, rest) == e[Cursor(done, buf, rest)].spans \o Flush(e[Cursor(done, buf, rest)].buf)
           Fits(buf, s) == buf # << >> /\ s # << >> => s[1].kind # "Text"
           Back(s) == \A done \in Seq(A), buf \in Seq(S) :
                        Fits(buf, s) => End(done, buf, R(s)) = done \o Flush(buf) \o s
           T == {s \in Seq(I) : Spells(s) => Back(s)}
<1>1. Seq(I) \subseteq Seq(A)
  <2>1. SUFFICES ASSUME NEW s \in Seq(I) PROVE s \in Seq(A)
    OBVIOUS
  <2>2. \A i \in 1..Len(s) : s[i] \in A
    BY ElementOfSeq
  <2>3. Len(s) \in Nat /\ s = [i \in 1..Len(s) |-> s[i]]
    BY LenProperties
  <2>4. s \in [1..Len(s) -> A]
    BY <2>2, <2>3
  <2>5. QED
    BY <2>3, <2>4, SeqDef
<1>2. /\ << >> \in Seq(S) /\ << >> \in Seq(A) /\ << >> \in Seq(I) /\ Flush(<< >>) = << >>
      /\ R(<< >>) = << >>
  BY EmptySeq, PiecedEmpty DEF Flush
<1>3. \A buf \in Seq(S) : Flush(buf) \in Seq(A)
  BY FlushType
<1>4. << >> \in T
  <2>1. ASSUME NEW done \in Seq(A), NEW buf \in Seq(S)
        PROVE  End(done, buf, R(<< >>)) = done \o Flush(buf) \o << >>
    <3>1. e[Cursor(done, buf, << >>)] = Cursor(done, buf, << >>)
      BY DEF ReadsBack
    <3>2. Cursor(done, buf, << >>).spans = done /\ Cursor(done, buf, << >>).buf = buf
      BY CursorParts
    <3>3. End(done, buf, << >>) = done \o Flush(buf)
      BY <3>1, <3>2
    <3>4. done \o Flush(buf) \in Seq(A)
      BY <1>3, ConcatProperties
    <3>5. (done \o Flush(buf)) \o << >> = done \o Flush(buf)
      BY <3>4, ConcatEmptySeq
    <3>6. QED
      BY <1>2, <3>3, <3>5
  <2> HIDE DEF End, R
  <2>2. QED
    BY <1>2, <2>1
<1>5. ASSUME NEW s \in Seq(I), NEW x \in I, s \in T PROVE <<x>> \o s \in T
  <2> DEFINE t == <<x>> \o s
             more == R(s)
  <2>1. x \in A /\ <<x>> \in Seq(I) /\ <<x>> \in Seq(A) /\ s \in Seq(A)
    BY <1>1
  <2>2. t \in Seq(I) /\ t[1] = x /\ t # << >>
    <3> DEFINE one == <<x>>
    <3>1. one \in Seq(I) /\ Len(one) = 1 /\ one[1] = x /\ Len(s) \in Nat
      BY <2>1, LenProperties
    <3> HIDE DEF one
    <3>2. /\ one \o s \in Seq(I) /\ Len(one \o s) = Len(one) + Len(s)
          /\ \A i \in 1..(Len(one) + Len(s)) :
               (one \o s)[i] = IF i <= Len(one) THEN one[i] ELSE s[i - Len(one)]
      BY <3>1, ConcatProperties
    <3>3. 1 \in 1..(Len(one) + Len(s)) /\ 1 <= Len(one) /\ Len(one \o s) # 0
      BY <3>1, <3>2
    <3>4. (one \o s)[1] = x
      BY <3>1, <3>2, <3>3
    <3>5. one \o s # << >>
      BY <3>2, <3>3, EmptySeq
    <3>6. QED
      BY <3>2, <3>4, <3>5 DEF one
  <2>3. R(t) = piece[x] \o more /\ more \in Seq(S)
    <3>1. Pieced(t, piece) = Pieced(<<x>>, piece) \o Pieced(s, piece)
      BY <2>1, PiecedConcat
    <3>2. Pieced(<<x>>, piece) = piece[x]
      BY PiecedOne
    <3>3. Pieced(s, piece) \in Seq(S)
      BY PiecesOf
    <3>4. QED
      BY <3>1, <3>2, <3>3
  <2>4. ASSUME Spells(t) PROVE Back(t)
    <3>1. SpanSpells(x) /\ Spells(s) /\ (s # << >> => Apart(x, s[1]))
      BY <2>4, SpellsCons
    <3>2. Back(s)
      BY <1>5, <3>1
    <3>3. <<x, more>> \in Sep
      BY <2>4 DEF ReadsBack
    <3>4. ASSUME NEW done \in Seq(A), NEW buf \in Seq(S), Fits(buf, t)
          PROVE  End(done, buf, R(t)) = done \o Flush(buf) \o t
      <4> HIDE DEF R, T, t
      <4>1. CASE x.kind = "Text"
        <5>1. buf = << >>
          BY <2>2, <3>4, <4>1
        <5> DEFINE body == x.body
        <5>2. body \in Seq(S) /\ x = Span("Text", body) /\ body # << >>
          BY <2>1, <3>1, <4>1 DEF SpanOf, Span, SpanSpells
        <5> HIDE DEF body
        <5>3. Flush(body) = <<x>> /\ buf \o body = body
          BY <5>1, <5>2, ConcatEmptySeq DEF Flush
        <5>4. e[Cursor(done, buf, piece[x] \o more)] = e[Cursor(done, buf \o body, more)]
          BY <2>3, <4>1 DEF ReadsBack, body
        <5>5. e[Cursor(done, buf, R(t))] = e[Cursor(done, body, more)]
          BY <2>3, <5>3, <5>4
        <5>6. End(done, buf, R(t)) = End(done, body, more)
          BY <5>5
        <5>7. Fits(body, s)
          BY <3>1, <4>1 DEF Apart
        <5>8. End(done, body, more) = done \o Flush(body) \o s
          BY <3>2, <5>2, <5>7
        <5>9. (done \o <<x>>) \o s = done \o (<<x>> \o s)
          BY <2>1, ConcatAssociative
        <5>10. done \o Flush(buf) = done
          BY <1>2, <5>1, ConcatEmptySeq
        <5> HIDE DEF End, more
        <5>11. QED
          BY <5>3, <5>6, <5>8, <5>9, <5>10 DEF t
      <4>2. CASE x.kind # "Text"
        <5> DEFINE before == done \o Flush(buf)
                   now == before \o <<x>>
        <5>1. before \in Seq(A)
          BY <1>3, ConcatProperties
        <5>2. e[Cursor(done, buf, piece[x] \o more)] = e[Cursor(now, << >>, more)]
          BY <2>3, <3>1, <3>3, <4>2 DEF ReadsBack
        <5> HIDE DEF before
        <5>3. now \in Seq(A)
          BY <2>1, <5>1, ConcatProperties
        <5> HIDE DEF now
        <5>4. End(done, buf, R(t)) = End(now, << >>, more)
          BY <2>3, <5>2
        <5>5. Fits(<< >>, s)
          OBVIOUS
        <5>6. End(now, << >>, more) = now \o Flush(<< >>) \o s
          BY <1>2, <3>2, <5>3, <5>5
        <5>7. now \o << >> = now
          BY <5>3, ConcatEmptySeq
        <5>8. (before \o <<x>>) \o s = before \o (<<x>> \o s)
          BY <2>1, <5>1, ConcatAssociative
        <5> HIDE DEF End, more
        <5>9. QED
          BY <1>2, <5>4, <5>6, <5>7, <5>8 DEF t, now, before
      <4>3. QED
        BY <4>1, <4>2
    <3> HIDE DEF End, R, t, Fits
    <3>5. QED
      BY <3>4
  <2> HIDE DEF Back, t
  <2>5. QED
    BY <2>2, <2>4 DEF t
<1> HIDE DEF T
<1>6. \A s \in Seq(I) : s \in T
  BY <1>2, <1>4, <1>5, ConsInduction
<1>7. Back(spans)
  BY <1>6 DEF T
<1>8. Fits(<< >>, spans)
  OBVIOUS
<1>9. End(<< >>, << >>, R(spans)) = << >> \o Flush(<< >>) \o spans
  <2> HIDE DEF End, R, Fits
  <2>1. QED
    BY <1>2, <1>7, <1>8
<1>10. << >> \o << >> = << >> /\ << >> \o spans = spans
  BY <1>2, ConcatEmptySeq
<1>11. QED
  BY <1>2, <1>9, <1>10 DEF ReadsTree

------------------------------------------------------------------------------
(***************************************************************************)
(* The way back from the HTML subset.                                      *)
(***************************************************************************)

\* One round of a loop over cursors, by its end.
LEMMA HtmlStepEnds ==
  ASSUME NEW S, Tags \subseteq S, NEW e, Ends(e, Cursors(S), HtmlStep(S), HtmlSize(S)),
         NEW spans \in Seq(SpanOf(S)), NEW buf \in Seq(S), NEW rest \in Seq(S)
  PROVE  LET at == Cursor(spans, buf, rest)
         IN /\ rest = << >> => e[at] = at
            /\ rest # << >> => e[at] = e[ParseRound(at)]
<1> DEFINE at == Cursor(spans, buf, rest)
           size == HtmlSize(S)
           step == HtmlStep(S)
<1>1. at \in Cursors(S)
  BY CursorType
<1>2. at.rest = rest
  BY CursorParts
<1> HIDE DEF at
<1>3. size[at] = Len(rest) /\ step[at] = ParseRound(at)
  BY <1>1, <1>2 DEF HtmlSize, HtmlStep
<1> HIDE DEF size, step
<1>4. (size[at] = 0 => e[at] = at) /\ (size[at] # 0 => e[at] = e[step[at]])
  BY <1>1 DEF Ends, size, step
<1>5. QED
  BY <1>3, <1>4, EmptySeq DEF at

\* The index of a sequence that is put together of four.
LEMMA FourParts ==
  ASSUME NEW S, NEW a \in S, NEW body \in Seq(S), NEW b \in S, NEW after \in Seq(S)
  PROVE  LET rest == (<<a>> \o body \o <<b>>) \o after
             n == Len(body)
         IN /\ rest \in Seq(S) /\ rest # << >>
            /\ Len(rest) = n + 2 + Len(after)
            /\ rest[1] = a /\ rest[n + 2] = b
            /\ \A i \in 1..n : rest[i + 1] = body[i]
            /\ Drop(rest, n + 2) = after
            /\ SubSeq(rest, 2, n + 1) = body
<1> DEFINE one == <<a>>
           two == <<b>>
           n == Len(body)
           k == Len(after)
           head == one \o body
           run == head \o two
           rest == run \o after
<1>1. /\ one \in Seq(S) /\ Len(one) = 1 /\ one[1] = a
      /\ two \in Seq(S) /\ Len(two) = 1 /\ two[1] = b
      /\ n \in Nat /\ k \in Nat
  BY LenProperties
<1> HIDE DEF one, two
<1>2. /\ head \in Seq(S) /\ Len(head) = n + 1
      /\ head[1] = a /\ \A i \in 1..n : head[i + 1] = body[i]
  <2>1. /\ head \in Seq(S) /\ Len(head) = Len(one) + n
        /\ \A i \in 1..(Len(one) + n) : head[i] = IF i <= Len(one) THEN one[i] ELSE body[i - Len(one)]
    BY <1>1, ConcatProperties
  <2> HIDE DEF head, n
  <2>2. 1 \in 1..(1 + n) /\ 1 <= 1
    BY <1>1
  <2>3. ASSUME NEW i \in 1..n PROVE head[i + 1] = body[i]
    <3>1. i + 1 \in 1..(1 + n) /\ ~ (i + 1 <= 1) /\ (i + 1) - 1 = i
      BY <1>1
    <3>2. QED
      BY <1>1, <2>1, <3>1
  <2>4. head[1] = a
    BY <1>1, <2>1, <2>2
  <2>5. Len(head) = n + 1
    BY <1>1, <2>1
  <2>6. QED
    BY <2>1, <2>3, <2>4, <2>5
<1> HIDE DEF head
<1>3. /\ run \in Seq(S) /\ Len(run) = n + 2
      /\ run[n + 2] = b /\ \A i \in 1..(n + 1) : run[i] = head[i]
  <2>1. /\ run \in Seq(S) /\ Len(run) = Len(head) + Len(two)
        /\ \A i \in 1..(Len(head) + Len(two)) :
             run[i] = IF i <= Len(head) THEN head[i] ELSE two[i - Len(head)]
    BY <1>1, <1>2, ConcatProperties
  <2> HIDE DEF run, n
  <2>2. Len(head) + Len(two) = n + 2
    BY <1>1, <1>2
  <2>3. n + 2 \in 1..(n + 2) /\ ~ (n + 2 <= n + 1) /\ (n + 2) - (n + 1) = 1
    BY <1>1
  <2>4. run[n + 2] = b
    BY <1>1, <1>2, <2>1, <2>2, <2>3
  <2>5. ASSUME NEW i \in 1..(n + 1) PROVE run[i] = head[i]
    <3>1. i \in 1..(n + 2) /\ i <= n + 1
      BY <1>1
    <3>2. QED
      BY <1>2, <2>1, <2>2, <3>1
  <2>6. QED
    BY <2>1, <2>2, <2>4, <2>5
<1> HIDE DEF run
<1>4. /\ rest \in Seq(S) /\ Len(rest) = n + 2 + k
      /\ \A i \in 1..(n + 2) : rest[i] = run[i]
  <2>1. /\ rest \in Seq(S) /\ Len(rest) = Len(run) + k
        /\ \A i \in 1..(Len(run) + k) : rest[i] = IF i <= Len(run) THEN run[i] ELSE after[i - Len(run)]
    BY <1>3, ConcatProperties
  <2> HIDE DEF rest, n, k
  <2>2. ASSUME NEW i \in 1..(n + 2) PROVE rest[i] = run[i]
    <3>1. i \in 1..((n + 2) + k) /\ i <= n + 2
      BY <1>1
    <3>2. QED
      BY <1>3, <2>1, <3>1
  <2>3. QED
    BY <1>3, <2>1, <2>2
<1>5. Drop(rest, n + 2) = after
  <2>1. Drop(rest, Len(run)) = after
    BY <1>3, DropConcat
  <2>2. QED
    BY <1>3, <2>1
<1> HIDE DEF rest
<1>6. rest[1] = a /\ rest[n + 2] = b /\ \A i \in 1..n : rest[i + 1] = body[i]
  <2> HIDE DEF n
  <2>1. 1 \in 1..(n + 1) /\ 1 \in 1..(n + 2) /\ n + 2 \in 1..(n + 2)
    BY <1>1
  <2>2. rest[1] = a /\ rest[n + 2] = b
    BY <1>2, <1>3, <1>4, <2>1
  <2>3. ASSUME NEW i \in 1..n PROVE rest[i + 1] = body[i]
    <3>1. i + 1 \in 1..(n + 1) /\ i + 1 \in 1..(n + 2)
      BY <1>1
    <3>2. QED
      BY <1>2, <1>3, <1>4, <3>1
  <2>4. QED
    BY <2>2, <2>3
<1>7. rest # << >>
  <2>1. Len(rest) # 0
    BY <1>1, <1>4
  <2>2. QED
    BY <1>4, <2>1, EmptySeq
<1>8. SubSeq(rest, 2, n + 1) = body
  <2> DEFINE mid == SubSeq(rest, 2, n + 1)
  <2>1. \A i \in 2..(n + 1) : rest[i] \in S
    <3>1. SUFFICES ASSUME NEW i \in 2..(n + 1) PROVE rest[i] \in S
      OBVIOUS
    <3>2. i \in 1..Len(rest)
      BY <1>1, <1>4
    <3>3. QED
      BY <1>4, <3>2, ElementOfSeq
  <2> HIDE DEF n
  <2>2. /\ mid \in Seq(S) /\ Len(mid) = IF 2 <= n + 1 THEN n + 1 - 2 + 1 ELSE 0
        /\ \A i \in 1..n + 1 - 2 + 1 : mid[i] = rest[2 + i - 1]
    BY <1>1, <2>1, SubSeqProperties
  <2> HIDE DEF mid
  <2>3. n + 1 - 2 + 1 = n /\ (IF 2 <= n + 1 THEN n + 1 - 2 + 1 ELSE 0) = n
    BY <1>1
  <2>4. Len(mid) = n /\ \A i \in 1..n : mid[i] = rest[2 + i - 1]
    BY <2>2, <2>3
  <2>5. ASSUME NEW i \in 1..n PROVE mid[i] = body[i]
    <3>1. 2 + i - 1 = i + 1
      BY <1>1
    <3>2. QED
      BY <1>6, <2>4, <3>1
  <2>6. mid = body
    BY <2>2, <2>4, <2>5, SeqEqual DEF n
  <2>7. QED
    BY <2>6 DEF mid
<1>9. QED
  BY <1>4, <1>5, <1>6, <1>7, <1>8 DEF rest, run, head, one, two

\* A tag pair around anything without a tag is found.
LEMMA TagReads ==
  ASSUME NEW S, Tags \subseteq S, NEW P \in SUBSET (S \ Tags), NEW kind \in TagKinds,
         NEW body \in Seq(P), NEW after \in Seq(S)
  PROVE  LET rest == (<<TAG_TABLE[kind].open>> \o body \o <<TAG_TABLE[kind].close>>) \o after
         IN /\ rest \in Seq(S) /\ rest # << >>
            /\ TryMatchTag(rest) = [span |-> Span(kind, body), consumed |-> Len(body) + 2]
            /\ TryMatchTag(rest) # NoMatch
            /\ Drop(rest, Len(body) + 2) = after
<1> DEFINE open == TAG_TABLE[kind].open
           close == TAG_TABLE[kind].close
           n == Len(body)
           rest == (<<open>> \o body \o <<close>>) \o after
           ends(k) == {j \in 2..Len(rest) : rest[j] = TAG_TABLE[k].close}
           kinds   == {k \in TagKinds : Head(rest) = TAG_TABLE[k].open /\ ends(k) # {}}
           which   == CHOOSE k \in kinds : TRUE
           end     == Min(ends(which))
<1>1. open \in S /\ close \in S /\ open \in Tags /\ close \in Tags
  BY TagFacts
<1>2. body \in Seq(S) /\ n \in Nat /\ Len(after) \in Nat /\ \A i \in 1..n : body[i] \notin Tags
  <2>1. Len(body) \in Nat /\ Len(after) \in Nat /\ body = [i \in 1..Len(body) |-> body[i]]
    BY LenProperties
  <2>2. \A i \in 1..Len(body) : body[i] \in P
    BY ElementOfSeq
  <2>3. body \in [1..Len(body) -> S]
    BY <2>1, <2>2
  <2>4. body \in Seq(S)
    BY <2>1, <2>3, SeqDef
  <2>5. QED
    BY <2>1, <2>2, <2>4
<1>3. /\ rest \in Seq(S) /\ rest # << >>
      /\ Len(rest) = n + 2 + Len(after)
      /\ rest[1] = open /\ rest[n + 2] = close
      /\ \A i \in 1..n : rest[i + 1] = body[i]
      /\ Drop(rest, n + 2) = after
      /\ SubSeq(rest, 2, n + 1) = body
  <2> HIDE DEF open, close
  <2>1. QED
    BY <1>1, <1>2, FourParts
<1>4. TryMatchTag(rest) = IF kinds = {} THEN NoMatch
                          ELSE [span |-> Span(which, SubSeq(rest, 2, end - 1)), consumed |-> end]
  <2> HIDE DEF rest
  <2>1. QED
    BY DEF TryMatchTag
<1> HIDE DEF rest
<1>5. Head(rest) = open
  BY <1>3, HeadApart
<1>6. n + 2 \in ends(kind)
  BY <1>2, <1>3
<1>7. kinds = {kind}
  BY <1>5, <1>6, TagFacts
<1>8. kinds # {} /\ which = kind
  BY <1>7
<1> HIDE DEF which, kinds
<1>9. \A j \in ends(kind) : n + 2 <= j
  <2>1. SUFFICES ASSUME NEW j \in ends(kind), ~ (n + 2 <= j) PROVE FALSE
    BY <1>2, <1>3
  <2>2. j \in 2..(n + 1) /\ rest[j] = close
    BY <1>2, <1>3, <2>1
  <2>3. j - 1 \in 1..n /\ (j - 1) + 1 = j
    BY <1>2, <2>2
  <2>4. rest[j] = body[j - 1]
    BY <1>3, <2>3
  <2>5. QED
    BY <1>1, <1>2, <2>2, <2>3, <2>4
<1>10. end = n + 2
  <2> DEFINE ends2 == ends(kind)
  <2>1. \A j \in ends2 : j \in Nat
    BY <1>2, <1>3
  <2>2. n + 2 \in ends2 /\ \A j \in ends2 : n + 2 <= j
    BY <1>6, <1>9
  <2>3. end = Min(ends2)
    BY <1>8
  <2> HIDE DEF ends2, end
  <2>4. Min(ends2) \in ends2 /\ \A j \in ends2 : Min(ends2) <= j
    BY <2>2 DEF Min
  <2>5. QED
    BY <1>2, <2>1, <2>2, <2>3, <2>4
<1> HIDE DEF end
<1>11. end - 1 = n + 1
  BY <1>2, <1>10
<1>12. TryMatchTag(rest) = [span |-> Span(kind, body), consumed |-> n + 2]
  BY <1>3, <1>4, <1>8, <1>10, <1>11
<1>13. TryMatchTag(rest) # NoMatch
  <2>1. kind # "Text"
    BY DEF TagKinds
  <2>2. TryMatchTag(rest).span.kind = kind /\ NoMatch.span.kind = "Text"
    BY <1>12 DEF NoMatch, Span
  <2>3. QED
    BY <2>1, <2>2
<1>14. QED
  BY <1>3, <1>12, <1>13 DEF rest, open, close

\* Only a tag opens a run.
LEMMA NoTag ==
  ASSUME NEW S, NEW rest \in Seq(S), rest # << >>, rest[1] \notin Tags
  PROVE  TryMatchTag(rest) = NoMatch
<1>1. Head(rest) \notin Tags
  BY HeadApart
<1>2. \A k \in TagKinds : Head(rest) # TAG_TABLE[k].open
  BY <1>1, TagFacts
<1>3. QED
  BY <1>2 DEF TryMatchTag

\* Text without a tag is read as it is.
LEMMA HtmlReadsText ==
  ASSUME NEW S, Tags \subseteq S, NEW P \in SUBSET (S \ Tags),
         NEW e, Ends(e, Cursors(S), HtmlStep(S), HtmlSize(S)),
         NEW done \in Seq(SpanOf(S)), NEW more \in Seq(S)
  PROVE  \A body \in Seq(P) : \A buf \in Seq(S) :
           e[Cursor(done, buf, body \o more)] = e[Cursor(done, buf \o body, more)]
<1> DEFINE T == {b \in Seq(P) : b \in Seq(S) /\ \A buf \in Seq(S) :
                   e[Cursor(done, buf, b \o more)] = e[Cursor(done, buf \o b, more)]}
<1>1. << >> \in T
  <2>1. << >> \in Seq(S) /\ << >> \in Seq(P) /\ << >> \o more = more
        /\ \A buf \in Seq(S) : buf \o << >> = buf
    BY EmptySeq, ConcatEmptySeq
  <2>2. QED
    BY <2>1
<1>2. ASSUME NEW b \in Seq(P), NEW c \in P, b \in T PROVE <<c>> \o b \in T
  <2> DEFINE one == <<c>>
             rest == b \o more
             all == one \o rest
  <2>1. one \in Seq(S) /\ one \in Seq(P) /\ c \in S /\ c \notin Tags /\ Len(one) = 1 /\ one[1] = c
    OBVIOUS
  <2>2. b \in Seq(S) /\ rest \in Seq(S)
    BY <1>2, ConcatProperties
  <2> HIDE DEF one
  <2>3. one \o b \in Seq(P) /\ one \o b \in Seq(S) /\ (one \o b) \o more = all
    <3>1. one \o b \in Seq(P)
      BY <2>1, ConcatProperties
    <3>2. one \o b \in Seq(S)
      BY <2>1, <2>2, ConcatProperties
    <3>3. (one \o b) \o more = one \o (b \o more)
      <4>1. one \in Seq(S) /\ b \in Seq(S) /\ more \in Seq(S)
        BY <2>1, <2>2
      <4>2. QED
        BY ONLY <4>1, ConcatAssociative
    <3>4. QED
      BY <3>1, <3>2, <3>3
  <2> HIDE DEF rest
  <2>4. /\ all \in Seq(S) /\ Len(all) = 1 + Len(rest) /\ Len(rest) \in Nat
        /\ \A i \in 1..(1 + Len(rest)) : all[i] = IF i <= 1 THEN one[i] ELSE rest[i - 1]
    <3>1. /\ all \in Seq(S) /\ Len(all) = Len(one) + Len(rest) /\ Len(rest) \in Nat
          /\ \A i \in 1..(Len(one) + Len(rest)) :
               all[i] = IF i <= Len(one) THEN one[i] ELSE rest[i - Len(one)]
      BY <2>1, <2>2, ConcatProperties, LenProperties
    <3> HIDE DEF all
    <3>2. QED
      BY <2>1, <3>1
  <2>5. Drop(all, 1) = rest
    BY <2>1, <2>2, DropConcat
  <2> HIDE DEF all
  <2>6. all # << >> /\ all[1] = c
    <3>1. 1 \in 1..(1 + Len(rest)) /\ 1 <= 1 /\ Len(all) # 0
      BY <2>4
    <3>2. all[1] = c
      BY <2>1, <2>4, <3>1
    <3>3. QED
      BY <2>4, <3>1, <3>2, EmptySeq
  <2>7. Tail(all) = rest
    BY <2>4, <2>5, <2>6, HeadApart
  <2>8. ASSUME NEW buf \in Seq(S)
        PROVE  e[Cursor(done, buf, all)] = e[Cursor(done, buf \o (one \o b), more)]
    <3> DEFINE longer == Append(buf, c)
    <3>1. longer \in Seq(S) /\ longer = buf \o one
      BY <2>1, AppendProperties, AppendIsConcat DEF one
    <3>2. TryMatchTag(all) = NoMatch
      BY <2>1, <2>4, <2>6, NoTag
    <3>3. ParseRound(Cursor(done, buf, all)) = Cursor(done, longer, rest)
      <4>1. ParseRound(Cursor(done, buf, all)) = Cursor(done, Append(buf, all[1]), Tail(all))
        <5>1. all \in Seq(S) /\ all # << >>
          BY <2>4, <2>6
        <5>2. /\ ParseRound(Cursor(done, buf, all)) = Cursor(done, Append(buf, all[1]), Tail(all))
              /\ Append(buf, all[1]) \in Seq(S) /\ Tail(all) \in Seq(S)
              /\ RenderRichText(done) \o Append(buf, all[1]) \o Tail(all)
                   = RenderRichText(done) \o buf \o all
              /\ Len(Tail(all)) < Len(all)
          BY <3>2, <5>1, CharacterRound
        <5>3. QED
          BY <5>2
      <4>2. QED
        BY <2>6, <2>7, <4>1
    <3>4. e[Cursor(done, buf, all)] = e[ParseRound(Cursor(done, buf, all))]
      BY <2>4, <2>6, HtmlStepEnds
    <3> HIDE DEF longer
    <3>5. e[Cursor(done, longer, rest)] = e[Cursor(done, longer \o b, more)]
      BY <1>2, <3>1 DEF rest
    <3>6. longer \o b = buf \o (one \o b)
      BY <2>1, <2>2, <3>1, ConcatAssociative, SMTT(20)
    <3>7. QED
      BY <3>3, <3>4, <3>5, <3>6
  <2>9. QED
    BY <2>3, <2>8 DEF one
<1> HIDE DEF T
<1>3. \A b \in Seq(P) : b \in T
  BY <1>1, <1>2, ConsInduction
<1>4. QED
  BY <1>3 DEF T

\* A text over some characters is one over more.
LEMMA SeqSubset ==
  ASSUME NEW P, NEW S, P \subseteq S, NEW s \in Seq(P)
  PROVE  s \in Seq(S)
<1>1. Len(s) \in Nat /\ s = [i \in 1..Len(s) |-> s[i]]
  BY LenProperties
<1>2. \A i \in 1..Len(s) : s[i] \in P
  BY ElementOfSeq
<1>3. s \in [1..Len(s) -> S]
  BY <1>1, <1>2
<1>4. QED
  BY <1>1, <1>3, SeqDef

\* The tree of a text is read back from the rich text it is written as, if no tag is in it.
LEMMA RichTextReadsBack ==
  ASSUME NEW S, Tags \subseteq S, NEW P \in SUBSET (S \ Tags),
         NEW spans \in Seq(SpanOf(P)), Spells(spans)
  PROVE  Parse(RenderRichText(spans)) = spans
<1> DEFINE I == SpanOf(P)
           A == SpanOf(S)
           piece == [x \in I |-> Tagged(x, x.body)]
           Sep == I \X Seq(S)
<1>1. PICK e : /\ Ends(e, Cursors(S), HtmlStep(S), HtmlSize(S))
               /\ \A input \in Seq(S) : LET end == e[Cursor(<< >>, << >>, input)]
                                        IN Parse(input) = end.spans \o Flush(end.buf)
  BY HtmlEnds
<1>2. ASSUME NEW x \in I PROVE x \in A /\ x.body \in Seq(P) /\ x.body \in Seq(S) /\ x.kind \in Kinds
  <2>1. x = [kind |-> x.kind, body |-> x.body] /\ x.body \in Seq(P) /\ x.kind \in Kinds
    BY DEF SpanOf
  <2>2. x.body \in Seq(S)
    BY <2>1, SeqSubset
  <2>3. QED
    BY <2>1, <2>2 DEF SpanOf
<1>3. I \in SUBSET A
  BY <1>2
<1>4. piece \in Writers(I, S)
  <2>1. ASSUME NEW x \in I PROVE Tagged(x, x.body) \in Seq(S)
    <3> DEFINE raw == RawPiece(S)
    <3>1. raw \in Writers(A, S) /\ x \in A
      BY <1>2, RawPieceType
    <3>2. raw[x] = Tagged(x, x.body)
      BY <3>1 DEF RawPiece
    <3> HIDE DEF raw, A
    <3>3. raw[x] \in Seq(S)
      BY <3>1 DEF Writers
    <3>4. QED
      BY <3>2, <3>3
  <2>2. QED
    BY <2>1 DEF Writers
<1>5. RenderRichText(spans) = Pieced(spans, piece)
  <2>1. \A i \in DOMAIN spans : spans[i] \in I
    BY LenProperties, ElementOfSeq
  <2>2. [i \in DOMAIN spans |-> Tagged(spans[i], spans[i].body)] = [i \in DOMAIN spans |-> piece[spans[i]]]
    BY <2>1
  <2>3. QED
    BY <2>2 DEF RenderRichText, Pieced, Parts
<1>6. \A x \in I : piece[x] = Tagged(x, x.body)
  OBVIOUS
<1> HIDE DEF piece
<1>7. ASSUME NEW done \in Seq(A), NEW buf \in Seq(S)
      PROVE  e[Cursor(done, buf, << >>)] = Cursor(done, buf, << >>)
  <2>1. << >> \in Seq(S) /\ Ends(e, Cursors(S), HtmlStep(S), HtmlSize(S))
    BY <1>1, EmptySeq
  <2> DEFINE none == << >>
  <2>2. none \in Seq(S) /\ none = << >>
    BY <2>1
  <2> HIDE DEF none
  <2>3. LET at == Cursor(done, buf, none)
        IN /\ none = << >> => e[at] = at
           /\ none # << >> => e[at] = e[ParseRound(at)]
    <3>1. Tags \subseteq S /\ done \in Seq(SpanOf(S)) /\ buf \in Seq(S) /\ none \in Seq(S)
          /\ Ends(e, Cursors(S), HtmlStep(S), HtmlSize(S))
      BY <2>1, <2>2
    <3>2. QED
      BY ONLY <3>1, HtmlStepEnds
  <2>4. QED
    BY <2>2, <2>3
<1>8. ASSUME NEW done \in Seq(A), NEW buf \in Seq(S), NEW x \in I, NEW more \in Seq(S),
             x.kind = "Text"
      PROVE  e[Cursor(done, buf, piece[x] \o more)] = e[Cursor(done, buf \o x.body, more)]
  <2> DEFINE body == x.body
  <2>1. piece[x] = body /\ body \in Seq(P)
    BY <1>2, <1>6, <1>8 DEF Tagged
  <2> HIDE DEF body
  <2>2. e[Cursor(done, buf, body \o more)] = e[Cursor(done, buf \o body, more)]
    <3>1. Ends(e, Cursors(S), HtmlStep(S), HtmlSize(S))
      BY <1>1
    <3>2. QED
      BY <2>1, <3>1, HtmlReadsText, SMTT(20)
  <2>3. QED
    BY <2>1, <2>2 DEF body
<1>9. ASSUME NEW done \in Seq(A), NEW buf \in Seq(S), NEW x \in I, NEW more \in Seq(S),
             x.kind # "Text"
      PROVE  e[Cursor(done, buf, piece[x] \o more)]
               = e[Cursor(done \o Flush(buf) \o <<x>>, << >>, more)]
  <2> DEFINE kind == x.kind
             body == x.body
             rest == (<<TAG_TABLE[kind].open>> \o body \o <<TAG_TABLE[kind].close>>) \o more
             now == done \o Flush(buf) \o <<x>>
             at == Cursor(done, buf, rest)
  <2>1. kind \in TagKinds /\ body \in Seq(P) /\ x = Span(kind, body) /\ x \in A
    BY <1>2, <1>9 DEF Kinds, TagKinds, Span, SpanOf
  <2>2. piece[x] \o more = rest
    BY <1>6, <1>9 DEF Tagged
  <2> HIDE DEF kind, body
  <2>3. /\ rest \in Seq(S) /\ rest # << >>
        /\ TryMatchTag(rest) = [span |-> Span(kind, body), consumed |-> Len(body) + 2]
        /\ TryMatchTag(rest) # NoMatch
        /\ Drop(rest, Len(body) + 2) = more
    BY <2>1, TagReads, SMTT(20)
  <2> HIDE DEF rest
  <2>4. ParseRound(at) = Cursor(now, << >>, more)
    <3> DEFINE run == TryMatchTag(rest)
               before == done \o Flush(buf)
    <3>1. at.spans = done /\ at.buf = buf /\ at.rest = rest
      BY CursorParts
    <3>2. run # NoMatch /\ run.span = x /\ Drop(rest, run.consumed) = more
      BY <2>1, <2>3
    <3> HIDE DEF at
    <3>3. ParseRound(at) = Cursor(before \o <<run.span>>, << >>, Drop(rest, run.consumed))
      BY <2>3, <3>1, <3>2 DEF ParseRound
    <3> HIDE DEF run
    <3>4. QED
      BY <3>2, <3>3
  <2>5. e[at] = e[ParseRound(at)]
    BY <1>1, <2>3, HtmlStepEnds
  <2> HIDE DEF at, now
  <2>6. e[at] = e[Cursor(now, << >>, more)]
    BY <2>4, <2>5
  <2>7. QED
    BY <2>2, <2>6 DEF at, now
<1>10. \A x \in I, s \in Seq(I) : Spells(<<x>> \o s) => <<x, Pieced(s, piece)>> \in Sep
  <2>1. SUFFICES ASSUME NEW x \in I, NEW s \in Seq(I) PROVE Pieced(s, piece) \in Seq(S)
    OBVIOUS
  <2>2. QED
    BY <1>4, PiecesOf
<1> HIDE DEF I, A, Sep
<1>11. ReadsBack(e, S, I, piece, Sep)
  BY <1>7, <1>8, <1>9, <1>10 DEF ReadsBack, A
<1>12. ReadsTree(e, Pieced(spans, piece), spans)
  <2>1. I \in SUBSET SpanOf(S)
    BY <1>3 DEF A
  <2>2. spans \in Seq(I)
    BY DEF I
  <2>3. Spells(spans) /\ piece \in Writers(I, S)
    BY <1>4
  <2>4. QED
    BY ONLY <1>11, <2>1, <2>2, <2>3, TreeReadsBack
<1>13. Pieced(spans, piece) \in Seq(S)
  BY <1>4, PiecesOf DEF I
<1>14. QED
  BY <1>1, <1>5, <1>12, <1>13 DEF ReadsTree

------------------------------------------------------------------------------
(***************************************************************************)
(* The way back from Discord's markdown: text, ...                         *)
(***************************************************************************)

\* The loop of parse_markdown ends where the next round leads.
LEMMA MarkdownStepEnds ==
  ASSUME NEW S, MARKDOWN_ESCAPABLE \subseteq S,
         NEW e, Ends(e, Cursors(S), MarkdownStep(S), MarkdownSize(S)),
         NEW spans \in Seq(SpanOf(S)), NEW buf \in Seq(S), NEW rest \in Seq(S)
  PROVE  LET at == Cursor(spans, buf, rest)
         IN /\ rest = << >> => e[at] = at
            /\ rest # << >> => e[at] = e[ParseMarkdownRound(at)]
<1> DEFINE at == Cursor(spans, buf, rest)
           size == MarkdownSize(S)
           step == MarkdownStep(S)
<1>1. at \in Cursors(S)
  BY CursorType
<1>2. at.rest = rest
  BY CursorParts
<1> HIDE DEF at
<1>3. size[at] = Len(rest) /\ step[at] = ParseMarkdownRound(at)
  BY <1>1, <1>2 DEF MarkdownSize, MarkdownStep
<1> HIDE DEF size, step
<1>4. (size[at] = 0 => e[at] = at) /\ (size[at] # 0 => e[at] = e[step[at]])
  BY <1>1 DEF Ends, size, step
<1>5. QED
  BY <1>3, <1>4, EmptySeq DEF at

\* A prefix, character by character.
LEMMA PrefixHead ==
  ASSUME NEW S, NEW delim \in Seq(S), NEW rest \in Seq(S), IsPrefix(delim, rest)
  PROVE  \A i \in 1..Len(delim) : rest[i] = delim[i]
<1> DEFINE size == Len(delim)
<1>1. size \in Nat /\ Len(rest) \in Nat /\ size <= Len(rest)
      /\ SubSeq(delim, 1, size) = SubSeq(rest, 1, size)
  BY LenProperties DEF IsPrefix
<1>2. size \in 0..Len(rest) /\ size \in 0..Len(delim)
  BY <1>1
<1> HIDE DEF size
<1>3. \A i \in 1..size : SubSeq(rest, 1, size)[i] = rest[i]
  BY <1>2, CutInTwo
<1>4. \A i \in 1..size : SubSeq(delim, 1, size)[i] = delim[i]
  BY <1>2, CutInTwo
<1>5. QED
  BY <1>1, <1>3, <1>4 DEF size

\* A text starts with its first part.
LEMMA PrefixOf ==
  ASSUME NEW S, NEW delim \in Seq(S), NEW more \in Seq(S)
  PROVE  IsPrefix(delim, delim \o more)
<1> DEFINE rest == delim \o more
           size == Len(delim)
<1>1. SubSeq(rest, 1, size) = delim
  BY DropConcat
<1>2. SubSeq(delim, 1, size) = delim
  BY SubSeqFull
<1>3. size \in Nat /\ Len(more) \in Nat /\ Len(rest) = size + Len(more)
  BY LenProperties, ConcatProperties
<1> HIDE DEF rest, size
<1>4. size <= Len(rest)
  BY <1>3
<1>5. QED
  BY <1>1, <1>2, <1>4 DEF IsPrefix, rest, size

\* Only a delimiter opens a run.
LEMMA EntryNeedsHead ==
  ASSUME NEW S, NEW rest \in Seq(S), NEW delim \in Seq(S), NEW kind,
         NEW i \in 1..Len(delim), rest[i] # delim[i]
  PROVE  MatchEntry(rest, [delim |-> delim, kind |-> kind]) = NoMatch
<1>1. ~ IsPrefix(delim, rest)
  BY PrefixHead
<1> DEFINE entry == [delim |-> delim, kind |-> kind]
<1>2. entry.delim = delim
  OBVIOUS
<1> HIDE DEF entry
<1>3. MatchEntry(rest, entry) = NoMatch
  BY <1>1, <1>2 DEF MatchEntry
<1>4. QED
  BY <1>3 DEF entry

\* The delimiters as texts.
LEMMA DelimiterFacts ==
  ASSUME NEW S, MARKDOWN_ESCAPABLE \subseteq S
  PROVE  /\ <<"*", "*">> \in Seq(S) /\ <<"*">> \in Seq(S) /\ <<Tick>> \in Seq(S)
         /\ Len(<<"*", "*">>) = 2 /\ Len(<<"*">>) = 1 /\ Len(<<Tick>>) = 1
         /\ 1 \in 1..1 /\ 1 \in 1..2 /\ 2 \in 1..2
BY EscapableFacts

\* Where no delimiter starts, no run does.
LEMMA NoDelimiter ==
  ASSUME NEW S, MARKDOWN_ESCAPABLE \subseteq S, NEW rest \in Seq(S), rest[1] \notin {"*", Tick}
  PROVE  TryMatchMarkdown(rest) = NoMatch
<1>1. MatchEntry(rest, [delim |-> <<"*", "*">>, kind |-> "Bold"]) = NoMatch
  <2> DEFINE d == <<"*", "*">>
  <2>1. d \in Seq(S) /\ 1 \in 1..Len(d) /\ rest[1] # d[1]
    BY DelimiterFacts
  <2> HIDE DEF d
  <2>2. MatchEntry(rest, [delim |-> d, kind |-> "Bold"]) = NoMatch
    BY <2>1, EntryNeedsHead
  <2>3. QED
    BY <2>2 DEF d
<1>2. MatchEntry(rest, [delim |-> <<"*">>, kind |-> "Italic"]) = NoMatch
  <2> DEFINE d == <<"*">>
  <2>1. d \in Seq(S) /\ 1 \in 1..Len(d) /\ rest[1] # d[1]
    BY DelimiterFacts
  <2> HIDE DEF d
  <2>2. MatchEntry(rest, [delim |-> d, kind |-> "Italic"]) = NoMatch
    BY <2>1, EntryNeedsHead
  <2>3. QED
    BY <2>2 DEF d
<1>3. MatchEntry(rest, [delim |-> <<Tick>>, kind |-> "Code"]) = NoMatch
  <2> DEFINE d == <<Tick>>
  <2>1. d \in Seq(S) /\ 1 \in 1..Len(d) /\ rest[1] # d[1]
    BY DelimiterFacts
  <2> HIDE DEF d
  <2>2. MatchEntry(rest, [delim |-> d, kind |-> "Code"]) = NoMatch
    BY <2>1, EntryNeedsHead
  <2>3. QED
    BY <2>2 DEF d
<1>4. \A k \in DOMAIN MARKDOWN_TABLE : MatchEntry(rest, MARKDOWN_TABLE[k]) = NoMatch
  <2>1. SUFFICES ASSUME NEW k \in 1..3 PROVE MatchEntry(rest, MARKDOWN_TABLE[k]) = NoMatch
    BY TableFacts
  <2>2. k = 1 \/ k = 2 \/ k = 3
    OBVIOUS
  <2>3. QED
    BY <1>1, <1>2, <1>3, <2>2, TableFacts
<1>5. QED
  BY <1>4 DEF TryMatchMarkdown

\* Escaped text is read as the text.
LEMMA MarkdownReadsText ==
  ASSUME NEW S, MARKDOWN_ESCAPABLE \subseteq S,
         NEW e, Ends(e, Cursors(S), MarkdownStep(S), MarkdownSize(S)),
         NEW done \in Seq(SpanOf(S)), NEW more \in Seq(S)
  PROVE  \A body \in Seq(S) : \A buf \in Seq(S) :
           e[Cursor(done, buf, EscapeMarkdown(body) \o more)] = e[Cursor(done, buf \o body, more)]
<1> DEFINE T == {b \in Seq(S) : \A buf \in Seq(S) :
                   e[Cursor(done, buf, EscapeMarkdown(b) \o more)] = e[Cursor(done, buf \o b, more)]}
<1>1. << >> \in T
  <2>1. << >> \in Seq(S) /\ << >> \o more = more /\ \A buf \in Seq(S) : buf \o << >> = buf
    BY EmptySeq, ConcatEmptySeq
  <2>2. EscapeMarkdown(<< >>) = << >>
    BY EscapeText
  <2>3. QED
    BY <2>1, <2>2
<1>2. ASSUME NEW b \in Seq(S), NEW c \in S, b \in T PROVE <<c>> \o b \in T
  <2> DEFINE one == <<c>>
             x == Escaped(c)
             esc == EscapeMarkdown(b)
             left == esc \o more
             all == x \o left
  <2>0. EscapeMarkdown(one \o b) = x \o esc
    BY EscapeText
  <2>1. one \in Seq(S) /\ x \in Seq(S) /\ esc \in Seq(S)
    BY EscapeText
  <2> HIDE DEF one, esc
  <2>2. left \in Seq(S) /\ one \o b \in Seq(S)
    BY <2>1, ConcatProperties
  <2>3. (x \o esc) \o more = all
    <3> HIDE DEF x
    <3>1. x \in Seq(S) /\ esc \in Seq(S) /\ more \in Seq(S)
      BY <2>1
    <3>2. QED
      BY ONLY <3>1, ConcatAssociative, SMTT(20)
  <2> HIDE DEF left
  <2>4. /\ all \in Seq(S) /\ all # << >>
        /\ c \in MARKDOWN_ESCAPABLE => StartsEscape(all) /\ all[2] = c /\ Drop(all, 2) = left
        /\ c \notin MARKDOWN_ESCAPABLE => all[1] = c /\ ~ StartsEscape(all) /\ Tail(all) = left
    BY <2>2, EscapedHead
  <2> HIDE DEF all, x
  <2>5. ASSUME NEW buf \in Seq(S)
        PROVE  e[Cursor(done, buf, all)] = e[Cursor(done, buf \o (one \o b), more)]
    <3> DEFINE longer == Append(buf, c)
    <3>1. longer \in Seq(S) /\ longer = buf \o one
      BY AppendProperties, AppendIsConcat DEF one
    <3>2. ParseMarkdownRound(Cursor(done, buf, all)) = Cursor(done, longer, left)
      <4>1. CASE c \in MARKDOWN_ESCAPABLE
        <5>1. StartsEscape(all) /\ all[2] = c /\ Drop(all, 2) = left
          BY <2>4, <4>1
        <5>2. ParseMarkdownRound(Cursor(done, buf, all)) = Cursor(done, Append(buf, all[2]), Drop(all, 2))
          BY <2>4, <5>1, EscapeRound
        <5>3. QED
          BY <5>1, <5>2
      <4>2. CASE c \notin MARKDOWN_ESCAPABLE
        <5>1. all \in Seq(S) /\ all # << >> /\ all[1] = c /\ ~ StartsEscape(all) /\ Tail(all) = left
          BY <2>4, <4>2
        <5>2. all[1] \notin {"*", Tick}
          BY <4>2, <5>1, EscapableFacts
        <5>3. TryMatchMarkdown(all) = NoMatch
          BY <5>1, <5>2, NoDelimiter
        <5>4. ParseMarkdownRound(Cursor(done, buf, all)) = Cursor(done, Append(buf, all[1]), Tail(all))
          BY <5>1, <5>3, PlainRound
        <5>5. QED
          BY <5>1, <5>4
      <4>3. QED
        BY <4>1, <4>2
    <3>3. e[Cursor(done, buf, all)] = e[ParseMarkdownRound(Cursor(done, buf, all))]
      BY <2>4, MarkdownStepEnds
    <3> HIDE DEF longer
    <3>4. e[Cursor(done, longer, left)] = e[Cursor(done, longer \o b, more)]
      BY <1>2, <3>1 DEF left, esc
    <3>5. longer \o b = buf \o (one \o b)
      <4>1. buf \in Seq(S) /\ one \in Seq(S) /\ b \in Seq(S) /\ longer = buf \o one
        BY <1>2, <2>1, <2>5, <3>1
      <4>2. QED
        BY ONLY <4>1, ConcatAssociative
    <3>6. QED
      BY <3>2, <3>3, <3>4, <3>5
  <2>6. QED
    BY <2>0, <2>1, <2>2, <2>3, <2>5 DEF one
<1> HIDE DEF T
<1>3. \A b \in Seq(S) : b \in T
  BY <1>1, <1>2, ConsInduction
<1>4. QED
  BY <1>3 DEF T

------------------------------------------------------------------------------
(***************************************************************************)
(* ... the runs, ...                                                       *)
(***************************************************************************)

\* How Discord's renderer writes the body of a span.
ShownBody(x) == IF x.kind = "Code" THEN x.body ELSE EscapeMarkdown(x.body)

\* The character of the delimiter of a kind.
MarkOf(kind) == IF kind = "Code" THEN Tick ELSE "*"

\* A body, as written, that its delimiters enclose: the first closer is the one after it.
Encloses(shown, kind) ==
  /\ Len(shown) > 0
  /\ shown[Len(shown)] # "\\"
  /\ kind # "Code" => /\ shown[1] \notin Whitespace \cup {"*"}
                      /\ shown[Len(shown)] \notin Whitespace \cup {"*"}
  /\ \A i \in 1..Len(shown) : shown[i] = MarkOf(kind) => i = 1 \/ shown[i - 1] = "\\"

\* The body of a span that can be spelled is enclosed, and is what is read of it.
LEMMA BodyEncloses ==
  ASSUME NEW S, MARKDOWN_ESCAPABLE \subseteq S,
         NEW x \in SpanOf(S), x.kind \in TagKinds, SpanSpells(x)
  PROVE  /\ ShownBody(x) \in Seq(S)
         /\ Encloses(ShownBody(x), x.kind)
         /\ (IF x.kind # "Code" THEN UnescapeMarkdown(ShownBody(x)) ELSE ShownBody(x)) = x.body
<1> DEFINE body == x.body
           kind == x.kind
<1>1. body \in Seq(S)
  BY DEF SpanOf
<1>2. body # << >> /\ Len(body) \in Nat \ {0}
  BY <1>1, EmptySeq DEF SpanSpells
<1>3. CASE kind = "Code"
  <2>1. ShownBody(x) = body /\ MarkOf(kind) = Tick
    BY <1>3 DEF ShownBody, MarkOf
  <2>2. /\ body[Len(body)] # "\\"
        /\ \A i \in 1..Len(body) : body[i] = Tick => i = 1 \/ body[i - 1] = "\\"
    BY <1>3 DEF SpanSpells
  <2>3. Len(body) > 0
    BY <1>2
  <2> HIDE DEF body
  <2>4. Encloses(body, kind)
    BY <1>3, <2>1, <2>2, <2>3 DEF Encloses
  <2>5. QED
    BY <1>1, <1>3, <2>1, <2>4 DEF body
<1>4. CASE kind # "Code"
  <2> DEFINE esc == EscapeMarkdown(body)
  <2>1. ShownBody(x) = esc /\ MarkOf(kind) = "*" /\ kind \in {"Bold", "Italic"}
    BY <1>4 DEF ShownBody, MarkOf, TagKinds
  <2>2. /\ body[1] \notin Whitespace
        /\ body[Len(body)] \notin Whitespace \cup {"\\", "*"}
    BY <2>1 DEF SpanSpells
  <2> HIDE DEF body
  <2>3. esc \in Seq(S)
    BY <1>1, EscapeText
  <2>4. /\ Covered(esc)
        /\ Len(esc) > 0
        /\ esc[Len(esc)] = body[Len(body)]
        /\ esc[1] = body[1] \/ esc[1] = "\\"
    BY <1>1, <1>2, EscapedShape
  <2>5. UnescapeMarkdown(esc) = body
    BY <1>1, UnescapeEscaped
  <2> HIDE DEF esc
  <2>6. Len(esc) \in Nat /\ 1 \in 1..Len(esc)
    BY <2>3, <2>4, LenProperties
  <2>7. \A i \in 1..Len(esc) : esc[i] = "*" => i > 1 /\ esc[i - 1] = "\\"
    BY <2>4 DEF Covered
  <2>8. esc[1] # "*"
    BY <2>6, <2>7
  <2>9. esc[1] \notin Whitespace
    BY <2>2, <2>4, EscapableFacts
  <2>10. Encloses(esc, kind)
    BY <2>1, <2>2, <2>4, <2>7, <2>8, <2>9 DEF Encloses
  <2>11. QED
    BY <1>4, <2>1, <2>3, <2>5, <2>10 DEF body
<1>5. QED
  BY <1>3, <1>4

\* What is known of a delimiter.
LEMMA DelimitsFacts ==
  ASSUME NEW S, MARKDOWN_ESCAPABLE \subseteq S, NEW kind, NEW d, Delimits(d, kind)
  PROVE  /\ d \in Seq(S) /\ d # << >>
         /\ Len(d) \in 1..2
         /\ Len(d) = 2 => kind # "Code"
         /\ \A i \in 1..Len(d) : d[i] = MarkOf(kind)
         /\ kind \in TagKinds
<1>1. "*" \in S /\ Tick \in S
  BY EscapableFacts
<1>2. CASE kind = "Bold" /\ d = <<"*", "*">>
  <2>1. d \in Seq(S) /\ Len(d) = 2 /\ d[1] = "*" /\ d[2] = "*"
    BY <1>1, <1>2
  <2>2. MarkOf(kind) = "*" /\ kind \in TagKinds /\ kind # "Code"
    BY <1>2 DEF MarkOf, TagKinds
  <2>3. \A i \in 1..2 : i = 1 \/ i = 2
    OBVIOUS
  <2>4. d # << >>
    BY <2>1, EmptySeq
  <2>5. QED
    BY <2>1, <2>2, <2>3, <2>4
<1>3. CASE kind = "Italic" /\ d = <<"*">>
  <2>1. d \in Seq(S) /\ Len(d) = 1 /\ d[1] = "*"
    BY <1>1, <1>3
  <2>2. MarkOf(kind) = "*" /\ kind \in TagKinds /\ kind # "Code"
    BY <1>3 DEF MarkOf, TagKinds
  <2>3. \A i \in 1..1 : i = 1
    OBVIOUS
  <2>4. d # << >>
    BY <2>1, EmptySeq
  <2>5. QED
    BY <2>1, <2>2, <2>3, <2>4
<1>4. CASE kind = "Code" /\ d = <<Tick>>
  <2>1. d \in Seq(S) /\ Len(d) = 1 /\ d[1] = Tick
    BY <1>1, <1>4
  <2>2. MarkOf(kind) = Tick /\ kind \in TagKinds
    BY <1>4 DEF MarkOf, TagKinds
  <2>3. \A i \in 1..1 : i = 1
    OBVIOUS
  <2>4. d # << >>
    BY <2>1, EmptySeq
  <2>5. QED
    BY <2>1, <2>2, <2>3, <2>4
<1>5. QED
  BY <1>2, <1>3, <1>4 DEF Delimits

\* The first closer of an enclosed body is the delimiter after it.
LEMMA ClosedAfterBody ==
  ASSUME NEW S, MARKDOWN_ESCAPABLE \subseteq S, NEW kind, NEW d, Delimits(d, kind),
         NEW shown \in Seq(S), Encloses(shown, kind), NEW after \in Seq(S),
         kind # "Code" => after = << >> \/ after[1] # "*"
  PROVE  LET hay == shown \o (d \o after)
         IN /\ hay \in Seq(S) /\ hay # << >> /\ Head(hay) = shown[1]
            /\ FindCloser(hay, d, kind # "Code") = Len(shown)
            /\ SubSeq(hay, 1, Len(shown)) = shown
            /\ Drop(hay, Len(shown)) = d \o after
<1> DEFINE tail == d \o after
           hay == shown \o tail
           E == Len(shown)
           size == Len(d)
           flanking == kind # "Code"
<1>1. /\ d \in Seq(S) /\ d # << >> /\ size \in 1..2 /\ (size = 2 => flanking)
      /\ \A i \in 1..size : d[i] = MarkOf(kind)
  <2>1. /\ d \in Seq(S) /\ d # << >>
        /\ Len(d) \in 1..2
        /\ Len(d) = 2 => kind # "Code"
        /\ \A i \in 1..Len(d) : d[i] = MarkOf(kind)
        /\ kind \in TagKinds
    BY DelimitsFacts
  <2>2. QED
    BY <2>1
<1>2. E \in Nat /\ Len(after) \in Nat /\ size \in Nat
  BY <1>1, LenProperties
<1>3. /\ tail \in Seq(S) /\ Len(tail) = size + Len(after)
      /\ \A i \in 1..(size + Len(after)) : tail[i] = IF i <= size THEN d[i] ELSE after[i - size]
  BY <1>1, ConcatProperties
<1>4. Drop(tail, size) = after /\ SubSeq(tail, 1, size) = d
  BY <1>1, DropConcat
<1> HIDE DEF tail
<1>5. /\ hay \in Seq(S) /\ Len(hay) = E + Len(tail)
      /\ \A i \in 1..(E + Len(tail)) : hay[i] = IF i <= E THEN shown[i] ELSE tail[i - E]
  <2>1. shown \in Seq(S) /\ tail \in Seq(S)
    BY <1>3
  <2>2. QED
    BY ONLY <2>1, ConcatProperties
<1>6. Drop(hay, E) = tail /\ SubSeq(hay, 1, E) = shown
  BY <1>3, DropConcat
<1> HIDE DEF hay, E, size, flanking
<1>7. /\ E > 0 /\ shown[E] # "\\"
      /\ flanking => shown[E] \notin Whitespace \cup {"*"}
      /\ \A i \in 1..E : shown[i] = MarkOf(kind) => i = 1 \/ shown[i - 1] = "\\"
      /\ flanking => MarkOf(kind) = "*"
  BY DEF Encloses, E, flanking, MarkOf
<1>8. /\ Len(hay) = E + (size + Len(after))
      /\ \A i \in 1..E : hay[i] = shown[i]
  <2>1. Len(hay) = E + (size + Len(after))
    BY <1>3, <1>5
  <2>2. ASSUME NEW i \in 1..E PROVE hay[i] = shown[i]
    <3>1. i \in 1..(E + Len(tail)) /\ i <= E
      BY <1>2, <1>3
    <3>2. QED
      BY <1>5, <3>1
  <2>3. QED
    BY <2>1, <2>2
<1>9. Drop(hay, E + size) = after
  <2>1. E + size <= Len(hay)
    BY <1>2, <1>8
  <2>2. Drop(Drop(hay, E), size) = Drop(hay, E + size)
    BY <1>2, <1>5, <2>1, DropDrop
  <2>3. QED
    BY <1>4, <1>6, <2>2
<1>10. E \in Places(hay, d, 0)
  <2>1. SubSeq(hay, E + 1, E + size) = d
    <3> DEFINE m == E + 1
               n == E + size
               cut == SubSeq(hay, m, n)
    <3>1. m \in Int /\ n \in Int /\ m <= n /\ n - m + 1 = size
      BY <1>1, <1>2
    <3>2. \A i \in m..n : i \in 1..Len(hay)
      BY <1>2, <1>8
    <3>3. \A i \in m..n : hay[i] \in S
      BY <1>5, <3>2, ElementOfSeq
    <3>4. \A i \in 1..size : m + i - 1 = E + i /\ E + i \in 1..(E + Len(tail)) /\ ~ (E + i <= E)
                             /\ (E + i) - E = i
      BY <1>1, <1>2, <1>3
    <3> HIDE DEF m, n
    <3>5. /\ cut \in Seq(S) /\ Len(cut) = size
          /\ \A i \in 1..size : cut[i] = hay[m + i - 1]
      <4>1. /\ cut \in Seq(S)
            /\ Len(cut) = IF m <= n THEN n - m + 1 ELSE 0
            /\ \A i \in 1..n - m + 1 : cut[i] = hay[m + i - 1]
        BY <3>1, <3>3, SubSeqProperties
      <4> HIDE DEF cut
      <4>2. QED
        BY <3>1, <4>1
    <3> HIDE DEF cut
    <3>6. ASSUME NEW i \in 1..size PROVE cut[i] = d[i]
      <4>1. cut[i] = hay[E + i]
        BY <3>4, <3>5
      <4>2. hay[E + i] = tail[i]
        BY <1>5, <3>4
      <4>3. tail[i] = d[i]
        <5>1. i \in 1..(size + Len(after)) /\ i <= size
          BY <1>1, <1>2
        <5>2. QED
          BY <1>3, <5>1
      <4>4. QED
        BY <4>1, <4>2, <4>3
    <3>7. cut = d
      <4>1. Len(cut) = Len(d) /\ \A i \in 1..Len(cut) : cut[i] = d[i]
        BY <3>5, <3>6 DEF size
      <4>2. QED
        BY <1>1, <3>5, <4>1, SeqEqual
    <3>8. QED
      BY <3>7 DEF cut, m, n
  <2>2. E \in 0..(Len(hay) - size)
    BY <1>2, <1>8
  <2>3. QED
    BY <2>1, <2>2 DEF Places, size
<1>11. Closes(hay, d, flanking, E)
  <2>1. E \in 1..E
    BY <1>2, <1>7
  <2>2. hay[E] = shown[E]
    BY <1>8, <2>1
  <2>3. flanking => after = << >> \/ Head(after) # "*"
    BY HeadApart DEF flanking
  <2>4. Drop(hay, E + Len(d)) = after
    BY <1>9 DEF size
  <2>5. QED
    BY <1>7, <2>2, <2>3, <2>4 DEF Closes
<1>12. ASSUME NEW j \in Places(hay, d, 0), j < E
       PROVE  ~ Closes(hay, d, flanking, j) /\ j + size <= E
  <2>1. j \in 0..(Len(hay) - size) /\ SubSeq(hay, j + 1, j + size) = d
    BY <1>12 DEF Places, size
  <2>2. j \in Nat /\ j + 1 \in 1..E /\ j + 1 <= Len(hay)
    BY <1>2, <1>8, <1>12, <2>1
  <2>3. hay[j + 1] = MarkOf(kind)
    <3> DEFINE m == j + 1
               n == j + size
               cut == SubSeq(hay, m, n)
    <3>1. m \in Int /\ n \in Int /\ m <= n /\ 1 \in 1..(n - m + 1) /\ m + 1 - 1 = m /\ 1 \in 1..size
      BY <1>1, <2>2
    <3>2. \A i \in m..n : i \in 1..Len(hay)
      BY <1>2, <1>5, <1>8, <2>1, <2>2
    <3>3. \A i \in m..n : hay[i] \in S
      BY <1>5, <3>2, ElementOfSeq
    <3> HIDE DEF m, n
    <3>4. \A i \in 1..n - m + 1 : cut[i] = hay[m + i - 1]
      BY <3>1, <3>3, SubSeqProperties
    <3>5. cut = d
      BY <2>1 DEF m, n
    <3> HIDE DEF cut
    <3>6. cut[1] = hay[m]
      BY <3>1, <3>4
    <3>7. QED
      BY <1>1, <3>1, <3>5, <3>6 DEF m
  <2>4. shown[j + 1] = MarkOf(kind)
    BY <1>8, <2>2, <2>3
  <2>5. j = 0 \/ shown[j] = "\\"
    <3>1. j + 1 = 1 \/ shown[(j + 1) - 1] = "\\"
      BY <1>7, <2>2, <2>4
    <3>2. (j + 1) - 1 = j
      BY <2>2
    <3>3. QED
      BY <2>2, <3>1, <3>2
  <2>6. j # 0 => hay[j] = "\\"
    <3>1. SUFFICES ASSUME j # 0 PROVE hay[j] = "\\"
      OBVIOUS
    <3>2. j \in 1..E
      BY <1>12, <2>2, <3>1, <1>2
    <3>3. QED
      BY <1>8, <2>5, <3>1, <3>2
  <2>7. ~ Closes(hay, d, flanking, j)
    BY <2>2, <2>6 DEF Closes
  <2>8. j + size <= E
    <3>1. CASE size = 1
      BY <1>2, <2>2, <3>1
    <3>2. CASE size = 2
      <4>1. shown[E] # MarkOf(kind)
        BY <1>1, <1>7, <3>2
      <4>2. j + 1 # E
        BY <2>4, <4>1
      <4>3. QED
        BY <1>2, <2>2, <3>2, <4>2
    <3>3. QED
      BY <1>1, <3>1, <3>2
  <2>9. QED
    BY <2>7, <2>8
<1>13. FindCloser(hay, d, flanking) = E
  <2>1. \A j \in Places(hay, d, 0) : j < E => ~ Closes(hay, d, flanking, j) /\ j + Len(d) <= E
    BY <1>12 DEF size
  <2>2. hay \in Seq(S) /\ d \in Seq(S) /\ d # << >> /\ E \in Places(hay, d, 0)
        /\ Closes(hay, d, flanking, E)
    BY <1>1, <1>5, <1>10, <1>11
  <2>3. QED
    BY ONLY <2>1, <2>2, CloserAt
<1>14. hay # << >> /\ Head(hay) = shown[1]
  <2>1. Len(hay) # 0 /\ 1 \in 1..E
    BY <1>1, <1>2, <1>7, <1>8
  <2>2. hay # << >>
    BY <1>5, <2>1, EmptySeq
  <2>3. QED
    BY <1>5, <1>8, <2>1, <2>2, HeadApart
<1>15. QED
  BY <1>5, <1>6, <1>13, <1>14 DEF hay, tail, E, flanking

\* A body between its delimiters, and what follows.
Enclosed(d, shown, after) == d \o (shown \o (d \o after))

\* What a reader makes of a body as written.
BodyRead(shown, kind) == IF kind # "Code" THEN UnescapeMarkdown(shown) ELSE shown

\* The entry of a kind reads an enclosed body of that kind.
LEMMA EntryReads ==
  ASSUME NEW S, MARKDOWN_ESCAPABLE \subseteq S, NEW kind, NEW d, Delimits(d, kind),
         NEW shown \in Seq(S), Encloses(shown, kind), NEW after \in Seq(S),
         kind # "Code" => after = << >> \/ after[1] # "*"
  PROVE  LET rest == Enclosed(d, shown, after)
             n    == Len(d) + Len(shown) + Len(d)
         IN /\ rest \in Seq(S) /\ rest # << >> /\ rest[1] = MarkOf(kind)
            /\ Len(d) = 1 => rest[2] = shown[1]
            /\ MatchEntry(rest, [delim |-> d, kind |-> kind])
                 = [span |-> Span(kind, BodyRead(shown, kind)), consumed |-> n]
            /\ n \in Nat \ {0}
            /\ Drop(rest, n) = after
<1> DEFINE hay == shown \o (d \o after)
           rest == d \o hay
           size == Len(d)
           E == Len(shown)
           n == size + E + size
           entry == [delim |-> d, kind |-> kind]
           flanking == kind # "Code"
<1>1. /\ d \in Seq(S) /\ d # << >> /\ size \in 1..2 /\ (size = 2 => flanking)
      /\ \A i \in 1..size : d[i] = MarkOf(kind)
  <2>1. /\ d \in Seq(S) /\ d # << >>
        /\ Len(d) \in 1..2
        /\ Len(d) = 2 => kind # "Code"
        /\ \A i \in 1..Len(d) : d[i] = MarkOf(kind)
        /\ kind \in TagKinds
    BY DelimitsFacts
  <2>2. QED
    BY <2>1
<1>2. E \in Nat /\ Len(after) \in Nat /\ size \in Nat
  BY <1>1, LenProperties
<1>3. /\ hay \in Seq(S) /\ hay # << >> /\ Head(hay) = shown[1]
      /\ FindCloser(hay, d, flanking) = E
      /\ SubSeq(hay, 1, E) = shown
      /\ Drop(hay, E) = d \o after
  BY ClosedAfterBody, SMTT(20)
<1>4. Len(hay) \in Nat /\ Len(hay) = E + (size + Len(after)) /\ hay[1] = shown[1]
  <2> DEFINE tail == d \o after
  <2>1. tail \in Seq(S) /\ Len(tail) = size + Len(after)
    BY <1>1, ConcatProperties
  <2> HIDE DEF tail
  <2>2. Len(shown \o tail) = Len(shown) + Len(tail)
    BY <2>1, ConcatProperties
  <2>3. Head(hay) = hay[1]
    <3> HIDE DEF hay
    <3>1. QED
      BY <1>3, HeadApart
  <2>4. QED
    BY <1>2, <1>3, <2>1, <2>2, <2>3 DEF tail
<1> HIDE DEF hay
<1>5. rest \in Seq(S) /\ Len(rest) = size + Len(hay)
      /\ \A i \in 1..(size + Len(hay)) : rest[i] = IF i <= size THEN d[i] ELSE hay[i - size]
  BY <1>1, <1>3, ConcatProperties
<1>6. IsPrefix(d, rest)
  BY <1>1, <1>3, PrefixOf
<1>7. Drop(rest, size) = hay
  BY <1>1, <1>3, DropConcat
<1> HIDE DEF rest
<1>8. rest[1] = MarkOf(kind) /\ rest # << >>
  <2>1. 1 \in 1..(size + Len(hay)) /\ 1 <= size /\ 1 \in 1..size
    BY <1>1, <1>4
  <2>2. rest[1] = d[1]
    BY <1>5, <2>1
  <2>3. d[1] = MarkOf(kind)
    BY <1>1, <2>1
  <2>4. Len(rest) # 0
    BY <1>2, <1>4, <1>5, <2>1
  <2>5. rest # << >>
    BY <1>5, <2>4, EmptySeq
  <2>6. QED
    BY <2>2, <2>3, <2>5
<1>9. ASSUME size = 1 PROVE rest[2] = shown[1]
  <2>1. 1 <= Len(hay)
    BY <1>3, EmptySeq
  <2>2. 2 \in 1..(size + Len(hay)) /\ ~ (2 <= size) /\ 2 - size = 1
    BY <1>4, <1>9, <2>1
  <2>3. rest[2] = hay[2 - size]
    BY <1>5, <2>2
  <2>4. QED
    BY <1>4, <2>2, <2>3
<1>10. Encloses(shown, kind) /\ E # 0
  BY <1>2 DEF Encloses
<1>11. flanking => Head(hay) \notin Whitespace \cup {"*"}
  BY <1>3, <1>10 DEF Encloses
<1>12. MatchEntry(rest, entry) = [span |-> Span(kind, BodyRead(shown, kind)), consumed |-> n]
  <2>1. entry.delim = d /\ entry.kind = kind
    OBVIOUS
  <2> HIDE DEF entry
  <2> DEFINE end == FindCloser(hay, d, flanking)
             raw == SubSeq(hay, 1, end)
             body == IF flanking THEN UnescapeMarkdown(raw) ELSE raw
  <2>2. end = E /\ raw = shown /\ body = BodyRead(shown, kind)
    BY <1>3 DEF BodyRead
  <2>3. MatchEntry(rest, entry)
          = IF \/ ~ IsPrefix(d, rest)
               \/ flanking /\ hay # << >> /\ Head(hay) \in Whitespace \cup {"*"}
               \/ end = 0
            THEN NoMatch
            ELSE [span |-> Span(kind, body), consumed |-> size + end + size]
    BY <1>7, <2>1 DEF MatchEntry
  <2> HIDE DEF end, raw, body, E, size, flanking
  <2>4. QED
    BY <1>6, <1>10, <1>11, <2>2, <2>3
<1>13. n \in Nat \ {0}
  BY <1>1, <1>2
<1>14. Drop(rest, n) = after
  <2>1. Drop(hay, E + size) = after
    <3>1. E + size <= Len(hay)
      BY <1>2, <1>4
    <3>2. Drop(Drop(hay, E), size) = Drop(hay, E + size)
      BY <1>2, <1>3, <3>1, DropDrop
    <3>3. Drop(d \o after, size) = after
      BY <1>1, DropConcat
    <3>4. QED
      BY <1>3, <3>2, <3>3
  <2>2. Drop(Drop(rest, size), E + size) = Drop(rest, size + (E + size))
    <3> HIDE DEF E, size
    <3>1. E + size \in Nat /\ size + (E + size) <= Len(rest)
      BY <1>2, <1>4, <1>5
    <3> DEFINE m == E + size
    <3>2. m \in Nat /\ size + m <= Len(rest)
      BY <3>1
    <3> HIDE DEF m
    <3>3. Drop(Drop(rest, size), m) = Drop(rest, size + m)
      BY <1>2, <1>5, <3>2, DropDrop
    <3>4. QED
      BY <3>3 DEF m
  <2>3. size + (E + size) = n
    BY <1>2
  <2>4. QED
    BY <1>7, <2>1, <2>2, <2>3
<1>15. QED
  BY <1>5, <1>8, <1>9, <1>12, <1>13, <1>14 DEF rest, hay, Enclosed

\* The table reads an enclosed body: no longer delimiter starts here.
LEMMA RunReads ==
  ASSUME NEW S, MARKDOWN_ESCAPABLE \subseteq S, NEW kind, NEW d, Delimits(d, kind),
         NEW shown \in Seq(S), Encloses(shown, kind), NEW after \in Seq(S),
         kind # "Code" => after = << >> \/ after[1] # "*"
  PROVE  LET rest == Enclosed(d, shown, after)
             n    == Len(d) + Len(shown) + Len(d)
         IN /\ rest \in Seq(S) /\ rest # << >> /\ ~ StartsEscape(rest)
            /\ TryMatchMarkdown(rest)
                 = [span |-> Span(kind, BodyRead(shown, kind)), consumed |-> n]
            /\ TryMatchMarkdown(rest) # NoMatch
            /\ Drop(rest, n) = after
<1> DEFINE rest == Enclosed(d, shown, after)
           n == Len(d) + Len(shown) + Len(d)
           found == [span |-> Span(kind, BodyRead(shown, kind)), consumed |-> n]
<1>1. /\ rest \in Seq(S) /\ rest # << >> /\ rest[1] = MarkOf(kind)
      /\ Len(d) = 1 => rest[2] = shown[1]
      /\ MatchEntry(rest, [delim |-> d, kind |-> kind]) = found
      /\ n \in Nat \ {0}
      /\ Drop(rest, n) = after
  BY EntryReads
<1>2. found # NoMatch
  BY <1>1 DEF NoMatch
<1> HIDE DEF found, rest, n
<1>3. ~ StartsEscape(rest)
  BY <1>1, EscapableFacts DEF StartsEscape, MarkOf
<1> DEFINE Entry(k) == MatchEntry(rest, MARKDOWN_TABLE[k])
<1>4. \E k \in 1..3 : Entry(k) = found /\ \A j \in 1..3 : j < k => Entry(j) = NoMatch
  <2>1. ASSUME kind = "Italic" \/ kind = "Code"
        PROVE  MatchEntry(rest, [delim |-> <<"*", "*">>, kind |-> "Bold"]) = NoMatch
    <3> DEFINE b == <<"*", "*">>
    <3>1. b \in Seq(S) /\ Len(b) = 2 /\ b[1] = "*" /\ b[2] = "*" /\ 1 \in 1..Len(b) /\ 2 \in 1..Len(b)
      BY DelimiterFacts
    <3> HIDE DEF b
    <3>2. CASE kind = "Italic"
      <4>1. Len(d) = 1
        BY <3>2 DEF Delimits
      <4>2. shown[1] # "*"
        BY <3>2 DEF Encloses
      <4>3. rest[2] # b[2]
        BY <1>1, <3>1, <4>1, <4>2
      <4>4. MatchEntry(rest, [delim |-> b, kind |-> "Bold"]) = NoMatch
        BY <1>1, <3>1, <4>3, EntryNeedsHead
      <4>5. QED
        BY <4>4 DEF b
    <3>3. CASE kind = "Code"
      <4>1. rest[1] # b[1]
        BY <1>1, <3>1, <3>3, EscapableFacts DEF MarkOf
      <4>2. MatchEntry(rest, [delim |-> b, kind |-> "Bold"]) = NoMatch
        BY <1>1, <3>1, <4>1, EntryNeedsHead
      <4>3. QED
        BY <4>2 DEF b
    <3>4. QED
      BY <2>1, <3>2, <3>3
  <2>2. ASSUME kind = "Code"
        PROVE  MatchEntry(rest, [delim |-> <<"*">>, kind |-> "Italic"]) = NoMatch
    <3> DEFINE b == <<"*">>
    <3>1. b \in Seq(S) /\ Len(b) = 1 /\ b[1] = "*" /\ 1 \in 1..Len(b)
      BY DelimiterFacts
    <3> HIDE DEF b
    <3>2. rest[1] # b[1]
      BY <1>1, <2>2, <3>1, EscapableFacts DEF MarkOf
    <3>3. MatchEntry(rest, [delim |-> b, kind |-> "Italic"]) = NoMatch
      BY <1>1, <3>1, <3>2, EntryNeedsHead
    <3>4. QED
      BY <3>3 DEF b
  <2>3. CASE kind = "Bold"
    <3>1. Entry(1) = found
      BY <1>1, <2>3, TableFacts DEF Delimits
    <3>2. \A j \in 1..3 : ~ (j < 1)
      OBVIOUS
    <3>3. 1 \in 1..3
      OBVIOUS
    <3> HIDE DEF Entry
    <3>4. QED
      BY <3>1, <3>2, <3>3
  <2>4. CASE kind = "Italic"
    <3>1. Entry(2) = found
      BY <1>1, <2>4, TableFacts DEF Delimits
    <3>2. Entry(1) = NoMatch
      BY <2>1, <2>4, TableFacts
    <3>3. 2 \in 1..3 /\ \A j \in 1..3 : j < 2 => j = 1
      OBVIOUS
    <3> HIDE DEF Entry
    <3>4. QED
      BY <3>1, <3>2, <3>3
  <2>5. CASE kind = "Code"
    <3>1. Entry(3) = found
      BY <1>1, <2>5, TableFacts DEF Delimits
    <3>2. Entry(1) = NoMatch /\ Entry(2) = NoMatch
      BY <2>1, <2>2, <2>5, TableFacts
    <3>3. 3 \in 1..3 /\ \A j \in 1..3 : j < 3 => j = 1 \/ j = 2
      OBVIOUS
    <3> HIDE DEF Entry
    <3>4. QED
      BY <3>1, <3>2, <3>3
  <2>6. QED
    BY <2>3, <2>4, <2>5 DEF Delimits
<1>5. TryMatchMarkdown(rest) = found
  <2> DEFINE runs == {k \in DOMAIN MARKDOWN_TABLE : MatchEntry(rest, MARKDOWN_TABLE[k]) # NoMatch}
             m == Min(runs)
  <2>1. runs = {k \in 1..3 : Entry(k) # NoMatch}
    BY TableFacts
  <2>2. PICK k \in 1..3 : Entry(k) = found /\ \A j \in 1..3 : j < k => Entry(j) = NoMatch
    BY <1>4
  <2>3. k \in runs
    BY <1>2, <2>1, <2>2
  <2>4. \A j \in runs : k <= j
    BY <2>1, <2>2
  <2>5. runs \subseteq 1..3
    BY <2>1
  <2> HIDE DEF runs
  <2>6. m = k
    <3>1. \E x \in runs : \A y \in runs : x <= y
      BY <2>3, <2>4
    <3>2. m \in runs /\ \A y \in runs : m <= y
      BY <3>1 DEF Min
    <3>3. m <= k /\ k <= m
      BY <2>3, <2>4, <3>2
    <3>4. m \in 1..3 /\ k \in 1..3
      BY <2>5, <3>2
    <3> HIDE DEF m
    <3>5. QED
      BY <3>3, <3>4
  <2>7. TryMatchMarkdown(rest) = IF runs = {} THEN NoMatch ELSE MatchEntry(rest, MARKDOWN_TABLE[m])
    BY DEF TryMatchMarkdown, runs
  <2> HIDE DEF m
  <2>8. QED
    BY <2>2, <2>3, <2>6, <2>7
<1>6. QED
  BY <1>1, <1>2, <1>3, <1>5 DEF found, rest, n

------------------------------------------------------------------------------
(***************************************************************************)
(* ... and the tree.                                                       *)
(***************************************************************************)

\* What Discord's renderer writes of each span.
DiscordPiece(S) == [x \in SpanOf(S) |-> Marked(x, DiscordMarks, ShownBody(x))]

\* An emphasis is read as such unless an asterisk follows it.
Distinct(S) == {p \in SpanOf(S) \X Seq(S) :
                  p[1].kind \in {"Bold", "Italic"} => p[2] = << >> \/ p[2][1] # "*"}

\* The delimiter of each kind is the one the parser's table has for it.
LEMMA MarksDelimit ==
  ASSUME NEW kind \in TagKinds
  PROVE  Delimits(DiscordMarks[kind], kind)
BY DEF TagKinds, DiscordMarks, Delimits

\* A span's piece: escaped text, or an enclosed body.
LEMMA DiscordPieces ==
  ASSUME NEW S, MARKDOWN_ESCAPABLE \subseteq S, NEW x \in SpanOf(S)
  PROVE  /\ DiscordPiece(S)[x] \in Seq(S)
         /\ x.kind = "Text" => DiscordPiece(S)[x] = EscapeMarkdown(x.body)
         /\ x.kind # "Text" =>
              /\ x.kind \in TagKinds
              /\ ShownBody(x) \in Seq(S)
              /\ \A more \in Seq(S) :
                   DiscordPiece(S)[x] \o more
                     = Enclosed(DiscordMarks[x.kind], ShownBody(x), more)
<1> DEFINE shown == ShownBody(x)
           d == DiscordMarks[x.kind]
           out == DiscordPiece(S)[x]
<1>1. x.kind \in Kinds /\ x.body \in Seq(S)
  BY DEF SpanOf
<1>2. shown \in Seq(S)
  BY <1>1, EscapeText DEF ShownBody
<1>3. out = Marked(x, DiscordMarks, shown)
  BY DEF DiscordPiece
<1>4. x.kind = "Text" => shown = EscapeMarkdown(x.body)
  BY DEF ShownBody
<1> HIDE DEF out, shown
<1>5. CASE x.kind = "Text"
  BY <1>2, <1>3, <1>4, <1>5 DEF Marked, out
<1>6. CASE x.kind # "Text"
  <2>1. x.kind \in TagKinds
    BY <1>1, <1>6 DEF Kinds, TagKinds
  <2>2. d \in Seq(S)
    <3>1. Delimits(d, x.kind)
      BY <2>1, MarksDelimit
    <3> HIDE DEF d
    <3> DEFINE kind == x.kind
    <3>2. Delimits(d, kind)
      BY <3>1
    <3> HIDE DEF kind
    <3>3. QED
      BY <3>2, DelimitsFacts
  <2>3. out = (d \o shown) \o d
    BY <1>3, <1>6 DEF Marked
  <2> HIDE DEF d
  <2>4. d \o shown \in Seq(S)
    BY <1>2, <2>2, ConcatProperties
  <2>5. out \in Seq(S)
    BY <2>2, <2>3, <2>4, ConcatProperties
  <2>6. ASSUME NEW more \in Seq(S) PROVE out \o more = Enclosed(d, shown, more)
    <3> DEFINE front == d \o shown
               tail == d \o more
    <3>1. tail \in Seq(S) /\ more \in Seq(S)
      BY <2>2, ConcatProperties
    <3>2. (front \o d) \o more = front \o tail
      <4> HIDE DEF front
      <4>1. front \in Seq(S)
        BY <2>4 DEF front
      <4>2. QED
        BY ONLY <2>2, <3>1, <4>1, ConcatAssociative
    <3> HIDE DEF tail
    <3>3. (d \o shown) \o tail = d \o (shown \o tail)
      BY ONLY <1>2, <2>2, <3>1, ConcatAssociative
    <3>4. QED
      BY <2>3, <3>2, <3>3 DEF Enclosed, tail
  <2>7. QED
    BY <1>2, <1>6, <2>1, <2>5, <2>6 DEF out, shown, d
<1>7. QED
  BY <1>5, <1>6

\* No piece that may follow an emphasis starts with an asterisk.
LEMMA PiecesApart ==
  ASSUME NEW S, MARKDOWN_ESCAPABLE \subseteq S,
         NEW x \in SpanOf(S), NEW s \in Seq(SpanOf(S)), Spells(<<x>> \o s)
  PROVE  <<x, Pieced(s, DiscordPiece(S))>> \in Distinct(S)
<1> DEFINE A == SpanOf(S)
           piece == DiscordPiece(S)
           out == Pieced(s, piece)
<1>1. piece \in Writers(A, S)
  BY DiscordPieces DEF Writers, DiscordPiece
<1>2. out \in Seq(S)
  BY <1>1, PiecesOf
<1>3. Spells(s) /\ (s # << >> => Apart(x, s[1]))
  BY SpellsCons
<1>4. ASSUME x.kind \in {"Bold", "Italic"} PROVE out = << >> \/ out[1] # "*"
  <2>1. CASE s = << >>
    BY <2>1, PiecedEmpty
  <2>2. CASE s # << >>
    <3> DEFINE y == s[1]
               more == Tail(s)
               front == piece[y]
               back == Pieced(more, piece)
    <3>1. y \in A /\ s = <<y>> \o more /\ more \in Seq(A) /\ 1 \in 1..Len(s)
      <4>1. Len(s) \in Nat \ {0} /\ s[1] \in A /\ Tail(s) = Drop(s, 1) /\ s = <<s[1]>> \o Tail(s)
        BY <2>2, HeadApart
      <4>2. 1 \in 0..Len(s) /\ 1 \in 1..Len(s)
        BY <4>1
      <4>3. Drop(s, 1) \in Seq(A)
        BY <4>2, CutInTwo
      <4>4. QED
        BY <4>1, <4>2, <4>3
    <3>2. SpanSpells(y) /\ Apart(x, y)
      BY <1>3, <2>2, <3>1 DEF Spells
    <3> HIDE DEF y, more
    <3>3. out = front \o back
      <4>0. <<y>> \in Seq(A)
        BY <3>1
      <4>1. Pieced(<<y>> \o more, piece) = Pieced(<<y>>, piece) \o Pieced(more, piece)
        <5> HIDE DEF piece, A
        <5>1. QED
          BY ONLY <1>1, <3>1, <4>0, PiecedConcat
      <4>2. Pieced(<<y>>, piece) = piece[y]
        <5> HIDE DEF piece, A
        <5>1. QED
          BY ONLY <1>1, <3>1, PiecedOne
      <4>3. QED
        BY <3>1, <4>1, <4>2
    <3>4. back \in Seq(S)
      BY <1>1, <3>1, PiecesOf
    <3> HIDE DEF back
    <3>5. y.body \in Seq(S) /\ y.body # << >> /\ y.kind \in Kinds
      BY <3>1, <3>2 DEF SpanOf, SpanSpells
    <3>6. y.kind = "Text" \/ y.kind = "Code"
      BY <1>4, <3>2, <3>5 DEF Apart, Kinds
    <3>7. CASE y.kind = "Text"
      <4>1. front = EscapeMarkdown(y.body)
        BY <3>1, <3>7, DiscordPieces
      <4> DEFINE body == y.body
                 esc == EscapeMarkdown(body)
      <4>2. body \in Seq(S) /\ body # << >>
        BY <3>5
      <4> HIDE DEF body
      <4>3. esc \in Seq(S)
        BY <4>2, EscapeText
      <4>4. Covered(esc) /\ Len(esc) > 0
        BY <4>2, EscapedShape
      <4> HIDE DEF esc
      <4>5. Len(esc) \in Nat /\ Len(back) \in Nat /\ 1 \in 1..Len(esc)
        BY <3>4, <4>3, <4>4, LenProperties
      <4>6. esc[1] # "*"
        BY <4>4, <4>5 DEF Covered
      <4>7. (esc \o back)[1] = esc[1]
        <5>1. 1 \in 1..(Len(esc) + Len(back)) /\ 1 <= Len(esc)
          BY <4>5
        <5>2. QED
          BY <3>4, <4>3, <5>1, ConcatProperties
      <4>8. QED
        BY <3>3, <4>1, <4>6, <4>7 DEF esc, body
    <3>8. CASE y.kind = "Code"
      <4> DEFINE shown == ShownBody(y)
                 d == <<Tick>>
                 rest == shown \o (d \o back)
      <4>1. shown \in Seq(S) /\ front \o back = Enclosed(DiscordMarks["Code"], shown, back)
        BY <3>1, <3>4, <3>8, DiscordPieces
      <4>2. DiscordMarks["Code"] = d /\ d \in Seq(S) /\ Len(d) = 1 /\ d[1] = Tick
        BY EscapableFacts DEF DiscordMarks
      <4> HIDE DEF d, shown
      <4>3. d \o back \in Seq(S)
        BY <3>4, <4>2, ConcatProperties
      <4>4. rest \in Seq(S)
        BY <4>1, <4>3, ConcatProperties
      <4>5. front \o back = d \o rest
        BY <4>1, <4>2 DEF Enclosed
      <4> HIDE DEF rest
      <4>6. (d \o rest)[1] = d[1]
        <5>1. Len(rest) \in Nat
          BY <4>4, LenProperties
        <5>2. 1 \in 1..(Len(d) + Len(rest)) /\ 1 <= Len(d)
          BY <4>2, <5>1
        <5>3. QED
          BY <4>2, <4>4, <5>2, ConcatProperties
      <4>7. QED
        BY <3>3, <4>2, <4>5, <4>6, EscapableFacts
    <3>9. QED
      BY <3>6, <3>7, <3>8
  <2>3. QED
    BY <2>1, <2>2
<1> HIDE DEF out
<1>5. <<x, out>> \in Distinct(S)
  BY <1>2, <1>4 DEF Distinct
<1>6. QED
  BY <1>5 DEF out

\* A tree that can be spelled is read back from the markdown that Discord is given.
LEMMA DiscordReadsBack ==
  ASSUME NEW S, MARKDOWN_ESCAPABLE \subseteq S, NEW spans \in Seq(SpanOf(S)), Spells(spans)
  PROVE  ParseMarkdown(RenderDiscordMarkdown(spans)) = spans
<1> DEFINE I == SpanOf(S)
           piece == DiscordPiece(S)
           Sep == Distinct(S)
<1>1. PICK e : /\ Ends(e, Cursors(S), MarkdownStep(S), MarkdownSize(S))
               /\ \A input \in Seq(S) : LET end == e[Cursor(<< >>, << >>, input)]
                                        IN ParseMarkdown(input) = end.spans \o Flush(end.buf)
  BY MarkdownEnds
<1>2. Ends(e, Cursors(S), MarkdownStep(S), MarkdownSize(S))
  BY <1>1
<1>3. ASSUME NEW x \in I PROVE x.body \in Seq(S) /\ x.kind \in Kinds /\ x = Span(x.kind, x.body)
  BY DEF SpanOf, Span
<1>4. piece \in Writers(I, S)
  BY DiscordPieces DEF Writers, DiscordPiece
<1>5. RenderDiscordMarkdown(spans) = Pieced(spans, piece)
  <2>1. \A i \in DOMAIN spans : spans[i] \in I
    BY LenProperties, ElementOfSeq
  <2>2. \A i \in DOMAIN spans :
          Marked(spans[i], DiscordMarks,
                 IF spans[i].kind = "Code" THEN spans[i].body ELSE EscapeMarkdown(spans[i].body))
            = piece[spans[i]]
    BY <2>1 DEF DiscordPiece, ShownBody
  <2>3. [i \in DOMAIN spans |->
          Marked(spans[i], DiscordMarks,
                 IF spans[i].kind = "Code" THEN spans[i].body ELSE EscapeMarkdown(spans[i].body))]
          = [i \in DOMAIN spans |-> piece[spans[i]]]
    BY <2>2
  <2>4. QED
    BY <2>3 DEF RenderDiscordMarkdown, Pieced, Parts
<1>6. \A x \in I : x.kind = "Text" => piece[x] = EscapeMarkdown(x.body)
  BY DiscordPieces
<1>7. ASSUME NEW x \in I, x.kind # "Text"
      PROVE  /\ x.kind \in TagKinds
             /\ ShownBody(x) \in Seq(S)
             /\ \A more \in Seq(S) :
                  piece[x] \o more = Enclosed(DiscordMarks[x.kind], ShownBody(x), more)
  BY <1>7, DiscordPieces
<1> HIDE DEF piece
<1>8. ASSUME NEW done \in Seq(I), NEW buf \in Seq(S)
      PROVE  e[Cursor(done, buf, << >>)] = Cursor(done, buf, << >>)
  <2> DEFINE none == << >>
  <2>1. none \in Seq(S) /\ none = << >>
    BY EmptySeq
  <2> HIDE DEF none
  <2>2. LET at == Cursor(done, buf, none)
        IN /\ none = << >> => e[at] = at
           /\ none # << >> => e[at] = e[ParseMarkdownRound(at)]
    <3>1. MARKDOWN_ESCAPABLE \subseteq S /\ done \in Seq(SpanOf(S)) /\ buf \in Seq(S) /\ none \in Seq(S)
      BY <2>1
    <3>2. QED
      BY ONLY <1>2, <3>1, MarkdownStepEnds
  <2>3. QED
    BY <2>1, <2>2
<1>9. ASSUME NEW done \in Seq(I), NEW buf \in Seq(S), NEW x \in I, NEW more \in Seq(S),
             x.kind = "Text"
      PROVE  e[Cursor(done, buf, piece[x] \o more)] = e[Cursor(done, buf \o x.body, more)]
  <2> DEFINE body == x.body
  <2>1. piece[x] = EscapeMarkdown(body) /\ body \in Seq(S)
    BY <1>3, <1>6, <1>9
  <2> HIDE DEF body
  <2>2. e[Cursor(done, buf, EscapeMarkdown(body) \o more)] = e[Cursor(done, buf \o body, more)]
    BY <1>2, <2>1, MarkdownReadsText
  <2>3. QED
    BY <2>1, <2>2 DEF body
<1>10. ASSUME NEW done \in Seq(I), NEW buf \in Seq(S), NEW x \in I, NEW more \in Seq(S),
              x.kind # "Text", SpanSpells(x), <<x, more>> \in Sep
       PROVE  e[Cursor(done, buf, piece[x] \o more)]
                = e[Cursor(done \o Flush(buf) \o <<x>>, << >>, more)]
  <2> DEFINE kind == x.kind
             shown == ShownBody(x)
             d == DiscordMarks[kind]
             n == Len(d) + Len(shown) + Len(d)
             rest == Enclosed(d, shown, more)
             now == done \o Flush(buf) \o <<x>>
             at == Cursor(done, buf, rest)
  <2>1. /\ kind \in TagKinds /\ Delimits(d, kind)
        /\ shown \in Seq(S) /\ Encloses(shown, kind) /\ BodyRead(shown, kind) = x.body
        /\ x = Span(kind, x.body)
    <3>1. kind \in TagKinds
      BY <1>7, <1>10
    <3>2. Delimits(d, kind)
      BY <3>1, MarksDelimit
    <3>3. /\ ShownBody(x) \in Seq(S)
          /\ Encloses(ShownBody(x), x.kind)
          /\ (IF x.kind # "Code" THEN UnescapeMarkdown(ShownBody(x)) ELSE ShownBody(x)) = x.body
      BY <1>10, <3>1, BodyEncloses
    <3>4. QED
      BY <1>3, <3>1, <3>2, <3>3 DEF BodyRead
  <2>2. kind # "Code" => more = << >> \/ more[1] # "*"
    BY <1>10, <2>1 DEF Distinct, TagKinds
  <2>3. piece[x] \o more = rest
    BY <1>7, <1>10
  <2> HIDE DEF d, shown
  <2>4. Span(kind, BodyRead(shown, kind)) = x
    BY <2>1
  <2> HIDE DEF kind
  <2>5. /\ rest \in Seq(S) /\ rest # << >> /\ ~ StartsEscape(rest)
        /\ TryMatchMarkdown(rest) = [span |-> Span(kind, BodyRead(shown, kind)), consumed |-> n]
        /\ TryMatchMarkdown(rest) # NoMatch
        /\ Drop(rest, n) = more
    BY <2>1, <2>2, RunReads
  <2> HIDE DEF rest, n
  <2>6. ParseMarkdownRound(at) = Cursor(now, << >>, more)
    <3>1. TryMatchMarkdown(rest) = [span |-> x, consumed |-> n]
      BY <2>4, <2>5
    <3>2. ParseMarkdownRound(Cursor(done, buf, rest))
            = Cursor(done \o Flush(buf) \o <<x>>, << >>, Drop(rest, n))
      BY <2>5, <3>1, RunRound
    <3>3. QED
      BY <2>5, <3>2
  <2>7. e[at] = e[ParseMarkdownRound(at)]
    BY <1>2, <2>5, MarkdownStepEnds
  <2> HIDE DEF at, now
  <2>8. e[at] = e[Cursor(now, << >>, more)]
    BY <2>6, <2>7
  <2>9. QED
    BY <2>3, <2>8 DEF at, now
<1>11. \A x \in I, s \in Seq(I) : Spells(<<x>> \o s) => <<x, Pieced(s, piece)>> \in Sep
  BY PiecesApart DEF piece
<1> HIDE DEF I, Sep
<1>12. ReadsBack(e, S, I, piece, Sep)
  BY <1>8, <1>9, <1>10, <1>11 DEF ReadsBack, I
<1>13. ReadsTree(e, Pieced(spans, piece), spans)
  <2>1. I \in SUBSET SpanOf(S)
    BY DEF I
  <2>2. spans \in Seq(I)
    BY DEF I
  <2>3. Spells(spans) /\ piece \in Writers(I, S)
    BY <1>4
  <2>4. QED
    BY ONLY <1>12, <2>1, <2>2, <2>3, TreeReadsBack
<1>14. Pieced(spans, piece) \in Seq(S)
  BY <1>4, PiecesOf DEF I
<1>15. QED
  BY <1>1, <1>5, <1>13, <1>14 DEF ReadsTree

------------------------------------------------------------------------------
(***************************************************************************)
(* What a host writes survives.                                            *)
(***************************************************************************)

\* A tree that is well-formed in the readers' sense can be spelled.
LEMMA WellFormedSpells ==
  ASSUME NEW S, NEW spans \in Seq(SpanOf(S)), WellFormed(spans)
  PROVE  Spells(spans)
<1>1. DOMAIN spans = 1..Len(spans) /\ \A i \in 1..Len(spans) : spans[i] \in SpanOf(S)
  BY LenProperties, ElementOfSeq
<1>2. ASSUME NEW i \in 1..Len(spans) PROVE SpanSpells(spans[i])
  <2> DEFINE x == spans[i]
             body == x.body
  <2>1. body \in Seq(S)
    BY <1>1 DEF SpanOf
  <2>2. /\ body # << >>
        /\ x.kind \in {"Bold", "Italic"} =>
             ~Touches(body, Whitespace) /\ Last(body) \notin {"\\", "*"}
        /\ x.kind = "Code" => Tick \notin Range(body) /\ Last(body) # "\\"
    BY <1>1 DEF WellFormed
  <2> HIDE DEF body
  <2>3. Head(body) = body[1] /\ Last(body) = body[Len(body)]
    BY <2>1, <2>2, HeadApart DEF Last
  <2>4. DOMAIN body = 1..Len(body)
    BY <2>1, LenProperties
  <2>5. ASSUME x.kind \in {"Bold", "Italic"}
        PROVE  body[1] \notin Whitespace /\ body[Len(body)] \notin Whitespace \cup {"\\", "*"}
    BY <2>2, <2>3, <2>5 DEF Touches
  <2>6. ASSUME x.kind = "Code"
        PROVE  body[Len(body)] # "\\" /\ \A j \in 1..Len(body) : body[j] # Tick
    BY <2>2, <2>3, <2>4, <2>6 DEF Range
  <2>7. QED
    BY <2>2, <2>5, <2>6 DEF SpanSpells, body
<1>3. ASSUME NEW i \in 1..(Len(spans) - 1) PROVE Apart(spans[i], spans[i + 1])
  BY DEF WellFormed, Apart
<1>4. QED
  BY <1>2, <1>3 DEF Spells

\* What a host has typed is made of the characters of its dialect.
WrittenInDialect ==
  /\ dialect \in {"html", "markdown", "card"}
  /\ dialect = "html" => text \in Seq(HtmlChars)
  /\ dialect = "markdown" => text \in Seq(MarkdownChars)

\* No step writes a character of another dialect.
LEMMA WritingStaysInDialect == Spec => []WrittenInDialect
<1>1. Init => WrittenInDialect
  <2>1. << >> \in Seq(HtmlChars) /\ << >> \in Seq(MarkdownChars)
    BY EmptySeq
  <2>2. QED
    BY <2>1 DEF Init, WrittenInDialect
<1>2. WrittenInDialect /\ [Next]_vars => WrittenInDialect'
  <2>1. SUFFICES ASSUME WrittenInDialect, [Next]_vars PROVE WrittenInDialect'
    OBVIOUS
  <2>2. ASSUME NEW c \in HtmlChars \cup MarkdownChars, Type(c) PROVE WrittenInDialect'
    <3>1. dialect' = dialect /\ text' = Append(text, c)
      BY <2>2 DEF Type
    <3>2. CASE dialect = "html"
      <4>1. text \in Seq(HtmlChars) /\ c \in HtmlChars
        BY <2>1, <2>2, <3>2 DEF Type, WrittenInDialect
      <4>2. text' \in Seq(HtmlChars)
        BY <3>1, <4>1, AppendProperties
      <4>3. QED
        BY <3>1, <3>2, <4>2 DEF WrittenInDialect
    <3>3. CASE dialect = "markdown"
      <4>1. text \in Seq(MarkdownChars) /\ c \in MarkdownChars
        BY <2>1, <2>2, <3>3 DEF Type, WrittenInDialect
      <4>2. text' \in Seq(MarkdownChars)
        BY <3>1, <4>1, AppendProperties
      <4>3. QED
        BY <3>1, <3>3, <4>2 DEF WrittenInDialect
    <3>4. QED
      BY <2>2, <3>2, <3>3 DEF Type
  <2>3. ASSUME NEW action \in Actions, AddAction(action) PROVE WrittenInDialect'
    BY <2>1, <2>3 DEF AddAction, WrittenInDialect
  <2>4. CASE UNCHANGED vars
    BY <2>1, <2>4 DEF vars, WrittenInDialect
  <2>5. QED
    BY <2>1, <2>2, <2>3, <2>4 DEF Next
<1>3. QED
  BY <1>1, <1>2, PTL DEF Spec

\* What each channel makes of rich text, and Telegram of text.
LEMMA WhatIsRendered ==
  ASSUME NEW t
  PROVE  /\ Render("telegram", RichTextOf(t)).text = RenderTelegramHtml(Parse(t))
         /\ Render("discord", RichTextOf(t)).text = RenderDiscordMarkdown(Parse(t))
         /\ Render("slack", RichTextOf(t)).text = RenderSlackMrkdwn(Parse(t))
         /\ Render("messenger", RichTextOf(t)).text = RenderPlain(Parse(t))
         /\ Render("whatsapp", RichTextOf(t)).text = RenderWhatsAppText(Parse(t))
         /\ Render("telegram", Text(t)).text = EncodeText(t)
<1> DEFINE rich == RichTextOf(t)
           plain == Text(t)
<1>1. rich.type = "RichText" /\ rich.body = t /\ plain.type = "Text" /\ plain.body = t
  BY DEF RichTextOf, Text
<1> HIDE DEF rich, plain
<1>2. RenderTelegram(rich) = Payload("text", RenderTelegramHtml(Parse(t)), << >>)
  BY <1>1 DEF RenderTelegram
<1>3. RenderDiscord(rich) = Payload("text", RenderDiscordMarkdown(Parse(t)), << >>)
  BY <1>1 DEF RenderDiscord
<1>4. RenderSlack(rich) = Payload("text", RenderSlackMrkdwn(Parse(t)), << >>)
  BY <1>1 DEF RenderSlack
<1>5. RenderMessenger(rich) = Payload("text", RenderPlain(Parse(t)), << >>)
  BY <1>1 DEF RenderMessenger
<1>6. RenderWhatsApp(rich) = Payload("text", RenderWhatsAppText(Parse(t)), << >>)
  BY <1>1 DEF RenderWhatsApp
<1>7. RenderTelegram(plain) = Payload("text", EncodeText(t), << >>)
  BY <1>1 DEF RenderTelegram
<1>8. /\ Render("telegram", rich) = RenderTelegram(rich)
      /\ Render("discord", rich) = RenderDiscord(rich)
      /\ Render("slack", rich) = RenderSlack(rich)
      /\ Render("messenger", rich) = RenderMessenger(rich)
      /\ Render("whatsapp", rich) = RenderWhatsApp(rich)
      /\ Render("telegram", plain) = RenderTelegram(plain)
  BY DEF Render
<1>9. \A words : Payload("text", words, << >>).text = words
  BY DEF Payload
<1>10. QED
  BY <1>2, <1>3, <1>4, <1>5, <1>6, <1>7, <1>8, <1>9 DEF rich, plain

\* Every text of the HTML subset survives every channel.
LEMMA EveryMarkupSurvives ==
  ASSUME dialect = "html", text \in Seq(HtmlChars)
  PROVE  MarkupSurvives
<1> DEFINE S == HtmlChars \cup Tags \cup MARKDOWN_ESCAPABLE
           spans == Parse(text)
           out(ch) == Render(ch, RichTextOf(text)).text
           telegram == TelegramReads(out("telegram"))
<1>1. Tags \subseteq S /\ MARKDOWN_ESCAPABLE \subseteq S /\ HtmlChars \subseteq S
  OBVIOUS
<1>2. Plain(S)
  <2>1. Tags \cap Range(Entity) = {} /\ MARKDOWN_ESCAPABLE \cap Range(Entity) = {}
    BY DEF Tags, MARKDOWN_ESCAPABLE, Tick, Range, Entity
  <2>2. QED
    BY <2>1, HostWritesNoEntity DEF Plain
<1> HIDE DEF S
<1>3. text \in Seq(S)
  BY <1>1, SeqSubset
<1>4. spans \in Seq(SpanOf(S)) /\ RenderRichText(spans) = text
  BY <1>1, <1>3, ParseLosesNothing
<1>5. /\ out("telegram") = RenderTelegramHtml(spans)
      /\ out("discord") = RenderDiscordMarkdown(spans)
      /\ out("slack") = RenderSlackMrkdwn(spans)
      /\ out("messenger") = RenderPlain(spans)
      /\ out("whatsapp") = RenderWhatsAppText(spans)
      /\ Render("telegram", Text(text)).text = EncodeText(text)
  BY WhatIsRendered
<1> HIDE DEF spans, out
<1>6. telegram = ReadTo("Text", Meaning(spans), TRUE)
  BY <1>2, <1>4, <1>5, TelegramReadsMeaning
<1>7. telegram.ok /\ telegram.style = "Text" /\ telegram.words = Meaning(spans)
  BY <1>6 DEF ReadTo
<1>8. /\ Range(out("slack")) \cap DOMAIN Entity = {}
      /\ [i \in DOMAIN out("slack") |-> Decode(out("slack")[i])] = out("whatsapp")
  BY <1>2, <1>4, <1>5, SlackIsDecoded
<1>9. out("messenger") = [i \in DOMAIN Meaning(spans) |-> Meaning(spans)[i][2]]
  BY <1>4, <1>5, PlainIsMeaning
<1>10. WellFormed(spans) => ParseMarkdown(out("discord")) = spans
  BY <1>1, <1>4, <1>5, WellFormedSpells, DiscordReadsBack
<1>11. TelegramReads(Render("telegram", Text(text)).text).words = Meaning(Flush(text))
  BY <1>2, <1>3, <1>5, TelegramReadsPlainText
<1> HIDE DEF telegram
<1>12. out("messenger") = [i \in DOMAIN telegram.words |-> telegram.words[i][2]]
  BY <1>7, <1>9
<1>13. QED
  BY <1>4, <1>7, <1>8, <1>10, <1>11, <1>12 DEF MarkupSurvives, spans, out, telegram

\* Markup survives: no word of a text in the HTML subset is lost, invented or given another
\* style on its way to a reader (rich_text.rs:49-84 and the renderers).
THEOREM MarkupIsSafe == Spec => []MarkupSurvives
<1>1. WrittenInDialect => MarkupSurvives
  BY EveryMarkupSurvives DEF WrittenInDialect, MarkupSurvives
<1>2. QED
  BY <1>1, WritingStaysInDialect, PTL

\* Every text of the markdown subset survives.
LEMMA EveryMarkdownSurvives ==
  ASSUME dialect = "markdown", text \in Seq(MarkdownChars)
  PROVE  MarkdownSurvives
<1> DEFINE spans == ParseMarkdown(text)
           M == MarkdownChars \cup MARKDOWN_ESCAPABLE
<1>1. MARKDOWN_ESCAPABLE \subseteq M /\ MarkdownChars \subseteq M
  OBVIOUS
<1> HIDE DEF M
<1>2. text \in Seq(M)
  BY <1>1, SeqSubset
<1>3. ASSUME Range(text) \cap Tags = {}
      PROVE  /\ Parse(RenderRichText(spans)) = spans
             /\ ParseMarkdown(Render("discord", RichTextOf(RenderRichText(spans))).text) = spans
  <2> DEFINE S == M \cup Tags
             P == M \ Tags
  <2>1. Tags \subseteq S /\ P \in SUBSET (S \ Tags) /\ MARKDOWN_ESCAPABLE \subseteq P
    <3>1. MARKDOWN_ESCAPABLE \cap Tags = {}
      BY DEF MARKDOWN_ESCAPABLE, Tags, Tick
    <3>2. QED
      BY <1>1, <3>1
  <2>2. text \in Seq(P)
    <3>1. Len(text) \in Nat /\ DOMAIN text = 1..Len(text) /\ text = [i \in 1..Len(text) |-> text[i]]
      BY <1>2, LenProperties
    <3>2. \A i \in 1..Len(text) : text[i] \in M /\ text[i] \notin Tags
      BY <1>2, <1>3, <3>1, ElementOfSeq DEF Range
    <3>3. text \in [1..Len(text) -> P]
      BY <3>1, <3>2
    <3>4. QED
      BY <3>1, <3>3, SeqDef
  <2> HIDE DEF S, P
  <2>3. spans \in Seq(SpanOf(P)) /\ Spells(spans)
    BY <2>1, <2>2, ParsedSpells
  <2> HIDE DEF spans
  <2>4. Parse(RenderRichText(spans)) = spans
    BY <2>1, <2>3, RichTextReadsBack
  <2>5. ParseMarkdown(RenderDiscordMarkdown(spans)) = spans
    BY <2>1, <2>3, DiscordReadsBack
  <2>6. Render("discord", RichTextOf(RenderRichText(spans))).text
          = RenderDiscordMarkdown(Parse(RenderRichText(spans)))
    BY WhatIsRendered
  <2>7. QED
    BY <2>4, <2>5, <2>6
<1> DEFINE One(kind) == <<Span(kind, text)>>
<1>4. ASSUME NEW kind \in Kinds, SpanSpells(Span(kind, text))
      PROVE  /\ ParseMarkdown(RenderDiscordMarkdown(One(kind))) = One(kind)
             /\ RenderDiscordMarkdown(One(kind))
                  = Marked(Span(kind, text), DiscordMarks, ShownBody(Span(kind, text)))
  <2> DEFINE x == Span(kind, text)
             one == <<x>>
             piece == DiscordPiece(M)
  <2>1. x \in SpanOf(M)
    BY <1>2 DEF Span, SpanOf
  <2>2. SpanSpells(x)
    BY <1>4
  <2> HIDE DEF x
  <2>3. one \in Seq(SpanOf(M)) /\ Len(one) = 1 /\ one[1] = x
    BY <2>1
  <2>4. Spells(one)
    <3>1. \A i \in 1..1 : i = 1
      OBVIOUS
    <3> HIDE DEF one
    <3>2. \A i \in 1..Len(one) : SpanSpells(one[i])
      BY <2>2, <2>3, <3>1
    <3>3. 1..(Len(one) - 1) = {}
      BY <2>3
    <3>4. QED
      BY <3>2, <3>3 DEF Spells
  <2>5. ParseMarkdown(RenderDiscordMarkdown(one)) = one
    <3> HIDE DEF one
    <3>1. QED
      BY <1>1, <2>3, <2>4, DiscordReadsBack
  <2>6. RenderDiscordMarkdown(one) = piece[x]
    <3>1. piece \in Writers(SpanOf(M), M)
      BY <1>1, DiscordPieces DEF Writers, DiscordPiece
    <3>2. Pieced(one, piece) = piece[x]
      <4> HIDE DEF piece
      <4>1. QED
        BY <2>1, <3>1, PiecedOne
    <3>3. DOMAIN one = 1..1 /\ \A i \in 1..1 : one[i] = x
      BY <2>3
    <3> HIDE DEF one
    <3>4. [i \in DOMAIN one |->
             Marked(one[i], DiscordMarks,
                    IF one[i].kind = "Code" THEN one[i].body ELSE EscapeMarkdown(one[i].body))]
            = [i \in DOMAIN one |-> piece[one[i]]]
      BY <2>1, <3>3 DEF DiscordPiece, ShownBody
    <3>5. QED
      BY <3>2, <3>4 DEF RenderDiscordMarkdown, Pieced, Parts
  <2>7. piece[x] = Marked(x, DiscordMarks, ShownBody(x))
    BY <2>1 DEF DiscordPiece
  <2> HIDE DEF piece
  <2>8. QED
    BY <2>5, <2>6, <2>7 DEF one, x
<1>5. ParseMarkdown(EscapeMarkdown(text)) = Flush(text)
  <2>1. CASE text = << >>
    <3> DEFINE none == << >>
    <3>1. none \in Seq(SpanOf(M)) /\ Len(none) = 0 /\ none = << >>
      BY EmptySeq
    <3>2. RenderDiscordMarkdown(none) = << >> /\ EscapeMarkdown(none) = << >>
      <4>1. DOMAIN none = {} /\ Parts(none, DiscordPiece(M)) = << >>
        BY DEF Parts
      <4>2. RenderDiscordMarkdown(none) = FlattenSeq(<< >>)
        BY DEF RenderDiscordMarkdown
      <4>3. QED
        BY <1>1, <4>2, FlattenEmpty, EscapeText
    <3> HIDE DEF none
    <3>3. Spells(none)
      BY <3>1 DEF Spells
    <3>4. ParseMarkdown(RenderDiscordMarkdown(none)) = none
      BY <1>1, <3>1, <3>3, DiscordReadsBack
    <3>5. QED
      BY <2>1, <3>1, <3>2, <3>4 DEF Flush
  <2>2. CASE text # << >>
    <3> DEFINE x == Span("Text", text)
    <3>1. x.kind = "Text" /\ x.body = text /\ "Text" \in Kinds
      BY DEF Span, Kinds
    <3>2. SpanSpells(x)
      BY <2>2, <3>1 DEF SpanSpells
    <3>3. Marked(x, DiscordMarks, ShownBody(x)) = EscapeMarkdown(text)
      BY <3>1 DEF Marked, ShownBody
    <3>4. Flush(text) = <<x>>
      BY <2>2 DEF Flush
    <3>5. QED
      BY <1>4, <3>1, <3>2, <3>3, <3>4
  <2>3. QED
    BY <2>1, <2>2
<1>6. ASSUME text # << >>, ~Touches(text, Whitespace), Last(text) \notin {"\\", "*"}
      PROVE  ParseMarkdown(InBold(text)) = <<Span("Bold", text)>>
  <2> DEFINE x == Span("Bold", text)
  <2>1. x.kind = "Bold" /\ x.body = text /\ "Bold" \in Kinds
    BY DEF Span, Kinds
  <2>2. Head(text) = text[1] /\ Last(text) = text[Len(text)]
    BY <1>2, <1>6, HeadApart DEF Last
  <2>3. text[1] \notin Whitespace /\ text[Len(text)] \notin Whitespace \cup {"\\", "*"}
    BY <1>6, <2>2 DEF Touches
  <2>4. SpanSpells(x)
    BY <1>6, <2>1, <2>3 DEF SpanSpells
  <2>5. Marked(x, DiscordMarks, ShownBody(x)) = InBold(text)
    BY <2>1 DEF Marked, ShownBody, InBold, DiscordMarks
  <2>6. QED
    BY <1>4, <2>1, <2>4, <2>5
<1>7. QED
  BY <1>3, <1>5, <1>6 DEF MarkdownSurvives

\* Markdown survives: its spans reach every channel and come back from Discord, and what is
\* escaped is only text (rich_text.rs:291-421).
THEOREM MarkdownIsSafe == Spec => []MarkdownSurvives
<1>1. WrittenInDialect => MarkdownSurvives
  BY EveryMarkdownSurvives DEF WrittenInDialect, MarkdownSurvives
<1>2. QED
  BY <1>1, WritingStaysInDialect, PTL

------------------------------------------------------------------------------
(***************************************************************************)
(* Cards: texts that leave a mark, titles that differ, and what a text     *)
(* shows.                                                                  *)
(***************************************************************************)

\* The characters of a text that leave a mark.
Ink(s) == \E i \in 1..Len(s) : s[i] \notin Whitespace

\* Every bounded nonempty set of naturals has a greatest element.
LEMMA GreatestNatural ==
  ASSUME NEW T \in SUBSET Nat, T # {}, NEW n \in Nat, \A k \in T : k <= n
  PROVE  \E m \in T : \A k \in T : k <= m
<1> DEFINE U == {n - k : k \in T}
<1>1. U \in SUBSET Nat /\ U # {}
  <2>1. PICK k \in T : TRUE
    OBVIOUS
  <2>2. n - k \in U
    BY <2>1
  <2>3. \A j \in T : n - j \in Nat
    OBVIOUS
  <2>4. QED
    BY <2>2, <2>3
<1>2. PICK u \in U : \A k \in U : u <= k
  BY <1>1, LeastNatural
<1>3. PICK m \in T : u = n - m
  OBVIOUS
<1>4. ASSUME NEW k \in T PROVE k <= m
  <2>1. n - k \in U
    OBVIOUS
  <2>2. n - m <= n - k /\ k \in Nat /\ m \in Nat
    BY <1>2, <1>3, <2>1
  <2>3. QED
    BY <2>2
<1>5. QED
  BY <1>4

\* What is trimmed is blank if the text was, and begins with a mark if not.
LEMMA TrimFacts ==
  ASSUME NEW S, NEW s \in Seq(S)
  PROVE  /\ Trim(s) \in Seq(S)
         /\ Trim(s) # << >> <=> Ink(s)
         /\ Ink(s) => Trim(s)[1] \notin Whitespace
<1> DEFINE ink == {i \in DOMAIN s : s[i] \notin Whitespace}
<1>1. Len(s) \in Nat /\ DOMAIN s = 1..Len(s)
  BY LenProperties
<1>2. Ink(s) <=> ink # {}
  BY <1>1 DEF Ink
<1>3. Trim(s) = IF ink = {} THEN << >> ELSE SubSeq(s, Min(ink), Max(ink))
  BY DEF Trim
<1>4. CASE ink = {}
  BY <1>2, <1>3, <1>4, EmptySeq
<1>5. CASE ink # {}
  <2>1. ink \in SUBSET Nat /\ \A k \in ink : k <= Len(s)
    BY <1>1
  <2>2. Min(ink) \in ink /\ \A k \in ink : Min(ink) <= k
    <3>1. \E m \in ink : \A k \in ink : m <= k
      <4> HIDE DEF ink
      <4>1. QED
        BY <1>5, <2>1, LeastNatural
    <3> HIDE DEF ink
    <3>2. QED
      BY <3>1 DEF Min
  <2>3. Max(ink) \in ink
    <3>1. \E m \in ink : \A k \in ink : k <= m
      <4> HIDE DEF ink
      <4>1. QED
        BY <1>1, <1>5, <2>1, GreatestNatural
    <3>2. \E m \in ink : \A k \in ink : m >= k
      <4>1. PICK m \in ink : \A k \in ink : k <= m
        BY <3>1
      <4>2. \A k \in ink : m >= k
        BY <2>1, <4>1
      <4>3. QED
        BY <4>2
    <3> HIDE DEF ink
    <3>3. QED
      BY <3>2 DEF Max
  <2> DEFINE lo == Min(ink)
             hi == Max(ink)
  <2>4. lo \in 1..Len(s) /\ hi \in 1..Len(s) /\ lo <= hi /\ s[lo] \notin Whitespace
    BY <1>1, <2>2, <2>3
  <2> HIDE DEF ink, lo, hi
  <2>5. /\ SubSeq(s, lo, hi) \in Seq(S)
        /\ Len(SubSeq(s, lo, hi)) = hi - lo + 1
        /\ SubSeq(s, lo, hi)[1] = s[lo]
    <3>1. SubSeq(s, lo, hi) \in Seq(S) /\ Len(SubSeq(s, lo, hi)) = hi - lo + 1
      BY <1>1, <2>4, SubSeqProperties
    <3>2. \A i \in 1..(hi - lo + 1) : SubSeq(s, lo, hi)[i] = s[lo + i - 1]
      BY <1>1, <2>4, SubSeqProperties
    <3>3. 1 \in 1..(hi - lo + 1) /\ lo + 1 - 1 = lo
      BY <1>1, <2>4
    <3>4. QED
      BY <3>1, <3>2, <3>3
  <2>6. Trim(s) = SubSeq(s, lo, hi)
    BY <1>3, <1>5 DEF lo, hi
  <2>7. SubSeq(s, lo, hi) # << >>
    BY <1>1, <2>4, <2>5, EmptySeq
  <2>8. QED
    BY <1>2, <1>5, <2>4, <2>5, <2>6, <2>7
<1>6. QED
  BY <1>4, <1>5

\* What is taken of a text is its beginning.
LEMMA TakeFacts ==
  ASSUME NEW S, NEW s \in Seq(S), NEW n \in Nat
  PROVE  /\ Take(s, n) \in Seq(S)
         /\ Len(Take(s, n)) = IF n < Len(s) THEN n ELSE Len(s)
         /\ \A i \in 1..Len(Take(s, n)) : Take(s, n)[i] = s[i]
<1> DEFINE k == IF n < Len(s) THEN n ELSE Len(s)
<1>1. Len(s) \in Nat /\ k \in 0..Len(s)
  BY LenProperties
<1>2. Take(s, n) = SubSeq(s, 1, k)
  BY DEF Take
<1> HIDE DEF k
<1>3. QED
  <2>1. /\ SubSeq(s, 1, k) \in Seq(S) /\ Len(SubSeq(s, 1, k)) = k
        /\ \A i \in 1..k : SubSeq(s, 1, k)[i] = s[i]
    BY <1>1, CutInTwo
  <2>2. QED
    BY <1>2, <2>1 DEF k

\* Two texts leave a mark together if one does.
LEMMA InkConcat ==
  ASSUME NEW S, NEW s \in Seq(S), NEW t \in Seq(S)
  PROVE  Ink(s \o t) <=> Ink(s) \/ Ink(t)
<1> DEFINE u == s \o t
<1>1. /\ Len(s) \in Nat /\ Len(t) \in Nat /\ Len(u) = Len(s) + Len(t)
      /\ \A i \in 1..Len(s) : u[i] = s[i]
      /\ \A i \in 1..Len(t) : u[Len(s) + i] = t[i]
  <2>1. Len(s) \in Nat /\ Len(t) \in Nat /\ Len(u) = Len(s) + Len(t)
    BY LenProperties, ConcatProperties
  <2>2. \A i \in 1..Len(u) : u[i] = IF i <= Len(s) THEN s[i] ELSE t[i - Len(s)]
    BY ConcatProperties
  <2> HIDE DEF u
  <2>3. \A i \in 1..Len(s) : u[i] = s[i]
    BY <2>1, <2>2
  <2>4. ASSUME NEW i \in 1..Len(t) PROVE u[Len(s) + i] = t[i]
    <3>1. Len(s) + i \in 1..Len(u) /\ ~(Len(s) + i <= Len(s)) /\ (Len(s) + i) - Len(s) = i
      BY <2>1
    <3>2. QED
      BY <2>2, <3>1
  <2>5. QED
    BY <2>1, <2>3, <2>4
<1> HIDE DEF u
<1>2. ASSUME Ink(s) \/ Ink(t) PROVE Ink(u)
  <2>1. CASE Ink(s)
    BY <1>1, <2>1 DEF Ink
  <2>2. CASE Ink(t)
    <3>1. PICK i \in 1..Len(t) : t[i] \notin Whitespace
      BY <2>2 DEF Ink
    <3>2. Len(s) + i \in 1..Len(u)
      BY <1>1
    <3>3. QED
      BY <1>1, <3>1, <3>2 DEF Ink
  <2>3. QED
    BY <1>2, <2>1, <2>2
<1>3. ASSUME Ink(u) PROVE Ink(s) \/ Ink(t)
  <2>1. PICK i \in 1..Len(u) : u[i] \notin Whitespace
    BY <1>3 DEF Ink
  <2>2. CASE i <= Len(s)
    <3>1. i \in 1..Len(s)
      BY <1>1, <2>2
    <3>2. QED
      BY <1>1, <2>1, <3>1 DEF Ink
  <2>3. CASE ~ (i <= Len(s))
    <3>1. i - Len(s) \in 1..Len(t) /\ Len(s) + (i - Len(s)) = i
      BY <1>1, <2>3
    <3>2. u[i] = t[i - Len(s)]
      BY <1>1, <3>1
    <3>3. QED
      BY <2>1, <3>1, <3>2 DEF Ink
  <2>4. QED
    BY <2>2, <2>3
<1>4. QED
  BY <1>2, <1>3 DEF u

\* Every character of a card, as a host writes it and as a renderer does.
Chars ==
  STRING \cup Tags \cup {Numeral[d] : d \in 0..9} \cup {" ", "\n", "*", "_", Tick, "-", ":", "Menu"}

\* The digits of an ordinal leave marks, and no two of them are the same.
LEMMA NumeralFacts ==
  /\ \A d \in 0..9 : Numeral[d] \notin Whitespace
  /\ \A c, d \in 0..9 : Numeral[c] = Numeral[d] => c = d
<1>1. \A d \in 0..9 : d = 0 \/ d = 1 \/ d = 2 \/ d = 3 \/ d = 4
                   \/ d = 5 \/ d = 6 \/ d = 7 \/ d = 8 \/ d = 9
  OBVIOUS
<1>2. /\ Numeral[0] = "0" /\ Numeral[1] = "1" /\ Numeral[2] = "2" /\ Numeral[3] = "3"
      /\ Numeral[4] = "4" /\ Numeral[5] = "5" /\ Numeral[6] = "6" /\ Numeral[7] = "7"
      /\ Numeral[8] = "8" /\ Numeral[9] = "9"
  BY DEF Numeral
<1>3. ASSUME NEW d \in 0..9 PROVE Numeral[d] \notin Whitespace
  BY <1>1, <1>2 DEF Whitespace
<1>4. ASSUME NEW c \in 0..9, NEW d \in 0..9, Numeral[c] = Numeral[d] PROVE c = d
  BY <1>1, <1>2, <1>4
<1>5. QED
  BY <1>3, <1>4

\* Short texts.
LEMMA OneCharacter ==
  ASSUME NEW S, NEW c \in S
  PROVE  <<c>> \in Seq(S) /\ Len(<<c>>) = 1 /\ <<c>>[1] = c
OBVIOUS

\* ... of two characters, ...
LEMMA TwoCharacters ==
  ASSUME NEW S, NEW c \in S, NEW d \in S
  PROVE  <<c, d>> \in Seq(S) /\ Len(<<c, d>>) = 2 /\ <<c, d>>[1] = c /\ <<c, d>>[2] = d
OBVIOUS

\* ... of one and one, ...
LEMMA OneAndOne ==
  \A S : \A c, d \in S : /\ Len(<<c>> \o <<d>>) = 2
                         /\ (<<c>> \o <<d>>)[1] = c /\ (<<c>> \o <<d>>)[2] = d
OBVIOUS

\* ... and of one and two.
LEMMA OneAndTwo ==
  ASSUME NEW S, NEW c \in S, NEW d \in S, NEW e \in S, NEW u, u = <<c>> \o <<d, e>>
  PROVE  Len(u) = 3 /\ u[1] = c /\ u[2] = d /\ u[3] = e
OBVIOUS

\* A space is a character of a card.
LEMMA SpaceFacts == " " \in Chars /\ <<" ">> \in Seq(Chars) /\ Len(<<" ">>) = 1 /\ <<" ">>[1] = " "
<1>1. " " \in Chars
  BY DEF Chars
<1>2. QED
  BY <1>1, OneCharacter

\* A number of two digits is made of its digits.
LEMMA DecimalFacts ==
  ASSUME NEW n \in 10..99
  PROVE  n \div 10 \in 1..9 /\ n % 10 \in 0..9 /\ n = 10 * (n \div 10) + (n % 10)
OBVIOUS

\* An ordinal is a space and its digits.
LEMMA DigitsFacts ==
  ASSUME NEW n \in 1..99
  PROVE  /\ Digits(n) \in Seq(Chars) /\ Len(Digits(n)) \in 1..2
         /\ n < 10 => Digits(n) = <<Numeral[n]>>
         /\ ~ (n < 10) => Digits(n) = <<Numeral[n \div 10], Numeral[n % 10]>>
         /\ Ink(Digits(n))
<1>1. \A d \in 0..9 : Numeral[d] \in Chars /\ Numeral[d] \notin Whitespace
  BY NumeralFacts DEF Chars
<1>2. CASE n < 10
  <2>1. Digits(n) = <<Numeral[n]>> /\ n \in 0..9
    BY <1>2 DEF Digits
  <2>2. <<Numeral[n]>> \in Seq(Chars) /\ Len(<<Numeral[n]>>) = 1 /\ <<Numeral[n]>>[1] = Numeral[n]
    BY <1>1, <2>1
  <2>3. Ink(<<Numeral[n]>>)
    BY <1>1, <2>1, <2>2 DEF Ink
  <2>4. QED
    BY <1>2, <2>1, <2>2, <2>3
<1>3. CASE ~ (n < 10)
  <2> DEFINE a == n \div 10
             b == n % 10
  <2>1. a \in 0..9 /\ b \in 0..9
    BY <1>3, DecimalFacts
  <2>2. Digits(n) = <<Numeral[a], Numeral[b]>>
    BY <1>3 DEF Digits
  <2> HIDE DEF a, b
  <2>3. /\ <<Numeral[a], Numeral[b]>> \in Seq(Chars) /\ Len(<<Numeral[a], Numeral[b]>>) = 2
        /\ <<Numeral[a], Numeral[b]>>[1] = Numeral[a]
    BY <1>1, <2>1
  <2>4. Ink(<<Numeral[a], Numeral[b]>>)
    BY <1>1, <2>1, <2>3 DEF Ink
  <2>5. QED
    BY <1>3, <2>2, <2>3, <2>4 DEF a, b
<1>4. QED
  BY <1>2, <1>3

\* What a label is cut to for its ordinal, and how that title ends.
LEMMA CandidateEnds ==
  ASSUME NEW base \in Seq(Chars), NEW max \in Nat \ 0..2, NEW n \in 2..99
  PROVE  \E start \in Seq(Chars), tag \in Seq(Chars) :
           /\ Candidate(base, n, max) = start \o tag
           /\ tag = <<" ">> \o Digits(n)
           /\ Len(start) + Len(tag) <= max
           /\ Len(tag) \in 2..3
<1> DEFINE tag == <<" ">> \o Digits(n)
           keep == IF Len(tag) < max THEN max - Len(tag) ELSE 0
           start == Take(base, keep)
<1>1. Digits(n) \in Seq(Chars) /\ Len(Digits(n)) \in 1..2
  <2>1. n \in 1..99
    OBVIOUS
  <2>2. QED
    BY <2>1, DigitsFacts
<1>2. <<" ">> \in Seq(Chars) /\ Len(<<" ">>) = 1
  BY SpaceFacts
<1>3. tag \in Seq(Chars) /\ Len(tag) \in 2..3
  <2>1. Len(tag) = 1 + Len(Digits(n))
    BY <1>1, <1>2, ConcatProperties
  <2>2. tag \in Seq(Chars)
    BY <1>1, <1>2, ConcatProperties
  <2> DEFINE a == Len(Digits(n))
             b == Len(tag)
  <2> HIDE DEF a, b
  <2>3. a \in 1..2 /\ b = 1 + a
    BY <1>1, <2>1 DEF a, b
  <2>4. b \in 2..3
    BY <2>3
  <2>5. QED
    BY <2>2, <2>4 DEF b
<1>4. Candidate(base, n, max) = start \o tag
  <2>1. n # 1
    OBVIOUS
  <2>2. QED
    BY <2>1 DEF Candidate
<1>5. keep \in Nat /\ keep + Len(tag) <= max
  <2>1. Len(tag) \in 2..3
    BY <1>3
  <2> DEFINE t == Len(tag)
  <2> HIDE DEF t
  <2>2. t \in 2..3 /\ keep = IF t < max THEN max - t ELSE 0
    BY <2>1 DEF t
  <2> HIDE DEF keep
  <2>3. keep \in Nat /\ keep + t <= max
    BY <2>2
  <2>4. QED
    BY <2>3 DEF t
<1>6. start \in Seq(Chars) /\ Len(start) <= keep /\ Len(start) \in Nat
  <2> HIDE DEF keep
  <2>1. QED
    BY <1>5, TakeFacts, LenProperties
<1>7. Len(start) + Len(tag) <= max
  <2> HIDE DEF keep, tag, start
  <2>1. QED
    BY <1>3, <1>5, <1>6
<1>8. QED
  <2>1. tag = <<" ">> \o Digits(n)
    OBVIOUS
  <2> HIDE DEF keep, tag, start
  <2>2. QED
    BY <1>3, <1>4, <1>6, <1>7, <2>1

\* Every candidate fits its cap and leaves a mark.
LEMMA CandidateFits ==
  ASSUME NEW base \in Seq(Chars), NEW max \in Nat \ 0..2, NEW n \in 1..99,
         Ink(base), Len(base) <= max
  PROVE  /\ Candidate(base, n, max) \in Seq(Chars)
         /\ Len(Candidate(base, n, max)) <= max
         /\ Ink(Candidate(base, n, max))
<1>1. CASE n = 1
  <2>1. Candidate(base, n, max) = base
    BY <1>1 DEF Candidate
  <2>2. QED
    BY <2>1
<1>2. CASE n # 1
  <2>1. n \in 2..99
    BY <1>2
  <2>2. PICK start \in Seq(Chars), tag \in Seq(Chars) :
          /\ Candidate(base, n, max) = start \o tag
          /\ tag = <<" ">> \o Digits(n)
          /\ Len(start) + Len(tag) <= max
    BY <2>1, CandidateEnds
  <2>3. start \o tag \in Seq(Chars) /\ Len(start \o tag) = Len(start) + Len(tag)
    BY ConcatProperties
  <2>4. Digits(n) \in Seq(Chars) /\ Ink(Digits(n)) /\ <<" ">> \in Seq(Chars)
    BY DigitsFacts, SpaceFacts
  <2>5. Ink(tag)
    BY <2>2, <2>4, InkConcat
  <2>6. Ink(start \o tag)
    BY <2>5, InkConcat
  <2>7. QED
    BY <2>2, <2>3, <2>6
<1>3. QED
  BY <1>1, <1>2

\* What a candidate ends in.
EndsIn(c, n) ==
  /\ n < 10 => c[Len(c)] = Numeral[n] /\ c[Len(c) - 1] = " "
  /\ ~ (n < 10) => c[Len(c)] = Numeral[n % 10] /\ c[Len(c) - 1] = Numeral[n \div 10]

\* It ends in its ordinal.
LEMMA CandidateLast ==
  ASSUME NEW base \in Seq(Chars), NEW max \in Nat \ 0..2, NEW n \in 2..99
  PROVE  EndsIn(Candidate(base, n, max), n)
<1>1. PICK start \in Seq(Chars), tag \in Seq(Chars) :
        /\ Candidate(base, n, max) = start \o tag
        /\ tag = <<" ">> \o Digits(n)
        /\ Len(tag) \in 2..3
  <2>1. \E start \in Seq(Chars), tag \in Seq(Chars) :
           /\ Candidate(base, n, max) = start \o tag
           /\ tag = <<" ">> \o Digits(n)
           /\ Len(start) + Len(tag) <= max
           /\ Len(tag) \in 2..3
    BY CandidateEnds
  <2>2. QED
    BY <2>1
<1> DEFINE c == start \o tag
           l == Len(c)
<1>2. /\ Len(start) \in Nat /\ Len(tag) \in Nat /\ l = Len(start) + Len(tag)
      /\ \A i \in 1..Len(tag) : c[Len(start) + i] = tag[i]
  <2>1. Len(start) \in Nat /\ Len(tag) \in Nat /\ l = Len(start) + Len(tag)
    BY LenProperties, ConcatProperties
  <2>2. \A i \in 1..l : c[i] = IF i <= Len(start) THEN start[i] ELSE tag[i - Len(start)]
    BY ConcatProperties
  <2> HIDE DEF c, l
  <2>3. ASSUME NEW i \in 1..Len(tag) PROVE c[Len(start) + i] = tag[i]
    <3>1. /\ Len(start) + i \in 1..l /\ ~ (Len(start) + i <= Len(start))
          /\ (Len(start) + i) - Len(start) = i
      BY <2>1
    <3>2. QED
      BY <2>2, <3>1
  <2>4. QED
    BY <2>1, <2>3
<1> HIDE DEF c, l
<1>d. /\ n \in 1..99 /\ n \in 0..99
      /\ n < 10 => n \in 0..9
      /\ ~ (n < 10) => n \div 10 \in 0..9 /\ n % 10 \in 0..9
  <2>1. n \in 1..99 /\ n \in 0..99 /\ (n < 10 => n \in 0..9) /\ (~ (n < 10) => n \in 10..99)
    OBVIOUS
  <2>2. n \in 10..99 => n \div 10 \in 0..9 /\ n % 10 \in 0..9
    BY DecimalFacts
  <2>3. QED
    BY <2>1, <2>2
<1>n. \A d \in 0..9 : Numeral[d] \in Chars
  BY DEF Chars
<1>4. CASE n < 10
  <2>1. tag = <<" ">> \o <<Numeral[n]>>
    BY <1>1, <1>4, <1>d, DigitsFacts
  <2>x. Numeral[n] \in Chars /\ " " \in Chars
    BY <1>4, <1>d, <1>n, SpaceFacts
  <2>2. Len(tag) = 2 /\ tag[1] = " " /\ tag[2] = Numeral[n]
    <3> DEFINE a == Numeral[n]
               c1 == " "
    <3>1. tag = <<c1>> \o <<a>> /\ a \in Chars /\ c1 \in Chars
      BY <2>1, <2>x
    <3> HIDE DEF a, c1
    <3>2. /\ Len(<<c1>> \o <<a>>) = 2
          /\ (<<c1>> \o <<a>>)[1] = c1 /\ (<<c1>> \o <<a>>)[2] = a
      BY <3>1, OneAndOne
    <3>3. QED
      BY <3>1, <3>2 DEF a, c1
  <2>3. Len(start) + 2 = l /\ Len(start) + 1 = l - 1 /\ 1 \in 1..Len(tag) /\ 2 \in 1..Len(tag)
    <3> DEFINE k == Len(start)
    <3> HIDE DEF k
    <3>1. k \in Nat /\ l = k + 2 /\ Len(tag) = 2
      BY <1>2, <2>2 DEF k
    <3>2. k + 2 = l /\ k + 1 = l - 1 /\ 1 \in 1..2 /\ 2 \in 1..2
      BY <3>1
    <3>3. QED
      BY <3>1, <3>2 DEF k
  <2>4. c[Len(start) + 2] = tag[2] /\ c[Len(start) + 1] = tag[1]
    BY <1>2, <2>3
  <2>5. c[l] = Numeral[n] /\ c[l - 1] = " "
    BY <2>2, <2>3, <2>4
  <2>6. QED
    BY <1>1, <1>4, <2>5 DEF c, l, EndsIn
<1>5. CASE ~ (n < 10)
  <2>1. tag = <<" ">> \o <<Numeral[n \div 10], Numeral[n % 10]>>
    BY <1>1, <1>5, <1>d, DigitsFacts
  <2>x. Numeral[n \div 10] \in Chars /\ Numeral[n % 10] \in Chars /\ " " \in Chars
    BY <1>5, <1>d, <1>n, SpaceFacts
  <2>2. Len(tag) = 3 /\ tag[2] = Numeral[n \div 10] /\ tag[3] = Numeral[n % 10]
    <3> DEFINE a == Numeral[n \div 10]
               b == Numeral[n % 10]
               c1 == " "
    <3>1. tag = <<c1>> \o <<a, b>> /\ a \in Chars /\ b \in Chars /\ c1 \in Chars
      BY <2>1, <2>x
    <3> HIDE DEF a, b, c1
    <3>2. Len(tag) = 3 /\ tag[2] = a /\ tag[3] = b
      BY <3>1, OneAndTwo
    <3>3. QED
      BY <3>2 DEF a, b
  <2>3. Len(start) + 3 = l /\ Len(start) + 2 = l - 1 /\ 3 \in 1..Len(tag) /\ 2 \in 1..Len(tag)
    BY <1>2, <2>2
  <2>4. c[Len(start) + 3] = tag[3] /\ c[Len(start) + 2] = tag[2]
    BY <1>2, <2>3
  <2>5. c[l] = Numeral[n % 10] /\ c[l - 1] = Numeral[n \div 10]
    BY <2>2, <2>3, <2>4
  <2>6. QED
    BY <1>1, <1>5, <2>5 DEF c, l, EndsIn
<1>6. QED
  BY <1>4, <1>5

\* No two ordinals make the same title.
LEMMA CandidatesDiffer ==
  ASSUME NEW base \in Seq(Chars), NEW max \in Nat \ 0..2, NEW m \in 2..99, NEW n \in 2..99,
         Candidate(base, m, max) = Candidate(base, n, max)
  PROVE  m = n
<1> DEFINE c == Candidate(base, n, max)
           l == Len(c)
<1>1. /\ m < 10 => c[l] = Numeral[m] /\ c[l - 1] = " "
      /\ ~ (m < 10) => c[l] = Numeral[m % 10] /\ c[l - 1] = Numeral[m \div 10]
  <2>1. EndsIn(c, m)
    BY CandidateLast
  <2> HIDE DEF c
  <2>2. QED
    BY <2>1 DEF EndsIn
<1>2. /\ n < 10 => c[l] = Numeral[n] /\ c[l - 1] = " "
      /\ ~ (n < 10) => c[l] = Numeral[n % 10] /\ c[l - 1] = Numeral[n \div 10]
  <2>1. EndsIn(c, n)
    BY CandidateLast
  <2> HIDE DEF c
  <2>2. QED
    BY <2>1 DEF EndsIn
<1> HIDE DEF c, l
<1>3. \A d \in 0..9 : Numeral[d] # " "
  BY NumeralFacts DEF Whitespace
<1>4. \A a \in 2..99 : ~ (a < 10) => /\ a \div 10 \in 0..9 /\ a % 10 \in 0..9
                                      /\ a = 10 * (a \div 10) + (a % 10)
  <2>1. SUFFICES ASSUME NEW a \in 2..99, ~ (a < 10)
                 PROVE  a \div 10 \in 0..9 /\ a % 10 \in 0..9 /\ a = 10 * (a \div 10) + (a % 10)
    OBVIOUS
  <2>2. a \in 10..99
    BY <2>1
  <2>3. QED
    BY <2>2, DecimalFacts
<1>5. CASE m < 10 /\ n < 10
  <2>1. m \in 0..9 /\ n \in 0..9
    BY <1>5
  <2>2. Numeral[m] = Numeral[n]
    BY <1>1, <1>2, <1>5
  <2>3. QED
    BY <2>1, <2>2, NumeralFacts
<1>6. CASE ~ (m < 10) /\ ~ (n < 10)
  <2> DEFINE mt == m \div 10
             mu == m % 10
             nt == n \div 10
             nu == n % 10
  <2>1. mt \in 0..9 /\ mu \in 0..9 /\ m = 10 * mt + mu
    BY <1>4, <1>6
  <2>2. nt \in 0..9 /\ nu \in 0..9 /\ n = 10 * nt + nu
    BY <1>4, <1>6
  <2>3. Numeral[mt] = Numeral[nt] /\ Numeral[mu] = Numeral[nu]
    BY <1>1, <1>2, <1>6
  <2> HIDE DEF mt, mu, nt, nu
  <2>4. mt = nt /\ mu = nu
    BY <2>1, <2>2, <2>3, NumeralFacts
  <2>5. QED
    BY <2>1, <2>2, <2>4
<1>7. CASE m < 10 /\ ~ (n < 10)
  BY <1>1, <1>2, <1>3, <1>4, <1>7
<1>8. CASE ~ (m < 10) /\ n < 10
  BY <1>1, <1>2, <1>3, <1>4, <1>8
<1>9. QED
  BY <1>5, <1>6, <1>7, <1>8

\* Among as many candidates as there are titles and one, one is free.
LEMMA OneIsFree ==
  ASSUME NEW base \in Seq(Chars), NEW max \in Nat \ 0..2,
         NEW titles \in Seq(Seq(Chars)), Len(titles) <= 97
  PROVE  \E n \in 2..(Len(titles) + 2) : Candidate(base, n, max) \notin Range(titles)
<1> DEFINE l == Len(titles)
           Ordinals == 2..(l + 2)
<1>1. l \in Nat /\ l <= 97 /\ DOMAIN titles = 1..l
  BY LenProperties
<1> HIDE DEF l
<1>2. SUFFICES ASSUME \A n \in Ordinals : Candidate(base, n, max) \in Range(titles) PROVE FALSE
  BY DEF l
<1> DEFINE place == [n \in Ordinals |-> CHOOSE i \in 1..l : titles[i] = Candidate(base, n, max)]
<1>3. ASSUME NEW n \in Ordinals
      PROVE  place[n] \in 1..l /\ titles[place[n]] = Candidate(base, n, max)
  <2>1. \E i \in 1..l : titles[i] = Candidate(base, n, max)
    BY <1>1, <1>2 DEF Range
  <2>2. place[n] = CHOOSE i \in 1..l : titles[i] = Candidate(base, n, max)
    OBVIOUS
  <2>3. QED
    BY <2>1, <2>2
<1>4. place \in [Ordinals -> 1..l]
  BY <1>3
<1> HIDE DEF place
<1>5. IsFiniteSet(1..l) /\ Cardinality(1..l) = l
  <2>1. 1 \in Int /\ l \in Int
    BY <1>1
  <2>2. IsFiniteSet(1..l) /\ Cardinality(1..l) = IF 1 > l THEN 0 ELSE l - 1 + 1
    BY <2>1, FS_Interval
  <2>3. QED
    BY <1>1, <2>2
<1>6. IsFiniteSet(Ordinals) /\ Cardinality(Ordinals) = l + 1
  <2>1. 2 \in Int /\ l + 2 \in Int
    BY <1>1
  <2>2. /\ IsFiniteSet(2..(l + 2))
        /\ Cardinality(2..(l + 2)) = IF 2 > l + 2 THEN 0 ELSE (l + 2) - 2 + 1
    BY <2>1, FS_Interval
  <2>3. ~ (2 > l + 2) /\ (l + 2) - 2 + 1 = l + 1
    BY <1>1
  <2>4. QED
    BY <2>2, <2>3
<1>7. Ordinals \subseteq 2..99
  BY <1>1
<1> HIDE DEF Ordinals
<1>8. Cardinality(1..l) < Cardinality(Ordinals)
  BY <1>1, <1>5, <1>6
<1>9. \E m, n \in Ordinals : m # n /\ place[m] = place[n]
  BY <1>4, <1>5, <1>6, <1>8, FS_PigeonHole
<1>10. PICK m \in Ordinals, n \in Ordinals : m # n /\ place[m] = place[n]
  BY <1>9
<1>11. Candidate(base, m, max) = Candidate(base, n, max)
  BY <1>3, <1>10
<1>12. m \in 2..99 /\ n \in 2..99
  BY <1>7, <1>10
<1>13. QED
  BY <1>10, <1>11, <1>12, CandidatesDiffer

\* A title Meta takes.
Presentable(t, max) == t \in Seq(Chars) /\ Len(t) <= max /\ Ink(t)

\* So the title of an action is a new one that Meta takes, ...
LEMMA FreshFacts ==
  ASSUME NEW label \in Seq(Chars), Ink(label), NEW max \in Nat \ 0..2,
         NEW titles \in Seq(Seq(Chars)), Len(titles) <= 97
  PROVE  /\ FreshTitle(titles, label, max) \notin Range(titles)
         /\ Presentable(FreshTitle(titles, label, max), max)
<1> DEFINE base == Take(Trim(label), max)
           free == {n \in 1..(Len(titles) + 2) : Candidate(base, n, max) \notin Range(titles)}
           first == Min(free)
<1>1. Len(titles) \in Nat
  BY LenProperties
<1>2. base \in Seq(Chars) /\ Len(base) <= max /\ Ink(base)
  <2> DEFINE t == Trim(label)
  <2>1. t \in Seq(Chars) /\ t # << >> /\ t[1] \notin Whitespace
    BY TrimFacts
  <2>2. Len(t) \in Nat \ {0}
    BY <2>1, LenProperties, EmptySeq
  <2> HIDE DEF t
  <2>3. /\ Take(t, max) \in Seq(Chars)
        /\ Len(Take(t, max)) = IF max < Len(t) THEN max ELSE Len(t)
        /\ \A i \in 1..Len(Take(t, max)) : Take(t, max)[i] = t[i]
    BY <2>1, TakeFacts
  <2>4. Len(Take(t, max)) <= max /\ 1 \in 1..Len(Take(t, max))
    BY <2>2, <2>3
  <2>5. Take(t, max)[1] = t[1]
    BY <2>3, <2>4
  <2>6. Ink(Take(t, max))
    BY <2>1, <2>4, <2>5 DEF Ink
  <2>7. QED
    BY <2>3, <2>4, <2>6 DEF t
<1>3. FreshTitle(titles, label, max) = Candidate(base, first, max)
  BY DEF FreshTitle
<1> HIDE DEF base
<1>4. first \in free
  <2>1. PICK n \in 2..(Len(titles) + 2) : Candidate(base, n, max) \notin Range(titles)
    BY <1>2, OneIsFree
  <2>2. n \in free
    BY <2>1
  <2>3. free \in SUBSET Nat /\ free # {}
    BY <1>1, <2>2
  <2> HIDE DEF free
  <2>4. \E m \in free : \A k \in free : m <= k
    BY <2>3, LeastNatural
  <2>5. QED
    BY <2>4 DEF Min
<1>5. first \in 1..99 /\ Candidate(base, first, max) \notin Range(titles)
  <2> HIDE DEF first
  <2>1. first \in 1..(Len(titles) + 2) /\ Candidate(base, first, max) \notin Range(titles)
    BY <1>4
  <2>2. QED
    BY <1>1, <2>1
<1> HIDE DEF first
<1>6. Presentable(Candidate(base, first, max), max)
  BY <1>2, <1>5, CandidateFits DEF Presentable
<1>7. QED
  BY <1>3, <1>5, <1>6

\* Titles Meta takes together.
NoTwoAlike(titles) == \A i, j \in 1..Len(titles) : titles[i] = titles[j] => i = j
Accepted(titles, max) ==
  NoTwoAlike(titles) /\ \A i \in 1..Len(titles) : Presentable(titles[i], max)

\* ... and it can join those before it.
LEMMA OneMoreTitle ==
  ASSUME NEW max \in Nat, NEW titles \in Seq(Seq(Chars)), Accepted(titles, max),
         NEW t, Presentable(t, max), t \notin Range(titles)
  PROVE  /\ Append(titles, t) \in Seq(Seq(Chars)) /\ Len(Append(titles, t)) = Len(titles) + 1
         /\ Accepted(Append(titles, t), max)
<1> DEFINE l == Len(titles)
           u == Append(titles, t)
<1>1. t \in Seq(Chars) /\ l \in Nat /\ DOMAIN titles = 1..l
  BY LenProperties DEF Presentable
<1>2. u \in Seq(Seq(Chars)) /\ Len(u) = l + 1 /\ u[l + 1] = t /\ \A i \in 1..l : u[i] = titles[i]
  BY <1>1, AppendProperties
<1>3. \A i \in 1..l : titles[i] # t
  BY <1>1 DEF Range
<1> HIDE DEF l, u
<1>4. /\ \A i, j \in 1..l : titles[i] = titles[j] => i = j
      /\ \A i \in 1..l : Presentable(titles[i], max)
  BY DEF Accepted, NoTwoAlike, l
<1>5. \A i \in 1..(l + 1) : i = l + 1 \/ i \in 1..l
  BY <1>1
<1>6. \A i \in 1..(l + 1) : Presentable(u[i], max)
  BY <1>2, <1>4, <1>5
<1>7. \A i, j \in 1..(l + 1) : u[i] = u[j] => i = j
  BY <1>2, <1>3, <1>4, <1>5
<1>8. Accepted(u, max)
  BY <1>2, <1>6, <1>7 DEF Accepted, NoTwoAlike
<1>9. QED
  BY <1>2, <1>8 DEF l, u

\* What a host puts on a card.
CardAction == [type : STRING, label : Seq(Chars), value : Seq(Chars)]

\* As long as an ordinal has two digits, every action gets a title Meta takes.
LEMMA UniqueFacts ==
  ASSUME NEW acts \in Seq(CardAction), Len(acts) <= 98, NEW max \in Nat \ 0..2,
         \A i \in 1..Len(acts) : Ink(acts[i].label)
  PROVE  /\ UniqueTitles(acts, max) \in Seq(Seq(Chars))
         /\ Len(UniqueTitles(acts, max)) = Len(acts)
         /\ Accepted(UniqueTitles(acts, max), max)
<1> DEFINE n == Len(acts)
           A == {t \in Seq(Seq(Chars)) : Len(t) <= n /\ Accepted(t, max)}
           Fresh(t, k) == Append(t, FreshTitle(t, acts[k].label, max))
           round == [p \in (1..n) \X A |-> IF Len(p[2]) < n THEN Fresh(p[2], p[1]) ELSE p[2]]
           Step(f, k) == IF k = 0 THEN << >> ELSE Fresh(f[k - 1], k)
           at == CHOOSE f : f = [k \in 0..n |-> Step(f, k)]
<1>1. n \in Nat /\ n <= 98
  BY LenProperties
<1>2. UniqueTitles(acts, max) = at[n]
  BY DEF UniqueTitles
<1>3. \A k \in 1..n : acts[k].label \in Seq(Chars) /\ Ink(acts[k].label)
  <2>1. \A k \in 1..n : acts[k] \in CardAction
    BY ElementOfSeq
  <2>2. QED
    BY <2>1 DEF CardAction
<1>4. ASSUME NEW k \in 1..n, NEW t \in A, Len(t) < n
      PROVE  Fresh(t, k) \in A /\ Len(Fresh(t, k)) = Len(t) + 1
  <2> DEFINE fresh == FreshTitle(t, acts[k].label, max)
  <2>1. t \in Seq(Seq(Chars)) /\ Accepted(t, max) /\ Len(t) \in Nat
    BY <1>4, LenProperties
  <2>2. Len(t) <= 97
    BY <1>1, <1>4, <2>1
  <2>3. fresh \notin Range(t) /\ Presentable(fresh, max)
    BY <1>3, <2>1, <2>2, FreshFacts
  <2> HIDE DEF fresh
  <2>4. /\ Append(t, fresh) \in Seq(Seq(Chars)) /\ Len(Append(t, fresh)) = Len(t) + 1
        /\ Accepted(Append(t, fresh), max)
    BY <2>1, <2>3, OneMoreTitle
  <2>5. Len(Append(t, fresh)) <= n
    BY <1>1, <1>4, <2>1, <2>4
  <2>6. QED
    BY <2>4, <2>5 DEF fresh
<1>5. << >> \in A
  <2>1. << >> \in Seq(Seq(Chars)) /\ Len(<< >>) = 0
    BY EmptySeq
  <2>2. Accepted(<< >>, max)
    BY <2>1 DEF Accepted, NoTwoAlike
  <2>3. QED
    BY <1>1, <2>1, <2>2
<1> HIDE DEF n, A, Fresh
<1>6. \A k \in 1..n : \A a \in A :
        round[<<k, a>>] = IF Len(a) < n THEN Fresh(a, k) ELSE a
  OBVIOUS
<1>7. Stays(round, A, n)
  BY <1>4, <1>6 DEF Stays
<1> HIDE DEF round
<1>8. PICK g : Runs(g, A, << >>, round, n)
  BY <1>1, <1>5, <1>7, LoopRuns
<1>9. g \in [0..n -> A] /\ g[0] = << >> /\ \A k \in 1..n : g[k] = round[<<k, g[k - 1]>>]
  BY <1>8 DEF Runs
<1>10. ASSUME NEW k \in 0..n PROVE Len(g[k]) = k
  <2> DEFINE Done == {j \in Nat : j <= n => Len(g[j]) = j}
  <2>1. 0 \in Done
    BY <1>9, EmptySeq
  <2>2. ASSUME NEW j \in Nat, j \in Done PROVE j + 1 \in Done
    <3>1. SUFFICES ASSUME j + 1 <= n PROVE Len(g[j + 1]) = j + 1
      OBVIOUS
    <3>2. j + 1 \in 1..n /\ (j + 1) - 1 = j /\ j \in 0..n /\ j < n
      BY <1>1, <3>1
    <3>3. Len(g[j]) = j
      BY <2>2, <3>2
    <3>4. g[j] \in A
      BY <1>9, <3>2
    <3>5. g[j + 1] = round[<<j + 1, g[j]>>]
      BY <1>9, <3>2
    <3>6. round[<<j + 1, g[j]>>] = Fresh(g[j], j + 1)
      BY <1>6, <3>2, <3>3, <3>4
    <3>7. Len(Fresh(g[j], j + 1)) = j + 1
      BY <1>4, <3>2, <3>3, <3>4
    <3>8. QED
      BY <3>5, <3>6, <3>7
  <2> HIDE DEF Done
  <2>3. \A j \in Nat : j \in Done
    BY <2>1, <2>2, NaturalInduction
  <2>4. k \in Nat /\ k <= n
    BY <1>1
  <2>5. QED
    BY <2>3, <2>4 DEF Done
<1>11. ASSUME NEW k \in 1..n PROVE g[k] = Fresh(g[k - 1], k)
  <2>1. k - 1 \in 0..n /\ k - 1 < n
    BY <1>1
  <2>2. g[k - 1] \in A /\ Len(g[k - 1]) = k - 1
    BY <1>9, <1>10, <2>1
  <2>3. round[<<k, g[k - 1]>>] = Fresh(g[k - 1], k)
    BY <1>6, <2>1, <2>2
  <2>4. QED
    BY <1>9, <2>3
<1>12. g = [k \in 0..n |-> Step(g, k)]
  BY <1>1, <1>9, <1>11
<1>13. at = [k \in 0..n |-> Step(at, k)]
  BY <1>12
<1> HIDE DEF at
<1>14. at[0] = << >> /\ \A k \in 1..n : at[k] = Fresh(at[k - 1], k)
  BY <1>1, <1>13
<1>15. Agree(at, g, n)
  BY <1>9, <1>11, <1>14 DEF Agree
<1>16. at[n] = g[n]
  <2>1. \A k \in 0..n : at[k] = g[k]
    BY <1>1, <1>15, LoopIsOne
  <2>2. n \in 0..n
    BY <1>1
  <2>3. QED
    BY <2>1, <2>2
<1>17. g[n] \in A /\ Len(g[n]) = n
  <2>1. n \in 0..n
    BY <1>1
  <2>2. QED
    BY <1>9, <1>10, <2>1
<1>18. QED
  BY <1>2, <1>16, <1>17 DEF A, n

\* What is written between two texts is shown.
LEMMA ShownBetween ==
  ASSUME NEW S, NEW before \in Seq(S), NEW part \in Seq(S), NEW after \in Seq(S)
  PROVE  Shows(before \o (part \o after), part)
<1> DEFINE rest == part \o after
           words == before \o rest
           b == Len(before)
           l == Len(part)
<1>1. rest \in Seq(S) /\ Len(rest) = l + Len(after) /\ l \in Nat /\ Len(after) \in Nat
  BY LenProperties, ConcatProperties
<1>2. SubSeq(rest, 1, l) = part
  BY DropConcat
<1>3. SubSeq(part, 1, l) = part
  <2>1. << >> \in Seq(S) /\ part \o << >> = part
    BY EmptySeq, ConcatEmptySeq
  <2>2. SubSeq(part \o << >>, 1, l) = part
    BY <2>1, DropConcat
  <2>3. QED
    BY <2>1, <2>2
<1> HIDE DEF rest
<1>4. Drop(words, b) = rest
  BY <1>1, DropConcat
<1>5. Len(words) = b + Len(rest) /\ b \in Nat
  BY <1>1, LenProperties, ConcatProperties
<1> HIDE DEF words
<1>6. IsPrefix(part, rest)
  <2>1. Len(part) <= Len(rest)
    BY <1>1 DEF l
  <2>2. QED
    BY <1>2, <1>3, <2>1 DEF IsPrefix, l
<1>7. b \in 0..(Len(words) - Len(part))
  BY <1>1, <1>5 DEF l
<1>8. Shows(words, part)
  BY <1>4, <1>6, <1>7 DEF Shows
<1>9. QED
  BY <1>8 DEF words, rest

\* A line of a card sent as text, ...
CardLine == [a \in CardAction |-> <<"\n", "-", " ">> \o a.label \o <<":", " ">> \o a.value]
Dash == <<"\n", "-", " ">>
Colon == <<":", " ">>

\* ... which shows its action.
LEMMA LineFacts ==
  /\ Dash \in Seq(Chars) /\ Colon \in Seq(Chars)
  /\ CardLine \in Writers(CardAction, Chars)
  /\ \A a \in CardAction : /\ CardLine[a] = Dash \o (a.label \o (Colon \o a.value))
                           /\ CardLine[a] = (Dash \o (a.label \o Colon)) \o (a.value \o << >>)
                           /\ a.label \in Seq(Chars) /\ a.value \in Seq(Chars)
<1>1. "\n" \in Chars /\ "-" \in Chars /\ " " \in Chars /\ ":" \in Chars
  BY DEF Chars
<1>2. Dash \in Seq(Chars)
  <2>1. \A S : \A c, d, e \in S : <<c, d, e>> \in Seq(S)
    OBVIOUS
  <2>2. QED
    BY <1>1, <2>1 DEF Dash
<1>3. Colon \in Seq(Chars)
  <2>1. \A S : \A c, d \in S : <<c, d>> \in Seq(S)
    OBVIOUS
  <2>2. QED
    BY <1>1, <2>1 DEF Colon
<1>4. ASSUME NEW a \in CardAction
      PROVE  /\ CardLine[a] = Dash \o (a.label \o (Colon \o a.value)) /\ CardLine[a] \in Seq(Chars)
             /\ CardLine[a] = (Dash \o (a.label \o Colon)) \o (a.value \o << >>)
             /\ a.label \in Seq(Chars) /\ a.value \in Seq(Chars)
  <2> DEFINE label == a.label
             value == a.value
  <2>1. label \in Seq(Chars) /\ value \in Seq(Chars)
    BY DEF CardAction
  <2>2. CardLine[a] = Dash \o label \o Colon \o value
    BY DEF CardLine, Dash, Colon
  <2> HIDE DEF label, value
  <2>3. /\ label \o Colon \in Seq(Chars) /\ Colon \o value \in Seq(Chars)
        /\ Dash \o label \in Seq(Chars)
    BY <1>2, <1>3, <2>1, ConcatProperties
  <2>4. label \o (Colon \o value) \in Seq(Chars)
    BY <2>1, <2>3, ConcatProperties
  <2>5. (Dash \o label) \o Colon = Dash \o (label \o Colon)
    BY <1>2, <1>3, <2>1, ConcatAssociative
  <2>6. (Dash \o (label \o Colon)) \o value = Dash \o ((label \o Colon) \o value)
    <3> DEFINE both == label \o Colon
    <3>1. both \in Seq(Chars)
      BY <2>3
    <3> HIDE DEF both
    <3>2. (Dash \o both) \o value = Dash \o (both \o value)
      BY <1>2, <2>1, <3>1, ConcatAssociative
    <3>3. QED
      BY <3>2 DEF both
  <2>7. (label \o Colon) \o value = label \o (Colon \o value)
    BY <1>3, <2>1, ConcatAssociative
  <2>8. Dash \o (label \o (Colon \o value)) \in Seq(Chars)
    BY <1>2, <2>4, ConcatProperties
  <2>9. value \o << >> = value
    BY <2>1, ConcatEmptySeq
  <2>10. QED
    BY <2>1, <2>2, <2>5, <2>6, <2>7, <2>8, <2>9 DEF label, value
<1>5. CardLine \in Writers(CardAction, Chars)
  BY <1>4 DEF Writers, CardLine
<1>6. QED
  BY <1>2, <1>3, <1>4, <1>5

\* Texts may be joined in any order.
LEMMA Associates ==
  \A S : \A x, y, z \in Seq(S) : (x \o y) \o z = x \o (y \o z)
BY ConcatAssociative, SMTT(20)

\* What is shown within a part of a text is shown in the text.
LEMMA ShownWithin ==
  ASSUME NEW S, NEW a \in Seq(S), NEW b \in Seq(S), NEW c \in Seq(S), NEW d \in Seq(S),
         NEW e \in Seq(S)
  PROVE  Shows(a \o ((b \o (c \o d)) \o e), c)
<1>1. \A x, y \in Seq(S) : x \o y \in Seq(S)
  BY ConcatProperties
<1>2. \A x, y, z \in Seq(S) : (x \o y) \o z = x \o (y \o z)
  BY Associates, SMTT(20)
<1> DEFINE cd == c \o d
           de == d \o e
           ab == a \o b
<1>3. cd \in Seq(S) /\ de \in Seq(S) /\ ab \in Seq(S)
  BY <1>1
<1>4. cd \o e = c \o de
  BY <1>2
<1> HIDE DEF cd, de
<1>5. (b \o cd) \o e = b \o (cd \o e)
  <2>1. \A x \in Seq(S) : (b \o x) \o e = b \o (x \o e)
    BY Associates, SMTT(20)
  <2>2. QED
    BY <1>3, <2>1
<1> DEFINE cde == c \o de
<1>6. cde \in Seq(S)
  BY <1>1, <1>3
<1> HIDE DEF cde
<1>7. ab \o cde = a \o (b \o cde)
  BY <1>2, <1>6
<1> HIDE DEF ab
<1>8. Shows(ab \o (c \o de), c)
  BY <1>3, ShownBetween
<1>9. a \o ((b \o (c \o d)) \o e) = ab \o (c \o de)
  BY <1>4, <1>5, <1>7 DEF cd, cde
<1>10. QED
  BY <1>8, <1>9

\* The text of a card shows every action in full.
LEMMA TextShowsActions ==
  ASSUME NEW heading \in Seq(Chars), NEW said \in Seq(Chars), NEW acts \in Seq(CardAction)
  PROVE  LET shown == CardAsText(heading, said, acts).text
         IN /\ shown \in Seq(Chars) /\ Ink(shown)
            /\ \A i \in 1..Len(acts) : Shows(shown, acts[i].label) /\ Shows(shown, acts[i].value)
<1> DEFINE star == <<"*">>
           under == <<"*", "\n", "\n">>
           top == star \o heading \o under \o said
           lines == Pieced(acts, CardLine)
           shown == CardAsText(heading, said, acts).text
<1>1. "*" \in Chars /\ "\n" \in Chars /\ "*" \notin Whitespace
  BY DEF Chars, Whitespace
<1>2. star \in Seq(Chars) /\ Ink(star)
  <2>1. star \in Seq(Chars) /\ Len(star) = 1 /\ star[1] = "*"
    BY <1>1, OneCharacter
  <2> HIDE DEF star
  <2>2. QED
    BY <1>1, <2>1 DEF Ink
<1>3. under \in Seq(Chars)
  <2>1. \A S : \A c, d, e \in S : <<c, d, e>> \in Seq(S)
    OBVIOUS
  <2>2. QED
    BY <1>1, <2>1
<1>4. lines \in Seq(Chars)
  BY LineFacts, PiecesOf
<1>5. shown = top \o lines
  <2>1. \A i \in 1..Len(acts) : acts[i] \in CardAction
    BY ElementOfSeq
  <2>2. DOMAIN acts = 1..Len(acts)
    BY LenProperties
  <2>3. [i \in DOMAIN acts |-> <<"\n", "-", " ">> \o acts[i].label \o <<":", " ">> \o acts[i].value]
          = Parts(acts, CardLine)
    BY <2>1, <2>2 DEF Parts, CardLine
  <2>4. QED
    BY <2>3 DEF CardAsText, Payload, Pieced
<1> HIDE DEF star, under, lines, shown
<1>6. top \in Seq(Chars) /\ Ink(top)
  <2>1. star \o heading \in Seq(Chars) /\ Ink(star \o heading)
    BY <1>2, ConcatProperties, InkConcat
  <2> DEFINE first == star \o heading
  <2> HIDE DEF first
  <2>2. first \o under \in Seq(Chars) /\ Ink(first \o under)
    BY <1>3, <2>1, ConcatProperties, InkConcat DEF first
  <2> DEFINE second == first \o under
  <2> HIDE DEF second
  <2>3. second \o said \in Seq(Chars) /\ Ink(second \o said)
    BY <2>2, ConcatProperties, InkConcat DEF second
  <2>4. QED
    BY <2>3 DEF first, second
<1> HIDE DEF top
<1>7. top \o lines \in Seq(Chars) /\ Ink(top \o lines)
  BY <1>4, <1>6, ConcatProperties, InkConcat
<1>8. ASSUME NEW i \in 1..Len(acts)
      PROVE  Shows(top \o lines, acts[i].label) /\ Shows(top \o lines, acts[i].value)
  <2> DEFINE a == acts[i]
             ahead == SubSeq(acts, 1, i - 1)
             rest == Drop(acts, i - 1)
             behind == Tail(rest)
  <2>1. a \in CardAction /\ Len(acts) \in Nat /\ i - 1 \in 0..Len(acts)
    BY LenProperties, ElementOfSeq
  <2>2. /\ ahead \in Seq(CardAction) /\ rest \in Seq(CardAction)
        /\ Len(rest) = Len(acts) - (i - 1)
        /\ \A j \in 1..(Len(acts) - (i - 1)) : rest[j] = acts[(i - 1) + j]
        /\ acts = ahead \o rest
    BY <2>1, CutInTwo
  <2>3. rest # << >> /\ rest[1] = a
    <3>1. 1 \in 1..(Len(acts) - (i - 1)) /\ (i - 1) + 1 = i /\ Len(rest) # 0
      BY <2>1, <2>2
    <3>2. rest[1] = acts[(i - 1) + 1]
      BY <2>2, <3>1
    <3>3. QED
      BY <3>1, <3>2, EmptySeq
  <2> HIDE DEF a, ahead, rest
  <2>4. rest = <<a>> \o behind /\ behind \in Seq(CardAction)
    <3>1. rest = <<rest[1]>> \o Tail(rest) /\ Tail(rest) = Drop(rest, 1) /\ Len(rest) \in Nat \ {0}
      BY <2>2, <2>3, HeadApart
    <3>2. Tail(rest) \in Seq(CardAction)
      BY <2>2, <2>3, HeadTailProperties
    <3>3. QED
      BY <2>3, <3>1, <3>2
  <2> HIDE DEF behind
  <2> DEFINE before == Pieced(ahead, CardLine)
             after == Pieced(behind, CardLine)
  <2>5. before \in Seq(Chars) /\ after \in Seq(Chars)
    BY <2>2, <2>4, LineFacts, PiecesOf
  <2>6. Pieced(rest, CardLine) = CardLine[a] \o after
    <3>1. <<a>> \in Seq(CardAction)
      BY <2>1, OneCharacter
    <3>2. Pieced(<<a>> \o behind, CardLine) = Pieced(<<a>>, CardLine) \o after
      BY <2>4, <3>1, LineFacts, PiecedConcat
    <3>3. Pieced(<<a>>, CardLine) = CardLine[a]
      BY <2>1, LineFacts, PiecedOne
    <3>4. QED
      BY <2>4, <3>2, <3>3
  <2>7. lines = before \o (CardLine[a] \o after)
    <3>1. Pieced(ahead \o rest, CardLine) = before \o Pieced(rest, CardLine)
      BY <2>2, LineFacts, PiecedConcat
    <3>2. QED
      BY <2>2, <2>6, <3>1 DEF lines
  <2> HIDE DEF before, after
  <2> DEFINE line == CardLine[a]
             tail == line \o after
             start == top \o before
  <2>8. line \in Seq(Chars)
    BY <2>1, LineFacts DEF Writers
  <2> HIDE DEF line
  <2>9. tail \in Seq(Chars) /\ start \in Seq(Chars)
    BY <1>6, <2>5, <2>8, ConcatProperties
  <2> HIDE DEF tail
  <2>10. top \o (before \o tail) = (top \o before) \o tail
    <3>1. \A x, y, z \in Seq(Chars) : (x \o y) \o z = x \o (y \o z)
      BY Associates, SMTT(20)
    <3>2. QED
      BY <1>6, <2>5, <2>9, <3>1
  <2> HIDE DEF start
  <2>11. top \o lines = start \o (line \o after)
    BY <2>7, <2>10 DEF tail, line, start
  <2> DEFINE label == a.label
             value == a.value
  <2>12. /\ Dash \in Seq(Chars) /\ Colon \in Seq(Chars)
         /\ line = Dash \o (label \o (Colon \o value))
         /\ line = (Dash \o (label \o Colon)) \o (value \o << >>)
         /\ label \in Seq(Chars) /\ value \in Seq(Chars)
    BY <2>1, LineFacts DEF line
  <2> HIDE DEF label, value
  <2>13. Shows(top \o lines, label)
    <3> DEFINE d == Colon \o value
    <3>1. d \in Seq(Chars)
      BY <2>12, ConcatProperties
    <3> HIDE DEF d
    <3>2. Shows(start \o ((Dash \o (label \o d)) \o after), label)
      BY <2>5, <2>9, <2>12, <3>1, ShownWithin
    <3>3. QED
      BY <2>11, <2>12, <3>2 DEF d
  <2>14. Shows(top \o lines, value)
    <3> DEFINE b0 == label \o Colon
               b == Dash \o b0
    <3>1. b0 \in Seq(Chars)
      BY <2>12, ConcatProperties
    <3> HIDE DEF b0
    <3>2. b \in Seq(Chars) /\ << >> \in Seq(Chars)
      BY <2>12, <3>1, ConcatProperties, EmptySeq
    <3> HIDE DEF b
    <3>3. Shows(start \o ((b \o (value \o << >>)) \o after), value)
      BY <2>5, <2>9, <2>12, <3>2, ShownWithin
    <3>4. QED
      BY <2>11, <2>12, <3>3 DEF b, b0
  <2>15. QED
    BY <2>13, <2>14 DEF a, label, value
<1>9. QED
  BY <1>5, <1>7, <1>8 DEF shown

------------------------------------------------------------------------------
(***************************************************************************)
(* What WhatsApp is sent is accepted, and every control stands for its     *)
(* action.                                                                 *)
(***************************************************************************)

\* What is written with marks where it was with marks leaves marks.
LEMMA PiecedInk ==
  ASSUME NEW I, NEW S, NEW p \in Writers(I, S), NEW q \in Writers(I, S),
         \A x \in I : Ink(p[x]) => Ink(q[x]),
         NEW items \in Seq(I), Ink(Pieced(items, p))
  PROVE  Ink(Pieced(items, q))
<1> DEFINE T == {m \in Seq(I) : Ink(Pieced(m, p)) => Ink(Pieced(m, q))}
<1>1. << >> \in T
  <2>1. << >> \in Seq(I) /\ Pieced(<< >>, p) = << >> /\ Pieced(<< >>, q) = << >>
    BY EmptySeq, PiecedEmpty
  <2>2. QED
    BY <2>1
<1>2. ASSUME NEW m \in Seq(I), NEW x \in I, m \in T PROVE Append(m, x) \in T
  <2> DEFINE mp == Pieced(m, p)
             mq == Pieced(m, q)
             xp == p[x]
             xq == q[x]
  <2>1. Append(m, x) \in Seq(I)
    BY AppendProperties
  <2>2. mp \in Seq(S) /\ mq \in Seq(S)
    BY PiecesOf
  <2>3. xp \in Seq(S) /\ xq \in Seq(S) /\ (Ink(xp) => Ink(xq)) /\ (Ink(mp) => Ink(mq))
    BY <1>2 DEF Writers
  <2>4. Pieced(Append(m, x), p) = mp \o xp
    BY PiecedAppend
  <2>5. Pieced(Append(m, x), q) = mq \o xq
    BY PiecedAppend
  <2> HIDE DEF mp, mq, xp, xq
  <2>6. Ink(mp \o xp) <=> Ink(mp) \/ Ink(xp)
    BY <2>2, <2>3, InkConcat
  <2>7. Ink(mq \o xq) <=> Ink(mq) \/ Ink(xq)
    BY <2>2, <2>3, InkConcat
  <2>8. QED
    BY <2>1, <2>3, <2>4, <2>5, <2>6, <2>7
<1> HIDE DEF T
<1>3. items \in T
  BY <1>1, <1>2, SequenceInduction
<1>4. QED
  BY <1>3 DEF T

\* WhatsApp shows a mark wherever there is one to show.
LEMMA WhatsAppInk ==
  ASSUME NEW words \in Seq(Chars)
  PROVE  /\ RenderWhatsAppText(Parse(words)) \in Seq(Chars)
         /\ Ink(RenderPlain(Parse(words))) => Ink(RenderWhatsAppText(Parse(words)))
         /\ RenderPlain(Parse(words)) \in Seq(Chars)
<1> DEFINE spans == Parse(words)
           I == SpanOf(Chars)
           plain == PlainPiece(Chars)
           chat == WhatsAppPiece(Chars)
<1>1. Tags \subseteq Chars
  BY DEF Chars
<1>2. spans \in Seq(I)
  BY <1>1, ParseLosesNothing
<1>3. "*" \in Chars /\ "_" \in Chars /\ Tick \in Chars
  BY DEF Chars
<1>4. \A s \in I : s.kind \in Kinds /\ s.body \in Seq(Chars)
  BY DEF SpanOf
<1>5. plain \in Writers(I, Chars) /\ \A s \in I : plain[s] = s.body
  BY <1>4 DEF PlainPiece, Writers
<1>6. ASSUME NEW s \in I
      PROVE  chat[s] \in Seq(Chars) /\ (Ink(s.body) => Ink(chat[s]))
  <2> DEFINE body == s.body
             mark == ChatMarks[s.kind]
  <2>1. body \in Seq(Chars) /\ s.kind \in Kinds
    BY <1>4
  <2>2. chat[s] = IF s.kind = "Text" THEN body ELSE mark \o body \o mark
    BY DEF WhatsAppPiece, Marked
  <2>3. CASE s.kind = "Text"
    BY <2>1, <2>2, <2>3
  <2>4. CASE s.kind # "Text"
    <3>1. mark \in Seq(Chars)
      <4>1. \A c \in Chars : <<c>> \in Seq(Chars)
        BY OneCharacter
      <4>2. s.kind \in {"Bold", "Italic", "Code"}
        BY <2>1, <2>4 DEF Kinds
      <4>3. mark = <<"*">> \/ mark = <<"_">> \/ mark = <<Tick>>
        <5>1. /\ ChatMarks["Bold"] = <<"*">> /\ ChatMarks["Italic"] = <<"_">>
              /\ ChatMarks["Code"] = <<Tick>>
          BY DEF ChatMarks
        <5>2. s.kind = "Bold" \/ s.kind = "Italic" \/ s.kind = "Code"
          BY <4>2
        <5>3. QED
          BY <5>1, <5>2, Zenon
      <4>4. QED
        BY <1>3, <4>1, <4>3
    <3>2. chat[s] = (mark \o body) \o mark
      BY <2>2, <2>4
    <3> HIDE DEF mark, body
    <3>3. mark \o body \in Seq(Chars)
      BY <2>1, <3>1, ConcatProperties
    <3> DEFINE front == mark \o body
    <3>4. Ink(body) => Ink(front)
      BY <2>1, <3>1, InkConcat
    <3> HIDE DEF front
    <3>5. front \o mark \in Seq(Chars) /\ (Ink(front) => Ink(front \o mark))
      BY <3>1, <3>3, ConcatProperties, InkConcat DEF front
    <3>6. QED
      BY <3>2, <3>4, <3>5 DEF front, body
  <2>5. QED
    BY <2>3, <2>4
<1>7. chat \in Writers(I, Chars)
  BY <1>6 DEF WhatsAppPiece, Writers
<1>8. \A i \in DOMAIN spans : spans[i] \in I
  BY <1>2, LenProperties, ElementOfSeq
<1>9. RenderWhatsAppText(spans) = Pieced(spans, chat)
  BY <1>8 DEF RenderWhatsAppText, Pieced, Parts, WhatsAppPiece
<1>10. RenderPlain(spans) = Pieced(spans, plain)
  BY <1>8 DEF RenderPlain, Pieced, Parts, PlainPiece
<1> HIDE DEF spans, I, plain, chat
<1>11. Pieced(spans, chat) \in Seq(Chars) /\ Pieced(spans, plain) \in Seq(Chars)
  BY <1>2, <1>5, <1>7, PiecesOf
<1>12. Ink(Pieced(spans, plain)) => Ink(Pieced(spans, chat))
  <2>1. \A s \in I : Ink(plain[s]) => Ink(chat[s])
    BY <1>5, <1>6
  <2>2. QED
    BY <1>2, <1>5, <1>7, <2>1, PiecedInk
<1>13. QED
  BY <1>9, <1>10, <1>11, <1>12 DEF spans

\* As many titles as there are actions, if no two are the same.
LEMMA DistinctCount ==
  ASSUME NEW titles \in Seq(Seq(Chars)), NoTwoAlike(titles)
  PROVE  Cardinality({titles[i] : i \in 1..Len(titles)}) = Len(titles)
<1> DEFINE n == Len(titles)
           image == {titles[i] : i \in 1..n}
           f == [i \in 1..n |-> titles[i]]
<1>1. n \in Nat
  BY LenProperties
<1>2. \A i, j \in 1..n : titles[i] = titles[j] => i = j
  BY Zenon DEF NoTwoAlike
<1> HIDE DEF n
<1>3. f \in Bijection(1..n, image)
  <2>1. f \in [1..n -> image]
    OBVIOUS
  <2>2. \A t \in image : \E i \in 1..n : f[i] = t
    OBVIOUS
  <2>3. \A i, j \in 1..n : f[i] = f[j] => i = j
    BY <1>2
  <2> HIDE DEF f, image
  <2>4. QED
    BY <2>1, <2>2, <2>3 DEF Bijection, Injection, Surjection, IsInjective
<1>4. ExistsBijection(1..n, image)
  BY <1>3 DEF ExistsBijection
<1> HIDE DEF image
<1>5. Cardinality(image) = n
  BY <1>1, <1>4, FS_CountingElements
<1>6. QED
  BY <1>5 DEF image, n

\* The controls WhatsApp is sent, in order.
IsInteractive(p, shape, opener, heading, said, acts, max) ==
  /\ p.shape = shape /\ p.opener = opener /\ p.header = Header(heading, said)
  /\ p.text = CardBodyText(heading, said)
  /\ DOMAIN p.buttons = 1..Len(acts) /\ Len(p.buttons) = Len(acts)
  /\ \A i \in 1..Len(acts) :
       /\ Len(p.buttons[i].label) <= max /\ Trim(p.buttons[i].label) # << >>
       /\ p.buttons[i].value = acts[i].value
       /\ p.buttons[i].link = (acts[i].type = "url")
  /\ Cardinality({p.buttons[i].label : i \in 1..Len(acts)}) = Len(acts)

\* What Interactive makes of a card is such a message.
LEMMA InteractiveFacts ==
  ASSUME NEW shape, NEW opener, NEW heading \in Seq(Chars), NEW said \in Seq(Chars),
         NEW acts \in Seq(CardAction), NEW max \in Nat \ 0..2, Len(acts) <= 98,
         InteractiveEligible(acts)
  PROVE  IsInteractive(Interactive(shape, opener, heading, said, acts, max),
                       shape, opener, heading, said, acts, max)
<1> DEFINE n == Len(acts)
           titles == UniqueTitles(acts, max)
           p == Interactive(shape, opener, heading, said, acts, max)
           buttons == [i \in 1..n |-> Button(titles[i], acts[i])]
<1>1. n \in Nat /\ n <= 98 /\ DOMAIN acts = 1..n
  <2>1. Len(acts) \in Nat /\ DOMAIN acts = 1..Len(acts)
    BY LenProperties
  <2>2. Len(acts) <= 98
    OBVIOUS
  <2>3. QED
    BY <2>1, <2>2, Zenon
<1>2. \A i \in 1..n : acts[i] \in CardAction /\ Ink(acts[i].label)
  <2>1. \A i \in 1..n : acts[i] \in CardAction
    BY ElementOfSeq
  <2>2. \A i \in 1..n : acts[i].label \in Seq(Chars) /\ Trim(acts[i].label) # << >>
    BY <1>1, <2>1 DEF InteractiveEligible, CardAction
  <2>3. QED
    BY <2>1, <2>2, TrimFacts
<1>3. titles \in Seq(Seq(Chars)) /\ Len(titles) = n /\ Accepted(titles, max)
  BY <1>1, <1>2, UniqueFacts
<1>4. /\ p.shape = shape /\ p.opener = opener /\ p.header = Header(heading, said)
      /\ p.text = CardBodyText(heading, said) /\ p.buttons = buttons
  BY <1>1 DEF Interactive
<1> HIDE DEF titles, p, n
<1>5. \A i \in 1..n : /\ buttons[i].label = titles[i] /\ buttons[i].value = acts[i].value
                      /\ buttons[i].link = (acts[i].type = "url")
  BY DEF Button
<1>6. DOMAIN buttons = 1..n /\ Len(buttons) = n
  <2>1. DOMAIN buttons = 1..n
    OBVIOUS
  <2>2. buttons \in Seq({buttons[i] : i \in 1..n})
    <3> DEFINE B == {buttons[i] : i \in 1..n}
    <3>1. buttons \in [1..n -> B]
      OBVIOUS
    <3> HIDE DEF buttons, B
    <3>2. buttons \in Seq(B)
      BY <1>1, <3>1, SeqDef
    <3>3. QED
      BY <3>2 DEF B
  <2> HIDE DEF buttons
  <2>3. Len(buttons) \in Nat /\ 1..Len(buttons) = 1..n
    BY <2>1, <2>2, LenProperties
  <2>4. QED
    BY <1>1, <2>1, <2>3
<1> HIDE DEF buttons
<1>7. ASSUME NEW i \in 1..n
      PROVE  Len(titles[i]) <= max /\ Trim(titles[i]) # << >>
  <2>1. titles[i] \in Seq(Chars) /\ Len(titles[i]) <= max /\ Ink(titles[i])
    BY <1>3 DEF Accepted, Presentable
  <2>2. QED
    BY <2>1, TrimFacts
<1>8. Cardinality({buttons[i].label : i \in 1..n}) = n
  <2>1. {buttons[i].label : i \in 1..n} = {titles[i] : i \in 1..n}
    BY <1>5
  <2>2. Cardinality({titles[i] : i \in 1..Len(titles)}) = Len(titles)
    <3>1. titles \in Seq(Seq(Chars)) /\ NoTwoAlike(titles)
      BY <1>3 DEF Accepted
    <3>2. QED
      BY <3>1, DistinctCount
  <2>3. QED
    BY <1>3, <2>1, <2>2
<1>9. QED
  BY <1>4, <1>5, <1>6, <1>7, <1>8 DEF p, n, IsInteractive

\* A card with any words has a body, ...
LEMMA BodyFacts ==
  ASSUME NEW heading \in Seq(Chars), NEW said \in Seq(Chars), Ink(heading) \/ Ink(said)
  PROVE  Trim(CardBodyText(heading, said)) # << >>
<1>1. Trim(heading) # << >> <=> Ink(heading)
  BY TrimFacts
<1>2. Trim(said) # << >> <=> Ink(said)
  BY TrimFacts
<1>3. QED
  BY <1>1, <1>2 DEF CardBodyText

\* ... and a header within its cap.
LEMMA HeaderFacts ==
  ASSUME NEW heading \in Seq(Chars), NEW said \in Seq(Chars)
  PROVE  Len(Header(heading, said)) <= MAX_HEADER_TEXT
<1>1. MAX_HEADER_TEXT \in Nat
  BY CapsAssumption
<1>2. Len(<< >>) = 0
  BY EmptySeq
<1>3. Len(Take(heading, MAX_HEADER_TEXT)) <= MAX_HEADER_TEXT
  <2>1. Len(heading) \in Nat
    BY LenProperties
  <2>2. Len(Take(heading, MAX_HEADER_TEXT))
          = IF MAX_HEADER_TEXT < Len(heading) THEN MAX_HEADER_TEXT ELSE Len(heading)
    BY <1>1, TakeFacts
  <2>3. QED
    BY <1>1, <2>1, <2>2
<1>4. QED
  BY <1>1, <1>2, <1>3 DEF Header

\* The word that opens a list ...
Opener(heading) ==
  IF Trim(heading) = << >> THEN <<"Menu">> ELSE Take(heading, MAX_LIST_OPEN_LABEL)

\* ... is there, and within its cap.
LEMMA OpenerFacts ==
  ASSUME NEW heading \in Seq(Chars)
  PROVE  Len(Opener(heading)) \in 1..MAX_LIST_OPEN_LABEL
<1>1. MAX_LIST_OPEN_LABEL \in Nat \ {0}
  BY CapsAssumption
<1>2. Len(<<"Menu">>) = 1
  OBVIOUS
<1>3. CASE Trim(heading) = << >>
  BY <1>1, <1>2, <1>3 DEF Opener
<1>4. CASE Trim(heading) # << >>
  <2>1. Len(heading) \in Nat \ {0}
    <3>1. Ink(heading)
      BY <1>4, TrimFacts
    <3>2. QED
      BY <3>1, LenProperties DEF Ink
  <2>2. Len(Take(heading, MAX_LIST_OPEN_LABEL))
          = IF MAX_LIST_OPEN_LABEL < Len(heading) THEN MAX_LIST_OPEN_LABEL ELSE Len(heading)
    BY <1>1, TakeFacts
  <2>3. QED
    BY <1>1, <1>4, <2>1, <2>2 DEF Opener
<1>5. QED
  BY <1>3, <1>4

\* An interactive message within its caps, with a body, is one Meta takes.
LEMMA InteractiveAccepted ==
  ASSUME NEW heading \in Seq(Chars), NEW said \in Seq(Chars), Ink(heading) \/ Ink(said),
         NEW acts \in Seq(CardAction), InteractiveEligible(acts)
  PROVE  /\ Len(acts) <= MAX_REPLY_BUTTONS /\ IdsFit(acts, MAX_BUTTON_ID)
            => MetaAccepts(InteractiveButtons(heading, said, acts))
         /\ Len(acts) <= MAX_LIST_ROWS /\ IdsFit(acts, MAX_ROW_ID)
            => MetaAccepts(InteractiveList(heading, said, acts))
<1> DEFINE n == Len(acts)
<1>1. n \in Nat /\ DOMAIN acts = 1..n /\ n # 0
  <2>1. acts # << >>
    BY DEF InteractiveEligible
  <2>2. QED
    BY <2>1, LenProperties, EmptySeq
<1>2. /\ MAX_REPLY_BUTTONS \in 1..98 /\ MAX_LIST_ROWS \in 1..98
      /\ MAX_BUTTON_TITLE \in Nat \ 0..2 /\ MAX_ROW_TITLE \in Nat \ 0..2
  BY CapsAssumption
<1>3. Trim(CardBodyText(heading, said)) # << >> /\ Len(Header(heading, said)) <= MAX_HEADER_TEXT
  BY BodyFacts, HeaderFacts
<1>4. ASSUME Len(acts) <= MAX_REPLY_BUTTONS, IdsFit(acts, MAX_BUTTON_ID)
      PROVE  MetaAccepts(InteractiveButtons(heading, said, acts))
  <2> DEFINE p == Interactive("buttons", << >>, heading, said, acts, MAX_BUTTON_TITLE)
  <2>1. n <= 98 /\ n \in 1..MAX_REPLY_BUTTONS
    BY <1>1, <1>2, <1>4
  <2>2. /\ p.shape = "buttons" /\ p.header = Header(heading, said)
        /\ p.text = CardBodyText(heading, said)
        /\ DOMAIN p.buttons = 1..n /\ Len(p.buttons) = n
        /\ \A i \in 1..n :
             /\ Len(p.buttons[i].label) <= MAX_BUTTON_TITLE /\ Trim(p.buttons[i].label) # << >>
             /\ p.buttons[i].value = acts[i].value
        /\ Cardinality({p.buttons[i].label : i \in 1..n}) = n
    <3>1. IsInteractive(p, "buttons", << >>, heading, said, acts, MAX_BUTTON_TITLE)
      BY <1>2, <2>1, InteractiveFacts
    <3> HIDE DEF p
    <3>2. QED
      BY <3>1 DEF IsInteractive
  <2>3. InteractiveButtons(heading, said, acts) = p
    BY DEF InteractiveButtons
  <2>4. \A i \in 1..n : Len(acts[i].value) <= MAX_BUTTON_ID
    BY <1>1, <1>4 DEF IdsFit
  <2> HIDE DEF p, n
  <2>5. p.shape # "list" /\ p.shape # "text"
    BY <2>2
  <2>6. /\ Trim(p.text) # << >> /\ Len(p.header) <= MAX_HEADER_TEXT
        /\ Len(p.buttons) \in 1..MAX_REPLY_BUTTONS
    BY <1>3, <2>1, <2>2
  <2>7. \A i \in DOMAIN p.buttons :
          /\ Len(p.buttons[i].label) <= MAX_BUTTON_TITLE /\ Trim(p.buttons[i].label) # << >>
          /\ Len(p.buttons[i].value) <= MAX_BUTTON_ID
    BY <2>2, <2>4
  <2>8. Cardinality({p.buttons[i].label : i \in DOMAIN p.buttons}) = Len(p.buttons)
    BY <2>2
  <2>9. MetaAccepts(p)
    BY <2>5, <2>6, <2>7, <2>8 DEF MetaAccepts
  <2>10. QED
    BY <2>3, <2>9
<1>5. ASSUME Len(acts) <= MAX_LIST_ROWS, IdsFit(acts, MAX_ROW_ID)
      PROVE  MetaAccepts(InteractiveList(heading, said, acts))
  <2> DEFINE p == Interactive("list", Opener(heading), heading, said, acts, MAX_ROW_TITLE)
  <2>1. n <= 98 /\ n \in 1..MAX_LIST_ROWS
    BY <1>1, <1>2, <1>5
  <2>2. /\ p.shape = "list" /\ p.opener = Opener(heading) /\ p.header = Header(heading, said)
        /\ p.text = CardBodyText(heading, said)
        /\ DOMAIN p.buttons = 1..n /\ Len(p.buttons) = n
        /\ \A i \in 1..n :
             /\ Len(p.buttons[i].label) <= MAX_ROW_TITLE /\ Trim(p.buttons[i].label) # << >>
             /\ p.buttons[i].value = acts[i].value
        /\ Cardinality({p.buttons[i].label : i \in 1..n}) = n
    <3>1. IsInteractive(p, "list", Opener(heading), heading, said, acts, MAX_ROW_TITLE)
      BY <1>2, <2>1, InteractiveFacts
    <3> HIDE DEF p
    <3>2. QED
      BY <3>1 DEF IsInteractive
  <2>3. InteractiveList(heading, said, acts) = p
    BY DEF InteractiveList, Opener
  <2>4. \A i \in 1..n : Len(acts[i].value) <= MAX_ROW_ID
    BY <1>1, <1>5 DEF IdsFit
  <2> HIDE DEF p, n
  <2>5. Len(p.opener) \in 1..MAX_LIST_OPEN_LABEL
    BY <2>2, OpenerFacts
  <2>6. /\ Trim(p.text) # << >> /\ Len(p.header) <= MAX_HEADER_TEXT
        /\ Len(p.buttons) \in 1..MAX_LIST_ROWS
    BY <1>3, <2>1, <2>2
  <2>7. \A i \in DOMAIN p.buttons :
          /\ Len(p.buttons[i].label) <= MAX_ROW_TITLE /\ Trim(p.buttons[i].label) # << >>
          /\ Len(p.buttons[i].value) <= MAX_ROW_ID
    BY <2>2, <2>4
  <2>8. Cardinality({p.buttons[i].label : i \in DOMAIN p.buttons}) = Len(p.buttons)
    BY <2>2
  <2>9. MetaAccepts(p)
    BY <2>2, <2>5, <2>6, <2>7, <2>8 DEF MetaAccepts
  <2>10. QED
    BY <2>3, <2>9
<1>6. QED
  BY <1>4, <1>5

\* WhatsApp's controls stand for the actions of the card.
LEMMA InteractiveStands ==
  ASSUME NEW heading \in Seq(Chars), NEW said \in Seq(Chars),
         NEW acts \in Seq(CardAction), InteractiveEligible(acts), NEW i \in 1..Len(acts)
  PROVE  /\ Len(acts) <= MAX_REPLY_BUTTONS
            => StandsFor(InteractiveButtons(heading, said, acts), acts[i], i)
         /\ Len(acts) <= MAX_LIST_ROWS
            => StandsFor(InteractiveList(heading, said, acts), acts[i], i)
<1>1. /\ MAX_REPLY_BUTTONS \in 1..98 /\ MAX_LIST_ROWS \in 1..98
      /\ MAX_BUTTON_TITLE \in Nat \ 0..2 /\ MAX_ROW_TITLE \in Nat \ 0..2
  BY CapsAssumption
<1>2. Len(acts) \in Nat
  BY LenProperties
<1>3. ASSUME NEW shape, NEW opener, NEW max \in Nat \ 0..2, Len(acts) <= 98
      PROVE  StandsFor(Interactive(shape, opener, heading, said, acts, max), acts[i], i)
  <2> DEFINE p == Interactive(shape, opener, heading, said, acts, max)
  <2>1. /\ DOMAIN p.buttons = 1..Len(acts)
        /\ \A j \in 1..Len(acts) : /\ p.buttons[j].value = acts[j].value
                                   /\ p.buttons[j].link = (acts[j].type = "url")
    <3>1. IsInteractive(p, shape, opener, heading, said, acts, max)
      BY <1>3, InteractiveFacts
    <3> HIDE DEF p
    <3>2. QED
      BY <3>1 DEF IsInteractive
  <2> HIDE DEF p
  <2>2. p.buttons # << >>
    BY <2>1
  <2>3. StandsFor(p, acts[i], i)
    BY <2>1, <2>2 DEF StandsFor
  <2>4. QED
    BY <2>3 DEF p
<1>4. ASSUME Len(acts) <= MAX_REPLY_BUTTONS
      PROVE  StandsFor(InteractiveButtons(heading, said, acts), acts[i], i)
  <2>1. Len(acts) <= 98
    BY <1>1, <1>2, <1>4
  <2>2. QED
    BY <1>1, <1>3, <2>1 DEF InteractiveButtons
<1>5. ASSUME Len(acts) <= MAX_LIST_ROWS
      PROVE  StandsFor(InteractiveList(heading, said, acts), acts[i], i)
  <2>1. Len(acts) <= 98
    BY <1>1, <1>2, <1>5
  <2>2. QED
    BY <1>1, <1>3, <2>1 DEF InteractiveList
<1>6. QED
  BY <1>4, <1>5

\* What WhatsApp is sent of a card: Meta takes it, and it stands for every action.
LEMMA WhatsAppCard ==
  ASSUME NEW heading \in Seq(Chars), NEW said \in Seq(Chars), NEW acts \in Seq(CardAction)
  PROVE  /\ Ink(heading) \/ Ink(said) => MetaAccepts(RenderCard(heading, said, acts))
         /\ \A i \in 1..Len(acts) : StandsFor(RenderCard(heading, said, acts), acts[i], i)
<1> DEFINE AsButtons == /\ InteractiveEligible(acts)
                        /\ Len(acts) <= MAX_REPLY_BUTTONS /\ IdsFit(acts, MAX_BUTTON_ID)
           AsList == /\ InteractiveEligible(acts)
                     /\ Len(acts) <= MAX_LIST_ROWS /\ IdsFit(acts, MAX_ROW_ID)
           p == RenderCard(heading, said, acts)
<1>1. CASE AsButtons
  <2>1. p = InteractiveButtons(heading, said, acts)
    BY <1>1 DEF RenderCard
  <2>2. QED
    BY <1>1, <2>1, InteractiveAccepted, InteractiveStands
<1>2. CASE ~ AsButtons /\ AsList
  <2>1. p = InteractiveList(heading, said, acts)
    BY <1>2 DEF RenderCard
  <2>2. QED
    BY <1>2, <2>1, InteractiveAccepted, InteractiveStands
<1>3. CASE ~ AsButtons /\ ~ AsList
  <2>1. p = CardAsText(heading, said, acts)
    BY <1>3 DEF RenderCard
  <2> DEFINE shown == CardAsText(heading, said, acts).text
  <2>2. /\ shown \in Seq(Chars) /\ Ink(shown)
        /\ \A i \in 1..Len(acts) : Shows(shown, acts[i].label) /\ Shows(shown, acts[i].value)
    BY TextShowsActions
  <2>3. p.text = shown /\ p.shape = "text" /\ p.buttons = << >>
    <3>1. PICK words : CardAsText(heading, said, acts) = Payload("text", words, << >>)
      BY DEF CardAsText
    <3>2. QED
      BY <2>1, <3>1 DEF Payload
  <2> HIDE DEF p, shown
  <2>4. Trim(p.text) # << >>
    BY <2>2, <2>3, TrimFacts
  <2>5. MetaAccepts(p)
    BY <2>3, <2>4 DEF MetaAccepts
  <2>6. \A i \in 1..Len(acts) : StandsFor(p, acts[i], i)
    BY <2>2, <2>3 DEF StandsFor
  <2>7. QED
    BY <2>5, <2>6 DEF p
<1>4. QED
  BY <1>1, <1>2, <1>3

\* A card is made of characters.
CardShape ==
  dialect = "card" => /\ text \in Seq(Chars) /\ title \in Seq(Chars)
                      /\ actions \in Seq(CardAction)

\* Every step keeps it so.
LEMMA CardsKeepShape == Spec => []CardShape
<1>1. Titles \cup Bodies \subseteq Seq(Chars) /\ Actions \subseteq CardAction
  <2>1. STRING \subseteq Chars
    BY DEF Chars
  <2>2. Seq(STRING) \subseteq Seq(Chars)
    BY <2>1, SeqMonotonic
  <2>3. QED
    BY <2>2, CardsAssumption DEF CardAction
<1>2. Init => CardShape
  <2>1. << >> \in Seq(CardAction)
    BY EmptySeq
  <2>2. QED
    BY <1>1, <2>1 DEF Init, CardShape
<1>3. CardShape /\ [Next]_vars => CardShape'
  <2>1. SUFFICES ASSUME CardShape, [Next]_vars PROVE CardShape'
    OBVIOUS
  <2>2. ASSUME NEW c \in HtmlChars \cup MarkdownChars, Type(c) PROVE CardShape'
    BY <2>2 DEF Type, CardShape
  <2>3. ASSUME NEW action \in Actions, AddAction(action) PROVE CardShape'
    <3>1. actions \in Seq(CardAction) /\ action \in CardAction /\ actions' = Append(actions, action)
      BY <1>1, <2>1, <2>3 DEF AddAction, CardShape
    <3>2. actions' \in Seq(CardAction)
      BY <3>1, AppendProperties
    <3>3. QED
      BY <2>1, <2>3, <3>2 DEF AddAction, CardShape
  <2>4. CASE UNCHANGED vars
    BY <2>1, <2>4 DEF vars, CardShape
  <2>5. QED
    BY <2>1, <2>2, <2>3, <2>4 DEF Next
<1>4. QED
  BY <1>2, <1>3, PTL DEF Spec

\* Every card sent to WhatsApp is usable.
LEMMA EveryCardUsable ==
  ASSUME dialect = "card", text \in Seq(Chars), title \in Seq(Chars),
         actions \in Seq(CardAction)
  PROVE  WhatsAppCardsAreUsable
<1> DEFINE card == Card(title, text, actions)
           said == RenderWhatsAppText(Parse(text))
           plain == RenderPlain(Parse(text))
<1>1. /\ card.type = "Card" /\ card.title = title /\ card.body = text
      /\ card.actions = actions
  BY DEF Card
<1>2. DOMAIN actions = 1..Len(actions)
  BY LenProperties
<1>3. said \in Seq(Chars) /\ plain \in Seq(Chars) /\ (Ink(plain) => Ink(said))
  BY WhatsAppInk
<1> HIDE DEF card
<1>4. Render("whatsapp", card) = RenderCard(title, said, actions)
  BY <1>1 DEF Render, RenderWhatsApp
<1> HIDE DEF said, plain
<1>5. /\ Ink(title) \/ Ink(said) => MetaAccepts(RenderCard(title, said, actions))
      /\ \A i \in 1..Len(actions) : StandsFor(RenderCard(title, said, actions), actions[i], i)
  BY <1>3, WhatsAppCard
<1>6. Trim(title) # << >> \/ Trim(plain) # << >> => MetaAccepts(Render("whatsapp", card))
  <2>1. (Trim(title) # << >> <=> Ink(title)) /\ (Trim(plain) # << >> <=> Ink(plain))
    BY <1>3, TrimFacts
  <2>2. QED
    BY <1>3, <1>4, <1>5, <2>1
<1>7. \A i \in DOMAIN actions : StandsFor(Render("whatsapp", card), actions[i], i)
  BY <1>2, <1>4, <1>5
<1>8. QED
  BY <1>6, <1>7 DEF WhatsAppCardsAreUsable, card, plain

\* Every card sent to WhatsApp is usable, however many actions of whatever length it has
\* (whatsapp/renderer.rs:100-263).
THEOREM WhatsAppCardsStayUsable == Spec => []WhatsAppCardsAreUsable
<1>1. CardShape => WhatsAppCardsAreUsable
  BY EveryCardUsable DEF CardShape, WhatsAppCardsAreUsable
<1>2. QED
  BY <1>1, CardsKeepShape, PTL
==============================================================================
