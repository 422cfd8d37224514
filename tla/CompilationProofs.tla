------------------------- MODULE CompilationProofs -------------------------
(***************************************************************************)
(* For every set of well-formed requests, whatever their trees hold.       *)
(*                                                                         *)
(* Each property speaks of a finished plan, and of the tree it was made    *)
(* from.  The strengthening, Known, says what a compilation has computed   *)
(* at each of its points: that what it goes on with is the inventory of    *)
(* the manifest's packages, narrowed to those that were selected, and that *)
(* each plan is the one that PlanFor gives for it.  All else is about      *)
(* values: what imports, what of it a target is given, where its files are *)
(* rendered and what they are made from.  A file is then followed from the *)
(* tree to the plan, for NothingIsLost, and back, for OthersStayOut.       *)
(*                                                                         *)
(* What the model defines by recursion, or by the choice of a sorted list, *)
(* is shown to exist, by a function that is built step by step and by the  *)
(* ranks of the elements; induction is by a least counterexample.          *)
(***************************************************************************)
EXTENDS Compilation, TLAPS, FiniteSetTheorems, SequenceTheorems, WellFoundedInduction

-----------------------------------------------------------------------------
(* Sequences and paths *)

\* A sequence over a set is one over its own elements.
LEMMA SequenceOver ==
    ASSUME NEW S, NEW s \in Seq(S)
    PROVE  IsSequence(s) /\ ToSet(s) \subseteq S
  BY DEF IsSequence, ToSet

\* What is known of a sequence whose elements are not: its length, domain and emptiness.
LEMMA SequenceFacts ==
    ASSUME NEW s, IsSequence(s)
    PROVE  /\ Len(s) \in Nat /\ DOMAIN s = 1..Len(s) /\ s = [i \in 1..Len(s) |-> s[i]]
           /\ (s = <<>>) <=> (Len(s) = 0)
  BY DEF IsSequence

\* Sequences of one length that agree everywhere are the same.
LEMMA SequencesEqual ==
    ASSUME NEW s, NEW u, IsSequence(s), IsSequence(u), Len(s) = Len(u), \A i \in 1..Len(s) : s[i] = u[i]
    PROVE  s = u
  BY SequenceFacts

\* A sequence is one over any set that has its elements.
LEMMA SequenceInto ==
    ASSUME NEW s, IsSequence(s), NEW S, ToSet(s) \subseteq S
    PROVE  s \in Seq(S)
  BY DEF IsSequence

\* What two sequences one after the other have where.
LEMMA Joined ==
    ASSUME NEW p, NEW q, IsSequence(p), IsSequence(q)
    PROVE  /\ IsSequence(p \o q) /\ Len(p \o q) = Len(p) + Len(q)
           /\ \A i \in 1..Len(p) : (p \o q)[i] = p[i]
           /\ \A i \in 1..Len(q) : (p \o q)[Len(p) + i] = q[i]
           /\ ToSet(p \o q) = ToSet(p) \cup ToSet(q)
           /\ SubSeq(p \o q, Len(p) + 1, Len(p \o q)) = q
<1> DEFINE S == ToSet(p) \cup ToSet(q)
<1>1. p \in Seq(S) /\ q \in Seq(S)  BY SequenceInto
<1> HIDE DEF S
<1>2. p \o q \in Seq(S) /\ Len(p \o q) = Len(p) + Len(q) /\ Len(p) \in Nat /\ Len(q) \in Nat
  BY <1>1
<1>3. \A i \in 1..Len(p) : (p \o q)[i] = p[i]  BY <1>1
<1>4. \A i \in 1..Len(q) : (p \o q)[Len(p) + i] = q[i]  BY <1>1
<1>5. ToSet(p \o q) = ToSet(p) \cup ToSet(q)
  <2>1. DOMAIN (p \o q) = 1..(Len(p) + Len(q)) /\ DOMAIN p = 1..Len(p) /\ DOMAIN q = 1..Len(q)  BY <1>1, <1>2
  <2>2. \A i \in DOMAIN (p \o q) : i \in 1..Len(p) \/ (i - Len(p) \in 1..Len(q) /\ i = Len(p) + (i - Len(p)))
    BY <1>2, <2>1
  <2>3. \A i \in DOMAIN (p \o q) : (p \o q)[i] \in ToSet(p) \cup ToSet(q)
    BY <1>3, <1>4, <2>1, <2>2 DEF ToSet
  <2>4. \A i \in DOMAIN p : i \in DOMAIN (p \o q)  BY <1>2, <2>1
  <2>5. \A i \in DOMAIN q : Len(p) + i \in DOMAIN (p \o q)  BY <1>2, <2>1
  <2> QED  BY <1>3, <1>4, <2>1, <2>3, <2>4, <2>5 DEF ToSet
<1>6. SubSeq(p \o q, Len(p) + 1, Len(p \o q)) = q
  BY <1>1, <1>2, SubSeqOfConcat2, SubSeqFull
<1> QED  BY <1>2, <1>3, <1>4, <1>5, <1>6, SequenceOver

\* Joining is associative,
LEMMA JoinedTwice ==
    ASSUME NEW p, NEW q, NEW r, IsSequence(p), IsSequence(q), IsSequence(r)
    PROVE  (p \o q) \o r = p \o (q \o r)
<1> DEFINE S == ToSet(p) \cup ToSet(q) \cup ToSet(r)
<1>1. p \in Seq(S) /\ q \in Seq(S) /\ r \in Seq(S)  BY SequenceInto
<1> QED  BY <1>1, ConcatAssociative

\* and the empty sequence changes nothing.
LEMMA JoinedEmpty ==
    ASSUME NEW p, IsSequence(p)
    PROVE  <<>> \o p = p /\ p \o <<>> = p
  BY DEF IsSequence

\* What is joined begins with its first part.
LEMMA PrefixOfJoined ==
    ASSUME NEW p, NEW q, IsSequence(p), IsSequence(q)
    PROVE  IsPrefix(p, p \o q) /\ (q # <<>> => IsStrictPrefix(p, p \o q))
<1> DEFINE S == ToSet(p) \cup ToSet(q)
<1>1. p \in Seq(S) /\ q \in Seq(S)  BY SequenceInto
<1>2. IsPrefix(p, p \o q)  BY <1>1 DEF IsPrefix
<1>3. q # <<>> => p # p \o q  BY <1>1
<1> QED  BY <1>2, <1>3 DEF IsStrictPrefix

\* A path below a directory is the directory and the path relative to it.
LEMMA PrefixSplits ==
    ASSUME NEW p, NEW q, IsSequence(p), IsSequence(q), IsPrefix(p, q)
    PROVE  /\ IsSequence(Relative(p, q)) /\ q = p \o Relative(p, q)
           /\ p # q => Relative(p, q) # <<>>
<1> DEFINE S == ToSet(p) \cup ToSet(q)
<1>1. p \in Seq(S) /\ q \in Seq(S)  BY SequenceInto
<1>2. Len(p) <= Len(q) /\ SubSeq(p, 1, Len(p)) = SubSeq(q, 1, Len(p)) /\ Len(p) \in Nat /\ Len(q) \in Nat
  BY <1>1 DEF IsPrefix
<1>3. p = SubSeq(q, 1, Len(p))  BY <1>1, <1>2, SubSeqFull
<1>4. Relative(p, q) \in Seq(S)  BY <1>1, <1>2 DEF Relative
<1>5. SubSeq(q, 1, Len(p)) \o SubSeq(q, Len(p) + 1, Len(q)) = SubSeq(q, 1, Len(q))
  <2>1. 1 \in 1..(Len(q) + 1) /\ Len(p) \in (1 - 1)..Len(q) /\ Len(q) \in Len(p)..Len(q)  BY <1>2
  <2> QED  BY <1>1, <2>1, ConcatAdjacentSubSeq
<1>6. q = p \o Relative(p, q)  BY <1>1, <1>3, <1>5, SubSeqFull DEF Relative
<1>7. Relative(p, q) = <<>> => p = q  BY <1>1, <1>6
<1> QED  BY <1>4, <1>6, <1>7, SequenceOver

\* Paths that are the same below a directory are the same.
LEMMA JoinedCancels ==
    ASSUME NEW p, NEW q, NEW r, IsSequence(p), IsSequence(q), IsSequence(r)
    PROVE  p \o q = p \o r => q = r
<1>1. SubSeq(p \o q, Len(p) + 1, Len(p \o q)) = q  BY Joined
<1>2. SubSeq(p \o r, Len(p) + 1, Len(p \o r)) = r  BY Joined
<1> QED  BY <1>1, <1>2

\* Short sequences are sequences.
LEMMA Singles ==
    ASSUME NEW a, NEW b, NEW c
    PROVE  /\ IsSequence(<<>>) /\ IsSequence(<<a>>) /\ IsSequence(<<a, b>>) /\ IsSequence(<<a, b, c>>)
<1>1. <<>> \in Seq({a}) /\ <<a>> \in Seq({a}) /\ <<a, b>> \in Seq({a, b}) /\ <<a, b, c>> \in Seq({a, b, c})
  OBVIOUS
<1> QED  BY <1>1, SequenceOver

\* A sequence with an element more.
LEMMA OneMore ==
    ASSUME NEW p, IsSequence(p), NEW x
    PROVE  /\ IsSequence(p \o <<x>>) /\ Len(p \o <<x>>) = Len(p) + 1
           /\ Last(p \o <<x>>) = x /\ ToSet(p \o <<x>>) = ToSet(p) \cup {x}
<1>1. IsSequence(<<x>>) /\ Len(<<x>>) = 1 /\ <<x>>[1] = x /\ ToSet(<<x>>) = {x}
  <2>1. Len(<<x>>) = 1 /\ <<x>>[1] = x /\ DOMAIN <<x>> = {1}  OBVIOUS
  <2> QED  BY <2>1, Singles DEF ToSet
<1>2. Len(p) \in Nat  BY SequenceFacts
<1>3. (p \o <<x>>)[Len(p) + 1] = x  BY <1>1, Joined
<1> QED  BY <1>1, <1>2, <1>3, Joined DEF Last

\* A sequence is its front and its last element.
LEMMA FrontFacts ==
    ASSUME NEW p, IsSequence(p), p # <<>>
    PROVE  IsSequence(Front(p)) /\ Len(Front(p)) = Len(p) - 1 /\ p = Front(p) \o <<Last(p)>>
<1>1. p \in Seq(ToSet(p)) /\ Len(p) \in Nat /\ Len(p) # 0  BY DEF IsSequence
<1>2. \A i \in 1..(Len(p) - 1) : p[i] \in ToSet(p)  BY <1>1
<1>3. Front(p) \in Seq(ToSet(p)) /\ Len(Front(p)) = Len(p) - 1 /\ \A i \in 1..(Len(p) - 1) : Front(p)[i] = p[i]
  <2>1. 1 \in Int /\ Len(p) - 1 \in Int  BY <1>1
  <2>2. /\ SubSeq(p, 1, Len(p) - 1) \in Seq(ToSet(p))
        /\ Len(SubSeq(p, 1, Len(p) - 1)) = IF 1 <= Len(p) - 1 THEN Len(p) - 1 - 1 + 1 ELSE 0
        /\ \A i \in 1..(Len(p) - 1 - 1 + 1) : SubSeq(p, 1, Len(p) - 1)[i] = p[1 + i - 1]
    BY <1>2, <2>1, SubSeqProperties
  <2>3. \A i \in 1..(Len(p) - 1) : SubSeq(p, 1, Len(p) - 1)[i] = p[i]
    <3> SUFFICES ASSUME NEW i \in 1..(Len(p) - 1) PROVE SubSeq(p, 1, Len(p) - 1)[i] = p[i]
      OBVIOUS
    <3>1. 1 + i - 1 = i /\ i \in 1..(Len(p) - 1 - 1 + 1)  BY <1>1
    <3> QED  BY <2>2, <3>1
  <2>4. Len(SubSeq(p, 1, Len(p) - 1)) = Len(p) - 1
    <3> DEFINE n == Len(p)
    <3>1. n \in Nat /\ n # 0  BY <1>1
    <3>2. Len(SubSeq(p, 1, n - 1)) = IF 1 <= n - 1 THEN n - 1 - 1 + 1 ELSE 0  BY <2>2
    <3> HIDE DEF n
    <3>3. Len(SubSeq(p, 1, n - 1)) = n - 1  BY <3>1, <3>2
    <3> QED  BY <3>3 DEF n
  <2> QED  BY <2>2, <2>3, <2>4 DEF Front
<1>4. IsSequence(Front(p))  BY <1>3, SequenceOver
<1>5. IsSequence(Front(p) \o <<Last(p)>>) /\ Len(Front(p) \o <<Last(p)>>) = Len(p)
  BY <1>1, <1>3, <1>4, OneMore
<1>6. \A i \in 1..(Len(p) - 1) : (Front(p) \o <<Last(p)>>)[i] = p[i]
  <2>1. IsSequence(<<Last(p)>>)  BY Singles
  <2> QED  BY <1>3, <1>4, <2>1, Joined
<1>7. (Front(p) \o <<Last(p)>>)[Len(p)] = p[Len(p)]
  <2>1. Last(Front(p) \o <<Last(p)>>) = Last(p)  BY <1>4, OneMore
  <2> QED  BY <1>5, <2>1 DEF Last
<1>8. \A i \in 1..Len(p) : i \in 1..(Len(p) - 1) \/ i = Len(p)  BY <1>1
<1> QED  BY <1>3, <1>4, <1>5, <1>6, <1>7, <1>8, SequencesEqual

-----------------------------------------------------------------------------
(* Recursive functions, and induction up to a number *)

\* Induction up to a number: what holds at 0, and after each number where it
\* holds, holds up to n; otherwise there would be a least number without it.
LEMMA Reaches ==
    ASSUME NEW n \in Nat, NEW T, 0 \in T, \A k \in 0..n : k \in T /\ k < n => k + 1 \in T
    PROVE  0..n \subseteq T
<1> SUFFICES ASSUME ~(0..n \subseteq T) PROVE FALSE
  OBVIOUS
<1> DEFINE B == (0..n) \ T
<1>1. B \subseteq Nat /\ B # {}  OBVIOUS
<1>2. PICK m \in B : \A k \in B : ~(<<k, m>> \in OpToRel(<, Nat))
  BY <1>1, NatLessThanWellFounded, WFMin
<1>3. m \in 0..n /\ m \notin T /\ m # 0  BY <1>2
<1>4. m - 1 \in 0..n /\ (m - 1) + 1 = m /\ m - 1 < m /\ m - 1 < n  BY <1>3
<1>5. m - 1 \notin T  BY <1>3, <1>4
<1>6. m - 1 \in B /\ m - 1 \in Nat /\ m \in Nat  BY <1>3, <1>4, <1>5
<1>7. <<m - 1, m>> \in OpToRel(<, Nat)
  <2>1. <<m - 1, m>> \in Nat \X Nat /\ <<m - 1, m>>[1] < <<m - 1, m>>[2]  BY <1>4, <1>6
  <2> QED  BY <2>1 DEF OpToRel
<1> QED  BY <1>2, <1>6, <1>7

\* What g has at each number follows from what it has at the one before.
Follows(g, start, step, k) == g[0] = start /\ \A n \in 1..k : g[n] = step[<<n, g[n - 1]>>]

\* There is a function that starts somewhere and goes on by given steps: what a
\* recursive function of the model is the CHOICE of exists.
LEMMA Unfolds ==
    ASSUME NEW N \in Nat, NEW D, NEW start \in D, NEW step \in [(1..N) \X D -> D]
    PROVE  \E g \in [0..N -> D] : Follows(g, start, step, N)
<1> DEFINE T == {k \in 0..N : \E g \in [0..k -> D] : Follows(g, start, step, k)}
<1>1. 0 \in T
  <2> DEFINE g == [i \in 0..0 |-> start]
  <2>1. g \in [0..0 -> D]  OBVIOUS
  <2>2. g[0] = start /\ 1..0 = {} /\ 0 \in 0..N  OBVIOUS
  <2>3. Follows(g, start, step, 0)  BY <2>2 DEF Follows
  <2> HIDE DEF g
  <2> QED  BY <2>1, <2>2, <2>3
<1>2. ASSUME NEW k \in 0..N, k \in T, k < N PROVE k + 1 \in T
  <2>1. PICK g \in [0..k -> D] : Follows(g, start, step, k)  BY <1>2
  <2> DEFINE h == [i \in 0..(k + 1) |-> IF i = k + 1 THEN step[<<k + 1, g[k]>>] ELSE g[i]]
  <2>2. g[k] \in D /\ k + 1 \in 1..N  BY <1>2, <2>1
  <2>3. step[<<k + 1, g[k]>>] \in D  BY <2>2
  <2>4. h \in [0..(k + 1) -> D]  BY <2>1, <2>3
  <2>5. h[0] = start  BY <1>2, <2>1 DEF Follows
  <2>6. ASSUME NEW i \in 1..(k + 1) PROVE h[i] = step[<<i, h[i - 1]>>]
    <3>1. CASE i = k + 1
      <4>1. i - 1 = k /\ i - 1 # k + 1 /\ i - 1 \in 0..(k + 1) /\ i \in 0..(k + 1)  BY <1>2, <3>1
      <4>2. h[i - 1] = g[k]  BY <4>1
      <4>3. h[i] = step[<<k + 1, g[k]>>]  BY <3>1, <4>1
      <4> HIDE DEF h
      <4> QED  BY <3>1, <4>2, <4>3
    <3>2. CASE i # k + 1
      <4>1. i \in 1..k /\ h[i] = g[i] /\ i - 1 \in 0..k /\ i - 1 # k + 1 /\ h[i - 1] = g[i - 1]  BY <1>2, <3>2
      <4> QED  BY <2>1, <4>1 DEF Follows
    <3> QED  BY <3>1, <3>2
  <2> HIDE DEF h
  <2>7. k + 1 \in 0..N  BY <1>2
  <2>8. Follows(h, start, step, k + 1)  BY <2>5, <2>6 DEF Follows
  <2> QED  BY <2>4, <2>7, <2>8
<1> HIDE DEF T
<1>3. 0..N \subseteq T  BY <1>1, <1>2, Reaches
<1>4. N \in T  BY <1>3
<1> QED  BY <1>4 DEF T

-----------------------------------------------------------------------------
(* What is picked from a sequence *)

\* What is picked from a sequence is a sequence of its elements in the set.
LEMMA PickFacts ==
    ASSUME NEW s, IsSequence(s), NEW T
    PROVE  IsSequence(Pick(s, T)) /\ ToSet(Pick(s, T)) = ToSet(s) \cap T
<1> DEFINE N == Len(s)
           S == ToSet(s) \cap T
           D == Seq(S)
           step == [x \in (1..N) \X D |-> IF s[x[1]] \in T THEN Append(x[2], s[x[1]]) ELSE x[2]]
           IsPicked(f) == f = [n \in 0..N |-> IF n = 0 THEN <<>>
                                  ELSE IF s[n] \in T THEN Append(f[n - 1], s[n]) ELSE f[n - 1]]
           p == CHOOSE f : IsPicked(f)
<1>1. N \in Nat /\ DOMAIN s = 1..N /\ \A n \in 1..N : s[n] \in ToSet(s)  BY SequenceFacts DEF ToSet
<1>2. Pick(s, T) = p[N]  BY DEF Pick
<1>3. step \in [(1..N) \X D -> D]
  <2>1. ASSUME NEW n \in 1..N, NEW d \in D PROVE (IF s[n] \in T THEN Append(d, s[n]) ELSE d) \in D
    BY <1>1, <2>1
  <2>2. ASSUME NEW x \in (1..N) \X D PROVE (IF s[x[1]] \in T THEN Append(x[2], s[x[1]]) ELSE x[2]) \in D
    <3>1. x[1] \in 1..N /\ x[2] \in D  BY <2>2
    <3> HIDE DEF N, D
    <3> QED  BY <3>1, <2>1
  <2> QED  BY <2>2
<1>4. PICK g \in [0..N -> D] : Follows(g, <<>>, step, N)
  <2>1. <<>> \in D  OBVIOUS
  <2> HIDE DEF D, step, N
  <2> QED  BY <1>1, <1>3, <2>1, Unfolds
<1>5. ASSUME NEW n \in 1..N
      PROVE  g[n] = IF s[n] \in T THEN Append(g[n - 1], s[n]) ELSE g[n - 1]
  <2>1. n - 1 \in 0..N /\ g[n - 1] \in D  BY <1>1, <1>4
  <2>2. <<n, g[n - 1]>> \in (1..N) \X D  BY <2>1
  <2>3. g[n] = step[<<n, g[n - 1]>>]  BY <1>4 DEF Follows
  <2>4. <<n, g[n - 1]>>[1] = n /\ <<n, g[n - 1]>>[2] = g[n - 1]  OBVIOUS
  <2> HIDE DEF N, D
  <2> QED  BY <2>2, <2>3, <2>4
<1>6. IsPicked(g)
  <2> DEFINE h == [n \in 0..N |-> IF n = 0 THEN <<>> ELSE IF s[n] \in T THEN Append(g[n - 1], s[n]) ELSE g[n - 1]]
  <2>0. g[0] = <<>>  BY <1>4 DEF Follows
  <2>1. ASSUME NEW n \in 0..N PROVE g[n] = h[n]
    <3>1. CASE n = 0  BY <2>0, <3>1
    <3>2. CASE n # 0
      <4>1. n \in 1..N  BY <1>1, <3>2
      <4> HIDE DEF N
      <4> QED  BY <1>5, <3>2, <4>1
    <3> QED  BY <3>1, <3>2
  <2>2. g = [n \in 0..N |-> g[n]]  BY <1>4
  <2>3. h = [n \in 0..N |-> h[n]]  OBVIOUS
  <2> HIDE DEF h
  <2>4. g = h  BY <2>1, <2>2, <2>3
  <2> QED  BY <2>4 DEF h
<1>7. IsPicked(p)  BY <1>6
<1> HIDE DEF p, step
<1>8. p[0] = <<>> /\ \A n \in 1..N : p[n] = IF s[n] \in T THEN Append(p[n - 1], s[n]) ELSE p[n - 1]
  <2>1. p = [n \in 0..N |-> IF n = 0 THEN <<>> ELSE IF s[n] \in T THEN Append(p[n - 1], s[n]) ELSE p[n - 1]]
    BY <1>7
  <2> DEFINE h == [n \in 0..N |-> IF n = 0 THEN <<>> ELSE IF s[n] \in T THEN Append(p[n - 1], s[n]) ELSE p[n - 1]]
  <2>2. 0 \in 0..N /\ \A n \in 1..N : n \in 0..N /\ n # 0  BY <1>1
  <2> HIDE DEF N, IsPicked
  <2>3. h[0] = <<>> /\ \A n \in 1..N : h[n] = IF s[n] \in T THEN Append(p[n - 1], s[n]) ELSE p[n - 1]  BY <2>2
  <2>4. p = h  BY <2>1
  <2> HIDE DEF h
  <2> QED  BY <2>3, <2>4
<1> DEFINE Right == {n \in 0..N : p[n] \in D /\ ToSet(p[n]) = {s[i] : i \in 1..n} \cap T}
<1>9. 0 \in Right
  <2>1. ToSet(p[0]) = {} /\ {s[i] : i \in 1..0} = {} /\ p[0] \in D /\ 0 \in 0..N  BY <1>1, <1>8 DEF ToSet
  <2> HIDE DEF D, N
  <2> QED  BY <2>1
<1>10. ASSUME NEW k \in 0..N, k \in Right, k < N PROVE k + 1 \in Right
  <2>1. k + 1 \in 1..N /\ (k + 1) - 1 = k /\ 1..(k + 1) = (1..k) \cup {k + 1}  BY <1>1, <1>10
  <2>2. p[k] \in D /\ ToSet(p[k]) = {s[i] : i \in 1..k} \cap T  BY <1>10
  <2>3. {s[i] : i \in 1..(k + 1)} = {s[i] : i \in 1..k} \cup {s[k + 1]}  BY <2>1
  <2>4. CASE s[k + 1] \in T
    <3>1. p[k + 1] = Append(p[k], s[k + 1]) /\ s[k + 1] \in S  BY <1>1, <1>8, <2>1, <2>4
    <3>2. p[k + 1] \in D /\ ToSet(p[k + 1]) = ToSet(p[k]) \cup {s[k + 1]}
      <4>1. Append(p[k], s[k + 1]) = p[k] \o <<s[k + 1]>>  BY <2>2, <3>1, AppendIsConcat
      <4>2. IsSequence(p[k]) /\ IsSequence(<<s[k + 1]>>)  BY <2>2, SequenceOver, Singles
      <4>3. ToSet(<<s[k + 1]>>) = {s[k + 1]}  BY DEF ToSet
      <4>4. ToSet(p[k] \o <<s[k + 1]>>) = ToSet(p[k]) \cup {s[k + 1]}  BY <4>2, <4>3, Joined
      <4>5. Append(p[k], s[k + 1]) \in Seq(S)  BY <2>2, <3>1
      <4> QED  BY <3>1, <4>1, <4>4, <4>5
    <3> HIDE DEF D
    <3> QED  BY <2>1, <2>2, <2>3, <2>4, <3>2
  <2>5. CASE s[k + 1] \notin T
    <3>1. p[k + 1] = p[k]  BY <1>8, <2>1, <2>5
    <3> HIDE DEF D
    <3> QED  BY <2>1, <2>2, <2>3, <2>5, <3>1
  <2> QED  BY <2>4, <2>5
<1> HIDE DEF Right
<1>11. 0..N \subseteq Right  BY <1>1, <1>9, <1>10, Reaches
<1>12. N \in Right  BY <1>1, <1>11
<1>13. p[N] \in Seq(S) /\ ToSet(p[N]) = {s[i] : i \in 1..N} \cap T  BY <1>12 DEF Right
<1>14. {s[i] : i \in 1..N} = ToSet(s)  BY <1>1 DEF ToSet
<1> HIDE DEF N
<1> QED  BY <1>2, <1>13, <1>14, SequenceOver

-----------------------------------------------------------------------------
(* Finite sets and what they are listed as *)

\* The image of a finite set is finite,
LEMMA FiniteImage ==
    ASSUME NEW S, IsFiniteSet(S), NEW f, f = [x \in S |-> f[x]]
    PROVE  IsFiniteSet({f[x] : x \in S})
<1> DEFINE T == {f[x] : x \in S}
<1>1. f \in Surjection(S, T)  BY DEF Surjection
<1> QED  BY <1>1, FS_Surjection

\* and so is the set of the elements of a sequence.
LEMMA FiniteToSet ==
    ASSUME NEW s, IsSequence(s)
    PROVE  IsFiniteSet(ToSet(s))
<1>1. Len(s) \in Nat /\ DOMAIN s = 1..Len(s) /\ s = [i \in 1..Len(s) |-> s[i]]  BY SequenceFacts
<1>2. IsFiniteSet(1..Len(s))  BY <1>1, FS_Interval
<1> QED  BY <1>1, <1>2, FiniteImage DEF ToSet

\* A finite set is listed as a sequence of its elements, each of them once.
LEMMA SetToSeqFacts ==
    ASSUME NEW S, IsFiniteSet(S)
    PROVE  /\ IsSequence(SetToSeq(S)) /\ ToSet(SetToSeq(S)) = S /\ Distinct(SetToSeq(S))
           /\ Len(SetToSeq(S)) = Cardinality(S)
<1> DEFINE n == Cardinality(S)
           s == SetToSeq(S)
<1>1. n \in Nat /\ ExistsBijection(1..n, S)  BY FS_CardinalityType
<1>2. PICK f : f \in Bijection(1..n, S)  BY <1>1 DEF ExistsBijection
<1>3. f \in [1..n -> S] /\ IsInjective(f)  BY <1>2 DEF Bijection, Injection, IsInjective
<1>4. s \in [1..n -> S] /\ IsInjective(s)  BY <1>3 DEF SetToSeq
<1>5. s \in Injection(1..n, S)  BY <1>4 DEF Injection, IsInjective
<1>6. IsFiniteSet(1..n) /\ Cardinality(1..n) = n  BY <1>1, FS_Interval
<1>7. s \in Surjection(1..n, S)  BY <1>5, <1>6, FS_Injection
<1>8. s \in Seq(S) /\ Len(s) = n  BY <1>1, <1>4
<1>9. ToSet(s) = S  BY <1>1, <1>4, <1>7 DEF ToSet, Surjection
<1> QED  BY <1>4, <1>8, <1>9, SequenceOver DEF Distinct

-----------------------------------------------------------------------------
(* Maps *)

\* The map that has one key.
LEMMA AtFacts ==
    ASSUME NEW key, NEW value
    PROVE  DOMAIN At(key, value) = {key} /\ At(key, value)[key] = value
  BY DEF At

\* Of two maps the first one wins.
LEMMA BothFacts ==
    ASSUME NEW f, NEW g
    PROVE  /\ DOMAIN (f ++ g) = DOMAIN f \cup DOMAIN g
           /\ \A x \in DOMAIN f : (f ++ g)[x] = f[x]
           /\ \A x \in DOMAIN g \ DOMAIN f : (f ++ g)[x] = g[x]
  BY DEF ++

-----------------------------------------------------------------------------
(* The inductive invariant: what is known where a compilation is *)

\* What is imported, and what is selected of it.
Whole == Inventory(tree, manifest.packages)
Ours == SelectPackagesOf(Whole)

\* The strengthening: what each point of a compilation has computed so far.
Known ==
    /\ WellFormed(request)
    /\ todo \in Seq(DOMAIN Codecs)
    /\ pc \in {"packages", "render", "planned"} => Imports(manifest, tree)
    /\ pc = "packages" => inventory = {Whole}
    /\ pc \in {"render", "planned"} => inventory = {Ours} /\ PackagesFit(Whole)
    /\ pc \notin {"render", "planned", "refused"} => plans = <<>>
    /\ plan # {} => pc = "planned"
    /\ pc \in {"render", "planned"} =>
          DOMAIN plans \subseteq DOMAIN Codecs /\ \A t \in DOMAIN plans : PlanFor(t, Ours) = {plans[t]}
    /\ plan \subseteq {[targets |-> plans, provenance |-> Provenance(Ours, DOMAIN plans)]}

\* What a request asks for stays the same as long as it does.
LEMMA RequestStays ==
    ASSUME request' = request
    PROVE  /\ WellFormed(request)' = WellFormed(request)
           /\ Imports(manifest, tree)' = Imports(manifest, tree)
           /\ Whole' = Whole /\ Ours' = Ours /\ PackagesFit(Whole)' = PackagesFit(Whole)
           /\ \A t : PlanFor(t, Ours)' = PlanFor(t, Ours)
<1>1. manifest' = manifest /\ tree' = tree  BY DEF manifest, tree
<1>2. Whole' = Whole  BY <1>1 DEF Whole
<1>3. Ours' = Ours  BY <1>2 DEF Ours, SelectPackagesOf
<1>4. PackagesFit(Whole)' = PackagesFit(Whole)  BY <1>2 DEF PackagesFit
<1>5. ASSUME NEW t PROVE PlanFor(t, Ours)' = PlanFor(t, Ours)
  <2>1. PolicyOf(t)' = PolicyOf(t)  BY <1>1 DEF PolicyOf
  <2>2. RulesFit(t)' = RulesFit(t)  BY <2>1 DEF RulesFit
  <2>3. CompositionFor(t)' = CompositionFor(t)  BY <2>1 DEF CompositionFor
  <2>4. Released' = Released  BY <1>1 DEF Released
  <2>5. Compose(Ours, CompositionFor(t))' = Compose(Ours, CompositionFor(t))  BY <1>3, <2>3
  <2>6. RenderInput(t, Compose(Ours, CompositionFor(t)))' = RenderInput(t, Compose(Ours, CompositionFor(t)))
    BY <1>1, <2>3, <2>4, <2>5 DEF RenderInput, WithVersion
  <2> QED  BY <1>3, <2>2, <2>3, <2>6 DEF PlanFor
<1> QED  BY <1>1, <1>2, <1>3, <1>4, <1>5

\* A compilation starts with nothing.
LEMMA KnownInit == Init => Known
<1> SUFFICES ASSUME Init PROVE Known
  OBVIOUS
<1>1. WellFormed(request)  BY RequestsAssumption DEF Init
<1>2. todo = <<>> /\ todo \in Seq(DOMAIN Codecs)  BY DEF Init
<1> QED  BY <1>1, <1>2 DEF Init, Known

\* A rendered plan is for the target that it was rendered for.
LEMMA PlanIsOfTarget ==
    ASSUME NEW t, NEW inv, NEW p \in PlanFor(t, inv)
    PROVE  p.target = t /\ PlanFor(t, inv) = {p}
<1> DEFINE in == RenderInput(t, Compose(inv, CompositionFor(t)))
<1>1. PlanFor(t, inv) \subseteq {Render(t, in)}  BY DEF PlanFor
<1>2. p = Render(t, in)  BY <1>1
<1>3. Render(t, in).target = t  BY DEF Render
<1> QED  BY <1>1, <1>2, <1>3

\* The plan of a target is the one that PlanFor gives, under its own name.
LEMMA KnownRendered ==
    ASSUME Known, RenderTarget
    PROVE  DOMAIN plans' \subseteq DOMAIN Codecs /\ \A t \in DOMAIN plans' : PlanFor(t, Ours) = {plans'[t]}
<1>1. pc = "render" /\ todo # <<>> /\ todo \in Seq(DOMAIN Codecs) /\ inventory = {Ours}
  BY DEF Known, RenderTarget
<1> DEFINE h == Head(todo)
           rendered == PlanFor(h, Ours)
           new == [t \in {h} \cap {p.target : p \in rendered} |-> CHOOSE p \in rendered : TRUE]
<1>2. h \in DOMAIN Codecs  BY <1>1
<1>3. plans' = new ++ plans  BY <1>1 DEF RenderTarget
<1>4. DOMAIN plans \subseteq DOMAIN Codecs /\ \A t \in DOMAIN plans : PlanFor(t, Ours) = {plans[t]}
  BY <1>1 DEF Known
<1>5. \A t \in DOMAIN new : t = h /\ PlanFor(t, Ours) = {new[t]}
  <2> SUFFICES ASSUME NEW t \in DOMAIN new PROVE t = h /\ PlanFor(t, Ours) = {new[t]}
    OBVIOUS
  <2>1. PICK p \in rendered : p.target = t  OBVIOUS
  <2>2. rendered = {p}  BY PlanIsOfTarget
  <2>3. t = h  OBVIOUS
  <2> QED  BY <2>2, <2>3
<1> HIDE DEF new, h
<1>6. DOMAIN (new ++ plans) = DOMAIN new \cup DOMAIN plans
  BY BothFacts
<1>7. ASSUME NEW t \in DOMAIN plans' PROVE t \in DOMAIN Codecs /\ PlanFor(t, Ours) = {plans'[t]}
  <2>1. CASE t \in DOMAIN new
    <3>1. plans'[t] = new[t]  BY <1>3, <2>1, BothFacts
    <3> QED  BY <1>2, <1>5, <2>1, <3>1
  <2>2. CASE t \notin DOMAIN new
    <3>1. t \in DOMAIN plans  BY <1>3, <1>6, <1>7, <2>2
    <3>2. \A x \in DOMAIN plans \ DOMAIN new : (new ++ plans)[x] = plans[x]  BY BothFacts
    <3>3. plans'[t] = plans[t]  BY <1>3, <2>2, <3>1, <3>2
    <3> QED  BY <1>4, <3>1, <3>3
  <2> QED  BY <2>1, <2>2
<1> QED  BY <1>7

\* Every step keeps what is known,
LEMMA KnownNext == Known /\ [Next]_vars => Known'
<1> SUFFICES ASSUME Known, [Next]_vars PROVE Known'
  OBVIOUS
<1>1. request' = request
  BY DEF Next, vars, Validate, SelectTargets, Import, SelectPackages, RenderTarget, Finish, Stop
<1>2. /\ WellFormed(request)' = WellFormed(request)
      /\ Imports(manifest, tree)' = Imports(manifest, tree)
      /\ Whole' = Whole /\ Ours' = Ours /\ PackagesFit(Whole)' = PackagesFit(Whole)
      /\ \A t : PlanFor(t, Ours)' = PlanFor(t, Ours)
  BY <1>1, RequestStays
<1>3. ASSUME plans' = plans PROVE Provenance(Ours, DOMAIN plans)' = Provenance(Ours, DOMAIN plans)
  BY <1>2, <1>3 DEF Provenance, Acknowledged
<1>4. CASE Validate
  <2>1. plan = {} /\ pc' \in {"targets", "refused"} /\ plans = <<>>  BY <1>4 DEF Validate, Go, Known
  <2> QED  BY <1>2, <1>4, <2>1 DEF Validate, Known
<1>5. CASE SelectTargets
  <2>1. plan = {} /\ pc' \in {"import", "refused"} /\ plans = <<>>  BY <1>5 DEF SelectTargets, Go, Known
  <2>2. IsSequence(TargetOrder)  BY TargetOrderAssumption, SequenceOver
  <2>3. ToSet(TargetOrder) \subseteq DOMAIN Codecs  BY TargetOrderAssumption, SequenceOver
  <2>4. todo' = Pick(TargetOrder, SelectedTargets)  BY <1>5 DEF SelectTargets
  <2>5. IsSequence(todo') /\ ToSet(todo') \subseteq DOMAIN Codecs  BY <2>2, <2>3, <2>4, PickFacts
  <2>6. todo' \in Seq(DOMAIN Codecs)  BY <2>5, SequenceInto
  <2> QED  BY <1>2, <1>5, <2>1, <2>6 DEF SelectTargets, Known
<1>6. CASE Import
  <2>1. plan = {} /\ plans = <<>>  BY <1>6 DEF Import, Go, Known
  <2>2. Imports(manifest, tree) => inventory' = {Whole}  BY <1>6 DEF Import, Whole
  <2>3. (pc' = "packages" /\ Imports(manifest, tree)) \/ pc' = "refused"  BY <1>6 DEF Import, Go
  <2> QED  BY <1>2, <1>6, <2>1, <2>2, <2>3 DEF Import, Known
<1>7. CASE SelectPackages
  <2>1. plan = {} /\ plans = <<>> /\ inventory = {Whole} /\ Imports(manifest, tree)
    BY <1>7 DEF SelectPackages, Go, Known
  <2>2. (pc' = "render" /\ PackagesFit(Whole)) \/ pc' = "refused"  BY <1>7, <2>1 DEF SelectPackages, Go
  <2>3. inventory' = {Ours}  BY <1>7, <2>1 DEF SelectPackages, Ours
  <2>4. DOMAIN plans = {}  BY <2>1
  <2> QED  BY <1>2, <1>7, <2>1, <2>2, <2>3, <2>4 DEF SelectPackages, Known
<1>8. CASE RenderTarget
  <2>1. plan = {} /\ pc = "render" /\ pc' = pc /\ inventory' = inventory /\ plan' = plan
    BY <1>8 DEF RenderTarget, Known
  <2>2. DOMAIN plans' \subseteq DOMAIN Codecs /\ \A t \in DOMAIN plans' : PlanFor(t, Ours) = {plans'[t]}
    BY <1>8, KnownRendered
  <2>3. todo' \in Seq(DOMAIN Codecs)  BY <1>8 DEF RenderTarget, Known
  <2> QED  BY <1>2, <2>1, <2>2, <2>3 DEF Known
<1>9. CASE Finish
  <2>1. pc = "render" /\ plans' = plans /\ todo' = todo /\ inventory' = inventory /\ inventory = {Ours}
    BY <1>9 DEF Finish, Go, Known
  <2>2. pc' \in {"planned", "refused"}  BY <1>9 DEF Finish, Go
  <2>3. plan' = {[targets |-> plans, provenance |-> Provenance(inv, DOMAIN plans)] :
                    inv \in {i \in inventory : pc' = "planned"}}
    BY <1>9 DEF Finish
  <2>4. plan' \subseteq {[targets |-> plans, provenance |-> Provenance(Ours, DOMAIN plans)]}
    BY <2>1, <2>3
  <2>5. plan' # {} => pc' = "planned"  BY <2>3
  <2> QED  BY <1>2, <1>3, <2>1, <2>2, <2>4, <2>5 DEF Known
<1>10. CASE UNCHANGED vars
  BY <1>2, <1>3, <1>10 DEF vars, Known
<1> QED
  BY <1>4, <1>5, <1>6, <1>7, <1>8, <1>9, <1>10 DEF Next, Stop

\* so it is always so.
THEOREM KnownAlways == Spec => []Known
<1> QED  BY KnownInit, KnownNext, PTL DEF Spec

-----------------------------------------------------------------------------
(* Two trees of the same shape that agree on a set of paths *)

\* Two trees of one shape that agree where R says.
Alike(T, U, R) ==
    /\ DOMAIN U = DOMAIN T
    /\ \A p \in DOMAIN T : U[p].kind = T[p].kind /\ (p \in R => U[p] = T[p])

\* What only looks at the kinds of files is the same in both,
LEMMA SameShape ==
    ASSUME NEW T, NEW U, NEW R, Alike(T, U, R)
    PROVE  /\ \A p : IsFile(U, p) <=> IsFile(T, p)
           /\ \A p : IsLink(U, p) <=> IsLink(T, p)
           /\ \A p : IsDir(U, p) <=> IsDir(T, p)
           /\ \A p : Absent(U, p) <=> Absent(T, p)
           /\ \A p : Entries(U, p) = Entries(T, p) /\ Files(U, p) = Files(T, p) /\ Links(U, p) = Links(T, p)
<1>1. \A p : IsFile(U, p) <=> IsFile(T, p)  BY DEF Alike, IsFile
<1>2. \A p : IsLink(U, p) <=> IsLink(T, p)  BY DEF Alike, IsLink
<1>3. \A p : IsDir(U, p) <=> IsDir(T, p)  BY DEF Alike, IsDir
<1>4. \A p : Absent(U, p) <=> Absent(T, p)  BY DEF Alike, Absent
<1>5. \A p : Entries(U, p) = Entries(T, p)  BY DEF Alike, Entries
<1>6. \A p : Files(U, p) = Files(T, p)  BY <1>1, <1>5 DEF Files
<1>7. \A p : Links(U, p) = Links(T, p)  BY <1>2, <1>5 DEF Links
<1> QED  BY <1>1, <1>2, <1>3, <1>4, <1>5, <1>6, <1>7

\* so are the places where an asset has its files and sidecars,
LEMMA SamePlaces ==
    ASSUME NEW T, NEW U, NEW R, Alike(T, U, R), NEW path
    PROVE  /\ HasFiles(U, path) <=> HasFiles(T, path)
           /\ SupportFiles(U, path) = SupportFiles(T, path)
           /\ InDirectory(U, path) <=> InDirectory(T, path)
           /\ MetadataPath(U, path) = MetadataPath(T, path)
           /\ OverlayRoot(U, path) = OverlayRoot(T, path)
           /\ \A t : OverlayFile(U, path, t) = OverlayFile(T, path, t) /\ OverlayFiles(U, path, t) = OverlayFiles(T, path, t)
           /\ OverlayTargets(U, path) = OverlayTargets(T, path)
           /\ AssetInputs(U, path) = AssetInputs(T, path)
<1>1. HasFiles(U, path) <=> HasFiles(T, path)  BY SameShape DEF HasFiles
<1>2. SupportFiles(U, path) = SupportFiles(T, path)  BY <1>1, SameShape DEF SupportFiles
<1>3. InDirectory(U, path) <=> InDirectory(T, path)  BY SameShape DEF InDirectory
<1>4. MetadataPath(U, path) = MetadataPath(T, path)  BY <1>3 DEF MetadataPath
<1>5. OverlayRoot(U, path) = OverlayRoot(T, path)  BY <1>3 DEF OverlayRoot
<1>6. \A t : OverlayFile(U, path, t) = OverlayFile(T, path, t) /\ OverlayFiles(U, path, t) = OverlayFiles(T, path, t)
  BY <1>5 DEF OverlayFile, OverlayFiles
<1>7. OverlayTargets(U, path) = OverlayTargets(T, path)  BY <1>5, <1>6, SameShape DEF OverlayTargets
<1>8. AssetInputs(U, path) = AssetInputs(T, path)
  <2>1. {OverlayFile(U, path, t) : t \in OverlayTargets(U, path)} = {OverlayFile(T, path, t) : t \in OverlayTargets(T, path)}
    BY <1>6, <1>7
  <2>2. \A t : Files(U, OverlayFiles(U, path, t)) = Files(T, OverlayFiles(T, path, t))
    BY <1>6, SameShape
  <2> DEFINE brought(V, t) == {OverlayFiles(V, path, t) \o rel : rel \in Files(V, OverlayFiles(V, path, t))}
  <2>3. ASSUME NEW t PROVE brought(U, t) = brought(T, t)
    <3>1. OverlayFiles(U, path, t) = OverlayFiles(T, path, t)  BY <1>6
    <3>2. Files(U, OverlayFiles(U, path, t)) = Files(T, OverlayFiles(T, path, t))  BY <2>2
    <3> QED  BY <3>1, <3>2, Zenon
  <2>4. UNION {brought(U, t) : t \in OverlayTargets(U, path)} = UNION {brought(T, t) : t \in OverlayTargets(T, path)}
    <3> HIDE DEF brought
    <3> QED  BY <1>7, <2>3
  <2> QED  BY <1>2, <1>4, <2>1, <2>4 DEF AssetInputs
<1> QED  BY <1>1, <1>2, <1>3, <1>4, <1>5, <1>6, <1>7, <1>8

\* and what is read at a path on which they agree.
LEMMA SameData ==
    ASSUME NEW T, NEW U, NEW R, Alike(T, U, R), NEW p \in R
    PROVE  /\ IsFile(T, p) => U[p] = T[p] /\ U[p].data = T[p].data /\ ValueAt(U, p) = ValueAt(T, p)
           /\ \A form : Decodes(U, p, form) <=> Decodes(T, p, form)
           /\ \A form : DecodesIfThere(U, p, form) <=> DecodesIfThere(T, p, form)
<1>1. IsFile(T, p) => U[p] = T[p] /\ U[p].data = T[p].data /\ ValueAt(U, p) = ValueAt(T, p)
  BY DEF Alike, IsFile, ValueAt
<1>2. \A form : Decodes(U, p, form) <=> Decodes(T, p, form)  BY <1>1, SameShape DEF Decodes
<1> QED  BY <1>1, <1>2, SameShape DEF DecodesIfThere

\* What makes the kinds of assets different.
LEMMA Kinds1 ==
    ASSUME NEW path
    PROVE  /\ KindAt(path) \in Kinds
           /\ KindAt(path) = "resource" => ~SingleFileHook(path)
           /\ SingleFileHook(path) => KindAt(path) = "hook"
  BY DEF KindAt, Kinds, SingleFileHook, HasParts

\* A resource's metadata is not at the path of the resource.
LEMMA MetadataIsBelow ==
    ASSUME NEW T, NEW path, IsSequence(path), path # <<>>, KindAt(path) = "resource"
    PROVE  MetadataPath(T, path) # path
<1>1. ~InDirectory(T, path)  BY Kinds1 DEF InDirectory
<1>2. Len(path) \in Nat \ {0}  BY SequenceFacts
<1>3. IsSequence(Sidecar(path)) /\ Len(Sidecar(path)) >= Len(path)
  <2>1. CASE Last(path) \in DOMAIN MarkdownStem
    <3>1. Sidecar(path) = Front(path) \o <<Last(path) \o ".agentbundler">>  BY <2>1 DEF Sidecar
    <3>2. IsSequence(Front(path)) /\ Len(Front(path)) = Len(path) - 1  BY FrontFacts
    <3>3. IsSequence(Sidecar(path)) /\ Len(Sidecar(path)) = Len(Front(path)) + 1  BY <3>1, <3>2, OneMore
    <3> QED  BY <1>2, <3>2, <3>3
  <2>2. CASE Last(path) \notin DOMAIN MarkdownStem
    <3>1. Sidecar(path) = path \o <<".agentbundler">>  BY <2>2 DEF Sidecar
    <3>2. IsSequence(Sidecar(path)) /\ Len(Sidecar(path)) = Len(path) + 1  BY <3>1, OneMore
    <3> QED  BY <1>2, <3>2
  <2> QED  BY <2>1, <2>2
<1>4. MetadataPath(T, path) = Sidecar(path) \o <<"asset.json">>  BY <1>1 DEF MetadataPath
<1>5. Len(MetadataPath(T, path)) = Len(Sidecar(path)) + 1  BY <1>3, <1>4, OneMore
<1>6. Len(Sidecar(path)) \in Nat  BY <1>3, SequenceFacts
<1> QED  BY <1>2, <1>3, <1>5, <1>6

\* The main file and the sidecar are read.
LEMMA ReadFiles ==
    ASSUME NEW T, NEW path, IsSequence(path), AssetImports(T, path)
    PROVE  /\ KindAt(path) # "resource" => MainFile(path) \in AssetInputs(T, path)
           /\ MetadataPath(T, path) \in AssetInputs(T, path)
           /\ \A rel \in SupportFiles(T, path) : path \o rel \in AssetInputs(T, path)
           /\ \A t \in OverlayTargets(T, path) :
                 /\ OverlayFile(T, path, t) \in AssetInputs(T, path)
                 /\ \A rel \in Files(T, OverlayFiles(T, path, t)) : OverlayFiles(T, path, t) \o rel \in AssetInputs(T, path)
<1>1. path # <<>>  BY DEF AssetImports, ValidPath
<1>2. KindAt(path) # "resource" \/ MetadataPath(T, path) # path  BY <1>1, MetadataIsBelow
<1>3. KindAt(path) # "resource" => MainFile(path) \in AssetInputs(T, path)  BY DEF AssetInputs
<1>4. MetadataPath(T, path) \in AssetInputs(T, path)  BY <1>2 DEF AssetInputs
<1>5. \A rel \in SupportFiles(T, path) : path \o rel \in AssetInputs(T, path)  BY DEF AssetInputs
<1>6. \A t \in OverlayTargets(T, path) : OverlayFile(T, path, t) \in AssetInputs(T, path)  BY DEF AssetInputs
<1>7. ASSUME NEW t \in OverlayTargets(T, path), NEW rel \in Files(T, OverlayFiles(T, path, t))
      PROVE  OverlayFiles(T, path, t) \o rel \in AssetInputs(T, path)
  <2>1. OverlayFiles(T, path, t) \o rel \in {OverlayFiles(T, path, t) \o r : r \in Files(T, OverlayFiles(T, path, t))}
    BY <1>7
  <2> QED  BY <1>7, <2>1 DEF AssetInputs
<1> QED  BY <1>3, <1>4, <1>5, <1>6, <1>7

\* Wherever the main file counts there is one.
LEMMA MainIsThere ==
    ASSUME NEW T, NEW path, AssetImports(T, path)
    PROVE  KindAt(path) \in {"skill", "agent", "command", "hook"} => IsFile(T, MainFile(path))
<1>1. MainFits(T, path)  BY DEF AssetImports
<1>2. KindAt(path) = "command" => MainFile(path) = path  BY DEF MainFile
<1> QED  BY <1>1, <1>2 DEF MainFits, Decodes

\* What is listed as a file below a directory is one.
LEMMA FilesAreFiles ==
    ASSUME NEW T, NEW path
    PROVE  /\ \A rel \in Files(T, path) : IsFile(T, path \o rel)
           /\ SupportFiles(T, path) \subseteq Files(T, path)
  BY DEF Files, SupportFiles

\* Trees that agree on the inputs of an asset have the same of it,
LEMMA SameContent ==
    ASSUME NEW T, NEW U, NEW R, Alike(T, U, R), NEW path, IsSequence(path),
           AssetImports(T, path), AssetInputs(T, path) \subseteq R
    PROVE  /\ AssetContent(U, path) = AssetContent(T, path)
           /\ DeclaredUses(U, path) = DeclaredUses(T, path)
           /\ NativeOptions(U, path) = NativeOptions(T, path)
           /\ Uses(U, path) = Uses(T, path)
           /\ KindAt(path) = "hook" => HookAt(U, path) = HookAt(T, path)
           /\ \A t \in OverlayTargets(T, path) : OverlayAt(U, path, t) = OverlayAt(T, path, t)
<1>1. KindAt(path) \in {"skill", "agent", "command", "hook"} => ValueAt(U, MainFile(path)) = ValueAt(T, MainFile(path))
  BY ReadFiles, MainIsThere, SameData
<1>2. MetadataPath(U, path) = MetadataPath(T, path) /\ (IsFile(U, MetadataPath(T, path)) <=> IsFile(T, MetadataPath(T, path)))
      /\ (IsFile(T, MetadataPath(T, path)) => ValueAt(U, MetadataPath(T, path)) = ValueAt(T, MetadataPath(T, path)))
  BY ReadFiles, SamePlaces, SameShape, SameData
<1>3. SupportFiles(U, path) = SupportFiles(T, path)  BY SamePlaces
<1>4. ContentOf(U, path, SupportFiles(T, path)) = ContentOf(T, path, SupportFiles(T, path))
  <2>1. ASSUME NEW rel \in SupportFiles(T, path) PROVE U[path \o rel].data = T[path \o rel].data
    <3>1. IsFile(T, path \o rel)  BY FilesAreFiles
    <3> QED  BY <3>1, ReadFiles, SameData
  <2> QED  BY <2>1 DEF ContentOf
<1>5. KindAt(path) = "native-resource" /\ IsFile(T, path) => U[path].data = T[path].data
  <2>1. KindAt(path) = "native-resource" => MainFile(path) = path  BY DEF MainFile
  <2> QED  BY <2>1, ReadFiles, SameData
<1>6. AssetContent(U, path) = AssetContent(T, path)
  <2>1. IsFile(U, path) <=> IsFile(T, path)  BY SameShape
  <2> DEFINE markdown == KindAt(path) \in {"skill", "agent", "command"}
  <2>2. (IF markdown THEN ValueAt(U, MainFile(path)).frontmatter ELSE <<>>)
        = (IF markdown THEN ValueAt(T, MainFile(path)).frontmatter ELSE <<>>)  BY <1>1
  <2>3. (IF markdown THEN ValueAt(U, MainFile(path)).body ELSE <<>>)
        = (IF markdown THEN ValueAt(T, MainFile(path)).body ELSE <<>>)  BY <1>1
  <2>4. (IF KindAt(path) = "native-resource" /\ IsFile(U, path)
         THEN [rel \in {<<Last(path)>>} |-> U[path].data] ELSE ContentOf(U, path, SupportFiles(U, path)))
        = (IF KindAt(path) = "native-resource" /\ IsFile(T, path)
           THEN [rel \in {<<Last(path)>>} |-> T[path].data] ELSE ContentOf(T, path, SupportFiles(T, path)))
    BY <1>3, <1>4, <1>5, <2>1
  <2> QED  BY <2>2, <2>3, <2>4 DEF AssetContent
<1>7. DeclaredUses(U, path) = DeclaredUses(T, path)  BY <1>2 DEF DeclaredUses
<1>8. NativeOptions(U, path) = NativeOptions(T, path)  BY <1>2 DEF NativeOptions
<1>9. Uses(U, path) = Uses(T, path)  BY <1>1, <1>7 DEF Uses
<1>10. KindAt(path) = "hook" => HookAt(U, path) = HookAt(T, path)  BY <1>1 DEF HookAt
<1>11. ASSUME NEW t \in OverlayTargets(T, path) PROVE OverlayAt(U, path, t) = OverlayAt(T, path, t)
  <2> DEFINE file == OverlayFile(T, path, t)
             dir == OverlayFiles(T, path, t)
  <2>1. OverlayFile(U, path, t) = file /\ OverlayFiles(U, path, t) = dir  BY SamePlaces
  <2>2. (IsFile(U, file) <=> IsFile(T, file)) /\ Files(U, dir) = Files(T, dir)  BY SameShape
  <2>3. IsFile(T, file) => ValueAt(U, file) = ValueAt(T, file)  BY <1>11, ReadFiles, SameData
  <2>4. ContentOf(U, dir, Files(T, dir)) = ContentOf(T, dir, Files(T, dir))
    <3>1. ASSUME NEW rel \in Files(T, dir) PROVE U[dir \o rel].data = T[dir \o rel].data
      <4>1. IsFile(T, dir \o rel)  BY FilesAreFiles
      <4>2. dir \o rel \in R  BY <1>11, <3>1, ReadFiles
      <4> QED  BY <4>1, <4>2, SameData
    <3> HIDE DEF dir
    <3> QED  BY <3>1 DEF ContentOf
  <2> HIDE DEF file, dir
  <2> DEFINE value(V) == IF IsFile(V, file) THEN ValueAt(V, file) ELSE NoOverlay
             found(V) == ContentOf(V, dir, Files(V, dir))
  <2>5. value(U) = value(T)  BY <2>2, <2>3
  <2>6. found(U) = found(T)  BY <2>2, <2>4
  <2> DEFINE made(v, c) ==
               LET content == OverlayContent(v.files, c) IN
               [target |-> t, frontmatterPatch |-> v.frontmatterPatch, bodyPatch |-> v.bodyPatch,
                files |-> SetToSeq({[path |-> f, content |-> content[f]] : f \in DOMAIN content}),
                deletedFiles |-> v.deletedFiles, acknowledgments |-> v.acknowledgments]
  <2>7. OverlayAt(T, path, t) = made(value(T), found(T))  BY DEF OverlayAt, file, dir
  <2>8. OverlayAt(U, path, t) = made(value(U), found(U))  BY <2>1 DEF OverlayAt
  <2> HIDE DEF made, value, found
  <2> QED  BY <2>5, <2>6, <2>7, <2>8
<1> QED  BY <1>6, <1>7, <1>8, <1>9, <1>10, <1>11

\* the same asset,
LEMMA SameAsset ==
    ASSUME NEW T, NEW U, NEW R, Alike(T, U, R), NEW path, IsSequence(path),
           AssetImports(T, path), AssetInputs(T, path) \subseteq R, NEW targets
    PROVE  AssetAt(U, path, targets) = AssetAt(T, path, targets)
<1>1. {OverlayAt(U, path, t) : t \in OverlayTargets(U, path)} = {OverlayAt(T, path, t) : t \in OverlayTargets(T, path)}
  <2>1. OverlayTargets(U, path) = OverlayTargets(T, path)  BY SamePlaces
  <2>2. \A t \in OverlayTargets(T, path) : OverlayAt(U, path, t) = OverlayAt(T, path, t)  BY SameContent
  <2> QED  BY <2>1, <2>2
<1>2. KindAt(path) = "hook" => HookAt(U, path) = HookAt(T, path)  BY SameContent
<1>3. AssetContent(U, path) = AssetContent(T, path)  BY SameContent
<1>4. NativeOptions(U, path) = NativeOptions(T, path) /\ Uses(U, path) = Uses(T, path)  BY SameContent
<1> QED  BY <1>1, <1>2, <1>3, <1>4 DEF AssetAt

\* and it imports from both.
LEMMA StillImports ==
    ASSUME NEW T, NEW U, NEW R, Alike(T, U, R), NEW path, IsSequence(path),
           AssetImports(T, path), AssetInputs(T, path) \subseteq R
    PROVE  AssetImports(U, path)
<1>1. ValidPath(path) /\ Classifies(path) /\ ValidIdentifier(NameAt(path))  BY DEF AssetImports
<1>2. FilesReadable(U, path)
  <2>1. FilesReadable(T, path)  BY DEF AssetImports
  <2> QED  BY <2>1, SamePlaces, SameShape DEF FilesReadable
<1>3. MainFits(U, path)
  <2>1. MainFits(T, path)  BY DEF AssetImports
  <2>2. KindAt(path) \in {"skill", "agent", "command", "hook"} =>
           /\ ValueAt(U, MainFile(path)) = ValueAt(T, MainFile(path))
           /\ \A form : Decodes(U, MainFile(path), form) <=> Decodes(T, MainFile(path), form)
    <3> SUFFICES ASSUME KindAt(path) \in {"skill", "agent", "command", "hook"}
                 PROVE  /\ ValueAt(U, MainFile(path)) = ValueAt(T, MainFile(path))
                        /\ \A form : Decodes(U, MainFile(path), form) <=> Decodes(T, MainFile(path), form)
      OBVIOUS
    <3>1. MainFile(path) \in R  BY ReadFiles
    <3>2. IsFile(T, MainFile(path))  BY MainIsThere
    <3> QED  BY <3>1, <3>2, SameData
  <2>3. KindAt(path) = "command" => MainFile(path) = path  BY DEF MainFile
  <2>4. SupportFiles(U, path) = SupportFiles(T, path) /\ (IsFile(U, path) <=> IsFile(T, path)) /\ (IsDir(U, path) <=> IsDir(T, path))
    BY SamePlaces, SameShape
  <2>5. CASE KindAt(path) \in {"skill", "agent"}  BY <2>1, <2>2, <2>5 DEF MainFits
  <2>6. CASE KindAt(path) = "command"  BY <2>1, <2>2, <2>3, <2>6 DEF MainFits
  <2>7. CASE KindAt(path) = "hook"  BY <2>1, <2>2, <2>4, <2>7 DEF MainFits
  <2>8. CASE KindAt(path) \notin {"skill", "agent", "command", "hook"}  BY <2>1, <2>4, <2>8 DEF MainFits
  <2> QED  BY <2>5, <2>6, <2>7, <2>8
<1>4. MetadataFits(U, path)
  <2>1. MetadataFits(T, path)  BY DEF AssetImports
  <2> DEFINE file == MetadataPath(T, path)
  <2>2. file \in R /\ MetadataPath(U, path) = file  BY ReadFiles, SamePlaces
  <2>3. (DecodesIfThere(U, file, "asset") <=> DecodesIfThere(T, file, "asset")) /\ (IsFile(U, file) <=> IsFile(T, file))
    BY <2>2, SameData, SameShape
  <2>4. IsFile(T, file) => ValueAt(U, file) = ValueAt(T, file)  BY <2>2, SameData
  <2> QED  BY <2>1, <2>2, <2>3, <2>4 DEF MetadataFits
<1>5. OverlaysFit(U, path)
  <2>1. OverlaysFit(T, path)  BY DEF AssetImports
  <2>2. \A t : OverlayFile(U, path, t) = OverlayFile(T, path, t) /\ OverlayFiles(U, path, t) = OverlayFiles(T, path, t)
    BY SamePlaces
  <2>3. OverlayRoot(U, path) = OverlayRoot(T, path) /\ OverlayTargets(U, path) = OverlayTargets(T, path)  BY SamePlaces
  <2>4. ASSUME NEW entry PROVE OverlayEntryFits(U, path, entry) <=> OverlayEntryFits(T, path, entry)
    BY <2>2, <2>3, SameShape DEF OverlayEntryFits
  <2>5. ASSUME NEW t \in OverlayTargets(T, path), OverlayFits(T, path, t) PROVE OverlayFits(U, path, t)
    <3> DEFINE file == OverlayFile(T, path, t)
               dir == OverlayFiles(T, path, t)
    <3>1. file \in R  BY <2>5, ReadFiles
    <3>2. (DecodesIfThere(U, file, "overlay") <=> DecodesIfThere(T, file, "overlay")) /\ (IsFile(U, file) <=> IsFile(T, file))
      BY <3>1, SameData, SameShape
    <3>3. IsFile(T, file) => ValueAt(U, file) = ValueAt(T, file)  BY <3>1, SameData
    <3>4. (IsDir(U, dir) <=> IsDir(T, dir)) /\ (Absent(U, dir) <=> Absent(T, dir)) /\ Links(U, dir) = Links(T, dir)
      BY SameShape
    <3>5. OverlayFile(U, path, t) = file /\ OverlayFiles(U, path, t) = dir  BY <2>2
    <3> HIDE DEF file, dir
    <3> QED  BY <2>5, <3>2, <3>3, <3>4, <3>5 DEF OverlayFits, file, dir
  <2> QED  BY <2>1, <2>3, <2>4, <2>5, SameShape DEF OverlaysFit
<1>6. Verbatim(path) => "asset.native-resource" \in DeclaredUses(U, path)
  <2>1. Verbatim(path) => "asset.native-resource" \in DeclaredUses(T, path)  BY DEF AssetImports
  <2> QED  BY <2>1, SameContent
<1> QED  BY <1>1, <1>2, <1>3, <1>4, <1>5, <1>6 DEF AssetImports

-----------------------------------------------------------------------------
(* Packages of such trees *)

\* What the decoder returned for the package file.
LEMMA PackageEntries ==
    ASSUME NEW T, NEW file, WellFormedTree(T), PackageFileFits(T, file)
    PROVE  LET value == ValueAt(T, file) IN
           /\ IsFile(T, file) /\ IsSequence(value.assets)
           /\ DOMAIN value.assets = 1..Len(value.assets) /\ Len(value.assets) \in Nat
           /\ \A i \in DOMAIN value.assets : value.assets[i] \in ToSet(value.assets)
           /\ \A e \in ToSet(value.assets) : IsSequence(e.path) /\ AssetImports(T, e.path)
<1>1. IsFile(T, file) /\ T[file].data.form = "package"  BY DEF PackageFileFits, Decodes
<1>2. WellFormedData(T[file].data)  BY <1>1 DEF WellFormedTree, IsFile
<1>3. WellFormedPackage(ValueAt(T, file))  BY <1>1, <1>2 DEF WellFormedData, ValueAt
<1>4. IsSequence(ValueAt(T, file).assets) /\ \A e \in ToSet(ValueAt(T, file).assets) : IsSequence(e.path)
  BY <1>3 DEF WellFormedPackage
<1>5. \A e \in ToSet(ValueAt(T, file).assets) : AssetImports(T, e.path)  BY DEF PackageFileFits
<1>6. \A i \in DOMAIN ValueAt(T, file).assets : ValueAt(T, file).assets[i] \in ToSet(ValueAt(T, file).assets)
  BY DEF ToSet
<1> QED  BY <1>1, <1>4, <1>5, <1>6, SequenceFacts

\* Trees that agree on the inputs of a package have the same package,
LEMMA SamePackage ==
    ASSUME NEW T, NEW U, NEW R, Alike(T, U, R), NEW file, WellFormedTree(T), PackageFileFits(T, file),
           InputsAt(T, file) \subseteq R
    PROVE  /\ ValueAt(U, file) = ValueAt(T, file) /\ PackageFileFits(U, file)
           /\ PackageAt(U, file) = PackageAt(T, file) /\ GapsAt(U, file) = GapsAt(T, file)
           /\ InputsAt(U, file) = InputsAt(T, file)
<1> DEFINE value == ValueAt(T, file)
<1>1. IsFile(T, file) /\ \A e \in ToSet(value.assets) : IsSequence(e.path) /\ AssetImports(T, e.path)
  BY PackageEntries
<1>2. file \in R /\ \A e \in ToSet(value.assets) : AssetInputs(T, e.path) \subseteq R  BY DEF InputsAt
<1>3. ValueAt(U, file) = value /\ (Decodes(U, file, "package") <=> Decodes(T, file, "package"))
  BY <1>1, <1>2, SameData
<1>4. \A e \in ToSet(value.assets) : AssetImports(U, e.path)  BY <1>1, <1>2, StillImports
<1>5. \A e \in ToSet(value.assets) : AssetAt(U, e.path, e.targets) = AssetAt(T, e.path, e.targets)
  BY <1>1, <1>2, SameAsset
<1>6. \A e \in ToSet(value.assets) : AssetInputs(U, e.path) = AssetInputs(T, e.path)  BY SamePlaces
<1>7. PackageFileFits(U, file)  BY <1>3, <1>4 DEF PackageFileFits
<1>8. PackageAt(U, file) = PackageAt(T, file)
  <2>1. \A i \in DOMAIN value.assets :
           AssetAt(U, value.assets[i].path, value.assets[i].targets) = AssetAt(T, value.assets[i].path, value.assets[i].targets)
    BY <1>5 DEF ToSet
  <2> HIDE DEF value
  <2> QED  BY <1>3, <2>1 DEF PackageAt, value
<1>9. GapsAt(U, file) = GapsAt(T, file)  BY <1>3 DEF GapsAt
<1>10. InputsAt(U, file) = InputsAt(T, file)
  <2>1. {AssetInputs(U, e.path) : e \in ToSet(value.assets)} = {AssetInputs(T, e.path) : e \in ToSet(value.assets)}
    BY <1>6
  <2> QED  BY <1>3, <2>1 DEF InputsAt
<1> QED  BY <1>3, <1>7, <1>8, <1>9, <1>10

\* and on those of all packages the same inventory.
LEMMA SameInventory ==
    ASSUME NEW T, NEW U, NEW R, Alike(T, U, R), WellFormedTree(T), NEW m, Imports(m, T),
           IsSequence(m.packages),
           \A f \in ToSet(m.packages) : InputsAt(T, f) \subseteq R
    PROVE  Inventory(U, m.packages) = Inventory(T, m.packages) /\ Imports(m, U)
<1>1. \A f \in ToSet(m.packages) :
         /\ ValueAt(U, f) = ValueAt(T, f) /\ PackageFileFits(U, f)
         /\ PackageAt(U, f) = PackageAt(T, f) /\ GapsAt(U, f) = GapsAt(T, f)
         /\ InputsAt(U, f) = InputsAt(T, f)
  BY SamePackage DEF Imports
<1>2. \A i \in DOMAIN m.packages : m.packages[i] \in ToSet(m.packages)  BY DEF ToSet
<1> DEFINE read(V) == UNION {InputsAt(V, f) : f \in ToSet(m.packages)}
           inputs(V) == {[path |-> p, data |-> V[p].data] : p \in {q \in read(V) : IsFile(V, q)}}
<1>3. [i \in DOMAIN m.packages |-> PackageAt(U, m.packages[i])] = [i \in DOMAIN m.packages |-> PackageAt(T, m.packages[i])]
  BY <1>1, <1>2
<1>4. UNION {GapsAt(U, f) : f \in ToSet(m.packages)} = UNION {GapsAt(T, f) : f \in ToSet(m.packages)}
  BY <1>1
<1>5. read(U) = read(T)  BY <1>1
<1>6. inputs(U) = inputs(T)
  <2>1. \A p \in read(T) : p \in R  OBVIOUS
  <2> HIDE DEF read
  <2>2. \A p \in read(T) : IsFile(U, p) <=> IsFile(T, p)  BY SameShape
  <2>3. \A p \in read(T) : IsFile(T, p) => U[p].data = T[p].data  BY <2>1, SameData
  <2> QED  BY <1>5, <2>2, <2>3
<1>7. Inventory(U, m.packages) = Inventory(T, m.packages)
  BY <1>3, <1>4, <1>6 DEF Inventory
<1>8. Imports(m, U)
  <2>1. [i \in DOMAIN m.packages |-> ValueAt(U, m.packages[i]).id] = [i \in DOMAIN m.packages |-> ValueAt(T, m.packages[i]).id]
    BY <1>1, <1>2
  <2>2. IsDir(U, <<>>) <=> IsDir(T, <<>>)  BY SameShape
  <2> QED  BY <1>1, <1>7, <2>1, <2>2 DEF Imports
<1> QED  BY <1>7, <1>8

-----------------------------------------------------------------------------
(* The provenance is complete *)

\* What holds where there is a plan.
LEMMA WherePlanned ==
    ASSUME Known, NEW done \in plan
    PROVE  /\ pc = "planned" /\ WellFormed(request) /\ Imports(manifest, tree) /\ PackagesFit(Whole)
           /\ DOMAIN plans \subseteq DOMAIN Codecs /\ \A t \in DOMAIN plans : PlanFor(t, Ours) = {plans[t]}
           /\ done.provenance = Provenance(Ours, DOMAIN plans)
<1>1. done = [targets |-> plans, provenance |-> Provenance(Ours, DOMAIN plans)]  BY DEF Known
<1>2. done.provenance = Provenance(Ours, DOMAIN plans)  BY <1>1
<1> QED  BY <1>2 DEF Known

\* Selecting packages keeps the inputs of the whole source.
LEMMA InputsOfOurs == Ours.inputs = Whole.inputs
  BY DEF Ours, SelectPackagesOf, Whole, Inventory

\* The inputs that the provenance records determine the plans.
LEMMA KnownProvenance == Known => ProvenanceIsComplete
<1> SUFFICES ASSUME Known, NEW done \in plan
             PROVE  LET read == {i.path : i \in done.provenance.inputs}
                        other == [p \in DOMAIN tree |->
                            IF p \in read \/ tree[p].kind # "file" THEN tree[p]
                            ELSE [kind |-> "file", data |-> [form |-> "other", value |-> ""]]]
                    IN  /\ Imports(manifest, other)
                        /\ \A t \in DOMAIN plans :
                              PlanFor(t, SelectPackagesOf(Inventory(other, manifest.packages))) = {plans[t]}
  BY DEF ProvenanceIsComplete
<1> DEFINE read == {i.path : i \in done.provenance.inputs}
           other == [p \in DOMAIN tree |->
               IF p \in read \/ tree[p].kind # "file" THEN tree[p]
               ELSE [kind |-> "file", data |-> [form |-> "other", value |-> ""]]]
           R == UNION {InputsAt(tree, f) : f \in ToSet(manifest.packages)}
<1>1. /\ WellFormed(request) /\ Imports(manifest, tree)
      /\ \A t \in DOMAIN plans : PlanFor(t, Ours) = {plans[t]}
      /\ done.provenance = Provenance(Ours, DOMAIN plans)
  BY WherePlanned
<1>2. WellFormedTree(tree) /\ IsSequence(manifest.packages)
  BY <1>1 DEF WellFormed, WellFormedManifest, tree, manifest
<1>3. done.provenance.inputs = Whole.inputs  BY <1>1, InputsOfOurs DEF Provenance
<1>4. Whole.inputs = {[path |-> p, data |-> tree[p].data] : p \in {q \in R : IsFile(tree, q)}}
  BY DEF Whole, Inventory
<1>5. ASSUME NEW p \in R, IsFile(tree, p) PROVE p \in read
  <2> DEFINE i == [path |-> p, data |-> tree[p].data]
  <2>1. i \in Whole.inputs  BY <1>4, <1>5
  <2>2. i.path = p  OBVIOUS
  <2> HIDE DEF i
  <2> QED  BY <1>3, <2>1, <2>2
<1>6. Alike(tree, other, R)
  <2>1. DOMAIN other = DOMAIN tree  OBVIOUS
  <2>2. ASSUME NEW p \in DOMAIN tree PROVE other[p].kind = tree[p].kind /\ (p \in R => other[p] = tree[p])
    <3> HIDE DEF read, R
    <3>1. p \in R => p \in read \/ tree[p].kind # "file"  BY <1>5 DEF IsFile
    <3> QED  BY <3>1
  <2> QED  BY <2>1, <2>2 DEF Alike
<1>7. \A f \in ToSet(manifest.packages) : InputsAt(tree, f) \subseteq R  OBVIOUS
<1> HIDE DEF other, read, R
<1>8. Inventory(other, manifest.packages) = Whole /\ Imports(manifest, other)
  BY <1>1, <1>2, <1>6, <1>7, SameInventory DEF Whole
<1>9. SelectPackagesOf(Inventory(other, manifest.packages)) = Ours  BY <1>8 DEF Ours
<1> QED  BY <1>1, <1>8, <1>9 DEF other, read

\* ProvenanceIsComplete: the provenance records every file that a plan depends on
\* (readOptionalRegular, buildProvenance).
THEOREM ProvenanceCompletes == Spec => []ProvenanceIsComplete
  BY KnownAlways, KnownProvenance, PTL

-----------------------------------------------------------------------------
(* What is imported and selected *)

\* A request whose import and selection went well.
Selects == WellFormed(request) /\ Imports(manifest, tree)

\* The manifests of packages, the entries that each lists, and the asset of one.
Manifests == ToSet(manifest.packages)
Listed == [f \in Manifests |-> ToSet(ValueAt(tree, f).assets)]
AssetOf(e) == AssetAt(tree, e.path, e.targets)

\* What imports is well formed, and its packages have names of their own.
LEMMA RequestFacts ==
    ASSUME Selects
    PROVE  /\ WellFormedTree(tree) /\ IsSequence(manifest.packages) /\ IsOptional(manifest.distribution)
           /\ \A c \in ToSet(manifest.composition) : WellFormedPolicy(c)
           /\ Chosen \subseteq Manifests
           /\ \A f \in Manifests : PackageFileFits(tree, f) /\ Listed[f] = ToSet(ValueAt(tree, f).assets)
           /\ \A f, g \in Manifests : ValueAt(tree, f).id = ValueAt(tree, g).id => f = g
<1>1. WellFormedTree(tree) /\ IsSequence(manifest.packages) /\ IsOptional(manifest.distribution)
      /\ \A c \in ToSet(manifest.composition) : WellFormedPolicy(c)
  BY DEF Selects, WellFormed, WellFormedManifest, tree, manifest
<1>2. Chosen \subseteq Manifests  BY DEF Chosen, Manifests
<1>3. \A f \in Manifests : PackageFileFits(tree, f)  BY DEF Selects, Imports, Manifests
<1>4. ASSUME NEW f \in Manifests, NEW g \in Manifests, ValueAt(tree, f).id = ValueAt(tree, g).id PROVE f = g
  <2> DEFINE ids == [i \in DOMAIN manifest.packages |-> ValueAt(tree, manifest.packages[i]).id]
  <2>1. Distinct(ids)  BY DEF Selects, Imports
  <2>2. PICK i \in DOMAIN manifest.packages : manifest.packages[i] = f  BY DEF Manifests, ToSet
  <2>3. PICK j \in DOMAIN manifest.packages : manifest.packages[j] = g  BY DEF Manifests, ToSet
  <2>4. ids[i] = ids[j] /\ DOMAIN ids = DOMAIN manifest.packages  BY <1>4, <2>2, <2>3
  <2>5. i = j  BY <2>1, <2>4 DEF Distinct, IsInjective
  <2> QED  BY <2>2, <2>3, <2>5
<1>5. \A f \in Manifests : Listed[f] = ToSet(ValueAt(tree, f).assets)  BY DEF Listed
<1> QED  BY <1>1, <1>2, <1>3, <1>4, <1>5

\* The assets of a package are those of its entries, each with its own name.
LEMMA ListedFacts ==
    ASSUME Selects, NEW f \in Manifests
    PROVE  /\ IsFiniteSet(Listed[f])
           /\ \A e \in Listed[f] : IsSequence(e.path) /\ e.path # <<>> /\ AssetImports(tree, e.path)
           /\ \A e, d \in Listed[f] : IdentityAt(e.path) = IdentityAt(d.path) => e = d
           /\ ToSet(PackageAt(tree, f).assets) = {AssetOf(e) : e \in Listed[f]}
           /\ PackageAt(tree, f).identity = ValueAt(tree, f).id
<1> DEFINE value == ValueAt(tree, f)
<1>1. Listed[f] = ToSet(value.assets) /\ PackageFileFits(tree, f) /\ WellFormedTree(tree)  BY RequestFacts
<1>2. IsSequence(value.assets) /\ \A e \in ToSet(value.assets) : IsSequence(e.path) /\ AssetImports(tree, e.path)
  BY <1>1, PackageEntries
<1>3. \A e \in ToSet(value.assets) : e.path # <<>>  BY <1>2 DEF AssetImports, ValidPath
<1>4. ASSUME NEW e \in ToSet(value.assets), NEW d \in ToSet(value.assets), IdentityAt(e.path) = IdentityAt(d.path)
      PROVE  e = d
  <2> DEFINE paths == [i \in DOMAIN value.assets |-> value.assets[i].path]
             ids == [i \in DOMAIN paths |-> IdentityAt(paths[i])]
  <2>1. Distinct(ids)  BY <1>1 DEF PackageFileFits
  <2>2. PICK i \in DOMAIN value.assets : value.assets[i] = e  BY DEF ToSet
  <2>3. PICK j \in DOMAIN value.assets : value.assets[j] = d  BY DEF ToSet
  <2>4. ids[i] = IdentityAt(e.path) /\ ids[j] = IdentityAt(d.path) /\ DOMAIN ids = DOMAIN value.assets  BY <2>2, <2>3
  <2>5. i = j  BY <1>4, <2>1, <2>4 DEF Distinct, IsInjective
  <2> QED  BY <2>2, <2>3, <2>5
<1>5. ToSet(PackageAt(tree, f).assets) = {AssetOf(e) : e \in ToSet(value.assets)}
  <2> DEFINE assets == [i \in DOMAIN value.assets |-> AssetAt(tree, value.assets[i].path, value.assets[i].targets)]
  <2>1. PackageAt(tree, f).assets = assets  BY DEF PackageAt
  <2>2. DOMAIN assets = DOMAIN value.assets /\ \A i \in DOMAIN value.assets : assets[i] = AssetOf(value.assets[i])
    BY DEF AssetOf
  <2> HIDE DEF assets
  <2> QED  BY <2>1, <2>2 DEF ToSet
<1>6. PackageAt(tree, f).identity = value.id  BY DEF PackageAt
<1> QED  BY <1>1, <1>2, <1>3, <1>4, <1>5, <1>6, FiniteToSet

\* The parts of an asset.
LEMMA AssetFacts ==
    ASSUME NEW e
    PROVE  /\ AssetOf(e).identity = IdentityAt(e.path) /\ AssetOf(e).kind = KindAt(e.path)
           /\ AssetOf(e).targets = e.targets /\ AssetOf(e).native = NativeOptions(tree, e.path)
           /\ AssetOf(e).base = AssetContent(tree, e.path)
           /\ AssetOf(e).hook = (IF KindAt(e.path) # "hook" THEN {} ELSE {HookAt(tree, e.path)})
           /\ AssetOf(e).uses = SetToSeq(Uses(tree, e.path))
           /\ AssetOf(e).overlays = SetToSeq({OverlayAt(tree, e.path, t) : t \in OverlayTargets(tree, e.path)})
  BY DEF AssetOf, AssetAt

\* The gap of a native resource.
GapOf(f, e) ==
    [package |-> ValueAt(tree, f).id, component |-> NameAt(e.path), asset |-> {IdentityAt(e.path)}, target |-> {NativeTarget(e.path)}]
\* The entries that are native resources.
Natives(f) == {e \in Listed[f] : KindAt(e.path) = "native-resource"}

\* Each native resource is a gap of its package,
LEMMA GapsFacts ==
    ASSUME Selects, NEW f \in Manifests
    PROVE  GapsAt(tree, f) = {GapOf(f, e) : e \in Natives(f)} /\ IsFiniteSet(GapsAt(tree, f))
<1>1. Listed[f] = ToSet(ValueAt(tree, f).assets)  BY RequestFacts
<1>2. GapsAt(tree, f) = {GapOf(f, e) : e \in Natives(f)}  BY <1>1 DEF GapsAt, GapOf, Natives
<1>3. IsFiniteSet(Natives(f))
  <2>1. Natives(f) \in SUBSET Listed[f]  BY DEF Natives
  <2> QED  BY <2>1, ListedFacts, FS_Subset
<1> DEFINE gaps == [e \in Natives(f) |-> GapOf(f, e)]
<1>4. IsFiniteSet({gaps[e] : e \in Natives(f)})
  <2>1. gaps = [e \in Natives(f) |-> gaps[e]]  OBVIOUS
  <2> HIDE DEF gaps
  <2> QED  BY <1>3, <2>1, FiniteImage
<1>5. {gaps[e] : e \in Natives(f)} = {GapOf(f, e) : e \in Natives(f)}  OBVIOUS
<1> QED  BY <1>2, <1>4, <1>5

\* a source has the packages and gaps of its manifests,
LEMMA WholeFacts ==
    ASSUME Selects
    PROVE  /\ IsSequence(Whole.packages) /\ ToSet(Whole.packages) = {PackageAt(tree, f) : f \in Manifests}
           /\ IsSequence(Whole.gaps) /\ ToSet(Whole.gaps) = UNION {GapsAt(tree, f) : f \in Manifests}
<1>1. IsSequence(manifest.packages)  BY RequestFacts
<1>2. Len(manifest.packages) \in Nat /\ DOMAIN manifest.packages = 1..Len(manifest.packages)  BY <1>1, SequenceFacts
<1> DEFINE packages == [i \in DOMAIN manifest.packages |-> PackageAt(tree, manifest.packages[i])]
           gaps == UNION {GapsAt(tree, f) : f \in Manifests}
<1>3. Whole.packages = packages /\ Whole.gaps = SetToSeq(gaps)  BY DEF Whole, Inventory, Manifests
<1>4. packages \in Seq({PackageAt(tree, f) : f \in Manifests})
  <2>1. \A i \in DOMAIN manifest.packages : manifest.packages[i] \in Manifests  BY DEF Manifests, ToSet
  <2>2. \A i \in 1..Len(manifest.packages) : PackageAt(tree, manifest.packages[i]) \in {PackageAt(tree, f) : f \in Manifests}
    BY <1>2, <2>1
  <2> QED  BY <1>2, <2>2
<1>5. ToSet(packages) = {PackageAt(tree, f) : f \in Manifests}
  <2>1. DOMAIN packages = DOMAIN manifest.packages
        /\ \A i \in DOMAIN manifest.packages : packages[i] = PackageAt(tree, manifest.packages[i])
    OBVIOUS
  <2> HIDE DEF packages
  <2> QED  BY <2>1 DEF ToSet, Manifests
<1>6. IsFiniteSet(gaps)
  <2> DEFINE each == [f \in Manifests |-> GapsAt(tree, f)]
  <2>1. IsFiniteSet(Manifests)  BY <1>1, FiniteToSet DEF Manifests
  <2>2. each = [f \in Manifests |-> each[f]]  OBVIOUS
  <2>3. {each[f] : f \in Manifests} = {GapsAt(tree, f) : f \in Manifests}  OBVIOUS
  <2>4. IsFiniteSet({GapsAt(tree, f) : f \in Manifests})
    <3> HIDE DEF each
    <3> QED  BY <2>1, <2>2, <2>3, FiniteImage
  <2>5. \A T \in {GapsAt(tree, f) : f \in Manifests} : IsFiniteSet(T)  BY GapsFacts
  <2> QED  BY <2>4, <2>5, FS_UNION
<1> HIDE DEF gaps, packages
<1>7. IsSequence(SetToSeq(gaps)) /\ ToSet(SetToSeq(gaps)) = gaps  BY <1>6, SetToSeqFacts
<1> QED  BY <1>3, <1>4, <1>5, <1>7, SequenceOver DEF gaps

\* and what is selected those of the chosen ones.
LEMMA OursFacts ==
    ASSUME Selects
    PROVE  /\ ToSet(Ours.packages) = {PackageAt(tree, f) : f \in Chosen}
           /\ ToSet(Ours.gaps) = UNION {GapsAt(tree, f) : f \in Chosen}
<1>1. CASE request.packages = <<>>
  <2>1. Ours = Whole  BY <1>1 DEF Ours, SelectPackagesOf
  <2>2. Chosen = Manifests  BY <1>1 DEF Chosen, Manifests
  <2> QED  BY <2>1, <2>2, WholeFacts
<1>2. CASE request.packages # <<>>
  <2> DEFINE ids == ToSet(request.packages)
             P == {p \in ToSet(Whole.packages) : p.identity \in ids}
             G == {g \in ToSet(Whole.gaps) : g.package \in ids}
  <2>1. Ours.packages = Pick(Whole.packages, P) /\ Ours.gaps = Pick(Whole.gaps, G)
    BY <1>2 DEF Ours, SelectPackagesOf, Whole, Inventory
  <2>2. ToSet(Ours.packages) = P /\ ToSet(Ours.gaps) = G
    <3>1. ToSet(Whole.packages) \cap P = P /\ ToSet(Whole.gaps) \cap G = G  OBVIOUS
    <3> HIDE DEF P, G
    <3> QED  BY <2>1, <3>1, WholeFacts, PickFacts
  <2>3. Chosen = {f \in Manifests : ValueAt(tree, f).id \in ids}  BY <1>2 DEF Chosen, Manifests
  <2>4. \A f \in Manifests : PackageAt(tree, f).identity = ValueAt(tree, f).id  BY ListedFacts
  <2>5. \A f \in Manifests : \A g \in GapsAt(tree, f) : g.package = ValueAt(tree, f).id
    <3> SUFFICES ASSUME NEW f \in Manifests, NEW g \in GapsAt(tree, f) PROVE g.package = ValueAt(tree, f).id
      OBVIOUS
    <3>1. PICK e \in Natives(f) : g = GapOf(f, e)  BY GapsFacts
    <3> QED  BY <3>1 DEF GapOf
  <2> HIDE DEF ids
  <2>6. P = {PackageAt(tree, f) : f \in Chosen}  BY <2>3, <2>4, WholeFacts
  <2>7. G = UNION {GapsAt(tree, f) : f \in Chosen}  BY <2>3, <2>5, WholeFacts
  <2> QED  BY <2>2, <2>6, <2>7
<1> QED  BY <1>1, <1>2

-----------------------------------------------------------------------------
(* Which assets a target gets *)

\* Every asset that is imported has one of the places that a bundle knows.
LEMMA NativePlaces ==
    ASSUME NEW path, Classifies(path)
    PROVE  KindAt(path) = "native-resource" <=> NativePath(path)
  BY DEF Classifies, HasParts, KindAt, NativePath

\* The assets that gaps may refer to.
LEMMA ReferencesOfOurs ==
    ASSUME Selects
    PROVE  References(Ours) = UNION {{<<ValueAt(tree, f).id, AssetOf(e)>> : e \in Listed[f]} : f \in Chosen}
<1> DEFINE of(p) == {<<p.identity, a>> : a \in ToSet(p.assets)}
           refs(f) == {<<ValueAt(tree, f).id, AssetOf(e)>> : e \in Listed[f]}
<1>1. Chosen \subseteq Manifests  BY RequestFacts
<1>2. ASSUME NEW f \in Chosen PROVE of(PackageAt(tree, f)) = refs(f)
  <2>1. ToSet(PackageAt(tree, f).assets) = {AssetOf(e) : e \in Listed[f]} /\ PackageAt(tree, f).identity = ValueAt(tree, f).id
    BY <1>1, ListedFacts
  <2> QED  BY <2>1
<1>3. References(Ours) = UNION {of(p) : p \in ToSet(Ours.packages)}  BY DEF References
<1>4. References(Ours) = UNION {refs(f) : f \in Chosen}
  <2> HIDE DEF of, refs
  <2> QED  BY <1>2, <1>3, OursFacts
<1> QED  BY <1>4

\* The asset that the gap of a native resource is about.
LEMMA AssetOfGap ==
    ASSUME Selects, NEW f \in Chosen, NEW e \in Natives(f)
    PROVE  GapAsset(Ours, GapOf(f, e)) = {AssetOf(e)}
<1>1. f \in Manifests /\ e \in Listed[f]  BY RequestFacts DEF Natives
<1>2. GapOf(f, e).package = ValueAt(tree, f).id /\ GapOf(f, e).asset = {IdentityAt(e.path)}  BY DEF GapOf
<1>3. <<ValueAt(tree, f).id, AssetOf(e)>> \in References(Ours)  BY <1>1, ReferencesOfOurs
<1>4. AssetOf(e) \in GapAsset(Ours, GapOf(f, e))
  <2> DEFINE r == <<ValueAt(tree, f).id, AssetOf(e)>>
  <2>1. r[1] = ValueAt(tree, f).id /\ r[2] = AssetOf(e)  OBVIOUS
  <2>2. r[2].identity = IdentityAt(e.path)  BY <2>1, AssetFacts
  <2> HIDE DEF r
  <2> QED  BY <1>2, <1>3, <2>1, <2>2 DEF GapAsset, r
<1>5. ASSUME NEW a \in GapAsset(Ours, GapOf(f, e)) PROVE a = AssetOf(e)
  <2>1. PICK r \in References(Ours) : r[1] = ValueAt(tree, f).id /\ r[2].identity = IdentityAt(e.path) /\ a = r[2]
    BY <1>2, <1>5 DEF GapAsset
  <2>2. PICK g \in Chosen : \E d \in Listed[g] : r = <<ValueAt(tree, g).id, AssetOf(d)>>
    BY <2>1, ReferencesOfOurs
  <2> PICK d \in Listed[g] : r = <<ValueAt(tree, g).id, AssetOf(d)>>
    BY <2>2
  <2>3. ValueAt(tree, g).id = ValueAt(tree, f).id /\ AssetOf(d).identity = IdentityAt(e.path) /\ a = AssetOf(d)
    BY <2>1, <2>2
  <2>4. g = f  BY <1>1, <2>3, RequestFacts
  <2>5. IdentityAt(d.path) = IdentityAt(e.path)  BY <2>3, AssetFacts
  <2>6. d = e  BY <1>1, <2>2, <2>4, <2>5, ListedFacts
  <2> QED  BY <2>3, <2>6
<1> QED  BY <1>4, <1>5

\* How a gap is decided, said of its entry.
LEMMA GapIsDecided ==
    ASSUME Selects, NEW f \in Chosen, NEW e \in Natives(f), NEW t, NEW gap, gap = GapOf(f, e)
    PROVE  /\ ElsewhereOnly(gap, t) <=> NativeTarget(e.path) # t
           /\ Bridged(Ours, gap, t) <=> SupportedNatively(AssetOf(e), t)
           /\ Unselected(Ours, gap, t) <=> ~Takes(t, e)
<1>1. GapAsset(Ours, gap) = {AssetOf(e)}  BY AssetOfGap
<1>2. gap.target = {NativeTarget(e.path)}  BY DEF GapOf
<1>3. Selected(AssetOf(e), t) <=> Takes(t, e)  BY AssetFacts DEF Selected, Takes
<1>4. ElsewhereOnly(gap, t) <=> NativeTarget(e.path) # t  BY <1>2 DEF ElsewhereOnly
<1> QED  BY <1>1, <1>3, <1>4 DEF Bridged, Unselected

\* An asset that a target takes is left out if and only if it is a native
\* resource that the target does not keep.
LEMMA ExcludedIsNotKept ==
    ASSUME Selects, NEW f \in Chosen, NEW e \in Listed[f], NEW c, Takes(c.target, e)
    PROVE  <<ValueAt(tree, f).id, IdentityAt(e.path)>> \in Excluded(Ours, c) <=> ~Kept(c.target, e)
<1> DEFINE t == c.target
           id == <<ValueAt(tree, f).id, IdentityAt(e.path)>>
           Out == {h \in ToSet(Ours.gaps) : ElsewhereOnly(h, t)} \cup Decided(Ours, t)
<1>1. f \in Manifests /\ AssetImports(tree, e.path)  BY RequestFacts, ListedFacts
<1>2. KindAt(e.path) = "native-resource" <=> NativePath(e.path)  BY <1>1, NativePlaces DEF AssetImports
<1>3. SupportedNatively(AssetOf(e), t) <=>
         /\ KindAt(e.path) = "native-resource"
         /\ \/ t = "pi" /\ \E o \in NativeOptions(tree, e.path) : o.piExtensions # <<>>
            \/ t = "antigravity" /\ NativeOptions(tree, e.path) = {}
  BY AssetFacts DEF SupportedNatively
<1>4. NativePath(e.path) /\ ~Kept(t, e) <=>
         NativePath(e.path) /\ (NativeTarget(e.path) # t \/ ~SupportedNatively(AssetOf(e), t))
  BY <1>2, <1>3 DEF Kept
<1>5. id \in Excluded(Ours, c) <=> \E g \in Out : \E x \in g.asset : id = <<g.package, x>>
  BY DEF Excluded
<1>6. ASSUME NEW g \in ToSet(Ours.gaps), NEW x \in g.asset, id = <<g.package, x>>
      PROVE  e \in Natives(f) /\ g = GapOf(f, e)
  <2>1. PICK h \in Chosen : g \in GapsAt(tree, h)  BY OursFacts
  <2>2. h \in Manifests  BY RequestFacts
  <2>3. PICK d \in Natives(h) : g = GapOf(h, d)  BY <2>1, <2>2, GapsFacts
  <2>4. g.package = ValueAt(tree, h).id /\ g.asset = {IdentityAt(d.path)}  BY <2>3 DEF GapOf
  <2>5. ValueAt(tree, f).id = ValueAt(tree, h).id /\ IdentityAt(d.path) = IdentityAt(e.path)  BY <1>6, <2>4
  <2>6. h = f  BY <1>1, <2>2, <2>5, RequestFacts
  <2>7. d \in Listed[f]  BY <2>3, <2>6 DEF Natives
  <2>8. d = e  BY <1>1, <2>5, <2>7, ListedFacts
  <2> QED  BY <2>3, <2>6, <2>8
<1>7. ASSUME id \in Excluded(Ours, c) PROVE ~Kept(t, e)
  <2>1. PICK g \in Out : \E x \in g.asset : id = <<g.package, x>>  BY <1>5, <1>7
  <2>2. g \in ToSet(Ours.gaps)  BY DEF Decided
  <2>3. e \in Natives(f) /\ g = GapOf(f, e)  BY <1>6, <2>1, <2>2
  <2>4. NativePath(e.path)  BY <1>2, <2>3 DEF Natives
  <2>5. ElsewhereOnly(g, t) \/ ~Bridged(Ours, g, t)  BY DEF Decided, Open
  <2>6. NativeTarget(e.path) # t \/ ~SupportedNatively(AssetOf(e), t)  BY <2>3, <2>5, GapIsDecided
  <2> QED  BY <1>4, <2>4, <2>6
<1>8. ASSUME ~Kept(t, e) PROVE id \in Excluded(Ours, c)
  <2>1. NativePath(e.path)  BY <1>8 DEF Kept
  <2>2. e \in Natives(f)  BY <1>2, <2>1 DEF Natives
  <2>3. NativeTarget(e.path) # t \/ ~SupportedNatively(AssetOf(e), t)  BY <1>4, <1>8, <2>1
  <2> DEFINE g == GapOf(f, e)
  <2>4. g \in ToSet(Ours.gaps)  BY <1>1, <2>2, OursFacts, GapsFacts
  <2>5. ElsewhereOnly(g, t) \/ (Open(Ours, g, t) /\ ~Unselected(Ours, g, t))
    BY <2>2, <2>3, GapIsDecided DEF Open
  <2>6. g \in Out  BY <2>4, <2>5 DEF Decided
  <2>7. IdentityAt(e.path) \in g.asset /\ g.package = ValueAt(tree, f).id  BY DEF GapOf
  <2> HIDE DEF Out, g
  <2> QED  BY <1>5, <2>6, <2>7
<1> QED  BY <1>7, <1>8

\* What a package includes for a target are the assets of the entries that the
\* target takes and keeps.
LEMMA IncludedAreEntries ==
    ASSUME Selects, NEW f \in Chosen, NEW c
    PROVE  Included(Ours, PackageAt(tree, f), c) = {AssetOf(e) : e \in EntriesOf(c.target, f)}
<1> DEFINE p == PackageAt(tree, f)
<1>1. f \in Manifests  BY RequestFacts
<1>2. ToSet(p.assets) = {AssetOf(e) : e \in Listed[f]} /\ p.identity = ValueAt(tree, f).id  BY <1>1, ListedFacts
<1>3. EntriesOf(c.target, f) = {e \in Listed[f] : Takes(c.target, e) /\ Kept(c.target, e)}
  BY <1>1, RequestFacts DEF EntriesOf
<1>4. ASSUME NEW e \in Listed[f]
      PROVE  (Selected(AssetOf(e), c.target) /\ <<p.identity, AssetOf(e).identity>> \notin Excluded(Ours, c))
             <=> e \in EntriesOf(c.target, f)
  <2>1. Selected(AssetOf(e), c.target) <=> Takes(c.target, e)  BY AssetFacts DEF Selected, Takes
  <2>2. AssetOf(e).identity = IdentityAt(e.path)  BY AssetFacts
  <2>3. Takes(c.target, e) => (<<p.identity, AssetOf(e).identity>> \in Excluded(Ours, c) <=> ~Kept(c.target, e))
    BY <1>2, <2>2, ExcludedIsNotKept
  <2> QED  BY <1>3, <2>1, <2>3
<1> HIDE DEF p
<1>5. Included(Ours, p, c) = {a \in ToSet(p.assets) : Selected(a, c.target) /\ <<p.identity, a.identity>> \notin Excluded(Ours, c)}
  BY DEF Included
<1>6. EntriesOf(c.target, f) \subseteq Listed[f]  BY <1>3
<1>7. Included(Ours, p, c) = {AssetOf(e) : e \in EntriesOf(c.target, f)}
  BY <1>2, <1>4, <1>5, <1>6
<1> QED  BY <1>7 DEF p

-----------------------------------------------------------------------------
(* What a plan is made from *)

\* The composition of a target, and what its renderer gets.
Rules(t) == CompositionFor(t)
InFor(t) == RenderInput(t, Compose(Ours, Rules(t)))

\* The plan of a target is what it renders from what it composes.
Made(t) ==
    /\ Selects /\ t \in DOMAIN Codecs
    /\ RulesFit(t) /\ Composes(Ours, Rules(t))
    /\ RenderFits(t, InFor(t)) /\ plans[t] = Render(t, InFor(t))

\* Every plan was made from what was imported.
LEMMA PlansAreMade ==
    ASSUME Known, plan # {}, NEW t \in DOMAIN plans
    PROVE  Made(t)
<1>1. PICK done \in plan : TRUE  OBVIOUS
<1>2. Selects /\ t \in DOMAIN Codecs /\ PlanFor(t, Ours) = {plans[t]}  BY <1>1, WherePlanned DEF Selects
<1>3. RulesFit(t) /\ Composes(Ours, Rules(t))  BY <1>2 DEF PlanFor, Rules
<1>4. PlanFor(t, Ours) = IF RenderFits(t, InFor(t)) THEN {Render(t, InFor(t))} ELSE {}
  BY <1>3 DEF PlanFor, InFor, Rules
<1>5. RenderFits(t, InFor(t)) /\ plans[t] = Render(t, InFor(t))  BY <1>2, <1>4
<1> QED  BY <1>2, <1>3, <1>5 DEF Made

\* A target's rules are its codec's, or a manifest's merged with them.
LEMMA RulesFacts ==
    ASSUME Selects, NEW t
    PROVE  /\ Rules(t).target = t
           /\ Rules(t).rules = Capabilities(Codecs[t]) \/
                 \E c \in PolicyOf(t) : c \in ToSet(manifest.composition) /\ IsSequence(c.rules) /\ Rules(t).rules = MergedRules(t, c.rules)
           /\ \A a \in Rules(t).aggregate : DOMAIN a = {"identity", "metadata"}
<1>1. CASE PolicyOf(t) = {}
  BY <1>1 DEF Rules, CompositionFor
<1>2. CASE PolicyOf(t) # {}
  <2> DEFINE c == CHOOSE x \in PolicyOf(t) : TRUE
  <2>1. c \in PolicyOf(t)  BY <1>2
  <2>2. c \in ToSet(manifest.composition) /\ c.target = t  BY <2>1 DEF PolicyOf
  <2>3. WellFormedPolicy(c)  BY <2>2, RequestFacts
  <2>4. DOMAIN c = {"target", "profile", "mode", "aggregate", "preamble", "rules", "policies"} /\ IsSequence(c.rules)
        /\ \A a \in c.aggregate : DOMAIN a = {"identity", "metadata"}
    BY <2>3 DEF WellFormedPolicy
  <2>5. Rules(t) = [c EXCEPT !.rules = MergedRules(t, @)]  BY <1>2 DEF Rules, CompositionFor
  <2> HIDE DEF c
  <2>6. Rules(t).rules = MergedRules(t, c.rules)  BY <2>4, <2>5
  <2>7. Rules(t).target = c.target  BY <2>4, <2>5
  <2>8. Rules(t).aggregate = c.aggregate  BY <2>4, <2>5
  <2> QED  BY <2>1, <2>2, <2>4, <2>6, <2>7, <2>8
<1> QED  BY <1>1, <1>2

-----------------------------------------------------------------------------
(* Capabilities *)

\* The keys of capabilities, as sets.
AssetKeySet == {"asset.agent", "asset.hook", "asset.command", "asset.resource", "asset.native-resource", "asset.skill"}
HookKeySet == {"hook.async", "hook.command.exec", "hook.command.shell", "hook.decision.block",
    "hook.decision.rewrite-input", "hook.event.notification", "hook.event.post-compact", "hook.event.post-tool",
    "hook.event.post-tool-failure", "hook.event.pre-compact", "hook.event.pre-tool", "hook.event.prompt-submit",
    "hook.event.session-end", "hook.event.session-start", "hook.event.stop", "hook.failure.closed",
    "hook.matcher.tool-category"}
PluginKeySet == {"agent-plugin.skills", "agent-plugin.mcp.stdio", "agent-plugin.mcp.streamable-http",
    "agent-plugin.mcp.sse", "agent-plugin.extensions", "agent-plugin.unknown-json", "agent-plugin.package-files"}

\* The lists of keys have the keys of these sets.
LEMMA KeysFacts ==
    /\ IsSequence(AssetKeys) /\ ToSet(AssetKeys) = AssetKeySet
    /\ IsSequence(HookKeys) /\ ToSet(HookKeys) = HookKeySet
    /\ IsSequence(PluginKeys) /\ ToSet(PluginKeys) = PluginKeySet
<1>1. AssetKeys \in Seq(AssetKeySet) /\ HookKeys \in Seq(HookKeySet) /\ PluginKeys \in Seq(PluginKeySet)
  <2>1. AssetKeys \in Seq(AssetKeySet)  BY DEF AssetKeys, AssetKeySet
  <2>2. HookKeys \in Seq(HookKeySet)  BY DEF HookKeys, HookKeySet
  <2>3. PluginKeys \in Seq(PluginKeySet)  BY DEF PluginKeys, PluginKeySet
  <2> QED  BY <2>1, <2>2, <2>3
<1>2. ToSet(AssetKeys) = AssetKeySet
  <2>1. DOMAIN AssetKeys = 1..6  BY DEF AssetKeys
  <2> QED  BY <2>1 DEF AssetKeys, ToSet, AssetKeySet
<1>3. ToSet(HookKeys) = HookKeySet
  <2>1. DOMAIN HookKeys = 1..17  BY DEF HookKeys
  <2> QED  BY <2>1 DEF HookKeys, ToSet, HookKeySet
<1>4. ToSet(PluginKeys) = PluginKeySet
  <2>1. DOMAIN PluginKeys = 1..7  BY DEF PluginKeys
  <2> QED  BY <2>1 DEF PluginKeys, ToSet, PluginKeySet
<1> QED  BY <1>1, <1>2, <1>3, <1>4, SequenceOver

\* A sequence of what is made from each element of another.
LEMMA Mapped ==
    ASSUME NEW s, IsSequence(s), NEW f, DOMAIN f = DOMAIN s, f = [i \in DOMAIN s |-> f[i]]
    PROVE  IsSequence(f) /\ Len(f) = Len(s)
<1>1. Len(s) \in Nat /\ DOMAIN s = 1..Len(s)  BY SequenceFacts
<1>2. f = [i \in 1..Len(s) |-> f[i]] /\ \A i \in 1..Len(s) : f[i] \in ToSet(f)  BY <1>1 DEF ToSet
<1>3. f \in Seq(ToSet(f)) /\ Len(f) = Len(s)  BY <1>1, <1>2
<1> QED  BY <1>3 DEF IsSequence

\* What a vendor's capabilities say of a key.
LEMMA CapabilitiesFacts ==
    ASSUME NEW codec
    PROVE  /\ IsSequence(Capabilities(codec))
           /\ ToSet(Capabilities(codec)) =
                 {[key |-> k, state |-> StateIn(codec, k)] : k \in AssetKeySet \cup HookKeySet}
                 \cup {[key |-> k, state |-> PluginState(codec, k)] : k \in PluginKeySet}
<1> DEFINE A == [i \in DOMAIN AssetKeys |-> [key |-> AssetKeys[i], state |-> StateIn(codec, AssetKeys[i])]]
           H == [i \in DOMAIN HookKeys |-> [key |-> HookKeys[i], state |-> StateIn(codec, HookKeys[i])]]
           P == [i \in DOMAIN PluginKeys |-> [key |-> PluginKeys[i], state |-> PluginState(codec, PluginKeys[i])]]
<1>1. Capabilities(codec) = (A \o H) \o P  BY DEF Capabilities
<1>2. IsSequence(A) /\ IsSequence(H) /\ IsSequence(P)
  <2>1. DOMAIN A = DOMAIN AssetKeys /\ A = [i \in DOMAIN AssetKeys |-> A[i]]  OBVIOUS
  <2>2. DOMAIN H = DOMAIN HookKeys /\ H = [i \in DOMAIN HookKeys |-> H[i]]  OBVIOUS
  <2>3. DOMAIN P = DOMAIN PluginKeys /\ P = [i \in DOMAIN PluginKeys |-> P[i]]  OBVIOUS
  <2> HIDE DEF A, H, P
  <2> QED  BY <2>1, <2>2, <2>3, Mapped, KeysFacts
<1>3. ToSet(A) = {[key |-> k, state |-> StateIn(codec, k)] : k \in ToSet(AssetKeys)}  BY DEF ToSet
<1>4. ToSet(H) = {[key |-> k, state |-> StateIn(codec, k)] : k \in ToSet(HookKeys)}  BY DEF ToSet
<1>5. ToSet(P) = {[key |-> k, state |-> PluginState(codec, k)] : k \in ToSet(PluginKeys)}  BY DEF ToSet
<1> HIDE DEF A, H, P
<1>6. IsSequence(A \o H) /\ ToSet(A \o H) = ToSet(A) \cup ToSet(H)  BY <1>2, Joined
<1>7. IsSequence((A \o H) \o P) /\ ToSet((A \o H) \o P) = ToSet(A \o H) \cup ToSet(P)  BY <1>2, <1>6, Joined
<1>8. ToSet(Capabilities(codec)) = ToSet(A) \cup ToSet(H) \cup ToSet(P)  BY <1>1, <1>6, <1>7
<1> HIDE DEF A, H, P
<1> QED  BY <1>1, <1>3, <1>4, <1>5, <1>7, <1>8, KeysFacts

-----------------------------------------------------------------------------
(* What an asset uses, and what overlays it *)

\* Small sets are finite,
LEMMA FiniteFew ==
    ASSUME NEW a, NEW b, NEW c
    PROVE  IsFiniteSet({}) /\ IsFiniteSet({a}) /\ IsFiniteSet({a, b, c})
<1>1. ToSet(<<>>) = {} /\ ToSet(<<a>>) = {a} /\ ToSet(<<a, b, c>>) = {a, b, c}
  <2>1. DOMAIN <<a>> = {1} /\ DOMAIN <<a, b, c>> = 1..3  OBVIOUS
  <2> QED  BY <2>1 DEF ToSet
<1> QED  BY <1>1, Singles, FiniteToSet

\* so is the set of targets.
LEMMA TargetsAreFinite == IsFiniteSet(Targets)
<1> DEFINE s == <<"antigravity", "claude", "codex", "pi", "copilot", "grok", "cursor", "agent-plugins">>
<1>1. s \in Seq(Targets)  BY DEF Targets
<1>2. ToSet(s) = Targets
  <2>1. DOMAIN s = 1..8  OBVIOUS
  <2> QED  BY <2>1 DEF ToSet, Targets
<1> HIDE DEF s
<1> QED  BY <1>1, <1>2, SequenceOver, FiniteToSet

\* The metadata of an asset that imports was decoded.
LEMMA DecodedAsset ==
    ASSUME NEW T, WellFormedTree(T), NEW path, AssetImports(T, path), IsFile(T, MetadataPath(T, path))
    PROVE  WellFormedAsset(ValueAt(T, MetadataPath(T, path)))
<1> DEFINE file == MetadataPath(T, path)
<1>1. DecodesIfThere(T, file, "asset")  BY DEF AssetImports, MetadataFits
<1> HIDE DEF file
<1>2. file \in DOMAIN T /\ T[file].kind = "file"  BY DEF IsFile, file
<1>3. IsSequence(file) /\ WellFormedData(T[file].data)  BY <1>2 DEF WellFormedTree
<1>4. IsPrefix(file, file)  BY <1>3 DEF IsPrefix
<1>5. ~Absent(T, file)  BY <1>2, <1>4 DEF Absent
<1>6. T[file].data.form = "asset"  BY <1>1, <1>5 DEF DecodesIfThere, Decodes
<1> QED  BY <1>3, <1>6 DEF WellFormedData, ValueAt, file

\* An asset uses finitely many capabilities,
LEMMA UsesAreFinite ==
    ASSUME NEW T, WellFormedTree(T), NEW path, AssetImports(T, path)
    PROVE  IsFiniteSet(Uses(T, path))
<1>1. IsFiniteSet(DeclaredUses(T, path))
  <2>1. CASE IsFile(T, MetadataPath(T, path))
    <3> DEFINE C == ValueAt(T, MetadataPath(T, path)).capabilities
               sets == [uses \in C |-> ToSet(uses)]
    <3>1. IsFiniteSet(C) /\ \A uses \in C : IsSequence(uses)  BY <2>1, DecodedAsset DEF WellFormedAsset
    <3>2. sets = [uses \in C |-> sets[uses]] /\ {sets[uses] : uses \in C} = {ToSet(uses) : uses \in C}  OBVIOUS
    <3>3. IsFiniteSet({ToSet(uses) : uses \in C})
      <4> HIDE DEF C, sets
      <4> QED  BY <3>1, <3>2, FiniteImage
    <3>4. \A S \in {ToSet(uses) : uses \in C} : IsFiniteSet(S)  BY <3>1, FiniteToSet
    <3>5. IsFiniteSet(UNION {ToSet(uses) : uses \in C})  BY <3>3, <3>4, FS_UNION
    <3> QED  BY <2>1, <3>5 DEF DeclaredUses
  <2>2. CASE ~IsFile(T, MetadataPath(T, path))
    BY <2>2, FS_EmptySet DEF DeclaredUses
  <2> QED  BY <2>1, <2>2
<1>2. \A h : IsFiniteSet(HookUses(h))
  <2> SUFFICES ASSUME NEW h PROVE IsFiniteSet(HookUses(h))
    OBVIOUS
  <2> DEFINE A == {"asset.hook", "hook.command." \o h.handler.mode, "hook.event." \o h.event}
             B == IF h.matcher # {} THEN {"hook.matcher.tool-category"} ELSE {}
             C == IF h.asynchronous THEN {"hook.async"} ELSE {}
             D == IF h.failurePolicy = "closed" THEN {"hook.failure.closed"} ELSE {}
  <2>1. IsFiniteSet(A) /\ IsFiniteSet(B) /\ IsFiniteSet(C) /\ IsFiniteSet(D)  BY FiniteFew
  <2>2. HookUses(h) = ((A \cup B) \cup C) \cup D  BY DEF HookUses
  <2> HIDE DEF A, B, C, D
  <2>3. IsFiniteSet(A \cup B)  BY <2>1, FS_Union
  <2>4. IsFiniteSet((A \cup B) \cup C)  BY <2>1, <2>3, FS_Union
  <2>5. IsFiniteSet(((A \cup B) \cup C) \cup D)  BY <2>1, <2>4, FS_Union
  <2> QED  BY <2>2, <2>5
<1> DEFINE A == DeclaredUses(T, path)
           B == IF KindAt(path) = "command" THEN {"asset.command"} ELSE {}
           C == IF KindAt(path) = "hook" THEN HookUses(ValueAt(T, MainFile(path))) ELSE {}
<1>3. IsFiniteSet(B) /\ IsFiniteSet(C)  BY <1>2, FiniteFew
<1>4. Uses(T, path) = (A \cup B) \cup C  BY DEF Uses
<1> HIDE DEF A, B, C
<1>5. IsFiniteSet(A \cup B)  BY <1>1, <1>3, FS_Union DEF A
<1>6. IsFiniteSet((A \cup B) \cup C)  BY <1>3, <1>5, FS_Union
<1> QED  BY <1>4, <1>6

\* and its list of uses has them.
LEMMA UsesOfAsset ==
    ASSUME Selects, NEW f \in Manifests, NEW e \in Listed[f]
    PROVE  ToSet(AssetOf(e).uses) = Uses(tree, e.path)
<1>1. WellFormedTree(tree) /\ AssetImports(tree, e.path)  BY RequestFacts, ListedFacts
<1> QED  BY <1>1, UsesAreFinite, AssetFacts, SetToSeqFacts

\* An asset has one overlay for each target that its sidecar names,
LEMMA OverlaysOfAsset ==
    ASSUME NEW e
    PROVE  /\ IsSequence(AssetOf(e).overlays)
           /\ ToSet(AssetOf(e).overlays) = {OverlayAt(tree, e.path, t) : t \in OverlayTargets(tree, e.path)}
<1> DEFINE T == OverlayTargets(tree, e.path)
           at == [t \in T |-> OverlayAt(tree, e.path, t)]
<1>1. T \subseteq Targets  BY DEF OverlayTargets, BundleTargets
<1>2. IsFiniteSet(T)  BY <1>1, TargetsAreFinite, FS_Subset
<1>3. {at[t] : t \in T} = {OverlayAt(tree, e.path, t) : t \in T} /\ at = [t \in T |-> at[t]]  OBVIOUS
<1>4. AssetOf(e).overlays = SetToSeq({OverlayAt(tree, e.path, t) : t \in T})  BY AssetFacts
<1> HIDE DEF T, at
<1>5. IsFiniteSet({at[t] : t \in T})  BY <1>2, <1>3, FiniteImage
<1>6. IsFiniteSet({OverlayAt(tree, e.path, t) : t \in T})  BY <1>3, <1>5
<1> QED  BY <1>4, <1>6, SetToSeqFacts DEF T

\* so at most one for a target.
LEMMA OverlayOfTarget ==
    ASSUME NEW e, NEW t
    PROVE  OverlayFor(AssetOf(e), t) = {OverlayAt(tree, e.path, u) : u \in OverlayTargets(tree, e.path) \cap {t}}
<1> DEFINE all == AssetOf(e).overlays
<1>1. OverlayFor(AssetOf(e), t) = {o \in ToSet(all) : o.target = t}
  <2>1. OverlayFor(AssetOf(e), t) = {all[i] : i \in {j \in DOMAIN all : all[j].target = t}}  BY DEF OverlayFor
  <2>2. ToSet(all) = {all[i] : i \in DOMAIN all}  BY DEF ToSet
  <2> HIDE DEF all
  <2> QED  BY <2>1, <2>2
<1>2. \A u : OverlayAt(tree, e.path, u).target = u  BY DEF OverlayAt
<1>3. ToSet(all) = {OverlayAt(tree, e.path, u) : u \in OverlayTargets(tree, e.path)}  BY OverlaysOfAsset
<1> HIDE DEF all
<1> QED  BY <1>1, <1>2, <1>3

\* What a target's overlay of an asset holds comes from the file of that target.
LEMMA OverlayValues ==
    ASSUME NEW e, NEW t
    PROVE  /\ OverlayAt(tree, e.path, t).target = t
           /\ OverlayAt(tree, e.path, t).acknowledgments = OverlayValue(t, e).acknowledgments
           /\ OverlayAt(tree, e.path, t).deletedFiles = OverlayValue(t, e).deletedFiles
           /\ OverlayAt(tree, e.path, t).bodyPatch = OverlayValue(t, e).bodyPatch
           /\ OverlayAt(tree, e.path, t).frontmatterPatch = OverlayValue(t, e).frontmatterPatch
  BY DEF OverlayAt, OverlayValue

-----------------------------------------------------------------------------
(* The rules of a target *)

\* What vendors have not, or only as advice, are assets and hooks of some sort.
LEMMA CodecKeys ==
    ASSUME NEW t \in DOMAIN Codecs, NEW k \in PluginKeySet
    PROVE  StateIn(Codecs[t], k) = "native"
<1>1. ToSet(HookKeys) = HookKeySet  BY KeysFacts
<1>2. k \notin AssetKeySet \cup HookKeySet  BY DEF PluginKeySet, AssetKeySet, HookKeySet
<1>3. t \in {"claude", "codex", "copilot", "cursor", "grok", "antigravity", "pi"}  BY DEF Codecs
<1>4. /\ Codecs[t].unsupported \subseteq AssetKeySet \cup HookKeySet
      /\ Codecs[t].advisory \subseteq AssetKeySet \cup HookKeySet
      /\ Codecs[t].equivalent \subseteq AssetKeySet \cup HookKeySet
  <2>1. CASE t = "claude"  BY <2>1 DEF Codecs, Claude, AssetKeySet, HookKeySet
  <2>2. CASE t = "codex"  BY <2>2 DEF Codecs, Codex, AssetKeySet, HookKeySet
  <2>3. CASE t = "copilot"  BY <2>3 DEF Codecs, Copilot, AssetKeySet, HookKeySet
  <2>4. CASE t = "cursor"  BY <2>4 DEF Codecs, Cursor, AssetKeySet, HookKeySet
  <2>5. CASE t = "grok"  BY <2>5 DEF Codecs, Grok, AssetKeySet, HookKeySet
  <2>6. CASE t = "antigravity"  BY <1>1, <2>6 DEF Codecs, Antigravity, AssetKeySet
  <2>7. CASE t = "pi"  BY <2>7 DEF Codecs, PiAggregate, PiSeparate, AssetKeySet, HookKeySet
  <2> QED  BY <1>3, <2>1, <2>2, <2>3, <2>4, <2>5, <2>6, <2>7
<1> QED  BY <1>2, <1>4 DEF StateIn

\* No rule makes more of a capability than the vendor does.
LEMMA RulesNarrow ==
    ASSUME NEW t, Made(t), NEW r \in ToSet(Rules(t).rules)
    PROVE  /\ StateIn(Codecs[t], r.key) = "unsupported" => r.state = "unsupported"
           /\ StateIn(Codecs[t], r.key) = "advisory" => r.state \notin {"native", "equivalent"}
<1> DEFINE codec == Codecs[t]
           all == Capabilities(codec)
<1>1. t \in DOMAIN Codecs /\ Selects /\ RulesFit(t)  BY DEF Made
<1>2. ASSUME NEW q \in ToSet(all)
      PROVE  /\ StateIn(codec, q.key) = "unsupported" => q.state = "unsupported"
             /\ StateIn(codec, q.key) = "advisory" => q.state = "advisory"
  <2>1. CASE \E k \in AssetKeySet \cup HookKeySet : q = [key |-> k, state |-> StateIn(codec, k)]
    BY <2>1
  <2>2. CASE \E k \in PluginKeySet : q = [key |-> k, state |-> PluginState(codec, k)]
    BY <1>1, <2>2, CodecKeys
  <2> QED  BY <1>2, <2>1, <2>2, CapabilitiesFacts
<1>3. CASE Rules(t).rules = all  BY <1>2, <1>3
<1>4. ASSUME NEW c \in PolicyOf(t), IsSequence(c.rules), Rules(t).rules = MergedRules(t, c.rules)
      PROVE  /\ StateIn(codec, r.key) = "unsupported" => r.state = "unsupported"
             /\ StateIn(codec, r.key) = "advisory" => r.state \notin {"native", "equivalent"}
  <2> DEFINE rest == Pick(all, {q \in ToSet(all) : q.key \notin {s.key : s \in ToSet(c.rules)}})
  <2>1. IsSequence(rest) /\ ToSet(rest) \subseteq ToSet(all)
    <3>1. IsSequence(all)  BY CapabilitiesFacts
    <3> HIDE DEF all
    <3> QED  BY <3>1, PickFacts
  <2>2. Rules(t).rules = c.rules \o rest  BY <1>4 DEF MergedRules
  <2> HIDE DEF rest, all
  <2>3. r \in ToSet(c.rules) \/ r \in ToSet(all)  BY <1>4, <2>1, <2>2, Joined
  <2>4. CASE r \in ToSet(all)  BY <1>2, <2>4
  <2>5. CASE r \in ToSet(c.rules)
    <3>1. RuleFits(t, r)  BY <1>1, <2>5 DEF RulesFit
    <3>2. PICK q \in ToSet(all) :
             /\ q.key = r.key
             /\ CASE q.state = "unsupported" -> r.state = "unsupported"
                  [] q.state = "advisory" -> r.state \notin {"native", "equivalent"}
                  [] OTHER -> r.state \in {q.state, "advisory", "unsupported"}
      BY <3>1 DEF RuleFits, all
    <3> QED  BY <1>2, <3>2
  <2> QED  BY <2>3, <2>4, <2>5
<1> QED  BY <1>1, <1>3, <1>4, RulesFacts

-----------------------------------------------------------------------------
(* What is lost is acknowledged *)

\* An entry that a target gets is one of a package that is chosen, and what is
\* made of it was accepted.
LEMMA EntryFacts ==
    ASSUME NEW t, Made(t), NEW f \in Chosen, NEW e \in EntriesOf(t, f)
    PROVE  /\ f \in Manifests /\ e \in Listed[f]
           /\ AssetOf(e) \in Included(Ours, PackageAt(tree, f), Rules(t))
           /\ AssetAccepted(AssetOf(e), Rules(t)) /\ ValidSourceAsset(AssetOf(e))
           /\ PackageAt(tree, f) \in ToSet(Ours.packages) /\ AssetOf(e) \in ToSet(PackageAt(tree, f).assets)
<1>1. Selects /\ Rules(t).target = t  BY RulesFacts DEF Made
<1>2. f \in Manifests /\ e \in Listed[f]  BY <1>1, RequestFacts DEF EntriesOf
<1>3. AssetOf(e) \in Included(Ours, PackageAt(tree, f), Rules(t))  BY <1>1, IncludedAreEntries
<1>4. PackageAt(tree, f) \in ToSet(Ours.packages)  BY <1>1, OursFacts
<1>5. AssetAccepted(AssetOf(e), Rules(t))  BY <1>3, <1>4 DEF Made, Composes
<1>6. AssetOf(e) \in ToSet(PackageAt(tree, f).assets)  BY <1>3 DEF Included
<1>7. ValidSourcePackage(PackageAt(tree, f))
  <2>1. \A i \in DOMAIN Ours.packages : ValidSourcePackage(Ours.packages[i])
    BY DEF Made, Composes, ValidSourceInventory
  <2> QED  BY <1>4, <2>1 DEF ToSet
<1>8. ValidSourceAsset(AssetOf(e))
  <2>1. \A i \in DOMAIN PackageAt(tree, f).assets : ValidSourceAsset(PackageAt(tree, f).assets[i])
    BY <1>7 DEF ValidSourcePackage
  <2> QED  BY <1>6, <2>1 DEF ToSet
<1> QED  BY <1>2, <1>3, <1>4, <1>5, <1>6, <1>8

\* Every acknowledgment of an asset that a target gets is its author's.
LEMMA AcknowledgmentIsAgreed ==
    ASSUME NEW t, Made(t), t \in DOMAIN plans, NEW f \in Chosen, NEW e \in EntriesOf(t, f),
           NEW ack \in AcknowledgmentsFor(AssetOf(e), t)
    PROVE  /\ ack \in ToSet(OverlayValue(t, e).acknowledgments)
           /\ ack \in Acknowledged(Ours, DOMAIN plans)
           /\ ack.asset = IdentityAt(e.path) /\ ack.target = t /\ ack.reason \notin Blank
<1> DEFINE a == AssetOf(e)
<1>1. PICK o \in OverlayFor(a, t) : ack \in ToSet(o.acknowledgments)  BY DEF AcknowledgmentsFor
<1>2. o = OverlayAt(tree, e.path, t)  BY <1>1, OverlayOfTarget
<1>3. o.target = t /\ o.acknowledgments = OverlayValue(t, e).acknowledgments  BY <1>2, OverlayValues
<1>4. ValidSourceAsset(a)  BY EntryFacts
<1>5. ValidOverlay(a, o)
  <2>1. PICK i \in DOMAIN a.overlays : o = a.overlays[i]  BY <1>1 DEF OverlayFor
  <2> HIDE DEF a
  <2> QED  BY <1>4, <2>1 DEF ValidSourceAsset
<1>6. PICK i \in DOMAIN o.acknowledgments : o.acknowledgments[i] = ack  BY <1>1 DEF ToSet
<1>7. ValidAcknowledgment(ack) /\ ack.asset = a.identity /\ ack.target = o.target  BY <1>5, <1>6 DEF ValidOverlay
<1>8. a.identity = IdentityAt(e.path)  BY AssetFacts
<1>9. ack \in Acknowledged(Ours, DOMAIN plans)
  <2>1. PackageAt(tree, f) \in ToSet(Ours.packages) /\ a \in ToSet(PackageAt(tree, f).assets)  BY EntryFacts
  <2> HIDE DEF a
  <2> QED  BY <2>1 DEF Acknowledged, a
<1> QED  BY <1>1, <1>3, <1>7, <1>8, <1>9 DEF ValidAcknowledgment

\* What an asset needs is not unsupported, and what is only advised is agreed to.
LEMMA KnownAcknowledgment == Known => LossIsAcknowledged
<1> SUFFICES ASSUME Known, NEW done \in plan, NEW t \in DOMAIN plans, NEW e \in AllEntries(t)
             PROVE  LET needs == DeclaredUses(tree, e.path)
                             \cup (IF KindAt(e.path) = "hook" THEN HookUses(ValueAt(tree, MainFile(e.path))) ELSE {})
                        agreed == {ack \in ToSet(OverlayValue(t, e).acknowledgments) \cap done.provenance.acknowledgments :
                             ack.asset = IdentityAt(e.path) /\ ack.target = t /\ ack.reason \notin Blank}
                    IN  \A key \in needs :
                          /\ StateIn(Codecs[t], key) # "unsupported"
                          /\ "advisory" \in RuleFor(CompositionFor(t), key) \cup {StateIn(Codecs[t], key)} =>
                                \E ack \in agreed : ack.key = key
  BY DEF LossIsAcknowledged
<1> DEFINE needs == DeclaredUses(tree, e.path)
                   \cup (IF KindAt(e.path) = "hook" THEN HookUses(ValueAt(tree, MainFile(e.path))) ELSE {})
           agreed == {ack \in ToSet(OverlayValue(t, e).acknowledgments) \cap done.provenance.acknowledgments :
                   ack.asset = IdentityAt(e.path) /\ ack.target = t /\ ack.reason \notin Blank}
<1>1. Made(t) /\ Selects  BY PlansAreMade DEF Made
<1>2. PICK f \in Chosen : e \in EntriesOf(t, f)  BY DEF AllEntries
<1>3. f \in Manifests /\ e \in Listed[f] /\ AssetAccepted(AssetOf(e), Rules(t))  BY <1>1, <1>2, EntryFacts
<1>4. needs \subseteq Uses(tree, e.path)  BY DEF Uses
<1>5. done.provenance.acknowledgments = Acknowledged(Ours, DOMAIN plans)  BY WherePlanned DEF Provenance
<1>6. AcknowledgmentsFor(AssetOf(e), t) \subseteq agreed  BY <1>1, <1>2, <1>5, AcknowledgmentIsAgreed
<1> HIDE DEF needs, agreed
<1>7. ASSUME NEW key \in needs
      PROVE  /\ StateIn(Codecs[t], key) # "unsupported"
             /\ "advisory" \in RuleFor(CompositionFor(t), key) \cup {StateIn(Codecs[t], key)} =>
                   \E ack \in agreed : ack.key = key
  <2>1. UseAccepted(AssetOf(e), Rules(t), key) /\ Rules(t).target = t
    BY <1>1, <1>3, <1>4, <1>7, UsesOfAsset, RulesFacts DEF AssetAccepted
  <2> DEFINE states == RuleFor(Rules(t), key)
  <2>2. states \in {{"native"}, {"equivalent"}}
        \/ (states = {"advisory"} /\ \E ack \in agreed : ack.key = key)
    BY <1>6, <2>1 DEF UseAccepted
  <2>3. \A s \in states :
           /\ StateIn(Codecs[t], key) = "unsupported" => s = "unsupported"
           /\ StateIn(Codecs[t], key) = "advisory" => s \notin {"native", "equivalent"}
    BY <1>1, RulesNarrow DEF RuleFor
  <2>4. states = RuleFor(CompositionFor(t), key)  BY DEF Rules
  <2> HIDE DEF states
  <2> QED  BY <2>2, <2>3, <2>4
<1> QED  BY <1>7 DEF needs, agreed

\* LossIsAcknowledged: no target gets an asset that it cannot run without an
\* acknowledgment in the provenance (compositionPolicy, validateCapabilities).
THEOREM LossIsAgreed == Spec => []LossIsAcknowledged
  BY KnownAlways, KnownAcknowledgment, PTL

-----------------------------------------------------------------------------
(* What is given to a renderer *)

\* What a target is given of an entry, of the entries of a package, and the package.
AssetIn(t, e) == ComposeAsset(AssetOf(e), Rules(t))
AssetsIn(t, f) == {AssetIn(t, e) : e \in EntriesOf(t, f)}
PackageOf(t, f) == [ComposePackage(Ours, PackageAt(tree, f), Rules(t)) EXCEPT !.metadata = WithVersion(@)]

\* The parts of a composed asset,
LEMMA AssetInFacts ==
    ASSUME NEW t, NEW e
    PROVE  LET a == AssetIn(t, e) IN
           /\ a.identity = IdentityAt(e.path) /\ a.kind = KindAt(e.path)
           /\ a.content = ContentFor(AssetOf(e), Rules(t))
           /\ a.hook = (IF KindAt(e.path) # "hook" THEN {} ELSE {HookAt(tree, e.path)})
           /\ a.native = NativeOptions(tree, e.path) /\ a.uses = AssetOf(e).uses
<1>1. /\ AssetIn(t, e).identity = AssetOf(e).identity /\ AssetIn(t, e).kind = AssetOf(e).kind
      /\ AssetIn(t, e).content = ContentFor(AssetOf(e), Rules(t))
      /\ AssetIn(t, e).hook = AssetOf(e).hook /\ AssetIn(t, e).native = AssetOf(e).native
      /\ AssetIn(t, e).uses = AssetOf(e).uses
  BY DEF AssetIn, ComposeAsset
<1> QED  BY <1>1, AssetFacts

\* of a composed package,
LEMMA PackageOfFacts ==
    ASSUME NEW t, Made(t), NEW f \in Chosen
    PROVE  LET p == PackageOf(t, f) IN
           /\ DOMAIN p = {"identity", "metadata", "target", "profile", "uses", "assets", "acknowledgments"}
           /\ p.identity = ValueAt(tree, f).id /\ p.assets = AssetsIn(t, f)
           /\ p.metadata = WithVersion(ValueAt(tree, f).metadata)
           /\ p.profile = (IF Rules(t).profile = "" THEN "project" ELSE Rules(t).profile)
<1> DEFINE src == PackageAt(tree, f)
           p == ComposePackage(Ours, src, Rules(t))
<1>1. Selects /\ Rules(t).target = t  BY RulesFacts DEF Made
<1>2. /\ DOMAIN p = {"identity", "metadata", "target", "profile", "uses", "assets", "acknowledgments"}
      /\ p.identity = src.identity /\ p.metadata = src.metadata
      /\ p.profile = (IF Rules(t).profile = "" THEN "project" ELSE Rules(t).profile)
      /\ p.assets = {ComposeAsset(a, Rules(t)) : a \in Included(Ours, src, Rules(t))}
  BY DEF ComposePackage
<1>3. p.assets = AssetsIn(t, f)
  <2>1. Included(Ours, src, Rules(t)) = {AssetOf(e) : e \in EntriesOf(t, f)}  BY <1>1, IncludedAreEntries
  <2> HIDE DEF src, p
  <2> QED  BY <1>2, <2>1 DEF AssetsIn, AssetIn
<1>4. src.identity = ValueAt(tree, f).id /\ src.metadata = ValueAt(tree, f).metadata  BY DEF PackageAt
<1>5. PackageOf(t, f) = [p EXCEPT !.metadata = WithVersion(@)]  BY DEF PackageOf
<1> HIDE DEF p, src
<1> DEFINE made == PackageOf(t, f)
<1>6. DOMAIN made = {"identity", "metadata", "target", "profile", "uses", "assets", "acknowledgments"}
  BY <1>2, <1>5
<1>7. made.identity = p.identity /\ made.assets = p.assets /\ made.profile = p.profile  BY <1>2, <1>5
<1>8. made.metadata = WithVersion(p.metadata)  BY <1>2, <1>5
<1> HIDE DEF made
<1>9. made.metadata = WithVersion(ValueAt(tree, f).metadata)  BY <1>2, <1>4, <1>8
<1> QED  BY <1>2, <1>3, <1>4, <1>6, <1>7, <1>9 DEF made

\* and of the input of a renderer.
LEMMA InFacts ==
    ASSUME NEW t, Made(t)
    PROVE  /\ InFor(t).packages = {PackageOf(t, f) : f \in Chosen}
           /\ InFor(t).mode = (IF Rules(t).mode = "" THEN "separate" ELSE Rules(t).mode)
           /\ InFor(t).mode = "aggregate" <=> Aggregated(t)
           /\ InFor(t).aggregate = {[a EXCEPT !.metadata = WithVersion(@)] : a \in Rules(t).aggregate}
           /\ InFor(t).distribution = manifest.distribution
           /\ DOMAIN InFor(t) = {"packages", "mode", "aggregate", "distribution"}
<1> DEFINE composed == Compose(Ours, Rules(t))
<1>1. /\ InFor(t).packages = {[p EXCEPT !.metadata = WithVersion(@)] : p \in composed}
      /\ InFor(t).mode = (IF Rules(t).mode = "" THEN "separate" ELSE Rules(t).mode)
      /\ InFor(t).aggregate = {[a EXCEPT !.metadata = WithVersion(@)] : a \in Rules(t).aggregate}
      /\ InFor(t).distribution = manifest.distribution
      /\ DOMAIN InFor(t) = {"packages", "mode", "aggregate", "distribution"}
  BY DEF InFor, RenderInput, Rules
<1>2. composed = {ComposePackage(Ours, PackageAt(tree, f), Rules(t)) : f \in Chosen}
  <2>1. ToSet(Ours.packages) = {PackageAt(tree, f) : f \in Chosen}  BY OursFacts DEF Made
  <2> QED  BY <2>1 DEF Compose
<1> HIDE DEF composed
<1>3. InFor(t).packages = {PackageOf(t, f) : f \in Chosen}
  <2> DEFINE made(f) == ComposePackage(Ours, PackageAt(tree, f), Rules(t))
  <2>1. \A f : PackageOf(t, f) = [made(f) EXCEPT !.metadata = WithVersion(@)]  BY DEF PackageOf
  <2>2. composed = {made(f) : f \in Chosen}  BY <1>2
  <2>3. {[p EXCEPT !.metadata = WithVersion(@)] : p \in composed} = {[made(f) EXCEPT !.metadata = WithVersion(@)] : f \in Chosen}
    <3> HIDE DEF made
    <3> QED  BY <2>2
  <2>4. {[made(f) EXCEPT !.metadata = WithVersion(@)] : f \in Chosen} = {PackageOf(t, f) : f \in Chosen}
    <3> HIDE DEF made
    <3> QED  BY <2>1
  <2> QED  BY <1>1, <2>3, <2>4
<1>4. InFor(t).mode = "aggregate" <=> Aggregated(t)  BY <1>1 DEF Aggregated, Rules
<1> QED  BY <1>1, <1>3, <1>4

\* The entries of a package have identities of their own, and so do packages.
LEMMA EntriesApart ==
    ASSUME NEW t, Made(t), NEW f \in Chosen, NEW g \in Chosen
    PROVE  /\ \A e, d \in EntriesOf(t, f) : AssetIn(t, e).identity = AssetIn(t, d).identity => e = d
           /\ PackageOf(t, f).identity = PackageOf(t, g).identity => f = g
<1>1. Selects  BY DEF Made
<1>2. f \in Manifests /\ g \in Manifests  BY <1>1, RequestFacts
<1>3. EntriesOf(t, f) \subseteq Listed[f]  BY <1>1, <1>2, RequestFacts DEF EntriesOf
<1>4. \A e, d \in EntriesOf(t, f) : AssetIn(t, e).identity = AssetIn(t, d).identity => e = d
  <2> SUFFICES ASSUME NEW e \in EntriesOf(t, f), NEW d \in EntriesOf(t, f), AssetIn(t, e).identity = AssetIn(t, d).identity
               PROVE  e = d
    OBVIOUS
  <2>1. IdentityAt(e.path) = IdentityAt(d.path)  BY AssetInFacts
  <2> QED  BY <1>1, <1>2, <1>3, <2>1, ListedFacts
<1>5. PackageOf(t, f).identity = PackageOf(t, g).identity => f = g
  <2>1. PackageOf(t, f).identity = ValueAt(tree, f).id /\ PackageOf(t, g).identity = ValueAt(tree, g).id
    BY PackageOfFacts
  <2> QED  BY <1>1, <1>2, <2>1, RequestFacts
<1> QED  BY <1>4, <1>5

-----------------------------------------------------------------------------
(* Contents *)

\* Paths of files are sequences, whatever they come from.
LEMMA FilesAreSequences ==
    ASSUME NEW T, WellFormedTree(T), NEW root, IsSequence(root), NEW rel \in Entries(T, root)
    PROVE  IsSequence(rel) /\ rel # <<>> /\ root \o rel \in DOMAIN T
<1>1. PICK q \in DOMAIN T : IsStrictPrefix(root, q) /\ rel = Relative(root, q)  BY DEF Entries
<1>2. IsSequence(q)  BY DEF WellFormedTree
<1>3. IsPrefix(root, q) /\ root # q  BY <1>1 DEF IsStrictPrefix
<1> QED  BY <1>1, <1>2, <1>3, PrefixSplits

\* Where the overlays of an asset are.
LEMMA SidecarPaths ==
    ASSUME NEW T, NEW path, IsSequence(path), path # <<>>, Classifies(path), NEW t
    PROVE  IsSequence(OverlayRoot(T, path)) /\ IsSequence(OverlayFiles(T, path, t)) /\ IsSequence(OverlayFile(T, path, t))
<1>1. \A dir : IsSequence(dir) /\ dir # <<>> => IsSequence(Sidecar(dir))
  <2> SUFFICES ASSUME NEW dir, IsSequence(dir), dir # <<>> PROVE IsSequence(Sidecar(dir))
    OBVIOUS
  <2>1. IsSequence(Front(dir))  BY FrontFacts
  <2> QED  BY <2>1, OneMore DEF Sidecar
<1>2. IsSequence(Front(path)) /\ Len(Front(path)) = Len(path) - 1  BY FrontFacts
<1>3. Len(path) \in Nat /\ Len(path) >= 2
  <2>1. Len(Parts(path)) \in {2, 3}  BY DEF Classifies, HasParts, NativePath
  <2>2. Len(path) \in Nat  BY SequenceFacts
  <2>3. CASE Len(path) >= 2 /\ path[1] = "src"  BY <2>2, <2>3
  <2>4. CASE ~(Len(path) >= 2 /\ path[1] = "src")
    <3>1. Parts(path) = path  BY <2>4 DEF Parts
    <3> QED  BY <2>1, <2>2, <3>1
  <2> QED  BY <2>3, <2>4
<1>4. Front(path) # <<>>  BY <1>2, <1>3, SequenceFacts
<1>5. IsSequence(OverlayRoot(T, path))
  <2>1. IsSequence(Sidecar(Front(path))) /\ IsSequence(Sidecar(path))  BY <1>1, <1>2, <1>4
  <2> QED  BY <2>1, OneMore DEF OverlayRoot
<1>6. IsSequence(<<t, "files">>)  BY Singles
<1> QED  BY <1>5, <1>6, OneMore, Joined DEF OverlayFiles, OverlayFile

\* A target that the sidecar does not name has no overlay.
LEMMA OverlayNeedsPlace ==
    ASSUME Selects, NEW f \in Manifests, NEW e \in Listed[f], NEW t \in DOMAIN Codecs, t \notin OverlayTargets(tree, e.path)
    PROVE  OverlayValue(t, e) = NoOverlay /\ Brought(t, e) = {}
<1> DEFINE root == OverlayRoot(tree, e.path)
           dir == OverlayFiles(tree, e.path, t)
<1>1. WellFormedTree(tree) /\ IsSequence(e.path) /\ e.path # <<>> /\ Classifies(e.path)
  BY RequestFacts, ListedFacts DEF AssetImports
<1>2. t \in BundleTargets  BY DEF Codecs, BundleTargets, Targets
<1>3. ~IsFile(tree, OverlayFile(tree, e.path, t)) /\ ~IsDir(tree, root \o <<t>>)  BY <1>2 DEF OverlayTargets
<1>4. IsSequence(dir) /\ IsSequence(root)  BY <1>1, SidecarPaths
<1>5. IsSequence(root \o <<t>>) /\ dir = (root \o <<t>>) \o <<"files">>
  <2>1. <<t>> \o <<"files">> = <<t, "files">>
    <3>1. IsSequence(<<t>>) /\ Len(<<t>>) = 1 /\ IsSequence(<<"files">>) /\ Len(<<"files">>) = 1
          /\ <<t>>[1] = t /\ <<"files">>[1] = "files"  BY Singles
    <3>2. IsSequence(<<t>> \o <<"files">>) /\ Len(<<t>> \o <<"files">>) = 2
          /\ (<<t>> \o <<"files">>)[1] = t /\ (<<t>> \o <<"files">>)[1 + 1] = "files"
      BY <3>1, Joined
    <3>3. IsSequence(<<t, "files">>) /\ Len(<<t, "files">>) = 2 /\ <<t, "files">>[1] = t /\ <<t, "files">>[2] = "files"
      BY Singles
    <3>4. \A i \in 1..2 : (<<t>> \o <<"files">>)[i] = <<t, "files">>[i]  BY <3>2, <3>3
    <3> QED  BY <3>2, <3>3, <3>4, SequencesEqual
  <2>2. IsSequence(<<t>>) /\ IsSequence(<<"files">>)  BY Singles
  <2> HIDE DEF root
  <2>3. (root \o <<t>>) \o <<"files">> = root \o (<<t>> \o <<"files">>)  BY <1>4, <2>2, JoinedTwice
  <2>4. dir = root \o <<t, "files">>  BY DEF OverlayFiles, root
  <2> QED  BY <1>4, <2>1, <2>2, <2>3, <2>4, Joined
<1>6. Brought(t, e) = {}
  <2> SUFFICES ASSUME NEW rel \in Brought(t, e) PROVE FALSE
    OBVIOUS
  <2>1. PICK q \in DOMAIN tree : IsStrictPrefix(dir, q)  BY DEF Brought, Files, Entries
  <2>2. IsSequence(q)  BY <1>1 DEF WellFormedTree
  <2>3. IsPrefix(dir, q) /\ dir # q  BY <2>1 DEF IsStrictPrefix
  <2>4. IsPrefix(root \o <<t>>, q) /\ root \o <<t>> # q
    <3> DEFINE p == root \o <<t>>
               r == Relative(dir, q)
    <3>1. IsSequence(r) /\ q = dir \o r  BY <1>4, <2>2, <2>3, PrefixSplits
    <3>2. IsSequence(p) /\ dir = p \o <<"files">> /\ IsSequence(<<"files">>)  BY <1>5, Singles
    <3> HIDE DEF p, r, dir, root
    <3>3. q = p \o (<<"files">> \o r)  BY <3>1, <3>2, JoinedTwice
    <3>4. IsSequence(<<"files">> \o r) /\ Len(<<"files">> \o r) = Len(<<"files">>) + Len(r)  BY <3>1, <3>2, Joined
    <3>5. Len(r) \in Nat /\ Len(<<"files">>) = 1  BY <3>1, SequenceFacts
    <3>6. <<"files">> \o r # <<>>  BY <3>4, <3>5, SequenceFacts
    <3>7. IsStrictPrefix(p, q)  BY <3>2, <3>3, <3>4, <3>6, PrefixOfJoined
    <3> QED  BY <3>7 DEF IsStrictPrefix, p
  <2>5. IsDir(tree, root \o <<t>>)  BY <2>4 DEF IsDir, IsStrictPrefix
  <2> QED  BY <1>3, <2>5
<1> QED  BY <1>3, <1>6 DEF OverlayValue

\* An overlay that there is was decoded.
LEMMA DecodedOverlay ==
    ASSUME Selects, NEW f \in Manifests, NEW e \in Listed[f], NEW t \in DOMAIN Codecs,
           IsFile(tree, OverlayFile(tree, e.path, t))
    PROVE  WellFormedOverlay(ValueAt(tree, OverlayFile(tree, e.path, t)))
<1> DEFINE file == OverlayFile(tree, e.path, t)
           root == OverlayRoot(tree, e.path)
<1>1. WellFormedTree(tree) /\ IsSequence(e.path) /\ e.path # <<>> /\ AssetImports(tree, e.path)
  BY RequestFacts, ListedFacts
<1>2. IsSequence(file) /\ IsSequence(root)  BY <1>1, SidecarPaths DEF AssetImports
<1>3. file \in DOMAIN tree /\ tree[file].kind = "file" /\ WellFormedData(tree[file].data)
  BY <1>1 DEF IsFile, WellFormedTree
<1>4. IsPrefix(root, file)
  <2>1. IsSequence(<<t \o ".json">>)  BY Singles
  <2> HIDE DEF root
  <2>2. IsPrefix(root, root \o <<t \o ".json">>)  BY <1>2, <2>1, PrefixOfJoined
  <2> QED  BY <2>2 DEF OverlayFile, root
<1>5. ~Absent(tree, root)  BY <1>3, <1>4 DEF Absent
<1>6. t \in OverlayTargets(tree, e.path)  BY DEF OverlayTargets, Codecs, BundleTargets, Targets
<1>7. DecodesIfThere(tree, file, "overlay")  BY <1>1, <1>5, <1>6 DEF AssetImports, OverlaysFit, OverlayFits
<1>8. IsPrefix(file, file)  BY <1>2 DEF IsPrefix
<1>9. ~Absent(tree, file)  BY <1>3, <1>8 DEF Absent
<1>10. tree[file].data.form = "overlay"  BY <1>7, <1>9 DEF DecodesIfThere, Decodes
<1> QED  BY <1>3, <1>10 DEF WellFormedData, ValueAt

\* What a target's overlay brings.
Own(t, e) ==
    OverlayContent(OverlayValue(t, e).files, ContentOf(tree, OverlayFiles(tree, e.path, t), Brought(t, e)))

\* What an overlay brings is in its directory, or inline where that has nothing.
LEMMA OwnFacts ==
    ASSUME Selects, NEW f \in Manifests, NEW e \in Listed[f], NEW t \in DOMAIN Codecs
    PROVE  /\ DOMAIN Own(t, e) = Brought(t, e) \cup DOMAIN OverlayValue(t, e).files
           /\ \A p \in Brought(t, e) : Own(t, e)[p] = tree[OverlayFiles(tree, e.path, t) \o p].data
           /\ \A p \in DOMAIN Own(t, e) \ Brought(t, e) : Own(t, e)[p] = OverlayValue(t, e).files[p]
           /\ IsFiniteSet(DOMAIN Own(t, e)) /\ \A p \in DOMAIN Own(t, e) : IsSequence(p)
<1> DEFINE dir == OverlayFiles(tree, e.path, t)
           inline == OverlayValue(t, e).files
           found == ContentOf(tree, dir, Brought(t, e))
<1>1. WellFormedTree(tree) /\ IsSequence(e.path) /\ e.path # <<>> /\ AssetImports(tree, e.path)
  BY RequestFacts, ListedFacts
<1>2. IsSequence(dir)  BY <1>1, SidecarPaths DEF AssetImports
<1>3. DOMAIN found = Brought(t, e) /\ \A p \in Brought(t, e) : found[p] = tree[dir \o p].data  BY DEF ContentOf
<1>4. Own(t, e) = found ++ inline  BY DEF Own, OverlayContent
<1>5. IsFiniteSet(DOMAIN inline) /\ \A p \in DOMAIN inline : IsSequence(p)
  <2>1. CASE IsFile(tree, OverlayFile(tree, e.path, t))
    BY <2>1, DecodedOverlay DEF OverlayValue, WellFormedOverlay
  <2>2. CASE ~IsFile(tree, OverlayFile(tree, e.path, t))
    <3>1. DOMAIN inline = {}  BY <2>2 DEF OverlayValue, NoOverlay
    <3> QED  BY <3>1, FS_EmptySet
  <2> QED  BY <2>1, <2>2
<1>6. IsFiniteSet(Brought(t, e)) /\ \A p \in Brought(t, e) : IsSequence(p)
  <2> DEFINE rel == [q \in DOMAIN tree |-> Relative(dir, q)]
  <2>1. IsFiniteSet({rel[q] : q \in DOMAIN tree})
    <3>1. rel = [q \in DOMAIN tree |-> rel[q]]  OBVIOUS
    <3>2. IsFiniteSet(DOMAIN tree)  BY <1>1 DEF WellFormedTree
    <3> HIDE DEF rel
    <3> QED  BY <3>1, <3>2, FiniteImage
  <2>2. Brought(t, e) \subseteq {rel[q] : q \in DOMAIN tree}
    <3>1. Brought(t, e) \subseteq Entries(tree, dir)  BY DEF Brought, Files
    <3>2. Entries(tree, dir) \subseteq {rel[q] : q \in DOMAIN tree}  BY DEF Entries
    <3> QED  BY <3>1, <3>2
  <2>3. \A p \in Brought(t, e) : p \in Entries(tree, dir)  BY DEF Brought, Files
  <2>4. \A p \in Brought(t, e) : IsSequence(p)  BY <1>1, <1>2, <2>3, FilesAreSequences
  <2> HIDE DEF rel
  <2> QED  BY <2>1, <2>2, <2>4, FS_Subset
<1> HIDE DEF found, inline
<1>7. DOMAIN Own(t, e) = DOMAIN found \cup DOMAIN inline
      /\ (\A p \in DOMAIN found : Own(t, e)[p] = found[p])
      /\ \A p \in DOMAIN inline \ DOMAIN found : Own(t, e)[p] = inline[p]
  <2>1. DOMAIN (found ++ inline) = DOMAIN found \cup DOMAIN inline
        /\ (\A p \in DOMAIN found : (found ++ inline)[p] = found[p])
        /\ \A p \in DOMAIN inline \ DOMAIN found : (found ++ inline)[p] = inline[p]
    BY BothFacts
  <2> QED  BY <1>4, <2>1
<1>8. IsFiniteSet(DOMAIN found \cup DOMAIN inline)  BY <1>3, <1>5, <1>6, FS_Union
<1> QED  BY <1>3, <1>5, <1>6, <1>7, <1>8 DEF inline

\* The files of an asset's own, before any overlay.
LEMMA BaseFiles ==
    ASSUME Selects, NEW f \in Manifests, NEW e \in Listed[f]
    PROVE  LET base == AssetContent(tree, e.path).files IN
           /\ \A p \in DOMAIN base : IsSequence(p)
           /\ \A p \in DOMAIN base : base[p] \in
                 {tree[e.path \o rel].data : rel \in Files(tree, e.path) \cup {x \in {<<>>} : IsFile(tree, e.path)}}
           /\ ~(KindAt(e.path) = "native-resource" /\ IsFile(tree, e.path)) =>
                 DOMAIN base = SupportFiles(tree, e.path) /\ \A p \in DOMAIN base : base[p] = tree[e.path \o p].data
<1> DEFINE base == AssetContent(tree, e.path).files
           alone == KindAt(e.path) = "native-resource" /\ IsFile(tree, e.path)
<1>1. WellFormedTree(tree) /\ IsSequence(e.path) /\ e.path # <<>>  BY RequestFacts, ListedFacts
<1>2. base = IF alone THEN [rel \in {<<Last(e.path)>>} |-> tree[e.path].data]
                      ELSE ContentOf(tree, e.path, SupportFiles(tree, e.path))
  BY DEF AssetContent
<1>3. CASE alone
  <2>1. DOMAIN base = {<<Last(e.path)>>} /\ \A p \in DOMAIN base : base[p] = tree[e.path].data  BY <1>2, <1>3
  <2>2. e.path \o <<>> = e.path  BY <1>1, JoinedEmpty
  <2>3. tree[e.path].data \in {tree[e.path \o rel].data : rel \in Files(tree, e.path) \cup {x \in {<<>>} : IsFile(tree, e.path)}}
    BY <1>3, <2>2
  <2>4. IsSequence(<<Last(e.path)>>)  BY Singles
  <2> HIDE DEF base
  <2> QED  BY <1>3, <2>1, <2>3, <2>4 DEF base
<1>4. CASE ~alone
  <2>1. DOMAIN base = SupportFiles(tree, e.path) /\ \A p \in DOMAIN base : base[p] = tree[e.path \o p].data
    BY <1>2, <1>4 DEF ContentOf
  <2>2. SupportFiles(tree, e.path) \subseteq Files(tree, e.path) /\ Files(tree, e.path) \subseteq Entries(tree, e.path)
    BY FilesAreFiles DEF Files
  <2>3. \A p \in DOMAIN base : IsSequence(p)
    <3> HIDE DEF base
    <3> QED  BY <1>1, <2>1, <2>2, FilesAreSequences
  <2> HIDE DEF base
  <2> QED  BY <1>4, <2>1, <2>2, <2>3 DEF base
<1> QED  BY <1>3, <1>4

\* Files as a target's overlay leaves them.
Overlaid(t, e, files, applied) ==
    /\ DOMAIN applied = (DOMAIN files \ ToSet(OverlayValue(t, e).deletedFiles)) \cup DOMAIN Own(t, e)
    /\ \A p \in DOMAIN Own(t, e) : applied[p] = Own(t, e)[p]
    /\ \A p \in DOMAIN applied \ DOMAIN Own(t, e) : applied[p] = files[p]

\* Applying an overlay deletes and brings what it says.
LEMMA ApplyFilesFacts ==
    ASSUME Selects, NEW f \in Manifests, NEW e \in Listed[f], NEW t \in DOMAIN Codecs, NEW files,
           NEW applied, applied = ApplyFiles(files, OverlayAt(tree, e.path, t))
    PROVE  Overlaid(t, e, files, applied)
<1> DEFINE o == OverlayAt(tree, e.path, t)
           own == Own(t, e)
           item(p) == [path |-> p, content |-> own[p]]
           items == {item(p) : p \in DOMAIN own}
           brought == {x.path : x \in ToSet(o.files)}
           kept == DOMAIN files \ ToSet(o.deletedFiles)
<1>1. o.files = SetToSeq(items)  BY DEF OverlayAt, Own, OverlayValue, Brought
<1>2. IsFiniteSet(items)
  <2> DEFINE each == [p \in DOMAIN own |-> item(p)]
  <2>1. IsFiniteSet(DOMAIN own)  BY OwnFacts
  <2>2. each = [p \in DOMAIN own |-> each[p]] /\ {each[p] : p \in DOMAIN own} = items  OBVIOUS
  <2> HIDE DEF each, own
  <2>3. IsFiniteSet({each[p] : p \in DOMAIN own})  BY <2>1, <2>2, FiniteImage
  <2> QED  BY <2>2, <2>3
<1> HIDE DEF items
<1>3. ToSet(o.files) = items  BY <1>1, <1>2, SetToSeqFacts
<1> HIDE DEF own, o
<1>4. brought = DOMAIN own
  <2>1. \A p \in DOMAIN own : item(p) \in items /\ item(p).path = p  BY DEF items
  <2>2. \A x \in items : x.path \in DOMAIN own  BY DEF items
  <2> QED  BY <1>3, <2>1, <2>2
<1>5. ASSUME NEW p \in DOMAIN own PROVE (CHOOSE x \in ToSet(o.files) : x.path = p).content = own[p]
  <2>1. item(p) \in ToSet(o.files) /\ item(p).path = p  BY <1>3 DEF items
  <2>2. \A x \in ToSet(o.files) : x.path = p => x.content = own[p]  BY <1>3 DEF items
  <2> HIDE DEF item
  <2> QED  BY <2>1, <2>2
<1>6. ApplyFiles(files, o) = [p \in kept \cup brought |->
            IF p \in brought THEN (CHOOSE x \in ToSet(o.files) : x.path = p).content ELSE files[p]]
  BY DEF ApplyFiles
<1>7. o.deletedFiles = OverlayValue(t, e).deletedFiles  BY OverlayValues DEF o
<1> HIDE DEF brought, kept
<1>8. DOMAIN applied = kept \cup brought  BY <1>6 DEF o
<1>9. \A p \in kept \cup brought : applied[p] = IF p \in brought THEN (CHOOSE x \in ToSet(o.files) : x.path = p).content ELSE files[p]
  BY <1>6 DEF o
<1>10. \A p \in DOMAIN own : applied[p] = own[p]  BY <1>4, <1>5, <1>9
<1>11. \A p \in DOMAIN applied \ DOMAIN own : applied[p] = files[p]  BY <1>4, <1>8, <1>9
<1>12. DOMAIN applied = (DOMAIN files \ ToSet(OverlayValue(t, e).deletedFiles)) \cup DOMAIN own
  BY <1>4, <1>7, <1>8 DEF kept
<1> QED  BY <1>10, <1>11, <1>12 DEF Overlaid, own

\* What a target gets of an asset: its own files, but for those that the
\* target's overlay deletes or brings.
LEMMA ContentFiles ==
    ASSUME NEW t, Made(t), NEW f \in Manifests, NEW e \in Listed[f]
    PROVE  /\ Overlaid(t, e, AssetContent(tree, e.path).files, AssetIn(t, e).content.files)
           /\ \A p \in DOMAIN AssetIn(t, e).content.files : IsSequence(p)
<1> DEFINE files == AssetIn(t, e).content.files
           base == AssetContent(tree, e.path)
           overlay == OverlayFor(AssetOf(e), t)
           content == IF overlay = {} THEN base ELSE ApplyOverlay(base, CHOOSE o \in overlay : TRUE)
<1>1. Selects /\ t \in DOMAIN Codecs /\ Rules(t).target = t  BY RulesFacts DEF Made
<1>2. AssetIn(t, e).content = ContentFor(AssetOf(e), Rules(t)) /\ AssetOf(e).base = base  BY AssetInFacts, AssetFacts
<1>3. DOMAIN content = {"frontmatter", "body", "files"}
  <2>1. DOMAIN base = {"frontmatter", "body", "files"}  BY DEF AssetContent
  <2>2. \A o : DOMAIN ApplyOverlay(base, o) = {"frontmatter", "body", "files"}  BY DEF ApplyOverlay
  <2> QED  BY <2>1, <2>2
<1>4. files = content.files
  <2>1. \/ ContentFor(AssetOf(e), Rules(t)) = content
        \/ \E b : ContentFor(AssetOf(e), Rules(t)) = [content EXCEPT !.body = b]
    <3>1. ContentFor(AssetOf(e), Rules(t)) =
             IF AssetOf(e).kind = "skill" /\ Rules(t).preamble # {}
             THEN [content EXCEPT !.body = JoinPreamble(CHOOSE p \in Rules(t).preamble : TRUE, @)]
             ELSE content
      BY <1>1, <1>2 DEF ContentFor
    <3> HIDE DEF content
    <3> QED  BY <3>1
  <2> HIDE DEF content
  <2> QED  BY <1>2, <1>3, <2>1
<1>5. CASE t \in OverlayTargets(tree, e.path)
  <2>1. overlay = {OverlayAt(tree, e.path, t)}  BY <1>5, OverlayOfTarget
  <2>2. content = ApplyOverlay(base, OverlayAt(tree, e.path, t))  BY <2>1
  <2>3. content.files = ApplyFiles(base.files, OverlayAt(tree, e.path, t))  BY <2>2 DEF ApplyOverlay
  <2> DEFINE given == base.files
  <2>9. files = ApplyFiles(given, OverlayAt(tree, e.path, t))  BY <1>4, <2>3
  <2> HIDE DEF given, files
  <2>10. Overlaid(t, e, given, files)
    BY <1>1, <2>9, ApplyFilesFacts
  <2> HIDE DEF base, content
  <2>4. /\ DOMAIN files = (DOMAIN base.files \ ToSet(OverlayValue(t, e).deletedFiles)) \cup DOMAIN Own(t, e)
        /\ \A p \in DOMAIN Own(t, e) : files[p] = Own(t, e)[p]
        /\ \A p \in DOMAIN files \ DOMAIN Own(t, e) : files[p] = base.files[p]
    BY <2>10 DEF given, Overlaid
  <2>5. \A p \in DOMAIN base.files : IsSequence(p)  BY <1>1, BaseFiles DEF base
  <2>6. \A p \in DOMAIN Own(t, e) : IsSequence(p)  BY <1>1, OwnFacts
  <2> QED  BY <2>4, <2>5, <2>6 DEF Overlaid, base, files
<1>6. CASE t \notin OverlayTargets(tree, e.path)
  <2>1. overlay = {}  BY <1>6, OverlayOfTarget
  <2>2. content = base  BY <2>1
  <2>3. OverlayValue(t, e) = NoOverlay /\ Brought(t, e) = {}  BY <1>1, <1>6, OverlayNeedsPlace
  <2>4. ToSet(OverlayValue(t, e).deletedFiles) = {} /\ DOMAIN OverlayValue(t, e).files = {}
    BY <2>3 DEF NoOverlay, ToSet
  <2>5. DOMAIN Own(t, e) = {}  BY <1>1, <2>3, <2>4, OwnFacts
  <2>6. \A p \in DOMAIN base.files : IsSequence(p)  BY <1>1, BaseFiles
  <2> HIDE DEF base, content, files
  <2> QED  BY <1>4, <2>2, <2>4, <2>5, <2>6 DEF Overlaid, base, files
<1> QED  BY <1>5, <1>6

-----------------------------------------------------------------------------
(* Where the files of an asset are rendered *)

\* Short sequences, joined.
LEMMA OneOf ==
    ASSUME NEW a, NEW b, NEW c
    PROVE  /\ <<a>> \o <<b>> = <<a, b>> /\ <<a, b>> \o <<c>> = <<a, b, c>>
<1>1. IsSequence(<<a>>) /\ IsSequence(<<a, b>>) /\ IsSequence(<<a, b, c>>) /\ IsSequence(<<b>>) /\ IsSequence(<<c>>)
  BY Singles
<1>2. Len(<<a>>) = 1 /\ Len(<<b>>) = 1 /\ Len(<<c>>) = 1 /\ Len(<<a, b>>) = 2 /\ Len(<<a, b, c>>) = 3  OBVIOUS
<1>3. IsSequence(<<a>> \o <<b>>) /\ Len(<<a>> \o <<b>>) = 2
      /\ (<<a>> \o <<b>>)[1] = a /\ (<<a>> \o <<b>>)[1 + 1] = b
  BY <1>1, <1>2, Joined
<1>4. \A i \in 1..2 : (<<a>> \o <<b>>)[i] = <<a, b>>[i]  BY <1>3
<1>5. IsSequence(<<a, b>> \o <<c>>) /\ Len(<<a, b>> \o <<c>>) = 3
      /\ (<<a, b>> \o <<c>>)[1] = a /\ (<<a, b>> \o <<c>>)[2] = b /\ (<<a, b>> \o <<c>>)[2 + 1] = c
  BY <1>1, <1>2, Joined
<1>6. \A i \in 1..3 : (<<a, b>> \o <<c>>)[i] = <<a, b, c>>[i]  BY <1>5
<1> QED  BY <1>1, <1>2, <1>3, <1>4, <1>5, <1>6, SequencesEqual

\* The same as Singles, for all elements.
LEMMA Segments ==
    /\ IsSequence(<<>>)
    /\ \A a : IsSequence(<<a>>)
    /\ \A a, b : IsSequence(<<a, b>>)
    /\ \A a, b, c : IsSequence(<<a, b, c>>)
  BY Singles

\* The paths that a codec names.
PathsFit(codec) ==
    /\ IsSequence(codec.manifest) /\ IsSequence(codec.hooks)
    /\ \A r \in codec.payloads \cup codec.commands \cup codec.catalog : IsSequence(r)
    /\ \A r \in codec.agents : IsSequence(r.root)

\* Every codec names paths.
LEMMA CodecPaths ==
    /\ \A t \in DOMAIN Codecs : PathsFit(Codecs[t])
    /\ PathsFit(PiSeparate) /\ PathsFit(PiAggregate)
<1>1. \A t \in DOMAIN Codecs : t \in {"claude", "codex", "copilot", "cursor", "grok", "antigravity", "pi"}  BY DEF Codecs
<1>2. PathsFit(Claude)  BY Segments DEF PathsFit, Claude
<1>3. PathsFit(Codex)  BY Segments DEF PathsFit, Codex
<1>4. PathsFit(Copilot)  BY Segments DEF PathsFit, Copilot
<1>5. PathsFit(Cursor)  BY Segments DEF PathsFit, Cursor
<1>6. PathsFit(Grok)  BY Segments DEF PathsFit, Grok
<1>7. PathsFit(Antigravity)  BY Segments DEF PathsFit, Antigravity
<1>8. PathsFit(PiSeparate)  BY Segments DEF PathsFit, PiSeparate
<1>9. PathsFit(PiAggregate)  BY Segments DEF PathsFit, PiAggregate, PiSeparate
<1> QED  BY <1>1, <1>2, <1>3, <1>4, <1>5, <1>6, <1>7, <1>8, <1>9 DEF Codecs

\* Files rendered below a root,
LEMMA BelowFacts ==
    ASSUME NEW root, IsSequence(root), NEW files, \A q \in DOMAIN files : IsSequence(q)
    PROVE  /\ DOMAIN Below(root, files) = {root \o q : q \in DOMAIN files}
           /\ \A q \in DOMAIN files : Below(root, files)[root \o q] = Payload(files[q])
<1>1. \A q \in DOMAIN files : SubSeq(root \o q, Len(root) + 1, Len(root \o q)) = q  BY Joined
<1> QED  BY <1>1 DEF Below

\* and parts moved below one.
LEMMA RootedFacts ==
    ASSUME NEW root, IsSequence(root), NEW files, \A q \in DOMAIN files : IsSequence(q)
    PROVE  /\ DOMAIN Rooted(root, files) = {root \o q : q \in DOMAIN files}
           /\ \A q \in DOMAIN files : Rooted(root, files)[root \o q] = files[q]
<1>1. \A q \in DOMAIN files : SubSeq(root \o q, Len(root) + 1, Len(root \o q)) = q  BY Joined
<1> QED  BY <1>1 DEF Rooted

\* A part that renders an asset: its files below a root, and its text.
Renders(part, root, a) ==
    /\ IsSequence(root) /\ \A x \in DOMAIN part : IsSequence(x)
    /\ a.kind # "agent" => \A q \in DOMAIN a.content.files :
          root \o q \in DOMAIN part /\ part[root \o q] = Payload(a.content.files[q])
    /\ \A x \in DOMAIN part :
          part[x].form = "markdown" \/ \E q \in DOMAIN a.content.files : part[x] = Payload(a.content.files[q])
    /\ a.kind = "skill" =>
          /\ root \o <<"SKILL.md">> \in DOMAIN part /\ part[root \o <<"SKILL.md">>] = Markdown(a.content)
          /\ root # <<>> /\ Last(root) = a.identity[2]

\* An asset that only has files is rendered by those below a root,
LEMMA FilesBelow ==
    ASSUME NEW root, IsSequence(root), NEW a, a.kind \notin {"skill"}, \A q \in DOMAIN a.content.files : IsSequence(q)
    PROVE  Renders(Below(root, a.content.files), root, a)
<1> DEFINE files == a.content.files
           part == Below(root, files)
<1>1. DOMAIN part = {root \o q : q \in DOMAIN files} /\ \A q \in DOMAIN files : part[root \o q] = Payload(files[q])
  BY BelowFacts
<1> HIDE DEF part
<1>2. \A x \in DOMAIN part : IsSequence(x)
  <2>1. \A q \in DOMAIN files : IsSequence(root \o q)  BY Joined
  <2> QED  BY <1>1, <2>1
<1> QED  BY <1>1, <1>2 DEF Renders, part

\* a skill by its text as well,
LEMMA SkillBelow ==
    ASSUME NEW root, IsSequence(root), NEW a, \A q \in DOMAIN a.content.files : IsSequence(q),
           <<"SKILL.md">> \notin DOMAIN a.content.files, root # <<>>, Last(root) = a.identity[2]
    PROVE  Renders(At(root \o <<"SKILL.md">>, Markdown(a.content)) ++ Below(root, a.content.files), root, a)
<1> DEFINE files == a.content.files
           below == Below(root, files)
           main == root \o <<"SKILL.md">>
           first == At(main, Markdown(a.content))
           part == first ++ below
<1>1. DOMAIN below = {root \o q : q \in DOMAIN files} /\ \A q \in DOMAIN files : below[root \o q] = Payload(files[q])
  BY BelowFacts
<1>2. DOMAIN first = {main} /\ first[main] = Markdown(a.content)  BY AtFacts
<1>3. IsSequence(<<"SKILL.md">>) /\ IsSequence(main)  BY Singles, Joined
<1>4. \A q \in DOMAIN files : root \o q # main
  <2> SUFFICES ASSUME NEW q \in DOMAIN files, root \o q = main PROVE FALSE
    OBVIOUS
  <2>1. q = <<"SKILL.md">>  BY <1>3, JoinedCancels
  <2> QED  BY <2>1
<1> HIDE DEF first, below
<1>5. /\ DOMAIN part = DOMAIN first \cup DOMAIN below
      /\ \A x \in DOMAIN first : part[x] = first[x]
      /\ \A x \in DOMAIN below \ DOMAIN first : part[x] = below[x]
  BY BothFacts
<1> HIDE DEF part, main
<1>6. part[main] = Markdown(a.content) /\ main \in DOMAIN part  BY <1>2, <1>5
<1>7. \A q \in DOMAIN files : root \o q \in DOMAIN part /\ part[root \o q] = Payload(files[q])
  BY <1>1, <1>2, <1>4, <1>5
<1>8. \A x \in DOMAIN part : x = main \/ \E q \in DOMAIN files : x = root \o q  BY <1>1, <1>2, <1>5
<1>9. \A x \in DOMAIN part : IsSequence(x)
  <2>1. \A q \in DOMAIN files : IsSequence(root \o q)  BY Joined
  <2> QED  BY <1>3, <1>8, <2>1 DEF main
<1>10. Markdown(a.content).form = "markdown"  BY DEF Markdown
<1>11. \A x \in DOMAIN part : part[x].form = "markdown" \/ \E q \in DOMAIN files : part[x] = Payload(files[q])
  BY <1>6, <1>7, <1>8, <1>10
<1> QED  BY <1>6, <1>7, <1>9, <1>11 DEF Renders, part, main, first, below

\* and an asset without files by its text.
LEMMA TextAt ==
    ASSUME NEW path, IsSequence(path), NEW a, a.kind # "skill", a.kind = "agent" \/ DOMAIN a.content.files = {}
    PROVE  Renders(At(path, Markdown(a.content)), <<>>, a)
<1>1. DOMAIN At(path, Markdown(a.content)) = {path} /\ At(path, Markdown(a.content))[path] = Markdown(a.content)
  BY AtFacts
<1>2. Markdown(a.content).form = "markdown"  BY DEF Markdown
<1>3. IsSequence(<<>>)  BY Singles
<1> QED  BY <1>1, <1>2, <1>3 DEF Renders

\* Where a package has the files of an asset.
AssetRoot(codec, a) ==
    CASE a.kind = "skill" -> <<"skills", a.identity[2]>>
      [] a.kind = "resource" -> <<"resources", a.identity[2]>>
      [] a.kind = "hook" -> PayloadRoot(codec, a)
      [] OTHER -> <<>>

\* Payloads are below a path.
LEMMA PayloadRootIsPath ==
    ASSUME NEW codec, PathsFit(codec), codec.payloads # {}, NEW a
    PROVE  IsSequence(PayloadRoot(codec, a))
<1>1. IsSequence(CHOOSE r \in codec.payloads : TRUE)  BY DEF PathsFit
<1> QED  BY <1>1, OneMore DEF PayloadRoot

\* Every asset that fits a package is rendered by its part.
LEMMA AssetIsRendered ==
    ASSUME NEW t, NEW codec, PathsFit(codec), NEW a, a.kind \in Kinds, AssetFits(t, codec, a),
           \A q \in DOMAIN a.content.files : IsSequence(q)
    PROVE  Renders(AssetFiles(codec, a), AssetRoot(codec, a), a)
<1> DEFINE name == a.identity[2]
<1>1. CASE a.kind = "skill"
  <2>1. <<"SKILL.md">> \notin DOMAIN a.content.files  BY <1>1 DEF AssetFits
  <2>2. IsSequence(<<"skills", name>>) /\ <<"skills", name, "SKILL.md">> = <<"skills", name>> \o <<"SKILL.md">>
    BY Singles, OneOf
  <2>3. AssetFiles(codec, a) = At(<<"skills", name>> \o <<"SKILL.md">>, Markdown(a.content)) ++ Below(<<"skills", name>>, a.content.files)
    BY <1>1, <2>2 DEF AssetFiles
  <2>4. AssetRoot(codec, a) = <<"skills", name>>  BY <1>1 DEF AssetRoot
  <2>5. <<"skills", name>> # <<>> /\ Last(<<"skills", name>>) = name  BY DEF Last
  <2> HIDE DEF name
  <2>6. Renders(At(<<"skills", name>> \o <<"SKILL.md">>, Markdown(a.content)) ++ Below(<<"skills", name>>, a.content.files),
                <<"skills", name>>, a)
    BY <2>1, <2>2, <2>5, SkillBelow DEF name
  <2> QED  BY <2>3, <2>4, <2>6
<1>2. CASE a.kind = "resource"
  <2>1. IsSequence(<<"resources", name>>)  BY Singles
  <2>2. AssetFiles(codec, a) = Below(<<"resources", name>>, a.content.files) /\ AssetRoot(codec, a) = <<"resources", name>>
    BY <1>2 DEF AssetFiles, AssetRoot
  <2> HIDE DEF name
  <2> QED  BY <1>2, <2>1, <2>2, FilesBelow
<1>3. CASE a.kind = "command"
  <2>1. codec.commands # {} /\ DOMAIN a.content.files = {}  BY <1>3 DEF AssetFits
  <2> DEFINE root == CHOOSE r \in codec.commands : TRUE
             path == root \o <<name \o ".md">>
  <2>2. IsSequence(root)  BY <2>1 DEF PathsFit
  <2>3. AssetFiles(codec, a) = At(path, Markdown(a.content)) /\ AssetRoot(codec, a) = <<>>
    BY <1>3 DEF AssetFiles, AssetRoot
  <2>4. IsSequence(path)  BY <2>2, OneMore
  <2> HIDE DEF path
  <2> QED  BY <1>3, <2>1, <2>3, <2>4, TextAt
<1>4. CASE a.kind = "agent"
  <2>1. codec.agents # {}  BY <1>4 DEF AssetFits
  <2> DEFINE agent == CHOOSE r \in codec.agents : TRUE
             path == agent.root \o <<name \o agent.suffix>>
  <2>2. IsSequence(agent.root)  BY <2>1 DEF PathsFit
  <2>3. AssetFiles(codec, a) = At(path, Markdown(a.content)) /\ AssetRoot(codec, a) = <<>>
    BY <1>4 DEF AssetFiles, AssetRoot
  <2>4. IsSequence(path)  BY <2>2, OneMore
  <2> HIDE DEF path
  <2> QED  BY <1>4, <2>3, <2>4, TextAt
<1>5. CASE a.kind = "hook"
  <2>1. codec.payloads # {}  BY <1>5 DEF AssetFits
  <2>2. AssetFiles(codec, a) = Below(PayloadRoot(codec, a), a.content.files) /\ AssetRoot(codec, a) = PayloadRoot(codec, a)
    BY <1>5 DEF AssetFiles, AssetRoot
  <2> QED  BY <1>5, <2>1, <2>2, PayloadRootIsPath, FilesBelow
<1>6. CASE a.kind = "native-resource"
  <2>1. AssetFiles(codec, a) = Below(<<>>, a.content.files) /\ AssetRoot(codec, a) = <<>>
    BY <1>6 DEF AssetFiles, AssetRoot
  <2> QED  BY <1>6, <2>1, Singles, FilesBelow
<1> QED  BY <1>1, <1>2, <1>3, <1>4, <1>5, <1>6 DEF Kinds

\* The same in a project.
LEMMA ProjectAssetIsRendered ==
    ASSUME NEW t, NEW a, ProjectAssetFits(t, a), \A q \in DOMAIN a.content.files : IsSequence(q)
    PROVE  \E root : Renders(ProjectAssetFiles(t, a), root, a)
<1> DEFINE base == ProjectRoots(t)[a.kind] \o <<a.identity[2]>>
<1>1. a.kind \in {"skill", "command", "resource"} /\ IsSequence(ProjectRoots(t)[a.kind])
  <2>1. a.kind \in DOMAIN ProjectRoots(t)  BY DEF ProjectAssetFits
  <2>2. CASE t = "claude"  BY <2>1, <2>2, Segments DEF ProjectRoots
  <2>3. CASE t = "copilot"  BY <2>1, <2>3, Segments DEF ProjectRoots
  <2>4. CASE t = "grok"  BY <2>1, <2>4, Segments DEF ProjectRoots
  <2>5. CASE t = "pi"  BY <2>1, <2>5, Segments DEF ProjectRoots
  <2>6. CASE t \notin {"claude", "copilot", "grok", "pi"}  BY <2>1, <2>6, Segments DEF ProjectRoots
  <2> QED  BY <2>2, <2>3, <2>4, <2>5, <2>6
<1>2. IsSequence(base) /\ base # <<>> /\ Last(base) = a.identity[2]
  <2> DEFINE root == ProjectRoots(t)[a.kind]
  <2>1. IsSequence(root) /\ Len(root) \in Nat  BY <1>1, SequenceFacts
  <2> HIDE DEF root
  <2>2. IsSequence(root \o <<a.identity[2]>>) /\ Len(root \o <<a.identity[2]>>) = Len(root) + 1
        /\ Last(root \o <<a.identity[2]>>) = a.identity[2]
    BY <2>1, OneMore
  <2>3. Len(root) + 1 # 0  BY <2>1
  <2> QED  BY <2>2, <2>3, SequenceFacts DEF root
<1>3. CASE a.kind = "skill"
  <2>1. <<"SKILL.md">> \notin DOMAIN a.content.files  BY <1>3 DEF ProjectAssetFits
  <2>2. ProjectAssetFiles(t, a) = At(base \o <<"SKILL.md">>, Markdown(a.content)) ++ Below(base, a.content.files)
    BY <1>3 DEF ProjectAssetFiles
  <2> HIDE DEF base
  <2> QED  BY <1>2, <2>1, <2>2, SkillBelow
<1>4. CASE a.kind = "command"
  <2>1. DOMAIN a.content.files = {}  BY <1>4 DEF ProjectAssetFits
  <2> DEFINE path == Front(base) \o <<Last(base) \o ".md">>
  <2>2. ProjectAssetFiles(t, a) = At(path, Markdown(a.content))  BY <1>4 DEF ProjectAssetFiles
  <2> HIDE DEF base
  <2>3. IsSequence(path)  BY <1>2, FrontFacts, OneMore
  <2> HIDE DEF path
  <2> QED  BY <1>4, <2>1, <2>2, <2>3, TextAt
<1>5. CASE a.kind = "resource"
  <2>1. ProjectAssetFiles(t, a) = Below(base, a.content.files)  BY <1>5 DEF ProjectAssetFiles
  <2> HIDE DEF base
  <2> QED  BY <1>2, <1>5, <2>1, FilesBelow
<1> QED  BY <1>1, <1>3, <1>4, <1>5

-----------------------------------------------------------------------------
(* How parts become the files of a plan *)

\* Parts that are apart are all in what they are merged to,
LEMMA MergeHas ==
    ASSUME NEW parts, PartsApart(parts), NEW x \in DOMAIN parts, NEW y \in DOMAIN parts[x]
    PROVE  y \in DOMAIN Merge(parts) /\ Merge(parts)[y] = parts[x][y]
<1>1. \A z \in DOMAIN parts : y \in DOMAIN parts[z] => z = x  BY DEF PartsApart
<1>2. (CHOOSE z \in DOMAIN parts : y \in DOMAIN parts[z]) = x  BY <1>1
<1>3. y \in UNION {DOMAIN parts[z] : z \in DOMAIN parts}  OBVIOUS
<1> QED  BY <1>2, <1>3 DEF Merge

\* which has nothing else.
LEMMA MergeComes ==
    ASSUME NEW parts, PartsApart(parts), NEW y \in DOMAIN Merge(parts)
    PROVE  \E x \in DOMAIN parts : y \in DOMAIN parts[x] /\ Merge(parts)[y] = parts[x][y]
<1>1. DOMAIN Merge(parts) = UNION {DOMAIN parts[z] : z \in DOMAIN parts}  BY DEF Merge
<1>2. PICK x \in DOMAIN parts : y \in DOMAIN parts[x]  BY <1>1
<1> QED  BY <1>2, MergeHas

\* What a package is made of besides its assets.
HooksPart(t, codec, p) == At(codec.hooks, Generated("hooks", HookManifest(t, codec, p)))
\* The parts of a package that are not of an asset.
ReadmePart(p) == At(<<"README.md">>, Generated("readme", p.identity))
ManifestPart(codec, p) == At(codec.manifest, PackageManifest(p))

\* The parts of a package: those of its assets, its hooks, a readme and a manifest.
MadeOf(t, codec, p, parts) ==
    /\ DOMAIN parts = {a.identity : a \in p.assets} \cup (IF HookAssets(p) = {} THEN {} ELSE {<<"", "hooks">>})
                         \cup {<<"", "readme">>, <<"", "manifest">>}
    /\ \A a \in p.assets : parts[a.identity] = AssetFiles(codec, a)
    /\ HookAssets(p) # {} => parts[<<"", "hooks">>] = HooksPart(t, codec, p)
    /\ parts[<<"", "readme">>] = ReadmePart(p) /\ parts[<<"", "manifest">>] = ManifestPart(codec, p)

\* No asset is called as a generated part is.
LEMMA AssetNames ==
    ASSUME NEW p, ValidNormalizedPackage(p), NEW a \in p.assets, NEW name
    PROVE  a.identity # <<"", name>>
<1>1. a.identity[1] \in Kinds
  BY DEF ValidNormalizedPackage, ValidNormalizedAsset, ValidAssetIdentity, ValidAssetID
<1>2. <<"", name>>[1] = ""  OBVIOUS
<1>3. "" \notin Kinds  BY DEF Kinds
<1> QED  BY <1>1, <1>2, <1>3

\* A valid package is made of these.
LEMMA PackagePartsFacts ==
    ASSUME NEW t, NEW codec, NEW p, ValidNormalizedPackage(p)
    PROVE  MadeOf(t, codec, p, PackageParts(t, codec, p))
<1> DEFINE of(id) == CHOOSE a \in p.assets : a.identity = id
           ids == {a.identity : a \in p.assets}
           own == [id \in ids |-> AssetFiles(codec, of(id))]
           hooks == IF HookAssets(p) = {} THEN <<>> ELSE At(<<"", "hooks">>, HooksPart(t, codec, p))
           readme == At(<<"", "readme">>, ReadmePart(p))
           last == At(<<"", "manifest">>, ManifestPart(codec, p))
           one == own ++ hooks
           two == one ++ readme
           parts == PackageParts(t, codec, p)
<1>1. parts = two ++ last  BY DEF PackageParts, HooksPart, ReadmePart, ManifestPart
<1>2. \A a, b \in p.assets : a.identity = b.identity => a = b  BY DEF ValidNormalizedPackage
<1>3. \A a \in p.assets : of(a.identity) = a
  <2> SUFFICES ASSUME NEW a \in p.assets PROVE of(a.identity) = a
    OBVIOUS
  <2>1. of(a.identity) \in p.assets /\ of(a.identity).identity = a.identity  OBVIOUS
  <2> QED  BY <1>2, <2>1
<1>4. \A id \in ids : id # <<"", "hooks">> /\ id # <<"", "readme">> /\ id # <<"", "manifest">>
  BY AssetNames
<1>5. DOMAIN own = ids /\ \A a \in p.assets : own[a.identity] = AssetFiles(codec, a)
  <2>1. DOMAIN own = ids  OBVIOUS
  <2>2. \A a \in p.assets : a.identity \in ids  OBVIOUS
  <2>3. \A id \in ids : own[id] = AssetFiles(codec, of(id))  OBVIOUS
  <2> HIDE DEF of, ids, own
  <2>4. \A a \in p.assets : own[a.identity] = AssetFiles(codec, a)  BY <1>3, <2>2, <2>3
  <2> QED  BY <2>1, <2>4
<1>6. /\ DOMAIN hooks = (IF HookAssets(p) = {} THEN {} ELSE {<<"", "hooks">>})
      /\ HookAssets(p) # {} => hooks[<<"", "hooks">>] = HooksPart(t, codec, p)
  <2>1. DOMAIN At(<<"", "hooks">>, HooksPart(t, codec, p)) = {<<"", "hooks">>}
        /\ At(<<"", "hooks">>, HooksPart(t, codec, p))[<<"", "hooks">>] = HooksPart(t, codec, p)
    BY AtFacts
  <2>2. DOMAIN <<>> = {}  OBVIOUS
  <2> QED  BY <2>1, <2>2
<1>7. DOMAIN readme = {<<"", "readme">>} /\ readme[<<"", "readme">>] = ReadmePart(p)  BY AtFacts
<1>8. DOMAIN last = {<<"", "manifest">>} /\ last[<<"", "manifest">>] = ManifestPart(codec, p)  BY AtFacts
<1> HIDE DEF own, hooks, readme, last
<1>9. /\ DOMAIN one = DOMAIN own \cup DOMAIN hooks
      /\ \A x \in DOMAIN own : one[x] = own[x]
      /\ \A x \in DOMAIN hooks \ DOMAIN own : one[x] = hooks[x]
  BY BothFacts
<1> HIDE DEF one
<1>10. /\ DOMAIN two = DOMAIN one \cup DOMAIN readme
       /\ \A x \in DOMAIN one : two[x] = one[x]
       /\ \A x \in DOMAIN readme \ DOMAIN one : two[x] = readme[x]
  BY BothFacts
<1> HIDE DEF two
<1>11. /\ DOMAIN (two ++ last) = DOMAIN two \cup DOMAIN last
       /\ \A x \in DOMAIN two : (two ++ last)[x] = two[x]
       /\ \A x \in DOMAIN last \ DOMAIN two : (two ++ last)[x] = last[x]
  BY BothFacts
<1> HIDE DEF parts, ids
<1>12. \A a \in p.assets : a.identity \in ids  BY DEF ids
<1>13. \A a \in p.assets : parts[a.identity] = AssetFiles(codec, a)
  BY <1>1, <1>5, <1>9, <1>10, <1>11, <1>12
<1>14. <<"", "hooks">> # <<"", "readme">> /\ <<"", "hooks">> # <<"", "manifest">> /\ <<"", "readme">> # <<"", "manifest">>
  OBVIOUS
<1>15. HookAssets(p) # {} => parts[<<"", "hooks">>] = HooksPart(t, codec, p)
  BY <1>1, <1>4, <1>5, <1>6, <1>9, <1>10, <1>11
<1>16. parts[<<"", "readme">>] = ReadmePart(p)
  BY <1>1, <1>4, <1>5, <1>6, <1>7, <1>9, <1>10, <1>11, <1>14
<1>17. parts[<<"", "manifest">>] = ManifestPart(codec, p)
  BY <1>1, <1>4, <1>5, <1>6, <1>7, <1>8, <1>9, <1>10, <1>11, <1>14
<1>18. DOMAIN parts = ids \cup (IF HookAssets(p) = {} THEN {} ELSE {<<"", "hooks">>})
                             \cup {<<"", "readme">>, <<"", "manifest">>}
  BY <1>1, <1>5, <1>6, <1>7, <1>8, <1>9, <1>10, <1>11
<1> QED  BY <1>13, <1>15, <1>16, <1>17, <1>18 DEF parts, ids, MadeOf

\* Assets whose files have paths.
Plain(p) == \A a \in p.assets : \A q \in DOMAIN a.content.files : IsSequence(q)

\* What a part of a package has is at a path.
LEMMA PartPaths ==
    ASSUME NEW t, NEW codec, NEW p, ValidNormalizedPackage(p), PathsFit(codec), PackageFits(t, codec, p), Plain(p),
           NEW id \in DOMAIN PackageParts(t, codec, p), NEW x \in DOMAIN PackageParts(t, codec, p)[id]
    PROVE  IsSequence(x)
<1> DEFINE parts == PackageParts(t, codec, p)
<1>0. MadeOf(t, codec, p, parts)  BY PackagePartsFacts
<1> HIDE DEF parts
<1>1. \/ \E a \in p.assets : parts[id] = AssetFiles(codec, a)
      \/ parts[id] = HooksPart(t, codec, p) \/ parts[id] = ReadmePart(p) \/ parts[id] = ManifestPart(codec, p)
  <2>1. id \in DOMAIN parts  BY DEF parts
  <2> QED  BY <1>0, <2>1 DEF MadeOf
<1>6. x \in DOMAIN parts[id]  BY DEF parts
<1>2. CASE \E a \in p.assets : parts[id] = AssetFiles(codec, a)
  <2>1. PICK a \in p.assets : parts[id] = AssetFiles(codec, a)  BY <1>2
  <2>2. a.kind \in Kinds /\ AssetFits(t, codec, a) /\ \A q \in DOMAIN a.content.files : IsSequence(q)
    BY DEF ValidNormalizedPackage, ValidNormalizedAsset, ValidAssetIdentity, PackageFits, Plain
  <2>3. Renders(AssetFiles(codec, a), AssetRoot(codec, a), a)  BY <2>2, AssetIsRendered
  <2> QED  BY <1>6, <2>1, <2>3 DEF Renders
<1>3. CASE parts[id] = HooksPart(t, codec, p)
  <2>1. DOMAIN HooksPart(t, codec, p) = {codec.hooks}  BY AtFacts DEF HooksPart
  <2> QED  BY <1>3, <1>6, <2>1 DEF PathsFit
<1>4. CASE parts[id] = ReadmePart(p)
  <2>1. DOMAIN ReadmePart(p) = {<<"README.md">>}  BY AtFacts DEF ReadmePart
  <2> QED  BY <1>4, <1>6, <2>1, Segments
<1>5. CASE parts[id] = ManifestPart(codec, p)
  <2>1. DOMAIN ManifestPart(codec, p) = {codec.manifest}  BY AtFacts DEF ManifestPart
  <2> QED  BY <1>5, <1>6, <2>1 DEF PathsFit
<1> QED  BY <1>1, <1>2, <1>3, <1>4, <1>5

\* Files that hold a part below a root.
Holds(files, root, part) ==
    \A x \in DOMAIN part : root \o x \in DOMAIN files /\ files[root \o x] = part[x]

\* The part that lists the packages.
CatalogPart(t, codec, in) == At(CatalogPath(codec), Generated("catalog", Catalog(t, in)))

\* Files that hold what an input is rendered to, and nothing else.
HoldsAll(t, codec, in, files) ==
    /\ \A p \in in.packages : \A id \in DOMAIN PackageParts(t, codec, p) :
          Holds(files, PackageRoot(in.packages, p), PackageParts(t, codec, p)[id])
    /\ HasCatalog(codec, in) => Holds(files, <<>>, CatalogPart(t, codec, in))
\* A file comes from a part of a package, or is the catalog.
ComesFrom(t, codec, in, files, y) ==
    \/ \E p \in in.packages : \E id \in DOMAIN PackageParts(t, codec, p) : \E x \in DOMAIN PackageParts(t, codec, p)[id] :
          y = PackageRoot(in.packages, p) \o x /\ files[y] = PackageParts(t, codec, p)[id][x]
    \/ HasCatalog(codec, in) /\ y = CatalogPath(codec) /\ files[y] = Generated("catalog", Catalog(t, in))

\* A package is below a path.
LEMMA PackageRootIsPath ==
    ASSUME NEW packages, NEW p
    PROVE  IsSequence(PackageRoot(packages, p))
  BY Segments DEF PackageRoot

\* The parts of an input: those of its packages, and the catalog.
CatalogKey == <<"", <<"", "catalog">>>>
\* The parts of an input: each of each package, below its root, and the catalog.
MadeOfAll(t, codec, in, parts) ==
    /\ PartsApart(parts)
    /\ \A p \in in.packages : \A id \in DOMAIN PackageParts(t, codec, p) :
          /\ <<p.identity, id>> \in DOMAIN parts
          /\ parts[<<p.identity, id>>] = Rooted(PackageRoot(in.packages, p), PackageParts(t, codec, p)[id])
    /\ HasCatalog(codec, in) => CatalogKey \in DOMAIN parts /\ parts[CatalogKey] = CatalogPart(t, codec, in)
    /\ \A x \in DOMAIN parts :
          \/ \E p \in in.packages : \E id \in DOMAIN PackageParts(t, codec, p) : x = <<p.identity, id>>
          \/ HasCatalog(codec, in) /\ x = CatalogKey

\* An input that fits is made of these.
LEMMA PartsFacts ==
    ASSUME NEW t, NEW codec, NEW in, InstallableFits(t, codec, in)
    PROVE  MadeOfAll(t, codec, in, InstallableParts(t, codec, in))
<1> DEFINE made == [p \in in.packages |-> PackageParts(t, codec, p)]
           idsOf(p) == {<<p.identity, id>> : id \in DOMAIN made[p]}
           ids == UNION {idsOf(p) : p \in in.packages}
           named(id) == CHOOSE p \in in.packages : p.identity = id[1]
           own == [id \in ids |-> Rooted(PackageRoot(in.packages, named(id)), made[named(id)][id[2]])]
           key == <<"", <<"", "catalog">>>>
           catalog == IF ~HasCatalog(codec, in) THEN <<>> ELSE At(key, CatalogPart(t, codec, in))
           parts == InstallableParts(t, codec, in)
<1>1. parts = own ++ catalog  BY DEF InstallableParts, CatalogPart
<1>2. \A p, q \in in.packages : p.identity = q.identity => p = q  BY DEF InstallableFits, ValidTargetRenderInput
<1>3. \A p \in in.packages : ValidNormalizedPackage(p)  BY DEF InstallableFits, ValidTargetRenderInput
<1>4. PartsApart(parts)  BY DEF InstallableFits
<1>5. ASSUME NEW p \in in.packages, NEW id \in DOMAIN PackageParts(t, codec, p)
      PROVE  <<p.identity, id>> \in ids /\ named(<<p.identity, id>>) = p /\ <<p.identity, id>> # key
  <2>1. <<p.identity, id>> \in ids  BY <1>5
  <2>2. <<p.identity, id>>[1] = p.identity  OBVIOUS
  <2>3. named(<<p.identity, id>>) = p
    <3> DEFINE n == named(<<p.identity, id>>)
    <3>1. n \in in.packages /\ n.identity = p.identity  BY <2>2
    <3> HIDE DEF n
    <3>2. n = p  BY <1>2, <3>1
    <3> QED  BY <3>2 DEF n
  <2>4. id # <<"", "catalog">>
    <3>1. MadeOf(t, codec, p, PackageParts(t, codec, p))  BY <1>3, PackagePartsFacts
    <3>2. \A a \in p.assets : a.identity # <<"", "catalog">>  BY <1>3, AssetNames
    <3>3. \/ \E a \in p.assets : id = a.identity
          \/ id \in {<<"", "hooks">>, <<"", "readme">>, <<"", "manifest">>}
      BY <1>5, <3>1 DEF MadeOf
    <3>4. <<"", "catalog">> \notin {<<"", "hooks">>, <<"", "readme">>, <<"", "manifest">>}  OBVIOUS
    <3> QED  BY <3>2, <3>3, <3>4
  <2> QED  BY <2>1, <2>3, <2>4
<1>6. \A x \in ids : \E p \in in.packages : \E id \in DOMAIN PackageParts(t, codec, p) : x = <<p.identity, id>>
  OBVIOUS
<1>7. DOMAIN catalog = (IF HasCatalog(codec, in) THEN {key} ELSE {})
      /\ (HasCatalog(codec, in) => catalog[key] = CatalogPart(t, codec, in))
  <2>1. DOMAIN At(key, CatalogPart(t, codec, in)) = {key} /\ At(key, CatalogPart(t, codec, in))[key] = CatalogPart(t, codec, in)
    BY AtFacts
  <2>2. DOMAIN <<>> = {}  OBVIOUS
  <2> HIDE DEF key
  <2> QED  BY <2>1, <2>2
<1>8. DOMAIN own = ids  OBVIOUS
<1>9. ASSUME NEW p \in in.packages, NEW id \in DOMAIN PackageParts(t, codec, p)
      PROVE  own[<<p.identity, id>>] = Rooted(PackageRoot(in.packages, p), PackageParts(t, codec, p)[id])
  <2> DEFINE x == <<p.identity, id>>
  <2>1. x \in ids /\ named(x) = p  BY <1>9, <1>5
  <2>2. own[x] = Rooted(PackageRoot(in.packages, named(x)), made[named(x)][x[2]])  BY <2>1
  <2>3. x[2] = id /\ made[p] = PackageParts(t, codec, p)  OBVIOUS
  <2> HIDE DEF x, own, named, made
  <2> QED  BY <2>1, <2>2, <2>3 DEF x
<1> HIDE DEF own, catalog, ids, key
<1>10. /\ DOMAIN parts = DOMAIN own \cup DOMAIN catalog
       /\ \A x \in DOMAIN own : parts[x] = own[x]
       /\ \A x \in DOMAIN catalog \ DOMAIN own : parts[x] = catalog[x]
  <2>1. /\ DOMAIN (own ++ catalog) = DOMAIN own \cup DOMAIN catalog
        /\ \A x \in DOMAIN own : (own ++ catalog)[x] = own[x]
        /\ \A x \in DOMAIN catalog \ DOMAIN own : (own ++ catalog)[x] = catalog[x]
    BY BothFacts
  <2> QED  BY <1>1, <2>1
<1> HIDE DEF parts
<1>11. ASSUME NEW p \in in.packages, NEW id \in DOMAIN PackageParts(t, codec, p)
       PROVE  /\ <<p.identity, id>> \in DOMAIN parts
              /\ parts[<<p.identity, id>>] = Rooted(PackageRoot(in.packages, p), PackageParts(t, codec, p)[id])
  BY <1>5, <1>8, <1>9, <1>10, <1>11
<1>12. key \notin ids  BY <1>5, <1>6
<1>13. HasCatalog(codec, in) => key \in DOMAIN parts /\ parts[key] = CatalogPart(t, codec, in)
  BY <1>7, <1>8, <1>10, <1>12
<1>14. \A x \in DOMAIN parts :
         \/ \E p \in in.packages : \E id \in DOMAIN PackageParts(t, codec, p) : x = <<p.identity, id>>
         \/ HasCatalog(codec, in) /\ x = key
  BY <1>6, <1>7, <1>8, <1>10
<1> QED  BY <1>4, <1>11, <1>13, <1>14 DEF parts, key, MadeOfAll, CatalogKey

\* Its files hold all of them and come from nothing else.
LEMMA Assembly ==
    ASSUME NEW t, NEW codec, NEW in, InstallableFits(t, codec, in), PathsFit(codec), \A p \in in.packages : Plain(p),
           NEW files, files = Merge(InstallableParts(t, codec, in))
    PROVE  HoldsAll(t, codec, in, files) /\ \A y \in DOMAIN files : ComesFrom(t, codec, in, files, y)
<1> DEFINE parts == InstallableParts(t, codec, in)
           root(p) == PackageRoot(in.packages, p)
           key == CatalogKey
<1>0. MadeOfAll(t, codec, in, parts)  BY PartsFacts
<1>1. PartsApart(parts)  BY <1>0 DEF MadeOfAll
<1>2. \A p \in in.packages : \A id \in DOMAIN PackageParts(t, codec, p) :
         <<p.identity, id>> \in DOMAIN parts /\ parts[<<p.identity, id>>] = Rooted(root(p), PackageParts(t, codec, p)[id])
  BY <1>0 DEF MadeOfAll
<1>3. HasCatalog(codec, in) => key \in DOMAIN parts /\ parts[key] = CatalogPart(t, codec, in)  BY <1>0 DEF MadeOfAll
<1>4. \A x \in DOMAIN parts :
         \/ \E p \in in.packages : \E id \in DOMAIN PackageParts(t, codec, p) : x = <<p.identity, id>>
         \/ HasCatalog(codec, in) /\ x = key
  BY <1>0 DEF MadeOfAll
<1>5. \A p \in in.packages : ValidNormalizedPackage(p) /\ PackageFits(t, codec, p)
  BY DEF InstallableFits, ValidTargetRenderInput
<1> HIDE DEF parts, root, key
<1>6. ASSUME NEW p \in in.packages, NEW id \in DOMAIN PackageParts(t, codec, p)
      PROVE  /\ DOMAIN Rooted(root(p), PackageParts(t, codec, p)[id])
                   = {root(p) \o x : x \in DOMAIN PackageParts(t, codec, p)[id]}
             /\ \A x \in DOMAIN PackageParts(t, codec, p)[id] :
                   Rooted(root(p), PackageParts(t, codec, p)[id])[root(p) \o x] = PackageParts(t, codec, p)[id][x]
  <2> DEFINE part == PackageParts(t, codec, p)[id]
  <2>1. \A x \in DOMAIN part : IsSequence(x)  BY <1>5, <1>6, PartPaths
  <2>2. IsSequence(root(p))  BY PackageRootIsPath DEF root
  <2> HIDE DEF part
  <2>3. /\ DOMAIN Rooted(root(p), part) = {root(p) \o x : x \in DOMAIN part}
        /\ \A x \in DOMAIN part : Rooted(root(p), part)[root(p) \o x] = part[x]
    BY <2>1, <2>2, RootedFacts
  <2> QED  BY <2>3 DEF part
<1>7. ASSUME NEW p \in in.packages, NEW id \in DOMAIN PackageParts(t, codec, p),
             NEW x \in DOMAIN PackageParts(t, codec, p)[id]
      PROVE  root(p) \o x \in DOMAIN files /\ files[root(p) \o x] = PackageParts(t, codec, p)[id][x]
  <2> DEFINE k == <<p.identity, id>>
             part == PackageParts(t, codec, p)[id]
  <2>1. k \in DOMAIN parts /\ parts[k] = Rooted(root(p), part)  BY <1>2, <1>7
  <2>2. root(p) \o x \in DOMAIN Rooted(root(p), part) /\ Rooted(root(p), part)[root(p) \o x] = part[x]
    <3>1. x \in DOMAIN part  BY <1>7
    <3>2. DOMAIN Rooted(root(p), part) = {root(p) \o y : y \in DOMAIN part}  BY <1>6
    <3>3. \A y \in DOMAIN part : Rooted(root(p), part)[root(p) \o y] = part[y]  BY <1>6
    <3> HIDE DEF part
    <3> QED  BY <3>1, <3>2, <3>3
  <2> HIDE DEF k, part
  <2>3. root(p) \o x \in DOMAIN parts[k]  BY <2>1, <2>2
  <2>4. root(p) \o x \in DOMAIN Merge(parts) /\ Merge(parts)[root(p) \o x] = parts[k][root(p) \o x]
    BY <1>1, <2>1, <2>3, MergeHas
  <2>5. files = Merge(parts)  BY DEF parts
  <2> QED  BY <2>1, <2>2, <2>4, <2>5 DEF part
<1>8. HasCatalog(codec, in) => Holds(files, <<>>, CatalogPart(t, codec, in))
  <2> SUFFICES ASSUME HasCatalog(codec, in) PROVE Holds(files, <<>>, CatalogPart(t, codec, in))
    OBVIOUS
  <2> DEFINE path == CatalogPath(codec)
  <2>1. DOMAIN CatalogPart(t, codec, in) = {path}  BY AtFacts DEF CatalogPart
  <2>2. IsSequence(path)  BY DEF HasCatalog, CatalogPath, PathsFit
  <2>3. <<>> \o path = path  BY <2>2, JoinedEmpty
  <2>4. path \in DOMAIN parts[key]  BY <1>3, <2>1
  <2>5. path \in DOMAIN Merge(parts) /\ Merge(parts)[path] = parts[key][path]  BY <1>1, <1>3, <2>4, MergeHas
  <2>6. files = Merge(parts)  BY DEF parts
  <2> QED  BY <1>3, <2>1, <2>3, <2>5, <2>6 DEF Holds
<1>9. ASSUME NEW y \in DOMAIN files PROVE ComesFrom(t, codec, in, files, y)
  <2>1. files = Merge(parts)  BY DEF parts
  <2>2. PICK k \in DOMAIN parts : y \in DOMAIN parts[k] /\ files[y] = parts[k][y]  BY <1>1, <1>9, <2>1, MergeComes
  <2>3. CASE \E p \in in.packages : \E id \in DOMAIN PackageParts(t, codec, p) : k = <<p.identity, id>>
    <3>1. PICK p \in in.packages : \E id \in DOMAIN PackageParts(t, codec, p) : k = <<p.identity, id>>  BY <2>3
    <3>2. PICK id \in DOMAIN PackageParts(t, codec, p) : k = <<p.identity, id>>  BY <3>1
    <3> DEFINE part == PackageParts(t, codec, p)[id]
    <3>3. parts[k] = Rooted(root(p), part)  BY <1>2, <3>2
    <3>4. PICK x \in DOMAIN part : y = root(p) \o x  BY <1>6, <2>2, <3>3
    <3>5. files[y] = part[x]  BY <1>6, <2>2, <3>3, <3>4
    <3> QED  BY <3>4, <3>5 DEF ComesFrom, root
  <2>4. CASE HasCatalog(codec, in) /\ k = key
    <3>1. parts[k] = CatalogPart(t, codec, in)  BY <1>3, <2>4
    <3>2. DOMAIN CatalogPart(t, codec, in) = {CatalogPath(codec)}
          /\ CatalogPart(t, codec, in)[CatalogPath(codec)] = Generated("catalog", Catalog(t, in))
      BY AtFacts DEF CatalogPart
    <3>3. y = CatalogPath(codec) /\ files[y] = Generated("catalog", Catalog(t, in))  BY <2>2, <3>1, <3>2
    <3> QED  BY <2>4, <3>3 DEF ComesFrom
  <2> QED  BY <1>4, <2>3, <2>4
<1>10. HoldsAll(t, codec, in, files)  BY <1>7, <1>8 DEF HoldsAll, Holds, root
<1> QED  BY <1>9, <1>10

-----------------------------------------------------------------------------
(* What a target renders, as an installable package or as a project *)

\* Whether a target gets packages, of which codec, from which input, and what is rendered.
Packaged(t) == Aggregated(t) \/ Installable(InFor(t).packages)
CodecOf(t) == IF Aggregated(t) THEN PiAggregate ELSE CodecFor(t, InFor(t))
InputOf(t) == IF Aggregated(t) THEN AggregateInput(InFor(t)) ELSE [InFor(t) EXCEPT !.packages = PackagesFor(t, InFor(t))]
Rendered(t) == Merge(RenderedParts(t, InFor(t)))

\* A target that gets packages has the merged parts of them,
LEMMA Installs ==
    ASSUME NEW t, Made(t), Packaged(t)
    PROVE  /\ InstallableFits(t, CodecOf(t), InputOf(t)) /\ PathsFit(CodecOf(t))
           /\ Rendered(t) = Merge(InstallableParts(t, CodecOf(t), InputOf(t)))
<1>1. InFor(t).mode = "aggregate" <=> Aggregated(t)  BY InFacts
<1>2. RenderFits(t, InFor(t))  BY DEF Made
<1>3. CASE Aggregated(t)
  <2>1. CodecOf(t) = PiAggregate /\ InputOf(t) = AggregateInput(InFor(t))  BY <1>3 DEF CodecOf, InputOf
  <2>2. InFor(t).mode = "aggregate"  BY <1>1, <1>3
  <2>3. Rendered(t) = Merge(InstallableParts(t, PiAggregate, AggregateInput(InFor(t))))
    BY <2>2 DEF Rendered, RenderedParts
  <2>4. InstallableFits(t, PiAggregate, AggregateInput(InFor(t)))  BY <1>2, <2>2 DEF RenderFits
  <2> QED  BY <2>1, <2>3, <2>4, CodecPaths
<1>4. CASE ~Aggregated(t)
  <2>1. Installable(InFor(t).packages)  BY <1>4 DEF Packaged
  <2>2. PathsFit(CodecFor(t, InFor(t)))  BY CodecPaths DEF CodecFor, Made
  <2> QED  BY <1>1, <1>2, <1>4, <2>1, <2>2 DEF CodecOf, InputOf, Rendered, RenderedParts, RenderFits
<1> QED  BY <1>3, <1>4

\* any other those of its only package.
LEMMA IsProject ==
    ASSUME NEW t, Made(t), ~Packaged(t)
    PROVE  /\ ProjectFits(t, PackagesFor(t, InFor(t)))
           /\ Rendered(t) = Merge(ProjectParts(t, CHOOSE p \in PackagesFor(t, InFor(t)) : TRUE))
<1>1. InFor(t).mode # "aggregate"  BY InFacts DEF Packaged
<1>2. RenderFits(t, InFor(t))  BY DEF Made
<1>3. ~Installable(InFor(t).packages)  BY DEF Packaged
<1> QED  BY <1>1, <1>2, <1>3 DEF Rendered, RenderedParts, RenderFits

\* Only Pi has aggregates.
LEMMA AggregatesArePi ==
    ASSUME NEW t, Made(t), Aggregated(t)
    PROVE  t = "pi"
<1>1. InFor(t).mode = "aggregate"  BY InFacts
<1>2. ValidTargetRenderInput(InFor(t)) /\ \A p \in InFor(t).packages : p.target = t  BY DEF Made, RenderFits
<1>3. InFor(t).packages # {} /\ \A p \in InFor(t).packages : p.target = "pi"
  BY <1>1, <1>2 DEF ValidTargetRenderInput
<1> QED  BY <1>2, <1>3

\* Agents and runtimes are added to what is rendered, and hide none of it.
LEMMA Added ==
    ASSUME NEW t, Made(t)
    PROVE  /\ \A x \in DOMAIN Rendered(t) : x \in DOMAIN plans[t].files /\ plans[t].files[x] = Rendered(t)[x]
           /\ \A x \in DOMAIN plans[t].files \ DOMAIN Rendered(t) :
                 plans[t].files[x].form \in {"markdown", "hooks", "adapter", "runtime"}
<1> DEFINE base == Rendered(t)
           agents == ProjectAgents(InFor(t).packages)
           files == plans[t].files
<1>1. files = (IF t = "codex" THEN base ++ agents
               ELSE IF InFor(t).mode = "aggregate" THEN base ++ NoHooks ++ HookAdapter ++ HookRuntime ELSE base)
  BY DEF Made, Render, Rendered
<1>2. \A x \in DOMAIN agents : agents[x].form = "markdown"
  BY DEF ProjectAgents, Markdown
<1> HIDE DEF base, agents, files
<1>3. CASE t = "codex"
  <2>1. files = base ++ agents  BY <1>1, <1>3
  <2>2. /\ DOMAIN (base ++ agents) = DOMAIN base \cup DOMAIN agents
        /\ \A x \in DOMAIN base : (base ++ agents)[x] = base[x]
        /\ \A x \in DOMAIN agents \ DOMAIN base : (base ++ agents)[x] = agents[x]
    BY BothFacts
  <2> QED  BY <1>2, <2>1, <2>2 DEF base, files
<1>4. CASE t # "codex" /\ InFor(t).mode = "aggregate"
  <2> DEFINE one == base ++ NoHooks
             two == one ++ HookAdapter
  <2>1. files = two ++ HookRuntime  BY <1>1, <1>4
  <2>2. /\ DOMAIN one = DOMAIN base \cup DOMAIN NoHooks
        /\ \A x \in DOMAIN base : one[x] = base[x]
        /\ \A x \in DOMAIN NoHooks \ DOMAIN base : one[x] = NoHooks[x]
    BY BothFacts
  <2> HIDE DEF one
  <2>3. /\ DOMAIN two = DOMAIN one \cup DOMAIN HookAdapter
        /\ \A x \in DOMAIN one : two[x] = one[x]
        /\ \A x \in DOMAIN HookAdapter \ DOMAIN one : two[x] = HookAdapter[x]
    BY BothFacts
  <2> HIDE DEF two
  <2>4. /\ DOMAIN (two ++ HookRuntime) = DOMAIN two \cup DOMAIN HookRuntime
        /\ \A x \in DOMAIN two : (two ++ HookRuntime)[x] = two[x]
        /\ \A x \in DOMAIN HookRuntime \ DOMAIN two : (two ++ HookRuntime)[x] = HookRuntime[x]
    BY BothFacts
  <2>5. \A x \in DOMAIN NoHooks : NoHooks[x].form = "hooks"  BY DEF NoHooks, At, Generated
  <2>6. \A x \in DOMAIN HookAdapter : HookAdapter[x].form = "adapter"  BY DEF HookAdapter, At, Generated
  <2>7. \A x \in DOMAIN HookRuntime : HookRuntime[x].form = "runtime"  BY DEF HookRuntime, At, Generated
  <2>8. \A x \in DOMAIN base : x \in DOMAIN files /\ files[x] = base[x]  BY <2>1, <2>2, <2>3, <2>4
  <2>9. ASSUME NEW x \in DOMAIN files \ DOMAIN base PROVE files[x].form \in {"hooks", "adapter", "runtime"}
    <3>1. x \in DOMAIN NoHooks \/ x \in DOMAIN HookAdapter \/ x \in DOMAIN HookRuntime  BY <2>1, <2>2, <2>3, <2>4, <2>9
    <3>2. CASE x \in DOMAIN one  BY <2>1, <2>2, <2>3, <2>4, <2>5, <2>9, <3>2
    <3>3. CASE x \notin DOMAIN one /\ x \in DOMAIN HookAdapter  BY <2>1, <2>3, <2>4, <2>6, <3>3
    <3>4. CASE x \notin DOMAIN one /\ x \notin DOMAIN HookAdapter
      BY <2>1, <2>2, <2>3, <2>4, <2>7, <2>9, <3>1, <3>4
    <3> QED  BY <3>2, <3>3, <3>4
  <2> QED  BY <2>8, <2>9 DEF base, files
<1>5. CASE t # "codex" /\ InFor(t).mode # "aggregate"
  BY <1>1, <1>5 DEF base, files
<1> QED  BY <1>3, <1>4, <1>5

-----------------------------------------------------------------------------
(* The package that carries what a package manifest lists *)

\* The package that an entry of a chosen manifest ends up in.
WithoutAgentsOf(p) == [p EXCEPT !.assets = {a \in @ : a.kind # "agent"}]
Carrier(t, f) ==
    IF Aggregated(t) THEN AggregatePackage(InFor(t))
    ELSE IF t = "codex" THEN WithoutAgentsOf(PackageOf(t, f)) ELSE PackageOf(t, f)

\* Something is chosen, and not too much.
LEMMA ChosenFacts ==
    ASSUME NEW t, Made(t)
    PROVE  IsFiniteSet(Chosen) /\ Chosen # {}
<1>1. IsFiniteSet(Manifests) /\ Chosen \subseteq Manifests
  BY RequestFacts, FiniteToSet DEF Made, Manifests
<1>2. InFor(t).packages # {}  BY DEF Made, RenderFits, ValidTargetRenderInput
<1>3. InFor(t).packages = {PackageOf(t, f) : f \in Chosen}  BY InFacts
<1> QED  BY <1>1, <1>2, <1>3, FS_Subset

\* A package of its own has the assets of its manifest,
LEMMA SeparateCarrier ==
    ASSUME NEW t, Made(t), ~Aggregated(t), NEW f \in Chosen
    PROVE  /\ Carrier(t, f).identity = ValueAt(tree, f).id
           /\ Carrier(t, f).assets = {a \in AssetsIn(t, f) : t = "codex" => a.kind # "agent"}
           /\ Carrier(t, f).metadata = WithVersion(ValueAt(tree, f).metadata)
           /\ Carrier(t, f).profile = PackageOf(t, f).profile
<1> DEFINE p == PackageOf(t, f)
<1>1. /\ DOMAIN p = {"identity", "metadata", "target", "profile", "uses", "assets", "acknowledgments"}
      /\ p.identity = ValueAt(tree, f).id /\ p.assets = AssetsIn(t, f)
      /\ p.metadata = WithVersion(ValueAt(tree, f).metadata)
  BY PackageOfFacts
<1> HIDE DEF p
<1>2. CASE t = "codex"
  <2>1. Carrier(t, f) = WithoutAgentsOf(p)  BY <1>2 DEF Carrier, p
  <2>2. /\ WithoutAgentsOf(p).identity = p.identity /\ WithoutAgentsOf(p).metadata = p.metadata
        /\ WithoutAgentsOf(p).profile = p.profile
        /\ WithoutAgentsOf(p).assets = {a \in p.assets : a.kind # "agent"}
    BY <1>1 DEF WithoutAgentsOf
  <2> QED  BY <1>1, <1>2, <2>1, <2>2 DEF p
<1>3. CASE t # "codex"
  <2>1. Carrier(t, f) = p  BY <1>3 DEF Carrier, p
  <2> QED  BY <1>1, <1>3, <2>1 DEF p
<1> QED  BY <1>2, <1>3

\* an aggregate those of all chosen ones.
LEMMA AggregateCarrier ==
    ASSUME NEW t, Made(t), Aggregated(t), NEW f \in Chosen
    PROVE  /\ Carrier(t, f) = AggregatePackage(InFor(t))
           /\ Carrier(t, f).assets = UNION {AssetsIn(t, g) : g \in Chosen}
           /\ Carrier(t, f).profile = "package"
<1>1. Carrier(t, f) = AggregatePackage(InFor(t))  BY DEF Carrier
<1>2. InFor(t).packages = {PackageOf(t, g) : g \in Chosen}  BY InFacts
<1>3. \A g \in Chosen : PackageOf(t, g).assets = AssetsIn(t, g)  BY PackageOfFacts
<1>4. AggregatePackage(InFor(t)).assets = UNION {p.assets : p \in InFor(t).packages}  BY DEF AggregatePackage
<1>5. UNION {p.assets : p \in InFor(t).packages} = UNION {AssetsIn(t, g) : g \in Chosen}
  BY <1>2, <1>3
<1>6. AggregatePackage(InFor(t)).profile = "package"  BY DEF AggregatePackage
<1> QED  BY <1>1, <1>4, <1>5, <1>6

\* The packages of an input are these.
LEMMA InputFacts ==
    ASSUME NEW t, Made(t)
    PROVE  /\ InputOf(t).packages = {Carrier(t, f) : f \in Chosen}
           /\ ~Aggregated(t) => InputOf(t).packages = PackagesFor(t, InFor(t))
           /\ InputOf(t).distribution = (IF Aggregated(t) THEN {} ELSE manifest.distribution)
<1>1. /\ InFor(t).packages = {PackageOf(t, f) : f \in Chosen}
      /\ InFor(t).distribution = manifest.distribution
      /\ DOMAIN InFor(t) = {"packages", "mode", "aggregate", "distribution"}
  BY InFacts
<1>2. Chosen # {}  BY ChosenFacts
<1>3. CASE Aggregated(t)
  <2>1. InputOf(t) = AggregateInput(InFor(t))  BY <1>3 DEF InputOf
  <2>2. InputOf(t).packages = {AggregatePackage(InFor(t))} /\ InputOf(t).distribution = {}
    BY <1>1, <2>1 DEF AggregateInput
  <2>3. \A f \in Chosen : Carrier(t, f) = AggregatePackage(InFor(t))  BY <1>3 DEF Carrier
  <2> QED  BY <1>2, <1>3, <2>2, <2>3
<1>4. CASE ~Aggregated(t)
  <2>1. InputOf(t) = [InFor(t) EXCEPT !.packages = PackagesFor(t, InFor(t))]  BY <1>4 DEF InputOf
  <2>2. InputOf(t).packages = PackagesFor(t, InFor(t)) /\ InputOf(t).distribution = InFor(t).distribution
    BY <1>1, <2>1
  <2>3. PackagesFor(t, InFor(t)) = {Carrier(t, f) : f \in Chosen}
    <3>1. CASE t = "codex"
      <4>1. PackagesFor(t, InFor(t)) = {WithoutAgentsOf(p) : p \in InFor(t).packages}
        BY <3>1 DEF PackagesFor, WithoutAgents, WithoutAgentsOf
      <4>2. \A f \in Chosen : Carrier(t, f) = WithoutAgentsOf(PackageOf(t, f))  BY <1>4, <3>1 DEF Carrier
      <4> QED  BY <1>1, <4>1, <4>2
    <3>2. CASE t # "codex"
      <4>1. PackagesFor(t, InFor(t)) = InFor(t).packages  BY <3>2 DEF PackagesFor
      <4>2. \A f \in Chosen : Carrier(t, f) = PackageOf(t, f)  BY <1>4, <3>2 DEF Carrier
      <4> QED  BY <1>1, <4>1, <4>2
    <3> QED  BY <3>1, <3>2
  <2> QED  BY <1>1, <1>4, <2>2, <2>3
<1> QED  BY <1>3, <1>4

\* There are as many packages as manifests, or one for all of them.
LEMMA CarriersCount ==
    ASSUME NEW t, Made(t), ~Aggregated(t)
    PROVE  Cardinality(InputOf(t).packages) = Cardinality(Chosen)
<1> DEFINE S == InputOf(t).packages
           of == [f \in Chosen |-> Carrier(t, f)]
<1>1. S = {Carrier(t, f) : f \in Chosen}  BY InputFacts
<1>2. \A f, g \in Chosen : Carrier(t, f) = Carrier(t, g) => f = g
  <2>1. \A f \in Chosen : Carrier(t, f).identity = ValueAt(tree, f).id  BY SeparateCarrier
  <2>2. \A f \in Chosen : f \in Manifests  BY RequestFacts DEF Made
  <2>3. \A f, g \in Manifests : ValueAt(tree, f).id = ValueAt(tree, g).id => f = g  BY RequestFacts DEF Made
  <2> QED  BY <2>1, <2>2, <2>3
<1>3. of \in Bijection(Chosen, S)
  <2>1. of \in [Chosen -> S]  BY <1>1
  <2>2. \A f \in Chosen : of[f] = Carrier(t, f)  OBVIOUS
  <2> HIDE DEF of, S
  <2>3. \A f, g \in Chosen : of[f] = of[g] => f = g  BY <1>2, <2>2
  <2>4. \A p \in S : \E f \in Chosen : of[f] = p  BY <1>1, <2>2
  <2> QED  BY <2>1, <2>3, <2>4 DEF Bijection, Injection, Surjection, IsInjective
<1>4. IsFiniteSet(Chosen)  BY ChosenFacts
<1> HIDE DEF of, S
<1>5. ExistsBijection(Chosen, S)  BY <1>3 DEF ExistsBijection
<1>6. Cardinality(S) = Cardinality(Chosen)  BY <1>4, <1>5, FS_Bijection
<1> QED  BY <1>6 DEF S

\* Where such a package is.
LEMMA CarrierRoot ==
    ASSUME NEW t, Made(t), NEW f \in Chosen
    PROVE  PackageRoot(InputOf(t).packages, Carrier(t, f)) = RootOf(t, f)
<1>1. CASE Aggregated(t)
  <2>1. InputOf(t).packages = {Carrier(t, g) : g \in Chosen}  BY InputFacts
  <2>2. \A g \in Chosen : Carrier(t, g) = Carrier(t, f)  BY <1>1 DEF Carrier
  <2>3. InputOf(t).packages = {Carrier(t, f)}  BY <2>1, <2>2
  <2>4. Cardinality(InputOf(t).packages) = 1  BY <2>3, FS_Singleton
  <2> QED  BY <1>1, <2>4 DEF PackageRoot, RootOf
<1>2. CASE ~Aggregated(t)
  BY <1>2, CarriersCount, SeparateCarrier DEF PackageRoot, RootOf
<1> QED  BY <1>1, <1>2

\* What such a package is made of.
LEMMA CarrierIsPlain ==
    ASSUME NEW t, Made(t), NEW f \in Chosen
    PROVE  /\ Plain(Carrier(t, f))
           /\ \A a \in Carrier(t, f).assets : \E g \in Chosen : \E e \in EntriesOf(t, g) : a = AssetIn(t, e)
           /\ \A e \in EntriesOf(t, f) : KindAt(e.path) # "agent" => AssetIn(t, e) \in Carrier(t, f).assets
<1>1. \A a \in Carrier(t, f).assets : \E g \in Chosen : a \in AssetsIn(t, g)
  <2>1. CASE Aggregated(t)  BY <2>1, AggregateCarrier
  <2>2. CASE ~Aggregated(t)  BY <2>2, SeparateCarrier
  <2> QED  BY <2>1, <2>2
<1>2. \A a \in Carrier(t, f).assets : \E g \in Chosen : \E e \in EntriesOf(t, g) : a = AssetIn(t, e)
  BY <1>1 DEF AssetsIn
<1>3. ASSUME NEW a \in Carrier(t, f).assets PROVE \A q \in DOMAIN a.content.files : IsSequence(q)
  <2>1. PICK g \in Chosen : \E e \in EntriesOf(t, g) : a = AssetIn(t, e)  BY <1>2
  <2>2. PICK e \in EntriesOf(t, g) : a = AssetIn(t, e)  BY <2>1
  <2>3. g \in Manifests /\ e \in Listed[g]  BY EntryFacts
  <2>4. \A q \in DOMAIN AssetIn(t, e).content.files : IsSequence(q)  BY <2>3, ContentFiles
  <2> QED  BY <2>2, <2>4
<1>4. ASSUME NEW e \in EntriesOf(t, f), KindAt(e.path) # "agent" PROVE AssetIn(t, e) \in Carrier(t, f).assets
  <2>1. AssetIn(t, e).kind # "agent"  BY <1>4, AssetInFacts
  <2>2. AssetIn(t, e) \in AssetsIn(t, f)  BY DEF AssetsIn
  <2>3. CASE Aggregated(t)  BY <2>2, <2>3, AggregateCarrier
  <2>4. CASE ~Aggregated(t)  BY <2>1, <2>2, <2>4, SeparateCarrier
  <2> QED  BY <2>3, <2>4
<1> QED  BY <1>2, <1>3, <1>4 DEF Plain

-----------------------------------------------------------------------------
(* What the plan of a target has, and where it comes from *)

\* An asset is in the plan of a target as it was rendered.
Ships(t, f, e) ==
    \E root, part :
        /\ Renders(part, root, AssetIn(t, e)) /\ Holds(plans[t].files, RootOf(t, f), part)
        /\ Packaged(t) => root = AssetRoot(CodecOf(t), AssetIn(t, e))

\* What a content in the plan of a target is made from.
IsMade(t, c) ==
    \/ c.form \in {"markdown", "hooks", "adapter", "runtime", "readme"}
    \/ \E f \in Chosen : \E e \in EntriesOf(t, f) : \E q \in DOMAIN AssetIn(t, e).content.files :
          c = Payload(AssetIn(t, e).content.files[q])
    \/ \E f \in Chosen : c = PackageManifest(Carrier(t, f))
    \/ Packaged(t) /\ HasCatalog(CodecOf(t), InputOf(t)) /\ c = Generated("catalog", Catalog(t, InputOf(t)))

\* Packages that are rendered fit.
LEMMA CarrierFits ==
    ASSUME NEW t, Made(t), Packaged(t), NEW f \in Chosen
    PROVE  /\ Carrier(t, f) \in InputOf(t).packages
           /\ ValidNormalizedPackage(Carrier(t, f)) /\ PackageFits(t, CodecOf(t), Carrier(t, f))
           /\ MadeOf(t, CodecOf(t), Carrier(t, f), PackageParts(t, CodecOf(t), Carrier(t, f)))
<1>1. Carrier(t, f) \in InputOf(t).packages  BY InputFacts
<1>2. ValidNormalizedPackage(Carrier(t, f)) /\ PackageFits(t, CodecOf(t), Carrier(t, f))
  BY <1>1, Installs DEF InstallableFits, ValidTargetRenderInput
<1> QED  BY <1>1, <1>2, PackagePartsFacts

\* What is rendered of packages has all of their parts and nothing else,
LEMMA PackagedHolds ==
    ASSUME NEW t, Made(t), Packaged(t)
    PROVE  /\ HoldsAll(t, CodecOf(t), InputOf(t), Rendered(t))
           /\ \A y \in DOMAIN Rendered(t) : ComesFrom(t, CodecOf(t), InputOf(t), Rendered(t), y)
<1>1. /\ InstallableFits(t, CodecOf(t), InputOf(t)) /\ PathsFit(CodecOf(t))
      /\ Rendered(t) = Merge(InstallableParts(t, CodecOf(t), InputOf(t)))
  BY Installs
<1>2. \A p \in InputOf(t).packages : Plain(p)
  <2>1. InputOf(t).packages = {Carrier(t, f) : f \in Chosen}  BY InputFacts
  <2>2. \A f \in Chosen : Plain(Carrier(t, f))  BY CarrierIsPlain
  <2> QED  BY <2>1, <2>2
<1> QED  BY <1>1, <1>2, Assembly

\* Each part of a package is below the package's root.
LEMMA PartIsHeld ==
    ASSUME NEW t, Made(t), Packaged(t), NEW f \in Chosen, NEW id \in DOMAIN PackageParts(t, CodecOf(t), Carrier(t, f))
    PROVE  Holds(plans[t].files, RootOf(t, f), PackageParts(t, CodecOf(t), Carrier(t, f))[id])
<1> DEFINE p == Carrier(t, f)
           part == PackageParts(t, CodecOf(t), p)[id]
<1>1. p \in InputOf(t).packages  BY CarrierFits
<1>2. PackageRoot(InputOf(t).packages, p) = RootOf(t, f)  BY CarrierRoot
<1>3. Holds(Rendered(t), PackageRoot(InputOf(t).packages, p), part)
  BY <1>1, PackagedHolds DEF HoldsAll
<1>4. \A x \in DOMAIN Rendered(t) : x \in DOMAIN plans[t].files /\ plans[t].files[x] = Rendered(t)[x]  BY Added
<1> HIDE DEF part, p
<1>5. Holds(plans[t].files, RootOf(t, f), part)  BY <1>2, <1>3, <1>4 DEF Holds
<1> QED  BY <1>5 DEF part, p

\* so it has each asset,
LEMMA PackagedShips ==
    ASSUME NEW t, Made(t), Packaged(t), NEW f \in Chosen, NEW e \in EntriesOf(t, f), KindAt(e.path) # "agent"
    PROVE  Ships(t, f, e)
<1> DEFINE a == AssetIn(t, e)
           p == Carrier(t, f)
           codec == CodecOf(t)
<1>1. a \in p.assets /\ Plain(p)  BY CarrierIsPlain
<1>2. ValidNormalizedPackage(p) /\ PackageFits(t, codec, p) /\ MadeOf(t, codec, p, PackageParts(t, codec, p))
  BY CarrierFits
<1>3. PathsFit(codec)  BY Installs
<1> HIDE DEF a, p, codec
<1>4. a.kind \in Kinds /\ AssetFits(t, codec, a) /\ \A q \in DOMAIN a.content.files : IsSequence(q)
  BY <1>1, <1>2 DEF ValidNormalizedPackage, ValidNormalizedAsset, ValidAssetIdentity, PackageFits, Plain
<1>5. Renders(AssetFiles(codec, a), AssetRoot(codec, a), a)  BY <1>3, <1>4, AssetIsRendered
<1>6. a.identity \in DOMAIN PackageParts(t, codec, p) /\ PackageParts(t, codec, p)[a.identity] = AssetFiles(codec, a)
  BY <1>1, <1>2 DEF MadeOf
<1>7. Holds(plans[t].files, RootOf(t, f), AssetFiles(codec, a))  BY <1>6, PartIsHeld DEF p, codec
<1> QED  BY <1>5, <1>7 DEF Ships, a, codec

\* A generated part, or an asset's.
LEMMA PartIsMade ==
    ASSUME NEW t, Made(t), Packaged(t), NEW f \in Chosen,
           NEW id \in DOMAIN PackageParts(t, CodecOf(t), Carrier(t, f)),
           NEW x \in DOMAIN PackageParts(t, CodecOf(t), Carrier(t, f))[id]
    PROVE  IsMade(t, PackageParts(t, CodecOf(t), Carrier(t, f))[id][x])
<1> DEFINE p == Carrier(t, f)
           codec == CodecOf(t)
           parts == PackageParts(t, codec, p)
<1>1. ValidNormalizedPackage(p) /\ PackageFits(t, codec, p) /\ MadeOf(t, codec, p, parts)
  BY CarrierFits
<1>2. Plain(p) /\ \A a \in p.assets : \E g \in Chosen : \E e \in EntriesOf(t, g) : a = AssetIn(t, e)
  BY CarrierIsPlain
<1>3. PathsFit(codec)  BY Installs
<1>4. id \in DOMAIN parts /\ x \in DOMAIN parts[id]  OBVIOUS
<1> HIDE DEF parts
<1>5. IsMade(t, parts[id][x])
  <2> HIDE DEF p, codec
  <2>1. \/ \E a \in p.assets : parts[id] = AssetFiles(codec, a)
        \/ parts[id] = HooksPart(t, codec, p) \/ parts[id] = ReadmePart(p) \/ parts[id] = ManifestPart(codec, p)
    BY <1>1, <1>4 DEF MadeOf
  <2>2. CASE \E a \in p.assets : parts[id] = AssetFiles(codec, a)
    <3>1. PICK a \in p.assets : parts[id] = AssetFiles(codec, a)  BY <2>2
    <3>2. a.kind \in Kinds /\ AssetFits(t, codec, a) /\ \A q \in DOMAIN a.content.files : IsSequence(q)
      BY <1>1, <1>2 DEF ValidNormalizedPackage, ValidNormalizedAsset, ValidAssetIdentity, PackageFits, Plain
    <3>3. Renders(AssetFiles(codec, a), AssetRoot(codec, a), a)  BY <1>3, <3>2, AssetIsRendered
    <3>4. parts[id][x].form = "markdown" \/ \E q \in DOMAIN a.content.files : parts[id][x] = Payload(a.content.files[q])
      BY <1>4, <3>1, <3>3 DEF Renders
    <3>5. PICK g \in Chosen : \E e \in EntriesOf(t, g) : a = AssetIn(t, e)  BY <1>2
    <3>6. PICK e \in EntriesOf(t, g) : a = AssetIn(t, e)  BY <3>5
    <3> QED  BY <3>4, <3>6 DEF IsMade
  <2>3. CASE parts[id] = HooksPart(t, codec, p)
    <3>1. DOMAIN HooksPart(t, codec, p) = {codec.hooks}
          /\ HooksPart(t, codec, p)[codec.hooks] = Generated("hooks", HookManifest(t, codec, p))
      BY AtFacts DEF HooksPart
    <3>2. parts[id][x].form = "hooks"  BY <1>4, <2>3, <3>1 DEF Generated
    <3> QED  BY <3>2 DEF IsMade
  <2>4. CASE parts[id] = ReadmePart(p)
    <3>1. DOMAIN ReadmePart(p) = {<<"README.md">>} /\ ReadmePart(p)[<<"README.md">>] = Generated("readme", p.identity)
      BY AtFacts DEF ReadmePart
    <3>2. parts[id][x].form = "readme"  BY <1>4, <2>4, <3>1 DEF Generated
    <3> QED  BY <3>2 DEF IsMade
  <2>5. CASE parts[id] = ManifestPart(codec, p)
    <3>1. DOMAIN ManifestPart(codec, p) = {codec.manifest} /\ ManifestPart(codec, p)[codec.manifest] = PackageManifest(p)
      BY AtFacts DEF ManifestPart
    <3>2. parts[id][x] = PackageManifest(p)  BY <1>4, <2>5, <3>1
    <3> QED  BY <3>2 DEF IsMade, p
  <2> QED  BY <2>1, <2>2, <2>3, <2>4, <2>5
<1> QED  BY <1>5 DEF parts

\* and what it has is made from them.
LEMMA PackagedIsMade ==
    ASSUME NEW t, Made(t), Packaged(t), NEW y \in DOMAIN Rendered(t)
    PROVE  IsMade(t, Rendered(t)[y])
<1> DEFINE in == InputOf(t)
           codec == CodecOf(t)
<1>1. ComesFrom(t, codec, in, Rendered(t), y)  BY PackagedHolds
<1>2. in.packages = {Carrier(t, f) : f \in Chosen}  BY InputFacts
<1> HIDE DEF in, codec
<1>3. CASE HasCatalog(codec, in) /\ y = CatalogPath(codec) /\ Rendered(t)[y] = Generated("catalog", Catalog(t, in))
  BY <1>3 DEF IsMade, in, codec
<1>4. CASE \E p \in in.packages : \E id \in DOMAIN PackageParts(t, codec, p) : \E x \in DOMAIN PackageParts(t, codec, p)[id] :
             y = PackageRoot(in.packages, p) \o x /\ Rendered(t)[y] = PackageParts(t, codec, p)[id][x]
  <2>1. PICK p \in in.packages : \E id \in DOMAIN PackageParts(t, codec, p) : \E x \in DOMAIN PackageParts(t, codec, p)[id] :
             Rendered(t)[y] = PackageParts(t, codec, p)[id][x]
    BY <1>4
  <2>2. PICK id \in DOMAIN PackageParts(t, codec, p) : \E x \in DOMAIN PackageParts(t, codec, p)[id] :
             Rendered(t)[y] = PackageParts(t, codec, p)[id][x]
    BY <2>1
  <2>3. PICK x \in DOMAIN PackageParts(t, codec, p)[id] : Rendered(t)[y] = PackageParts(t, codec, p)[id][x]  BY <2>2
  <2>4. PICK f \in Chosen : p = Carrier(t, f)  BY <1>2
  <2>5. id \in DOMAIN PackageParts(t, CodecOf(t), Carrier(t, f))  BY <2>4 DEF codec
  <2>6. x \in DOMAIN PackageParts(t, CodecOf(t), Carrier(t, f))[id]  BY <2>4 DEF codec
  <2>7. IsMade(t, PackageParts(t, CodecOf(t), Carrier(t, f))[id][x])  BY <2>5, <2>6, PartIsMade
  <2> QED  BY <2>3, <2>4, <2>7 DEF codec
<1> QED  BY <1>1, <1>3, <1>4 DEF ComesFrom

-----------------------------------------------------------------------------
(* Projects *)

\* A project's manifest, if it has one.
ProjectPart(t, p) == [f \in ProjectManifest(t) |-> PackageManifest(p)]

\* The parts of a project: those of its assets, and a manifest.
IsMadeOf(t, p, parts) ==
    /\ DOMAIN parts = {a.identity : a \in p.assets} \cup {<<"", "manifest">>}
    /\ \A a \in p.assets : parts[a.identity] = ProjectAssetFiles(t, a)
    /\ parts[<<"", "manifest">>] = ProjectPart(t, p)

\* A valid project is made of its parts,
LEMMA ProjectPartsFacts ==
    ASSUME NEW t, NEW p, ValidNormalizedPackage(p)
    PROVE  IsMadeOf(t, p, ProjectParts(t, p))
<1> DEFINE of(id) == CHOOSE a \in p.assets : a.identity = id
           ids == {a.identity : a \in p.assets}
           own == [id \in ids |-> ProjectAssetFiles(t, of(id))]
           last == At(<<"", "manifest">>, ProjectPart(t, p))
           parts == ProjectParts(t, p)
<1>1. parts = own ++ last  BY DEF ProjectParts, ProjectPart
<1>2. \A a, b \in p.assets : a.identity = b.identity => a = b  BY DEF ValidNormalizedPackage
<1>3. \A a \in p.assets : of(a.identity) = a
  <2> SUFFICES ASSUME NEW a \in p.assets PROVE of(a.identity) = a
    OBVIOUS
  <2>1. of(a.identity) \in p.assets /\ of(a.identity).identity = a.identity  OBVIOUS
  <2> QED  BY <1>2, <2>1
<1>4. \A id \in ids : id # <<"", "manifest">>  BY AssetNames
<1>5. DOMAIN own = ids /\ \A a \in p.assets : own[a.identity] = ProjectAssetFiles(t, a)
  <2>1. DOMAIN own = ids  OBVIOUS
  <2>2. \A a \in p.assets : a.identity \in ids  OBVIOUS
  <2>3. \A id \in ids : own[id] = ProjectAssetFiles(t, of(id))  OBVIOUS
  <2> HIDE DEF of, ids, own
  <2>4. \A a \in p.assets : own[a.identity] = ProjectAssetFiles(t, a)  BY <1>3, <2>2, <2>3
  <2> QED  BY <2>1, <2>4
<1>6. DOMAIN last = {<<"", "manifest">>} /\ last[<<"", "manifest">>] = ProjectPart(t, p)  BY AtFacts
<1> HIDE DEF own, last
<1>7. /\ DOMAIN (own ++ last) = DOMAIN own \cup DOMAIN last
      /\ \A x \in DOMAIN own : (own ++ last)[x] = own[x]
      /\ \A x \in DOMAIN last \ DOMAIN own : (own ++ last)[x] = last[x]
  BY BothFacts
<1> HIDE DEF parts, ids
<1>8. \A a \in p.assets : a.identity \in ids  BY DEF ids
<1>9. \A a \in p.assets : parts[a.identity] = ProjectAssetFiles(t, a)  BY <1>1, <1>5, <1>7, <1>8
<1>10. parts[<<"", "manifest">>] = ProjectPart(t, p)  BY <1>1, <1>4, <1>5, <1>6, <1>7
<1>11. DOMAIN parts = ids \cup {<<"", "manifest">>}  BY <1>1, <1>5, <1>6, <1>7
<1> QED  BY <1>9, <1>10, <1>11 DEF parts, ids, IsMadeOf

\* A project has one package, that of the only manifest that is chosen.
LEMMA OneProject ==
    ASSUME NEW t, Made(t), ~Packaged(t), NEW f \in Chosen
    PROVE  LET p == Carrier(t, f) IN
           /\ Rendered(t) = Merge(ProjectParts(t, p))
           /\ ValidNormalizedPackage(p) /\ PartsApart(ProjectParts(t, p)) /\ \A a \in p.assets : ProjectAssetFits(t, a)
           /\ IsMadeOf(t, p, ProjectParts(t, p))
           /\ RootOf(t, f) = <<>>
<1> DEFINE S == PackagesFor(t, InFor(t))
           p == Carrier(t, f)
<1>1. ~Aggregated(t)  BY DEF Packaged
<1>2. S = InputOf(t).packages /\ S = {Carrier(t, g) : g \in Chosen}  BY <1>1, InputFacts
<1>3. ProjectFits(t, S) /\ Rendered(t) = Merge(ProjectParts(t, CHOOSE q \in S : TRUE))  BY IsProject
<1> HIDE DEF S, p
<1>4. Cardinality(S) = 1  BY <1>3 DEF ProjectFits
<1>5. p \in S  BY <1>2 DEF p
<1>6. S = {p}
  <2>1. IsFiniteSet(S)
    <3>1. IsFiniteSet(Chosen)  BY ChosenFacts
    <3> DEFINE of == [g \in Chosen |-> Carrier(t, g)]
    <3>2. \A g \in Chosen : of[g] = Carrier(t, g)  OBVIOUS
    <3>3. of = [g \in Chosen |-> of[g]]  OBVIOUS
    <3> HIDE DEF of
    <3>4. IsFiniteSet({of[g] : g \in Chosen})  BY <3>1, <3>3, FiniteImage
    <3>5. {of[g] : g \in Chosen} = S  BY <1>2, <3>2
    <3> QED  BY <3>4, <3>5
  <2>2. \E x : S = {x}  BY <1>4, <2>1, FS_Singleton
  <2> QED  BY <1>5, <2>2
<1>7. (CHOOSE q \in S : TRUE) = p  BY <1>6
<1>8. ValidNormalizedPackage(p) /\ PartsApart(ProjectParts(t, p)) /\ \A a \in p.assets : ProjectAssetFits(t, a)
  BY <1>3, <1>5 DEF ProjectFits
<1>9. Cardinality(Chosen) = 1  BY <1>1, <1>2, <1>4, CarriersCount
<1>10. RootOf(t, f) = <<>>  BY <1>9 DEF RootOf
<1>11. IsMadeOf(t, p, ProjectParts(t, p))  BY <1>8, ProjectPartsFacts
<1> QED  BY <1>3, <1>7, <1>8, <1>10, <1>11 DEF p

\* has each asset,
LEMMA ProjectShips ==
    ASSUME NEW t, Made(t), ~Packaged(t), NEW f \in Chosen, NEW e \in EntriesOf(t, f), KindAt(e.path) # "agent"
    PROVE  Ships(t, f, e)
<1> DEFINE a == AssetIn(t, e)
           p == Carrier(t, f)
           parts == ProjectParts(t, p)
<1>1. /\ Rendered(t) = Merge(parts) /\ PartsApart(parts) /\ \A b \in p.assets : ProjectAssetFits(t, b)
      /\ IsMadeOf(t, p, parts) /\ RootOf(t, f) = <<>>
  BY OneProject
<1>2. a \in p.assets /\ Plain(p)  BY CarrierIsPlain
<1> HIDE DEF a, p, parts
<1>3. \A q \in DOMAIN a.content.files : IsSequence(q)  BY <1>2 DEF Plain
<1>4. PICK root : Renders(ProjectAssetFiles(t, a), root, a)  BY <1>1, <1>2, <1>3, ProjectAssetIsRendered
<1>5. a.identity \in DOMAIN parts /\ parts[a.identity] = ProjectAssetFiles(t, a)  BY <1>1, <1>2 DEF IsMadeOf
<1>6. \A x \in DOMAIN ProjectAssetFiles(t, a) :
         x \in DOMAIN Merge(parts) /\ Merge(parts)[x] = parts[a.identity][x]
  BY <1>1, <1>5, MergeHas
<1>7. \A x \in DOMAIN ProjectAssetFiles(t, a) : <<>> \o x = x  BY <1>4, JoinedEmpty DEF Renders
<1>8. \A x \in DOMAIN Rendered(t) : x \in DOMAIN plans[t].files /\ plans[t].files[x] = Rendered(t)[x]  BY Added
<1>9. Holds(plans[t].files, <<>>, ProjectAssetFiles(t, a))  BY <1>1, <1>5, <1>6, <1>7, <1>8 DEF Holds
<1> QED  BY <1>1, <1>4, <1>9 DEF Ships, a

\* and what it has is made from them.
LEMMA ProjectIsMade ==
    ASSUME NEW t, Made(t), ~Packaged(t), NEW y \in DOMAIN Rendered(t)
    PROVE  IsMade(t, Rendered(t)[y])
<1>1. PICK f : f \in Chosen  BY ChosenFacts
<1> DEFINE p == Carrier(t, f)
           parts == ProjectParts(t, p)
<1>2. /\ Rendered(t) = Merge(parts) /\ PartsApart(parts) /\ \A b \in p.assets : ProjectAssetFits(t, b)
      /\ IsMadeOf(t, p, parts)
  BY <1>1, OneProject
<1>3. Plain(p) /\ \A a \in p.assets : \E g \in Chosen : \E e \in EntriesOf(t, g) : a = AssetIn(t, e)
  BY <1>1, CarrierIsPlain
<1> HIDE DEF parts, p
<1>4. PICK id \in DOMAIN parts : y \in DOMAIN parts[id] /\ Merge(parts)[y] = parts[id][y]  BY <1>2, MergeComes
<1>5. (\E a \in p.assets : parts[id] = ProjectAssetFiles(t, a)) \/ parts[id] = ProjectPart(t, p)
  BY <1>2, <1>4 DEF IsMadeOf
<1>6. CASE \E a \in p.assets : parts[id] = ProjectAssetFiles(t, a)
  <2>1. PICK a \in p.assets : parts[id] = ProjectAssetFiles(t, a)  BY <1>6
  <2>2. \A q \in DOMAIN a.content.files : IsSequence(q)  BY <1>3 DEF Plain
  <2>3. PICK root : Renders(ProjectAssetFiles(t, a), root, a)  BY <1>2, <2>2, ProjectAssetIsRendered
  <2>4. Rendered(t)[y].form = "markdown" \/ \E q \in DOMAIN a.content.files : Rendered(t)[y] = Payload(a.content.files[q])
    BY <1>2, <1>4, <2>1, <2>3 DEF Renders
  <2>5. PICK g \in Chosen : \E e \in EntriesOf(t, g) : a = AssetIn(t, e)  BY <1>3
  <2>6. PICK e \in EntriesOf(t, g) : a = AssetIn(t, e)  BY <2>5
  <2> QED  BY <2>4, <2>6 DEF IsMade
<1>7. CASE parts[id] = ProjectPart(t, p)
  <2>1. y \in ProjectManifest(t) /\ parts[id][y] = PackageManifest(p)  BY <1>4, <1>7 DEF ProjectPart
  <2> QED  BY <1>1, <1>2, <1>4, <2>1 DEF IsMade, p
<1> QED  BY <1>5, <1>6, <1>7

-----------------------------------------------------------------------------
(* Both together *)

\* A plan has every asset that its target takes, agents apart,
LEMMA PlanShips ==
    ASSUME NEW t, Made(t), NEW f \in Chosen, NEW e \in EntriesOf(t, f), KindAt(e.path) # "agent"
    PROVE  Ships(t, f, e)
  BY PackagedShips, ProjectShips

\* and everything in it is made from something chosen.
LEMMA PlanIsMade ==
    ASSUME NEW t, Made(t), NEW y \in DOMAIN plans[t].files
    PROVE  IsMade(t, plans[t].files[y])
<1>1. CASE y \in DOMAIN Rendered(t)
  <2>1. plans[t].files[y] = Rendered(t)[y]  BY <1>1, Added
  <2>2. IsMade(t, Rendered(t)[y])  BY <1>1, PackagedIsMade, ProjectIsMade
  <2> QED  BY <2>1, <2>2
<1>2. CASE y \notin DOMAIN Rendered(t)
  <2>1. plans[t].files[y].form \in {"markdown", "hooks", "adapter", "runtime"}  BY <1>2, Added
  <2> QED  BY <2>1 DEF IsMade
<1> QED  BY <1>1, <1>2

\* A payload is a file of an asset that the target takes.
LEMMA PayloadsOfPlan ==
    ASSUME NEW t, Made(t), NEW data
    PROVE  data \in PayloadsOf(t) <=>
              \E y \in DOMAIN plans[t].files : plans[t].files[y].form = "payload" /\ plans[t].files[y].value = data
  BY DEF PayloadsOf

-----------------------------------------------------------------------------
(* OthersStayOut *)

\* A payload is a file of such an asset's.
LEMMA PayloadComes ==
    ASSUME NEW t, Made(t), NEW data \in PayloadsOf(t)
    PROVE  \E f \in Chosen : \E e \in EntriesOf(t, f) : \E q \in DOMAIN AssetIn(t, e).content.files :
              data = AssetIn(t, e).content.files[q]
<1>1. PICK y \in DOMAIN plans[t].files : plans[t].files[y].form = "payload" /\ plans[t].files[y].value = data
  BY PayloadsOfPlan
<1> DEFINE c == plans[t].files[y]
<1>2. IsMade(t, c)  BY PlanIsMade
<1> HIDE DEF c
<1>3. c.form = "payload" /\ c.value = data  BY <1>1 DEF c
<1>4. PICK f \in Chosen : \E e \in EntriesOf(t, f) : \E q \in DOMAIN AssetIn(t, e).content.files :
          c = Payload(AssetIn(t, e).content.files[q])
  BY <1>2, <1>3 DEF IsMade, PackageManifest, Generated
<1>5. PICK e \in EntriesOf(t, f) : \E q \in DOMAIN AssetIn(t, e).content.files :
          c = Payload(AssetIn(t, e).content.files[q])
  BY <1>4
<1>6. PICK q \in DOMAIN AssetIn(t, e).content.files : c = Payload(AssetIn(t, e).content.files[q])  BY <1>5
<1>7. data = AssetIn(t, e).content.files[q]  BY <1>3, <1>6 DEF Payload
<1> QED  BY <1>7

\* The files that a target's asset may have.
FilesFor(t, e) ==
    {tree[e.path \o rel].data : rel \in Files(tree, e.path) \cup {x \in {<<>>} : IsFile(tree, e.path)}}
    \cup BroughtData(t, e)
    \cup {OverlayValue(t, e).files[f] : f \in DOMAIN OverlayValue(t, e).files}

\* A file of an asset for a target is the asset's own or the overlay's.
LEMMA FileIsOfAsset ==
    ASSUME NEW t, Made(t), NEW f \in Chosen, NEW e \in EntriesOf(t, f), NEW q \in DOMAIN AssetIn(t, e).content.files
    PROVE  AssetIn(t, e).content.files[q] \in FilesFor(t, e)
<1> DEFINE base == AssetContent(tree, e.path).files
           files == AssetIn(t, e).content.files
<1>1. f \in Manifests /\ e \in Listed[f] /\ Selects /\ t \in DOMAIN Codecs  BY EntryFacts DEF Made
<1>2. Overlaid(t, e, base, files)  BY <1>1, ContentFiles
<1>3. \A p \in DOMAIN base : base[p] \in
         {tree[e.path \o rel].data : rel \in Files(tree, e.path) \cup {x \in {<<>>} : IsFile(tree, e.path)}}
  BY <1>1, BaseFiles
<1>4. /\ DOMAIN Own(t, e) = Brought(t, e) \cup DOMAIN OverlayValue(t, e).files
      /\ \A p \in Brought(t, e) : Own(t, e)[p] = tree[OverlayFiles(tree, e.path, t) \o p].data
      /\ \A p \in DOMAIN Own(t, e) \ Brought(t, e) : Own(t, e)[p] = OverlayValue(t, e).files[p]
  BY <1>1, OwnFacts
<1>5. q \in DOMAIN files  OBVIOUS
<1> HIDE DEF base, files
<1>6. CASE q \in Brought(t, e)
  <2>1. files[q] = tree[OverlayFiles(tree, e.path, t) \o q].data  BY <1>2, <1>4, <1>6 DEF Overlaid
  <2>2. files[q] \in BroughtData(t, e)  BY <1>6, <2>1 DEF BroughtData
  <2> QED  BY <2>2 DEF FilesFor, files
<1>7. CASE q \in DOMAIN Own(t, e) \ Brought(t, e)
  <2>1. files[q] = OverlayValue(t, e).files[q] /\ q \in DOMAIN OverlayValue(t, e).files  BY <1>2, <1>4, <1>7 DEF Overlaid
  <2> QED  BY <2>1 DEF FilesFor, files
<1>8. CASE q \notin DOMAIN Own(t, e)
  <2>1. files[q] = base[q] /\ q \in DOMAIN base  BY <1>2, <1>5, <1>8 DEF Overlaid
  <2>2. files[q] \in {tree[e.path \o rel].data : rel \in Files(tree, e.path) \cup {x \in {<<>>} : IsFile(tree, e.path)}}
    BY <1>3, <2>1
  <2> QED  BY <2>2 DEF FilesFor, files
<1> QED  BY <1>4, <1>6, <1>7, <1>8

\* So payloads come from nowhere else.
LEMMA KnownStayOut == Known => OthersStayOut
<1> SUFFICES ASSUME Known, plan # {}, NEW t \in DOMAIN plans, NEW data \in PayloadsOf(t)
             PROVE  data \in UNION {FilesFor(t, e) : e \in AllEntries(t)}
  BY DEF OthersStayOut, Planned, FilesFor
<1>1. Made(t)  BY PlansAreMade
<1>2. PICK f \in Chosen : \E e \in EntriesOf(t, f) : \E q \in DOMAIN AssetIn(t, e).content.files :
              data = AssetIn(t, e).content.files[q]
  BY <1>1, PayloadComes
<1>3. PICK e \in EntriesOf(t, f) : \E q \in DOMAIN AssetIn(t, e).content.files : data = AssetIn(t, e).content.files[q]
  BY <1>2
<1>4. data \in FilesFor(t, e)  BY <1>1, <1>3, FileIsOfAsset
<1>5. e \in AllEntries(t)  BY DEF AllEntries
<1> QED  BY <1>4, <1>5

\* OthersStayOut: no file of another target's is in a plan (assetSelectedForTarget,
\* resolveNativeGaps, overlayForTarget).
THEOREM OthersAreOut == Spec => []OthersStayOut
<1>1. Known => OthersStayOut  BY KnownStayOut
<1> QED  BY <1>1, KnownAlways, PTL

-----------------------------------------------------------------------------
(* NothingIsLost *)

\* There is nothing below a file.
LEMMA NothingBelowFile ==
    ASSUME NEW T, WellFormedTree(T), NEW path, IsFile(T, path)
    PROVE  Files(T, path) = {}
<1> SUFFICES ASSUME NEW rel \in Files(T, path) PROVE FALSE
  OBVIOUS
<1>1. PICK q \in DOMAIN T : IsStrictPrefix(path, q)  BY DEF Files, Entries
<1>2. T[path].kind = "directory"  BY <1>1 DEF WellFormedTree, IsFile
<1> QED  BY <1>2 DEF IsFile

\* The files of an author are among those of the asset.
LEMMA AuthoredAreKept ==
    ASSUME Selects, NEW f \in Manifests, NEW e \in Listed[f], KindAt(e.path) # "agent", NEW rel \in AuthoredFiles(e)
    PROVE  rel \in DOMAIN AssetContent(tree, e.path).files
           /\ AssetContent(tree, e.path).files[rel] = tree[e.path \o rel].data
<1> DEFINE path == e.path
<1>1. AssetImports(tree, path) /\ WellFormedTree(tree)  BY ListedFacts, RequestFacts
<1>2. rel \in Files(tree, path)  BY DEF AuthoredFiles
<1>3. ~IsFile(tree, path)  BY <1>1, <1>2, NothingBelowFile
<1>4. KindAt(path) \in Kinds  BY Kinds1
<1>5. HasFiles(tree, path)
  <2>1. MainFits(tree, path)  BY <1>1 DEF AssetImports
  <2>2. KindAt(path) # "command"  BY <1>3, <2>1 DEF MainFits, Decodes
  <2>3. CASE KindAt(path) = "hook"
    <3>1. Decodes(tree, MainFile(path), "hook")  BY <2>1, <2>3 DEF MainFits
    <3>2. ~SingleFileHook(path)  BY <1>3, <2>3, <3>1 DEF MainFile, Decodes
    <3> QED  BY <2>3, <3>2 DEF HasFiles
  <2>4. CASE KindAt(path) = "native-resource"
    <3>1. IsFile(tree, path) \/ IsDir(tree, path)  BY <2>1, <2>4 DEF MainFits
    <3> QED  BY <1>3, <2>4, <3>1 DEF HasFiles
  <2>5. CASE KindAt(path) \in {"skill", "resource"}  BY <2>5 DEF HasFiles
  <2> QED  BY <1>4, <2>2, <2>3, <2>4, <2>5 DEF Kinds
<1>6. rel \in SupportFiles(tree, path)
  <2>1. ~Passed(path, rel)  BY DEF AuthoredFiles, Passed, InSidecar, Ignored
  <2>2. rel \notin {<<"SKILL.md">>, <<"hook.json">>}  BY DEF AuthoredFiles
  <2>3. KindAt(path) = "hook" => ~Verbatim(path)  BY DEF Verbatim
  <2> QED  BY <1>2, <1>5, <2>1, <2>2, <2>3 DEF SupportFiles
<1>7. /\ DOMAIN AssetContent(tree, path).files = SupportFiles(tree, path)
      /\ \A p \in DOMAIN AssetContent(tree, path).files : AssetContent(tree, path).files[p] = tree[path \o p].data
  BY <1>3, BaseFiles
<1> QED  BY <1>6, <1>7

\* The files of an asset are payloads of the plan.
LEMMA FilesAreShipped ==
    ASSUME NEW t, Made(t), NEW f \in Chosen, NEW e \in EntriesOf(t, f), KindAt(e.path) # "agent",
           NEW q \in DOMAIN AssetIn(t, e).content.files
    PROVE  AssetIn(t, e).content.files[q] \in PayloadsOf(t)
<1> DEFINE a == AssetIn(t, e)
<1>0. a.kind # "agent"  BY AssetInFacts
<1>1. PICK root, part : Renders(part, root, a) /\ Holds(plans[t].files, RootOf(t, f), part)
  BY PlanShips DEF Ships
<1> HIDE DEF a
<1>2. q \in DOMAIN a.content.files  BY DEF a
<1>3. root \o q \in DOMAIN part /\ part[root \o q] = Payload(a.content.files[q])  BY <1>0, <1>1, <1>2 DEF Renders
<1> DEFINE y == RootOf(t, f) \o (root \o q)
<1>4. y \in DOMAIN plans[t].files /\ plans[t].files[y] = Payload(a.content.files[q])  BY <1>1, <1>3 DEF Holds
<1> HIDE DEF y
<1>5. plans[t].files[y].form = "payload" /\ plans[t].files[y].value = a.content.files[q]  BY <1>4 DEF Payload
<1>6. a.content.files[q] \in PayloadsOf(t)  BY <1>4, <1>5, PayloadsOfPlan
<1> QED  BY <1>6 DEF a

\* They are in the plan unless the overlay says otherwise.
LEMMA KnownNotLost == Known => NothingIsLost
<1> SUFFICES ASSUME Known, plan # {}, NEW t \in DOMAIN plans, NEW e \in AllEntries(t), KindAt(e.path) # "agent",
                    NEW data \in {tree[e.path \o rel].data :
                       rel \in AuthoredFiles(e) \ (DOMAIN OverlayValue(t, e).files \cup ToSet(OverlayValue(t, e).deletedFiles)
                                                   \cup Brought(t, e))} \cup BroughtData(t, e)
             PROVE  data \in PayloadsOf(t)
  BY DEF NothingIsLost, Planned
<1>1. Made(t)  BY PlansAreMade
<1>2. PICK f \in Chosen : e \in EntriesOf(t, f)  BY DEF AllEntries
<1> DEFINE base == AssetContent(tree, e.path).files
           files == AssetIn(t, e).content.files
           changed == DOMAIN OverlayValue(t, e).files \cup ToSet(OverlayValue(t, e).deletedFiles) \cup Brought(t, e)
<1>3. f \in Manifests /\ e \in Listed[f] /\ Selects /\ t \in DOMAIN Codecs  BY <1>1, <1>2, EntryFacts DEF Made
<1>4. Overlaid(t, e, base, files)  BY <1>1, <1>3, ContentFiles
<1>5. /\ DOMAIN Own(t, e) = Brought(t, e) \cup DOMAIN OverlayValue(t, e).files
      /\ \A p \in Brought(t, e) : Own(t, e)[p] = tree[OverlayFiles(tree, e.path, t) \o p].data
  BY <1>3, OwnFacts
<1>6. \A rel \in AuthoredFiles(e) : rel \in DOMAIN base /\ base[rel] = tree[e.path \o rel].data
  BY <1>3, AuthoredAreKept
<1>7. \A q \in DOMAIN files : files[q] \in PayloadsOf(t)  BY <1>1, <1>2, FilesAreShipped
<1> HIDE DEF base, files
<1>8. CASE data \in BroughtData(t, e)
  <2>1. PICK rel \in Brought(t, e) : data = tree[OverlayFiles(tree, e.path, t) \o rel].data  BY <1>8 DEF BroughtData
  <2>2. rel \in DOMAIN files /\ files[rel] = data  BY <1>4, <1>5, <2>1 DEF Overlaid
  <2> QED  BY <1>7, <2>2
<1>9. CASE data \in {tree[e.path \o rel].data : rel \in AuthoredFiles(e) \ changed}
  <2>1. PICK rel \in AuthoredFiles(e) \ changed : data = tree[e.path \o rel].data  BY <1>9
  <2>2. rel \in DOMAIN base /\ base[rel] = data  BY <1>6, <2>1
  <2>3. rel \in DOMAIN files /\ rel \notin DOMAIN Own(t, e)  BY <1>4, <1>5, <2>1, <2>2 DEF Overlaid
  <2>4. files[rel] = data  BY <1>4, <2>2, <2>3 DEF Overlaid
  <2> QED  BY <1>7, <2>3, <2>4
<1> QED  BY <1>8, <1>9

\* NothingIsLost: every file of an asset that a target takes is in its plan
\* (readSupportFiles, applyOverlay, renderAsset).
THEOREM NothingGetsLost == Spec => []NothingIsLost
<1>1. Known => NothingIsLost  BY KnownNotLost
<1> QED  BY <1>1, KnownAlways, PTL

-----------------------------------------------------------------------------
(* CatalogsFindPackages *)

\* Any codec of a target has its paths.
LEMMA CodecFacts ==
    ASSUME NEW t, Made(t)
    PROVE  /\ CodecOf(t).manifest = Codecs[t].manifest /\ CodecOf(t).catalog = Codecs[t].catalog
           /\ t # "pi" => CodecOf(t) = Codecs[t]
<1>1. Codecs["pi"] = PiAggregate  BY DEF Codecs
<1>2. PiSeparate.manifest = PiAggregate.manifest /\ PiSeparate.catalog = PiAggregate.catalog
  BY DEF PiAggregate, PiSeparate
<1>3. CASE Aggregated(t)
  <2>1. t = "pi" /\ CodecOf(t) = PiAggregate  BY <1>3, AggregatesArePi DEF CodecOf
  <2> QED  BY <1>1, <2>1
<1>4. CASE ~Aggregated(t)
  <2>1. CodecOf(t) = CodecFor(t, InFor(t))  BY <1>4 DEF CodecOf
  <2>2. (CodecFor(t, InFor(t)) = PiSeparate /\ t = "pi") \/ CodecFor(t, InFor(t)) = Codecs[t]  BY DEF CodecFor
  <2> QED  BY <1>1, <1>2, <2>1, <2>2
<1> QED  BY <1>3, <1>4

\* A package has its manifest where a catalog leads to.
LEMMA ManifestIsHeld ==
    ASSUME NEW t, Made(t), Packaged(t), NEW f \in Chosen
    PROVE  /\ ManifestAt(t, RootOf(t, f)) \in DOMAIN plans[t].files
           /\ plans[t].files[ManifestAt(t, RootOf(t, f))] = PackageManifest(Carrier(t, f))
<1> DEFINE p == Carrier(t, f)
           codec == CodecOf(t)
           id == <<"", "manifest">>
<1>1. MadeOf(t, codec, p, PackageParts(t, codec, p))  BY CarrierFits
<1>2. codec.manifest = Codecs[t].manifest  BY CodecFacts
<1>3. id \in DOMAIN PackageParts(t, codec, p) /\ PackageParts(t, codec, p)[id] = ManifestPart(codec, p)
  BY <1>1 DEF MadeOf
<1>4. Holds(plans[t].files, RootOf(t, f), PackageParts(t, codec, p)[id])  BY <1>3, PartIsHeld
<1>5. DOMAIN ManifestPart(codec, p) = {codec.manifest} /\ ManifestPart(codec, p)[codec.manifest] = PackageManifest(p)
  BY AtFacts DEF ManifestPart
<1> HIDE DEF p, codec, id
<1>6. /\ RootOf(t, f) \o codec.manifest \in DOMAIN plans[t].files
      /\ plans[t].files[RootOf(t, f) \o codec.manifest] = PackageManifest(p)
  BY <1>3, <1>4, <1>5 DEF Holds
<1> QED  BY <1>2, <1>6 DEF ManifestAt, p

\* Where a distribution has a version, a package has it too.
LEMMA VersionIsReleased ==
    ASSUME Selects, NEW metadata
    PROVE  \A v \in Released : "version" \in DOMAIN WithVersion(metadata) /\ WithVersion(metadata)["version"] = v
<1> SUFFICES ASSUME NEW v \in Released
             PROVE  "version" \in DOMAIN WithVersion(metadata) /\ WithVersion(metadata)["version"] = v
  OBVIOUS
<1>1. \A u, w \in Released : u = w
  <2>1. IsOptional(manifest.distribution)  BY RequestFacts
  <2>2. \A d, e \in manifest.distribution : d = e  BY <2>1 DEF IsOptional
  <2>3. \A u \in Released : \E d \in manifest.distribution : u = d["version"]  BY DEF Released
  <2> QED  BY <2>2, <2>3
<1> DEFINE chosen == CHOOSE u \in Released : TRUE
           one == At("version", chosen)
<1>2. chosen \in Released  OBVIOUS
<1>3. chosen = v  BY <1>1, <1>2
<1>4. DOMAIN one = {"version"} /\ one["version"] = chosen  BY AtFacts
<1>5. WithVersion(metadata) = one ++ metadata  BY DEF WithVersion
<1> HIDE DEF one, chosen
<1>6. DOMAIN (one ++ metadata) = DOMAIN one \cup DOMAIN metadata /\ \A x \in DOMAIN one : (one ++ metadata)[x] = one[x]
  BY BothFacts
<1> QED  BY <1>3, <1>4, <1>5, <1>6

\* A package has the version of the distribution.
LEMMA CarrierVersion ==
    ASSUME NEW t, Made(t), NEW f \in Chosen
    PROVE  \E metadata : Carrier(t, f).metadata = WithVersion(metadata)
<1>1. CASE Aggregated(t)
  <2> DEFINE of(a) == [a EXCEPT !.metadata = WithVersion(@)]
             chosen == CHOOSE a \in InFor(t).aggregate : TRUE
  <2>1. InFor(t).aggregate = {of(a) : a \in Rules(t).aggregate}  BY InFacts
  <2>2. InFor(t).aggregate # {}
    <3>1. InFor(t).mode = "aggregate"  BY <1>1, InFacts
    <3>2. ValidTargetRenderInput(InFor(t))  BY DEF Made, RenderFits
    <3> QED  BY <3>1, <3>2 DEF ValidTargetRenderInput
  <2>3. chosen \in InFor(t).aggregate  BY <2>2
  <2>4. PICK a \in Rules(t).aggregate : chosen = of(a)  BY <2>1, <2>3
  <2>5. DOMAIN a = {"identity", "metadata"}  BY RulesFacts DEF Made
  <2>6. of(a).metadata = WithVersion(a.metadata)  BY <2>5
  <2>7. Carrier(t, f).metadata = chosen.metadata  BY <1>1, AggregateCarrier DEF AggregatePackage
  <2> QED  BY <2>4, <2>6, <2>7
<1>2. CASE ~Aggregated(t)
  BY <1>2, SeparateCarrier
<1> QED  BY <1>1, <1>2

\* What a package's manifest says.
LEMMA ManifestSays ==
    ASSUME NEW p
    PROVE  /\ PackageManifest(p).form = "manifest" /\ PackageManifest(p).value.name = p.identity
           /\ "version" \in DOMAIN p.metadata => PackageManifest(p).value.version = {p.metadata["version"]}
<1>1. PackageManifest(p).value.version = {p.metadata[k] : k \in {"version"} \cap DOMAIN p.metadata}
  BY DEF PackageManifest, Generated
<1>2. ASSUME "version" \in DOMAIN p.metadata
      PROVE  {p.metadata[k] : k \in {"version"} \cap DOMAIN p.metadata} = {p.metadata["version"]}
  <2>1. {"version"} \cap DOMAIN p.metadata = {"version"}  BY <1>2
  <2> QED  BY <2>1
<1> QED  BY <1>1, <1>2 DEF PackageManifest, Generated

\* An entry of a catalog is of a package of its input,
LEMMA EntryOf ==
    ASSUME NEW t, NEW in, NEW e \in Catalog(t, in)
    PROVE  \E p \in in.packages :
              /\ e.name = p.identity /\ e.source = PackageRoot(in.packages, p)
              /\ e.version \subseteq {p.metadata["version"]}
<1> DEFINE of(p) == IF t = "codex" THEN [CatalogEntry(in, p) EXCEPT !.version = {}] ELSE CatalogEntry(in, p)
<1>1. Catalog(t, in) = {of(p) : p \in in.packages}  BY DEF Catalog
<1>2. PICK p \in in.packages : e = of(p)  BY <1>1
<1>3. /\ of(p).name = p.identity /\ of(p).source = PackageRoot(in.packages, p)
      /\ of(p).version \subseteq {p.metadata["version"]}
  BY DEF CatalogEntry
<1> QED  BY <1>2, <1>3

\* and each of these has one.
LEMMA AllListed ==
    ASSUME NEW t, NEW in
    PROVE  {e.name : e \in Catalog(t, in)} = {p.identity : p \in in.packages}
<1> DEFINE of(p) == IF t = "codex" THEN [CatalogEntry(in, p) EXCEPT !.version = {}] ELSE CatalogEntry(in, p)
<1>1. Catalog(t, in) = {of(p) : p \in in.packages}  BY DEF Catalog
<1>2. \A p \in in.packages : of(p).name = p.identity  BY DEF CatalogEntry
<1> HIDE DEF of
<1> QED  BY <1>1, <1>2

\* A catalog leads to the packages,
LEMMA CatalogsLead ==
    ASSUME NEW t, Made(t), NEW path \in DOMAIN plans[t].files, plans[t].files[path].form = "catalog"
    PROVE  /\ {e.name : e \in plans[t].files[path].value} = {ValueAt(tree, f).id : f \in Chosen}
           /\ \A e \in plans[t].files[path].value :
                 /\ ManifestAt(t, e.source) \in DOMAIN plans[t].files
                 /\ plans[t].files[ManifestAt(t, e.source)].value.name = e.name
                 /\ e.version \subseteq plans[t].files[ManifestAt(t, e.source)].value.version
<1> DEFINE c == plans[t].files[path]
           in == InputOf(t)
<1>1. IsMade(t, c) /\ c.form = "catalog"  BY PlanIsMade
<1> HIDE DEF c
<1>2. Packaged(t) /\ HasCatalog(CodecOf(t), in) /\ c = Generated("catalog", Catalog(t, in))
  BY <1>1 DEF IsMade, Payload, PackageManifest, Generated
<1>3. c.value = Catalog(t, in)  BY <1>2 DEF Generated
<1>4. ~Aggregated(t)  BY <1>2, InputFacts DEF HasCatalog
<1>5. in.packages = {Carrier(t, f) : f \in Chosen}  BY InputFacts
<1>6. \A f \in Chosen : Carrier(t, f).identity = ValueAt(tree, f).id  BY <1>4, SeparateCarrier
<1>7. {p.identity : p \in in.packages} = {ValueAt(tree, f).id : f \in Chosen}  BY <1>5, <1>6
<1>8. ASSUME NEW e \in Catalog(t, in)
      PROVE  /\ ManifestAt(t, e.source) \in DOMAIN plans[t].files
             /\ plans[t].files[ManifestAt(t, e.source)].value.name = e.name
             /\ e.version \subseteq plans[t].files[ManifestAt(t, e.source)].value.version
  <2>1. PICK p \in in.packages :
              /\ e.name = p.identity /\ e.source = PackageRoot(in.packages, p)
              /\ e.version \subseteq {p.metadata["version"]}
    BY EntryOf
  <2>2. PICK f \in Chosen : p = Carrier(t, f)  BY <1>5, <2>1
  <2>3. e.source = RootOf(t, f)  BY <2>1, <2>2, CarrierRoot
  <2>4. /\ ManifestAt(t, RootOf(t, f)) \in DOMAIN plans[t].files
        /\ plans[t].files[ManifestAt(t, RootOf(t, f))] = PackageManifest(p)
    BY <1>2, <2>2, ManifestIsHeld
  <2>5. "version" \in DOMAIN p.metadata
    <3>1. CatalogFits(in) /\ in.distribution # {}  BY <1>2, Installs DEF InstallableFits, HasCatalog
    <3>2. PICK d : d \in in.distribution  BY <3>1
    <3>3. Published(p.metadata, PublicationKeys)  BY <2>1, <3>1, <3>2 DEF CatalogFits
    <3> QED  BY <3>3 DEF Published, PublicationKeys
  <2>6. PackageManifest(p).value.name = p.identity /\ PackageManifest(p).value.version = {p.metadata["version"]}
    BY <2>5, ManifestSays
  <2> QED  BY <2>1, <2>3, <2>4, <2>6
<1>9. {e.name : e \in Catalog(t, in)} = {p.identity : p \in in.packages}  BY AllListed
<1> HIDE DEF in
<1>10. {e.name : e \in c.value} = {ValueAt(tree, f).id : f \in Chosen}  BY <1>3, <1>7, <1>9
<1> QED  BY <1>3, <1>8, <1>10 DEF c

\* every manifest has the version of the distribution,
LEMMA ManifestsAreReleased ==
    ASSUME NEW t, Made(t), NEW path \in DOMAIN plans[t].files, plans[t].files[path].form = "manifest"
    PROVE  Released \subseteq plans[t].files[path].value.version
<1> DEFINE c == plans[t].files[path]
<1>1. IsMade(t, c) /\ c.form = "manifest"  BY PlanIsMade
<1> HIDE DEF c
<1>2. PICK f \in Chosen : c = PackageManifest(Carrier(t, f))  BY <1>1 DEF IsMade, Payload, Generated
<1>3. PICK metadata : Carrier(t, f).metadata = WithVersion(metadata)  BY CarrierVersion
<1>4. ASSUME NEW v \in Released PROVE v \in c.value.version
  <2>1. "version" \in DOMAIN WithVersion(metadata) /\ WithVersion(metadata)["version"] = v
    BY VersionIsReleased DEF Made
  <2>2. PackageManifest(Carrier(t, f)).value.version = {Carrier(t, f).metadata["version"]}  BY <1>3, <2>1, ManifestSays
  <2> QED  BY <1>2, <1>3, <2>1, <2>2
<1> QED  BY <1>4 DEF c

\* and what the vendor checks is there.
LEMMA ChecksFind ==
    ASSUME NEW t, Made(t), NEW root \in plans[t].checks
    PROVE  ManifestAt(t, root) \in DOMAIN plans[t].files
           \/ {root \o c : c \in Codecs[t].catalog} \cap DOMAIN plans[t].files # {}
<1>1. root \in NativeChecks(t, InFor(t))  BY DEF Made, Render
<1>2. Installable(InFor(t).packages) /\ t \in {"claude", "grok", "antigravity"}  BY <1>1 DEF NativeChecks
<1>3. Packaged(t) /\ t # "pi" /\ t # "codex"  BY <1>2 DEF Packaged
<1>4. ~Aggregated(t)  BY <1>3, AggregatesArePi
<1>5. CASE t = "claude" /\ InFor(t).distribution # {}
  <2>1. root = <<>>  BY <1>1, <1>2, <1>5 DEF NativeChecks
  <2> DEFINE codec == CodecOf(t)
             in == InputOf(t)
  <2>2. codec = Codecs[t] /\ codec.catalog # {}  BY <1>3, <1>5, CodecFacts DEF Codecs, Claude
  <2>3. in.distribution = InFor(t).distribution  BY <1>4, InputFacts, InFacts
  <2>4. HasCatalog(codec, in)  BY <1>5, <2>2, <2>3 DEF HasCatalog
  <2>5. Holds(Rendered(t), <<>>, CatalogPart(t, codec, in))  BY <1>3, <2>4, PackagedHolds DEF HoldsAll
  <2> HIDE DEF codec, in
  <2>6. DOMAIN CatalogPart(t, codec, in) = {CatalogPath(codec)}  BY AtFacts DEF CatalogPart
  <2>7. <<>> \o CatalogPath(codec) \in DOMAIN Rendered(t)  BY <2>5, <2>6 DEF Holds
  <2>8. <<>> \o CatalogPath(codec) \in DOMAIN plans[t].files  BY <2>7, Added
  <2>9. CatalogPath(codec) \in Codecs[t].catalog  BY <2>2 DEF CatalogPath
  <2> QED  BY <2>1, <2>8, <2>9
<1>6. CASE ~(t = "claude" /\ InFor(t).distribution # {})
  <2>1. PICK p \in InFor(t).packages : root = PackageRoot(InFor(t).packages, p)  BY <1>1, <1>2, <1>6 DEF NativeChecks
  <2>2. InputOf(t).packages = InFor(t).packages  BY <1>3, <1>4, InputFacts DEF PackagesFor
  <2>3. InputOf(t).packages = {Carrier(t, f) : f \in Chosen}  BY InputFacts
  <2>4. PICK f \in Chosen : p = Carrier(t, f)  BY <2>1, <2>2, <2>3
  <2>5. root = RootOf(t, f)  BY <2>1, <2>2, <2>4, CarrierRoot
  <2> QED  BY <1>3, <2>5, ManifestIsHeld
<1> QED  BY <1>5, <1>6

\* These are the conjuncts of CatalogsFindPackages.
LEMMA KnownCatalogs == Known => CatalogsFindPackages
<1> SUFFICES ASSUME Known, plan # {}, NEW t \in DOMAIN plans
             PROVE  LET files == plans[t].files IN
        /\ \A path \in {p \in DOMAIN files : files[p].form = "catalog"} :
              /\ {e.name : e \in files[path].value} = {ValueAt(tree, f).id : f \in Chosen}
              /\ \A e \in files[path].value :
                    /\ ManifestAt(t, e.source) \in DOMAIN files
                    /\ files[ManifestAt(t, e.source)].value.name = e.name
                    /\ e.version \subseteq files[ManifestAt(t, e.source)].value.version
        /\ CompositionFor(t).profile = "package" =>
              \A path \in {p \in DOMAIN files : files[p].form = "manifest"} :
                 Released \subseteq files[path].value.version
        /\ \A root \in plans[t].checks :
              ManifestAt(t, root) \in DOMAIN files \/ {root \o c : c \in Codecs[t].catalog} \cap DOMAIN files # {}
  BY DEF CatalogsFindPackages, Planned
<1>1. Made(t)  BY PlansAreMade
<1> QED  BY <1>1, CatalogsLead, ManifestsAreReleased, ChecksFind

\* CatalogsFindPackages: catalogs, manifests and native checks agree
\* (marketplace.Build, applyDistributionVersion, nativeChecks).
THEOREM CatalogsLeadToPackages == Spec => []CatalogsFindPackages
<1>1. Known => CatalogsFindPackages  BY KnownCatalogs
<1> QED  BY <1>1, KnownAlways, PTL

-----------------------------------------------------------------------------
(* Sorting a finite set *)

\* A strict total order of a set, as a set of pairs.
Orders(R, S) ==
    /\ \A x \in S : <<x, x>> \notin R
    /\ \A x, y, z \in S : <<x, y>> \in R /\ <<y, z>> \in R => <<x, z>> \in R
    /\ \A x, y \in S : x # y => <<x, y>> \in R \/ <<y, x>> \in R

\* The place of an element: how many come before it, and itself.
LEMMA Ranks ==
    ASSUME NEW S, IsFiniteSet(S), NEW R, Orders(R, S)
    PROVE  \E rank \in [S -> 1..Cardinality(S)] : \A x, y \in S : <<x, y>> \in R => rank[x] < rank[y]
<1> DEFINE upTo(x) == {y \in S : y = x \/ <<y, x>> \in R}
           rank == [x \in S |-> Cardinality(upTo(x))]
<1>1. ASSUME NEW x \in S
      PROVE  IsFiniteSet(upTo(x)) /\ Cardinality(upTo(x)) \in 1..Cardinality(S)
  <2>1. upTo(x) \in SUBSET S /\ upTo(x) # {}  OBVIOUS
  <2> HIDE DEF upTo
  <2>2. IsFiniteSet(upTo(x)) /\ Cardinality(upTo(x)) <= Cardinality(S)  BY <2>1, FS_Subset
  <2>3. Cardinality(upTo(x)) \in Nat /\ Cardinality(S) \in Nat  BY <2>2, FS_CardinalityType
  <2>4. Cardinality(upTo(x)) # 0  BY <2>1, <2>2, FS_EmptySet
  <2> QED  BY <2>2, <2>3, <2>4
<1>2. ASSUME NEW x \in S, NEW y \in S, <<x, y>> \in R
      PROVE  Cardinality(upTo(x)) < Cardinality(upTo(y))
  <2>1. upTo(x) \in SUBSET upTo(y)  BY <1>2 DEF Orders
  <2>2. y \in upTo(y) /\ y \notin upTo(x)  BY <1>2 DEF Orders
  <2>3. IsFiniteSet(upTo(y)) /\ Cardinality(upTo(x)) \in 1..Cardinality(S) /\ Cardinality(upTo(y)) \in 1..Cardinality(S)
    BY <1>1
  <2> HIDE DEF upTo
  <2>4. upTo(x) # upTo(y)  BY <2>2
  <2>5. Cardinality(upTo(x)) <= Cardinality(upTo(y)) /\ Cardinality(upTo(x)) # Cardinality(upTo(y))
    BY <2>1, <2>3, <2>4, FS_Subset
  <2>6. Cardinality(S) \in Nat  BY FS_CardinalityType
  <2> QED  BY <2>3, <2>5, <2>6
<1>3. \A x \in S : rank[x] = Cardinality(upTo(x))  OBVIOUS
<1>4. rank \in [S -> 1..Cardinality(S)]  BY <1>1
<1> HIDE DEF rank, upTo
<1>5. \A x, y \in S : <<x, y>> \in R => rank[x] < rank[y]  BY <1>2, <1>3
<1> QED  BY <1>4, <1>5

\* A finite set can be sorted by any order, by the ranks of its elements.
LEMMA Sorts ==
    ASSUME NEW S, IsFiniteSet(S), NEW R, Orders(R, S)
    PROVE  \E s \in SetToSeqs(S) : \A i, j \in DOMAIN s : i < j => <<s[j], s[i]>> \notin R
<1> DEFINE n == Cardinality(S)
<1>1. n \in Nat  BY FS_CardinalityType
<1>2. PICK rank \in [S -> 1..n] : \A x, y \in S : <<x, y>> \in R => rank[x] < rank[y]  BY Ranks
<1>3. \A x \in S : rank[x] \in 1..n  BY <1>2
<1> HIDE DEF n
<1>4. \A x, y \in S : rank[x] = rank[y] => x = y
  <2> SUFFICES ASSUME NEW x \in S, NEW y \in S, x # y PROVE rank[x] # rank[y]
    OBVIOUS
  <2>1. <<x, y>> \in R \/ <<y, x>> \in R  BY DEF Orders
  <2>2. rank[x] < rank[y] \/ rank[y] < rank[x]  BY <1>2, <2>1
  <2> QED  BY <1>1, <1>3, <2>2
<1>5. rank \in Surjection(S, 1..n)
  <2>1. rank \in Injection(S, 1..n)  BY <1>2, <1>4 DEF Injection, IsInjective
  <2>2. IsFiniteSet(1..n) /\ Cardinality(1..n) = n  BY <1>1, FS_Interval
  <2> QED  BY <2>1, <2>2, FS_Injection DEF n
<1>6. \A i \in 1..n : \E x \in S : rank[x] = i  BY <1>5 DEF Surjection
<1> DEFINE s == [i \in 1..n |-> CHOOSE x \in S : rank[x] = i]
<1>7. \A i \in 1..n : s[i] \in S /\ rank[s[i]] = i  BY <1>6
<1>8. DOMAIN s = 1..n /\ s \in [1..n -> S]  BY <1>6
<1> HIDE DEF s
<1>9. s \in SetToSeqs(S)
  <2>1. \A i, j \in 1..n : i # j => s[i] # s[j]  BY <1>7
  <2> QED  BY <1>8, <2>1 DEF SetToSeqs, n
<1>10. ASSUME NEW i \in DOMAIN s, NEW j \in DOMAIN s, i < j PROVE <<s[j], s[i]>> \notin R
  <2>1. rank[s[i]] = i /\ rank[s[j]] = j /\ s[i] \in S /\ s[j] \in S  BY <1>7, <1>8
  <2>2. ~(rank[s[j]] < rank[s[i]])  BY <1>1, <1>8, <1>10, <2>1
  <2> QED  BY <1>2, <2>1, <2>2
<1> QED  BY <1>9, <1>10

\* A list of a finite set has each element at one place.
LEMMA ListedOnce ==
    ASSUME NEW S, IsFiniteSet(S), NEW s \in SetToSeqs(S)
    PROVE  /\ Len(s) = Cardinality(S) /\ DOMAIN s = 1..Cardinality(S) /\ Cardinality(S) \in Nat
           /\ \A i \in DOMAIN s : s[i] \in S
           /\ \A i, j \in DOMAIN s : i # j => s[i] # s[j]
           /\ \A x \in S : \E i \in DOMAIN s : s[i] = x
<1> DEFINE n == Cardinality(S)
<1>1. n \in Nat  BY FS_CardinalityType
<1>2. s \in [1..n -> S] /\ \A i, j \in 1..n : i # j => s[i] # s[j]  BY DEF SetToSeqs
<1>3. IsFiniteSet(1..n) /\ Cardinality(1..n) = n  BY <1>1, FS_Interval
<1>4. s \in Injection(1..n, S)  BY <1>2 DEF Injection, IsInjective
<1>5. s \in Surjection(1..n, S)  BY <1>3, <1>4, FS_Injection
<1>6. Len(s) = n  BY <1>1, <1>2
<1> QED  BY <1>1, <1>2, <1>5, <1>6 DEF Surjection

-----------------------------------------------------------------------------
(* The hooks that a package registers *)

\* The hooks that a target takes with a package.
OwnHooks(t, f) == IF Aggregated(t) THEN UNION {HookEntriesOf(t, g) : g \in Chosen} ELSE HookEntriesOf(t, f)
\* What an author declared of a hook.
Declared(e) == ValueAt(tree, MainFile(e.path))

\* The hooks of a package are those of the manifests in it.
LEMMA OwnHooksFacts ==
    ASSUME NEW t, Made(t), NEW f \in Chosen
    PROVE  /\ \A e \in OwnHooks(t, f) : KindAt(e.path) = "hook" /\
                 \E g \in Chosen : e \in EntriesOf(t, g) /\ RootOf(t, g) = RootOf(t, f) /\ (~Aggregated(t) => g = f)
           /\ IsFiniteSet(OwnHooks(t, f))
<1>1. ASSUME NEW e \in OwnHooks(t, f)
      PROVE  KindAt(e.path) = "hook" /\
                 \E g \in Chosen : e \in EntriesOf(t, g) /\ RootOf(t, g) = RootOf(t, f) /\ (~Aggregated(t) => g = f)
  BY DEF OwnHooks, HookEntriesOf, RootOf
<1>2. \A g \in Chosen : IsFiniteSet(HookEntriesOf(t, g))
  <2> SUFFICES ASSUME NEW g \in Chosen PROVE IsFiniteSet(HookEntriesOf(t, g))
    OBVIOUS
  <2>1. g \in Manifests /\ IsFiniteSet(Listed[g])  BY RequestFacts, ListedFacts DEF Made
  <2>2. HookEntriesOf(t, g) \in SUBSET Listed[g]  BY <2>1, RequestFacts DEF Made, HookEntriesOf, EntriesOf
  <2> QED  BY <2>1, <2>2, FS_Subset
<1>3. IsFiniteSet(UNION {HookEntriesOf(t, g) : g \in Chosen})
  <2> DEFINE of == [g \in Chosen |-> HookEntriesOf(t, g)]
  <2>1. of = [g \in Chosen |-> of[g]] /\ IsFiniteSet(Chosen)  BY ChosenFacts
  <2>2. {of[g] : g \in Chosen} = {HookEntriesOf(t, g) : g \in Chosen}  OBVIOUS
  <2> HIDE DEF of
  <2>3. IsFiniteSet({HookEntriesOf(t, g) : g \in Chosen})  BY <2>1, <2>2, FiniteImage
  <2>4. \A S \in {HookEntriesOf(t, g) : g \in Chosen} : IsFiniteSet(S)  BY <1>2
  <2> QED  BY <2>3, <2>4, FS_UNION
<1>4. IsFiniteSet(OwnHooks(t, f))  BY <1>2, <1>3 DEF OwnHooks
<1> QED  BY <1>1, <1>4

\* What is decoded of a hook, and where its name comes.
LEMMA DecodedHook ==
    ASSUME NEW t, Made(t), NEW f \in Chosen, NEW e \in OwnHooks(t, f)
    PROVE  /\ WellFormedHook(Declared(e)) /\ NameAt(e.path) \in DOMAIN NameOrder
           /\ AssetIn(t, e).kind = "hook" /\ AssetIn(t, e).identity = <<"hook", NameAt(e.path)>>
           /\ HookOf(AssetIn(t, e)) = HookAt(tree, e.path)
<1>1. KindAt(e.path) = "hook"  BY OwnHooksFacts
<1>2. PICK g \in Chosen : e \in EntriesOf(t, g)  BY OwnHooksFacts
<1>3. Selects /\ g \in Manifests /\ e \in Listed[g]  BY <1>2, EntryFacts DEF Made
<1>4. WellFormedTree(tree) /\ PackageFileFits(tree, g) /\ Listed[g] = ToSet(ValueAt(tree, g).assets)
  BY <1>3, RequestFacts
<1>5. WellFormedPackage(ValueAt(tree, g))
  <2>1. IsFile(tree, g) /\ tree[g].data.form = "package"  BY <1>4 DEF PackageFileFits, Decodes
  <2> QED  BY <1>4, <2>1 DEF WellFormedTree, WellFormedData, IsFile, ValueAt
<1>6. NameAt(e.path) \in DOMAIN NameOrder /\ AssetImports(tree, e.path)
  <2>1. AssetImports(tree, e.path)  BY <1>3, ListedFacts
  <2> QED  BY <1>1, <1>3, <1>4, <1>5, <2>1 DEF WellFormedPackage, AssetImports
<1>7. WellFormedHook(Declared(e))
  <2>1. Decodes(tree, MainFile(e.path), "hook")  BY <1>1, <1>6 DEF AssetImports, MainFits
  <2> QED  BY <1>4, <2>1 DEF WellFormedTree, WellFormedData, IsFile, ValueAt, Decodes, Declared
<1>8. AssetIn(t, e).kind = "hook" /\ AssetIn(t, e).identity = <<"hook", NameAt(e.path)>>
      /\ AssetIn(t, e).hook = {HookAt(tree, e.path)}
  BY <1>1, AssetInFacts DEF IdentityAt
<1>9. HookOf(AssetIn(t, e)) = HookAt(tree, e.path)
  <2> DEFINE a == AssetIn(t, e)
             h == HookAt(tree, e.path)
  <2>1. a.hook = {h}  BY <1>8
  <2> HIDE DEF a, h
  <2>2. HookOf(a) = h  BY <2>1 DEF HookOf
  <2> QED  BY <2>2 DEF a, h
<1> QED  BY <1>6, <1>7, <1>8, <1>9

\* They are the hooks of the package that is rendered.
LEMMA HooksOfCarrier ==
    ASSUME NEW t, Made(t), NEW f \in Chosen
    PROVE  HookAssets(Carrier(t, f)) = {AssetIn(t, e) : e \in OwnHooks(t, f)}
<1>1. \A e : AssetIn(t, e).kind = KindAt(e.path)  BY AssetInFacts
<1>2. CASE Aggregated(t)
  <2>1. Carrier(t, f).assets = UNION {AssetsIn(t, g) : g \in Chosen}  BY <1>2, AggregateCarrier
  <2>2. ASSUME NEW a \in HookAssets(Carrier(t, f)) PROVE a \in {AssetIn(t, e) : e \in OwnHooks(t, f)}
    <3>1. a.kind = "hook" /\ a \in Carrier(t, f).assets  BY DEF HookAssets
    <3>2. PICK g \in Chosen : a \in AssetsIn(t, g)  BY <2>1, <3>1
    <3>3. PICK e \in EntriesOf(t, g) : a = AssetIn(t, e)  BY <3>2 DEF AssetsIn
    <3>4. KindAt(e.path) = "hook"  BY <1>1, <3>1, <3>3
    <3>5. e \in HookEntriesOf(t, g)  BY <3>3, <3>4 DEF HookEntriesOf
    <3>6. e \in OwnHooks(t, f)  BY <1>2, <3>5 DEF OwnHooks
    <3> QED  BY <3>3, <3>6
  <2>3. ASSUME NEW e \in OwnHooks(t, f) PROVE AssetIn(t, e) \in HookAssets(Carrier(t, f))
    <3>1. PICK g \in Chosen : e \in HookEntriesOf(t, g)  BY <1>2 DEF OwnHooks
    <3>2. e \in EntriesOf(t, g) /\ KindAt(e.path) = "hook"  BY <3>1 DEF HookEntriesOf
    <3>3. AssetIn(t, e) \in AssetsIn(t, g)  BY <3>2 DEF AssetsIn
    <3>4. AssetIn(t, e) \in Carrier(t, f).assets  BY <2>1, <3>3
    <3>5. AssetIn(t, e).kind = "hook"  BY <1>1, <3>2
    <3> QED  BY <3>4, <3>5 DEF HookAssets
  <2> QED  BY <2>2, <2>3
<1>3. CASE ~Aggregated(t)
  <2>1. Carrier(t, f).assets = {a \in AssetsIn(t, f) : t = "codex" => a.kind # "agent"}  BY <1>3, SeparateCarrier
  <2>2. OwnHooks(t, f) = {e \in EntriesOf(t, f) : KindAt(e.path) = "hook"}  BY <1>3 DEF OwnHooks, HookEntriesOf
  <2>3. HookAssets(Carrier(t, f)) = {a \in AssetsIn(t, f) : a.kind = "hook"}  BY <2>1 DEF HookAssets
  <2> QED  BY <1>1, <2>2, <2>3 DEF AssetsIn
<1> QED  BY <1>2, <1>3

\* Only packages have hooks.
LEMMA HooksArePackaged ==
    ASSUME NEW t, Made(t), NEW f \in Chosen, OwnHooks(t, f) # {}
    PROVE  Packaged(t) /\ CodecOf(t) = Codecs[t]
<1>1. PICK e \in OwnHooks(t, f) : TRUE  OBVIOUS
<1> DEFINE a == AssetIn(t, e)
           p == Carrier(t, f)
<1>2. a \in p.assets /\ a.kind = "hook"  BY HooksOfCarrier DEF HookAssets
<1>3. Packaged(t)
  <2> SUFFICES ASSUME ~Packaged(t) PROVE FALSE
    OBVIOUS
  <2>1. ProjectAssetFits(t, a)  BY <1>2, OneProject
  <2>2. "hook" \in DOMAIN ProjectRoots(t)  BY <1>2, <2>1 DEF ProjectAssetFits
  <2>3. DOMAIN ProjectRoots(t) \subseteq {"skill", "command", "resource"}  BY DEF ProjectRoots
  <2> QED  BY <2>2, <2>3
<1>4. PackageFits(t, CodecOf(t), p)  BY <1>3, CarrierFits
<1> HIDE DEF a, p
<1>5. CodecOf(t).payloads # {}  BY <1>2, <1>4 DEF PackageFits, AssetFits
<1>6. CodecOf(t) # PiSeparate  BY <1>5 DEF PiSeparate
<1>7. Codecs["pi"] = PiAggregate  BY DEF Codecs
<1> QED  BY <1>3, <1>6, <1>7, AggregatesArePi DEF CodecOf, CodecFor

\* Two hooks that a package registers have two names.
LEMMA HooksApart ==
    ASSUME NEW t, Made(t), NEW f \in Chosen, NEW e \in OwnHooks(t, f), NEW d \in OwnHooks(t, f),
           IdentityAt(e.path) = IdentityAt(d.path)
    PROVE  e = d
<1>1. PICK g \in Chosen : e \in EntriesOf(t, g) /\ (~Aggregated(t) => g = f)  BY OwnHooksFacts
<1>2. PICK h \in Chosen : d \in EntriesOf(t, h) /\ (~Aggregated(t) => h = f)  BY OwnHooksFacts
<1>3. AssetIn(t, e).identity = AssetIn(t, d).identity  BY AssetInFacts
<1>4. g = h
  <2>1. CASE ~Aggregated(t)  BY <1>1, <1>2, <2>1
  <2>2. CASE Aggregated(t)
    <3>1. AssetNamesApart(InFor(t).packages)
      <4>1. InFor(t).mode = "aggregate"  BY <2>2, InFacts
      <4> QED  BY <4>1 DEF Made, RenderFits
    <3>2. PackageOf(t, g) \in InFor(t).packages /\ PackageOf(t, h) \in InFor(t).packages
      <4>1. InFor(t).packages = {PackageOf(t, x) : x \in Chosen}  BY InFacts
      <4> QED  BY <4>1
    <3>3. AssetIn(t, e) \in PackageOf(t, g).assets /\ AssetIn(t, d) \in PackageOf(t, h).assets
      <4>1. PackageOf(t, g).assets = AssetsIn(t, g)  BY PackageOfFacts
      <4>2. PackageOf(t, h).assets = AssetsIn(t, h)  BY PackageOfFacts
      <4> QED  BY <1>1, <1>2, <4>1, <4>2 DEF AssetsIn
    <3>4. PackageOf(t, g) = PackageOf(t, h)
      <4> DEFINE p == PackageOf(t, g)
                 q == PackageOf(t, h)
                 x == AssetIn(t, e)
                 y == AssetIn(t, d)
      <4>1. x.identity \in {a.identity : a \in p.assets} /\ y.identity \in {a.identity : a \in q.assets}  BY <3>3
      <4> HIDE DEF p, q, x, y
      <4>2. x.identity = y.identity  BY <1>3 DEF x, y
      <4>3. p \in InFor(t).packages /\ q \in InFor(t).packages  BY <3>2 DEF p, q
      <4>4. p = q  BY <3>1, <4>1, <4>2, <4>3 DEF AssetNamesApart
      <4> QED  BY <4>4 DEF p, q
    <3> QED  BY <3>4, EntriesApart
  <2> QED  BY <2>1, <2>2
<1> QED  BY <1>1, <1>2, <1>3, <1>4, EntriesApart

-----------------------------------------------------------------------------
(* Their order *)

\* Hooks are compared by their declared order, then by name:
LEMMA HookLessFacts ==
    ASSUME NEW t, Made(t), NEW f \in Chosen, NEW e \in OwnHooks(t, f), NEW d \in OwnHooks(t, f)
    PROVE  HookLess(AssetIn(t, e), AssetIn(t, d)) <=> Precedes(e, d)
<1>1. HookOf(AssetIn(t, e)) = HookAt(tree, e.path) /\ HookOf(AssetIn(t, d)) = HookAt(tree, d.path)  BY DecodedHook
<1>2. HookAt(tree, e.path).order = Declared(e).order /\ HookAt(tree, d.path).order = Declared(d).order
  BY DEF HookAt, Declared
<1>3. AssetIn(t, e).identity = <<"hook", NameAt(e.path)>> /\ AssetIn(t, d).identity = <<"hook", NameAt(d.path)>>
  BY DecodedHook
<1>4. AssetIn(t, e).identity[2] = NameAt(e.path) /\ AssetIn(t, d).identity[2] = NameAt(d.path)  BY <1>3
<1> QED  BY <1>1, <1>2, <1>4 DEF HookLess, Precedes, Declared

\* that is an order, for no two hooks of a package have the same name.
LEMMA PrecedenceOrders ==
    ASSUME NEW t, Made(t), NEW f \in Chosen, NEW R, R = {x \in OwnHooks(t, f) \X OwnHooks(t, f) : Precedes(x[1], x[2])}
    PROVE  Orders(R, OwnHooks(t, f))
<1> DEFINE S == OwnHooks(t, f)
           order == [e \in S |-> Declared(e).order]
           place == [e \in S |-> NameOrder[NameAt(e.path)]]
<1>1. \A e, d \in S : <<e, d>> \in R <=> Precedes(e, d)  OBVIOUS
<1>2. \A e \in S : order[e] \in Int /\ place[e] \in Nat
  BY DecodedHook, NameOrderAssumption DEF WellFormedHook
<1>3. \A e, d \in S : place[e] = place[d] => e = d
  <2> SUFFICES ASSUME NEW e \in S, NEW d \in S, place[e] = place[d] PROVE e = d
    OBVIOUS
  <2>1. NameAt(e.path) \in DOMAIN NameOrder /\ NameAt(d.path) \in DOMAIN NameOrder  BY DecodedHook
  <2>2. NameAt(e.path) = NameAt(d.path)  BY <2>1, NameOrderAssumption DEF IsInjective
  <2>3. KindAt(e.path) = "hook" /\ KindAt(d.path) = "hook"  BY OwnHooksFacts
  <2>4. IdentityAt(e.path) = IdentityAt(d.path)  BY <2>2, <2>3 DEF IdentityAt
  <2> QED  BY <2>4, HooksApart
<1>4. \A e, d \in S : Precedes(e, d) <=> order[e] < order[d] \/ (order[e] = order[d] /\ place[e] < place[d])
  BY DEF Precedes, Declared
<1> HIDE DEF order, place, S
<1>5. \A x \in S : <<x, x>> \notin R  BY <1>1, <1>2, <1>4
<1>6. \A x, y, z \in S : <<x, y>> \in R /\ <<y, z>> \in R => <<x, z>> \in R
  <2> SUFFICES ASSUME NEW x \in S, NEW y \in S, NEW z \in S, Precedes(x, y), Precedes(y, z) PROVE Precedes(x, z)
    BY <1>1
  <2>1. /\ order[x] < order[y] \/ (order[x] = order[y] /\ place[x] < place[y])
        /\ order[y] < order[z] \/ (order[y] = order[z] /\ place[y] < place[z])
    BY <1>4
  <2>2. /\ order[x] \in Int /\ order[y] \in Int /\ order[z] \in Int
        /\ place[x] \in Nat /\ place[y] \in Nat /\ place[z] \in Nat
    BY <1>2
  <2>3. order[x] < order[z] \/ (order[x] = order[z] /\ place[x] < place[z])  BY <2>1, <2>2
  <2> QED  BY <1>4, <2>3
<1>7. \A x, y \in S : x # y => <<x, y>> \in R \/ <<y, x>> \in R
  <2> SUFFICES ASSUME NEW x \in S, NEW y \in S, x # y PROVE Precedes(x, y) \/ Precedes(y, x)
    BY <1>1
  <2>1. order[x] \in Int /\ order[y] \in Int /\ place[x] \in Nat /\ place[y] \in Nat /\ place[x] # place[y]
    BY <1>2, <1>3
  <2>2. \/ order[x] < order[y] \/ (order[x] = order[y] /\ place[x] < place[y])
        \/ order[y] < order[x] \/ (order[y] = order[x] /\ place[y] < place[x])
    BY <2>1
  <2> QED  BY <1>4, <2>2
<1> QED  BY <1>5, <1>6, <1>7 DEF Orders, S

\* The hooks of a package, each once, in their order.
LEMMA HooksAreSorted ==
    ASSUME NEW t, Made(t), NEW f \in Chosen
    PROVE  LET s == SortedHooks(HookAssets(Carrier(t, f))) IN
           /\ Len(s) = Cardinality(OwnHooks(t, f)) /\ DOMAIN s = 1..Len(s)
           /\ \A i \in DOMAIN s : \E e \in OwnHooks(t, f) : s[i] = AssetIn(t, e)
           /\ \A e \in OwnHooks(t, f) : \E i \in DOMAIN s : s[i] = AssetIn(t, e)
           /\ \A i, j \in DOMAIN s : \A e, d \in OwnHooks(t, f) :
                 i < j /\ s[i] = AssetIn(t, e) /\ s[j] = AssetIn(t, d) => Precedes(e, d)
<1> DEFINE S == OwnHooks(t, f)
           H == HookAssets(Carrier(t, f))
           R == {x \in S \X S : Precedes(x[1], x[2])}
           of == [e \in S |-> AssetIn(t, e)]
           s == SortedHooks(H)
<1>1. H = {AssetIn(t, e) : e \in S}  BY HooksOfCarrier
<1>2. \A e, d \in S : of[e] = of[d] => e = d
  <2> SUFFICES ASSUME NEW e \in S, NEW d \in S, AssetIn(t, e) = AssetIn(t, d) PROVE e = d
    OBVIOUS
  <2>1. AssetIn(t, e).identity = IdentityAt(e.path)  BY AssetInFacts
  <2>2. AssetIn(t, d).identity = IdentityAt(d.path)  BY AssetInFacts
  <2>3. IdentityAt(e.path) = IdentityAt(d.path)  BY <2>1, <2>2
  <2> QED  BY <2>3, HooksApart
<1>3. \A e \in S : of[e] = AssetIn(t, e)  OBVIOUS
<1>4. IsFiniteSet(S)  BY OwnHooksFacts
<1>5. of \in Bijection(S, H)
  <2>1. of \in [S -> H]  BY <1>1
  <2> HIDE DEF S, H, of
  <2> QED  BY <1>1, <1>2, <1>3, <2>1 DEF Bijection, Injection, Surjection, IsInjective
<1>6. IsFiniteSet(H) /\ Cardinality(H) = Cardinality(S)
  <2>1. ExistsBijection(S, H)  BY <1>5 DEF ExistsBijection
  <2> HIDE DEF S, H
  <2> QED  BY <1>4, <2>1, FS_Bijection
<1>7. Orders(R, S)  BY PrecedenceOrders
<1>8. \A e, d \in S : <<e, d>> \in R <=> Precedes(e, d)  OBVIOUS
<1>9. \A e, d \in S : HookLess(AssetIn(t, e), AssetIn(t, d)) <=> Precedes(e, d)  BY HookLessFacts
<1> HIDE DEF S, H, R, of
<1>10. \A a \in H : \E e \in S : a = of[e]  BY <1>1, <1>3
<1>11. PICK order \in SetToSeqs(S) : \A i, j \in DOMAIN order : i < j => <<order[j], order[i]>> \notin R
  BY <1>4, <1>7, Sorts
<1>12. s \in SetToSeqs(H) /\ \A i, j \in DOMAIN s : i < j => ~HookLess(s[j], s[i])
  <2> DEFINE u == [i \in DOMAIN order |-> of[order[i]]]
  <2>1. /\ DOMAIN order = 1..Cardinality(S) /\ \A i \in DOMAIN order : order[i] \in S
        /\ \A i, j \in DOMAIN order : i # j => order[i] # order[j]
    BY <1>4, ListedOnce
  <2>2. \A i \in DOMAIN order : u[i] = of[order[i]] /\ u[i] \in H  BY <1>1, <1>3, <2>1
  <2>3. DOMAIN u = 1..Cardinality(H) /\ u \in [1..Cardinality(H) -> H]  BY <1>6, <2>1, <2>2
  <2> HIDE DEF u
  <2>4. \A i, j \in 1..Cardinality(H) : i # j => u[i] # u[j]  BY <1>2, <1>6, <2>1, <2>2
  <2>5. u \in SetToSeqs(H)  BY <2>3, <2>4 DEF SetToSeqs
  <2>6. ASSUME NEW i \in DOMAIN u, NEW j \in DOMAIN u, i < j PROVE ~HookLess(u[j], u[i])
    <3>1. i \in DOMAIN order /\ j \in DOMAIN order  BY <1>6, <2>1, <2>3
    <3>2. ~Precedes(order[j], order[i])  BY <1>8, <1>11, <2>1, <2>6, <3>1
    <3> QED  BY <1>3, <1>9, <2>1, <2>2, <3>1, <3>2
  <2> QED  BY <2>5, <2>6 DEF SortedHooks
<1> HIDE DEF s
<1>13. /\ Len(s) = Cardinality(H) /\ DOMAIN s = 1..Cardinality(H)
       /\ \A i \in DOMAIN s : s[i] \in H
       /\ \A i, j \in DOMAIN s : i # j => s[i] # s[j]
       /\ \A a \in H : \E i \in DOMAIN s : s[i] = a
  BY <1>6, <1>12, ListedOnce
<1>14. \A i \in DOMAIN s : \E e \in S : s[i] = AssetIn(t, e)  BY <1>3, <1>10, <1>13
<1>15. \A e \in S : \E i \in DOMAIN s : s[i] = AssetIn(t, e)  BY <1>1, <1>13
<1>16. ASSUME NEW i \in DOMAIN s, NEW j \in DOMAIN s, NEW e \in S, NEW d \in S,
              i < j, s[i] = AssetIn(t, e), s[j] = AssetIn(t, d)
       PROVE  Precedes(e, d)
  <2>1. ~Precedes(d, e)  BY <1>9, <1>12, <1>16
  <2>2. e # d
    <3>1. i # j  BY <1>13, <1>16
    <3>2. s[i] # s[j]  BY <1>13, <3>1
    <3> QED  BY <1>16, <3>2
  <2> QED  BY <1>7, <1>8, <2>1, <2>2 DEF Orders
<1>17. Len(s) = Cardinality(S) /\ DOMAIN s = 1..Len(s)  BY <1>6, <1>13
<1> QED  BY <1>14, <1>15, <1>16, <1>17 DEF S, H, s

-----------------------------------------------------------------------------
(* What a vendor is told of a hook *)

\* What is told of a hook says what was declared, whatever it says besides.
Tells(v, h) ==
    /\ v.timeout = h.timeout /\ v.async = h.asynchronous
    /\ v.tools = {} <=> h.matcher = {}
    /\ h.failurePolicy = "closed" => v.closed \/ v.start = "wrapped"
\* A declared hook has a timeout, and tools if it has a matcher.
Plausible(h) ==
    /\ h.timeout \in Nat /\ h.asynchronous \in BOOLEAN
    /\ \A tools \in h.matcher : ToSet(tools) # {}

\* Every tool has names in the vocabulary of a vendor.
LEMMA ToolsAreNamed ==
    ASSUME NEW names, \A c \in DOMAIN names : names[c] # {}, NEW h, Plausible(h), ToolsFit(names, h)
    PROVE  ToolsOf(names, h) = {} <=> h.matcher = {}
<1>1. ASSUME h.matcher = {} PROVE ToolsOf(names, h) = {}  BY <1>1 DEF ToolsOf
<1>2. ASSUME h.matcher # {} PROVE ToolsOf(names, h) # {}
  <2>1. PICK tools \in h.matcher : TRUE  BY <1>2
  <2>2. PICK c \in ToSet(tools) : TRUE  BY <2>1 DEF Plausible
  <2>3. c \in DOMAIN names  BY DEF ToolsFit
  <2>4. PICK name : name \in names[c]  BY <2>3
  <2>5. name \in UNION {names[x] : x \in ToSet(tools)}  BY <2>4
  <2>6. name \in UNION {UNION {names[x] : x \in ToSet(s)} : s \in h.matcher}  BY <2>5
  <2> QED  BY <2>6 DEF ToolsOf
<1> QED  BY <1>1, <1>2

\* A vendor is told what was declared.
LEMMA VendorTells ==
    ASSUME NEW t \in DOMAIN Codecs, NEW h, Plausible(h), NEW uses, HookFits(t, h, uses)
    PROVE  /\ DOMAIN VendorHook(t, h, uses) = {"start", "tools", "timeout", "async", "closed"}
           /\ Tells(VendorHook(t, h, uses), h)
<1>0. t \in {"claude", "codex", "copilot", "cursor", "grok", "antigravity", "pi"}  BY DEF Codecs
<1>1. CASE t = "claude"
  <2>1. VendorHook(t, h, uses) = ClaudeHook(h, uses) /\ ClaudeHookFits(h)  BY <1>1 DEF VendorHook, HookFits
  <2>2. \A c \in DOMAIN ClaudeTools : ClaudeTools[c] # {}  BY DEF ClaudeTools
  <2>3. ToolsOf(ClaudeTools, h) = {} <=> h.matcher = {}  BY <2>1, <2>2, ToolsAreNamed DEF ClaudeHookFits
  <2> QED  BY <2>1, <2>3 DEF ClaudeHook, ClaudeHookFits, Tells, ClosesBeforeTools, Started, Wrapped
<1>2. CASE t = "codex"
  <2>1. VendorHook(t, h, uses) = CodexHook(h, uses) /\ CodexHookFits(h)  BY <1>2 DEF VendorHook, HookFits
  <2>2. \A c \in DOMAIN CodexTools : CodexTools[c] # {}  BY DEF CodexTools
  <2>5. ToolsFit(CodexTools, h)  BY <2>1 DEF CodexHookFits
  <2>3. ToolsOf(CodexTools, h) = {} <=> h.matcher = {}  BY <2>2, <2>5, ToolsAreNamed
  <2>4. 1000 * (h.timeout \div 1000) = h.timeout
    <3>1. h.timeout \in Nat /\ h.timeout % 1000 = 0  BY <2>1 DEF CodexHookFits, Plausible
    <3> QED  BY <3>1
  <2> QED  BY <2>1, <2>3, <2>4 DEF CodexHook, CodexHookFits, Tells, ClosesBeforeTools, Started, Wrapped
<1>3. CASE t = "copilot"
  <2>1. VendorHook(t, h, uses) = CopilotHook(h, uses) /\ CopilotHookFits(h)  BY <1>3 DEF VendorHook, HookFits
  <2>2. \A c \in DOMAIN CopilotTools : CopilotTools[c] # {}  BY DEF CopilotTools, ClaudeTools
  <2>3. ToolsOf(CopilotTools, h) = {} <=> h.matcher = {}  BY <2>1, <2>2, ToolsAreNamed DEF CopilotHookFits
  <2>4. h.asynchronous = (h.event = "notification")  BY <2>1 DEF CopilotHookFits, Plausible
  <2> QED  BY <2>1, <2>3, <2>4 DEF CopilotHook, CopilotHookFits, Tells, ClosesBeforeTools, Started, Wrapped
<1>4. CASE t = "cursor"
  <2>1. VendorHook(t, h, uses) = CursorHook(h, uses) /\ CursorHookFits(h)  BY <1>4 DEF VendorHook, HookFits
  <2>2. \A c \in DOMAIN CursorTools : CursorTools[c] # {}  BY DEF CursorTools
  <2>3. ToolsOf(CursorTools, h) = {} <=> h.matcher = {}  BY <2>1, <2>2, ToolsAreNamed DEF CursorHookFits
  <2>4. h.asynchronous = FALSE  BY <2>1 DEF CursorHookFits, Plausible
  <2> DEFINE v == CursorHook(h, uses)
  <2>5. DOMAIN v = {"start", "tools", "timeout", "async", "closed"}  BY DEF CursorHook
  <2>6. v.timeout = h.timeout /\ v.tools = ToolsOf(CursorTools, h)  BY DEF CursorHook
  <2>7. v.async = FALSE  BY DEF CursorHook
  <2>8. v.closed = (h.failurePolicy = "closed")  BY DEF CursorHook
  <2> HIDE DEF v
  <2>9. Tells(v, h)  BY <2>3, <2>4, <2>6, <2>7, <2>8 DEF Tells
  <2> QED  BY <2>1, <2>5, <2>9 DEF v
<1>5. CASE t = "grok"
  <2>1. VendorHook(t, h, uses) = GrokHook(h, uses) /\ GrokHookFits(h)  BY <1>5 DEF VendorHook, HookFits
  <2>2. \A c \in DOMAIN GrokTools : GrokTools[c] # {}  BY DEF GrokTools, ClaudeTools
  <2>3. ToolsOf(GrokTools, h) = {} <=> h.matcher = {}  BY <2>1, <2>2, ToolsAreNamed DEF GrokHookFits
  <2>4. h.asynchronous = FALSE  BY <2>1 DEF GrokHookFits, Plausible
  <2> DEFINE v == GrokHook(h, uses)
  <2>5. DOMAIN v = {"start", "tools", "timeout", "async", "closed"}  BY DEF GrokHook
  <2>6. v.timeout = h.timeout /\ v.tools = ToolsOf(GrokTools, h)  BY DEF GrokHook
  <2>7. v.async = FALSE  BY DEF GrokHook
  <2>8. v.start = Started(h, uses, h.handler.mode)  BY DEF GrokHook
  <2> HIDE DEF v
  <2>9. h.failurePolicy = "closed" => v.start = "wrapped"
    BY <2>1, <2>8 DEF GrokHookFits, ClosesBeforeTools, Started, Wrapped
  <2>10. Tells(v, h)  BY <2>3, <2>4, <2>6, <2>7, <2>9 DEF Tells
  <2> QED  BY <2>1, <2>5, <2>10 DEF v
<1>6. CASE t = "pi"
  <2>1. VendorHook(t, h, uses) = PiHook(h)  BY <1>6 DEF VendorHook
  <2>2. UNION {ToSet(tools) : tools \in h.matcher} = {} <=> h.matcher = {}  BY DEF Plausible
  <2> DEFINE v == PiHook(h)
  <2>3. DOMAIN v = {"start", "tools", "timeout", "async", "closed"}  BY DEF PiHook
  <2>4. v.timeout = h.timeout /\ v.tools = UNION {ToSet(tools) : tools \in h.matcher}  BY DEF PiHook
  <2>5. v.async = h.asynchronous  BY DEF PiHook
  <2>6. v.closed = (h.failurePolicy = "closed")  BY DEF PiHook
  <2> HIDE DEF v
  <2>7. Tells(v, h)  BY <2>2, <2>4, <2>5, <2>6 DEF Tells
  <2> QED  BY <2>1, <2>3, <2>7 DEF v
<1>7. CASE t = "antigravity"
  <2>1. ~HookFits(t, h, uses)  BY <1>7 DEF HookFits
  <2> QED  BY <2>1
<1> QED  BY <1>0, <1>1, <1>2, <1>3, <1>4, <1>5, <1>6, <1>7

\* What is valid of a hook.
LEMMA ValidHookFacts ==
    ASSUME NEW id, NEW h, NEW content, NEW uses, ValidHook(id, h, content, uses)
    PROVE  ValidMatcher(h) /\ ValidHookCommand(h.handler, content.files) /\ h.timeout \in Nat
<1>1. h.timeout \in 1..MaxHookTimeoutMilliseconds  BY DEF ValidHook
<1>2. MaxHookTimeoutMilliseconds \in Nat  BY DEF MaxHookTimeoutMilliseconds
<1>3. h.timeout \in Nat  BY <1>1, <1>2
<1>4. ValidMatcher(h) /\ ValidHookCommand(h.handler, content.files)  BY DEF ValidHook
<1> QED  BY <1>3, <1>4

\* What a package's manifest tells of a hook.
LEMMA HookIsTold ==
    ASSUME NEW t, Made(t), NEW f \in Chosen, NEW e \in OwnHooks(t, f)
    PROVE  LET entry == HookEntry(t, Codecs[t], AssetIn(t, e)) IN
           /\ entry.hook = IdentityAt(e.path) /\ SaysWhatIsDeclared(entry, Declared(e))
           /\ \A file \in entry.files : \E q \in DOMAIN AssetIn(t, e).content.files :
                 file = PayloadRoot(Codecs[t], AssetIn(t, e)) \o q
<1> DEFINE a == AssetIn(t, e)
           h == HookAt(tree, e.path)
           d == Declared(e)
           codec == Codecs[t]
           files == UNION {{PayloadRoot(codec, a) \o q : q \in h.handler.arguments[i].packageFile} : i \in DOMAIN h.handler.arguments}
           own == [event |-> h.event, hook |-> a.identity, files |-> files]
           v == VendorHook(t, h, a.uses)
           entry == HookEntry(t, codec, a)
<1>1. WellFormedHook(d) /\ a.kind = "hook" /\ HookOf(a) = h /\ a.identity = IdentityAt(e.path)
  <2>1. a.identity = IdentityAt(e.path)  BY AssetInFacts
  <2> QED  BY <2>1, DecodedHook
<1>2. /\ h.event = d.event /\ h.matcher = d.matcher /\ h.handler = d.handler /\ h.timeout = d.timeout
      /\ h.failurePolicy = d.failurePolicy /\ h.asynchronous = d.asynchronous
  BY DEF HookAt, Declared
<1>3. a \in HookAssets(Carrier(t, f)) /\ Packaged(t) /\ CodecOf(t) = codec /\ t \in DOMAIN Codecs
  BY HooksOfCarrier, HooksArePackaged DEF Made
<1>4. ValidNormalizedAsset(a) /\ HookFits(t, h, a.uses)
  <2>1. ValidNormalizedPackage(Carrier(t, f)) /\ HooksFit(t, Carrier(t, f))  BY <1>3, CarrierFits DEF PackageFits
  <2>2. a \in Carrier(t, f).assets  BY <1>3 DEF HookAssets
  <2> HIDE DEF a, h
  <2> QED  BY <1>1, <1>3, <2>1, <2>2 DEF ValidNormalizedPackage, HooksFit
<1>5. ValidHook(a.identity, h, a.content, a.uses)
  <2>1. a.hook = {h}  BY <1>1, AssetInFacts
  <2> HIDE DEF a, h
  <2> QED  BY <1>1, <1>4, <2>1 DEF ValidNormalizedAsset, ValidHookAsset
<1>6. entry = own ++ v
  <2>1. entry = [event |-> HookOf(a).event, hook |-> a.identity,
                 files |-> UNION {{PayloadRoot(codec, a) \o q : q \in HookOf(a).handler.arguments[i].packageFile} :
                                     i \in DOMAIN HookOf(a).handler.arguments}]
                ++ VendorHook(t, HookOf(a), a.uses)
    BY DEF HookEntry
  <2> HIDE DEF a, h
  <2> QED  BY <1>1, <2>1
<1> HIDE DEF a, h, d, codec, entry
<1>7. Plausible(h)
  <2>1. h.timeout \in Nat /\ ValidMatcher(h)  BY <1>5, ValidHookFacts
  <2>2. h.asynchronous \in BOOLEAN  BY <1>1, <1>2 DEF WellFormedHook
  <2>3. ASSUME NEW tools \in h.matcher PROVE ToSet(tools) # {}
    <3>1. IsSequence(tools) /\ tools # <<>>  BY <1>1, <1>2, <2>1, <2>3 DEF WellFormedHook, ValidMatcher
    <3>2. tools \in Seq(ToSet(tools)) /\ tools # <<>>  BY <3>1 DEF IsSequence
    <3>3. 1 \in DOMAIN tools  BY <3>2
    <3> QED  BY <3>3 DEF ToSet
  <2> QED  BY <2>1, <2>2, <2>3 DEF Plausible
<1>8. DOMAIN v = {"start", "tools", "timeout", "async", "closed"} /\ Tells(v, h)
  BY <1>3, <1>4, <1>7, VendorTells
<1>9. /\ entry.event = h.event /\ entry.hook = a.identity /\ entry.files = files
      /\ entry.start = v.start /\ entry.tools = v.tools /\ entry.timeout = v.timeout
      /\ entry.async = v.async /\ entry.closed = v.closed
  <2>1. DOMAIN own = {"event", "hook", "files"}  OBVIOUS
  <2>2. own.event = h.event /\ own.hook = a.identity /\ own.files = files  OBVIOUS
  <2> HIDE DEF own, v, files
  <2>3. /\ \A x \in DOMAIN own : (own ++ v)[x] = own[x]
        /\ \A x \in DOMAIN v \ DOMAIN own : (own ++ v)[x] = v[x]
    BY BothFacts
  <2> QED  BY <1>6, <1>8, <2>1, <2>2, <2>3
<1> HIDE DEF v, own
<1>10. SaysWhatIsDeclared(entry, d)
  BY <1>2, <1>8, <1>9 DEF SaysWhatIsDeclared, Tells
<1>11. ASSUME NEW file \in files PROVE \E q \in DOMAIN a.content.files : file = PayloadRoot(codec, a) \o q
  <2>1. PICK i \in DOMAIN h.handler.arguments : file \in {PayloadRoot(codec, a) \o q : q \in h.handler.arguments[i].packageFile}
    BY <1>11
  <2>2. PICK q \in h.handler.arguments[i].packageFile : file = PayloadRoot(codec, a) \o q  BY <2>1
  <2>3. IsOptional(h.handler.arguments[i].packageFile)  BY <1>1, <1>2 DEF WellFormedHook
  <2>6. ValidHookCommand(h.handler, a.content.files)  BY <1>5, ValidHookFacts
  <2>4. ValidArgument(h.handler.arguments[i], a.content.files)  BY <2>6 DEF ValidHookCommand
  <2>5. q \in DOMAIN a.content.files  BY <2>2, <2>3, <2>4 DEF ValidArgument, IsOptional
  <2> QED  BY <2>2, <2>5
<1>12. a.identity = IdentityAt(e.path)  BY <1>1
<1> HIDE DEF files
<1> QED  BY <1>9, <1>10, <1>11, <1>12 DEF entry, a, d, codec

-----------------------------------------------------------------------------
(* The manifest *)

\* The manifest of the hooks is where the vendor looks for it.
LEMMA HookManifestIsHeld ==
    ASSUME NEW t, Made(t), NEW f \in Chosen, OwnHooks(t, f) # {}
    PROVE  LET path == RootOf(t, f) \o Codecs[t].hooks IN
           /\ path \in DOMAIN plans[t].files
           /\ plans[t].files[path].value = HookManifest(t, Codecs[t], Carrier(t, f))
<1> DEFINE p == Carrier(t, f)
           codec == CodecOf(t)
           id == <<"", "hooks">>
           made == Generated("hooks", HookManifest(t, codec, p))
<1>1. Packaged(t) /\ codec = Codecs[t] /\ HookAssets(p) # {}  BY HooksArePackaged, HooksOfCarrier
<1>2. MadeOf(t, codec, p, PackageParts(t, codec, p))  BY <1>1, CarrierFits
<1>3. id \in DOMAIN PackageParts(t, codec, p) /\ PackageParts(t, codec, p)[id] = HooksPart(t, codec, p)
  BY <1>1, <1>2 DEF MadeOf
<1>4. Holds(plans[t].files, RootOf(t, f), PackageParts(t, codec, p)[id])  BY <1>1, <1>3, PartIsHeld
<1>5. DOMAIN HooksPart(t, codec, p) = {codec.hooks} /\ HooksPart(t, codec, p)[codec.hooks] = made
  BY AtFacts DEF HooksPart
<1>6. made.value = HookManifest(t, codec, p)  BY DEF Generated
<1> HIDE DEF p, codec, id, made
<1>7. /\ RootOf(t, f) \o codec.hooks \in DOMAIN plans[t].files
      /\ plans[t].files[RootOf(t, f) \o codec.hooks] = made
  BY <1>3, <1>4, <1>5 DEF Holds
<1>8. plans[t].files[RootOf(t, f) \o codec.hooks].value = HookManifest(t, codec, p)  BY <1>6, <1>7
<1> QED  BY <1>1, <1>7, <1>8 DEF p

\* Every file that is told of is there.
LEMMA ToldFilesAreHeld ==
    ASSUME NEW t, Made(t), NEW f \in Chosen, NEW e \in OwnHooks(t, f), NEW q \in DOMAIN AssetIn(t, e).content.files
    PROVE  RootOf(t, f) \o (PayloadRoot(Codecs[t], AssetIn(t, e)) \o q) \in DOMAIN plans[t].files
<1> DEFINE a == AssetIn(t, e)
<1>1. PICK g \in Chosen : e \in EntriesOf(t, g) /\ RootOf(t, g) = RootOf(t, f)  BY OwnHooksFacts
<1>2. Packaged(t) /\ CodecOf(t) = Codecs[t]  BY HooksArePackaged
<1>3. KindAt(e.path) = "hook" /\ a.kind = "hook"  BY OwnHooksFacts, DecodedHook
<1>4. Ships(t, g, e)  BY <1>1, <1>3, PlanShips
<1>5. PICK root, part : Renders(part, root, a) /\ Holds(plans[t].files, RootOf(t, g), part) /\ root = AssetRoot(CodecOf(t), a)
  BY <1>2, <1>4 DEF Ships
<1> HIDE DEF a
<1>6. AssetRoot(CodecOf(t), a) = PayloadRoot(Codecs[t], a)  BY <1>2, <1>3 DEF AssetRoot
<1>7. q \in DOMAIN a.content.files  BY DEF a
<1>8. root \o q \in DOMAIN part  BY <1>3, <1>5, <1>7 DEF Renders
<1>9. RootOf(t, g) \o (root \o q) \in DOMAIN plans[t].files  BY <1>5, <1>8 DEF Holds
<1> QED  BY <1>1, <1>5, <1>6, <1>9 DEF a

\* It registers each hook once, as declared, in order, with its files.
LEMMA HooksRunAsDeclared ==
    ASSUME NEW t, Made(t), NEW f \in Chosen, OwnHooks(t, f) # {}
    PROVE  LET path == RootOf(t, f) \o Codecs[t].hooks
               hooks == plans[t].files[path].value
               entry(i) == CHOOSE e \in OwnHooks(t, f) : IdentityAt(e.path) = hooks[i].hook
           IN  /\ path \in DOMAIN plans[t].files
               /\ {hooks[i].hook : i \in DOMAIN hooks} = {IdentityAt(e.path) : e \in OwnHooks(t, f)}
               /\ Len(hooks) = Cardinality(OwnHooks(t, f))
               /\ \A i \in DOMAIN hooks :
                     /\ SaysWhatIsDeclared(hooks[i], ValueAt(tree, MainFile(entry(i).path)))
                     /\ \A file \in hooks[i].files : RootOf(t, f) \o file \in DOMAIN plans[t].files
               /\ \A i, j \in DOMAIN hooks : i < j => Precedes(entry(i), entry(j))
<1> DEFINE own == OwnHooks(t, f)
           path == RootOf(t, f) \o Codecs[t].hooks
           hooks == plans[t].files[path].value
           s == SortedHooks(HookAssets(Carrier(t, f)))
           entry(i) == CHOOSE e \in own : IdentityAt(e.path) = hooks[i].hook
           told(e) == HookEntry(t, Codecs[t], AssetIn(t, e))
<1>1. path \in DOMAIN plans[t].files /\ hooks = HookManifest(t, Codecs[t], Carrier(t, f))  BY HookManifestIsHeld
<1>2. /\ Len(s) = Cardinality(own) /\ DOMAIN s = 1..Len(s)
      /\ \A i \in DOMAIN s : \E e \in own : s[i] = AssetIn(t, e)
      /\ \A e \in own : \E i \in DOMAIN s : s[i] = AssetIn(t, e)
      /\ \A i, j \in DOMAIN s : \A e, d \in own : i < j /\ s[i] = AssetIn(t, e) /\ s[j] = AssetIn(t, d) => Precedes(e, d)
  BY HooksAreSorted
<1>3. hooks = [i \in DOMAIN s |-> HookEntry(t, Codecs[t], s[i])]  BY <1>1 DEF HookManifest
<1>4. \A e \in own : told(e).hook = IdentityAt(e.path)  BY HookIsTold
<1>5. \A e \in own : SaysWhatIsDeclared(told(e), Declared(e))  BY HookIsTold
<1>6. ASSUME NEW e \in own, NEW file \in told(e).files PROVE RootOf(t, f) \o file \in DOMAIN plans[t].files
  <2>1. PICK q \in DOMAIN AssetIn(t, e).content.files : file = PayloadRoot(Codecs[t], AssetIn(t, e)) \o q
    BY <1>6, HookIsTold
  <2>2. RootOf(t, f) \o (PayloadRoot(Codecs[t], AssetIn(t, e)) \o q) \in DOMAIN plans[t].files  BY ToldFilesAreHeld
  <2> QED  BY <2>1, <2>2
<1>7. \A e, d \in own : IdentityAt(e.path) = IdentityAt(d.path) => e = d  BY HooksApart
<1>8. \A i \in DOMAIN s : \A e \in own : s[i] = AssetIn(t, e) => hooks[i] = told(e)
  <2> SUFFICES ASSUME NEW i \in DOMAIN s, NEW e \in own, s[i] = AssetIn(t, e) PROVE hooks[i] = told(e)
    OBVIOUS
  <2> HIDE DEF s, hooks
  <2>1. hooks[i] = HookEntry(t, Codecs[t], s[i])  BY <1>3
  <2> QED  BY <2>1
<1>9. \A i : entry(i) = CHOOSE e \in own : IdentityAt(e.path) = hooks[i].hook  OBVIOUS
<1>10. DOMAIN hooks = DOMAIN s /\ Len(hooks) = Len(s)
  <2> HIDE DEF s, hooks
  <2>1. DOMAIN hooks = DOMAIN s  BY <1>3
  <2>2. Len(s) \in Nat
    <3>1. IsFiniteSet(own)  BY OwnHooksFacts
    <3> QED  BY <1>2, <3>1, FS_CardinalityType
  <2>3. DOMAIN hooks = 1..Len(s)  BY <1>2, <2>1
  <2>4. Len(hooks) = Len(s)  BY <1>3, <2>2, <2>3
  <2> QED  BY <2>1, <2>4
<1> HIDE DEF own, path, hooks, s, told, entry
<1>11. ASSUME NEW i \in DOMAIN hooks
       PROVE  entry(i) \in own /\ s[i] = AssetIn(t, entry(i)) /\ hooks[i] = told(entry(i))
  <2>1. PICK e \in own : s[i] = AssetIn(t, e)  BY <1>2, <1>10
  <2>2. hooks[i] = told(e) /\ hooks[i].hook = IdentityAt(e.path)  BY <1>4, <1>8, <1>10, <2>1
  <2>3. entry(i) \in own /\ IdentityAt(entry(i).path) = hooks[i].hook  BY <1>9, <2>2
  <2>4. entry(i) = e  BY <1>7, <2>2, <2>3
  <2> QED  BY <2>1, <2>2, <2>4
<1>12. {hooks[i].hook : i \in DOMAIN hooks} = {IdentityAt(e.path) : e \in own}
  <2>1. \A i \in DOMAIN hooks : hooks[i].hook = IdentityAt(entry(i).path)  BY <1>4, <1>11
  <2>2. \A e \in own : \E i \in DOMAIN hooks : hooks[i].hook = IdentityAt(e.path)  BY <1>2, <1>4, <1>8, <1>10
  <2> QED  BY <1>11, <2>1, <2>2
<1>13. ASSUME NEW i \in DOMAIN hooks
       PROVE  /\ SaysWhatIsDeclared(hooks[i], ValueAt(tree, MainFile(entry(i).path)))
              /\ \A file \in hooks[i].files : RootOf(t, f) \o file \in DOMAIN plans[t].files
  <2>1. SaysWhatIsDeclared(told(entry(i)), Declared(entry(i)))  BY <1>5, <1>11
  <2>2. \A file \in told(entry(i)).files : RootOf(t, f) \o file \in DOMAIN plans[t].files  BY <1>6, <1>11
  <2> QED  BY <1>11, <2>1, <2>2 DEF Declared
<1>14. \A i, j \in DOMAIN hooks : i < j => Precedes(entry(i), entry(j))  BY <1>2, <1>10, <1>11
<1>15. path \in DOMAIN plans[t].files /\ Len(hooks) = Cardinality(own)  BY <1>1, <1>2, <1>10
<1> QED  BY <1>12, <1>13, <1>14, <1>15 DEF own, path, hooks, entry

\* That is what HookManifestIsExact says of every package.
LEMMA KnownHooks == Known => HookManifestIsExact
<1> SUFFICES ASSUME Known, plan # {}, NEW t \in DOMAIN plans, NEW f \in Chosen, OwnHooks(t, f) # {}
             PROVE  LET path == RootOf(t, f) \o Codecs[t].hooks
                        hooks == plans[t].files[path].value
                        entry(i) == CHOOSE e \in OwnHooks(t, f) : IdentityAt(e.path) = hooks[i].hook
                    IN  /\ path \in DOMAIN plans[t].files
                        /\ {hooks[i].hook : i \in DOMAIN hooks} = {IdentityAt(e.path) : e \in OwnHooks(t, f)}
                        /\ Len(hooks) = Cardinality(OwnHooks(t, f))
                        /\ \A i \in DOMAIN hooks :
                              /\ SaysWhatIsDeclared(hooks[i], ValueAt(tree, MainFile(entry(i).path)))
                              /\ \A file \in hooks[i].files : RootOf(t, f) \o file \in DOMAIN plans[t].files
                        /\ \A i, j \in DOMAIN hooks : i < j => Precedes(entry(i), entry(j))
  BY DEF HookManifestIsExact, Planned, OwnHooks
<1>1. Made(t)  BY PlansAreMade
<1> QED  BY <1>1, HooksRunAsDeclared

\* HookManifestIsExact: the hooks of a package run as they were declared
\* (SortHookDescriptors, renderHookPayloads, validatePackage, hookManifest).
THEOREM HooksAreExact == Spec => []HookManifestIsExact
<1>1. Known => HookManifestIsExact  BY KnownHooks
<1> QED  BY <1>1, KnownAlways, PTL

-----------------------------------------------------------------------------
(* Sequences that others are made of *)

\* What is joined ends with its last part.
LEMMA SuffixOfJoined ==
    ASSUME NEW p, NEW q, IsSequence(p), IsSequence(q)
    PROVE  IsSuffix(q, p \o q)
<1> DEFINE s == p \o q
           n == Len(s)
           m == Len(q)
           r == Reverse(q)
           u == Reverse(s)
<1>1. IsSequence(s) /\ n = Len(p) + m /\ Len(p) \in Nat /\ m \in Nat /\ \A i \in 1..m : s[Len(p) + i] = q[i]
  BY Joined, SequenceFacts
<1>2. r = [i \in 1..m |-> q[(m - i) + 1]] /\ u = [i \in 1..n |-> s[(n - i) + 1]]  BY DEF Reverse
<1>3. DOMAIN q = 1..m /\ DOMAIN s = 1..n  BY <1>1, SequenceFacts
<1> DEFINE S == ToSet(s)
<1>4. \A i \in 1..n : s[i] \in S  BY <1>3 DEF ToSet
<1> HIDE DEF s, n, m, r, u, S
<1>5. \A i \in 1..m : r[i] = u[i] /\ r[i] \in S
  <2> SUFFICES ASSUME NEW i \in 1..m PROVE r[i] = u[i] /\ r[i] \in S
    OBVIOUS
  <2>1. (m - i) + 1 \in 1..m /\ Len(p) + ((m - i) + 1) = (n - i) + 1 /\ (n - i) + 1 \in 1..n /\ i \in 1..n  BY <1>1
  <2>2. r[i] = q[(m - i) + 1] /\ u[i] = s[(n - i) + 1]  BY <1>2, <2>1
  <2>3. s[Len(p) + ((m - i) + 1)] = q[(m - i) + 1]  BY <1>1, <2>1
  <2> QED  BY <1>4, <2>1, <2>2, <2>3
<1>6. \A i \in 1..n : u[i] \in S
  <2> SUFFICES ASSUME NEW i \in 1..n PROVE u[i] \in S
    OBVIOUS
  <2>1. (n - i) + 1 \in 1..n  BY <1>1
  <2> QED  BY <1>2, <1>4, <2>1
<1>7. n \in Nat /\ m <= n  BY <1>1
<1>8. r = [i \in 1..m |-> r[i]]
  <2> DEFINE h == [i \in 1..m |-> q[(m - i) + 1]]
  <2>1. h = [i \in 1..m |-> h[i]]  OBVIOUS
  <2> HIDE DEF h
  <2> QED  BY <1>2, <2>1 DEF h
<1>9. u = [i \in 1..n |-> u[i]]
  <2> DEFINE h == [i \in 1..n |-> s[(n - i) + 1]]
  <2>1. h = [i \in 1..n |-> h[i]]  OBVIOUS
  <2> HIDE DEF h
  <2> QED  BY <1>2, <2>1 DEF h
<1>10. r \in Seq(S) /\ Len(r) = m /\ u \in Seq(S) /\ Len(u) = n
  <2>1. r \in [1..m -> S] /\ u \in [1..n -> S]  BY <1>5, <1>6, <1>8, <1>9
  <2>2. r \in Seq(S) /\ Len(r) = m  BY <1>1, <2>1
  <2>3. u \in Seq(S) /\ Len(u) = n  BY <1>7, <2>1
  <2> QED  BY <2>2, <2>3
<1>11. SubSeq(r, 1, m) = SubSeq(u, 1, m)
  <2>1. SubSeq(r, 1, m) = r  BY <1>10, SubSeqFull
  <2>2. SubSeq(u, 1, m) \in Seq(S) /\ Len(SubSeq(u, 1, m)) = m /\ \A i \in 1..m : SubSeq(u, 1, m)[i] = u[i]
    BY <1>1, <1>7, <1>10
  <2>3. \A i \in 1..m : SubSeq(u, 1, m)[i] = r[i]  BY <1>5, <2>2
  <2>4. IsSequence(r) /\ IsSequence(SubSeq(u, 1, m))  BY <1>10, <2>2, SequenceOver
  <2> QED  BY <1>10, <2>1, <2>2, <2>3, <2>4, SequencesEqual
<1> QED  BY <1>7, <1>10, <1>11 DEF IsSuffix, IsPrefix, s, r, u

\* What is flattened is put together from left to right.
LEMMA FlatUnfolds ==
    ASSUME NEW s, IsSequence(s), s # <<>>, \A i \in DOMAIN s : IsSequence(s[i])
    PROVE  \E p : /\ FlattenSeq(s) = p[Len(s)] /\ p[1] = s[1]
                  /\ \A k \in 1..(Len(s) - 1) : p[k + 1] = p[k] \o s[k + 1]
                  /\ \A k \in 1..Len(s) : IsSequence(p[k])
<1> DEFINE L == Len(s)
           N == L - 1
           S == UNION {ToSet(s[i]) : i \in DOMAIN s}
           D == Seq(S)
           step == [x \in (1..N) \X D |-> x[2] \o s[x[1] + 1]]
           IsFlat(f) == f = [i \in 1..Len(s) |-> IF i = 1 THEN s[i] ELSE f[i - 1] \o s[i]]
           p == CHOOSE f : IsFlat(f)
<1>1. L \in Nat /\ DOMAIN s = 1..L /\ L # 0  BY SequenceFacts
<1>2. FlattenSeq(s) = p[L]  BY <1>1 DEF FlattenSeq
<1>3. \A i \in 1..L : s[i] \in D
  <2> SUFFICES ASSUME NEW i \in 1..L PROVE s[i] \in D
    OBVIOUS
  <2>1. ToSet(s[i]) \subseteq S  BY <1>1
  <2> HIDE DEF S
  <2> QED  BY <1>1, <2>1, SequenceInto
<1>4. N \in Nat /\ 1 \in 1..L /\ L \in 1..L  BY <1>1, <1>1
<1> HIDE DEF S
<1>5. step \in [(1..N) \X D -> D]
  <2>1. ASSUME NEW x \in (1..N) \X D PROVE x[2] \o s[x[1] + 1] \in D
    <3>1. x[1] \in 1..N /\ x[2] \in D  BY <2>1
    <3>2. x[1] + 1 \in 1..L  BY <1>1, <3>1
    <3>3. s[x[1] + 1] \in D  BY <1>3, <3>2
    <3> QED  BY <3>1, <3>3
  <2> QED  BY <2>1
<1>6. PICK g \in [0..N -> D] : Follows(g, s[1], step, N)
  <2>1. s[1] \in D  BY <1>3, <1>4
  <2> HIDE DEF D, step, N
  <2> QED  BY <1>4, <1>5, <2>1, Unfolds
<1>7. g[0] = s[1] /\ \A k \in 1..N : g[k] = g[k - 1] \o s[k + 1]
  <2>1. ASSUME NEW k \in 1..N PROVE g[k] = g[k - 1] \o s[k + 1]
    <3>1. k - 1 \in 0..N  BY <1>4
    <3>2. g[k - 1] \in D  BY <1>6, <3>1
    <3>3. <<k, g[k - 1]>> \in (1..N) \X D  BY <3>2
    <3>4. g[k] = step[<<k, g[k - 1]>>]  BY <1>6 DEF Follows
    <3>5. <<k, g[k - 1]>>[1] = k /\ <<k, g[k - 1]>>[2] = g[k - 1]  OBVIOUS
    <3> HIDE DEF D, N
    <3> QED  BY <3>3, <3>4, <3>5
  <2> QED  BY <1>6, <2>1 DEF Follows
<1> DEFINE h == [i \in 1..L |-> g[i - 1]]
           made == [i \in 1..L |-> IF i = 1 THEN s[i] ELSE h[i - 1] \o s[i]]
<1>8. \A i \in 1..L : h[i] = made[i]
  <2> SUFFICES ASSUME NEW i \in 1..L PROVE h[i] = made[i]
    OBVIOUS
  <2>1. CASE i = 1
    <3>1. i - 1 = 0  BY <2>1
    <3>2. h[i] = g[0] /\ made[i] = s[1]  BY <2>1, <3>1
    <3> QED  BY <1>7, <3>2
  <2>2. CASE i # 1
    <3>1. i - 1 \in 1..N /\ i - 1 \in 1..L /\ (i - 1) + 1 = i  BY <1>1, <2>2
    <3>2. h[i] = g[i - 1] /\ h[i - 1] = g[(i - 1) - 1]  BY <3>1
    <3>3. g[i - 1] = g[(i - 1) - 1] \o s[(i - 1) + 1]  BY <1>7, <3>1
    <3>4. made[i] = h[i - 1] \o s[i]  BY <2>2
    <3> HIDE DEF h, made, N
    <3> QED  BY <3>1, <3>2, <3>3, <3>4
  <2> QED  BY <2>1, <2>2
<1>9. h = made
  <2>1. h = [i \in 1..L |-> h[i]] /\ made = [i \in 1..L |-> made[i]]  OBVIOUS
  <2> HIDE DEF h, made
  <2> QED  BY <1>8, <2>1
<1>10. IsFlat(h)  BY <1>9
<1> HIDE DEF h, made
<1>11. IsFlat(p)  BY <1>10
<1> HIDE DEF p
<1>12. p = [i \in 1..L |-> IF i = 1 THEN s[i] ELSE p[i - 1] \o s[i]]  BY <1>11
<1>13. p[1] = s[1]
  <2> DEFINE q == [i \in 1..L |-> IF i = 1 THEN s[i] ELSE p[i - 1] \o s[i]]
  <2>1. q[1] = s[1]  BY <1>4
  <2> HIDE DEF q
  <2> QED  BY <1>12, <2>1 DEF q
<1>14. ASSUME NEW k \in 1..N PROVE p[k + 1] = p[k] \o s[k + 1]
  <2> DEFINE q == [i \in 1..L |-> IF i = 1 THEN s[i] ELSE p[i - 1] \o s[i]]
  <2>1. k + 1 \in 1..L /\ k + 1 # 1 /\ (k + 1) - 1 = k  BY <1>1, <1>14
  <2>2. q[k + 1] = p[(k + 1) - 1] \o s[k + 1]  BY <2>1
  <2> HIDE DEF q
  <2> QED  BY <1>12, <2>1, <2>2 DEF q
<1> DEFINE Right == {k \in 0..N : p[k + 1] \in D}
<1>15. 0 \in Right
  <2>1. 0 + 1 = 1 /\ 0 \in 0..N  BY <1>4
  <2>2. p[1] \in D  BY <1>3, <1>4, <1>13
  <2> HIDE DEF D, N
  <2> QED  BY <2>1, <2>2
<1>16. ASSUME NEW k \in 0..N, k \in Right, k < N PROVE k + 1 \in Right
  <2>1. k + 1 \in 1..N /\ (k + 1) + 1 \in 1..L /\ k + 1 \in 0..N  BY <1>1, <1>16
  <2>2. p[(k + 1) + 1] = p[k + 1] \o s[(k + 1) + 1]  BY <1>14, <2>1
  <2>3. p[k + 1] \in D /\ s[(k + 1) + 1] \in D  BY <1>3, <1>16, <2>1
  <2>4. p[(k + 1) + 1] \in D  BY <2>2, <2>3
  <2> HIDE DEF D, N
  <2> QED  BY <2>1, <2>4
<1> HIDE DEF Right
<1>17. 0..N \subseteq Right  BY <1>4, <1>15, <1>16, Reaches
<1>18. ASSUME NEW k \in 1..L PROVE IsSequence(p[k])
  <2>1. k - 1 \in 0..N /\ (k - 1) + 1 = k  BY <1>1, <1>18
  <2>2. p[k] \in D  BY <1>17, <2>1 DEF Right
  <2> QED  BY <2>2, SequenceOver
<1> QED  BY <1>2, <1>13, <1>14, <1>18

\* What is flattened is a sequence,
LEMMA FlatIsSequence ==
    ASSUME NEW s, IsSequence(s), \A i \in DOMAIN s : IsSequence(s[i])
    PROVE  IsSequence(FlattenSeq(s))
<1>1. Len(s) \in Nat /\ (s = <<>> <=> Len(s) = 0)  BY SequenceFacts
<1>2. CASE s = <<>>
  <2>1. FlattenSeq(s) = s  BY <1>1, <1>2 DEF FlattenSeq
  <2> QED  BY <2>1
<1>3. CASE s # <<>>
  <2>1. PICK p : FlattenSeq(s) = p[Len(s)] /\ \A k \in 1..Len(s) : IsSequence(p[k])  BY <1>3, FlatUnfolds
  <2>2. Len(s) \in 1..Len(s)  BY <1>1, <1>3
  <2> QED  BY <2>1, <2>2
<1> QED  BY <1>2, <1>3

\* of whole lines, but for the last one, if it is made from such lines,
LEMMA FlatIsText ==
    ASSUME NEW s, IsSequence(s), \A i \in DOMAIN s : IsSequence(s[i]),
           \A i \in DOMAIN s : i # Len(s) => \A line \in ToSet(s[i]) : line.ended,
           \A n \in 1..(Len(s[Len(s)]) - 1) : s[Len(s)][n].ended
    PROVE  IsText(FlattenSeq(s))
<1> DEFINE L == Len(s)
           N == L - 1
<1>1. L \in Nat /\ DOMAIN s = 1..L /\ (s = <<>> <=> L = 0)  BY SequenceFacts
<1>2. CASE s = <<>>
  <2>1. FlattenSeq(s) = s  BY <1>1, <1>2 DEF FlattenSeq
  <2>2. 1..(L - 1) = {}  BY <1>1, <1>2
  <2> QED  BY <2>1, <2>2 DEF IsText
<1>3. CASE s # <<>>
  <2>1. PICK p : /\ FlattenSeq(s) = p[L] /\ p[1] = s[1]
                 /\ \A k \in 1..N : p[k + 1] = p[k] \o s[k + 1]
                 /\ \A k \in 1..L : IsSequence(p[k])
    BY <1>3, FlatUnfolds
  <2>2. N \in Nat /\ L = N + 1 /\ L \in 1..L  BY <1>1, <1>3
  <2>3. CASE N = 0
    <3>1. L = 1
      <4> HIDE DEF L, N
      <4> QED  BY <2>2, <2>3
    <3>2. FlattenSeq(s) = p[1]  BY <2>1, <3>1
    <3>3. FlattenSeq(s) = s[L] /\ 1 \in DOMAIN s  BY <1>1, <2>1, <2>2, <3>1, <3>2
    <3> QED  BY <3>1, <3>3 DEF IsText
  <2>4. CASE N # 0
    <3> DEFINE M == N - 1
               Right == {k \in 0..M : \A line \in ToSet(p[k + 1]) : line.ended}
    <3>1. M \in Nat /\ N = M + 1 /\ 0 \in 0..M  BY <2>2, <2>4
    <3>2. 0 \in Right
      <4>1. 0 + 1 = 1 /\ 1 \in 1..L /\ 1 # L  BY <2>2, <3>1
      <4>2. \A line \in ToSet(p[1]) : line.ended  BY <1>1, <2>1, <4>1
      <4> HIDE DEF M
      <4> QED  BY <3>1, <4>1, <4>2
    <3>3. ASSUME NEW k \in 0..M, k \in Right, k < M PROVE k + 1 \in Right
      <4> DEFINE m == k + 1
                 q == p[m]
                 x == s[m + 1]
      <4>1. \A line \in ToSet(q) : line.ended  BY <3>3
      <4>2. k < M /\ k \in 0..M  BY <3>3
      <4> HIDE DEF M, N, L, Right
      <4>3. m \in 1..N /\ m + 1 \in 1..L /\ m + 1 # L /\ m \in 0..M /\ m \in 1..L  BY <2>2, <3>1, <4>2
      <4>4. p[m + 1] = q \o x /\ IsSequence(q) /\ IsSequence(x) /\ \A line \in ToSet(x) : line.ended
        <5>1. p[m + 1] = q \o x  BY <2>1, <4>3
        <5>2. IsSequence(q)  BY <2>1, <4>3
        <5>3. m + 1 \in DOMAIN s /\ m + 1 # Len(s)  BY <1>1, <4>3 DEF L
        <5> QED  BY <5>1, <5>2, <5>3
      <4> HIDE DEF q, x
      <4>5. ToSet(q \o x) = ToSet(q) \cup ToSet(x)  BY <4>4, Joined
      <4>6. \A line \in ToSet(p[m + 1]) : line.ended  BY <4>1, <4>4, <4>5
      <4> QED  BY <4>3, <4>6 DEF Right
    <3> HIDE DEF Right
    <3>4. 0..M \subseteq Right  BY <3>1, <3>2, <3>3, Reaches
    <3>5. \A line \in ToSet(p[N]) : line.ended
      <4>1. M \in Right /\ M + 1 = N  BY <3>1, <3>4
      <4> QED  BY <4>1 DEF Right
    <3>6. p[L] = p[N] \o s[L] /\ IsSequence(p[N]) /\ IsSequence(s[L]) /\ IsSequence(p[L])
      <4>1. N \in 1..N /\ N \in 1..L  BY <2>2, <3>1
      <4> QED  BY <1>1, <2>1, <2>2, <4>1
    <3> DEFINE head == p[N]
               tail == s[L]
    <3>7. IsSequence(head) /\ IsSequence(tail) /\ (\A line \in ToSet(head) : line.ended)  BY <3>5, <3>6
    <3>8. \A n \in 1..(Len(tail) - 1) : tail[n].ended  OBVIOUS
    <3>9. FlattenSeq(s) = head \o tail /\ IsSequence(head \o tail)  BY <2>1, <3>6
    <3> HIDE DEF head, tail
    <3>10. /\ Len(head) \in Nat /\ Len(tail) \in Nat /\ Len(head \o tail) = Len(head) + Len(tail)
           /\ \A i \in 1..Len(head) : (head \o tail)[i] = head[i]
           /\ \A i \in 1..Len(tail) : (head \o tail)[Len(head) + i] = tail[i]
           /\ DOMAIN head = 1..Len(head)
      BY <3>7, Joined, SequenceFacts
    <3>11. \A n \in 1..Len(head) : head[n].ended
      <4>1. \A n \in 1..Len(head) : head[n] \in ToSet(head)  BY <3>10 DEF ToSet
      <4> QED  BY <3>7, <4>1
    <3>12. ASSUME NEW n \in 1..(Len(head \o tail) - 1) PROVE (head \o tail)[n].ended
      <4>1. CASE n <= Len(head)
        <5>1. n \in 1..Len(head)  BY <3>10, <3>12, <4>1
        <5> QED  BY <3>10, <3>11, <5>1
      <4>2. CASE ~(n <= Len(head))
        <5>1. n - Len(head) \in 1..(Len(tail) - 1) /\ n - Len(head) \in 1..Len(tail) /\ Len(head) + (n - Len(head)) = n
          BY <3>10, <3>12, <4>2
        <5>2. (head \o tail)[n] = tail[n - Len(head)]
          <6> DEFINE i == n - Len(head)
          <6>1. i \in 1..Len(tail) /\ Len(head) + i = n  BY <5>1
          <6>2. (head \o tail)[Len(head) + i] = tail[i]  BY <3>10, <6>1
          <6> QED  BY <6>1, <6>2
        <5> QED  BY <3>8, <5>1, <5>2
      <4> QED  BY <4>1, <4>2
    <3> QED  BY <3>12, <3>9 DEF IsText
  <2> QED  BY <2>3, <2>4
<1> QED  BY <1>2, <1>3

\* and a sequence itself, if every part is one element of it.
LEMMA FlatSingles ==
    ASSUME NEW s, IsSequence(s)
    PROVE  FlattenSeq([n \in DOMAIN s |-> <<s[n]>>]) = s
<1> DEFINE f == [n \in DOMAIN s |-> <<s[n]>>]
           L == Len(s)
           N == L - 1
<1>1. L \in Nat /\ DOMAIN s = 1..L /\ (s = <<>> <=> L = 0)  BY SequenceFacts
<1>2. IsSequence(f) /\ Len(f) = L /\ DOMAIN f = 1..L /\ \A n \in 1..L : f[n] = <<s[n]>> /\ IsSequence(f[n])
  <2>1. f \in [1..L -> ToSet(f)]  BY <1>1 DEF ToSet
  <2>2. f \in Seq(ToSet(f)) /\ Len(f) = L  BY <1>1, <2>1
  <2>3. \A n \in 1..L : f[n] = <<s[n]>>  BY <1>1
  <2>4. DOMAIN f = 1..L  BY <1>1
  <2> HIDE DEF f, L
  <2> QED  BY <2>2, <2>3, <2>4, Segments DEF IsSequence
<1> HIDE DEF f
<1>3. CASE s = <<>>
  <2>1. f = <<>>  BY <1>1, <1>2, <1>3, SequenceFacts
  <2>2. FlattenSeq(f) = f  BY <1>1, <1>2, <1>3 DEF FlattenSeq
  <2> QED  BY <1>3, <2>1, <2>2 DEF f
<1>4. CASE s # <<>>
  <2>1. f # <<>>  BY <1>1, <1>2, <1>4, SequenceFacts
  <2>2. PICK p : /\ FlattenSeq(f) = p[L] /\ p[1] = f[1]
                 /\ \A k \in 1..N : p[k + 1] = p[k] \o f[k + 1]
                 /\ \A k \in 1..L : IsSequence(p[k])
    BY <1>2, <2>1, FlatUnfolds
  <2>3. N \in Nat /\ L = N + 1 /\ 0 \in 0..N /\ 1 \in 1..L  BY <1>1, <1>4
  <2> DEFINE Right == {k \in 0..N : Len(p[k + 1]) = k + 1 /\ \A i \in 1..(k + 1) : p[k + 1][i] = s[i]}
  <2>4. 0 \in Right
    <3>1. p[1] = <<s[1]>>  BY <1>2, <2>2, <2>3
    <3>2. 0 + 1 = 1 /\ Len(p[1]) = 1 /\ \A i \in 1..1 : p[1][i] = s[i]  BY <3>1
    <3> HIDE DEF N
    <3> QED  BY <2>3, <3>2
  <2>5. ASSUME NEW k \in 0..N, k \in Right, k < N PROVE k + 1 \in Right
    <3> DEFINE m == k + 1
               q == p[m]
               x == f[m + 1]
    <3>1. m \in 1..N /\ m \in 0..N /\ m + 1 \in 1..L /\ m \in 1..L /\ m \in Nat  BY <2>3, <2>5
    <3>2. p[m + 1] = q \o x /\ x = <<s[m + 1]>> /\ IsSequence(q) /\ IsSequence(x)  BY <1>2, <2>2, <3>1
    <3>3. Len(q) = m /\ \A i \in 1..m : q[i] = s[i]  BY <2>5
    <3> HIDE DEF m, q, x
    <3>4. /\ Len(q \o x) = Len(q) + Len(x) /\ \A i \in 1..Len(q) : (q \o x)[i] = q[i]
          /\ \A i \in 1..Len(x) : (q \o x)[Len(q) + i] = x[i]
      BY <3>2, Joined
    <3>5. Len(x) = 1 /\ x[1] = s[m + 1] /\ 1 \in 1..Len(x)  BY <3>2
    <3>6. Len(q \o x) = m + 1 /\ (q \o x)[m + 1] = s[m + 1]  BY <3>3, <3>4, <3>5
    <3>7. \A i \in 1..(m + 1) : (q \o x)[i] = s[i]
      <4> SUFFICES ASSUME NEW i \in 1..(m + 1) PROVE (q \o x)[i] = s[i]
        OBVIOUS
      <4>1. CASE i = m + 1  BY <3>6, <4>1
      <4>2. CASE i # m + 1
        <5>1. i \in 1..m  BY <3>1, <4>2
        <5> QED  BY <3>3, <3>4, <5>1
      <4> QED  BY <4>1, <4>2
    <3>8. m \in 0..N /\ Len(p[m + 1]) = m + 1 /\ \A i \in 1..(m + 1) : p[m + 1][i] = s[i]  BY <3>1, <3>2, <3>6, <3>7
    <3>9. m \in Right  BY <3>8
    <3> QED  BY <3>9 DEF m
  <2> HIDE DEF Right
  <2>6. 0..N \subseteq Right  BY <2>3, <2>4, <2>5, Reaches
  <2>7. N \in Right /\ N + 1 = L  BY <2>3, <2>6
  <2>8. Len(p[L]) = L /\ (\A i \in 1..L : p[L][i] = s[i]) /\ IsSequence(p[L])
    <3>1. L \in 1..L  BY <1>1, <2>3
    <3> QED  BY <2>2, <2>7, <3>1 DEF Right
  <2>9. p[L] = s  BY <2>8, SequencesEqual
  <2> QED  BY <2>2, <2>9 DEF f
<1> QED  BY <1>3, <1>4

\* Joined pieces are a sequence of lines, and the pieces themselves if each but
\* the last is a line that ends.
LEMMA JoinedLines ==
    ASSUME NEW pieces, IsSequence(pieces)
    PROVE  IsSequence(JoinLines(pieces)) /\ (IsText(pieces) => JoinLines(pieces) = pieces)
<1> DEFINE starts(n) == n = 1 \/ pieces[n - 1].ended
           f == [n \in DOMAIN pieces |-> IF starts(n) THEN <<LineOf(pieces, n)>> ELSE <<>>]
<1>1. Len(pieces) \in Nat /\ DOMAIN pieces = 1..Len(pieces)  BY SequenceFacts
<1>2. JoinLines(pieces) = FlattenSeq(f)  BY DEF JoinLines
<1>3. IsSequence(JoinLines(pieces))
  <2>1. f \in [1..Len(pieces) -> ToSet(f)]  BY <1>1 DEF ToSet
  <2>2. f \in Seq(ToSet(f))  BY <1>1, <2>1
  <2>3. \A n \in DOMAIN pieces : f[n] = IF starts(n) THEN <<LineOf(pieces, n)>> ELSE <<>>  OBVIOUS
  <2>4. DOMAIN f = DOMAIN pieces  OBVIOUS
  <2> HIDE DEF f, starts
  <2>5. IsSequence(f) /\ \A n \in DOMAIN f : IsSequence(f[n])  BY <2>2, <2>3, <2>4, Segments DEF IsSequence
  <2> QED  BY <1>2, <2>5, FlatIsSequence
<1>4. ASSUME IsText(pieces) PROVE JoinLines(pieces) = pieces
  <2>1. ASSUME NEW n \in DOMAIN pieces PROVE starts(n) /\ LineOf(pieces, n) = pieces[n]
    <3>1. starts(n)
      <4> SUFFICES ASSUME n # 1 PROVE pieces[n - 1].ended
        OBVIOUS
      <4>1. n - 1 \in 1..(Len(pieces) - 1)  BY <1>1
      <4> QED  BY <1>4, <4>1 DEF IsText
    <3> DEFINE Ends(e) == /\ \A m \in n..(e - 1) : ~pieces[m].ended
                          /\ pieces[e].ended \/ e = Len(pieces)
               e == CHOOSE x \in n..Len(pieces) : Ends(x)
    <3>2. pieces[n].ended \/ n = Len(pieces)
      <4>1. n # Len(pieces) => n \in 1..(Len(pieces) - 1)  BY <1>1
      <4> QED  BY <1>4, <4>1 DEF IsText
    <3>3. n \in n..Len(pieces) /\ Ends(n)
      <4>1. n \in n..Len(pieces) /\ n..(n - 1) = {}  BY <1>1
      <4> QED  BY <3>2, <4>1
    <3>4. e \in n..Len(pieces) /\ Ends(e)
      <4> HIDE DEF Ends
      <4> QED  BY <3>3
    <3>5. e = n
      <4> SUFFICES ASSUME e # n PROVE FALSE
        OBVIOUS
      <4>1. e \in n..Len(pieces) /\ Ends(e)  BY <3>4
      <4> HIDE DEF e
      <4>2. n \in n..(e - 1) /\ n # Len(pieces)
        <5> HIDE DEF Ends
        <5>1. e \in n..Len(pieces) /\ e # n  BY <3>5, <4>1
        <5> QED  BY <1>1, <5>1
      <4> QED  BY <3>2, <4>1, <4>2
    <3>6. LineOf(pieces, n) = pieces[n]  BY <3>5 DEF LineOf
    <3> QED  BY <3>1, <3>6
  <2> DEFINE g == [n \in DOMAIN pieces |-> <<pieces[n]>>]
  <2>2. f = g
    <3> HIDE DEF starts
    <3> QED  BY <2>1
  <2>3. FlattenSeq(g) = pieces  BY FlatSingles
  <2> HIDE DEF f, g
  <2> QED  BY <1>2, <2>2, <2>3
<1> QED  BY <1>3, <1>4

-----------------------------------------------------------------------------
(* The headings of a document *)

\* A document without fences, and its headings.
IsPlainText(lines) ==
    /\ IsSequence(lines)
    /\ \A n \in DOMAIN lines :
          lines[n].kind # "fence" /\ (lines[n].kind = "heading" => lines[n].level \in Nat \ {0})
Heads(lines) == {n \in DOMAIN lines : lines[n].kind = "heading"}

\* The headings that a line stands under.
Standing(lines, n) ==
    {m \in Heads(lines) : m <= n /\ \A j \in Heads(lines) : m < j /\ j <= n => lines[j].level > lines[m].level}

\* Without fences every heading counts.
LEMMA HeadsArePlain ==
    ASSUME NEW lines, IsPlainText(lines)
    PROVE  Headings(lines) = Heads(lines)
<1> DEFINE L == Len(lines)
           IsFence(f) == f = [n \in 1..(Len(lines) + 1) |->
                                IF n = 1 THEN {}
                                ELSE IF lines[n - 1].kind # "fence" THEN f[n - 1]
                                ELSE IF f[n - 1] = {} THEN {lines[n - 1].text}
                                ELSE f[n - 1] \ {lines[n - 1].text}]
           fence == CHOOSE f : IsFence(f)
           none == [n \in 1..(Len(lines) + 1) |-> {}]
<1>1. L \in Nat /\ DOMAIN lines = 1..L  BY SequenceFacts DEF IsPlainText
<1>2. FenceBefore(lines) = fence  BY DEF FenceBefore
<1>3. IsFence(none)
  <2> DEFINE made == [n \in 1..(L + 1) |->
                        IF n = 1 THEN {}
                        ELSE IF lines[n - 1].kind # "fence" THEN none[n - 1]
                        ELSE IF none[n - 1] = {} THEN {lines[n - 1].text}
                        ELSE none[n - 1] \ {lines[n - 1].text}]
  <2>1. ASSUME NEW n \in 1..(L + 1) PROVE made[n] = {}
    <3>1. CASE n = 1  BY <3>1
    <3>2. CASE n # 1
      <4>1. n - 1 \in 1..L /\ n - 1 \in 1..(L + 1)  BY <1>1, <3>2
      <4>2. lines[n - 1].kind # "fence"  BY <1>1, <4>1 DEF IsPlainText
      <4>3. none[n - 1] = {}  BY <4>1
      <4>4. made[n] = none[n - 1]  BY <3>2, <4>2
      <4> QED  BY <4>3, <4>4
    <3> QED  BY <3>1, <3>2
  <2>2. made = [n \in 1..(L + 1) |-> made[n]]  OBVIOUS
  <2> HIDE DEF made
  <2>3. made = none  BY <2>1, <2>2
  <2> QED  BY <2>3 DEF made
<1> HIDE DEF none
<1>4. IsFence(fence)  BY <1>3
<1> HIDE DEF fence
<1> DEFINE q == [n \in 1..(Len(lines) + 1) |->
                                IF n = 1 THEN {}
                                ELSE IF lines[n - 1].kind # "fence" THEN fence[n - 1]
                                ELSE IF fence[n - 1] = {} THEN {lines[n - 1].text}
                                ELSE fence[n - 1] \ {lines[n - 1].text}]
<1>5. fence = q  BY <1>4
<1>6. q[1] = {}  BY <1>1
<1>7. ASSUME NEW n \in 1..L PROVE q[n + 1] = fence[n]
  <2>1. n + 1 \in 1..(L + 1) /\ n + 1 # 1 /\ (n + 1) - 1 = n  BY <1>1
  <2>2. lines[n].kind # "fence"  BY <1>1 DEF IsPlainText
  <2> QED  BY <2>1, <2>2
<1> HIDE DEF q, IsFence
<1> DEFINE Unfenced == {n \in 0..L : fence[n + 1] = {}}
<1>8. 0 \in Unfenced  BY <1>1, <1>5, <1>6
<1>9. ASSUME NEW k \in 0..L, k \in Unfenced, k < L PROVE k + 1 \in Unfenced
  <2>1. k + 1 \in 1..L /\ k + 1 \in 0..L  BY <1>1, <1>9
  <2>2. fence[(k + 1) + 1] = fence[k + 1]  BY <1>5, <1>7, <2>1
  <2> QED  BY <1>9, <2>1, <2>2
<1> HIDE DEF Unfenced
<1>10. 0..L \subseteq Unfenced  BY <1>1, <1>8, <1>9, Reaches
<1>11. ASSUME NEW n \in DOMAIN lines PROVE fence[n] = {}
  <2>1. n - 1 \in 0..L /\ (n - 1) + 1 = n  BY <1>1
  <2> QED  BY <1>10, <2>1 DEF Unfenced
<1> QED  BY <1>2, <1>11 DEF Headings, Heads

\* A map from levels to texts that says what a line stands under.
Describes(lines, n, a) ==
    /\ DOMAIN a = {lines[m].level : m \in Standing(lines, n)}
    /\ \A m \in Standing(lines, n) : a[lines[m].level] = lines[m].text

\* At each level there is one.
LEMMA OneOfALevel ==
    ASSUME NEW lines, IsPlainText(lines), NEW n \in 0..Len(lines), NEW m \in Standing(lines, n), NEW k \in Standing(lines, n),
           lines[m].level = lines[k].level
    PROVE  m = k
<1>1. Len(lines) \in Nat /\ DOMAIN lines = 1..Len(lines)  BY SequenceFacts DEF IsPlainText
<1>2. m \in DOMAIN lines /\ k \in DOMAIN lines /\ m <= n /\ k <= n /\ m \in Heads(lines) /\ k \in Heads(lines)
  BY DEF Standing, Heads
<1>3. lines[m].level \in Nat /\ lines[k].level \in Nat  BY <1>2 DEF IsPlainText, Heads
<1>4. m < k => lines[k].level > lines[m].level  BY <1>2 DEF Standing
<1>5. k < m => lines[m].level > lines[k].level  BY <1>2 DEF Standing
<1>6. m \in Nat /\ k \in Nat  BY <1>1, <1>2
<1> QED  BY <1>3, <1>4, <1>5, <1>6

\* What a line stands under, from what the line before it does.
LEMMA NextStanding ==
    ASSUME NEW lines, IsPlainText(lines), NEW n \in 1..Len(lines)
    PROVE  /\ n \notin Heads(lines) => Standing(lines, n) = Standing(lines, n - 1)
           /\ n \in Heads(lines) =>
                 Standing(lines, n) = {n} \cup {m \in Standing(lines, n - 1) : lines[m].level < lines[n].level}
<1>1. Len(lines) \in Nat /\ DOMAIN lines = 1..Len(lines)  BY SequenceFacts DEF IsPlainText
<1>2. \A m \in Heads(lines) : m \in Nat /\ lines[m].level \in Nat  BY <1>1 DEF Heads, IsPlainText
<1>3. \A m \in Nat : (m <= n <=> m <= n - 1 \/ m = n) /\ ~(n < m /\ m <= n)  BY <1>1
<1>4. n \notin Heads(lines) => Standing(lines, n) = Standing(lines, n - 1)
  <2> SUFFICES ASSUME n \notin Heads(lines) PROVE Standing(lines, n) = Standing(lines, n - 1)
    OBVIOUS
  <2>1. \A m \in Heads(lines) : m <= n <=> m <= n - 1  BY <1>2, <1>3
  <2> QED  BY <2>1 DEF Standing
<1>5. n \in Heads(lines) =>
         Standing(lines, n) = {n} \cup {m \in Standing(lines, n - 1) : lines[m].level < lines[n].level}
  <2> SUFFICES ASSUME n \in Heads(lines)
               PROVE  Standing(lines, n) = {n} \cup {m \in Standing(lines, n - 1) : lines[m].level < lines[n].level}
    OBVIOUS
  <2>1. n \in Standing(lines, n)
    <3>1. n <= n /\ \A j \in Heads(lines) : ~(n < j /\ j <= n)  BY <1>2, <1>3
    <3> QED  BY <3>1 DEF Standing
  <2>2. ASSUME NEW m \in Standing(lines, n), m # n
        PROVE  m \in Standing(lines, n - 1) /\ lines[m].level < lines[n].level
    <3>1. m \in Heads(lines) /\ m <= n - 1 /\ m < n
      <4>1. m \in Heads(lines) /\ m <= n  BY DEF Standing
      <4>2. m \in Nat /\ n \in Nat  BY <1>1, <1>2, <4>1
      <4> QED  BY <2>2, <4>1, <4>2
    <3>2. \A j \in Heads(lines) : m < j /\ j <= n - 1 => lines[j].level > lines[m].level
      BY <1>2, <1>3 DEF Standing
    <3>3. lines[n].level > lines[m].level
      <4>1. n <= n  BY <1>1
      <4> QED  BY <3>1, <4>1 DEF Standing
    <3> QED  BY <1>2, <3>1, <3>2, <3>3 DEF Standing
  <2>3. ASSUME NEW m \in Standing(lines, n - 1), lines[m].level < lines[n].level
        PROVE  m \in Standing(lines, n)
    <3>1. m \in Heads(lines) /\ m <= n  BY <1>2, <1>3 DEF Standing
    <3>2. ASSUME NEW j \in Heads(lines), m < j, j <= n PROVE lines[j].level > lines[m].level
      <4>1. CASE j = n  BY <1>2, <2>3, <3>1, <4>1
      <4>2. CASE j # n
        <5>1. j <= n - 1  BY <1>2, <1>3, <3>2, <4>2
        <5> QED  BY <3>2, <5>1 DEF Standing
      <4> QED  BY <4>1, <4>2
    <3> QED  BY <3>1, <3>2 DEF Standing
  <2> QED  BY <2>1, <2>2, <2>3
<1> QED  BY <1>4, <1>5

\* What a line adds to the headings above it.
Beneath(lines, n, above) ==
    IF lines[n].kind # "heading" THEN above
    ELSE At(lines[n].level, lines[n].text) ++ Restrict(above, {level \in DOMAIN above : level < lines[n].level})

\* The maps from levels of a document to its texts.
Outlines(lines) == UNION {[S -> {lines[m].text : m \in DOMAIN lines}] : S \in SUBSET {lines[m].level : m \in Heads(lines)}}

\* Which maps these are.
LEMMA IsOutline ==
    ASSUME NEW lines, NEW a, NEW S, S \subseteq {lines[m].level : m \in Heads(lines)},
           a \in [S -> {lines[m].text : m \in DOMAIN lines}]
    PROVE  a \in Outlines(lines)
<1>1. S \in SUBSET {lines[m].level : m \in Heads(lines)}  OBVIOUS
<1> QED  BY <1>1 DEF Outlines

\* What a line adds keeps the description right,
LEMMA BeneathFacts ==
    ASSUME NEW lines, IsPlainText(lines), NEW n \in 1..Len(lines), NEW a \in Outlines(lines)
    PROVE  /\ Beneath(lines, n, a) \in Outlines(lines)
           /\ Describes(lines, n - 1, a) => Describes(lines, n, Beneath(lines, n, a))
<1> DEFINE texts == {lines[m].text : m \in DOMAIN lines}
           levels == {lines[m].level : m \in Heads(lines)}
           l == lines[n].level
           low == {level \in DOMAIN a : level < l}
           r == Restrict(a, low)
           h == At(l, lines[n].text)
           b == h ++ r
<1>1. Len(lines) \in Nat /\ DOMAIN lines = 1..Len(lines)  BY SequenceFacts DEF IsPlainText
<1>2. PICK S \in SUBSET levels : a \in [S -> texts]  BY DEF Outlines
<1>3. CASE n \notin Heads(lines)
  <2>1. Beneath(lines, n, a) = a  BY <1>1, <1>3 DEF Beneath, Heads
  <2>2. Standing(lines, n) = Standing(lines, n - 1)  BY <1>3, NextStanding
  <2> QED  BY <2>1, <2>2 DEF Describes
<1>4. CASE n \in Heads(lines)
  <2>1. Beneath(lines, n, a) = b  BY <1>4 DEF Beneath, Heads
  <2>2. DOMAIN h = {l} /\ h[l] = lines[n].text  BY AtFacts
  <2>3. DOMAIN r = low /\ \A k \in low : r[k] = a[k]  BY DEF Restrict
  <2>4. l \notin low /\ l \in levels /\ lines[n].text \in texts /\ low \subseteq S
    <3>1. l \in Nat  BY <1>1, <1>4 DEF IsPlainText, Heads
    <3> QED  BY <1>1, <1>2, <1>4, <3>1
  <2> HIDE DEF h, r
  <2>5. /\ DOMAIN (h ++ r) = DOMAIN h \cup DOMAIN r
        /\ \A x \in DOMAIN h : (h ++ r)[x] = h[x]
        /\ \A x \in DOMAIN r \ DOMAIN h : (h ++ r)[x] = r[x]
    BY BothFacts
  <2>6. DOMAIN b = {l} \cup low /\ b[l] = lines[n].text /\ \A k \in low : b[k] = a[k]
    BY <2>2, <2>3, <2>4, <2>5
  <2>7. b = [x \in {l} \cup low |-> b[x]]
    <3>1. b = [x \in DOMAIN h \cup DOMAIN r |-> IF x \in DOMAIN h THEN h[x] ELSE r[x]]  BY DEF ++
    <3> DEFINE g == [x \in DOMAIN h \cup DOMAIN r |-> IF x \in DOMAIN h THEN h[x] ELSE r[x]]
    <3>2. g = [x \in DOMAIN h \cup DOMAIN r |-> g[x]]  OBVIOUS
    <3> HIDE DEF g, b, low
    <3> QED  BY <2>2, <2>3, <3>1, <3>2 DEF g
  <2> HIDE DEF b
  <2>8. b \in Outlines(lines)
    <3>1. {l} \cup low \subseteq levels  BY <1>2, <2>4
    <3>2. \A k \in {l} \cup low : b[k] \in texts  BY <1>2, <2>4, <2>6
    <3>3. b \in [{l} \cup low -> texts]  BY <2>7, <3>2
    <3> HIDE DEF low, l
    <3> QED  BY <3>1, <3>3, IsOutline
  <2>9. Describes(lines, n - 1, a) => Describes(lines, n, b)
    <3> SUFFICES ASSUME Describes(lines, n - 1, a) PROVE Describes(lines, n, b)
      OBVIOUS
    <3>1. Standing(lines, n) = {n} \cup {m \in Standing(lines, n - 1) : lines[m].level < l}  BY <1>4, NextStanding
    <3>2. DOMAIN a = {lines[m].level : m \in Standing(lines, n - 1)}
          /\ \A m \in Standing(lines, n - 1) : a[lines[m].level] = lines[m].text
      BY DEF Describes
    <3>3. low = {lines[m].level : m \in {k \in Standing(lines, n - 1) : lines[k].level < l}}  BY <3>2
    <3>4. DOMAIN b = {lines[m].level : m \in Standing(lines, n)}  BY <2>6, <3>1, <3>3
    <3>5. \A m \in Standing(lines, n) : b[lines[m].level] = lines[m].text
      <4> SUFFICES ASSUME NEW m \in Standing(lines, n) PROVE b[lines[m].level] = lines[m].text
        OBVIOUS
      <4>1. CASE m = n  BY <2>6, <4>1
      <4>2. CASE m # n
        <5>1. m \in Standing(lines, n - 1) /\ lines[m].level < l  BY <3>1, <4>2
        <5>2. lines[m].level \in low  BY <3>2, <5>1
        <5> QED  BY <2>6, <3>2, <5>1, <5>2
      <4> QED  BY <4>1, <4>2
    <3> QED  BY <3>4, <3>5 DEF Describes
  <2> QED  BY <2>1, <2>8, <2>9
<1> QED  BY <1>3, <1>4

\* so the outline describes every line.
LEMMA OutlineFacts ==
    ASSUME NEW lines, IsPlainText(lines), NEW n \in 0..Len(lines)
    PROVE  Outline(lines)[n] \in Outlines(lines) /\ Describes(lines, n, Outline(lines)[n])
<1> DEFINE N == Len(lines)
           D == Outlines(lines)
           step == [x \in (1..N) \X D |-> Beneath(lines, x[1], x[2])]
           IsAbove(f) == f = [i \in 0..N |-> IF i = 0 THEN <<>> ELSE Beneath(lines, i, f[i - 1])]
           p == CHOOSE f : IsAbove(f)
<1>1. N \in Nat /\ DOMAIN lines = 1..N  BY SequenceFacts DEF IsPlainText
<1>2. Outline(lines) = p  BY DEF Outline, Beneath
<1>3. step \in [(1..N) \X D -> D]
  <2>1. ASSUME NEW x \in (1..N) \X D PROVE Beneath(lines, x[1], x[2]) \in D
    <3>1. x[1] \in 1..N /\ x[2] \in D  BY <2>1
    <3> QED  BY <3>1, BeneathFacts
  <2> QED  BY <2>1
<1>4. <<>> \in D
  <2>1. <<>> \in [{} -> {lines[m].text : m \in DOMAIN lines}]  OBVIOUS
  <2>2. {} \subseteq {lines[m].level : m \in Heads(lines)}  OBVIOUS
  <2> QED  BY <2>1, <2>2, IsOutline
<1>5. PICK g \in [0..N -> D] : Follows(g, <<>>, step, N)
  <2> HIDE DEF D, step, N
  <2> QED  BY <1>1, <1>3, <1>4, Unfolds
<1>6. g[0] = <<>> /\ \A k \in 1..N : g[k] = Beneath(lines, k, g[k - 1])
  <2>1. ASSUME NEW k \in 1..N PROVE g[k] = Beneath(lines, k, g[k - 1])
    <3>1. k - 1 \in 0..N  BY <1>1
    <3>2. g[k - 1] \in D  BY <1>5, <3>1
    <3>3. <<k, g[k - 1]>> \in (1..N) \X D  BY <3>2
    <3>4. g[k] = step[<<k, g[k - 1]>>]  BY <1>5 DEF Follows
    <3>5. <<k, g[k - 1]>>[1] = k /\ <<k, g[k - 1]>>[2] = g[k - 1]  OBVIOUS
    <3> HIDE DEF D, N
    <3> QED  BY <3>3, <3>4, <3>5
  <2> QED  BY <1>5, <2>1 DEF Follows
<1>7. IsAbove(g)
  <2> DEFINE h == [i \in 0..N |-> IF i = 0 THEN <<>> ELSE Beneath(lines, i, g[i - 1])]
  <2>1. ASSUME NEW i \in 0..N PROVE g[i] = h[i]
    <3>1. CASE i = 0  BY <1>6, <3>1
    <3>2. CASE i # 0
      <4>1. i \in 1..N  BY <1>1, <3>2
      <4> HIDE DEF N
      <4> QED  BY <1>6, <3>2, <4>1
    <3> QED  BY <3>1, <3>2
  <2>2. g = [i \in 0..N |-> g[i]]  BY <1>5
  <2>3. h = [i \in 0..N |-> h[i]]  OBVIOUS
  <2> HIDE DEF h
  <2>4. g = h  BY <2>1, <2>2, <2>3
  <2> QED  BY <2>4 DEF h
<1>8. IsAbove(p)  BY <1>7
<1> HIDE DEF p, step
<1>9. p[0] = <<>> /\ \A k \in 1..N : p[k] = Beneath(lines, k, p[k - 1])
  <2> DEFINE h == [i \in 0..N |-> IF i = 0 THEN <<>> ELSE Beneath(lines, i, p[i - 1])]
  <2>1. p = h  BY <1>8
  <2>2. 0 \in 0..N /\ \A k \in 1..N : k \in 0..N /\ k # 0  BY <1>1
  <2> HIDE DEF N, IsAbove
  <2>3. h[0] = <<>> /\ \A k \in 1..N : h[k] = Beneath(lines, k, p[k - 1])  BY <2>2
  <2> HIDE DEF h
  <2> QED  BY <2>1, <2>3
<1> HIDE DEF IsAbove
<1> DEFINE Right == {k \in 0..N : p[k] \in D /\ Describes(lines, k, p[k])}
<1>10. 0 \in Right
  <2>1. Standing(lines, 0) = {}
    <3>1. \A m \in Heads(lines) : ~(m <= 0)  BY <1>1 DEF Heads
    <3> QED  BY <3>1 DEF Standing
  <2>2. DOMAIN <<>> = {}  OBVIOUS
  <2>3. Describes(lines, 0, <<>>)  BY <2>1, <2>2 DEF Describes
  <2>4. 0 \in 0..N  BY <1>1
  <2> HIDE DEF N, D
  <2> QED  BY <1>4, <1>9, <2>3, <2>4
<1>11. ASSUME NEW k \in 0..N, k \in Right, k < N PROVE k + 1 \in Right
  <2>1. k + 1 \in 1..N /\ k + 1 \in 0..N /\ (k + 1) - 1 = k  BY <1>1, <1>11
  <2>2. p[k] \in D /\ Describes(lines, k, p[k])  BY <1>11
  <2>3. p[k + 1] = Beneath(lines, k + 1, p[k])  BY <1>9, <2>1
  <2>4. /\ Beneath(lines, k + 1, p[k]) \in D
        /\ Describes(lines, (k + 1) - 1, p[k]) => Describes(lines, k + 1, Beneath(lines, k + 1, p[k]))
    BY <2>1, <2>2, BeneathFacts
  <2> HIDE DEF N, D
  <2> QED  BY <2>1, <2>2, <2>3, <2>4
<1> HIDE DEF Right
<1>12. 0..N \subseteq Right  BY <1>1, <1>10, <1>11, Reaches
<1> QED  BY <1>2, <1>12 DEF Right

-----------------------------------------------------------------------------
(* The sections of a document *)

\* What a line stands under begins with a path.
IsUnder(lines, n, path) ==
    \A p \in DOMAIN path : \E m \in Standing(lines, n) : lines[m].level = p /\ lines[m].text = path[p]

\* This is what the outline says of a line.
LEMMA LinesUnder ==
    ASSUME NEW lines, IsPlainText(lines), NEW n \in 0..Len(lines), NEW path, IsSequence(path),
           NEW a, a = Outline(lines)[n]
    PROVE  (DOMAIN path \subseteq DOMAIN a /\ Restrict(a, DOMAIN path) = path) <=> IsUnder(lines, n, path)
<1>1. DOMAIN a = {lines[m].level : m \in Standing(lines, n)} /\ \A m \in Standing(lines, n) : a[lines[m].level] = lines[m].text
  BY OutlineFacts DEF Describes
<1>2. path = [p \in DOMAIN path |-> path[p]]
  <2>1. DOMAIN path = 1..Len(path) /\ path = [i \in 1..Len(path) |-> path[i]]  BY SequenceFacts
  <2> QED  BY <2>1
<1>3. Restrict(a, DOMAIN path) = [p \in DOMAIN path |-> a[p]]  BY DEF Restrict
<1>4. ASSUME DOMAIN path \subseteq DOMAIN a, Restrict(a, DOMAIN path) = path PROVE IsUnder(lines, n, path)
  <2> SUFFICES ASSUME NEW p \in DOMAIN path
               PROVE  \E m \in Standing(lines, n) : lines[m].level = p /\ lines[m].text = path[p]
    BY DEF IsUnder
  <2>1. PICK m \in Standing(lines, n) : lines[m].level = p  BY <1>1, <1>4
  <2>2. Restrict(a, DOMAIN path)[p] = a[p]  BY <1>3
  <2> QED  BY <1>1, <1>4, <2>1, <2>2
<1>5. ASSUME IsUnder(lines, n, path) PROVE DOMAIN path \subseteq DOMAIN a /\ Restrict(a, DOMAIN path) = path
  <2>1. \A p \in DOMAIN path : p \in DOMAIN a /\ a[p] = path[p]  BY <1>1, <1>5 DEF IsUnder
  <2> QED  BY <1>2, <1>3, <2>1
<1> QED  BY <1>4, <1>5

\* A heading stands under itself and headings of lower levels.
LEMMA LevelsOfHeading ==
    ASSUME NEW lines, IsPlainText(lines), NEW n \in Heads(lines)
    PROVE  /\ n \in Standing(lines, n) /\ n \in 1..Len(lines) /\ n \in 0..Len(lines)
           /\ \A m \in Standing(lines, n) : lines[m].level \in 1..lines[n].level
           /\ \A m \in Standing(lines, n) : m # n => lines[m].level < lines[n].level
<1>1. Len(lines) \in Nat /\ DOMAIN lines = 1..Len(lines)  BY SequenceFacts DEF IsPlainText
<1>2. \A m \in Heads(lines) : m \in Nat /\ lines[m].level \in Nat \ {0} /\ lines[m].level \in Nat
  BY <1>1 DEF Heads, IsPlainText
<1>3. n \in 1..Len(lines) /\ n \in 0..Len(lines)  BY <1>1 DEF Heads
<1>4. Standing(lines, n) = {n} \cup {m \in Standing(lines, n - 1) : lines[m].level < lines[n].level}
  BY <1>3, NextStanding
<1>5. ASSUME NEW m \in Standing(lines, n) PROVE lines[m].level \in 1..lines[n].level
  <2>1. m \in Heads(lines)  BY DEF Standing
  <2>2. m = n \/ lines[m].level < lines[n].level  BY <1>4
  <2> QED  BY <1>2, <2>1, <2>2
<1> QED  BY <1>3, <1>4, <1>5

\* Matching a path, said in terms of standing.
LEMMA MatchFacts ==
    ASSUME NEW lines, IsPlainText(lines), NEW path, IsSequence(path), path # <<>>, NEW n
    PROVE  n \in Matches(lines, path)
              <=> n \in Heads(lines) /\ lines[n].level = Len(path) /\ IsUnder(lines, n, path)
<1>1. Headings(lines) = Heads(lines)  BY HeadsArePlain
<1>2. n \in Matches(lines, path) <=>
         n \in Heads(lines) /\ lines[n].level = Len(path)
         /\ \A p \in DOMAIN path : Ancestor(lines, Heads(lines), n, p) = {path[p]}
  BY <1>1 DEF Matches
<1>3. ASSUME n \in Heads(lines), NEW p
      PROVE  Ancestor(lines, Heads(lines), n, p) = {lines[m].text : m \in {k \in Standing(lines, n) : lines[k].level = p}}
  <2>1. {k \in Heads(lines) : k <= n /\ lines[k].level = p /\ \A j \in Heads(lines) : k < j /\ j <= n => lines[j].level > p}
        = {k \in Standing(lines, n) : lines[k].level = p}
    BY DEF Standing
  <2> QED  BY <2>1 DEF Ancestor
<1>4. ASSUME n \in Heads(lines), NEW p \in DOMAIN path
      PROVE  Ancestor(lines, Heads(lines), n, p) = {path[p]}
                <=> \E m \in Standing(lines, n) : lines[m].level = p /\ lines[m].text = path[p]
  <2>1. n \in 0..Len(lines)  BY <1>4, LevelsOfHeading
  <2>2. \A m, k \in Standing(lines, n) : lines[m].level = lines[k].level => m = k  BY <2>1, OneOfALevel
  <2>3. Ancestor(lines, Heads(lines), n, p) = {lines[m].text : m \in {k \in Standing(lines, n) : lines[k].level = p}}
    BY <1>3, <1>4
  <2>4. ASSUME Ancestor(lines, Heads(lines), n, p) = {path[p]}
        PROVE  \E m \in Standing(lines, n) : lines[m].level = p /\ lines[m].text = path[p]
    <3>1. path[p] \in {lines[m].text : m \in {k \in Standing(lines, n) : lines[k].level = p}}  BY <2>3, <2>4
    <3> QED  BY <3>1
  <2>5. ASSUME NEW m \in Standing(lines, n), lines[m].level = p, lines[m].text = path[p]
        PROVE  Ancestor(lines, Heads(lines), n, p) = {path[p]}
    <3>1. {k \in Standing(lines, n) : lines[k].level = p} = {m}  BY <2>2, <2>5
    <3> QED  BY <2>3, <2>5, <3>1
  <2> QED  BY <2>4, <2>5
<1> QED  BY <1>2, <1>4 DEF IsUnder

\* A heading matches a path when the headings it stands under are that path.
LEMMA MatchesAreHeads ==
    ASSUME NEW lines, IsPlainText(lines), NEW path, IsSequence(path), path # <<>>, NEW n \in DOMAIN lines
    PROVE  n \in Matches(lines, path) <=> lines[n].kind = "heading" /\ Outline(lines)[n] = path
<1> DEFINE a == Outline(lines)[n]
           l == lines[n].level
<1>1. Len(lines) \in Nat /\ DOMAIN lines = 1..Len(lines)  BY SequenceFacts DEF IsPlainText
<1>2. DOMAIN path = 1..Len(path) /\ Len(path) \in Nat /\ Len(path) # 0 /\ path = [p \in DOMAIN path |-> path[p]]
  <2>1. DOMAIN path = 1..Len(path) /\ path = [i \in 1..Len(path) |-> path[i]]  BY SequenceFacts
  <2> QED  BY <2>1, SequenceFacts
<1>3. lines[n].kind = "heading" <=> n \in Heads(lines)  BY DEF Heads
<1>4. n \in 0..Len(lines)  BY <1>1
<1>5. DOMAIN a = {lines[m].level : m \in Standing(lines, n)}
      /\ (\A m \in Standing(lines, n) : a[lines[m].level] = lines[m].text) /\ a \in Outlines(lines)
  BY <1>4, OutlineFacts DEF Describes
<1>6. a = [p \in DOMAIN a |-> a[p]]  BY <1>5 DEF Outlines
<1>7. (DOMAIN path \subseteq DOMAIN a /\ Restrict(a, DOMAIN path) = path) <=> IsUnder(lines, n, path)
  BY <1>4, LinesUnder
<1> HIDE DEF a
<1>8. ASSUME n \in Heads(lines), l = Len(path), IsUnder(lines, n, path) PROVE a = path
  <2>1. \A m \in Standing(lines, n) : lines[m].level \in 1..l  BY <1>8, LevelsOfHeading
  <2>2. DOMAIN a = DOMAIN path  BY <1>2, <1>5, <1>7, <1>8, <2>1
  <2>3. Restrict(a, DOMAIN a) = a  BY <1>6 DEF Restrict
  <2> QED  BY <1>7, <1>8, <2>2, <2>3
<1>9. ASSUME n \in Heads(lines), a = path PROVE l = Len(path) /\ IsUnder(lines, n, path)
  <2>1. Restrict(a, DOMAIN path) = path  BY <1>6, <1>9 DEF Restrict
  <2>2. IsUnder(lines, n, path)  BY <1>7, <1>9, <2>1
  <2>3. n \in Standing(lines, n) /\ \A m \in Standing(lines, n) : lines[m].level \in 1..l  BY <1>9, LevelsOfHeading
  <2>4. l \in 1..Len(path)  BY <1>2, <1>5, <1>9, <2>3
  <2>5. Len(path) \in 1..Len(path)  BY <1>2
  <2>6. Len(path) \in 1..l
    <3>1. Len(path) \in DOMAIN a  BY <1>2, <1>9, <2>5
    <3>2. PICK m \in Standing(lines, n) : Len(path) = lines[m].level  BY <1>5, <3>1
    <3> QED  BY <2>3, <3>2
  <2>7. l \in Nat /\ Len(path) \in Nat  BY <1>2, <2>4
  <2>8. l = Len(path)
    <3> HIDE DEF l
    <3> QED  BY <2>4, <2>6, <2>7
  <2> QED  BY <2>2, <2>8
<1> QED  BY <1>3, <1>8, <1>9, MatchFacts DEF a

\* A section has an end, and the lines before it are those that stand under its heading.
LEMMA SectionEnds ==
    ASSUME NEW lines, IsPlainText(lines), NEW s \in Heads(lines), NEW n \in DOMAIN lines
    PROVE  n \in (s + 1)..SectionEnd(lines, s) <=> n # s /\ s \in Standing(lines, n)
<1> DEFINE L == Len(lines)
           l == lines[s].level
           e == SectionEnd(lines, s)
           Ends(k) == /\ \A i \in (s + 1)..k : lines[i].kind # "heading" \/ lines[i].level > l
                      /\ k < L => lines[k + 1].kind = "heading" /\ lines[k + 1].level <= l
           Next1(k) == k \in Heads(lines) /\ s < k /\ lines[k].level <= l
           B == {k \in Heads(lines) : Next1(k)}
<1>1. L \in Nat /\ DOMAIN lines = 1..L  BY SequenceFacts DEF IsPlainText
<1>2. \A m \in Heads(lines) : m \in 1..L /\ m \in Nat /\ lines[m].level \in Nat  BY <1>1 DEF Heads, IsPlainText
<1>3. s \in 1..L /\ l \in Nat  BY <1>2
<1>4. \A k \in 1..L : lines[k].kind = "heading" <=> k \in Heads(lines)  BY <1>1 DEF Heads
<1>5. \E k \in s..L : Ends(k)
  <2>1. CASE B = {}
    <3>1. \A i \in (s + 1)..L : i \in 1..L /\ s < i  BY <1>1, <1>3
    <3>2. \A i \in (s + 1)..L : lines[i].kind # "heading" \/ lines[i].level > l
      <4> SUFFICES ASSUME NEW i \in (s + 1)..L, i \in Heads(lines) PROVE lines[i].level > l
        BY <1>4, <3>1
      <4>1. ~(lines[i].level <= l)  BY <2>1, <3>1
      <4> QED  BY <1>2, <1>3, <4>1
    <3>3. L \in s..L /\ ~(L < L)  BY <1>1, <1>3
    <3> QED  BY <3>2, <3>3
  <2>2. CASE B # {}
    <3>1. B \subseteq Nat  BY <1>2
    <3>2. PICK b \in B : \A k \in B : ~(<<k, b>> \in OpToRel(<, Nat))
      <4> HIDE DEF B
      <4> QED  BY <2>2, <3>1, NatLessThanWellFounded, WFMin
    <3>3. b \in Heads(lines) /\ s < b /\ lines[b].level <= l /\ b \in 1..L /\ b \in Nat  BY <1>2, <3>2
    <3>4. b - 1 \in s..L /\ (b - 1) + 1 = b  BY <1>1, <1>3, <3>3
    <3>5. ASSUME NEW i \in (s + 1)..(b - 1) PROVE lines[i].kind # "heading" \/ lines[i].level > l
      <4>1. i \in 1..L /\ s < i /\ i < b /\ i \in Nat  BY <1>1, <1>3, <3>3
      <4> SUFFICES ASSUME i \in Heads(lines) PROVE lines[i].level > l
        BY <1>4, <4>1
      <4>2. <<i, b>> \in OpToRel(<, Nat)
        <5>1. <<i, b>> \in Nat \X Nat /\ <<i, b>>[1] < <<i, b>>[2]  BY <3>3, <4>1
        <5> QED  BY <5>1 DEF OpToRel
      <4>3. i \notin B  BY <3>2, <4>2
      <4>4. ~(lines[i].level <= l)  BY <4>1, <4>3
      <4> QED  BY <1>2, <1>3, <4>4
    <3>6. lines[b].kind = "heading" /\ lines[b].level <= l  BY <3>3 DEF Heads
    <3>7. Ends(b - 1)  BY <3>4, <3>5, <3>6
    <3> HIDE DEF Ends
    <3> QED  BY <3>4, <3>7
  <2> QED  BY <2>1, <2>2
<1>6. e \in s..L /\ Ends(e)
  <2>1. e = CHOOSE k \in s..L : Ends(k)  BY DEF SectionEnd
  <2> HIDE DEF e, Ends, L
  <2> QED  BY <1>5, <2>1
<1> HIDE DEF e
<1>7. n \in 1..L /\ n \in Nat /\ e \in Nat /\ e <= L /\ s <= e /\ s \in Nat  BY <1>1, <1>3, <1>6
<1>8. ASSUME n \in (s + 1)..e PROVE n # s /\ s \in Standing(lines, n)
  <2>1. n # s /\ s <= n  BY <1>7, <1>8
  <2>2. ASSUME NEW j \in Heads(lines), s < j, j <= n PROVE lines[j].level > l
    <3>1. j \in (s + 1)..e /\ j \in 1..L  BY <1>2, <1>7, <1>8, <2>2
    <3> QED  BY <1>4, <1>6, <3>1
  <2> QED  BY <2>1, <2>2 DEF Standing
<1>9. ASSUME n # s, s \in Standing(lines, n) PROVE n \in (s + 1)..e
  <2>1. s <= n /\ \A j \in Heads(lines) : s < j /\ j <= n => lines[j].level > l  BY <1>9 DEF Standing
  <2>2. s < n  BY <1>7, <1>9, <2>1
  <2>3. ~(e < n)
    <3> SUFFICES ASSUME e < n PROVE FALSE
      OBVIOUS
    <3>1. e < L /\ e + 1 \in 1..L /\ s < e + 1 /\ e + 1 <= n  BY <1>1, <1>7
    <3>2. lines[e + 1].kind = "heading" /\ lines[e + 1].level <= l  BY <1>6, <3>1
    <3>3. e + 1 \in Heads(lines)  BY <1>4, <3>1, <3>2
    <3>4. lines[e + 1].level > l  BY <2>1, <3>1, <3>3
    <3>5. lines[e + 1].level \in Nat  BY <1>2, <3>3
    <3> QED  BY <1>3, <3>2, <3>4, <3>5
  <2> QED  BY <1>7, <2>2, <2>3
<1> QED  BY <1>8, <1>9 DEF e

\* The lines of the only section of a path are those that stand under it.
LEMMA LinesOfSection ==
    ASSUME NEW lines, IsPlainText(lines), NEW path, IsSequence(path), path # <<>>,
           NEW s, Matches(lines, path) = {s}, NEW n \in DOMAIN lines
    PROVE  (n # s /\ s \in Standing(lines, n)) <=> (IsUnder(lines, n, path) /\ n # s)
<1> DEFINE l == Len(path)
<1>1. Len(lines) \in Nat /\ DOMAIN lines = 1..Len(lines)  BY SequenceFacts DEF IsPlainText
<1>2. \A m \in Heads(lines) : m \in Nat /\ lines[m].level \in Nat  BY <1>1 DEF Heads, IsPlainText
<1>3. DOMAIN path = 1..l /\ l \in Nat /\ l # 0 /\ l \in 1..l
  <2>1. DOMAIN path = 1..l /\ l \in Nat /\ l # 0  BY SequenceFacts
  <2> QED  BY <2>1
<1>4. s \in Heads(lines) /\ lines[s].level = l /\ IsUnder(lines, s, path)
  <2>1. s \in Matches(lines, path)  OBVIOUS
  <2> QED  BY <2>1, MatchFacts
<1>5. n \in Nat /\ n \in 0..Len(lines)  BY <1>1
<1>6. ASSUME s \in Standing(lines, n) PROVE IsUnder(lines, n, path)
  <2> SUFFICES ASSUME NEW p \in DOMAIN path
               PROVE  \E m \in Standing(lines, n) : lines[m].level = p /\ lines[m].text = path[p]
    BY DEF IsUnder
  <2>1. PICK m \in Standing(lines, s) : lines[m].level = p /\ lines[m].text = path[p]  BY <1>4 DEF IsUnder
  <2>2. m \in Heads(lines) /\ m <= s /\ \A j \in Heads(lines) : m < j /\ j <= s => lines[j].level > p
    BY <2>1 DEF Standing
  <2>3. s <= n /\ \A j \in Heads(lines) : s < j /\ j <= n => lines[j].level > l  BY <1>4, <1>6 DEF Standing
  <2>4. m <= n  BY <1>2, <1>4, <1>5, <2>2, <2>3
  <2>5. ASSUME NEW j \in Heads(lines), m < j, j <= n PROVE lines[j].level > p
    <3>1. CASE j <= s  BY <2>2, <2>5, <3>1
    <3>2. CASE ~(j <= s)
      <4>1. s < j  BY <1>2, <1>4, <3>2
      <4>2. lines[j].level > l /\ lines[j].level \in Nat /\ p <= l /\ p \in Nat  BY <1>2, <1>3, <2>3, <2>5, <4>1
      <4> QED  BY <1>3, <4>2
    <3> QED  BY <3>1, <3>2
  <2>6. m \in Standing(lines, n)  BY <2>1, <2>2, <2>4, <2>5 DEF Standing
  <2> QED  BY <2>1, <2>6
<1>7. ASSUME IsUnder(lines, n, path) PROVE s \in Standing(lines, n)
  <2>1. PICK m \in Standing(lines, n) : lines[m].level = l /\ lines[m].text = path[l]  BY <1>3, <1>7 DEF IsUnder
  <2>2. m \in Heads(lines) /\ m <= n /\ \A j \in Heads(lines) : m < j /\ j <= n => lines[j].level > l
    BY <2>1 DEF Standing
  <2>3. IsUnder(lines, m, path)
    <3> SUFFICES ASSUME NEW p \in DOMAIN path
                 PROVE  \E k \in Standing(lines, m) : lines[k].level = p /\ lines[k].text = path[p]
      BY DEF IsUnder
    <3>1. PICK k \in Standing(lines, n) : lines[k].level = p /\ lines[k].text = path[p]  BY <1>7 DEF IsUnder
    <3>2. k \in Heads(lines) /\ k <= n /\ \A j \in Heads(lines) : k < j /\ j <= n => lines[j].level > p
      BY <3>1 DEF Standing
    <3>3. k <= m
      <4> SUFFICES ASSUME ~(k <= m) PROVE FALSE
        OBVIOUS
      <4>1. m < k  BY <1>2, <2>2, <3>2
      <4>2. lines[k].level > l /\ p <= l /\ p \in Nat  BY <1>3, <2>2, <3>2, <4>1
      <4> QED  BY <1>3, <3>1, <4>2
    <3>4. ASSUME NEW j \in Heads(lines), k < j, j <= m PROVE lines[j].level > p
      <4>1. j <= n  BY <1>2, <1>5, <2>2, <3>4
      <4> QED  BY <3>2, <3>4, <4>1
    <3>5. k \in Standing(lines, m)  BY <3>1, <3>2, <3>3, <3>4 DEF Standing
    <3> QED  BY <3>1, <3>5
  <2>4. m \in Matches(lines, path)  BY <2>1, <2>2, <2>3, MatchFacts
  <2>5. m = s  BY <2>4
  <2> QED  BY <2>1, <2>5
<1> QED  BY <1>6, <1>7

\* What is meant is a sequence of lines,
LEMMA PatchedIsSequence ==
    ASSUME NEW lines, IsPlainText(lines), NEW sections, SectionsApply(lines, sections),
           \A i \in DOMAIN sections : IsSequence(sections[i].path) /\ sections[i].path # <<>> /\ IsSequence(sections[i].body)
    PROVE  IsSequence(Patched(lines, sections))
<1> DEFINE above == Outline(lines)
           heads(i, n) == lines[n].kind = "heading" /\ above[n] = sections[i].path
           under(i, n) == LET path == sections[i].path IN
                          DOMAIN path \subseteq DOMAIN above[n] /\ Restrict(above[n], DOMAIN path) = path
           goes(i, n) == under(i, n) /\ ~heads(i, n)
           goesAt(n) == \E i \in DOMAIN sections : goes(i, n)
           new(n) == {i \in DOMAIN sections : heads(i, n)}
           Body(S) == IF S = {} THEN <<>> ELSE sections[CHOOSE i \in S : TRUE].body
           g == [n \in DOMAIN lines |-> (IF goesAt(n) THEN <<>> ELSE <<lines[n]>>) \o Body(new(n))]
<1>1. Patched(lines, sections) = FlattenSeq(g)  BY DEF Patched
<1>2. \A n : new(n) \subseteq DOMAIN sections  OBVIOUS
<1> HIDE DEF goesAt, new
<1>3. ASSUME NEW n \in DOMAIN lines PROVE IsSequence(Body(new(n)))
  <2>1. CASE new(n) = {}  BY <2>1, Segments
  <2>2. CASE new(n) # {}
    <3>1. (CHOOSE i \in new(n) : TRUE) \in DOMAIN sections  BY <1>2, <2>2
    <3> QED  BY <2>2, <3>1
  <2> QED  BY <2>1, <2>2
<1> HIDE DEF Body
<1>4. Len(lines) \in Nat /\ DOMAIN lines = 1..Len(lines)  BY SequenceFacts DEF IsPlainText
<1>5. ASSUME NEW n \in DOMAIN lines PROVE IsSequence(g[n])
  <2>1. IsSequence(IF goesAt(n) THEN <<>> ELSE <<lines[n]>>)  BY Segments
  <2>2. g[n] = (IF goesAt(n) THEN <<>> ELSE <<lines[n]>>) \o Body(new(n))  OBVIOUS
  <2> DEFINE p == IF goesAt(n) THEN <<>> ELSE <<lines[n]>>
  <2> HIDE DEF p
  <2>3. IsSequence(p \o Body(new(n)))  BY <1>3, <2>1, Joined DEF p
  <2> QED  BY <2>2, <2>3 DEF p
<1>6. DOMAIN g = DOMAIN lines /\ g = [n \in DOMAIN lines |-> g[n]]  OBVIOUS
<1> HIDE DEF g
<1>7. IsSequence(g)
  <2>1. g \in [1..Len(lines) -> ToSet(g)]  BY <1>4, <1>6 DEF ToSet
  <2>2. g \in Seq(ToSet(g))  BY <1>4, <2>1
  <2> QED  BY <2>2 DEF IsSequence
<1> QED  BY <1>1, <1>5, <1>6, <1>7, FlatIsSequence

\* each but the last whole, if the patch brings whole lines.
LEMMA PatchedIsText ==
    ASSUME NEW lines, IsPlainText(lines), IsText(lines), NEW sections, EndsLines(lines, sections),
           \A i \in DOMAIN sections : IsSequence(sections[i].body)
    PROVE  IsText(Patched(lines, sections))
<1> DEFINE above == Outline(lines)
           heads(i, n) == lines[n].kind = "heading" /\ above[n] = sections[i].path
           under(i, n) == LET path == sections[i].path IN
                          DOMAIN path \subseteq DOMAIN above[n] /\ Restrict(above[n], DOMAIN path) = path
           goes(i, n) == under(i, n) /\ ~heads(i, n)
           goesAt(n) == \E i \in DOMAIN sections : goes(i, n)
           new(n) == {i \in DOMAIN sections : heads(i, n)}
           Body(S) == IF S = {} THEN <<>> ELSE sections[CHOOSE i \in S : TRUE].body
           kept(n) == IF goesAt(n) THEN <<>> ELSE <<lines[n]>>
           g == [n \in DOMAIN lines |-> kept(n) \o Body(new(n))]
<1>1. Patched(lines, sections) = FlattenSeq(g)  BY DEF Patched
<1>2. Len(lines) \in Nat /\ DOMAIN lines = 1..Len(lines) /\ DOMAIN g = DOMAIN lines  BY SequenceFacts DEF IsPlainText
<1>3. ASSUME NEW n \in DOMAIN lines
      PROVE  /\ IsSequence(Body(new(n))) /\ \A line \in ToSet(Body(new(n))) : line.ended
             /\ new(n) # {} => lines[n].ended
             /\ new(n) = {} => Body(new(n)) = <<>>
  <2>1. CASE new(n) = {}
    <3>1. Body(new(n)) = <<>>  BY <2>1
    <3>2. IsSequence(<<>>) /\ ToSet(<<>>) = {}  BY Segments DEF ToSet
    <3> HIDE DEF new, Body
    <3> QED  BY <2>1, <3>1, <3>2
  <2>2. CASE new(n) # {}
    <3> DEFINE i == CHOOSE x \in new(n) : TRUE
    <3>1. i \in new(n)  BY <2>2
    <3>2. i \in DOMAIN sections /\ heads(i, n)  BY <3>1
    <3>3. Body(new(n)) = sections[i].body  BY <2>2
    <3> HIDE DEF i, Body
    <3>4. \A line \in ToSet(sections[i].body) : line.ended  BY <3>2 DEF EndsLines
    <3>5. lines[n].ended  BY <3>2 DEF EndsLines
    <3>6. IsSequence(sections[i].body)  BY <3>2
    <3> HIDE DEF new
    <3> QED  BY <2>2, <3>3, <3>4, <3>5, <3>6
  <2> QED  BY <2>1, <2>2
<1>4. ASSUME NEW n \in DOMAIN lines
      PROVE  /\ IsSequence(kept(n)) /\ Len(kept(n)) <= 1
             /\ \A line \in ToSet(kept(n)) : line = lines[n]
  <2> DEFINE x == lines[n]
  <2>1. IsSequence(<<>>) /\ Len(<<>>) <= 1 /\ ToSet(<<>>) = {}  BY Segments DEF ToSet
  <2>2. IsSequence(<<x>>) /\ Len(<<x>>) <= 1 /\ ToSet(<<x>>) = {x}  BY Segments DEF ToSet
  <2>3. kept(n) = <<>> \/ kept(n) = <<x>>  OBVIOUS
  <2> HIDE DEF kept
  <2> QED  BY <2>1, <2>2, <2>3
<1>5. \A n \in DOMAIN lines : g[n] = kept(n) \o Body(new(n))  OBVIOUS
<1> HIDE DEF kept, new, Body
<1>6. g = [n \in DOMAIN lines |-> g[n]]  OBVIOUS
<1> HIDE DEF g
<1>7. ASSUME NEW n \in DOMAIN lines
      PROVE  /\ IsSequence(g[n])
             /\ lines[n].ended => \A line \in ToSet(g[n]) : line.ended
             /\ \A m \in 1..(Len(g[n]) - 1) : g[n][m].ended
  <2> DEFINE k == kept(n)
             b == Body(new(n))
  <2>1. g[n] = k \o b /\ IsSequence(k) /\ IsSequence(b) /\ Len(k) <= 1  BY <1>3, <1>4, <1>5
  <2>2. (\A line \in ToSet(k) : line = lines[n]) /\ \A line \in ToSet(b) : line.ended  BY <1>3, <1>4
  <2>3. new(n) # {} => lines[n].ended  BY <1>3
  <2>4. new(n) = {} => b = <<>>  BY <1>3
  <2> HIDE DEF k, b
  <2>5. IsSequence(k \o b) /\ Len(k \o b) = Len(k) + Len(b) /\ ToSet(k \o b) = ToSet(k) \cup ToSet(b)  BY <2>1, Joined
  <2>6. lines[n].ended => \A line \in ToSet(k \o b) : line.ended  BY <2>2, <2>5
  <2>7. ASSUME NEW m \in 1..(Len(k \o b) - 1) PROVE (k \o b)[m].ended
    <3>1. CASE new(n) = {}
      <4>1. k \o b = k  BY <2>1, <2>4, <3>1, JoinedEmpty
      <4> DEFINE l == Len(k)
      <4>2. l \in Nat /\ l <= 1  BY <2>1, SequenceFacts
      <4>3. m \in 1..(l - 1)  BY <2>7, <4>1
      <4> HIDE DEF l
      <4> QED  BY <4>2, <4>3
    <3>2. CASE new(n) # {}
      <4>1. Len(k \o b) \in Nat /\ DOMAIN (k \o b) = 1..Len(k \o b)  BY <2>5, SequenceFacts
      <4>2. m \in DOMAIN (k \o b)  BY <2>7, <4>1
      <4>3. (k \o b)[m] \in ToSet(k \o b)  BY <4>2 DEF ToSet
      <4> QED  BY <2>3, <2>6, <3>2, <4>3
    <3> QED  BY <3>1, <3>2
  <2> QED  BY <2>1, <2>5, <2>6, <2>7
<1>8. IsSequence(g) /\ Len(g) = Len(lines)
  <2>1. g \in [1..Len(lines) -> ToSet(g)]  BY <1>2, <1>6 DEF ToSet
  <2>2. g \in Seq(ToSet(g)) /\ Len(g) = Len(lines)  BY <1>2, <2>1
  <2> QED  BY <2>2 DEF IsSequence
<1>9. \A n \in DOMAIN g : n # Len(g) => \A line \in ToSet(g[n]) : line.ended
  <2> SUFFICES ASSUME NEW n \in DOMAIN g, n # Len(g) PROVE \A line \in ToSet(g[n]) : line.ended
    OBVIOUS
  <2>1. n \in DOMAIN lines /\ n \in 1..(Len(lines) - 1)  BY <1>2, <1>8
  <2>2. lines[n].ended  BY <2>1 DEF IsText
  <2> QED  BY <1>7, <2>1, <2>2
<1>10. CASE Len(g) = 0
  <2>1. FlattenSeq(g) = g  BY <1>8, <1>10 DEF FlattenSeq
  <2>2. 1..(Len(g) - 1) = {}  BY <1>10
  <2> QED  BY <1>1, <1>8, <2>1, <2>2 DEF IsText
<1>11. CASE Len(g) # 0
  <2>1. Len(g) \in DOMAIN lines  BY <1>2, <1>8, <1>11
  <2>2. \A n \in 1..(Len(g[Len(g)]) - 1) : g[Len(g)][n].ended  BY <1>7, <2>1
  <2>3. \A n \in DOMAIN g : IsSequence(g[n])  BY <1>2, <1>7
  <2> QED  BY <1>1, <1>8, <1>9, <2>2, <2>3, FlatIsText
<1> QED  BY <1>10, <1>11

\* What patches that apply join is what is meant, piece by piece; and if they bring
\* whole lines, these stay lines of their own (applySectionPatches, splitBody).
THEOREM SectionsArePatched ==
    ASSUME NEW lines, IsPlainText(lines), NEW sections, SectionsApply(lines, sections),
           \A i \in DOMAIN sections : IsSequence(sections[i].path) /\ sections[i].path # <<>> /\ IsSequence(sections[i].body)
    PROVE  /\ ApplySections(lines, sections) = JoinLines(Patched(lines, sections))
           /\ IsText(lines) /\ EndsLines(lines, sections) => ApplySections(lines, sections) = Patched(lines, sections)
<1> DEFINE above == Outline(lines)
           heads(i, n) == lines[n].kind = "heading" /\ above[n] = sections[i].path
           under(i, n) == LET path == sections[i].path IN
                          DOMAIN path \subseteq DOMAIN above[n] /\ Restrict(above[n], DOMAIN path) = path
           goes(i, n) == under(i, n) /\ ~heads(i, n)
           new(n) == {i \in DOMAIN sections : heads(i, n)}
           starts == [i \in DOMAIN sections |-> StartOf(lines, sections[i])]
           gone == UNION {(starts[i] + 1)..SectionEnd(lines, starts[i]) : i \in DOMAIN sections}
           here(n) == {i \in DOMAIN sections : starts[i] = n}
           Body(S) == IF S = {} THEN <<>> ELSE sections[CHOOSE i \in S : TRUE].body
<1>1. Len(lines) \in Nat /\ DOMAIN lines = 1..Len(lines)  BY SequenceFacts DEF IsPlainText
<1>2. ASSUME NEW i \in DOMAIN sections
      PROVE  Matches(lines, sections[i].path) = {starts[i]} /\ starts[i] \in Heads(lines)
  <2>1. PICK s : Matches(lines, sections[i].path) = {s}  BY DEF SectionsApply
  <2>2. starts[i] = s  BY <2>1 DEF StartOf
  <2>3. s \in Matches(lines, sections[i].path)  BY <2>1
  <2>4. s \in Heads(lines)  BY <2>3, MatchFacts
  <2> QED  BY <2>1, <2>2, <2>4
<1>3. ASSUME NEW i \in DOMAIN sections, NEW n \in DOMAIN lines
      PROVE  /\ heads(i, n) <=> starts[i] = n
             /\ goes(i, n) <=> n \in (starts[i] + 1)..SectionEnd(lines, starts[i])
  <2> DEFINE path == sections[i].path
             s == starts[i]
  <2>1. IsSequence(path) /\ path # <<>> /\ Matches(lines, path) = {s} /\ s \in Heads(lines)  BY <1>2
  <2>2. n \in 0..Len(lines)  BY <1>1
  <2>3. heads(i, n) <=> n \in Matches(lines, path)  BY <2>1, MatchesAreHeads
  <2>4. under(i, n) <=> IsUnder(lines, n, path)
    <3> HIDE DEF path
    <3>1. (DOMAIN path \subseteq DOMAIN above[n] /\ Restrict(above[n], DOMAIN path) = path) <=> IsUnder(lines, n, path)
      BY <2>1, <2>2, LinesUnder
    <3> QED  BY <3>1 DEF path
  <2> HIDE DEF path, s, heads, under
  <2>5. heads(i, n) <=> s = n  BY <2>1, <2>3
  <2>6. (n # s /\ s \in Standing(lines, n)) <=> (IsUnder(lines, n, path) /\ n # s)  BY <2>1, LinesOfSection
  <2>7. n \in (s + 1)..SectionEnd(lines, s) <=> n # s /\ s \in Standing(lines, n)  BY <2>1, SectionEnds
  <2> QED  BY <2>4, <2>5, <2>6, <2>7 DEF s
<1> HIDE DEF starts
<1>4. ASSUME NEW n \in DOMAIN lines
      PROVE  /\ n \in gone <=> \E i \in DOMAIN sections : goes(i, n)
             /\ new(n) = here(n)
  <2>1. n \in gone <=> \E i \in DOMAIN sections : n \in (starts[i] + 1)..SectionEnd(lines, starts[i])  OBVIOUS
  <2> HIDE DEF goes, heads, gone
  <2> QED  BY <1>3, <2>1
<1> DEFINE goesAt(n) == \E i \in DOMAIN sections : goes(i, n)
           f == [n \in DOMAIN lines |-> (IF n \in gone THEN <<>> ELSE <<lines[n]>>) \o Body(here(n))]
           g == [n \in DOMAIN lines |-> (IF goesAt(n) THEN <<>> ELSE <<lines[n]>>) \o Body(new(n))]
<1>5. ApplySections(lines, sections) = JoinLines(FlattenSeq(f))  BY DEF ApplySections, starts
<1>6. Patched(lines, sections) = FlattenSeq(g)  BY DEF Patched
<1>7. \A n \in DOMAIN lines : (n \in gone <=> goesAt(n)) /\ new(n) = here(n)  BY <1>4
<1> HIDE DEF gone, goesAt, new, here, Body
<1>8. ASSUME NEW n \in DOMAIN lines PROVE f[n] = g[n]
  <2>1. f[n] = (IF n \in gone THEN <<>> ELSE <<lines[n]>>) \o Body(here(n))  OBVIOUS
  <2>2. g[n] = (IF goesAt(n) THEN <<>> ELSE <<lines[n]>>) \o Body(new(n))  OBVIOUS
  <2> HIDE DEF f, g
  <2>3. Body(new(n)) = Body(here(n))  BY <1>7
  <2>4. (IF goesAt(n) THEN <<>> ELSE <<lines[n]>>) = (IF n \in gone THEN <<>> ELSE <<lines[n]>>)  BY <1>7
  <2> QED  BY <2>1, <2>2, <2>3, <2>4
<1>9. f = [n \in DOMAIN lines |-> f[n]] /\ g = [n \in DOMAIN lines |-> g[n]]  OBVIOUS
<1> HIDE DEF f, g
<1>10. f = g  BY <1>8, <1>9
<1>11. ApplySections(lines, sections) = JoinLines(Patched(lines, sections))  BY <1>5, <1>6, <1>10
<1>12. IsSequence(Patched(lines, sections))  BY PatchedIsSequence
<1>13. ASSUME IsText(lines), EndsLines(lines, sections) PROVE ApplySections(lines, sections) = Patched(lines, sections)
  <2>1. IsText(Patched(lines, sections))  BY <1>13, PatchedIsText
  <2> QED  BY <1>11, <1>12, <2>1, JoinedLines
<1> QED  BY <1>11, <1>13

-----------------------------------------------------------------------------
(* SectionsAreExact *)

\* What an author wrote.
Written(e) == ValueAt(tree, MainFile(e.path)).body

\* The text of a skill was decoded.
LEMMA SkillIsWritten ==
    ASSUME Selects, NEW f \in Manifests, NEW e \in Listed[f], KindAt(e.path) = "skill"
    PROVE  WellFormedDocument(ValueAt(tree, MainFile(e.path))) /\ AssetContent(tree, e.path).body = Written(e)
<1>1. WellFormedTree(tree) /\ AssetImports(tree, e.path)  BY RequestFacts, ListedFacts
<1>2. Decodes(tree, MainFile(e.path), "markdown")  BY <1>1 DEF AssetImports, MainFits
<1>3. WellFormedDocument(ValueAt(tree, MainFile(e.path)))
  BY <1>1, <1>2 DEF WellFormedTree, WellFormedData, IsFile, ValueAt, Decodes
<1> QED  BY <1>3 DEF AssetContent, Written

\* A patch of sections, as decoded and validated.
IsPatch(patch) ==
    \A i \in DOMAIN patch.sections :
        IsSequence(patch.sections[i].path) /\ patch.sections[i].path # <<>> /\ IsSequence(patch.sections[i].body)

\* A plain patch of a target was validated and applies.
LEMMA PatchIsApplied ==
    ASSUME NEW t, Made(t), NEW f \in Chosen, NEW e \in EntriesOf(t, f), KindAt(e.path) = "skill",
           NEW patch \in PlainPatches(t, e)
    PROVE  /\ IsPlainText(Written(e)) /\ IsText(Written(e)) /\ IsPatch(patch) /\ SectionsApply(Written(e), patch.sections)
           /\ OverlayFor(AssetOf(e), t) = {OverlayAt(tree, e.path, t)}
           /\ OverlayAt(tree, e.path, t).bodyPatch = {patch}
<1> DEFINE value == OverlayValue(t, e)
           o == OverlayAt(tree, e.path, t)
           a == AssetOf(e)
<1>1. Selects /\ t \in DOMAIN Codecs /\ Rules(t).target = t  BY RulesFacts DEF Made
<1>2. f \in Manifests /\ e \in Listed[f] /\ AssetAccepted(a, Rules(t)) /\ ValidSourceAsset(a)  BY EntryFacts
<1>3. patch \in value.bodyPatch /\ patch.mode = "sections" /\ \A line \in ToSet(Written(e)) : line.kind # "fence"
  BY DEF PlainPatches, Written
<1>4. IsFile(tree, OverlayFile(tree, e.path, t))
  <2> SUFFICES ASSUME ~IsFile(tree, OverlayFile(tree, e.path, t)) PROVE FALSE
    OBVIOUS
  <2>1. value.bodyPatch = {}  BY DEF OverlayValue, NoOverlay
  <2> QED  BY <1>3, <2>1
<1>5. t \in OverlayTargets(tree, e.path)
  <2>1. NoOverlay.bodyPatch = {}  BY DEF NoOverlay
  <2> QED  BY <1>1, <1>2, <1>3, <2>1, OverlayNeedsPlace
<1>6. WellFormedOverlay(value)  BY <1>1, <1>2, <1>4, DecodedOverlay DEF OverlayValue
<1>7. OverlayFor(a, t) = {o}  BY <1>5, OverlayOfTarget
<1>8. o.bodyPatch = value.bodyPatch  BY OverlayValues
<1> HIDE DEF value
<1>9. o.bodyPatch = {patch}
  <2>1. \A x, y \in value.bodyPatch : x = y  BY <1>6 DEF WellFormedOverlay, IsOptional
  <2>2. value.bodyPatch = {patch}  BY <1>3, <2>1
  <2> QED  BY <1>8, <2>2
<1>10. SectionsApply(Written(e), patch.sections)
  <2>1. OverlayApplies(a, o)
    <3>1. \A x \in OverlayFor(a, Rules(t).target) : OverlayApplies(a, x)  BY <1>2 DEF AssetAccepted
    <3> HIDE DEF a, o
    <3> QED  BY <1>1, <1>7, <3>1
  <2>2. BodyPatchApplies(a.base.body, patch)
    <3> HIDE DEF a, o
    <3> QED  BY <1>9, <2>1 DEF OverlayApplies
  <2>3. a.base.body = Written(e)  BY <1>1, <1>2, SkillIsWritten, AssetFacts
  <2> HIDE DEF a
  <2> QED  BY <1>3, <2>2, <2>3 DEF BodyPatchApplies
<1>11. IsPatch(patch)
  <2>1. \A i \in DOMAIN patch.sections : IsSequence(patch.sections[i].path) /\ IsSequence(patch.sections[i].body)
    BY <1>3, <1>6 DEF WellFormedOverlay, IsText
  <2>2. ValidOverlay(a, o)
    <3>1. o \in ToSet(a.overlays)  BY <1>5, OverlaysOfAsset
    <3>2. \A i \in DOMAIN a.overlays : ValidOverlay(a, a.overlays[i])  BY <1>2 DEF ValidSourceAsset
    <3> HIDE DEF a, o
    <3> QED  BY <3>1, <3>2 DEF ToSet
  <2>3. ValidBodyPatch(patch)
    <3> HIDE DEF a, o
    <3> QED  BY <1>9, <2>2 DEF ValidOverlay
  <2>4. \A i \in DOMAIN patch.sections : patch.sections[i].path # <<>>  BY <1>3, <2>3 DEF ValidBodyPatch
  <2> QED  BY <2>1, <2>4 DEF IsPatch
<1>12. IsPlainText(Written(e)) /\ IsText(Written(e))
  <2>1. WellFormedDocument(ValueAt(tree, MainFile(e.path)))  BY <1>1, <1>2, SkillIsWritten
  <2>2. IsText(Written(e)) /\ \A line \in ToSet(Written(e)) : line.kind = "heading" => line.level \in Nat \ {0}
    BY <2>1 DEF WellFormedDocument, Written
  <2>3. \A n \in DOMAIN Written(e) : Written(e)[n] \in ToSet(Written(e))  BY DEF ToSet
  <2> QED  BY <1>3, <2>2, <2>3 DEF IsPlainText, IsText
<1> QED  BY <1>7, <1>9, <1>10, <1>11, <1>12

\* Preambles are texts.
LEMMA PreambleFacts ==
    ASSUME Selects, NEW t, NEW lines \in Rules(t).preamble
    PROVE  IsSequence(lines)
<1>1. CASE PolicyOf(t) = {}
  <2>1. Rules(t).preamble = {}  BY <1>1 DEF Rules, CompositionFor
  <2> QED  BY <2>1
<1>2. CASE PolicyOf(t) # {}
  <2> DEFINE c == CHOOSE x \in PolicyOf(t) : TRUE
  <2>1. c \in PolicyOf(t)  BY <1>2
  <2>2. WellFormedPolicy(c)  BY <2>1, RequestFacts DEF PolicyOf
  <2>3. Rules(t) = [c EXCEPT !.rules = MergedRules(t, @)]  BY <1>2 DEF Rules, CompositionFor
  <2> HIDE DEF c
  <2>4. Rules(t).preamble = c.preamble  BY <2>2, <2>3 DEF WellFormedPolicy
  <2> QED  BY <2>2, <2>4 DEF WellFormedPolicy, IsText
<1> QED  BY <1>1, <1>2

\* A text with a preamble ends as it did without.
LEMMA EndsAsBefore ==
    ASSUME NEW preamble, NEW body, IsSequence(preamble), IsSequence(body)
    PROVE  IsSuffix(body, JoinPreamble(preamble, body)) /\ IsSuffix(body, body)
<1>1. IsSequence(<<>>) /\ IsSequence(<<Break, Break>>)  BY Segments
<1>2. IsSuffix(body, body)
  <2>1. IsSuffix(body, <<>> \o body)  BY <1>1, SuffixOfJoined
  <2> QED  BY <2>1, JoinedEmpty
<1>3. CASE preamble = <<>>  BY <1>2, <1>3 DEF JoinPreamble
<1>4. CASE preamble # <<>> /\ body = <<>>
  <2>1. IsSuffix(<<>>, preamble \o <<>>)  BY <1>1, SuffixOfJoined
  <2>2. IsSuffix(<<>>, preamble)  BY <2>1, JoinedEmpty
  <2> QED  BY <1>2, <1>4, <2>2 DEF JoinPreamble
<1>5. CASE preamble # <<>> /\ body # <<>>
  <2> DEFINE above == JoinLines(preamble \o <<Break, Break>>)
  <2>1. JoinPreamble(preamble, body) = above \o body  BY <1>5 DEF JoinPreamble
  <2>2. IsSequence(preamble \o <<Break, Break>>)  BY <1>1, Joined
  <2>3. IsSequence(above)  BY <2>2, JoinedLines
  <2> HIDE DEF above
  <2>4. IsSuffix(body, above \o body)  BY <2>3, SuffixOfJoined
  <2> QED  BY <1>2, <2>1, <2>4
<1> QED  BY <1>3, <1>4, <1>5

\* A composed skill ends with the text that is meant,
LEMMA SkillHasSections ==
    ASSUME NEW t, Made(t), NEW f \in Chosen, NEW e \in EntriesOf(t, f), KindAt(e.path) = "skill",
           NEW patch \in PlainPatches(t, e)
    PROVE  LET meant == Patched(Written(e), patch.sections)
               body == AssetIn(t, e).content.body
           IN  IsSuffix(JoinLines(meant), body) /\ (EndsLines(Written(e), patch.sections) => IsSuffix(meant, body))
<1> DEFINE o == OverlayAt(tree, e.path, t)
           a == AssetOf(e)
           base == AssetContent(tree, e.path)
           content == ApplyOverlay(base, o)
           text == JoinLines(Patched(Written(e), patch.sections))
<1>1. Selects /\ Rules(t).target = t /\ f \in Manifests /\ e \in Listed[f]  BY RulesFacts, EntryFacts DEF Made
<1>2. /\ IsPlainText(Written(e)) /\ IsText(Written(e)) /\ IsPatch(patch) /\ SectionsApply(Written(e), patch.sections)
      /\ OverlayFor(a, t) = {o} /\ o.bodyPatch = {patch}
  BY PatchIsApplied
<1>3. a.kind = "skill" /\ a.base = base /\ base.body = Written(e)  BY <1>1, AssetFacts, SkillIsWritten
<1>4. /\ ApplySections(Written(e), patch.sections) = text /\ IsSequence(text)
      /\ EndsLines(Written(e), patch.sections) => text = Patched(Written(e), patch.sections)
  <2>1. \A i \in DOMAIN patch.sections :
           IsSequence(patch.sections[i].path) /\ patch.sections[i].path # <<>> /\ IsSequence(patch.sections[i].body)
    BY <1>2 DEF IsPatch
  <2>2. IsSequence(Patched(Written(e), patch.sections))  BY <1>2, <2>1, PatchedIsSequence
  <2>3. IsSequence(text)  BY <2>2, JoinedLines
  <2>4. /\ ApplySections(Written(e), patch.sections) = text
        /\ EndsLines(Written(e), patch.sections) => ApplySections(Written(e), patch.sections) = Patched(Written(e), patch.sections)
    BY <1>2, <2>1, SectionsArePatched
  <2> HIDE DEF text
  <2> QED  BY <2>3, <2>4
<1>5. content.body = text
  <2>1. content.body = IF o.bodyPatch = {} THEN base.body ELSE ApplyBodyPatch(base.body, CHOOSE p \in o.bodyPatch : TRUE)
    BY DEF ApplyOverlay
  <2> HIDE DEF o, base, content, text
  <2>2. content.body = ApplyBodyPatch(Written(e), patch)  BY <1>2, <1>3, <2>1
  <2>3. patch.mode # "replace"  BY DEF PlainPatches
  <2> QED  BY <1>4, <2>2, <2>3 DEF ApplyBodyPatch
<1>6. DOMAIN content = {"frontmatter", "body", "files"}  BY DEF ApplyOverlay
<1>7. ContentFor(a, Rules(t)) = IF Rules(t).preamble # {}
                                THEN [content EXCEPT !.body = JoinPreamble(CHOOSE p \in Rules(t).preamble : TRUE, @)]
                                ELSE content
  <2> DEFINE overlay == OverlayFor(a, t)
             given == IF overlay = {} THEN a.base ELSE ApplyOverlay(a.base, CHOOSE x \in overlay : TRUE)
  <2>1. ContentFor(a, Rules(t)) = IF a.kind = "skill" /\ Rules(t).preamble # {}
                                  THEN [given EXCEPT !.body = JoinPreamble(CHOOSE p \in Rules(t).preamble : TRUE, @)]
                                  ELSE given
    BY <1>1 DEF ContentFor
  <2>2. given = content
    <3> HIDE DEF a, o, base
    <3> QED  BY <1>2, <1>3
  <2> HIDE DEF a, given, content
  <2> QED  BY <1>3, <2>1, <2>2
<1>8. AssetIn(t, e).content = ContentFor(a, Rules(t))  BY AssetInFacts
<1> HIDE DEF a, content, text
<1>9. IsSuffix(text, AssetIn(t, e).content.body)
  <2>1. CASE Rules(t).preamble = {}
    <3>1. IsSuffix(text, text)  BY <1>4, EndsAsBefore
    <3> QED  BY <1>5, <1>7, <1>8, <2>1, <3>1
  <2>2. CASE Rules(t).preamble # {}
    <3> DEFINE lines == CHOOSE p \in Rules(t).preamble : TRUE
    <3>1. lines \in Rules(t).preamble  BY <2>2
    <3> HIDE DEF lines
    <3>2. IsSequence(lines)  BY <1>1, <3>1, PreambleFacts
    <3>3. ContentFor(a, Rules(t)) = [content EXCEPT !.body = JoinPreamble(lines, @)]  BY <1>7, <2>2 DEF lines
    <3>4. AssetIn(t, e).content.body = JoinPreamble(lines, text)  BY <1>5, <1>6, <1>8, <3>3
    <3>5. IsSuffix(text, JoinPreamble(lines, text))  BY <1>4, <3>2, EndsAsBefore
    <3> QED  BY <3>4, <3>5
  <2> QED  BY <2>1, <2>2
<1> QED  BY <1>4, <1>9 DEF text

\* and is in the plan as the SKILL.md of its directory.
LEMMA KnownSections == Known => SectionsAreExact
<1> SUFFICES ASSUME Known, plan # {}, NEW t \in DOMAIN plans, NEW e \in AllEntries(t), KindAt(e.path) = "skill",
                    NEW patch \in PlainPatches(t, e)
             PROVE  \E path \in DOMAIN plans[t].files :
                       /\ IsSuffix(<<NameAt(e.path), "SKILL.md">>, path)
                       /\ plans[t].files[path].form = "markdown"
                       /\ IsSuffix(JoinLines(Patched(Written(e), patch.sections)), plans[t].files[path].value.body)
                       /\ EndsLines(Written(e), patch.sections)
                             => IsSuffix(Patched(Written(e), patch.sections), plans[t].files[path].value.body)
  BY DEF SectionsAreExact, Planned, Written
<1> DEFINE a == AssetIn(t, e)
           name == NameAt(e.path)
           meant == Patched(Written(e), patch.sections)
<1>1. Made(t)  BY PlansAreMade
<1>2. PICK f \in Chosen : e \in EntriesOf(t, f)  BY DEF AllEntries
<1>3. a.kind = "skill" /\ a.identity[2] = name
  <2>1. a.kind = "skill" /\ a.identity = IdentityAt(e.path)  BY AssetInFacts
  <2> HIDE DEF a
  <2> QED  BY <2>1 DEF IdentityAt
<1>4. PICK root, part : Renders(part, root, a) /\ Holds(plans[t].files, RootOf(t, f), part)
  <2>1. Ships(t, f, e)  BY <1>1, <1>2, PlanShips
  <2> QED  BY <2>1 DEF Ships
<1>5. IsSuffix(JoinLines(meant), a.content.body) /\ (EndsLines(Written(e), patch.sections) => IsSuffix(meant, a.content.body))
  BY <1>1, <1>2, SkillHasSections
<1> HIDE DEF a, name, meant
<1> DEFINE main == root \o <<"SKILL.md">>
           path == RootOf(t, f) \o main
<1>6. IsSequence(root) /\ main \in DOMAIN part /\ part[main] = Markdown(a.content) /\ root # <<>> /\ Last(root) = name
  BY <1>3, <1>4 DEF Renders
<1>7. path \in DOMAIN plans[t].files /\ plans[t].files[path] = Markdown(a.content)  BY <1>4, <1>6 DEF Holds
<1>8. plans[t].files[path].form = "markdown" /\ plans[t].files[path].value.body = a.content.body  BY <1>7 DEF Markdown
<1>9. IsSuffix(<<name, "SKILL.md">>, path)
  <2> DEFINE above == RootOf(t, f)
             front == Front(root)
             last == <<"SKILL.md">>
  <2>1. IsSequence(front) /\ root = front \o <<name>>  BY <1>6, FrontFacts
  <2>2. IsSequence(above)  BY Segments DEF RootOf
  <2>3. IsSequence(<<name>>) /\ IsSequence(last) /\ IsSequence(<<name, "SKILL.md">>) /\ <<name>> \o last = <<name, "SKILL.md">>
    BY Segments, OneOf
  <2> HIDE DEF above, front, last
  <2>4. root \o last = front \o <<name, "SKILL.md">>
    <3>1. (front \o <<name>>) \o last = front \o (<<name>> \o last)  BY <2>1, <2>3, JoinedTwice
    <3> QED  BY <2>1, <2>3, <3>1
  <2>5. above \o (front \o <<name, "SKILL.md">>) = (above \o front) \o <<name, "SKILL.md">>
    BY <2>1, <2>2, <2>3, JoinedTwice
  <2>6. IsSequence(above \o front)  BY <2>1, <2>2, Joined
  <2>7. IsSuffix(<<name, "SKILL.md">>, (above \o front) \o <<name, "SKILL.md">>)  BY <2>3, <2>6, SuffixOfJoined
  <2> QED  BY <2>4, <2>5, <2>7 DEF above, last
<1> QED  BY <1>5, <1>7, <1>8, <1>9 DEF name, meant

\* SectionsAreExact: section patches replace what they name and nothing else; where
\* they do not bring whole lines, the text of the next heading goes on with theirs
\* (applySectionPatches, splitBody, findHeading).
THEOREM SectionsAreKept == Spec => []SectionsAreExact
<1>1. Known => SectionsAreExact  BY KnownSections
<1> QED  BY <1>1, KnownAlways, PTL
=============================================================================
