---------------------------- MODULE LayoutProofs ----------------------------
(***************************************************************************)
(* What the layout guard and the commands that call it promise, for every  *)
(* file system that is a forest of directories with links in it, every     *)
(* pair of roots, and lookup that folds case or not.                       *)
(*                                                                         *)
(* The first half is about paths.  A path leads to a directory when there  *)
(* is no link on it; a directory below another is led to only by paths     *)
(* that start with the other's; and the canonical path of a root leads to  *)
(* it.  So the comparison of two canonical paths tells the directories     *)
(* apart, which is what the guard promises of the roots.                   *)
(*                                                                         *)
(* The second half is about commands, with one change by somebody else     *)
(* between any two calls.  A change can only take directories away, so     *)
(* whatever was known of the paths that lead to the sources stays true,    *)
(* and before it the guard is still what the roots were resolved to.       *)
(***************************************************************************)
EXTENDS WorkspaceLayout, TLAPS, WellFoundedInduction

\* What the proofs need of the constants.
LEMMA Lookup == Root \in Dirs /\ Lower \in [Names -> Names] /\ MaxLinks \in Nat
BY LookupAssumption

-----------------------------------------------------------------------------
(* Numbers and sequences *)

\* Induction up to a number: what holds at 0, and after each number where it
\* holds, holds up to n; otherwise there would be a least number without it.
LEMMA Reaches ==
    ASSUME NEW n \in Nat, NEW T, 0 \in T, \A k \in 0..n : k \in T /\ k < n => k + 1 \in T
    PROVE  0..n \subseteq T
<1> SUFFICES ASSUME ~(0..n \subseteq T) PROVE FALSE
  OBVIOUS
<1> DEFINE B == (0..n) \ T
<1>1. B \subseteq Nat /\ B # {}  OBVIOUS
<1>2. PICK m \in B : \A k \in B : ~(<<k, m>> \in OpToRel(<, Nat))
  BY <1>1, NatLessThanWellFounded, WFMin
<1>3. m \in 0..n /\ m \notin T /\ m # 0  BY <1>2
<1>4. m - 1 \in 0..n /\ (m - 1) + 1 = m /\ m - 1 < m /\ m - 1 < n  BY <1>3
<1>5. m - 1 \notin T  BY <1>3, <1>4
<1>6. m - 1 \in B /\ m - 1 \in Nat /\ m \in Nat  BY <1>3, <1>4, <1>5
<1>7. <<m - 1, m>> \in OpToRel(<, Nat)
  <2>1. <<m - 1, m>> \in Nat \X Nat /\ <<m - 1, m>>[1] < <<m - 1, m>>[2]  BY <1>4, <1>6
  <2> QED  BY <2>1 DEF OpToRel
<1> QED  BY <1>2, <1>6, <1>7

\* What g has at each number follows from what it has at the one before.
Goes(g, start, step, k) == g[0] = start /\ \A n \in 1..k : g[n] = step[<<n, g[n - 1]>>]

\* There is a function that starts somewhere and goes on by given steps: what a
\* recursive function of the model is the CHOICE of exists.
LEMMA Unfolds ==
    ASSUME NEW N \in Nat, NEW D, NEW start \in D, NEW step \in [(1..N) \X D -> D]
    PROVE  \E g \in [0..N -> D] : Goes(g, start, step, N)
<1> DEFINE T == {k \in 0..N : \E g \in [0..k -> D] : Goes(g, start, step, k)}
<1>1. 0 \in T
  <2> DEFINE g == [i \in 0..0 |-> start]
  <2>1. g \in [0..0 -> D]  OBVIOUS
  <2>2. g[0] = start /\ 1..0 = {} /\ 0 \in 0..N  OBVIOUS
  <2>3. Goes(g, start, step, 0)  BY <2>2 DEF Goes
  <2> HIDE DEF g
  <2> QED  BY <2>1, <2>2, <2>3
<1>2. ASSUME NEW k \in 0..N, k \in T, k < N PROVE k + 1 \in T
  <2>1. PICK g \in [0..k -> D] : Goes(g, start, step, k)  BY <1>2
  <2> DEFINE h == [i \in 0..(k + 1) |-> IF i = k + 1 THEN step[<<k + 1, g[k]>>] ELSE g[i]]
  <2>2. g[k] \in D /\ k + 1 \in 1..N  BY <1>2, <2>1
  <2>3. step[<<k + 1, g[k]>>] \in D  BY <2>2
  <2>4. h \in [0..(k + 1) -> D]  BY <2>1, <2>3
  <2>5. h[0] = start  BY <1>2, <2>1 DEF Goes
  <2>6. ASSUME NEW i \in 1..(k + 1) PROVE h[i] = step[<<i, h[i - 1]>>]
    <3>1. CASE i = k + 1
      <4>1. i - 1 = k /\ i - 1 # k + 1 /\ i - 1 \in 0..(k + 1) /\ i \in 0..(k + 1)  BY <1>2, <3>1
      <4>2. h[i - 1] = g[k]  BY <4>1
      <4>3. h[i] = step[<<k + 1, g[k]>>]  BY <3>1, <4>1
      <4> HIDE DEF h
      <4> QED  BY <3>1, <4>2, <4>3
    <3>2. CASE i # k + 1
      <4>1. i \in 1..k /\ h[i] = g[i] /\ i - 1 \in 0..k /\ i - 1 # k + 1 /\ h[i - 1] = g[i - 1]  BY <1>2, <3>2
      <4> QED  BY <2>1, <4>1 DEF Goes
    <3> QED  BY <3>1, <3>2
  <2> HIDE DEF h
  <2>7. k + 1 \in 0..N  BY <1>2
  <2>8. Goes(h, start, step, k + 1)  BY <2>5, <2>6 DEF Goes
  <2> QED  BY <2>4, <2>7, <2>8
<1> HIDE DEF T
<1>3. 0..N \subseteq T  BY <1>1, <1>2, Reaches
<1>4. N \in T  BY <1>3
<1> QED  BY <1>4 DEF T

\* Two paths with the same names are the same.
LEMMA SamePaths ==
    ASSUME NEW S, NEW p \in Seq(S), NEW q \in Seq(S), Len(p) = Len(q), \A i \in 1..Len(p) : p[i] = q[i]
    PROVE  p = q
<1>1. p = [i \in 1..Len(p) |-> p[i]]  OBVIOUS
<1>2. q = [i \in 1..Len(q) |-> q[i]]  OBVIOUS
<1> QED  BY <1>1, <1>2

\* One path behind another.
LEMMA JoinFacts ==
    ASSUME NEW p \in Paths, NEW r \in Paths
    PROVE  /\ p \o r \in Paths /\ Len(p \o r) = Len(p) + Len(r) /\ Len(p) \in Nat /\ Len(r) \in Nat
           /\ \A i \in 1..Len(p) : (p \o r)[i] = p[i]
           /\ \A i \in 1..Len(r) : (p \o r)[Len(p) + i] = r[i]
BY DEF Paths

\* The first names of a path, and those behind them.
LEMMA UptoFacts ==
    ASSUME NEW p \in Paths, NEW n \in 0..Len(p)
    PROVE  /\ Upto(p, n) \in Paths /\ Len(Upto(p, n)) = n /\ \A i \in 1..n : Upto(p, n)[i] = p[i]
           /\ Beyond(p, n) \in Paths /\ Len(Beyond(p, n)) = Len(p) - n
           /\ \A i \in 1..(Len(p) - n) : Beyond(p, n)[i] = p[n + i]
           /\ p = Upto(p, n) \o Beyond(p, n)
<1>1. p \in Seq(Names) /\ Len(p) \in Nat  BY DEF Paths
<1>2. /\ Upto(p, n) \in Seq(Names) /\ Len(Upto(p, n)) = n
      /\ \A i \in 1..n : Upto(p, n)[i] = p[i]
  BY <1>1 DEF Upto
<1>3. /\ Beyond(p, n) \in Seq(Names) /\ Len(Beyond(p, n)) = Len(p) - n
      /\ \A i \in 1..(Len(p) - n) : Beyond(p, n)[i] = p[n + i]
  BY <1>1 DEF Beyond
<1>4. p = Upto(p, n) \o Beyond(p, n)
  <2> DEFINE q == Upto(p, n) \o Beyond(p, n)
  <2>1. q \in Seq(Names)  BY <1>2, <1>3
  <2>0. Len(q) = Len(p)  BY <1>1, <1>2, <1>3
  <2>2. ASSUME NEW i \in 1..Len(p) PROVE p[i] = q[i]
    <3>1. CASE i \in 1..n  BY <1>2, <1>3, <3>1
    <3>2. CASE i \notin 1..n
      <4>1. i - n \in 1..(Len(p) - n) /\ n + (i - n) = i  BY <1>1, <3>2
      <4> QED  BY <1>2, <1>3, <3>2, <4>1
    <3> QED  BY <3>1, <3>2
  <2> HIDE DEF q
  <2> QED  BY <1>1, <2>0, <2>1, <2>2, SamePaths DEF q
<1> QED  BY <1>2, <1>3, <1>4 DEF Paths

\* A path without its last name, and the path with a name more.
LEMMA FrontFacts ==
    ASSUME NEW p \in Paths, p # <<>>
    PROVE  /\ Front(p) \in Paths /\ Len(Front(p)) = Len(p) - 1 /\ Last(p) \in Names
           /\ \A i \in 1..(Len(p) - 1) : Front(p)[i] = p[i]
           /\ Last(p) = p[Len(p)] /\ p = Front(p) \o <<Last(p)>> /\ Front(p) = Upto(p, Len(p) - 1)
           /\ Len(p) \in Nat \ {0}
<1>1. Len(p) \in Nat \ {0} /\ p \in Seq(Names)  BY DEF Paths
<1>2. Front(p) \in Seq(Names) /\ Len(Front(p)) = Len(p) - 1 /\ \A i \in 1..(Len(p) - 1) : Front(p)[i] = p[i]
  <2>1. Len(p) - 1 \in 0..Len(p)  BY <1>1
  <2>2. Front(p) = Upto(p, Len(p) - 1)  BY DEF Front, Upto
  <2> DEFINE q == Upto(p, Len(p) - 1)
  <2>3. q \in Paths /\ Len(q) = Len(p) - 1 /\ \A i \in 1..(Len(p) - 1) : q[i] = p[i]  BY <2>1, UptoFacts
  <2> HIDE DEF q
  <2> QED  BY <2>2, <2>3 DEF q, Paths
<1>3. Last(p) = p[Len(p)] /\ p[Len(p)] \in Names  BY <1>1 DEF Last
<1>4. p = Front(p) \o <<Last(p)>>
  <2> DEFINE q == Front(p) \o <<Last(p)>>
  <2>1. q \in Seq(Names) /\ Len(q) = Len(p)  BY <1>1, <1>2, <1>3
  <2>2. ASSUME NEW i \in 1..Len(p) PROVE p[i] = q[i]  BY <1>1, <1>2, <1>3
  <2> HIDE DEF q
  <2> QED  BY <1>1, <2>1, <2>2, SamePaths DEF q
<1> QED  BY <1>1, <1>2, <1>3, <1>4 DEF Paths, Front, Upto

\* The path of the workspace root has no names, and only it.
LEMMA EmptyPath == <<>> \in Paths /\ Len(<<>>) = 0 /\ \A p \in Paths : (p = <<>> <=> Len(p) = 0) /\ Len(p) \in Nat
BY DEF Paths

\* There is a longest among some lengths.
LEMMA LongestFacts ==
    ASSUME NEW p \in Paths, NEW S \in SUBSET (0..Len(p)), S # {}
    PROVE  \E n \in S : (\A m \in S : m <= n) /\ Longest(p, S) = Upto(p, n)
<1>0. Len(p) \in Nat  BY EmptyPath
<1> DEFINE N == Len(p)
           B == {N - n : n \in S}
<1>1. B \subseteq Nat /\ B # {}
  <2>1. \A n \in S : N - n \in Nat  BY <1>0
  <2> HIDE DEF N
  <2> QED  BY <2>1
<1>2. PICK k \in B : \A j \in B : ~(<<j, k>> \in OpToRel(<, Nat))
  BY <1>1, NatLessThanWellFounded, WFMin
<1>3. PICK n \in S : k = N - n  BY <1>2
<1>4. ASSUME NEW m \in S PROVE m <= n
  <2>1. SUFFICES ASSUME ~(m <= n) PROVE FALSE  OBVIOUS
  <2>2. N - m \in B /\ N - m \in Nat /\ k \in Nat /\ N - m < k  BY <1>0, <1>1, <1>3, <2>1
  <2>3. <<N - m, k>> \in Nat \X Nat /\ <<N - m, k>>[1] < <<N - m, k>>[2]  BY <2>2
  <2>4. <<N - m, k>> \in OpToRel(<, Nat)  BY <2>3 DEF OpToRel
  <2> QED  BY <1>2, <2>2, <2>4
<1> DEFINE IsTop(i) == i \in S /\ \A m \in S : m <= i
           c == CHOOSE i \in S : \A m \in S : m <= i
<1>5. c \in S /\ \A m \in S : m <= c  BY <1>4
<1> QED  BY <1>5 DEF Longest

-----------------------------------------------------------------------------
(* Lookup without links *)

\* A name is looked up under a name.
LEMMA KeyFacts ==
    ASSUME NEW f \in FileSystems, NEW n \in Names
    PROVE  Key(f, n) \in Names
BY Lookup DEF Key

\* What a lookup finds is an entry.
LEMMA EntryFacts ==
    ASSUME NEW f \in FileSystems, NEW d \in Dirs, NEW n \in Names
    PROVE  /\ EntryAt(f, d, n) \in Entries /\ EntryAt(f, d, n).kind \in {"none", "dir", "link"}
           /\ EntryAt(f, d, n).dir \in Dirs /\ EntryAt(f, d, n).path \in Paths
<1>1. Key(f, n) \in Names  BY KeyFacts
<1>2. f.tree[d][Key(f, n)] \in Entries  BY <1>1 DEF FileSystems
<1> QED  BY <1>2 DEF EntryAt, Entries

\* The directories that one more name leads to.
Onward(f, dirs, name) == {EntryAt(f, d, name).dir : d \in {c \in dirs : EntryAt(f, c, name).kind = "dir"}}

\* Along, step by step: the root, then what each name leads on to.
LEMMA AlongSteps ==
    ASSUME NEW f \in FileSystems, NEW p \in Paths
    PROVE  /\ Along(f, p)[0] = {Root}
           /\ \A n \in 1..Len(p) : Along(f, p)[n] = Onward(f, Along(f, p)[n - 1], p[n])
           /\ \A n \in 0..Len(p) : Along(f, p)[n] \in SUBSET Dirs
<1> DEFINE N == Len(p)
           D == SUBSET Dirs
           step == [x \in (1..N) \X D |-> Onward(f, x[2], p[x[1]])]
           IsAt(at) == at = [n \in 0..N |-> IF n = 0 THEN {Root}
                            ELSE {EntryAt(f, d, p[n]).dir : d \in {c \in at[n - 1] : EntryAt(f, c, p[n]).kind = "dir"}}]
           a == CHOOSE at : IsAt(at)
<1>1. N \in Nat /\ \A n \in 1..N : p[n] \in Names  BY DEF Paths
<1>2. Along(f, p) = a  BY DEF Along
<1>3. step \in [(1..N) \X D -> D]
  <2>1. ASSUME NEW n \in 1..N, NEW c \in D PROVE Onward(f, c, p[n]) \in D
    <3>1. p[n] \in Names  BY <1>1
    <3>2. \A d \in c : EntryAt(f, d, p[n]).dir \in Dirs  BY <3>1, EntryFacts
    <3> QED  BY <3>2 DEF Onward
  <2>2. ASSUME NEW x \in (1..N) \X D PROVE Onward(f, x[2], p[x[1]]) \in D
    <3>1. x[1] \in 1..N /\ x[2] \in D  BY <2>2
    <3> HIDE DEF N, D
    <3> QED  BY <3>1, <2>1
  <2> QED  BY <2>2
<1>4. PICK g \in [0..N -> D] : Goes(g, {Root}, step, N)
  <2>1. {Root} \in D  BY Lookup
  <2> HIDE DEF D, step, N
  <2> QED  BY <1>1, <1>3, <2>1, Unfolds
<1>5. ASSUME NEW n \in 1..N PROVE g[n] = Onward(f, g[n - 1], p[n])
  <2>1. n - 1 \in 0..N /\ g[n - 1] \in D  BY <1>1, <1>4
  <2>2. <<n, g[n - 1]>> \in (1..N) \X D  BY <2>1
  <2>3. g[n] = step[<<n, g[n - 1]>>]  BY <1>4 DEF Goes
  <2>4. <<n, g[n - 1]>>[1] = n /\ <<n, g[n - 1]>>[2] = g[n - 1]  OBVIOUS
  <2> HIDE DEF N, D
  <2> QED  BY <2>2, <2>3, <2>4
<1>6. IsAt(g)
  <2> DEFINE h == [n \in 0..N |-> IF n = 0 THEN {Root}
                      ELSE {EntryAt(f, d, p[n]).dir : d \in {c \in g[n - 1] : EntryAt(f, c, p[n]).kind = "dir"}}]
  <2>0. g[0] = {Root}  BY <1>4 DEF Goes
  <2>1. ASSUME NEW n \in 0..N PROVE g[n] = h[n]
    <3>1. CASE n = 0  BY <2>0, <3>1
    <3>2. CASE n # 0
      <4>1. n \in 1..N  BY <1>1, <3>2
      <4>2. g[n] = Onward(f, g[n - 1], p[n])  BY <1>5, <4>1
      <4> HIDE DEF N
      <4> QED  BY <3>2, <4>1, <4>2 DEF Onward
    <3> QED  BY <3>1, <3>2
  <2>2. g = [n \in 0..N |-> g[n]]  BY <1>4
  <2>3. h = [n \in 0..N |-> h[n]]  OBVIOUS
  <2> HIDE DEF h
  <2>4. g = h  BY <2>1, <2>2, <2>3
  <2> QED  BY <2>4 DEF h
<1>7. IsAt(a)  BY <1>6
<1> HIDE DEF a, step
<1>8. a[0] = {Root} /\ \A n \in 1..N : a[n] = Onward(f, a[n - 1], p[n])
  <2> DEFINE h == [n \in 0..N |-> IF n = 0 THEN {Root} ELSE Onward(f, a[n - 1], p[n])]
  <2>1. a = h  BY <1>7 DEF Onward
  <2>2. 0 \in 0..N /\ \A n \in 1..N : n \in 0..N /\ n # 0  BY <1>1
  <2> HIDE DEF N, IsAt
  <2>3. h[0] = {Root} /\ \A n \in 1..N : h[n] = Onward(f, a[n - 1], p[n])  BY <2>2
  <2> HIDE DEF h
  <2> QED  BY <2>1, <2>3
<1> DEFINE T == {n \in 0..N : a[n] \in D}
<1>9. 0 \in T  BY <1>1, <1>8, Lookup
<1>10. ASSUME NEW k \in 0..N, k \in T, k < N PROVE k + 1 \in T
  <2>1. k + 1 \in 1..N /\ (k + 1) - 1 = k /\ p[k + 1] \in Names  BY <1>1, <1>10
  <2>2. a[k + 1] = Onward(f, a[k], p[k + 1]) /\ a[k] \in D  BY <1>8, <1>10, <2>1
  <2>3. \A d \in a[k] : EntryAt(f, d, p[k + 1]).dir \in Dirs  BY <2>1, <2>2, EntryFacts
  <2>4. a[k + 1] \in D  BY <2>2, <2>3 DEF Onward
  <2>5. k + 1 \in 0..N  BY <1>1, <2>1
  <2> QED  BY <2>4, <2>5
<1> HIDE DEF T
<1>11. 0..N \subseteq T  BY <1>1, <1>9, <1>10, Reaches
<1>12. \A n \in 0..N : a[n] \in D  BY <1>11 DEF T
<1> HIDE DEF N
<1> QED  BY <1>2, <1>8, <1>12 DEF N

\* Names lead to one directory at most.
LEMMA AlongOne ==
    ASSUME NEW f \in FileSystems, NEW p \in Paths, NEW n \in 0..Len(p)
    PROVE  \A d \in Along(f, p)[n], e \in Along(f, p)[n] : d = e
<1> DEFINE N == Len(p)
           a == Along(f, p)
           T == {k \in 0..N : \A d \in a[k], e \in a[k] : d = e}
<1>1. N \in Nat  BY EmptyPath
<1>2. 0 \in T  BY <1>1, AlongSteps
<1>3. ASSUME NEW k \in 0..N, k \in T, k < N PROVE k + 1 \in T
  <2>1. k + 1 \in 1..N /\ (k + 1) - 1 = k /\ k + 1 \in 0..N  BY <1>1, <1>3
  <2>2. a[k + 1] = Onward(f, a[k], p[k + 1])  BY <2>1, AlongSteps
  <2>3. \A d \in a[k], e \in a[k] : d = e  BY <1>3
  <2> QED  BY <2>1, <2>2, <2>3 DEF Onward
<1> HIDE DEF T
<1>4. 0..N \subseteq T  BY <1>1, <1>2, <1>3, Reaches
<1> QED  BY <1>4 DEF T

\* What names lead to depends on their keys.
LEMMA AlongAgrees ==
    ASSUME NEW f \in FileSystems, NEW p \in Paths, NEW q \in Paths, NEW n \in Nat, n <= Len(p), n <= Len(q),
           \A i \in 1..n : Key(f, p[i]) = Key(f, q[i])
    PROVE  \A k \in 0..n : Along(f, p)[k] = Along(f, q)[k]
<1> DEFINE T == {k \in 0..n : Along(f, p)[k] = Along(f, q)[k]}
<1>1. 0 \in T
  <2>1. Along(f, p)[0] = {Root} /\ Along(f, q)[0] = {Root} /\ 0 \in 0..n  BY AlongSteps
  <2> QED  BY <2>1
<1>2. ASSUME NEW k \in 0..n, k \in T, k < n PROVE k + 1 \in T
  <2>1. k + 1 \in 1..n /\ (k + 1) - 1 = k /\ k + 1 \in 0..n /\ k + 1 \in 1..Len(p) /\ k + 1 \in 1..Len(q)
    BY <1>2, EmptyPath
  <2>2. /\ Along(f, p)[k + 1] = Onward(f, Along(f, p)[k], p[k + 1])
        /\ Along(f, q)[k + 1] = Onward(f, Along(f, q)[k], q[k + 1])
    BY <2>1, AlongSteps
  <2>3. \A d \in Dirs : EntryAt(f, d, p[k + 1]) = EntryAt(f, d, q[k + 1])  BY <2>1 DEF EntryAt
  <2>4. Along(f, p)[k] = Along(f, q)[k] /\ Along(f, p)[k] \in SUBSET Dirs
    BY <1>2, <2>1, AlongSteps, EmptyPath
  <2>5. Onward(f, Along(f, p)[k], p[k + 1]) = Onward(f, Along(f, p)[k], q[k + 1])  BY <2>3, <2>4 DEF Onward
  <2> QED  BY <2>1, <2>2, <2>4, <2>5
<1> HIDE DEF T
<1>3. 0..n \subseteq T  BY <1>1, <1>2, Reaches
<1> QED  BY <1>3 DEF T

\* Past a name that leads to no directory there is none.
LEMMA AlongEnds ==
    ASSUME NEW f \in FileSystems, NEW p \in Paths, NEW n \in 0..Len(p), Along(f, p)[n] = {}
    PROVE  \A k \in n..Len(p) : Along(f, p)[k] = {}
<1> DEFINE N == Len(p)
           T == {k \in 0..N : k >= n => Along(f, p)[k] = {}}
<1>0. N \in Nat  BY EmptyPath
<1>1. 0 \in T  BY <1>0
<1>2. ASSUME NEW k \in 0..N, k \in T, k < N PROVE k + 1 \in T
  <2>1. k + 1 \in 1..N /\ (k + 1) - 1 = k /\ k + 1 \in 0..N  BY <1>0, <1>2
  <2>2. Along(f, p)[k + 1] = Onward(f, Along(f, p)[k], p[k + 1])  BY <2>1, AlongSteps
  <2>3. CASE k >= n  BY <1>2, <2>1, <2>2, <2>3 DEF Onward
  <2>4. CASE ~(k >= n)
    <3>1. k + 1 >= n => k + 1 = n  BY <2>4
    <3> QED  BY <2>1, <3>1
  <2> QED  BY <2>3, <2>4
<1> HIDE DEF T
<1>3. 0..N \subseteq T  BY <1>0, <1>1, <1>2, Reaches
<1>4. \A k \in n..N : k \in 0..N /\ k >= n  BY <1>0
<1> QED  BY <1>3, <1>4 DEF T

\* A path leads to a directory when there is no link on it and nothing missing.
Leads(f, p, d) == d \in Along(f, p)[Len(p)]

\* A path leads to one directory, and has no link on it then.
LEMMA LeadsFacts ==
    ASSUME NEW f \in FileSystems, NEW p \in Paths, NEW d, Leads(f, p, d)
    PROVE  /\ d \in Dirs /\ Along(f, p)[Len(p)] = {d}
           /\ \A e : Leads(f, p, e) => e = d
           /\ LinkOn(f, p) = {}
<1>1. Len(p) \in Nat /\ Len(p) \in 0..Len(p)  BY EmptyPath
<1>2. d \in Dirs /\ \A e \in Along(f, p)[Len(p)] : e = d  BY <1>1, AlongSteps, AlongOne DEF Leads
<1>3. ASSUME NEW n \in LinkOn(f, p) PROVE FALSE
  <2>1. PICK c \in Along(f, p)[n - 1] : EntryAt(f, c, p[n]).kind = "link"  BY DEF LinkOn
  <2>2. n \in 1..Len(p) /\ n - 1 \in 0..Len(p) /\ n \in 0..Len(p)  BY <1>1 DEF LinkOn
  <2>3. \A e \in Along(f, p)[n - 1] : e = c  BY <2>1, <2>2, AlongOne
  <2>4. Along(f, p)[n] = {}  BY <2>1, <2>2, <2>3, AlongSteps DEF Onward
  <2>5. Len(p) \in n..Len(p)  BY <1>1, <2>2
  <2>6. Along(f, p)[Len(p)] = {}  BY <2>2, <2>4, <2>5, AlongEnds
  <2> QED  BY <2>6 DEF Leads
<1> QED  BY <1>2, <1>3 DEF Leads

\* The empty path leads to the root.
LEMMA LeadsNowhere ==
    ASSUME NEW f \in FileSystems, NEW d
    PROVE  Leads(f, <<>>, d) <=> d = Root
BY EmptyPath, AlongSteps DEF Leads

\* A path leads to what its last name is in the directory its others lead to.
LEMMA LeadsStep ==
    ASSUME NEW f \in FileSystems, NEW p \in Paths, p # <<>>, NEW e
    PROVE  Leads(f, p, e) <=>
             \E d \in Dirs : /\ Leads(f, Front(p), d)
                             /\ EntryAt(f, d, Last(p)).kind = "dir" /\ EntryAt(f, d, Last(p)).dir = e
<1> DEFINE N == Len(p)
<1>1. N \in Nat \ {0} /\ N \in 1..N /\ N - 1 \in Nat /\ N - 1 \in 0..N /\ N - 1 <= N  BY FrontFacts
<1>2. Front(p) \in Paths /\ Len(Front(p)) = N - 1 /\ \A i \in 1..(N - 1) : Front(p)[i] = p[i]  BY FrontFacts
<1>3. Last(p) = p[N]  BY FrontFacts
<1>4. \A k \in 0..(N - 1) : Along(f, p)[k] = Along(f, Front(p))[k]
  <2>1. \A i \in 1..(N - 1) : Key(f, p[i]) = Key(f, Front(p)[i])  BY <1>2
  <2>2. N - 1 <= Len(Front(p))  BY <1>1, <1>2
  <2> HIDE DEF N
  <2> QED  BY <1>1, <1>2, <2>1, <2>2, AlongAgrees DEF N
<1>5. Along(f, p)[N - 1] = Along(f, Front(p))[Len(Front(p))]  BY <1>1, <1>2, <1>4
<1>6. Along(f, p)[N] = Onward(f, Along(f, p)[N - 1], p[N])  BY <1>1, AlongSteps
<1>7. Along(f, p)[N - 1] \subseteq Dirs  BY <1>1, AlongSteps
<1> QED  BY <1>3, <1>5, <1>6, <1>7 DEF Leads, Onward

\* The same with a name more.
LEMMA LeadsOn ==
    ASSUME NEW f \in FileSystems, NEW p \in Paths, NEW n \in Names, NEW d, Leads(f, p, d)
    PROVE  /\ p \o <<n>> \in Paths
           /\ \A e : Leads(f, p \o <<n>>, e) <=> EntryAt(f, d, n).kind = "dir" /\ EntryAt(f, d, n).dir = e
<1> DEFINE q == p \o <<n>>
<1>1. q \in Paths /\ q # <<>> /\ Front(q) = p /\ Last(q) = n
  <2>1. <<n>> \in Paths /\ Len(<<n>>) = 1 /\ <<n>>[1] = n  BY DEF Paths
  <2>2. q \in Paths /\ Len(q) = Len(p) + 1 /\ Len(p) \in Nat /\ (\A i \in 1..Len(p) : q[i] = p[i]) /\ q[Len(p) + 1] = n
    BY <2>1, JoinFacts
  <2> HIDE DEF q
  <2>3. q # <<>>  BY <2>2, EmptyPath
  <2>4. Front(q) \in Paths /\ Len(Front(q)) = Len(p) /\ \A i \in 1..Len(p) : Front(q)[i] = p[i]
    <3>1. /\ Front(q) \in Paths /\ Len(Front(q)) = Len(q) - 1
          /\ \A i \in 1..(Len(q) - 1) : Front(q)[i] = q[i]
      BY <2>2, <2>3, FrontFacts
    <3>2. Len(q) - 1 = Len(p)  BY <2>2
    <3> QED  BY <2>2, <3>1, <3>2
  <2>5. Front(q) = p  BY <2>4, SamePaths DEF Paths
  <2> QED  BY <2>2, <2>3, <2>5, FrontFacts
<1> HIDE DEF q
<1>2. d \in Dirs /\ \A e : Leads(f, p, e) => e = d  BY LeadsFacts
<1>3. ASSUME NEW e
      PROVE  Leads(f, q, e) <=> \E c \in Dirs : /\ Leads(f, p, c)
                                               /\ EntryAt(f, c, n).kind = "dir" /\ EntryAt(f, c, n).dir = e
  BY <1>1, LeadsStep
<1>4. q \in Paths /\ \A e : Leads(f, q, e) <=> EntryAt(f, d, n).kind = "dir" /\ EntryAt(f, d, n).dir = e
  BY <1>1, <1>2, <1>3
<1> QED  BY <1>4 DEF q

-----------------------------------------------------------------------------
(* Folded paths *)

\* A folded path is a path of the same length.
LEMMA FoldFacts ==
    ASSUME NEW f \in FileSystems, NEW p \in Paths
    PROVE  /\ FoldPath(f, p) \in Paths /\ Len(FoldPath(f, p)) = Len(p)
           /\ \A i \in 1..Len(p) : FoldPath(f, p)[i] = Key(f, p[i])
<1>1. Len(p) \in Nat /\ \A i \in 1..Len(p) : p[i] \in Names  BY DEF Paths
<1>2. \A i \in 1..Len(p) : Key(f, p[i]) \in Names  BY <1>1, KeyFacts
<1> QED  BY <1>1, <1>2 DEF FoldPath, Paths

\* Folded paths are equal when their names are, but for case.
LEMMA FoldsEqual ==
    ASSUME NEW f \in FileSystems, NEW p \in Paths, NEW q \in Paths
    PROVE  FoldPath(f, p) = FoldPath(f, q) <=>
             Len(p) = Len(q) /\ \A i \in 1..Len(p) : Key(f, p[i]) = Key(f, q[i])
<1>1. ASSUME FoldPath(f, p) = FoldPath(f, q)
      PROVE  Len(p) = Len(q) /\ \A i \in 1..Len(p) : Key(f, p[i]) = Key(f, q[i])
  <2>1. Len(p) = Len(q)  BY <1>1, FoldFacts
  <2>2. ASSUME NEW i \in 1..Len(p) PROVE Key(f, p[i]) = Key(f, q[i])
    <3>1. FoldPath(f, p)[i] = Key(f, p[i])  BY FoldFacts
    <3>2. FoldPath(f, q)[i] = Key(f, q[i])  BY <2>1, FoldFacts
    <3> QED  BY <1>1, <3>1, <3>2
  <2> QED  BY <2>1, <2>2
<1>2. ASSUME Len(p) = Len(q), \A i \in 1..Len(p) : Key(f, p[i]) = Key(f, q[i])
      PROVE  FoldPath(f, p) = FoldPath(f, q)
  BY <1>2 DEF FoldPath
<1> QED  BY <1>1, <1>2

\* The names of c come first on p, but for their case.
Starts(f, c, p) == Len(c) <= Len(p) /\ \A i \in 1..Len(c) : Key(f, c[i]) = Key(f, p[i])

\* The comparison of folded paths that checkDisjoint makes says the same.
LEMMA StartsIsPrefix ==
    ASSUME NEW f \in FileSystems, NEW c \in Paths, NEW p \in Paths
    PROVE  IsPrefix(FoldPath(f, c), FoldPath(f, p)) <=> Starts(f, c, p)
<1> DEFINE a == FoldPath(f, c)
           b == FoldPath(f, p)
<1>1. a \in Paths /\ Len(a) = Len(c) /\ (\A i \in 1..Len(c) : a[i] = Key(f, c[i]))  BY FoldFacts
<1>2. b \in Paths /\ Len(b) = Len(p) /\ (\A i \in 1..Len(p) : b[i] = Key(f, p[i]))  BY FoldFacts
<1>3. Len(c) \in Nat /\ Len(p) \in Nat  BY EmptyPath
<1> HIDE DEF a, b
<1>4. CASE Len(c) <= Len(p)
  <2> DEFINE u == SubSeq(a, 1, Len(a))
             v == SubSeq(b, 1, Len(a))
  <2>1. u \in Paths /\ Len(u) = Len(c) /\ \A i \in 1..Len(c) : u[i] = a[i]
    <3>1. Len(a) \in 0..Len(a) /\ u = Upto(a, Len(a))  BY <1>1, <1>3 DEF Upto
    <3> DEFINE w == Upto(a, Len(a))
    <3>2. w \in Paths /\ Len(w) = Len(a) /\ \A i \in 1..Len(a) : w[i] = a[i]  BY <1>1, <3>1, UptoFacts
    <3> HIDE DEF w
    <3> QED  BY <1>1, <3>1, <3>2 DEF w
  <2>2. v \in Paths /\ Len(v) = Len(c) /\ \A i \in 1..Len(c) : v[i] = b[i]
    <3>1. Len(a) \in 0..Len(b) /\ v = Upto(b, Len(a))  BY <1>1, <1>2, <1>3, <1>4 DEF Upto
    <3> DEFINE w == Upto(b, Len(a))
    <3>2. w \in Paths /\ Len(w) = Len(a) /\ \A i \in 1..Len(a) : w[i] = b[i]  BY <1>2, <3>1, UptoFacts
    <3> HIDE DEF w
    <3> QED  BY <1>1, <3>1, <3>2 DEF w
  <2> HIDE DEF u, v
  <2>3. u = v <=> \A i \in 1..Len(c) : u[i] = v[i]
    <3>1. (\A i \in 1..Len(c) : u[i] = v[i]) => u = v  BY <2>1, <2>2, SamePaths DEF Paths
    <3> QED  BY <3>1
  <2>4. \A i \in 1..Len(c) : i \in 1..Len(p)  BY <1>3, <1>4
  <2>5. u = v <=> \A i \in 1..Len(c) : Key(f, c[i]) = Key(f, p[i])
    BY <1>1, <1>2, <2>1, <2>2, <2>3, <2>4
  <2> QED  BY <1>1, <1>2, <1>4, <2>5 DEF IsPrefix, Starts, a, b, u, v
<1>5. CASE ~(Len(c) <= Len(p))  BY <1>1, <1>2, <1>5 DEF IsPrefix, Starts, a, b
<1> QED  BY <1>4, <1>5

\* Paths that start with one another: an order up to case, in which what two
\* paths come first on puts one of them first on the other.
LEMMA StartsFacts ==
    ASSUME NEW f \in FileSystems, NEW a \in Paths, NEW b \in Paths, NEW c \in Paths
    PROVE  /\ Starts(f, a, a)
           /\ Starts(f, a, b) /\ Starts(f, b, c) => Starts(f, a, c)
           /\ FoldPath(f, a) = FoldPath(f, b) => /\ Starts(f, a, c) <=> Starts(f, b, c)
                                                /\ Starts(f, c, a) <=> Starts(f, c, b)
           /\ Starts(f, a, c) /\ Starts(f, b, c) => Starts(f, a, b) \/ Starts(f, b, a)
<1>1. Len(a) \in Nat /\ Len(b) \in Nat /\ Len(c) \in Nat  BY EmptyPath
<1>2. Starts(f, a, a)  BY <1>1 DEF Starts
<1>3. Starts(f, a, b) /\ Starts(f, b, c) => Starts(f, a, c)  BY <1>1 DEF Starts
<1>4. ASSUME FoldPath(f, a) = FoldPath(f, b)
      PROVE  /\ Starts(f, a, c) <=> Starts(f, b, c)
             /\ Starts(f, c, a) <=> Starts(f, c, b)
  <2>1. Len(a) = Len(b) /\ \A i \in 1..Len(a) : Key(f, a[i]) = Key(f, b[i])  BY <1>4, FoldsEqual
  <2>2. Starts(f, a, c) <=> Starts(f, b, c)  BY <2>1 DEF Starts
  <2>3. Len(c) <= Len(a) => \A i \in 1..Len(c) : i \in 1..Len(a)  BY <1>1
  <2>4. Starts(f, c, a) <=> Starts(f, c, b)  BY <2>1, <2>3 DEF Starts
  <2> QED  BY <2>2, <2>4
<1>5. ASSUME Starts(f, a, c), Starts(f, b, c) PROVE Starts(f, a, b) \/ Starts(f, b, a)
  <2>1. CASE Len(a) <= Len(b)
    <3>1. \A i \in 1..Len(a) : i \in 1..Len(b)  BY <1>1, <2>1
    <3> QED  BY <1>5, <2>1, <3>1 DEF Starts
  <2>2. CASE Len(b) <= Len(a)
    <3>1. \A i \in 1..Len(b) : i \in 1..Len(a)  BY <1>1, <2>2
    <3> QED  BY <1>5, <2>2, <3>1 DEF Starts
  <2> QED  BY <1>1, <2>1, <2>2
<1> QED  BY <1>2, <1>3, <1>4, <1>5

\* A path comes first where more names follow it.
LEMMA StartsJoined ==
    ASSUME NEW f \in FileSystems, NEW p \in Paths, NEW r \in Paths
    PROVE  Starts(f, p, p \o r)
BY JoinFacts DEF Starts

\* Folding depends on whether the file system folds, and not on what is there.
LEMMA FoldKept ==
    ASSUME NEW f \in FileSystems, NEW g \in FileSystems, f.folds = g.folds
    PROVE  /\ \A n : Key(g, n) = Key(f, n)
           /\ \A p : FoldPath(g, p) = FoldPath(f, p)
           /\ \A c, p : Starts(g, c, p) <=> Starts(f, c, p)
<1>1. \A n : Key(g, n) = Key(f, n)  BY DEF Key
<1> QED  BY <1>1 DEF FoldPath, Starts

-----------------------------------------------------------------------------
(* Directories that paths lead to *)

\* Paths that are the same but for case lead to the same directories.
LEMMA LeadsSame ==
    ASSUME NEW f \in FileSystems, NEW p \in Paths, NEW q \in Paths, FoldPath(f, p) = FoldPath(f, q), NEW d
    PROVE  Leads(f, p, d) <=> Leads(f, q, d)
<1>1. Len(p) = Len(q) /\ Len(p) \in Nat /\ Len(p) <= Len(q) /\ Len(p) <= Len(p) /\ Len(p) \in 0..Len(p)
  BY FoldsEqual, EmptyPath
<1>2. \A i \in 1..Len(p) : Key(f, p[i]) = Key(f, q[i])  BY FoldsEqual
<1>3. Along(f, p)[Len(p)] = Along(f, q)[Len(p)]  BY <1>1, <1>2, AlongAgrees
<1> QED  BY <1>1, <1>3 DEF Leads

\* What comes first on a path that leads somewhere leads somewhere.
LEMMA LeadsFirst ==
    ASSUME NEW f \in FileSystems, NEW p \in Paths, NEW d, Leads(f, p, d), NEW c \in Paths, Starts(f, c, p)
    PROVE  \E e \in Dirs : Leads(f, c, e)
<1>1. Len(c) \in Nat /\ Len(p) \in Nat /\ Len(c) <= Len(p) /\ Len(c) <= Len(c) /\ Len(c) \in 0..Len(c)
      /\ Len(c) \in 0..Len(p) /\ Len(p) \in Len(c)..Len(p)
  BY EmptyPath DEF Starts
<1>2. Along(f, c)[Len(c)] = Along(f, p)[Len(c)]
  <2>1. \A i \in 1..Len(c) : Key(f, c[i]) = Key(f, p[i])  BY DEF Starts
  <2> QED  BY <1>1, <2>1, AlongAgrees
<1>3. Along(f, p)[Len(c)] # {}
  <2>1. SUFFICES ASSUME Along(f, p)[Len(c)] = {} PROVE FALSE  OBVIOUS
  <2>2. Along(f, p)[Len(p)] = {}  BY <1>1, <2>1, AlongEnds
  <2> QED  BY <2>2 DEF Leads
<1>4. Along(f, p)[Len(c)] \subseteq Dirs  BY <1>1, AlongSteps
<1> QED  BY <1>2, <1>3, <1>4 DEF Leads

\* A directory has one parent and one name there.
LEMMA OneParent ==
    ASSUME NEW f \in FileSystems, Forest(f), NEW d \in Dirs, NEW n \in Names, EntryAt(f, d, n).kind = "dir"
    PROVE  /\ EntryAt(f, d, n).dir # Root
           /\ \A e \in Dirs, m \in Names :
                EntryAt(f, e, m).kind = "dir" /\ EntryAt(f, e, m).dir = EntryAt(f, d, n).dir
                    => e = d /\ Key(f, m) = Key(f, n)
<1>1. Key(f, n) \in Names /\ \A m \in Names : Key(f, m) \in Names  BY KeyFacts
<1> QED  BY <1>1 DEF Forest, EntryAt

\* Two paths that lead to one directory are the same but for case.
LEMMA OnePath ==
    ASSUME NEW f \in FileSystems, Forest(f), NEW p \in Paths, NEW q \in Paths, NEW d,
           Leads(f, p, d), Leads(f, q, d)
    PROVE  FoldPath(f, p) = FoldPath(f, q)
<1> DEFINE N == Len(p)
           T == {n \in 0..N : \A a \in Paths, b \in Paths, e \in Dirs :
                    Len(a) = n /\ Leads(f, a, e) /\ Leads(f, b, e) => FoldPath(f, a) = FoldPath(f, b)}
<1>0. N \in Nat  BY EmptyPath
<1>1. ASSUME NEW a \in Paths, a # <<>>, NEW e, Leads(f, a, e) PROVE e # Root
  <2>1. PICK c \in Dirs : EntryAt(f, c, Last(a)).kind = "dir" /\ EntryAt(f, c, Last(a)).dir = e
    BY <1>1, LeadsStep
  <2>2. Last(a) \in Names  BY <1>1, FrontFacts
  <2> QED  BY <2>1, <2>2, OneParent
<1>2. 0 \in T
  <2>1. ASSUME NEW a \in Paths, NEW b \in Paths, NEW e \in Dirs, Len(a) = 0, Leads(f, a, e), Leads(f, b, e)
        PROVE  FoldPath(f, a) = FoldPath(f, b)
    <3>1. a = <<>>  BY <2>1, EmptyPath
    <3>2. e = Root  BY <2>1, <3>1, LeadsNowhere
    <3>3. b = <<>>  BY <1>1, <2>1, <3>2
    <3> QED  BY <3>1, <3>3
  <2> QED  BY <1>0, <2>1
<1>3. ASSUME NEW k \in 0..N, k \in T, k < N PROVE k + 1 \in T
  <2>1. ASSUME NEW a \in Paths, NEW b \in Paths, NEW e \in Dirs, Len(a) = k + 1, Leads(f, a, e), Leads(f, b, e)
        PROVE  FoldPath(f, a) = FoldPath(f, b)
    <3>1. a # <<>>
      <4>1. k + 1 # 0  BY <1>0, <1>3
      <4> QED  BY <2>1, <4>1, EmptyPath
    <3>2. b # <<>>  BY <1>1, <2>1, <3>1, LeadsNowhere
    <3>3. PICK c \in Dirs : Leads(f, Front(a), c) /\ EntryAt(f, c, Last(a)).kind = "dir" /\ EntryAt(f, c, Last(a)).dir = e
      BY <2>1, <3>1, LeadsStep
    <3>4. PICK d2 \in Dirs : Leads(f, Front(b), d2) /\ EntryAt(f, d2, Last(b)).kind = "dir" /\ EntryAt(f, d2, Last(b)).dir = e
      BY <2>1, <3>2, LeadsStep
    <3>5. /\ Front(a) \in Paths /\ Len(Front(a)) = Len(a) - 1 /\ Last(a) \in Names /\ Last(a) = a[Len(a)]
          /\ \A i \in 1..(Len(a) - 1) : Front(a)[i] = a[i]
      BY <3>1, FrontFacts
    <3>6. /\ Front(b) \in Paths /\ Len(Front(b)) = Len(b) - 1 /\ Last(b) \in Names /\ Last(b) = b[Len(b)]
          /\ \A i \in 1..(Len(b) - 1) : Front(b)[i] = b[i]
      BY <3>2, FrontFacts
    <3>7. c = d2 /\ Key(f, Last(a)) = Key(f, Last(b))  BY <3>3, <3>4, <3>5, <3>6, OneParent
    <3>8. Len(Front(a)) = k  BY <1>0, <2>1, <3>5
    <3>9. FoldPath(f, Front(a)) = FoldPath(f, Front(b))  BY <1>3, <3>3, <3>4, <3>5, <3>6, <3>7, <3>8
    <3>10. Len(Front(a)) = Len(Front(b)) /\ \A i \in 1..Len(Front(a)) : Key(f, Front(a)[i]) = Key(f, Front(b)[i])
      BY <3>5, <3>6, <3>9, FoldsEqual
    <3>11. Len(a) \in Nat /\ Len(b) \in Nat /\ Len(a) = Len(b)  BY <3>5, <3>6, <3>10, EmptyPath
    <3>12. ASSUME NEW i \in 1..Len(a) PROVE Key(f, a[i]) = Key(f, b[i])
      <4>1. CASE i = Len(a)  BY <3>5, <3>6, <3>7, <3>11, <4>1
      <4>2. CASE i # Len(a)
        <5>1. i \in 1..(Len(a) - 1) /\ i \in 1..(Len(b) - 1) /\ i \in 1..Len(Front(a))  BY <3>5, <3>11, <4>2
        <5> QED  BY <3>5, <3>6, <3>10, <5>1
      <4> QED  BY <4>1, <4>2
    <3> QED  BY <3>11, <3>12, FoldsEqual
  <2>2. k + 1 \in 0..N  BY <1>0, <1>3
  <2> QED  BY <2>1, <2>2
<1> HIDE DEF T
<1>4. 0..N \subseteq T  BY <1>0, <1>2, <1>3, Reaches
<1>5. N \in T  BY <1>0, <1>4
<1>6. d \in Dirs  BY LeadsFacts
<1> QED  BY <1>5, <1>6 DEF T

-----------------------------------------------------------------------------
(* Directories below others *)

\* What is below a directory is the least set with it and all its children.
LEMMA BelowFacts ==
    ASSUME NEW f \in FileSystems, NEW d \in Dirs
    PROVE  /\ Below(f, d) \in SUBSET Dirs /\ d \in Below(f, d) /\ Closed(f, Below(f, d))
           /\ \A S \in SUBSET Dirs : d \in S /\ Closed(f, S) => Below(f, d) \subseteq S
<1>1. \A c \in Dirs : Children(f, c) \subseteq Dirs  BY EntryFacts DEF Children
<1>2. \A S \in SUBSET Dirs : d \in S /\ Closed(f, S) => Below(f, d) \subseteq S  BY DEF Below
<1>3. Below(f, d) \in SUBSET Dirs /\ d \in Below(f, d)  BY DEF Below
<1>4. Closed(f, Below(f, d))
  <2>1. SUFFICES ASSUME NEW c \in Below(f, d), NEW e \in Children(f, c) PROVE e \in Below(f, d)
    BY DEF Closed
  <2>2. e \in Dirs  BY <1>1, <1>3, <2>1
  <2>3. ASSUME NEW S \in SUBSET Dirs, d \in S, Closed(f, S) PROVE e \in S
    <3>1. c \in S  BY <1>2, <2>3
    <3> QED  BY <2>3, <3>1 DEF Closed
  <2> QED  BY <2>2, <2>3 DEF Below
<1> QED  BY <1>2, <1>3, <1>4

\* A path to a directory below another starts with that one's path.
LEMMA BelowStarts ==
    ASSUME NEW f \in FileSystems, Forest(f), NEW p \in Paths, NEW d, Leads(f, p, d),
           NEW e \in Below(f, d), NEW q \in Paths, Leads(f, q, e)
    PROVE  Starts(f, p, q)
<1>0. d \in Dirs  BY LeadsFacts
<1> DEFINE S == {c \in Dirs : \A r \in Paths : Leads(f, r, c) => Starts(f, p, r)}
<1>1. d \in S
  <2>1. ASSUME NEW r \in Paths, Leads(f, r, d) PROVE Starts(f, p, r)
    <3>1. FoldPath(f, p) = FoldPath(f, r)  BY <2>1, OnePath
    <3> QED  BY <3>1, StartsFacts
  <2> QED  BY <1>0, <2>1
<1>2. Closed(f, S)
  <2>1. SUFFICES ASSUME NEW c \in S, NEW b \in Children(f, c), NEW r \in Paths, Leads(f, r, b)
                 PROVE  Starts(f, p, r)
    <3>1. \A c \in S : \A b \in Children(f, c) : b \in Dirs  BY EntryFacts DEF Children
    <3> QED  BY <3>1 DEF Closed
  <2>2. c \in Dirs  OBVIOUS
  <2>3. PICK n \in Names : EntryAt(f, c, n).kind = "dir" /\ EntryAt(f, c, n).dir = b  BY DEF Children
  <2>4. b # Root  BY <2>2, <2>3, OneParent
  <2>5. r # <<>>  BY <2>1, <2>4, LeadsNowhere
  <2>6. PICK a \in Dirs : Leads(f, Front(r), a) /\ EntryAt(f, a, Last(r)).kind = "dir" /\ EntryAt(f, a, Last(r)).dir = b
    BY <2>1, <2>5, LeadsStep
  <2>7. Front(r) \in Paths /\ Last(r) \in Names /\ r = Front(r) \o <<Last(r)>>  BY <2>5, FrontFacts
  <2>8. a = c  BY <2>2, <2>3, <2>6, <2>7, OneParent
  <2>9. Starts(f, p, Front(r))  BY <2>6, <2>7, <2>8
  <2>10. Starts(f, Front(r), r)
    <3>1. <<Last(r)>> \in Paths  BY <2>7 DEF Paths
    <3> QED  BY <2>7, <3>1, StartsJoined
  <2> QED  BY <2>7, <2>9, <2>10, StartsFacts
<1> HIDE DEF S
<1>3. S \in SUBSET Dirs  BY DEF S
<1>4. e \in S  BY <1>0, <1>1, <1>2, <1>3, BelowFacts
<1> QED  BY <1>4 DEF S

\* Such a path goes on from every path to that one.
LEMMA BelowReached ==
    ASSUME NEW f \in FileSystems, NEW p \in Paths, NEW d, Leads(f, p, d), NEW e \in Below(f, d)
    PROVE  \E q \in Paths : Leads(f, q, e) /\ Starts(f, p, q)
<1>0. d \in Dirs  BY LeadsFacts
<1> DEFINE S == {c \in Dirs : \E q \in Paths : Leads(f, q, c) /\ Starts(f, p, q)}
<1>1. d \in S  BY <1>0, StartsFacts
<1>2. Closed(f, S)
  <2>1. SUFFICES ASSUME NEW c \in S, NEW b \in Children(f, c) PROVE b \in S
    BY DEF Closed
  <2>2. c \in Dirs  OBVIOUS
  <2>3. PICK n \in Names : EntryAt(f, c, n).kind = "dir" /\ EntryAt(f, c, n).dir = b  BY DEF Children
  <2>4. PICK q \in Paths : Leads(f, q, c) /\ Starts(f, p, q)  OBVIOUS
  <2>5. b \in Dirs  BY <2>2, <2>3, EntryFacts
  <2>6. q \o <<n>> \in Paths /\ Leads(f, q \o <<n>>, b)  BY <2>3, <2>4, LeadsOn
  <2>7. Starts(f, q, q \o <<n>>)
    <3>1. <<n>> \in Paths  BY DEF Paths
    <3> QED  BY <3>1, StartsJoined
  <2>8. Starts(f, p, q \o <<n>>)  BY <2>4, <2>6, <2>7, StartsFacts
  <2> QED  BY <2>5, <2>6, <2>8
<1> HIDE DEF S
<1>3. S \in SUBSET Dirs  BY DEF S
<1>4. e \in S  BY <1>0, <1>1, <1>2, <1>3, BelowFacts
<1> QED  BY <1>4 DEF S

\* g has only directories that f has, where f has them.
Sparser(g, f) ==
    /\ g.folds = f.folds
    /\ \A d \in Dirs, n \in Names : g.tree[d][n].kind = "dir" => g.tree[d][n] = f.tree[d][n]

\* With fewer directories less is below any, and fewer paths lead anywhere.
LEMMA SparserFacts ==
    ASSUME NEW f \in FileSystems, NEW g \in FileSystems, Sparser(g, f)
    PROVE  /\ Forest(f) => Forest(g)
           /\ \A d \in Dirs, n \in Names : EntryAt(g, d, n).kind = "dir" => EntryAt(g, d, n) = EntryAt(f, d, n)
           /\ \A d \in Dirs : Below(g, d) \subseteq Below(f, d)
           /\ \A p \in Paths, d \in Dirs : Leads(g, p, d) => Leads(f, p, d)
<1>1. Forest(f) => Forest(g)  BY DEF Forest, Sparser
<1>2. ASSUME NEW d \in Dirs, NEW n \in Names, EntryAt(g, d, n).kind = "dir"
      PROVE  EntryAt(g, d, n) = EntryAt(f, d, n)
  <2>1. Key(g, n) = Key(f, n) /\ Key(f, n) \in Names  BY KeyFacts DEF Key, Sparser
  <2> QED  BY <1>2, <2>1 DEF EntryAt, Sparser
<1>3. ASSUME NEW d \in Dirs PROVE Below(g, d) \subseteq Below(f, d)
  <2>1. Below(f, d) \in SUBSET Dirs /\ d \in Below(f, d) /\ Closed(f, Below(f, d))  BY BelowFacts
  <2>2. \A c \in Dirs : Children(g, c) \subseteq Children(f, c)  BY <1>2 DEF Children
  <2>3. Closed(g, Below(f, d))  BY <2>1, <2>2 DEF Closed
  <2> QED  BY <2>1, <2>3, BelowFacts
<1>4. ASSUME NEW p \in Paths, NEW d \in Dirs, Leads(g, p, d) PROVE Leads(f, p, d)
  <2> DEFINE N == Len(p)
             T == {n \in 0..N : \A a \in Paths, e \in Dirs : Len(a) = n /\ Leads(g, a, e) => Leads(f, a, e)}
  <2>0. N \in Nat  BY EmptyPath
  <2>1. 0 \in T
    <3>1. \A a \in Paths : \A e : Len(a) = 0 /\ Leads(g, a, e) => Leads(f, a, e)  BY EmptyPath, LeadsNowhere
    <3> QED  BY <2>0, <3>1
  <2>2. ASSUME NEW k \in 0..N, k \in T, k < N PROVE k + 1 \in T
    <3>1. ASSUME NEW a \in Paths, NEW e \in Dirs, Len(a) = k + 1, Leads(g, a, e) PROVE Leads(f, a, e)
      <4>1. a # <<>>
        <5>1. k + 1 # 0  BY <2>0, <2>2
        <5> QED  BY <3>1, <5>1, EmptyPath
      <4>2. PICK c \in Dirs : Leads(g, Front(a), c) /\ EntryAt(g, c, Last(a)).kind = "dir" /\ EntryAt(g, c, Last(a)).dir = e
        BY <3>1, <4>1, LeadsStep
      <4>3. Front(a) \in Paths /\ Len(Front(a)) = Len(a) - 1 /\ Last(a) \in Names  BY <4>1, FrontFacts
      <4>4. Len(Front(a)) = k  BY <2>0, <3>1, <4>3
      <4>5. Leads(f, Front(a), c)  BY <2>2, <4>2, <4>3, <4>4
      <4>6. EntryAt(f, c, Last(a)) = EntryAt(g, c, Last(a))  BY <1>2, <4>2, <4>3
      <4> QED  BY <4>1, <4>2, <4>5, <4>6, LeadsStep
    <3>2. k + 1 \in 0..N  BY <2>0, <2>2
    <3> QED  BY <3>1, <3>2
  <2> HIDE DEF T
  <2>3. 0..N \subseteq T  BY <2>0, <2>1, <2>2, Reaches
  <2>4. N \in T  BY <2>0, <2>3
  <2> QED  BY <1>4, <2>4 DEF T
<1> QED  BY <1>1, <1>2, <1>3, <1>4

-----------------------------------------------------------------------------
(* Following links *)

\* Behind a link no name leads on: there is one first link at most.
LEMMA LinkEnds ==
    ASSUME NEW f \in FileSystems, NEW p \in Paths, NEW n \in LinkOn(f, p)
    PROVE  /\ n \in 1..Len(p) /\ n - 1 \in 0..Len(p) /\ n \in 0..Len(p)
           /\ Along(f, p)[n] = {} /\ \A m \in LinkOn(f, p) : m = n
           /\ \E d \in Dirs : EntryAt(f, d, p[n]).kind = "link" /\ Along(f, p)[n - 1] = {d}
<1>0. Len(p) \in Nat  BY EmptyPath
<1>1. ASSUME NEW m \in LinkOn(f, p)
      PROVE  /\ m \in 1..Len(p) /\ m - 1 \in 0..Len(p) /\ m \in 0..Len(p)
             /\ Along(f, p)[m] = {} /\ \E d \in Dirs : EntryAt(f, d, p[m]).kind = "link" /\ Along(f, p)[m - 1] = {d}
  <2>1. PICK c \in Along(f, p)[m - 1] : EntryAt(f, c, p[m]).kind = "link"  BY DEF LinkOn
  <2>2. m \in 1..Len(p) /\ m - 1 \in 0..Len(p) /\ m \in 0..Len(p)  BY <1>0 DEF LinkOn
  <2>3. \A e \in Along(f, p)[m - 1] : e = c  BY <2>1, <2>2, AlongOne
  <2>4. Along(f, p)[m] = {}  BY <2>1, <2>2, <2>3, AlongSteps DEF Onward
  <2>5. c \in Dirs  BY <2>1, <2>2, AlongSteps
  <2>6. Along(f, p)[m - 1] = {c}  BY <2>1, <2>3
  <2> QED  BY <2>1, <2>2, <2>4, <2>5, <2>6
<1>2. ASSUME NEW m \in LinkOn(f, p), NEW k \in LinkOn(f, p), m < k PROVE FALSE
  <2>1. m \in 0..Len(p) /\ Along(f, p)[m] = {} /\ k - 1 \in m..Len(p)  BY <1>0, <1>1, <1>2
  <2>2. Along(f, p)[k - 1] = {}  BY <2>1, AlongEnds
  <2> QED  BY <1>1, <2>2
<1>3. ASSUME NEW m \in LinkOn(f, p) PROVE m = n
  <2>1. m \in Nat /\ n \in Nat  BY <1>0, <1>1
  <2> QED  BY <1>2, <2>1
<1> QED  BY <1>1, <1>3

\* Following a link puts its target in place of what led to it.
LEMMA FollowFacts ==
    ASSUME NEW f \in FileSystems, NEW p \in Paths
    PROVE  /\ Follow(f, p) \in Paths
           /\ LinkOn(f, p) = {} => Follow(f, p) = p
           /\ \A n \in LinkOn(f, p), d \in Dirs :
                Along(f, p)[n - 1] = {d} => Follow(f, p) = EntryAt(f, d, p[n]).path \o Beyond(p, n)
<1>1. ASSUME NEW n \in LinkOn(f, p), NEW d \in Dirs, Along(f, p)[n - 1] = {d}
      PROVE  /\ Follow(f, p) = EntryAt(f, d, p[n]).path \o Beyond(p, n)
             /\ EntryAt(f, d, p[n]).path \o Beyond(p, n) \in Paths
  <2> DEFINE k == CHOOSE i \in LinkOn(f, p) : TRUE
             c == CHOOSE e \in Along(f, p)[k - 1] : TRUE
  <2>1. k \in LinkOn(f, p)  BY <1>1
  <2>2. k = n  BY <1>1, <2>1, LinkEnds
  <2>3. c = d  BY <1>1, <2>2
  <2>4. LinkOn(f, p) # {} /\ Follow(f, p) = EntryAt(f, c, p[k]).path \o Beyond(p, k)  BY <1>1 DEF Follow, Behind
  <2>5. n \in 0..Len(p) /\ p[n] \in Names  BY LinkEnds DEF Paths
  <2>6. Beyond(p, n) \in Paths /\ EntryAt(f, d, p[n]).path \in Paths  BY <2>5, UptoFacts, EntryFacts
  <2> HIDE DEF k, c
  <2> QED  BY <2>2, <2>3, <2>4, <2>6, JoinFacts
<1>2. LinkOn(f, p) = {} => Follow(f, p) = p  BY DEF Follow
<1>3. Follow(f, p) \in Paths
  <2>1. CASE LinkOn(f, p) = {}  BY <1>2, <2>1
  <2>2. CASE LinkOn(f, p) # {}
    <3>1. PICK n \in LinkOn(f, p) : TRUE  BY <2>2
    <3>2. PICK d \in Dirs : Along(f, p)[n - 1] = {d}  BY LinkEnds
    <3> QED  BY <1>1, <3>2
  <2> QED  BY <2>1, <2>2
<1> QED  BY <1>1, <1>2, <1>3

\* Joining paths is associative.
LEMMA JoinedThrice ==
    ASSUME NEW p \in Paths, NEW q \in Paths, NEW r \in Paths
    PROVE  (p \o q) \o r = p \o (q \o r)
<1> DEFINE c == p \o q
           d == q \o r
           a == c \o r
           b == p \o d
<1>1. /\ c \in Paths /\ Len(c) = Len(p) + Len(q) /\ Len(p) \in Nat /\ Len(q) \in Nat
      /\ \A i \in 1..Len(p) : c[i] = p[i]
      /\ \A i \in 1..Len(q) : c[Len(p) + i] = q[i]
  BY JoinFacts
<1>2. /\ d \in Paths /\ Len(d) = Len(q) + Len(r) /\ Len(r) \in Nat
      /\ \A i \in 1..Len(q) : d[i] = q[i]
      /\ \A i \in 1..Len(r) : d[Len(q) + i] = r[i]
  BY JoinFacts
<1> HIDE DEF c, d
<1>3. /\ a \in Paths /\ Len(a) = Len(c) + Len(r)
      /\ \A i \in 1..Len(c) : a[i] = c[i]
      /\ \A i \in 1..Len(r) : a[Len(c) + i] = r[i]
  BY <1>1, JoinFacts
<1>4. /\ b \in Paths /\ Len(b) = Len(p) + Len(d)
      /\ \A i \in 1..Len(p) : b[i] = p[i]
      /\ \A i \in 1..Len(d) : b[Len(p) + i] = d[i]
  BY <1>2, JoinFacts
<1> HIDE DEF a, b
<1>5. Len(a) = Len(b) /\ Len(a) = Len(p) + Len(q) + Len(r)  BY <1>1, <1>2, <1>3, <1>4
<1>6. ASSUME NEW i \in 1..Len(a) PROVE a[i] = b[i]
  <2>1. CASE i <= Len(p)
    <3>1. i \in 1..Len(p) /\ i \in 1..Len(c)  BY <1>1, <2>1
    <3> QED  BY <1>1, <1>3, <1>4, <3>1
  <2>2. CASE i > Len(p) /\ i <= Len(p) + Len(q)
    <3>1. PICK j \in 1..Len(q) : i = Len(p) + j
      <4>1. i - Len(p) \in 1..Len(q) /\ i = Len(p) + (i - Len(p))  BY <1>1, <2>2
      <4> QED  BY <4>1
    <3>2. i \in 1..Len(c) /\ j \in 1..Len(d)  BY <1>1, <1>2, <2>2, <3>1
    <3> QED  BY <1>1, <1>2, <1>3, <1>4, <3>1, <3>2
  <2>3. CASE i > Len(p) + Len(q)
    <3>1. PICK k \in 1..Len(r) : i = (Len(p) + Len(q)) + k
      <4>1. i - (Len(p) + Len(q)) \in 1..Len(r)  BY <1>1, <1>2, <1>5, <2>3
      <4>2. i = (Len(p) + Len(q)) + (i - (Len(p) + Len(q)))  BY <1>1
      <4> QED  BY <4>1, <4>2
    <3>2. i = Len(c) + k /\ i = Len(p) + (Len(q) + k) /\ Len(q) + k \in 1..Len(d)  BY <1>1, <1>2, <3>1
    <3>3. a[i] = r[k]  BY <1>3, <3>2
    <3>4. b[i] = d[Len(q) + k]  BY <1>4, <3>2
    <3> QED  BY <1>2, <3>3, <3>4
  <2> QED  BY <1>1, <2>1, <2>2, <2>3
<1>7. a = b  BY <1>3, <1>4, <1>5, <1>6, SamePaths DEF Paths
<1> QED  BY <1>7 DEF a, b, c, d

\* Nothing behind a path, and all of it.
LEMMA NoMore ==
    ASSUME NEW p \in Paths
    PROVE  p \o <<>> = p /\ Upto(p, Len(p)) = p /\ Beyond(p, Len(p)) = <<>>
<1>1. Len(p) \in Nat /\ p \in Seq(Names) /\ Len(p) \in 0..Len(p)  BY EmptyPath DEF Paths
<1>2. p \o <<>> = p  BY <1>1
<1>3. Upto(p, Len(p)) = p
  <2>1. Upto(p, Len(p)) \in Seq(Names) /\ Len(Upto(p, Len(p))) = Len(p) /\ \A i \in 1..Len(p) : Upto(p, Len(p))[i] = p[i]
    BY <1>1, UptoFacts DEF Paths
  <2> QED  BY <1>1, <2>1, SamePaths
<1>4. Beyond(p, Len(p)) \in Paths /\ Len(Beyond(p, Len(p))) = Len(p) - Len(p)  BY <1>1, UptoFacts
<1>5. Len(p) - Len(p) = 0  BY <1>1
<1> QED  BY <1>2, <1>3, <1>4, <1>5, EmptyPath

\* A longer path: what its first names lead to.
LEMMA AlongLong ==
    ASSUME NEW f \in FileSystems, NEW p \in Paths, NEW r \in Paths
    PROVE  /\ p \o r \in Paths /\ Len(p \o r) = Len(p) + Len(r)
           /\ \A n \in 0..Len(p) : Along(f, p \o r)[n] = Along(f, p)[n]
<1>1. Len(p) \in Nat /\ Len(r) \in Nat /\ p \o r \in Paths /\ Len(p \o r) = Len(p) + Len(r)
      /\ \A i \in 1..Len(p) : (p \o r)[i] = p[i]
  BY JoinFacts
<1>2. Len(p) <= Len(p) /\ Len(p) <= Len(p \o r) /\ \A i \in 1..Len(p) : Key(f, p[i]) = Key(f, (p \o r)[i])
  BY <1>1
<1>3. \A n \in 0..Len(p) : Along(f, p)[n] = Along(f, p \o r)[n]  BY <1>1, <1>2, AlongAgrees
<1> QED  BY <1>1, <1>3

\* A link on a path is followed whatever names come after it.
LEMMA FollowLong ==
    ASSUME NEW f \in FileSystems, NEW p \in Paths, NEW r \in Paths, LinkOn(f, p) # {}
    PROVE  LinkOn(f, p \o r) # {} /\ Follow(f, p \o r) = Follow(f, p) \o r
<1> DEFINE q == p \o r
<1>1. PICK n \in LinkOn(f, p) : TRUE  OBVIOUS
<1>2. n \in 1..Len(p) /\ n - 1 \in 0..Len(p) /\ n \in 0..Len(p)  BY LinkEnds
<1>3. PICK d \in Dirs : EntryAt(f, d, p[n]).kind = "link" /\ Along(f, p)[n - 1] = {d}  BY LinkEnds
<1>4. Len(p) \in Nat /\ Len(r) \in Nat /\ q \in Paths /\ Len(q) = Len(p) + Len(r)
      /\ (\A i \in 1..Len(p) : q[i] = p[i]) /\ \A i \in 1..Len(r) : q[Len(p) + i] = r[i]
  BY JoinFacts
<1>5. Along(f, q)[n - 1] = {d} /\ q[n] = p[n]  BY <1>2, <1>3, <1>4, AlongLong
<1> HIDE DEF q
<1>6. n \in 1..Len(q)  BY <1>2, <1>4
<1>7. n \in LinkOn(f, q)  BY <1>3, <1>5, <1>6 DEF LinkOn
<1>8. Follow(f, p) = EntryAt(f, d, p[n]).path \o Beyond(p, n)  BY <1>3, FollowFacts
<1>9. Follow(f, q) = EntryAt(f, d, p[n]).path \o Beyond(q, n)
  <2>1. q \in Paths  BY <1>4
  <2>2. Follow(f, q) = EntryAt(f, d, q[n]).path \o Beyond(q, n)  BY <1>5, <1>7, <2>1, FollowFacts
  <2> QED  BY <1>5, <2>2
<1>10. Beyond(q, n) = Beyond(p, n) \o r
  <2> DEFINE a == Beyond(q, n)
             b == Beyond(p, n)
             c == b \o r
  <2>1. a \in Paths /\ Len(a) = Len(q) - n /\ \A i \in 1..(Len(q) - n) : a[i] = q[n + i]
    <3>1. n \in 0..Len(q)  BY <1>4, <1>6
    <3> QED  BY <1>4, <3>1, UptoFacts
  <2>2. b \in Paths /\ Len(b) = Len(p) - n /\ \A i \in 1..(Len(p) - n) : b[i] = p[n + i]
    BY <1>2, UptoFacts
  <2> HIDE DEF a, b
  <2>3. c \in Paths /\ Len(c) = Len(b) + Len(r) /\ (\A i \in 1..Len(b) : c[i] = b[i])
        /\ \A i \in 1..Len(r) : c[Len(b) + i] = r[i]
    BY <2>2, JoinFacts
  <2> HIDE DEF c
  <2>4. Len(a) = Len(c)  BY <1>2, <1>4, <2>1, <2>2, <2>3
  <2>5. ASSUME NEW i \in 1..Len(a) PROVE a[i] = c[i]
    <3>1. a[i] = q[n + i]  BY <2>1
    <3>2. CASE i <= Len(p) - n
      <4>1. i \in 1..(Len(p) - n) /\ n + i \in 1..Len(p)  BY <1>2, <1>4, <3>2
      <4> QED  BY <1>4, <2>2, <2>3, <3>1, <4>1
    <3>3. CASE ~(i <= Len(p) - n)
      <4> DEFINE j == i - (Len(p) - n)
      <4>1. j \in 1..Len(r) /\ n + i = Len(p) + j /\ i = Len(b) + j  BY <1>2, <1>4, <2>1, <2>2, <3>3
      <4> HIDE DEF j
      <4> QED  BY <1>4, <2>3, <3>1, <4>1
    <3> QED  BY <3>2, <3>3
  <2>6. a = c  BY <2>1, <2>3, <2>4, <2>5, SamePaths DEF Paths
  <2> QED  BY <2>6 DEF a, b, c
<1>11. EntryAt(f, d, p[n]).path \in Paths /\ Beyond(p, n) \in Paths
  <2>1. p[n] \in Names  BY <1>2 DEF Paths
  <2> QED  BY <1>2, <2>1, EntryFacts, UptoFacts
<1>12. Follow(f, q) = Follow(f, p) \o r
  <2> DEFINE a == EntryAt(f, d, p[n]).path
             b == Beyond(p, n)
  <2>1. (a \o b) \o r = a \o (b \o r)
    <3>1. a \in Paths /\ b \in Paths  BY <1>11
    <3> HIDE DEF a, b
    <3> QED  BY <3>1, JoinedThrice
  <2> QED  BY <1>8, <1>9, <1>10, <2>1
<1> QED  BY <1>7, <1>12 DEF q

\* Names behind a path with something missing change nothing.
LEMMA MissingLong ==
    ASSUME NEW f \in FileSystems, NEW p \in Paths, NEW r \in Paths,
           LinkOn(f, p) = {}, Along(f, p)[Len(p)] = {}
    PROVE  LinkOn(f, p \o r) = {} /\ Along(f, p \o r)[Len(p \o r)] = {}
<1> DEFINE q == p \o r
<1>1. Len(p) \in Nat /\ Len(r) \in Nat /\ q \in Paths /\ Len(q) = Len(p) + Len(r)
      /\ (\A i \in 1..Len(p) : q[i] = p[i])
  BY JoinFacts
<1>2. \A n \in 0..Len(p) : Along(f, q)[n] = Along(f, p)[n]  BY AlongLong
<1> HIDE DEF q
<1>3. Len(p) \in 0..Len(q) /\ Along(f, q)[Len(p)] = {}  BY <1>1, <1>2
<1>4. \A k \in Len(p)..Len(q) : Along(f, q)[k] = {}  BY <1>1, <1>3, AlongEnds
<1>5. ASSUME NEW n \in LinkOn(f, q) PROVE FALSE
  <2>1. PICK c \in Along(f, q)[n - 1] : EntryAt(f, c, q[n]).kind = "link"  BY DEF LinkOn
  <2>2. n \in 1..Len(q)  BY DEF LinkOn
  <2>3. CASE n <= Len(p)
    <3>1. n \in 1..Len(p) /\ n - 1 \in 0..Len(p)  BY <1>1, <2>2, <2>3
    <3>2. n \in LinkOn(f, p)  BY <1>1, <1>2, <2>1, <3>1 DEF LinkOn
    <3> QED  BY <3>2
  <2>4. CASE ~(n <= Len(p))
    <3>1. n - 1 \in Len(p)..Len(q)  BY <1>1, <2>2, <2>4
    <3> QED  BY <1>4, <2>1, <3>1
  <2> QED  BY <2>3, <2>4
<1>6. Along(f, q)[Len(q)] = {}  BY <1>1, <1>4
<1> QED  BY <1>5, <1>6 DEF q

\* A name that is no link puts no link on a path that leads somewhere.
LEMMA NoLinkLong ==
    ASSUME NEW f \in FileSystems, NEW p \in Paths, NEW d, Leads(f, p, d), NEW x \in Names,
           EntryAt(f, d, x).kind # "link"
    PROVE  LinkOn(f, p \o <<x>>) = {}
<1> DEFINE q == p \o <<x>>
<1>0. <<x>> \in Paths /\ Len(<<x>>) = 1 /\ <<x>>[1] = x  BY DEF Paths
<1>1. Len(p) \in Nat /\ q \in Paths /\ Len(q) = Len(p) + 1
      /\ (\A i \in 1..Len(p) : q[i] = p[i]) /\ q[Len(p) + 1] = x
  BY <1>0, JoinFacts
<1>2. \A n \in 0..Len(p) : Along(f, q)[n] = Along(f, p)[n]  BY <1>0, AlongLong
<1> HIDE DEF q
<1>3. LinkOn(f, p) = {} /\ Along(f, p)[Len(p)] = {d}  BY LeadsFacts
<1>5. ASSUME NEW n \in LinkOn(f, q) PROVE FALSE
  <2>1. PICK c \in Along(f, q)[n - 1] : EntryAt(f, c, q[n]).kind = "link"  BY DEF LinkOn
  <2>2. n \in 1..Len(q)  BY DEF LinkOn
  <2>3. CASE n <= Len(p)
    <3>1. n \in 1..Len(p) /\ n - 1 \in 0..Len(p)  BY <1>1, <2>2, <2>3
    <3>2. n \in LinkOn(f, p)  BY <1>1, <1>2, <2>1, <3>1 DEF LinkOn
    <3> QED  BY <1>3, <3>2
  <2>4. CASE ~(n <= Len(p))
    <3>1. n = Len(p) + 1 /\ n - 1 = Len(p) /\ Len(p) \in 0..Len(p)  BY <1>1, <2>2, <2>4
    <3>2. c = d  BY <1>2, <1>3, <2>1, <3>1
    <3> QED  BY <1>1, <2>1, <3>1, <3>2
  <2> QED  BY <2>3, <2>4
<1> QED  BY <1>5 DEF q

-----------------------------------------------------------------------------
(* Resolution *)

\* The paths that resolution goes through, link by link.
IsRun(f, p, g) ==
    /\ g \in [0..MaxLinks -> Paths] /\ g[0] = p
    /\ \A n \in 1..MaxLinks : g[n] = Follow(f, g[n - 1])
    /\ g[MaxLinks] = Followed(f, p)

\* Such a run exists: Followed is where it ends.
LEMMA FollowedRun ==
    ASSUME NEW f \in FileSystems, NEW p \in Paths
    PROVE  \E g : IsRun(f, p, g)
<1> DEFINE N == MaxLinks
           step == [x \in (1..N) \X Paths |-> Follow(f, x[2])]
           Is(after) == after = [n \in 0..N |-> IF n = 0 THEN p ELSE Follow(f, after[n - 1])]
           a == CHOOSE after : Is(after)
<1>1. N \in Nat  BY Lookup
<1>2. Followed(f, p) = a[N]  BY DEF Followed
<1>3. step \in [(1..N) \X Paths -> Paths]
  <2>1. ASSUME NEW x \in (1..N) \X Paths PROVE Follow(f, x[2]) \in Paths
    <3>1. x[2] \in Paths  BY <2>1
    <3> QED  BY <3>1, FollowFacts
  <2> QED  BY <2>1
<1>4. PICK g \in [0..N -> Paths] : Goes(g, p, step, N)
  <2> HIDE DEF step, N
  <2> QED  BY <1>1, <1>3, Unfolds
<1>5. ASSUME NEW n \in 1..N PROVE g[n] = Follow(f, g[n - 1])
  <2>1. n - 1 \in 0..N /\ g[n - 1] \in Paths  BY <1>1, <1>4
  <2>2. <<n, g[n - 1]>> \in (1..N) \X Paths  BY <2>1
  <2>3. g[n] = step[<<n, g[n - 1]>>]  BY <1>4 DEF Goes
  <2>4. <<n, g[n - 1]>>[2] = g[n - 1]  OBVIOUS
  <2> HIDE DEF N
  <2> QED  BY <2>2, <2>3, <2>4
<1>6. Is(g)
  <2> DEFINE h == [n \in 0..N |-> IF n = 0 THEN p ELSE Follow(f, g[n - 1])]
  <2>0. g[0] = p  BY <1>4 DEF Goes
  <2>1. ASSUME NEW n \in 0..N PROVE g[n] = h[n]
    <3>1. CASE n = 0  BY <2>0, <3>1
    <3>2. CASE n # 0
      <4>1. n \in 1..N  BY <1>1, <3>2
      <4> HIDE DEF N
      <4> QED  BY <1>5, <3>2, <4>1
    <3> QED  BY <3>1, <3>2
  <2>2. g = [n \in 0..N |-> g[n]]  BY <1>4
  <2>3. h = [n \in 0..N |-> h[n]]  OBVIOUS
  <2> HIDE DEF h
  <2>4. g = h  BY <2>1, <2>2, <2>3
  <2> QED  BY <2>4 DEF h
<1>7. Is(a)  BY <1>6
<1> HIDE DEF a, step
<1>8. a[0] = p /\ \A n \in 1..N : a[n] = Follow(f, a[n - 1])
  <2> DEFINE h == [n \in 0..N |-> IF n = 0 THEN p ELSE Follow(f, a[n - 1])]
  <2>1. a = h  BY <1>7
  <2>2. 0 \in 0..N /\ \A n \in 1..N : n \in 0..N /\ n # 0  BY <1>1
  <2> HIDE DEF N, Is
  <2>3. h[0] = p /\ \A n \in 1..N : h[n] = Follow(f, a[n - 1])  BY <2>2
  <2> HIDE DEF h
  <2> QED  BY <2>1, <2>3
<1> DEFINE T == {n \in 0..N : a[n] \in Paths}
<1>9. 0 \in T  BY <1>1, <1>8
<1>10. ASSUME NEW k \in 0..N, k \in T, k < N PROVE k + 1 \in T
  <2>1. k + 1 \in 1..N /\ (k + 1) - 1 = k /\ k + 1 \in 0..N  BY <1>1, <1>10
  <2>2. a[k + 1] = Follow(f, a[k]) /\ a[k] \in Paths  BY <1>8, <1>10, <2>1
  <2> QED  BY <2>1, <2>2, FollowFacts
<1> HIDE DEF T
<1>11. 0..N \subseteq T  BY <1>1, <1>9, <1>10, Reaches
<1>12. a \in [0..N -> Paths]
  <2>1. \A n \in 0..N : a[n] \in Paths  BY <1>11 DEF T
  <2>2. a = [n \in 0..N |-> IF n = 0 THEN p ELSE Follow(f, a[n - 1])]  BY <1>7
  <2> DEFINE e(n) == IF n = 0 THEN p ELSE Follow(f, a[n - 1])
  <2>3. a = [n \in 0..N |-> e(n)]  BY <2>2
  <2> HIDE DEF e, N, Is
  <2>4. \A n \in 0..N : a[n] = e(n)  BY <2>3
  <2>5. \A n \in 0..N : e(n) \in Paths  BY <2>1, <2>4
  <2> QED  BY <2>3, <2>5
<1> QED  BY <1>2, <1>8, <1>12 DEF IsRun

\* Once there is no link, the run stays where it is.
LEMMA RunRests ==
    ASSUME NEW f \in FileSystems, NEW p \in Paths, NEW g, IsRun(f, p, g),
           NEW n \in 0..MaxLinks, LinkOn(f, g[n]) = {}
    PROVE  Followed(f, p) = g[n]
<1> DEFINE T == {k \in 0..MaxLinks : k >= n => g[k] = g[n]}
<1>0. MaxLinks \in Nat  BY Lookup
<1>1. 0 \in T  BY <1>0
<1>2. ASSUME NEW k \in 0..MaxLinks, k \in T, k < MaxLinks PROVE k + 1 \in T
  <2>1. k + 1 \in 1..MaxLinks /\ (k + 1) - 1 = k /\ k + 1 \in 0..MaxLinks  BY <1>0, <1>2
  <2>2. g[k + 1] = Follow(f, g[k])  BY <2>1 DEF IsRun
  <2>3. CASE k >= n
    <3>1. g[k] = g[n] /\ g[n] \in Paths  BY <1>2, <2>3 DEF IsRun
    <3> QED  BY <2>1, <2>2, <3>1, FollowFacts
  <2>4. CASE ~(k >= n)
    <3>1. k + 1 >= n => k + 1 = n  BY <2>4
    <3> QED  BY <2>1, <3>1
  <2> QED  BY <2>3, <2>4
<1> HIDE DEF T
<1>3. 0..MaxLinks \subseteq T  BY <1>0, <1>1, <1>2, Reaches
<1>4. MaxLinks \in 0..MaxLinks /\ MaxLinks >= n  BY <1>0
<1>5. g[MaxLinks] = g[n]  BY <1>3, <1>4 DEF T
<1> QED  BY <1>5 DEF IsRun

\* What the answers of a resolution say.
LEMMA ResolveFacts ==
    ASSUME NEW f \in FileSystems, NEW p \in Paths
    PROVE  /\ Resolve(f, p).path = Followed(f, p) /\ Followed(f, p) \in Paths
           /\ Resolve(f, p).dir \in Dirs /\ Resolve(f, p).status \in {"found", "missing", "cycle"}
           /\ Resolve(f, p) = Answer(Resolve(f, p).status, Resolve(f, p).path, Resolve(f, p).dir)
           /\ Resolve(f, p).status = "cycle" <=> LinkOn(f, Followed(f, p)) # {}
           /\ Resolve(f, p).status = "found" => Leads(f, Followed(f, p), Resolve(f, p).dir)
           /\ Resolve(f, p).status = "missing" <=>
                LinkOn(f, Followed(f, p)) = {} /\ Along(f, Followed(f, p))[Len(Followed(f, p))] = {}
<1> DEFINE end == Followed(f, p)
           dirs == Along(f, end)[Len(end)]
<1>1. end \in Paths
  <2>1. PICK g : IsRun(f, p, g)  BY FollowedRun
  <2>2. MaxLinks \in 0..MaxLinks  BY Lookup
  <2> QED  BY <2>1, <2>2 DEF IsRun
<1>2. dirs \subseteq Dirs
  <2>1. Len(end) \in 0..Len(end)  BY <1>1, EmptyPath
  <2> HIDE DEF end
  <2> QED  BY <1>1, <2>1, AlongSteps
<1>3. Resolve(f, p) = IF LinkOn(f, end) # {} THEN Answer("cycle", end, Root)
                      ELSE IF dirs = {} THEN Answer("missing", end, Root)
                      ELSE Answer("found", end, CHOOSE d \in dirs : TRUE)
  BY DEF Resolve, AnswerAt
<1>4. dirs # {} => (CHOOSE d \in dirs : TRUE) \in dirs  OBVIOUS
<1> DEFINE c == CHOOSE d \in dirs : TRUE
<1>5. c \in Dirs \/ dirs = {}  BY <1>2, <1>4
<1> HIDE DEF end, dirs, c
<1>6. Resolve(f, p) = IF LinkOn(f, end) # {} THEN Answer("cycle", end, Root)
                      ELSE IF dirs = {} THEN Answer("missing", end, Root)
                      ELSE Answer("found", end, c)
  BY <1>3 DEF c
<1>7. dirs # {} => c \in dirs  BY <1>4 DEF c
<1>8. LinkOn(f, end) = {} /\ dirs # {} => Leads(f, end, c)  BY <1>7 DEF Leads, dirs
<1>9. CASE LinkOn(f, end) # {}
  <2>1. Resolve(f, p) = [status |-> "cycle", path |-> end, dir |-> Root]  BY <1>6, <1>9 DEF Answer
  <2> QED  BY <1>1, <1>9, <2>1, Lookup DEF Answer, end
<1>10. CASE LinkOn(f, end) = {} /\ dirs = {}
  <2>1. Resolve(f, p) = [status |-> "missing", path |-> end, dir |-> Root]  BY <1>6, <1>10 DEF Answer
  <2> QED  BY <1>1, <1>10, <2>1, Lookup DEF Answer, end, dirs
<1>11. CASE LinkOn(f, end) = {} /\ dirs # {}
  <2>1. Resolve(f, p) = [status |-> "found", path |-> end, dir |-> c]  BY <1>6, <1>11 DEF Answer
  <2> QED  BY <1>1, <1>5, <1>8, <1>11, <2>1 DEF Answer, end, dirs
<1> QED  BY <1>9, <1>10, <1>11

\* A path that leads somewhere is resolved to itself.
LEMMA LeadsResolves ==
    ASSUME NEW f \in FileSystems, NEW p \in Paths, NEW d, Leads(f, p, d)
    PROVE  Found(f, p) /\ Resolve(f, p).path = p /\ Resolve(f, p).dir = d
<1>1. PICK g : IsRun(f, p, g)  BY FollowedRun
<1>2. 0 \in 0..MaxLinks /\ g[0] = p  BY <1>1, Lookup DEF IsRun
<1>3. LinkOn(f, p) = {} /\ Along(f, p)[Len(p)] = {d} /\ \A e : Leads(f, p, e) => e = d  BY LeadsFacts
<1>4. Followed(f, p) = p  BY <1>1, <1>2, <1>3, RunRests
<1>5. Resolve(f, p).status = "found"  BY <1>3, <1>4, ResolveFacts
<1> QED  BY <1>3, <1>4, <1>5, ResolveFacts DEF Found

\* What resolution makes of a path with more names behind it.
LEMMA FollowedLong ==
    ASSUME NEW f \in FileSystems, NEW p \in Paths, NEW r \in Paths,
           LinkOn(f, Followed(f, p)) # {} \/ LinkOn(f, Followed(f, p) \o r) = {}
    PROVE  Followed(f, p \o r) = Followed(f, p) \o r
<1>0. MaxLinks \in Nat /\ p \o r \in Paths  BY Lookup, JoinFacts
<1>1. PICK g : IsRun(f, p, g)  BY FollowedRun
<1>2. PICK h : IsRun(f, p \o r, h)  BY <1>0, FollowedRun
<1> DEFINE T == {n \in 0..MaxLinks : h[n] = g[n] \o r}
<1>3. 0 \in T  BY <1>0, <1>1, <1>2 DEF IsRun
<1>4. ASSUME NEW k \in 0..MaxLinks, k \in T, k < MaxLinks PROVE k + 1 \in T
  <2>1. k + 1 \in 1..MaxLinks /\ (k + 1) - 1 = k /\ k + 1 \in 0..MaxLinks  BY <1>0, <1>4
  <2>2. g[k + 1] = Follow(f, g[k]) /\ h[k + 1] = Follow(f, h[k])  BY <1>1, <1>2, <2>1 DEF IsRun
  <2>3. h[k] = g[k] \o r /\ g[k] \in Paths  BY <1>1, <1>4 DEF IsRun
  <2>4. CASE LinkOn(f, g[k]) # {}
    <3>1. Follow(f, g[k] \o r) = Follow(f, g[k]) \o r  BY <2>3, <2>4, FollowLong
    <3> QED  BY <2>1, <2>2, <2>3, <3>1
  <2>5. CASE LinkOn(f, g[k]) = {}
    <3>1. Followed(f, p) = g[k]  BY <1>1, <2>5, RunRests
    <3>2. LinkOn(f, g[k] \o r) = {}  BY <2>5, <3>1
    <3>3. g[k] \o r \in Paths  BY <2>3, JoinFacts
    <3>4. Follow(f, g[k]) = g[k] /\ Follow(f, g[k] \o r) = g[k] \o r  BY <2>3, <2>5, <3>2, <3>3, FollowFacts
    <3> QED  BY <2>1, <2>2, <2>3, <3>4
  <2> QED  BY <2>4, <2>5
<1> HIDE DEF T
<1>5. 0..MaxLinks \subseteq T  BY <1>0, <1>3, <1>4, Reaches
<1>6. MaxLinks \in T  BY <1>0, <1>5
<1> QED  BY <1>1, <1>2, <1>6 DEF T, IsRun

\* What comes first on a path that is found is found.
LEMMA FoundFirst ==
    ASSUME NEW f \in FileSystems, NEW p \in Paths, NEW r \in Paths, Found(f, p \o r)
    PROVE  Found(f, p)
<1> DEFINE end == Followed(f, p)
<1>0. end \in Paths /\ p \o r \in Paths  BY ResolveFacts, JoinFacts
<1>1. CASE LinkOn(f, end) # {}
  <2>1. Followed(f, p \o r) = end \o r  BY <1>1, FollowedLong
  <2>2. LinkOn(f, end \o r) # {}  BY <1>0, <1>1, FollowLong
  <2>3. Resolve(f, p \o r).status = "cycle"  BY <1>0, <2>1, <2>2, ResolveFacts
  <2> QED  BY <2>3 DEF Found
<1>2. CASE LinkOn(f, end) = {} /\ Along(f, end)[Len(end)] = {}
  <2>1. LinkOn(f, end \o r) = {} /\ Along(f, end \o r)[Len(end \o r)] = {}  BY <1>0, <1>2, MissingLong
  <2>2. Followed(f, p \o r) = end \o r  BY <2>1, FollowedLong
  <2>3. Resolve(f, p \o r).status = "missing"  BY <1>0, <2>1, <2>2, ResolveFacts
  <2> QED  BY <2>3 DEF Found
<1>3. CASE LinkOn(f, end) = {} /\ Along(f, end)[Len(end)] # {}
  <2>1. Resolve(f, p).status = "found"  BY <1>3, ResolveFacts
  <2> QED  BY <2>1 DEF Found
<1> QED  BY <1>1, <1>2, <1>3

\* The paths that links make of a path, however many it takes.
Trail(f, p) ==
    {q \in Paths : \A T \in SUBSET Paths : p \in T /\ (\A t \in T : Follow(f, t) \in T) => q \in T}

\* A trail is the least set with the path and what following makes of it.
LEMMA TrailFacts ==
    ASSUME NEW f \in FileSystems, NEW p \in Paths
    PROVE  /\ Trail(f, p) \in SUBSET Paths /\ p \in Trail(f, p)
           /\ \A t \in Trail(f, p) : Follow(f, t) \in Trail(f, p)
           /\ \A T \in SUBSET Paths : p \in T /\ (\A t \in T : Follow(f, t) \in T) => Trail(f, p) \subseteq T
BY FollowFacts DEF Trail

\* Resolution ends on the trail.
LEMMA TrailFollowed ==
    ASSUME NEW f \in FileSystems, NEW p \in Paths
    PROVE  Followed(f, p) \in Trail(f, p)
<1>0. MaxLinks \in Nat  BY Lookup
<1>1. PICK g : IsRun(f, p, g)  BY FollowedRun
<1> DEFINE T == {n \in 0..MaxLinks : g[n] \in Trail(f, p)}
<1>2. 0 \in T  BY <1>0, <1>1, TrailFacts DEF IsRun
<1>3. ASSUME NEW k \in 0..MaxLinks, k \in T, k < MaxLinks PROVE k + 1 \in T
  <2>1. k + 1 \in 1..MaxLinks /\ (k + 1) - 1 = k /\ k + 1 \in 0..MaxLinks  BY <1>0, <1>3
  <2>2. g[k + 1] = Follow(f, g[k])  BY <1>1, <2>1 DEF IsRun
  <2> QED  BY <1>3, <2>1, <2>2, TrailFacts
<1> HIDE DEF T
<1>4. 0..MaxLinks \subseteq T  BY <1>0, <1>2, <1>3, Reaches
<1>5. MaxLinks \in T  BY <1>0, <1>4
<1> QED  BY <1>1, <1>5 DEF T, IsRun

\* The trail of a path on it is part of it.
LEMMA TrailGoesOn ==
    ASSUME NEW f \in FileSystems, NEW p \in Paths, NEW q \in Trail(f, p)
    PROVE  Trail(f, q) \subseteq Trail(f, p)
<1>1. q \in Paths /\ Trail(f, p) \in SUBSET Paths /\ \A t \in Trail(f, p) : Follow(f, t) \in Trail(f, p)
  BY TrailFacts
<1> QED  BY <1>1, TrailFacts

\* Names behind a path stay behind what links make of it.
LEMMA TrailLong ==
    ASSUME NEW f \in FileSystems, NEW p \in Paths, NEW r \in Paths, NEW q \in Trail(f, p)
    PROVE  q \o r \in Trail(f, p \o r)
<1> DEFINE T == {t \in Paths : t \o r \in Trail(f, p \o r)}
<1>0. p \o r \in Paths  BY JoinFacts
<1>1. p \in T  BY <1>0, TrailFacts
<1>2. ASSUME NEW t \in T PROVE Follow(f, t) \in T
  <2>1. t \in Paths /\ t \o r \in Trail(f, p \o r)  OBVIOUS
  <2>2. CASE LinkOn(f, t) = {}  BY <2>1, <2>2, FollowFacts
  <2>3. CASE LinkOn(f, t) # {}
    <3>1. Follow(f, t \o r) = Follow(f, t) \o r  BY <2>1, <2>3, FollowLong
    <3>2. Follow(f, t \o r) \in Trail(f, p \o r)  BY <1>0, <2>1, TrailFacts
    <3> QED  BY <2>1, <3>1, <3>2, FollowFacts
  <2> QED  BY <2>2, <2>3
<1> HIDE DEF T
<1>3. T \in SUBSET Paths  BY DEF T
<1>4. q \in T  BY <1>1, <1>2, <1>3, TrailFacts
<1> QED  BY <1>4 DEF T

\* It ends in one path without links.
LEMMA TrailEnds ==
    ASSUME NEW f \in FileSystems, NEW p \in Paths, NEW q \in Trail(f, p), NEW r \in Trail(f, p),
           LinkOn(f, q) = {}, LinkOn(f, r) = {}
    PROVE  q = r
<1>0. q \in Paths /\ r \in Paths  BY TrailFacts
<1> DEFINE T == {t \in Paths : q \in Trail(f, t)}
<1>1. p \in T  OBVIOUS
<1>2. ASSUME NEW t \in T PROVE Follow(f, t) \in T
  <2> DEFINE next == Follow(f, t)
             U == {t} \cup Trail(f, next)
  <2>1. t \in Paths /\ q \in Trail(f, t) /\ next \in Paths  BY FollowFacts
  <2>2. Trail(f, next) \in SUBSET Paths /\ next \in Trail(f, next)
        /\ \A u \in Trail(f, next) : Follow(f, u) \in Trail(f, next)
    BY <2>1, TrailFacts
  <2>3. U \in SUBSET Paths /\ t \in U /\ \A u \in U : Follow(f, u) \in U  BY <2>1, <2>2
  <2> HIDE DEF U
  <2>4. q \in U  BY <2>1, <2>3, TrailFacts
  <2>5. CASE q = t
    <3>1. next = q  BY <1>0, <2>5, FollowFacts
    <3> QED  BY <1>0, <2>2, <3>1
  <2>6. CASE q # t  BY <2>1, <2>4, <2>6 DEF U
  <2> QED  BY <2>5, <2>6
<1> HIDE DEF T
<1>3. T \in SUBSET Paths  BY DEF T
<1>4. r \in T  BY <1>1, <1>2, <1>3, TrailFacts
<1>5. q \in Trail(f, r)  BY <1>4 DEF T
<1>6. Follow(f, r) = r  BY <1>0, FollowFacts
<1>7. {r} \in SUBSET Paths /\ r \in {r} /\ \A t \in {r} : Follow(f, t) \in {r}  BY <1>0, <1>6
<1>8. Trail(f, r) \subseteq {r}  BY <1>0, <1>7, TrailFacts
<1> QED  BY <1>5, <1>8

-----------------------------------------------------------------------------
(* Canonical paths *)

\* The canonical form of a path: its longest part that is not missing is
\* resolved, and the other names follow.
LEMMA CanonFacts ==
    ASSUME NEW f \in FileSystems, NEW p \in Paths
    PROVE  \E n \in 0..Len(p) :
             /\ Upto(p, n) \in Paths /\ Beyond(p, n) \in Paths
             /\ Resolve(f, Upto(p, n)).status # "missing"
             /\ \A m \in 0..Len(p) : m > n => Resolve(f, Upto(p, m)).status = "missing"
             /\ Canon(f, p) = Resolve(f, Upto(p, n)).path \o Beyond(p, n)
             /\ Canon(f, p) \in Paths
             /\ Resolves(f, p) <=> Found(f, Upto(p, n))
<1> DEFINE S == {n \in 0..Len(p) : Resolve(f, Upto(p, n)).status # "missing"}
<1>0. Len(p) \in Nat /\ 0 \in 0..Len(p)  BY EmptyPath
<1>1. 0 \in S
  <2>1. Upto(p, 0) \in Paths /\ Len(Upto(p, 0)) = 0  BY <1>0, UptoFacts
  <2>2. Upto(p, 0) = <<>>  BY <2>1, EmptyPath
  <2>3. Leads(f, <<>>, Root)  BY LeadsNowhere
  <2>4. Found(f, <<>>)  BY <2>3, EmptyPath, LeadsResolves
  <2> QED  BY <1>0, <2>2, <2>4 DEF Found
<1>2. PICK n \in S : (\A m \in S : m <= n) /\ Longest(p, S) = Upto(p, n)
  <2>1. S \in SUBSET (0..Len(p)) /\ S # {}  BY <1>1
  <2> HIDE DEF S
  <2> QED  BY <2>1, LongestFacts
<1>3. n \in 0..Len(p) /\ Resolve(f, Upto(p, n)).status # "missing"  OBVIOUS
<1>4. ASSUME NEW m \in 0..Len(p), m > n PROVE Resolve(f, Upto(p, m)).status = "missing"
  <2>1. m \notin S
    <3>1. SUFFICES ASSUME m \in S PROVE FALSE  OBVIOUS
    <3>2. m <= n  BY <1>2, <3>1
    <3> QED  BY <1>3, <1>4, <3>2
  <2> QED  BY <2>1
<1>5. Standing(f, p) = Upto(p, n)  BY <1>2 DEF Standing
<1>6. Upto(p, n) \in Paths /\ Beyond(p, n) \in Paths /\ Len(Upto(p, n)) = n  BY <1>3, UptoFacts
<1> DEFINE q == Upto(p, n)
           r == Resolve(f, q)
<1>7. CanonPathOrTextual(f, p) = [r EXCEPT !.path = @ \o Beyond(p, n)]  BY <1>5, <1>6 DEF CanonPathOrTextual
<1>8. r = Answer(r.status, r.path, r.dir) /\ r.path \in Paths /\ r.status \in {"found", "missing", "cycle"}
  BY <1>6, ResolveFacts
<1> HIDE DEF r
<1>9. CanonPathOrTextual(f, p).path = r.path \o Beyond(p, n) /\ CanonPathOrTextual(f, p).status = r.status
  BY <1>7, <1>8 DEF Answer
<1>10. Canon(f, p) = r.path \o Beyond(p, n) /\ Canon(f, p) \in Paths  BY <1>6, <1>8, <1>9, JoinFacts DEF Canon
<1>11. Resolves(f, p) <=> Found(f, q)
  <2>1. r.status # "missing"  BY <1>3 DEF r
  <2>2. Found(f, q) <=> r.status = "found"  BY DEF Found, r
  <2> QED  BY <1>8, <1>9, <2>1, <2>2 DEF Resolves
<1> QED  BY <1>3, <1>4, <1>6, <1>10, <1>11 DEF r

\* The canonical path of what is found leads there without links.
LEMMA CanonFound ==
    ASSUME NEW f \in FileSystems, NEW p \in Paths, Found(f, p)
    PROVE  Resolves(f, p) /\ Canon(f, p) = Resolve(f, p).path /\ Leads(f, Canon(f, p), Resolve(f, p).dir)
<1>0. Len(p) \in Nat /\ Len(p) \in 0..Len(p)  BY EmptyPath
<1>1. PICK n \in 0..Len(p) :
             /\ \A m \in 0..Len(p) : m > n => Resolve(f, Upto(p, m)).status = "missing"
             /\ Canon(f, p) = Resolve(f, Upto(p, n)).path \o Beyond(p, n)
             /\ Resolves(f, p) <=> Found(f, Upto(p, n))
  BY CanonFacts
<1>2. Upto(p, Len(p)) = p /\ Beyond(p, Len(p)) = <<>>  BY NoMore
<1>3. n = Len(p)
  <2>1. SUFFICES ASSUME n # Len(p) PROVE FALSE  OBVIOUS
  <2>2. Len(p) > n  BY <1>0, <2>1
  <2>3. Resolve(f, p).status = "missing"  BY <1>0, <1>1, <1>2, <2>2
  <2> QED  BY <2>3 DEF Found
<1>4. Resolve(f, p).path \in Paths /\ Leads(f, Resolve(f, p).path, Resolve(f, p).dir)  BY ResolveFacts DEF Found
<1>5. Canon(f, p) = Resolve(f, p).path  BY <1>1, <1>2, <1>3, <1>4, NoMore
<1> QED  BY <1>1, <1>2, <1>3, <1>4, <1>5

\* A canonical path that is found has no link on it: a root that is missing
\* keeps the names behind what exists, and those lead nowhere.
LEMMA CanonLeads ==
    ASSUME NEW f \in FileSystems, NEW p \in Paths, Resolves(f, p), Found(f, Canon(f, p))
    PROVE  Leads(f, Canon(f, p), Resolve(f, Canon(f, p)).dir)
<1>0. Len(p) \in Nat /\ Len(p) \in 0..Len(p)  BY EmptyPath
<1>1. PICK n \in 0..Len(p) :
             /\ Upto(p, n) \in Paths /\ Beyond(p, n) \in Paths
             /\ \A m \in 0..Len(p) : m > n => Resolve(f, Upto(p, m)).status = "missing"
             /\ Canon(f, p) = Resolve(f, Upto(p, n)).path \o Beyond(p, n)
             /\ Resolves(f, p) <=> Found(f, Upto(p, n))
  BY CanonFacts
<1> DEFINE s == Upto(p, n)
           end == Resolve(f, s).path
<1>2. Found(f, s) /\ end = Followed(f, s) /\ end \in Paths /\ Leads(f, end, Resolve(f, s).dir)
  BY <1>1, ResolveFacts DEF Found
<1>3. CASE n = Len(p)
  <2>1. s = p /\ Found(f, p)  BY <1>2, <1>3, NoMore
  <2>2. Leads(f, Canon(f, p), Resolve(f, p).dir)  BY <2>1, CanonFound
  <2>3. Canon(f, p) \in Paths  BY CanonFacts
  <2> QED  BY <2>2, <2>3, LeadsResolves
<1>4. CASE n # Len(p)
  <2>1. n + 1 \in 0..Len(p) /\ n + 1 > n /\ n + 1 \in 1..Len(p)  BY <1>0, <1>4
  <2> DEFINE x == p[n + 1]
             t == s \o <<x>>
             rest == Beyond(p, n + 1)
  <2>2. x \in Names /\ <<x>> \in Paths /\ Len(<<x>>) = 1 /\ <<x>>[1] = x  BY <2>1 DEF Paths
  <2>3. Upto(p, n + 1) = t
    <3>1. /\ Upto(p, n + 1) \in Paths /\ Len(Upto(p, n + 1)) = n + 1
          /\ \A i \in 1..(n + 1) : Upto(p, n + 1)[i] = p[i]
      BY <2>1, UptoFacts
    <3>2. s \in Paths /\ Len(s) = n /\ \A i \in 1..n : s[i] = p[i]  BY UptoFacts
    <3> HIDE DEF s, x
    <3>3. t \in Paths /\ Len(t) = n + 1 /\ (\A i \in 1..n : t[i] = s[i]) /\ t[n + 1] = x
      <4>1. /\ t \in Paths /\ Len(t) = Len(s) + Len(<<x>>) /\ \A i \in 1..Len(s) : t[i] = s[i]
            /\ \A i \in 1..Len(<<x>>) : t[Len(s) + i] = <<x>>[i]
        BY <2>2, <3>2, JoinFacts
      <4> HIDE DEF t
      <4> QED  BY <2>2, <3>2, <4>1
    <3> HIDE DEF t
    <3>4. ASSUME NEW i \in 1..(n + 1) PROVE Upto(p, n + 1)[i] = t[i]
      <4>1. CASE i \in 1..n  BY <3>1, <3>2, <3>3, <4>1
      <4>2. CASE i \notin 1..n
        <5>1. i = n + 1  BY <4>2
        <5> QED  BY <3>1, <3>3, <5>1 DEF x
      <4> QED  BY <4>1, <4>2
    <3> QED  BY <3>1, <3>3, <3>4, SamePaths DEF Paths
  <2>4. Beyond(p, n) = <<x>> \o rest
    <3>1. /\ Beyond(p, n) \in Paths /\ Len(Beyond(p, n)) = Len(p) - n
          /\ \A i \in 1..(Len(p) - n) : Beyond(p, n)[i] = p[n + i]
      BY UptoFacts
    <3>2. /\ rest \in Paths /\ Len(rest) = Len(p) - (n + 1)
          /\ \A i \in 1..(Len(p) - (n + 1)) : rest[i] = p[(n + 1) + i]
      BY <2>1, UptoFacts
    <3> DEFINE b == <<x>> \o rest
               a == Beyond(p, n)
    <3> HIDE DEF x, rest
    <3>3. /\ b \in Paths /\ Len(b) = 1 + Len(rest) /\ b[1] = x
          /\ \A i \in 1..Len(rest) : b[1 + i] = rest[i]
      <4>1. /\ b \in Paths /\ Len(b) = Len(<<x>>) + Len(rest) /\ \A i \in 1..Len(<<x>>) : b[i] = <<x>>[i]
            /\ \A i \in 1..Len(rest) : b[Len(<<x>>) + i] = rest[i]
        BY <2>2, <3>2, JoinFacts
      <4> HIDE DEF b
      <4> QED  BY <2>2, <4>1
    <3> HIDE DEF b, a
    <3>4. Len(a) = Len(b)  BY <1>0, <2>1, <3>1, <3>2, <3>3 DEF a
    <3>5. ASSUME NEW i \in 1..Len(a) PROVE a[i] = b[i]
      <4>1. a[i] = p[n + i]  BY <3>1 DEF a
      <4>2. CASE i = 1  BY <3>3, <4>1, <4>2 DEF x
      <4>3. CASE i # 1
        <5>1. PICK j \in 1..Len(rest) : i = 1 + j
          <6>1. Len(a) \in Nat /\ Len(a) = 1 + Len(rest)  BY <1>0, <3>1, <3>2, <3>3, <3>4 DEF a
          <6>2. i - 1 \in 1..Len(rest) /\ i = 1 + (i - 1)  BY <3>2, <4>3, <6>1, EmptyPath
          <6> QED  BY <6>2
        <5>2. n + i = (n + 1) + j  BY <5>1
        <5>3. rest[j] = p[(n + 1) + j]  BY <3>2, <5>1
        <5> QED  BY <3>3, <4>1, <5>1, <5>2, <5>3
      <4> QED  BY <4>2, <4>3
    <3>6. a \in Paths  BY <3>1 DEF a
    <3>7. a = b  BY <3>3, <3>4, <3>5, <3>6, SamePaths DEF Paths
    <3> QED  BY <3>7 DEF a, b
  <2>5. rest \in Paths  BY <2>1, UptoFacts
  <2>6. Resolve(f, t).status = "missing"  BY <1>1, <2>1, <2>3
  <2> HIDE DEF s, x, t, rest
  <2>7. end \o <<x>> \in Paths  BY <1>2, <2>2, JoinFacts
  <2>8. Canon(f, p) = (end \o <<x>>) \o rest
    <3>1. Canon(f, p) = end \o (<<x>> \o rest)  BY <1>1, <2>4 DEF s
    <3> HIDE DEF end
    <3> QED  BY <1>2, <2>2, <2>5, <3>1, JoinedThrice
  <2> HIDE DEF end
  <2>9. Found(f, end \o <<x>>)  BY <2>5, <2>7, <2>8, FoundFirst
  <2> DEFINE q == Followed(f, end \o <<x>>)
  <2>10. q \in Trail(f, t)
    <3>1. s \in Paths /\ end \in Trail(f, s)  BY <1>1, <1>2, TrailFollowed DEF s
    <3>2. end \o <<x>> \in Trail(f, t)  BY <2>2, <3>1, TrailLong DEF t
    <3>3. t \in Paths  BY <2>2, <3>1, JoinFacts DEF t
    <3>4. q \in Trail(f, end \o <<x>>)  BY <2>7, TrailFollowed
    <3> HIDE DEF q
    <3> QED  BY <3>2, <3>3, <3>4, TrailGoesOn
  <2>11. t \in Paths
    <3>1. s \in Paths  BY <1>1 DEF s
    <3> QED  BY <2>2, <3>1, JoinFacts DEF t
  <2>12. Followed(f, t) \in Trail(f, t) /\ LinkOn(f, Followed(f, t)) = {}
         /\ Along(f, Followed(f, t))[Len(Followed(f, t))] = {}
    BY <2>6, <2>11, TrailFollowed, ResolveFacts
  <2>13. q \in Paths /\ LinkOn(f, q) = {} /\ Leads(f, q, Resolve(f, end \o <<x>>).dir)
    <3>1. q \in Paths /\ Leads(f, q, Resolve(f, end \o <<x>>).dir)  BY <2>7, <2>9, ResolveFacts DEF Found
    <3> HIDE DEF q
    <3> QED  BY <3>1, LeadsFacts
  <2> HIDE DEF q
  <2>14. q = Followed(f, t)  BY <2>10, <2>11, <2>12, <2>13, TrailEnds
  <2> QED  BY <2>12, <2>13, <2>14 DEF Leads
<1> QED  BY <1>3, <1>4

\* One name behind a path that is found, where there is no link.
LEMMA CanonNext ==
    ASSUME NEW f \in FileSystems, NEW p \in Paths, Found(f, p), NEW x \in Names,
           EntryAt(f, Resolve(f, p).dir, x).kind # "link"
    PROVE  /\ Canon(f, p \o <<x>>) = Resolve(f, p).path \o <<x>>
           /\ Leads(f, Resolve(f, p).path, Resolve(f, p).dir) /\ Resolve(f, p).path \in Paths
<1> DEFINE end == Followed(f, p)
           d == Resolve(f, p).dir
           q == p \o <<x>>
<1>1. Resolve(f, p).path = end /\ end \in Paths /\ Leads(f, end, d) /\ d \in Dirs  BY ResolveFacts DEF Found
<1>2. <<x>> \in Paths /\ Len(<<x>>) = 1 /\ q \in Paths /\ Len(q) = Len(p) + 1 /\ Len(p) \in Nat
      /\ \A i \in 1..Len(p) : q[i] = p[i]
  <2>1. <<x>> \in Paths /\ Len(<<x>>) = 1  BY DEF Paths
  <2> QED  BY <2>1, JoinFacts
<1>3. LinkOn(f, end \o <<x>>) = {}
  <2> HIDE DEF end, d
  <2>1. EntryAt(f, d, x).kind # "link"  BY DEF d
  <2> QED  BY <1>1, <2>1, NoLinkLong
<1>4. Followed(f, q) = end \o <<x>>  BY <1>2, <1>3, FollowedLong
<1> HIDE DEF end, q
<1>5. Resolve(f, q).status # "cycle" /\ Resolve(f, q).path = end \o <<x>>
      /\ Resolve(f, q).status \in {"found", "missing", "cycle"}
  BY <1>2, <1>3, <1>4, ResolveFacts
<1>6. Canon(f, q) = end \o <<x>>
  <2>1. CASE Found(f, q)  BY <1>2, <1>5, <2>1, CanonFound
  <2>2. CASE ~Found(f, q)
    <3>1. Resolve(f, q).status = "missing"  BY <1>5, <2>2 DEF Found
    <3>2. PICK n \in 0..Len(q) :
             /\ Resolve(f, Upto(q, n)).status # "missing"
             /\ \A m \in 0..Len(q) : m > n => Resolve(f, Upto(q, m)).status = "missing"
             /\ Canon(f, q) = Resolve(f, Upto(q, n)).path \o Beyond(q, n)
      BY <1>2, CanonFacts
    <3>3. n # Len(q)  BY <1>2, <3>1, <3>2, NoMore
    <3>4. Len(p) \in 0..Len(q)  BY <1>2
    <3>5. Upto(q, Len(p)) = p /\ Beyond(q, Len(p)) = <<x>>
      <4>1. /\ Upto(q, Len(p)) \in Paths /\ Len(Upto(q, Len(p))) = Len(p)
            /\ \A i \in 1..Len(p) : Upto(q, Len(p))[i] = q[i]
            /\ Beyond(q, Len(p)) \in Paths /\ Len(Beyond(q, Len(p))) = Len(q) - Len(p)
            /\ \A i \in 1..(Len(q) - Len(p)) : Beyond(q, Len(p))[i] = q[Len(p) + i]
        BY <1>2, <3>4, UptoFacts
      <4>2. Len(q) - Len(p) = 1 /\ 1 \in 1..1  BY <1>2
      <4>3. q[Len(p) + 1] = x
        <5>1. (p \o <<x>>)[Len(p) + 1] = <<x>>[1]  BY <1>2, JoinFacts
        <5> QED  BY <5>1 DEF q
      <4>4. Upto(q, Len(p)) = p  BY <1>2, <4>1, SamePaths DEF Paths
      <4>5. Len(Beyond(q, Len(p))) = Len(<<x>>) /\ Beyond(q, Len(p))[1] = <<x>>[1]  BY <1>2, <4>1, <4>2, <4>3
      <4>6. \A i \in 1..1 : Beyond(q, Len(p))[i] = <<x>>[i]  BY <4>5
      <4>7. Beyond(q, Len(p)) = <<x>>  BY <1>2, <4>1, <4>5, <4>6, SamePaths DEF Paths
      <4> QED  BY <4>4, <4>7
    <3>6. Resolve(f, p).status # "missing"  BY DEF Found
    <3>7. n = Len(p)
      <4>1. ~(Len(p) > n)  BY <3>2, <3>4, <3>5, <3>6
      <4> QED  BY <1>2, <3>3, <4>1
    <3> QED  BY <1>1, <3>2, <3>5, <3>7
  <2> QED  BY <2>1, <2>2
<1> QED  BY <1>1, <1>6 DEF q

-----------------------------------------------------------------------------
(* What the guard's checks tell *)

\* Of two paths accepted as disjoint neither starts with the other.
LEMMA DisjointFacts ==
    ASSUME NEW f \in FileSystems, NEW s \in Paths, NEW o \in Paths, Disjoint(f, s, o)
    PROVE  ~Starts(f, s, o) /\ ~Starts(f, o, s)
BY StartsIsPrefix DEF Disjoint, Inside

\* A canonical path is the same as one that leads somewhere only by its names.
LEMMA SameNames ==
    ASSUME NEW f \in FileSystems, Forest(f), NEW p \in Paths, Resolves(f, p),
           NEW c \in Paths, NEW d, Leads(f, c, d), SamePath(f, Canon(f, p), c)
    PROVE  FoldPath(f, Canon(f, p)) = FoldPath(f, c)
<1>1. Canon(f, p) \in Paths  BY CanonFacts
<1>2. CASE SameFile(f, Canon(f, p), c)
  <2>1. Leads(f, Canon(f, p), Resolve(f, Canon(f, p)).dir)  BY <1>2, CanonLeads DEF SameFile
  <2>2. Resolve(f, c).dir = d  BY LeadsResolves
  <2>3. Leads(f, Canon(f, p), d)  BY <1>2, <2>1, <2>2 DEF SameFile
  <2> QED  BY <1>1, <2>3, OnePath
<1> QED  BY <1>2 DEF SamePath

\* The guard tells real directories apart.
THEOREM AcceptedApart ==
    ASSUME NEW f \in FileSystems, Forest(f), NEW s \in Paths, NEW o \in Paths, RootsAccepted(f, s, o)
    PROVE  LET lengths == {n \in 0..Len(o) : Found(f, Upto(o, n))}
               nearest == Resolve(f, Longest(o, lengths)).dir
           IN  /\ nearest \notin RealDirs(f, s)
               /\ Found(f, s) => Resolve(f, s).dir \notin RealDirs(f, o)
<1> DEFINE lengths == {n \in 0..Len(o) : Found(f, Upto(o, n))}
           nearest == Resolve(f, Longest(o, lengths)).dir
<1>0. Len(o) \in Nat /\ Canon(f, s) \in Paths /\ Canon(f, o) \in Paths  BY EmptyPath, CanonFacts
<1>1. Resolves(f, s) /\ Resolves(f, o)
      /\ ~Starts(f, Canon(f, s), Canon(f, o)) /\ ~Starts(f, Canon(f, o), Canon(f, s))
  BY <1>0, DisjointFacts DEF RootsAccepted
<1>2. PICK n \in 0..Len(o) :
             /\ Upto(o, n) \in Paths /\ Beyond(o, n) \in Paths
             /\ \A m \in 0..Len(o) : m > n => Resolve(f, Upto(o, m)).status = "missing"
             /\ Canon(f, o) = Resolve(f, Upto(o, n)).path \o Beyond(o, n)
             /\ Found(f, Upto(o, n))
  BY <1>1, CanonFacts
<1>3. Longest(o, lengths) = Upto(o, n)
  <2>1. n \in lengths  BY <1>2
  <2>2. ASSUME NEW m \in lengths PROVE m <= n
    <3>1. m \in 0..Len(o) /\ Resolve(f, Upto(o, m)).status = "found"  BY DEF Found
    <3>2. ~(m > n)  BY <1>2, <3>1
    <3> QED  BY <3>1, <3>2
  <2>3. lengths \in SUBSET (0..Len(o)) /\ lengths # {}  BY <2>1
  <2> HIDE DEF lengths
  <2>4. PICK k \in lengths : (\A m \in lengths : m <= k) /\ Longest(o, lengths) = Upto(o, k)  BY <2>3, LongestFacts
  <2>5. k <= n /\ n <= k  BY <2>1, <2>2, <2>4
  <2>6. k = n  BY <2>3, <2>5
  <2> QED  BY <2>4, <2>6
<1> DEFINE end == Resolve(f, Upto(o, n)).path
<1>4. Leads(f, end, nearest) /\ end \in Paths  BY <1>2, <1>3, ResolveFacts DEF Found
<1>5. Starts(f, end, Canon(f, o))  BY <1>2, <1>4, StartsJoined
<1> HIDE DEF nearest, end
<1>6. ASSUME nearest \in RealDirs(f, s) PROVE FALSE
  <2>1. Found(f, s) /\ nearest \in Below(f, Resolve(f, s).dir)  BY <1>6 DEF RealDirs
  <2>2. Leads(f, Canon(f, s), Resolve(f, s).dir)  BY <2>1, CanonFound
  <2>3. Starts(f, Canon(f, s), end)  BY <1>0, <1>4, <2>1, <2>2, BelowStarts
  <2>4. Starts(f, Canon(f, s), Canon(f, o))  BY <1>0, <1>4, <1>5, <2>3, StartsFacts
  <2> QED  BY <1>1, <2>4
<1>7. ASSUME Found(f, s), Resolve(f, s).dir \in RealDirs(f, o) PROVE FALSE
  <2>1. Found(f, o) /\ Resolve(f, s).dir \in Below(f, Resolve(f, o).dir)  BY <1>7 DEF RealDirs
  <2>2. Leads(f, Canon(f, o), Resolve(f, o).dir)  BY <2>1, CanonFound
  <2>3. Leads(f, Canon(f, s), Resolve(f, s).dir)  BY <1>7, CanonFound
  <2>4. Starts(f, Canon(f, o), Canon(f, s))  BY <1>0, <2>1, <2>2, <2>3, BelowStarts
  <2> QED  BY <1>1, <2>4
<1> QED  BY <1>6, <1>7 DEF nearest

-----------------------------------------------------------------------------
(* What a command writes to *)

\* A parent that was found now, for an output whose name there is no link, is
\* none of the directories that lie behind the source, nor has the output one.
LEMMA ParentApart ==
    ASSUME NEW f \in FileSystems, Forest(f), NEW s \in Paths, NEW o \in Paths, o # <<>>, RootsAccepted(f, s, o),
           NEW c \in Paths, SamePath(f, Canon(f, s), c),
           NEW S \in SUBSET Dirs, \A p \in Paths, d \in S : Leads(f, p, d) => Starts(f, c, p),
           NEW P, Found(f, Front(o)), P = Resolve(f, Front(o)).dir, EntryAt(f, P, Last(o)).kind # "link"
    PROVE  /\ P \notin S
           /\ EntryAt(f, P, Last(o)).kind = "dir" => Below(f, EntryAt(f, P, Last(o)).dir) \cap S = {}
<1>0. Canon(f, s) \in Paths /\ Canon(f, o) \in Paths  BY CanonFacts
<1>1. Resolves(f, s)
      /\ ~Starts(f, Canon(f, s), Canon(f, o)) /\ ~Starts(f, Canon(f, o), Canon(f, s))
  BY <1>0, DisjointFacts DEF RootsAccepted
<1>2. Front(o) \in Paths /\ Last(o) \in Names /\ o = Front(o) \o <<Last(o)>>  BY FrontFacts
<1> DEFINE end == Resolve(f, Front(o)).path
<1>3. Canon(f, o) = end \o <<Last(o)>> /\ Leads(f, end, P) /\ end \in Paths
  BY <1>2, CanonNext
<1> HIDE DEF end
<1>4. ASSUME NEW q \in Paths, NEW d \in S, Leads(f, q, d) PROVE Starts(f, Canon(f, s), q)
  <2>1. Starts(f, c, q)  BY <1>4
  <2>2. PICK e \in Dirs : Leads(f, c, e)  BY <1>4, <2>1, LeadsFirst
  <2>3. FoldPath(f, Canon(f, s)) = FoldPath(f, c)  BY <1>1, <2>2, SameNames
  <2> QED  BY <1>0, <2>1, <2>3, StartsFacts
<1>5. Starts(f, end, Canon(f, o))
  <2>1. <<Last(o)>> \in Paths  BY <1>2 DEF Paths
  <2> QED  BY <1>3, <2>1, StartsJoined
<1>6. P \notin S
  <2>1. SUFFICES ASSUME P \in S PROVE FALSE  OBVIOUS
  <2>2. Starts(f, Canon(f, s), end)  BY <1>3, <1>4, <2>1
  <2> QED  BY <1>0, <1>1, <1>3, <1>5, <2>2, StartsFacts
<1>7. ASSUME EntryAt(f, P, Last(o)).kind = "dir", NEW x \in Below(f, EntryAt(f, P, Last(o)).dir), x \in S
      PROVE  FALSE
  <2> DEFINE e == EntryAt(f, P, Last(o)).dir
  <2>1. Leads(f, Canon(f, o), e)  BY <1>2, <1>3, <1>7, LeadsOn
  <2> HIDE DEF e
  <2>2. PICK q \in Paths : Leads(f, q, x) /\ Starts(f, Canon(f, o), q)
    <3>1. x \in Below(f, e)  BY <1>7 DEF e
    <3> QED  BY <1>0, <2>1, <3>1, BelowReached
  <2>3. Starts(f, Canon(f, s), q)  BY <1>4, <1>7, <2>2
  <2> QED  BY <1>0, <1>1, <2>2, <2>3, StartsFacts
<1> QED  BY <1>6, <1>7

\* A path that leads somewhere and that the guard accepts starts with neither
\* of the paths the guard has kept.
LEMMA AcceptedBound ==
    ASSUME NEW f \in FileSystems, Forest(f), NEW p \in Paths, Resolves(f, p), NEW c \in Paths,
           SamePath(f, Canon(f, p), c), NEW b \in Paths, NEW d, Leads(f, b, d), Disjoint(f, Canon(f, p), b)
    PROVE  ~Starts(f, c, b)
<1>1. SUFFICES ASSUME Starts(f, c, b) PROVE FALSE  OBVIOUS
<1>2. Canon(f, p) \in Paths  BY CanonFacts
<1>3. PICK e \in Dirs : Leads(f, c, e)  BY <1>1, LeadsFirst
<1>4. FoldPath(f, Canon(f, p)) = FoldPath(f, c)  BY <1>3, SameNames
<1>5. Starts(f, Canon(f, p), b)  BY <1>1, <1>2, <1>4, StartsFacts
<1> QED  BY <1>2, <1>5, DisjointFacts

\* What lies behind a root.
LEMMA RootBelow ==
    ASSUME NEW f \in FileSystems, Forest(f), NEW s \in Paths
    PROVE  /\ RealDirs(f, s) \in SUBSET Dirs
           /\ \A p \in Paths, d \in RealDirs(f, s) : Leads(f, p, d) => Starts(f, Canon(f, s), p)
           /\ (\A d \in Dirs, n \in Names : f.tree[d][n].kind = "dir" => f.tree[d][n].dir \notin Spare)
                => RealDirs(f, s) \cap Spare = {}
<1>1. CASE ~Found(f, s)
  <2>1. RealDirs(f, s) = {}  BY <1>1 DEF RealDirs
  <2> QED  BY <2>1
<1>2. CASE Found(f, s)
  <2> DEFINE d == Resolve(f, s).dir
             c == Canon(f, s)
  <2>1. RealDirs(f, s) = Below(f, d) /\ Leads(f, c, d) /\ c \in Paths /\ d \in Dirs
    BY <1>2, CanonFound, CanonFacts, ResolveFacts DEF RealDirs
  <2> HIDE DEF d, c
  <2>2. Below(f, d) \in SUBSET Dirs  BY <2>1, BelowFacts
  <2>3. \A p \in Paths, e \in Below(f, d) : Leads(f, p, e) => Starts(f, c, p)  BY <2>1, BelowStarts
  <2>4. ASSUME \A e \in Dirs, n \in Names : f.tree[e][n].kind = "dir" => f.tree[e][n].dir \notin Spare
        PROVE  Below(f, d) \cap Spare = {}
    <3>1. \A e \in Dirs, n \in Names : EntryAt(f, e, n).kind = "dir" => EntryAt(f, e, n).dir \notin Spare
      BY <2>4, KeyFacts DEF EntryAt
    <3>2. d \notin Spare
      <4>1. CASE c = <<>>
        <5>1. d = Root  BY <2>1, <4>1, LeadsNowhere
        <5> QED  BY <5>1, LayoutAssumption
      <4>2. CASE c # <<>>
        <5>1. PICK e \in Dirs : EntryAt(f, e, Last(c)).kind = "dir" /\ EntryAt(f, e, Last(c)).dir = d
          BY <2>1, <4>2, LeadsStep
        <5>2. Last(c) \in Names  BY <2>1, <4>2, FrontFacts
        <5> QED  BY <3>1, <5>1, <5>2
      <4> QED  BY <4>1, <4>2
    <3>3. Closed(f, Dirs \ Spare)
      <4>1. \A e \in Dirs, n \in Names : EntryAt(f, e, n).dir \in Dirs  BY EntryFacts
      <4> QED  BY <3>1, <4>1 DEF Closed, Children
    <3>4. Dirs \ Spare \in SUBSET Dirs /\ d \in Dirs \ Spare  BY <2>1, <3>2
    <3>5. Below(f, d) \subseteq Dirs \ Spare  BY <2>1, <3>3, <3>4, BelowFacts
    <3> QED  BY <3>5
  <2> QED  BY <2>1, <2>2, <2>3, <2>4 DEF c
<1> QED  BY <1>1, <1>2

-----------------------------------------------------------------------------
(* What changes the file system *)

\* What a file system is after one entry changed.
LEMMA Changed ==
    ASSUME NEW f \in FileSystems, NEW d \in Dirs, NEW n \in Names, NEW e \in Entries
    PROVE  /\ Put(f, d, n, e) \in FileSystems
           /\ Put(f, d, n, e).folds = f.folds
           /\ Put(f, d, n, e).tree[d][n] = e
           /\ \A c \in Dirs, m \in Names : (c # d \/ m # n) => Put(f, d, n, e).tree[c][m] = f.tree[c][m]
           /\ f.tree[d][n] = e => Put(f, d, n, e) = f
<1>1. f.folds \in BOOLEAN /\ f.tree \in [Dirs -> [Names -> Entries]]  BY DEF FileSystems
<1>2. f = [folds |-> f.folds, tree |-> f.tree]  BY DEF FileSystems
<1> DEFINE t == [f.tree EXCEPT ![d][n] = e]
<1>3. Put(f, d, n, e) = [folds |-> f.folds, tree |-> t]  BY <1>2 DEF Put
<1>4. t \in [Dirs -> [Names -> Entries]] /\ t[d][n] = e
      /\ \A c \in Dirs, m \in Names : (c # d \/ m # n) => t[c][m] = f.tree[c][m]
  BY <1>1
<1> HIDE DEF t
<1>5. ASSUME f.tree[d][n] = e PROVE t = f.tree
  <2>1. ASSUME NEW c \in Dirs PROVE t[c] = f.tree[c]
    <3>1. \A m \in Names : t[c][m] = f.tree[c][m]  BY <1>4, <1>5
    <3>2. t[c] \in [Names -> Entries] /\ f.tree[c] \in [Names -> Entries]  BY <1>1, <1>4
    <3> QED  BY <3>1, <3>2
  <2> QED  BY <1>1, <1>4, <2>1
<1>6. Put(f, d, n, e) \in FileSystems /\ Put(f, d, n, e).folds = f.folds /\ Put(f, d, n, e).tree = t
  BY <1>1, <1>3, <1>4 DEF FileSystems
<1>7. t = f.tree => Put(f, d, n, e) = f  BY <1>2, <1>3
<1> QED  BY <1>4, <1>5, <1>6, <1>7

\* An entry that becomes a link or nothing takes directories away.
LEMMA Removed ==
    ASSUME NEW f \in FileSystems, NEW d \in Dirs, NEW n \in Names, NEW e \in Entries, e.kind # "dir",
           NEW g, g = Put(f, d, n, e)
    PROVE  g \in FileSystems /\ Sparser(g, f)
<1>1. g \in FileSystems /\ g.folds = f.folds /\ g.tree[d][n] = e
      /\ \A c \in Dirs, m \in Names : (c # d \/ m # n) => g.tree[c][m] = f.tree[c][m]
  BY Changed
<1> QED  BY <1>1 DEF Sparser

\* A fresh directory below another, under a name there.
LEMMA Added ==
    ASSUME NEW f \in FileSystems, Forest(f), NEW d \in Dirs, NEW n \in Names, NEW e \in Dirs \ {Root}, Unused(f, e),
           NEW g, g = Put(f, d, n, Directory(e))
    PROVE  g \in FileSystems /\ g.folds = f.folds /\ Forest(g)
<1>1. Directory(e) \in Entries /\ Directory(e).kind = "dir" /\ Directory(e).dir = e
  BY EmptyPath DEF Directory, Entries
<1>2. g \in FileSystems /\ g.folds = f.folds /\ g.tree[d][n] = Directory(e)
      /\ \A c \in Dirs, m \in Names : (c # d \/ m # n) => g.tree[c][m] = f.tree[c][m]
  BY <1>1, Changed
<1>3. ASSUME NEW c \in Dirs, NEW m \in Names, g.tree[c][m].kind = "dir"
      PROVE  /\ g.tree[c][m].dir # Root
             /\ \A a \in Dirs, k \in Names :
                  g.tree[a][k].kind = "dir" /\ g.tree[a][k].dir = g.tree[c][m].dir => a = c /\ k = m
  <2>1. CASE c = d /\ m = n
    <3>1. g.tree[c][m].dir = e  BY <1>1, <1>2, <2>1
    <3>2. ASSUME NEW a \in Dirs, NEW k \in Names, g.tree[a][k].kind = "dir", g.tree[a][k].dir = e
          PROVE  a = d /\ k = n
      BY <1>2, <3>2 DEF Unused
    <3> QED  BY <2>1, <3>1, <3>2
  <2>2. CASE c # d \/ m # n
    <3>1. g.tree[c][m] = f.tree[c][m] /\ f.tree[c][m].kind = "dir"  BY <1>2, <1>3, <2>2
    <3>2. f.tree[c][m].dir # e  BY <3>1 DEF Unused
    <3>3. ASSUME NEW a \in Dirs, NEW k \in Names, g.tree[a][k].kind = "dir", g.tree[a][k].dir = g.tree[c][m].dir
          PROVE  a = c /\ k = m
      <4>1. a # d \/ k # n  BY <1>1, <1>2, <3>1, <3>2, <3>3
      <4>2. g.tree[a][k] = f.tree[a][k]  BY <1>2, <4>1
      <4> QED  BY <3>1, <3>3, <4>2 DEF Forest
    <3>4. f.tree[c][m].dir # Root  BY <3>1 DEF Forest
    <3> QED  BY <3>1, <3>3, <3>4
  <2> QED  BY <2>1, <2>2
<1> QED  BY <1>2, <1>3 DEF Forest

\* Where nothing was, the fresh directory is all that paths lead to in addition.
LEMMA Grown ==
    ASSUME NEW f \in FileSystems, Forest(f), NEW d \in Dirs, NEW n \in Names, f.tree[d][n].kind = "none",
           NEW e \in Dirs \ {Root}, Unused(f, e), e # d,
           NEW g, g = Put(f, d, n, Directory(e))
    PROVE  /\ \A p \in Paths, c \in Dirs : Leads(g, p, c) /\ c # e => Leads(f, p, c)
           /\ \A p \in Paths : Leads(g, p, e) => p # <<>> /\ Leads(f, Front(p), d) /\ Key(f, Last(p)) = n
<1>1. Directory(e) \in Entries /\ Directory(e).kind = "dir" /\ Directory(e).dir = e
  BY EmptyPath DEF Directory, Entries
<1>2. g \in FileSystems /\ g.folds = f.folds /\ g.tree[d][n] = Directory(e)
      /\ \A c \in Dirs, m \in Names : (c # d \/ m # n) => g.tree[c][m] = f.tree[c][m]
  BY <1>1, Changed
<1>3. \A m \in Names : Key(g, m) = Key(f, m) /\ Key(f, m) \in Names  BY <1>2, FoldKept, KeyFacts
<1>4. ASSUME NEW c \in Dirs, NEW m \in Names, EntryAt(g, c, m).kind = "dir"
      PROVE  /\ c # e
             /\ \/ c = d /\ Key(f, m) = n /\ EntryAt(g, c, m).dir = e
                \/ EntryAt(g, c, m) = EntryAt(f, c, m) /\ EntryAt(g, c, m).dir # e
  <2>1. EntryAt(g, c, m) = g.tree[c][Key(f, m)] /\ EntryAt(f, c, m) = f.tree[c][Key(f, m)] /\ Key(f, m) \in Names
    BY <1>3 DEF EntryAt
  <2>2. CASE c = d /\ Key(f, m) = n  BY <1>1, <1>2, <2>1, <2>2
  <2>3. CASE c # d \/ Key(f, m) # n
    <3>1. g.tree[c][Key(f, m)] = f.tree[c][Key(f, m)]  BY <1>2, <2>1, <2>3
    <3>2. f.tree[c][Key(f, m)].kind = "dir"  BY <1>4, <2>1, <3>1
    <3>3. c # e /\ f.tree[c][Key(f, m)].dir # e
      <4>1. \A k \in Names : f.tree[e][k].kind = "none"  BY DEF Unused
      <4>2. \A a \in Dirs, k \in Names : f.tree[a][k].kind = "dir" => f.tree[a][k].dir # e  BY DEF Unused
      <4> QED  BY <2>1, <3>2, <4>1, <4>2
    <3> QED  BY <2>1, <3>1, <3>3
  <2> QED  BY <2>2, <2>3
<1>5. ASSUME NEW p \in Paths, NEW c \in Dirs, Leads(g, p, c), c # e PROVE Leads(f, p, c)
  <2> DEFINE N == Len(p)
             T == {i \in 0..N : \A a \in Paths, b \in Dirs : Len(a) = i /\ Leads(g, a, b) /\ b # e => Leads(f, a, b)}
  <2>0. N \in Nat  BY EmptyPath
  <2>1. 0 \in T
    <3>1. \A a \in Paths : \A b : Len(a) = 0 /\ Leads(g, a, b) => Leads(f, a, b)  BY <1>2, EmptyPath, LeadsNowhere
    <3> QED  BY <2>0, <3>1
  <2>2. ASSUME NEW k \in 0..N, k \in T, k < N PROVE k + 1 \in T
    <3>1. ASSUME NEW a \in Paths, NEW b \in Dirs, Len(a) = k + 1, Leads(g, a, b), b # e PROVE Leads(f, a, b)
      <4>1. a # <<>>
        <5>1. k + 1 # 0  BY <2>0, <2>2
        <5> QED  BY <3>1, <5>1, EmptyPath
      <4>2. PICK h \in Dirs : Leads(g, Front(a), h) /\ EntryAt(g, h, Last(a)).kind = "dir" /\ EntryAt(g, h, Last(a)).dir = b
        BY <1>2, <3>1, <4>1, LeadsStep
      <4>3. Front(a) \in Paths /\ Len(Front(a)) = Len(a) - 1 /\ Last(a) \in Names  BY <4>1, FrontFacts
      <4>4. Len(Front(a)) = k  BY <2>0, <3>1, <4>3
      <4>5. h # e /\ EntryAt(g, h, Last(a)) = EntryAt(f, h, Last(a))  BY <1>4, <3>1, <4>2, <4>3
      <4>6. Leads(f, Front(a), h)  BY <2>2, <4>2, <4>3, <4>4, <4>5
      <4> QED  BY <4>1, <4>2, <4>5, <4>6, LeadsStep
    <3>2. k + 1 \in 0..N  BY <2>0, <2>2
    <3> QED  BY <3>1, <3>2
  <2> HIDE DEF T
  <2>3. 0..N \subseteq T  BY <2>0, <2>1, <2>2, Reaches
  <2>4. N \in T  BY <2>0, <2>3
  <2> QED  BY <1>5, <2>4 DEF T
<1>6. ASSUME NEW p \in Paths, Leads(g, p, e) PROVE p # <<>> /\ Leads(f, Front(p), d) /\ Key(f, Last(p)) = n
  <2>1. p # <<>>  BY <1>2, <1>6, LeadsNowhere
  <2>2. PICK h \in Dirs : Leads(g, Front(p), h) /\ EntryAt(g, h, Last(p)).kind = "dir" /\ EntryAt(g, h, Last(p)).dir = e
    BY <1>2, <1>6, <2>1, LeadsStep
  <2>3. Front(p) \in Paths /\ Last(p) \in Names  BY <2>1, FrontFacts
  <2>4. h # e /\ h = d /\ Key(f, Last(p)) = n  BY <1>4, <2>2, <2>3
  <2> QED  BY <1>5, <2>1, <2>2, <2>3, <2>4
<1> QED  BY <1>5, <1>6

-----------------------------------------------------------------------------
(* The state of a command *)

Calls == {"guard", "revalidate", "import", "symlinks", "build", "check", "package", "pin", "recheck", "replace",
          "reguard", "archive", "open", "contain", "create", "confine", "archives", "ok", "failed"}

Pinning == {"recheck", "replace", "contain", "create", "confine", "archives"}

\* Nothing the command could make is there before it makes something.
Unspoilt ==
    pc \notin {"create", "confine", "archives", "ok", "failed"} =>
        \A d \in Dirs, n \in Names : fs.tree[d][n].kind = "dir" => fs.tree[d][n].dir \notin Spare

Typed ==
    /\ fs \in FileSystems /\ Forest(fs)
    /\ request \in [command : {"build", "check", "package"}, source : Paths,
                    output : Paths \ {<<>>}, destination : Paths \ {<<>>}]
    /\ pc \in Calls
    /\ guard \in [source : Paths, output : Paths]
    /\ spared \in SUBSET (Dirs \ Spare)
    /\ pinned \in SUBSET Dirs
    /\ boundTo \in Paths /\ missing \in Paths
    /\ edits \in 0..MaxEdits
    /\ pc \in Pinning => \E dir \in Dirs : pinned = {dir}

Base == Typed /\ Unspoilt

\* What the request asks for are paths.
LEMMA RequestFacts ==
    ASSUME Typed
    PROVE  /\ request.source \in Paths /\ request.output \in Paths /\ request.output # <<>>
           /\ request.destination \in Paths /\ request.destination # <<>>
           /\ Front(request.output) \in Paths /\ Last(request.output) \in Names
           /\ guard.source \in Paths /\ guard.output \in Paths
           /\ OutputName \in Names
           /\ \A d : EntryAt(fs, d, Last(request.output)) = fs.tree[d][OutputName]
<1>1. /\ request.source \in Paths /\ request.output \in Paths /\ request.output # <<>>
      /\ request.destination \in Paths /\ request.destination # <<>>
      /\ guard.source \in Paths /\ guard.output \in Paths
  BY DEF Typed
<1>2. Front(request.output) \in Paths /\ Last(request.output) \in Names  BY <1>1, FrontFacts
<1>3. OutputName \in Names  BY <1>2, KeyFacts DEF Typed, OutputName
<1>4. \A d : EntryAt(fs, d, Last(request.output)) = fs.tree[d][OutputName]  BY DEF EntryAt, OutputName
<1> QED  BY <1>1, <1>2, <1>3, <1>4

\* A change by somebody else takes directories away.
LEMMA EditFacts ==
    ASSUME Typed, Edit
    PROVE  /\ fs' \in FileSystems /\ Sparser(fs', fs) /\ Forest(fs')
           /\ edits < MaxEdits /\ edits' = edits + 1
           /\ UNCHANGED <<request, pc, guard, spared, pinned, boundTo, missing>>
<1>1. edits < MaxEdits /\ edits' = edits + 1
      /\ UNCHANGED <<request, pc, guard, spared, pinned, boundTo, missing>>
  BY DEF Edit
<1>2. PICK e \in Edits : fs' = Put(fs, e.dir, Key(fs, e.name), e.to)  BY DEF Edit
<1>3. e.dir \in Dirs /\ e.name \in Names /\ e.to \in Entries /\ e.to.kind # "dir"
  BY LayoutAssumption
<1>4. fs \in FileSystems /\ Forest(fs)  BY DEF Typed
<1>5. Key(fs, e.name) \in Names  BY <1>3, <1>4, KeyFacts
<1>6. fs' \in FileSystems /\ Sparser(fs', fs)  BY <1>2, <1>3, <1>4, <1>5, Removed
<1>7. Forest(fs')  BY <1>4, <1>6, SparserFacts
<1> QED  BY <1>1, <1>6, <1>7

\* A directory that can be made is fresh.
LEMMA FreshFacts ==
    ASSUME Fresh # {}
    PROVE  NewDir \in Spare /\ NewDir \in Dirs \ {Root} /\ NewDir \notin pinned /\ Unused(fs, NewDir)
<1>1. NewDir \in Fresh  BY DEF NewDir
<1> QED  BY <1>1, LayoutAssumption DEF Fresh

\* The longest ancestor that exists is a path, and the destination goes on from it.
LEMMA ExistingFacts ==
    ASSUME Typed
    PROVE  /\ Existing(request.destination) \in Paths
           /\ Beyond(request.destination, Len(Existing(request.destination))) \in Paths
<1> DEFINE p == request.destination
           S == {n \in 0..Len(p) : Exists(fs, Upto(p, n))}
<1>1. p \in Paths  BY RequestFacts
<1>2. Len(p) \in Nat  BY <1>1, EmptyPath
<1>3. Upto(p, 0) = <<>>
  <2>1. Upto(p, 0) \in Paths /\ Len(Upto(p, 0)) = 0  BY <1>1, <1>2, UptoFacts
  <2> QED  BY <2>1, EmptyPath
<1>4. 0 \in S  BY <1>2, <1>3 DEF Exists
<1>5. S \in SUBSET (0..Len(p))  OBVIOUS
<1>6. Existing(p) = Longest(p, S)  BY DEF Existing
<1> HIDE DEF p, S
<1>7. PICK n \in S : Longest(p, S) = Upto(p, n)  BY <1>1, <1>4, <1>5, LongestFacts
<1>8. n \in 0..Len(p)  BY <1>5, <1>7
<1>9. Existing(p) \in Paths /\ Len(Existing(p)) = n /\ Beyond(p, n) \in Paths
  BY <1>1, <1>6, <1>7, <1>8, UptoFacts
<1> QED  BY <1>9 DEF p

\* What making a component does: a fresh directory where nothing was, or the
\* one that is there.
LEMMA ComponentFacts ==
    ASSUME Typed, CreateComponent
    PROVE  /\ pc = "create" /\ pc' \in {"create", "failed"} /\ missing # <<>> /\ missing' = Tail(missing)
           /\ missing' \in Paths /\ Head(missing) \in Names /\ missing = <<Head(missing)>> \o missing'
           /\ UNCHANGED <<request, guard, spared, boundTo, edits>>
           /\ \E dir \in Dirs :
                /\ pinned = {dir}
                /\ \/ /\ EntryAt(fs, dir, Head(missing)).kind = "none"
                      /\ NewDir \in Spare /\ NewDir \in Dirs \ {Root} /\ NewDir # dir /\ Unused(fs, NewDir)
                      /\ fs' = Put(fs, dir, Key(fs, Head(missing)), Directory(NewDir)) /\ pinned' = {NewDir}
                   \/ /\ EntryAt(fs, dir, Head(missing)).kind # "none"
                      /\ pc' = "create" => EntryAt(fs, dir, Head(missing)).kind = "dir"
                      /\ fs' = fs /\ pinned' = {EntryAt(fs, dir, Head(missing)).dir}
<1>1. pc = "create" /\ missing # <<>> /\ Fresh # {} /\ missing' = Tail(missing)
      /\ UNCHANGED <<request, guard, spared, boundTo, edits>>
  BY DEF CreateComponent
<1>2. missing \in Seq(Names) /\ fs \in FileSystems  BY DEF Typed, Paths
<1>3. missing' \in Paths /\ Head(missing) \in Names /\ missing = <<Head(missing)>> \o missing'
  BY <1>1, <1>2 DEF Paths
<1>4. PICK dir \in Dirs : pinned = {dir}  BY <1>1 DEF Typed, Pinning
<1> DEFINE name == Key(fs, Head(missing))
           e == EntryAt(fs, dir, Head(missing))
           next == IF e.kind = "none" THEN Directory(NewDir) ELSE e
<1>5. fs.tree[dir][name] = e  BY DEF EntryAt
<1>6. pc' = (IF e.kind = "link" THEN "failed" ELSE "create") /\ fs' = Put(fs, dir, name, next) /\ pinned' = {next.dir}
  BY <1>4 DEF CreateComponent, EntryAt
<1>7. name \in Names /\ e \in Entries /\ e.kind \in {"none", "dir", "link"}  BY <1>2, <1>3, EntryFacts, KeyFacts
<1>8. NewDir \in Spare /\ NewDir \in Dirs \ {Root} /\ NewDir # dir /\ Unused(fs, NewDir)  BY <1>1, <1>4, FreshFacts
<1>9. Directory(NewDir).dir = NewDir  BY DEF Directory
<1>10. fs.tree[dir][name] = e => Put(fs, dir, name, e) = fs  BY <1>2, <1>7, Changed
<1> HIDE DEF name, e
<1>11. CASE e.kind = "none"
  <2>1. fs' = Put(fs, dir, name, Directory(NewDir)) /\ pinned' = {NewDir} /\ pc' = "create"
    BY <1>6, <1>9, <1>11
  <2> QED  BY <1>1, <1>3, <1>4, <1>8, <1>11, <2>1 DEF name, e
<1>12. CASE e.kind # "none"
  <2>1. fs' = fs /\ pinned' = {e.dir} /\ (pc' = "create" => e.kind = "dir") /\ pc' \in {"create", "failed"}
    BY <1>5, <1>6, <1>7, <1>10, <1>12
  <2> QED  BY <1>1, <1>3, <1>4, <1>12, <2>1 DEF e
<1> QED  BY <1>11, <1>12

\* A command starts with what LayoutAssumption says of trees and requests.
LEMMA InitBase == Init => Base
<1> SUFFICES ASSUME Init PROVE Base  OBVIOUS
<1>1. PICK folds \in BOOLEAN, tree \in Trees : fs = [folds |-> folds, tree |-> tree]  BY DEF Init
<1>2. fs \in FileSystems /\ Forest(fs) /\ \A d \in Spare : Unused(fs, d)  BY <1>1, LayoutAssumption
<1>3. request \in [command : {"build", "check", "package"}, source : Paths,
                   output : Paths \ {<<>>}, destination : Paths \ {<<>>}]
  BY LayoutAssumption DEF Init
<1>4. pc = "guard" /\ guard = [source |-> <<>>, output |-> <<>>]
      /\ spared = {} /\ pinned = {} /\ boundTo = <<>> /\ missing = <<>> /\ edits = 0
  BY DEF Init
<1>5. guard \in [source : Paths, output : Paths]  BY <1>4, EmptyPath
<1>6. Unspoilt  BY <1>2 DEF Unspoilt, Unused
<1>7. edits \in 0..MaxEdits  BY <1>4, LayoutAssumption
<1>8. pc \in Calls /\ pc \notin Pinning  BY <1>4 DEF Calls, Pinning
<1> QED  BY <1>2, <1>3, <1>4, <1>5, <1>6, <1>7, <1>8, EmptyPath DEF Base, Typed

\* Every step keeps the types, the shape of the file system and the spare
\* directories out of it until the command makes them.
LEMMA NextBase == Base /\ [Next]_vars => Base'
<1> SUFFICES ASSUME Base, [Next]_vars PROVE Base'  OBVIOUS
<1>0. Typed /\ Unspoilt  BY DEF Base
<1>1. fs \in FileSystems /\ Forest(fs)
      /\ request.source \in Paths /\ request.output \in Paths
      /\ Front(request.output) \in Paths /\ OutputName \in Names
  BY <1>0, RequestFacts DEF Typed
<1>2. ASSUME fs' = fs, request' = request, edits' = edits, pc' \in Calls,
             guard' \in [source : Paths, output : Paths], spared' \in SUBSET (Dirs \ Spare),
             pinned' \in SUBSET Dirs, boundTo' \in Paths, missing' \in Paths,
             pc' \in Pinning => \E dir \in Dirs : pinned' = {dir},
             pc \in {"create", "confine", "archives", "ok", "failed"} =>
                 pc' \in {"create", "confine", "archives", "ok", "failed"}
      PROVE  Base'
  BY <1>0, <1>2 DEF Base, Typed, Unspoilt
<1>3. ASSUME UNCHANGED <<fs, request, guard, spared, pinned, boundTo, missing, edits>>, pc' \in Calls,
             pc' \in Pinning => pc \in Pinning,
             pc \in {"create", "confine", "archives", "ok", "failed"} =>
                 pc' \in {"create", "confine", "archives", "ok", "failed"}
      PROVE  Base'
  <2>1. guard' \in [source : Paths, output : Paths] /\ spared' \in SUBSET (Dirs \ Spare)
        /\ pinned' \in SUBSET Dirs /\ boundTo' \in Paths /\ missing' \in Paths
        /\ (pc' \in Pinning => \E dir \in Dirs : pinned' = {dir})
    BY <1>0, <1>3 DEF Typed
  <2> QED  BY <1>2, <1>3, <2>1
<1>4. \A d \in Dirs, n \in Names : pc \notin {"create", "confine", "archives", "ok", "failed"} /\
          fs.tree[d][n].kind = "dir" => fs.tree[d][n].dir \notin Spare
  BY <1>0 DEF Unspoilt
<1>5. CASE MakeGuard
  <2>1. guard' \in [source : Paths, output : Paths]
    <3>1. guard' = GuardOf(fs, request.source, request.output)  BY <1>5 DEF MakeGuard
    <3>2. Canon(fs, request.source) \in Paths /\ Canon(fs, request.output) \in Paths  BY <1>1, CanonFacts
    <3> QED  BY <3>1, <3>2 DEF GuardOf
  <2>2. pc = "guard" /\ pc' \in {"revalidate", "failed"}
        /\ UNCHANGED <<fs, request, spared, pinned, boundTo, missing, edits>>
    BY <1>5 DEF MakeGuard, Call
  <2> QED  BY <1>0, <1>2, <2>1, <2>2 DEF Typed, Calls, Pinning
<1>6. CASE Revalidate  BY <1>3, <1>6 DEF Revalidate, Check, Call, Calls, Pinning
<1>7. CASE Import
  <2>1. pc = "import" /\ pc' \in {"symlinks", "failed"} /\ spared' = RealDirs(fs, request.source)
        /\ UNCHANGED <<fs, request, guard, pinned, boundTo, missing, edits>>
    BY <1>7 DEF Import, Call
  <2>2. spared' \in SUBSET (Dirs \ Spare)  BY <1>1, <1>4, <2>1, RootBelow
  <2> QED  BY <1>0, <1>2, <2>1, <2>2 DEF Typed, Calls, Pinning
<1>8. CASE CheckSymlinks
  <2>1. request.command \in {"build", "check", "package"}  BY <1>0 DEF Typed
  <2>2. pc = "symlinks" /\ pc' \in {"build", "check", "package", "failed"}
        /\ UNCHANGED <<fs, request, guard, spared, pinned, boundTo, missing, edits>>
    BY <1>8, <2>1 DEF CheckSymlinks, Check, Call
  <2> QED  BY <1>3, <2>2 DEF Calls, Pinning
<1>9. CASE Write  BY <1>3, <1>9 DEF Write, Check, Call, Calls, Pinning
<1>10. CASE PinParent
  <2>1. pc = "pin" /\ pc' \in {"recheck", "failed"} /\ pinned' = {Resolve(fs, Front(request.output)).dir}
        /\ UNCHANGED <<fs, request, guard, spared, boundTo, missing, edits>>
    BY <1>10 DEF PinParent, Call
  <2>2. Resolve(fs, Front(request.output)).dir \in Dirs  BY <1>1, ResolveFacts
  <2> QED  BY <1>0, <1>2, <2>1, <2>2 DEF Typed, Calls
<1>11. CASE RecheckOutput  BY <1>3, <1>11 DEF RecheckOutput, Check, Call, Calls, Pinning
<1>12. CASE Replace
  <2>1. pc = "replace" /\ pc' \in {"ok", "failed"} /\ Fresh # {}
        /\ UNCHANGED <<request, guard, spared, pinned, boundTo, missing, edits>>
    BY <1>12 DEF Replace, Call
  <2>2. PICK dir \in pinned : fs' = fs \/ fs' = Put(fs, dir, OutputName, Directory(NewDir))
    BY <1>12 DEF Replace
  <2>3. dir \in Dirs  BY <1>0 DEF Typed
  <2>4. NewDir \in Dirs \ {Root} /\ Unused(fs, NewDir)  BY <2>1, FreshFacts
  <2>5. fs' \in FileSystems /\ Forest(fs')
    <3>1. CASE fs' = fs  BY <1>1, <3>1
    <3>2. CASE fs' = Put(fs, dir, OutputName, Directory(NewDir))  BY <1>1, <2>3, <2>4, <3>2, Added
    <3> QED  BY <2>2, <3>1, <3>2
  <2> QED  BY <1>0, <2>1, <2>5 DEF Base, Typed, Unspoilt, Calls, Pinning
<1>13. CASE CompareOutput  BY <1>3, <1>13 DEF CompareOutput, Check, Call, Calls, Pinning
<1>14. CASE MakeArchiveGuard
  <2>1. pc = "reguard" /\ pc' \in {"archive", "failed"} /\ guard' = GuardOf(fs, request.source, request.output)
        /\ spared' = RealDirs(fs, request.source) \cup RealDirs(fs, request.output)
        /\ UNCHANGED <<fs, request, pinned, boundTo, missing, edits>>
    BY <1>14 DEF MakeArchiveGuard, Call
  <2>2. Canon(fs, request.source) \in Paths /\ Canon(fs, request.output) \in Paths  BY <1>1, CanonFacts
  <2>3. guard' \in [source : Paths, output : Paths]  BY <2>1, <2>2 DEF GuardOf
  <2>4. RealDirs(fs, request.source) \in SUBSET (Dirs \ Spare)  BY <1>1, <1>4, <2>1, RootBelow
  <2>5. RealDirs(fs, request.output) \in SUBSET (Dirs \ Spare)  BY <1>1, <1>4, <2>1, RootBelow
  <2>6. spared' \in SUBSET (Dirs \ Spare)  BY <2>1, <2>4, <2>5
  <2> QED  BY <1>0, <1>2, <2>1, <2>3, <2>6 DEF Typed, Calls, Pinning
<1>15. CASE ShowArchiveGuard  BY <1>3, <1>15 DEF ShowArchiveGuard, Check, Call, Calls, Pinning
<1>16. CASE OpenDestination
  <2> DEFINE existing == Existing(request.destination)
  <2>1. pc = "open" /\ pc' \in {"contain", "failed"} /\ pinned' = {Resolve(fs, existing).dir}
        /\ missing' = Beyond(request.destination, Len(existing)) /\ boundTo' = Canon(fs, existing) \o missing'
        /\ UNCHANGED <<fs, request, guard, spared, edits>>
    BY <1>16 DEF OpenDestination, Call
  <2>2. existing \in Paths /\ missing' \in Paths  BY <1>0, <2>1, ExistingFacts
  <2> HIDE DEF existing
  <2>3. Resolve(fs, existing).dir \in Dirs  BY <1>1, <2>2, ResolveFacts
  <2>4. Canon(fs, existing) \in Paths  BY <1>1, <2>2, CanonFacts
  <2>5. boundTo' \in Paths  BY <2>1, <2>2, <2>4, JoinFacts
  <2> QED  BY <1>0, <1>2, <2>1, <2>2, <2>3, <2>5 DEF Typed, Calls
<1>17. CASE Contain  BY <1>3, <1>17 DEF Contain, Check, Call, Calls, Pinning
<1>18. CASE CreateComponent
  <2>1. pc = "create" /\ pc' \in {"create", "failed"} /\ missing' \in Paths /\ Head(missing) \in Names
        /\ UNCHANGED <<request, guard, spared, boundTo, edits>>
    BY <1>0, <1>18, ComponentFacts
  <2>2. PICK dir \in Dirs :
          \/ /\ NewDir \in Dirs \ {Root} /\ Unused(fs, NewDir)
             /\ fs' = Put(fs, dir, Key(fs, Head(missing)), Directory(NewDir)) /\ pinned' = {NewDir}
          \/ fs' = fs /\ pinned' = {EntryAt(fs, dir, Head(missing)).dir}
    BY <1>0, <1>18, ComponentFacts
  <2>3. fs' \in FileSystems /\ Forest(fs') /\ \E d \in Dirs : pinned' = {d}
    <3>1. CASE /\ NewDir \in Dirs \ {Root} /\ Unused(fs, NewDir)
               /\ fs' = Put(fs, dir, Key(fs, Head(missing)), Directory(NewDir)) /\ pinned' = {NewDir}
      <4>1. Key(fs, Head(missing)) \in Names  BY <1>1, <2>1, KeyFacts
      <4>2. fs' \in FileSystems /\ Forest(fs')  BY <1>1, <3>1, <4>1, Added
      <4> QED  BY <3>1, <4>2
    <3>2. CASE fs' = fs /\ pinned' = {EntryAt(fs, dir, Head(missing)).dir}
      <4>1. EntryAt(fs, dir, Head(missing)).dir \in Dirs  BY <1>1, <2>1, EntryFacts
      <4> QED  BY <1>1, <3>2, <4>1
    <3> QED  BY <2>2, <3>1, <3>2
  <2>4. pinned' \in SUBSET Dirs  BY <2>3
  <2> QED  BY <1>0, <2>1, <2>3, <2>4 DEF Base, Typed, Unspoilt, Calls
<1>19. CASE Created  BY <1>3, <1>19 DEF Created, Check, Call, Calls, Pinning
<1>20. CASE Confine  BY <1>3, <1>20 DEF Confine, Check, Call, Calls, Pinning
<1>21. CASE WriteArchives  BY <1>3, <1>21 DEF WriteArchives, Check, Call, Calls, Pinning
<1>22. CASE Edit
  <2>1. /\ fs' \in FileSystems /\ Sparser(fs', fs) /\ Forest(fs') /\ edits < MaxEdits /\ edits' = edits + 1
        /\ UNCHANGED <<request, pc, guard, spared, pinned, boundTo, missing>>
    BY <1>0, <1>22, EditFacts
  <2>2. edits' \in 0..MaxEdits  BY <1>0, <2>1, LayoutAssumption DEF Typed
  <2>3. Unspoilt'
    <3>1. \A d \in Dirs, n \in Names : fs'.tree[d][n].kind = "dir" => fs'.tree[d][n] = fs.tree[d][n]
      BY <2>1 DEF Sparser
    <3> QED  BY <1>0, <2>1, <3>1 DEF Unspoilt
  <2> QED  BY <1>0, <2>1, <2>2, <2>3 DEF Base, Typed
<1>23. CASE UNCHANGED vars
  BY <1>0, <1>23 DEF vars, Base, Typed, Unspoilt
<1> QED
  BY <1>5, <1>6, <1>7, <1>8, <1>9, <1>10, <1>11, <1>12, <1>13, <1>14, <1>15, <1>16, <1>17, <1>18, <1>19, <1>20,
     <1>21, <1>22, <1>23 DEF Next

\* The state of a command has its types, and every file system that it and
\* somebody else make is a forest of directories.
THEOREM TypesHold == Spec => []Base
<1>1. Init => Base  BY InitBase
<1>2. Base /\ [Next]_vars => Base'  BY NextBase
<1> QED  BY <1>1, <1>2, PTL DEF Spec

-----------------------------------------------------------------------------
(* The roots *)

\* The guard that a command starts with tells real directories apart.
THEOREM GuardSeparates == Spec => GuardSeparatesRoots
<1>1. Base /\ [Next]_vars => [pc = "guard" /\ pc' = "revalidate" =>
          LET lengths == {n \in 0..Len(request.output) : Found(fs, Upto(request.output, n))}
              Nearest == Resolve(fs, Longest(request.output, lengths)).dir
          IN  /\ Nearest \notin RealDirs(fs, request.source)
              /\ Found(fs, request.source) => Resolve(fs, request.source).dir \notin RealDirs(fs, request.output)]_vars
  <2> SUFFICES ASSUME Base, [Next]_vars, pc = "guard", pc' = "revalidate"
               PROVE  LET lengths == {n \in 0..Len(request.output) : Found(fs, Upto(request.output, n))}
                          Nearest == Resolve(fs, Longest(request.output, lengths)).dir
                      IN  /\ Nearest \notin RealDirs(fs, request.source)
                          /\ Found(fs, request.source) =>
                                Resolve(fs, request.source).dir \notin RealDirs(fs, request.output)
    OBVIOUS
  <2>1. RootsAccepted(fs, request.source, request.output)
    BY DEF Next, vars, MakeGuard, Revalidate, Import, CheckSymlinks, Write, PinParent, RecheckOutput, Replace,
           CompareOutput, MakeArchiveGuard, ShowArchiveGuard, OpenDestination, Contain, CreateComponent, Created,
           Confine, WriteArchives, Edit, Check, Call
  <2>2. fs \in FileSystems /\ Forest(fs) /\ request.source \in Paths /\ request.output \in Paths
    BY RequestFacts DEF Base, Typed
  <2> QED  BY <2>1, <2>2, AcceptedApart
<1>2. Spec => []Base  BY TypesHold
<1> QED  BY <1>1, <1>2, PTL DEF Spec, GuardSeparatesRoots

-----------------------------------------------------------------------------
(* Builds *)

\* While nobody has changed anything, the guard and what it was made of agree.
Settled ==
    edits = 0 /\ pc \in {"revalidate", "import", "symlinks", "build", "check", "package", "pin", "recheck",
                         "replace", "reguard", "archive", "open", "contain"} =>
        guard = GuardOf(fs, request.source, request.output) /\ RootsAccepted(fs, request.source, request.output)

NotLinked == edits = 0 /\ pc \in {"build", "pin"} => ~IsLink(fs, request.output)

\* Whatever leads to a directory that was imported from starts with the path
\* the guard has, or, after a change, with the one the source has now.
Covers(c) == \A p \in Paths, d \in spared : Leads(fs, p, d) => Starts(fs, c, p)
SourceKnown ==
    pc \in {"symlinks", "build", "pin", "recheck", "replace"} =>
        \E c \in Paths : (c = guard.source \/ (edits # 0 /\ c = Canon(fs, request.source))) /\ Covers(c)

\* Replacing the output in a directory loses nothing that was imported from.
Clear(dir) ==
    /\ dir \notin spared
    /\ fs.tree[dir][OutputName].kind = "dir" => Below(fs, fs.tree[dir][OutputName].dir) \cap spared = {}

ParentFound ==
    pc = "recheck" => \A dir \in pinned :
        Clear(dir) \/ (edits # 0 /\ Found(fs, Front(request.output)) /\ dir = Resolve(fs, Front(request.output)).dir)

ParentClear ==
    pc = "replace" => \A dir \in pinned :
        Clear(dir) \/ (edits # 0 /\ fs.tree[dir][OutputName].kind = "link")

Building == Settled /\ NotLinked /\ SourceKnown /\ ParentFound /\ ParentClear

\* With one change at most there is none before a change, and one after.
LEMMA OneEdit ==
    ASSUME Typed, Edit, MaxEdits <= 1
    PROVE  edits = 0 /\ edits' # 0
<1>1. edits \in Nat /\ edits < MaxEdits /\ edits' = edits + 1  BY EditFacts DEF Typed
<1> QED  BY <1>1, LayoutAssumption

\* A change keeps what covers the sources and what is clear of them.
LEMMA EditKeeps ==
    ASSUME Typed, Edit
    PROVE  /\ \A c \in Paths : Covers(c) => Covers(c)'
           /\ \A dir \in Dirs : Clear(dir) => Clear(dir)'
           /\ \A c, p : Starts(fs', c, p) <=> Starts(fs, c, p)
<1>1. /\ fs' \in FileSystems /\ Sparser(fs', fs) /\ fs \in FileSystems
      /\ spared' = spared /\ request' = request /\ spared \in SUBSET Dirs
  BY EditFacts DEF Typed
<1>2. /\ \A d \in Dirs : Below(fs', d) \subseteq Below(fs, d)
      /\ \A p \in Paths, d \in Dirs : Leads(fs', p, d) => Leads(fs, p, d)
  BY <1>1, SparserFacts
<1>3. (\A n : Key(fs', n) = Key(fs, n)) /\ \A c, p : Starts(fs', c, p) <=> Starts(fs, c, p)
  BY <1>1, FoldKept DEF Sparser
<1>4. OutputName' = OutputName /\ OutputName \in Names  BY <1>1, <1>3, RequestFacts DEF OutputName
<1>5. ASSUME NEW c \in Paths, Covers(c) PROVE Covers(c)'
  BY <1>1, <1>2, <1>3, <1>5 DEF Covers
<1>6. ASSUME NEW dir \in Dirs, Clear(dir) PROVE Clear(dir)'
  <2>1. fs'.tree[dir][OutputName].kind = "dir" => fs'.tree[dir][OutputName] = fs.tree[dir][OutputName]
    BY <1>1, <1>4 DEF Sparser
  <2>2. fs'.tree[dir][OutputName].kind = "dir" => fs.tree[dir][OutputName].dir \in Dirs
    <3>1. EntryAt(fs, dir, Last(request.output)).dir \in Dirs  BY <1>1, RequestFacts, EntryFacts
    <3> QED  BY <3>1, RequestFacts
  <2> QED  BY <1>1, <1>2, <1>4, <1>6, <2>1, <2>2 DEF Clear
<1> QED  BY <1>3, <1>5, <1>6

\* The output's parent, found while the guard accepts the roots, is clear of
\* the sources unless the output's name there is a link.
LEMMA FoundParent ==
    ASSUME Typed, RootsAccepted(fs, request.source, request.output),
           NEW c \in Paths, Covers(c), SamePath(fs, Canon(fs, request.source), c),
           Found(fs, Front(request.output)),
           fs.tree[Resolve(fs, Front(request.output)).dir][OutputName].kind # "link"
    PROVE  Clear(Resolve(fs, Front(request.output)).dir)
<1> DEFINE P == Resolve(fs, Front(request.output)).dir
<1>1. fs \in FileSystems /\ Forest(fs) /\ spared \in SUBSET Dirs  BY DEF Typed
<1>2. EntryAt(fs, P, Last(request.output)) = fs.tree[P][OutputName]  BY RequestFacts
<1>3. \A p \in Paths, d \in spared : Leads(fs, p, d) => Starts(fs, c, p)  BY DEF Covers
<1>4. request.source \in Paths /\ request.output \in Paths /\ request.output # <<>>  BY RequestFacts
<1>5. EntryAt(fs, P, Last(request.output)).kind # "link"  BY <1>2
<1>6. P = Resolve(fs, Front(request.output)).dir  OBVIOUS
<1> HIDE DEF P
<1>7. /\ P \notin spared
      /\ EntryAt(fs, P, Last(request.output)).kind = "dir" =>
            Below(fs, EntryAt(fs, P, Last(request.output)).dir) \cap spared = {}
  BY <1>1, <1>3, <1>4, <1>5, <1>6, ParentApart
<1>8. Clear(P)  BY <1>2, <1>7 DEF Clear
<1> QED  BY <1>6, <1>8

\* The guard that is revalidated keeps the paths of accepted roots.
LEMMA RevalidatedFacts ==
    ASSUME Revalidated
    PROVE  /\ RootsAccepted(fs, request.source, request.output)
           /\ SamePath(fs, Canon(fs, request.source), guard.source)
           /\ SamePath(fs, Canon(fs, request.output), guard.output)
BY DEF Revalidated, RevalidateRoots

\* Every step keeps what is known of the sources and the parent of the output.
LEMMA NextBuilding ==
    ASSUME MaxEdits <= 1, Base, Building, [Next]_vars
    PROVE  Building'
<1>0. Typed  BY DEF Base
<1>1. fs \in FileSystems /\ Forest(fs) /\ request.source \in Paths /\ request.output \in Paths
      /\ Canon(fs, request.source) \in Paths /\ guard.source \in Paths
  BY <1>0, RequestFacts, CanonFacts DEF Typed
<1>2. GuardOf(fs, request.source, request.output).source = Canon(fs, request.source)  BY DEF GuardOf
<1>3. ASSUME UNCHANGED <<fs, request, guard, spared, pinned, boundTo, missing, edits>>,
             pc = "guard" => pc' = "failed", pc' \notin {"recheck", "replace", "build"},
             pc \in {"create", "confine", "archives", "ok", "failed"} =>
                 pc' \in {"create", "confine", "archives", "ok", "failed"},
             pc' \in {"symlinks", "pin"} => pc = "build" /\ pc' = "pin"
      PROVE  Building'
  <2>1. Settled'  BY <1>0, <1>3 DEF Building, Settled, Typed, Calls
  <2>2. NotLinked'  BY <1>3 DEF Building, NotLinked
  <2>3. SourceKnown'
    <3>1. \A c : Covers(c)' <=> Covers(c)  BY <1>3 DEF Covers
    <3> QED  BY <1>3, <3>1 DEF Building, SourceKnown
  <2> QED  BY <1>3, <2>1, <2>2, <2>3 DEF Building, ParentFound, ParentClear
<1>4. CASE MakeGuard
  <2>1. pc' \in {"revalidate", "failed"} /\ fs' = fs /\ request' = request
        /\ (pc' = "revalidate" => /\ RootsAccepted(fs, request.source, request.output)
                                  /\ guard' = GuardOf(fs, request.source, request.output))
    BY <1>4 DEF MakeGuard, Call
  <2> QED  BY <2>1 DEF Building, Settled, NotLinked, SourceKnown, ParentFound, ParentClear
<1>5. CASE Revalidate  BY <1>3, <1>5 DEF Revalidate, Check, Call
<1>6. CASE Import
  <2>1. pc = "import" /\ pc' \in {"symlinks", "failed"} /\ spared' = RealDirs(fs, request.source)
        /\ UNCHANGED <<fs, request, guard, pinned, boundTo, missing, edits>>
    BY <1>6 DEF Import, Call
  <2>2. Covers(Canon(fs, request.source))'  BY <1>1, <2>1, RootBelow DEF Covers
  <2>3. edits = 0 => guard.source = Canon(fs, request.source)  BY <1>2, <2>1 DEF Building, Settled
  <2>4. \E c \in Paths : (c = guard'.source \/ (edits' # 0 /\ c = Canon(fs', request'.source))) /\ Covers(c)'
    BY <1>1, <2>1, <2>2, <2>3
  <2>5. SourceKnown'  BY <2>4 DEF SourceKnown
  <2> QED  BY <2>1, <2>5 DEF Building, Settled, NotLinked, ParentFound, ParentClear
<1>7. CASE CheckSymlinks
  <2>1. request.command \in {"build", "check", "package"}  BY <1>0 DEF Typed
  <2>2. pc = "symlinks" /\ pc' \in {"build", "check", "package", "failed"}
        /\ (pc' = "build" => NoSymlinkComponents)
        /\ UNCHANGED <<fs, request, guard, spared, pinned, boundTo, missing, edits>>
    BY <1>7, <2>1 DEF CheckSymlinks, Check, Call
  <2>3. NoSymlinkComponents => ~IsLink(fs, request.output)
    <3>1. Len(request.output) \in Nat \ {0}  BY <1>0, <1>1, RequestFacts, FrontFacts
    <3>2. Upto(request.output, Len(request.output)) = request.output  BY <1>1, NoMore
    <3>3. Len(request.output) \in 1..Len(request.output)  BY <3>1
    <3> QED  BY <3>2, <3>3 DEF NoSymlinkComponents
  <2>4. SourceKnown'
    <3>1. \A c : Covers(c)' <=> Covers(c)  BY <2>2 DEF Covers
    <3> QED  BY <2>2, <3>1 DEF Building, SourceKnown
  <2> QED  BY <2>2, <2>3, <2>4 DEF Building, Settled, NotLinked, ParentFound, ParentClear
<1>8. CASE Write  BY <1>3, <1>8 DEF Write, Check, Call
<1>9. CASE PinParent
  <2> DEFINE P == Resolve(fs, Front(request.output)).dir
  <2>1. pc = "pin" /\ pc' \in {"recheck", "failed"} /\ pinned' = {P}
        /\ (pc' = "recheck" => Found(fs, Front(request.output)))
        /\ UNCHANGED <<fs, request, guard, spared, boundTo, missing, edits>>
    BY <1>9 DEF PinParent, Call
  <2>2. ASSUME pc' = "recheck", edits = 0 PROVE Clear(P)
    <3>1. PICK c \in Paths : c = guard.source /\ Covers(c)  BY <2>1, <2>2 DEF Building, SourceKnown
    <3>2. c = Canon(fs, request.source) /\ RootsAccepted(fs, request.source, request.output)
      BY <1>2, <2>1, <2>2, <3>1 DEF Building, Settled
    <3>3. Found(fs, Front(request.output))  BY <2>1, <2>2
    <3>4. EntryAt(fs, P, Last(request.output)).kind # "link"
      BY <2>1, <2>2, <3>3 DEF Building, NotLinked, IsLink, Found
    <3>5. fs.tree[P][OutputName].kind # "link"  BY <1>0, <3>4, RequestFacts
    <3>6. SamePath(fs, Canon(fs, request.source), c)  BY <3>2 DEF SamePath
    <3> QED  BY <1>0, <3>1, <3>2, <3>3, <3>5, <3>6, FoundParent
  <2>3. \A d : Clear(d)' <=> Clear(d)  BY <2>1 DEF Clear, OutputName
  <2>4. ParentFound'  BY <2>1, <2>2, <2>3 DEF ParentFound
  <2>5. SourceKnown'
    <3>1. \A c : Covers(c)' <=> Covers(c)  BY <2>1 DEF Covers
    <3> QED  BY <2>1, <3>1 DEF Building, SourceKnown
  <2> QED  BY <2>1, <2>4, <2>5 DEF Building, Settled, NotLinked, ParentClear
<1>10. CASE RecheckOutput
  <2>1. pc = "recheck" /\ pc' \in {"replace", "failed"} /\ (pc' = "replace" => Revalidated)
        /\ UNCHANGED <<fs, request, guard, spared, pinned, boundTo, missing, edits>>
    BY <1>10 DEF RecheckOutput, Check, Call
  <2>2. ASSUME pc' = "replace", NEW dir \in pinned
        PROVE  Clear(dir) \/ (edits # 0 /\ fs.tree[dir][OutputName].kind = "link")
    <3>1. CASE Clear(dir)  BY <3>1
    <3>2. CASE edits # 0 /\ Found(fs, Front(request.output)) /\ dir = Resolve(fs, Front(request.output)).dir
      <4>1. PICK c \in Paths : (c = guard.source \/ c = Canon(fs, request.source)) /\ Covers(c)
        BY <2>1 DEF Building, SourceKnown
      <4>2. SamePath(fs, Canon(fs, request.source), c)
        BY <2>1, <2>2, <4>1, RevalidatedFacts DEF SamePath
      <4>3. RootsAccepted(fs, request.source, request.output)  BY <2>1, <2>2, RevalidatedFacts
      <4> QED  BY <1>0, <3>2, <4>1, <4>2, <4>3, FoundParent
    <3> QED  BY <2>1, <3>1, <3>2 DEF Building, ParentFound
  <2>3. \A d : Clear(d)' <=> Clear(d)  BY <2>1 DEF Clear, OutputName
  <2>4. OutputName' = OutputName  BY <2>1 DEF OutputName
  <2>5. ParentClear'  BY <2>1, <2>2, <2>3, <2>4 DEF ParentClear
  <2>6. SourceKnown'
    <3>1. \A c : Covers(c)' <=> Covers(c)  BY <2>1 DEF Covers
    <3> QED  BY <2>1, <3>1 DEF Building, SourceKnown
  <2> QED  BY <2>1, <2>5, <2>6 DEF Building, Settled, NotLinked, ParentFound
<1>11. CASE Replace
  <2>1. pc' \in {"ok", "failed"}  BY <1>11 DEF Replace, Call
  <2> QED  BY <2>1 DEF Building, Settled, NotLinked, SourceKnown, ParentFound, ParentClear
<1>12. CASE CompareOutput  BY <1>3, <1>12 DEF CompareOutput, Check, Call
<1>13. CASE MakeArchiveGuard
  <2>1. pc' \in {"archive", "failed"} /\ fs' = fs /\ request' = request
        /\ (pc' = "archive" => /\ RootsAccepted(fs, request.source, request.output)
                               /\ guard' = GuardOf(fs, request.source, request.output))
    BY <1>13 DEF MakeArchiveGuard, Call
  <2> QED  BY <2>1 DEF Building, Settled, NotLinked, SourceKnown, ParentFound, ParentClear
<1>14. CASE ShowArchiveGuard  BY <1>3, <1>14 DEF ShowArchiveGuard, Check, Call
<1>15. CASE OpenDestination
  <2>1. pc = "open" /\ pc' \in {"contain", "failed"} /\ UNCHANGED <<fs, request, guard, spared, edits>>
    BY <1>15 DEF OpenDestination, Call
  <2> QED  BY <2>1 DEF Building, Settled, NotLinked, SourceKnown, ParentFound, ParentClear
<1>16. CASE Contain  BY <1>3, <1>16 DEF Contain, Check, Call
<1>17. CASE CreateComponent
  <2>1. pc' \in {"create", "failed"}  BY <1>0, <1>17, ComponentFacts
  <2> QED  BY <2>1 DEF Building, Settled, NotLinked, SourceKnown, ParentFound, ParentClear
<1>18. CASE Created  BY <1>3, <1>18 DEF Created, Check, Call
<1>19. CASE Confine  BY <1>3, <1>19 DEF Confine, Check, Call
<1>20. CASE WriteArchives  BY <1>3, <1>20 DEF WriteArchives, Check, Call
<1>21. CASE Edit
  <2>1. edits = 0 /\ edits' # 0  BY <1>0, <1>21, OneEdit
  <2>2. UNCHANGED <<request, pc, guard, spared, pinned>> /\ pinned \in SUBSET Dirs
    BY <1>0, <1>21, EditFacts DEF Typed
  <2>3. (\A c \in Paths : Covers(c) => Covers(c)') /\ \A dir \in Dirs : Clear(dir) => Clear(dir)'
    BY <1>0, <1>21, EditKeeps
  <2>4. SourceKnown'  BY <2>1, <2>2, <2>3 DEF Building, SourceKnown
  <2>5. ParentFound' /\ ParentClear'  BY <2>1, <2>2, <2>3 DEF Building, ParentFound, ParentClear
  <2> QED  BY <2>1, <2>4, <2>5 DEF Building, Settled, NotLinked
<1>22. CASE UNCHANGED vars
  BY <1>22 DEF vars, Building, Settled, NotLinked, SourceKnown, ParentFound, ParentClear, Covers, Clear, OutputName,
               IsLink, Found, EntryAt, Key
<1> QED
  BY <1>4, <1>5, <1>6, <1>7, <1>8, <1>9, <1>10, <1>11, <1>12, <1>13, <1>14, <1>15, <1>16, <1>17, <1>18, <1>19, <1>20,
     <1>21, <1>22 DEF Next

\* What a build replaces is clear of what it imported, with one change by
\* somebody else between any two of its calls.
THEOREM BuildSpares ==
    ASSUME MaxEdits <= 1
    PROVE  Spec => WriteSparesSources
<1>1. Init => Building
  BY DEF Init, Building, Settled, NotLinked, SourceKnown, ParentFound, ParentClear
<1>2. Base /\ Building /\ [Next]_vars => Building'  BY NextBuilding
<1>3. ASSUME Base, Building, [Next]_vars, pc = "replace", pc' = "ok" PROVE \A dir \in pinned : Clear(dir)
  <2>1. Replace
    BY <1>3 DEF Next, vars, MakeGuard, Revalidate, Import, CheckSymlinks, Write, PinParent, RecheckOutput,
                CompareOutput, MakeArchiveGuard, ShowArchiveGuard, OpenDestination, Contain, CreateComponent, Created,
                Confine, WriteArchives, Edit, Check, Call
  <2>2. PICK dir \in pinned : fs.tree[dir][OutputName].kind # "link"  BY <1>3, <2>1 DEF Replace, Call
  <2>3. pinned = {dir}  BY <1>3, <2>2 DEF Base, Typed, Pinning
  <2> QED  BY <1>3, <2>2, <2>3 DEF Building, ParentClear
<1>4. Base /\ Building /\ [Next]_vars => [pc = "replace" /\ pc' = "ok" =>
        \A dir \in pinned :
          /\ dir \notin spared
          /\ fs.tree[dir][OutputName].kind = "dir" => Below(fs, fs.tree[dir][OutputName].dir) \cap spared = {}]_vars
  BY <1>3 DEF Clear
<1>5. Spec => []Base  BY TypesHold
<1> QED  BY <1>1, <1>2, <1>4, <1>5, PTL DEF Spec, WriteSparesSources

-----------------------------------------------------------------------------
(* Archives *)

\* Whatever leads to a directory found for archiving starts with a path that
\* the guard has.
RootsKnown ==
    pc \in {"archive", "open", "contain", "create", "confine"} =>
        \A p \in Paths, d \in spared :
            Leads(fs, p, d) => Starts(fs, guard.source, p) \/ Starts(fs, guard.output, p)

\* The destination goes on from the path of the pinned directory with what is
\* still missing.
Binds(base) ==
    /\ boundTo = base \o missing
    /\ \A p \in Paths, d \in pinned : Leads(fs, p, d) => FoldPath(fs, p) = FoldPath(fs, base)
Bound == pc \in {"contain", "create"} => \E base \in Paths : Binds(base)

Apart == ~Starts(fs, guard.source, boundTo) /\ ~Starts(fs, guard.output, boundTo)
BoundApart == edits = 0 /\ pc \in {"create", "confine"} => Apart

\* The destination that was made still leads to the pinned directory, or a
\* change came after it was known to lie apart.
Confined == pc = "confine" => \A d \in pinned : Leads(fs, boundTo, d) \/ (Apart /\ d \notin spared)
Written == pc = "archives" => pinned \cap spared = {} /\ ~Starts(fs, guard.output, boundTo)

Archiving == RootsKnown /\ Bound /\ BoundApart /\ Confined /\ Written

\* A path that ends with one more name, but for case.
LEMMA FoldOn ==
    ASSUME NEW f \in FileSystems, NEW p \in Paths, p # <<>>, NEW b \in Paths, NEW x \in Names,
           FoldPath(f, Front(p)) = FoldPath(f, b), Key(f, Last(p)) = Key(f, x)
    PROVE  b \o <<x>> \in Paths /\ FoldPath(f, p) = FoldPath(f, b \o <<x>>)
<1>1. /\ Front(p) \in Paths /\ Len(Front(p)) = Len(p) - 1 /\ Last(p) = p[Len(p)] /\ Len(p) \in Nat \ {0}
      /\ \A i \in 1..(Len(p) - 1) : Front(p)[i] = p[i]
  BY FrontFacts
<1>2. Len(Front(p)) = Len(b) /\ \A i \in 1..Len(Front(p)) : Key(f, Front(p)[i]) = Key(f, b[i])
  BY <1>1, FoldsEqual
<1>3. <<x>> \in Paths /\ Len(<<x>>) = 1 /\ <<x>>[1] = x  BY DEF Paths
<1>4. b \o <<x>> \in Paths /\ Len(b \o <<x>>) = Len(p)
      /\ (\A i \in 1..Len(b) : (b \o <<x>>)[i] = b[i]) /\ (b \o <<x>>)[Len(p)] = x
  <2>1. /\ b \o <<x>> \in Paths /\ Len(b \o <<x>>) = Len(b) + 1 /\ Len(b) \in Nat
        /\ \A i \in 1..Len(b) : (b \o <<x>>)[i] = b[i]
        /\ (b \o <<x>>)[Len(b) + 1] = x
    BY <1>3, JoinFacts
  <2>2. Len(b) + 1 = Len(p)  BY <1>1, <1>2, <2>1
  <2> QED  BY <2>1, <2>2
<1>5. \A i \in 1..Len(p) : Key(f, p[i]) = Key(f, (b \o <<x>>)[i])
  <2>1. TAKE i \in 1..Len(p)
  <2>2. CASE i = Len(p)  BY <1>1, <1>4, <2>2
  <2>3. CASE i # Len(p)
    <3>1. i \in 1..(Len(p) - 1)  BY <1>1, <2>3
    <3> QED  BY <1>1, <1>2, <1>4, <3>1
  <2> QED  BY <2>2, <2>3
<1> QED  BY <1>4, <1>5, FoldsEqual

\* Making or entering a component: the paths to the directory that is pinned
\* then are those to the one pinned now with the component's name behind.
LEMMA ComponentBinds ==
    ASSUME Typed, CreateComponent, pc' = "create", NEW base \in Paths, Binds(base)
    PROVE  \E on \in Paths : Binds(on)'
<1>0. PICK x : x = Head(missing)  OBVIOUS
<1>1. /\ missing # <<>> /\ missing' \in Paths /\ x \in Names /\ missing = <<x>> \o missing'
      /\ UNCHANGED <<request, guard, spared, boundTo, edits>>
  BY <1>0, ComponentFacts
<1>2. PICK dir \in Dirs :
        /\ pinned = {dir}
        /\ \/ /\ EntryAt(fs, dir, x).kind = "none"
              /\ NewDir \in Dirs \ {Root} /\ NewDir # dir /\ Unused(fs, NewDir)
              /\ fs' = Put(fs, dir, Key(fs, x), Directory(NewDir)) /\ pinned' = {NewDir}
           \/ /\ EntryAt(fs, dir, x).kind = "dir"
              /\ fs' = fs /\ pinned' = {EntryAt(fs, dir, x).dir}
  BY <1>0, ComponentFacts
<1>3. fs \in FileSystems /\ Forest(fs)  BY DEF Typed
<1>4. <<x>> \in Paths /\ base \o <<x>> \in Paths
  <2>1. <<x>> \in Paths  BY <1>1 DEF Paths
  <2> QED  BY <2>1, JoinFacts
<1> DEFINE on == base \o <<x>>
<1>5. boundTo' = on \o missing'
  <2>1. boundTo' = base \o (<<x>> \o missing')  BY <1>1 DEF Binds
  <2> QED  BY <1>1, <1>4, <2>1, JoinedThrice
<1>6. ASSUME NEW p \in Paths, p # <<>>, Leads(fs, Front(p), dir), Key(fs, Last(p)) = Key(fs, x)
      PROVE  FoldPath(fs, p) = FoldPath(fs, on)
  <2>1. Front(p) \in Paths  BY <1>6, FrontFacts
  <2>2. FoldPath(fs, Front(p)) = FoldPath(fs, base)  BY <1>2, <1>6, <2>1 DEF Binds
  <2> QED  BY <1>1, <1>3, <1>6, <2>2, FoldOn
<1> HIDE DEF on
<1>7. ASSUME NEW p \in Paths, NEW d \in pinned', Leads(fs', p, d) PROVE FoldPath(fs', p) = FoldPath(fs', on)
  <2>1. CASE /\ EntryAt(fs, dir, x).kind = "none"
             /\ NewDir \in Dirs \ {Root} /\ NewDir # dir /\ Unused(fs, NewDir)
             /\ fs' = Put(fs, dir, Key(fs, x), Directory(NewDir)) /\ pinned' = {NewDir}
    <3>1. d = NewDir  BY <1>7, <2>1
    <3>2. Key(fs, x) \in Names /\ fs.tree[dir][Key(fs, x)].kind = "none"  BY <1>1, <1>3, <2>1, KeyFacts DEF EntryAt
    <3>3. p # <<>> /\ Leads(fs, Front(p), dir) /\ Key(fs, Last(p)) = Key(fs, x)
      BY <1>3, <1>7, <2>1, <3>1, <3>2, Grown
    <3>4. fs' \in FileSystems /\ fs'.folds = fs.folds  BY <1>3, <2>1, <3>2, Added
    <3>5. FoldPath(fs', p) = FoldPath(fs, p) /\ FoldPath(fs', on) = FoldPath(fs, on)  BY <1>3, <3>4, FoldKept
    <3> QED  BY <1>6, <3>3, <3>5
  <2>2. CASE EntryAt(fs, dir, x).kind = "dir" /\ fs' = fs /\ pinned' = {EntryAt(fs, dir, x).dir}
    <3>1. d = EntryAt(fs, dir, x).dir /\ Leads(fs, p, d)  BY <1>7, <2>2
    <3>2. d # Root  BY <1>1, <1>3, <2>2, <3>1, OneParent
    <3>3. p # <<>>  BY <1>3, <3>1, <3>2, LeadsNowhere
    <3>4. PICK h \in Dirs : Leads(fs, Front(p), h) /\ EntryAt(fs, h, Last(p)).kind = "dir" /\ EntryAt(fs, h, Last(p)).dir = d
      BY <1>3, <3>1, <3>3, LeadsStep
    <3>5. Last(p) \in Names  BY <3>3, FrontFacts
    <3>6. h = dir /\ Key(fs, Last(p)) = Key(fs, x)  BY <1>1, <1>3, <2>2, <3>1, <3>4, <3>5, OneParent
    <3> QED  BY <1>6, <2>2, <3>3, <3>4, <3>6
  <2> QED  BY <1>2, <2>1, <2>2
<1>8. Binds(on)'  BY <1>5, <1>7 DEF Binds, on
<1> QED  BY <1>4, <1>8 DEF on

\* A component that is made or entered changes neither what covers the roots
\* nor what the destination's path starts with.
LEMMA ComponentKeeps ==
    ASSUME Typed, CreateComponent
    PROVE  /\ fs' \in FileSystems /\ fs'.folds = fs.folds
           /\ \A p \in Paths, d \in spared : Leads(fs', p, d) => Leads(fs, p, d)
<1>1. /\ pc' \in {"create", "failed"} /\ Head(missing) \in Names
      /\ UNCHANGED <<request, guard, spared, boundTo, edits>>
  BY ComponentFacts
<1>2. PICK dir \in Dirs :
          \/ /\ EntryAt(fs, dir, Head(missing)).kind = "none"
             /\ NewDir \in Spare /\ NewDir \in Dirs \ {Root} /\ NewDir # dir /\ Unused(fs, NewDir)
             /\ fs' = Put(fs, dir, Key(fs, Head(missing)), Directory(NewDir))
          \/ fs' = fs
  BY ComponentFacts
<1>3. fs \in FileSystems /\ Forest(fs) /\ spared \in SUBSET (Dirs \ Spare)  BY DEF Typed
<1>4. CASE fs' = fs  BY <1>3, <1>4
<1>5. CASE /\ EntryAt(fs, dir, Head(missing)).kind = "none"
           /\ NewDir \in Spare /\ NewDir \in Dirs \ {Root} /\ NewDir # dir /\ Unused(fs, NewDir)
           /\ fs' = Put(fs, dir, Key(fs, Head(missing)), Directory(NewDir))
  <2>1. Key(fs, Head(missing)) \in Names /\ fs.tree[dir][Key(fs, Head(missing))].kind = "none"
    BY <1>1, <1>3, <1>5, KeyFacts DEF EntryAt
  <2>2. fs' \in FileSystems /\ fs'.folds = fs.folds  BY <1>3, <1>5, <2>1, Added
  <2>3. \A p \in Paths, c \in Dirs : Leads(fs', p, c) /\ c # NewDir => Leads(fs, p, c)
    BY <1>3, <1>5, <2>1, Grown
  <2>4. \A d \in spared : d \in Dirs /\ d # NewDir  BY <1>3, <1>5
  <2> QED  BY <2>2, <2>3, <2>4
<1> QED  BY <1>2, <1>4, <1>5

\* Every step keeps what is known of the roots and the destination.
LEMMA NextArchiving ==
    ASSUME MaxEdits <= 1, Base, Settled, Archiving, [Next]_vars
    PROVE  Archiving'
<1>0. Typed  BY DEF Base
<1>1. /\ fs \in FileSystems /\ Forest(fs) /\ request.source \in Paths /\ request.output \in Paths
      /\ guard.source \in Paths /\ guard.output \in Paths /\ boundTo \in Paths /\ spared \in SUBSET Dirs
      /\ Canon(fs, request.source) \in Paths /\ Canon(fs, request.output) \in Paths
  BY <1>0, RequestFacts, CanonFacts DEF Typed
<1>2. ASSUME UNCHANGED <<fs, guard, spared, pinned, boundTo, missing, edits>>,
             pc' \notin {"create", "confine", "archives"},
             pc' \in {"archive", "open", "contain"} => pc \in {"archive", "open"},
             pc' # "contain"
      PROVE  Archiving'
  BY <1>2 DEF Archiving, RootsKnown, Bound, BoundApart, Confined, Written
<1>3. CASE MakeGuard
  <2>1. pc' \in {"revalidate", "failed"}  BY <1>3 DEF MakeGuard, Call
  <2> QED  BY <2>1 DEF Archiving, RootsKnown, Bound, BoundApart, Confined, Written
<1>4. CASE Revalidate  BY <1>2, <1>4 DEF Revalidate, Check, Call
<1>5. CASE Import
  <2>1. pc' \in {"symlinks", "failed"}  BY <1>5 DEF Import, Call
  <2> QED  BY <2>1 DEF Archiving, RootsKnown, Bound, BoundApart, Confined, Written
<1>6. CASE CheckSymlinks
  <2>1. request.command \in {"build", "check", "package"}  BY <1>0 DEF Typed
  <2>2. pc' \in {"build", "check", "package", "failed"}  BY <1>6, <2>1 DEF CheckSymlinks, Check, Call
  <2> QED  BY <2>2 DEF Archiving, RootsKnown, Bound, BoundApart, Confined, Written
<1>7. CASE Write  BY <1>2, <1>7 DEF Write, Check, Call
<1>8. CASE PinParent
  <2>1. pc' \in {"recheck", "failed"}  BY <1>8 DEF PinParent, Call
  <2> QED  BY <2>1 DEF Archiving, RootsKnown, Bound, BoundApart, Confined, Written
<1>9. CASE RecheckOutput  BY <1>2, <1>9 DEF RecheckOutput, Check, Call
<1>10. CASE Replace
  <2>1. pc' \in {"ok", "failed"}  BY <1>10 DEF Replace, Call
  <2> QED  BY <2>1 DEF Archiving, RootsKnown, Bound, BoundApart, Confined, Written
<1>11. CASE CompareOutput  BY <1>2, <1>11 DEF CompareOutput, Check, Call
<1>12. CASE MakeArchiveGuard
  <2>1. pc' \in {"archive", "failed"} /\ guard' = GuardOf(fs, request.source, request.output) /\ fs' = fs
        /\ spared' = RealDirs(fs, request.source) \cup RealDirs(fs, request.output)
    BY <1>12 DEF MakeArchiveGuard, Call
  <2>2. guard'.source = Canon(fs, request.source) /\ guard'.output = Canon(fs, request.output)
    BY <2>1 DEF GuardOf
  <2>3. \A p \in Paths, d \in RealDirs(fs, request.source) : Leads(fs, p, d) => Starts(fs, guard'.source, p)
    BY <1>1, <2>2, RootBelow
  <2>4. \A p \in Paths, d \in RealDirs(fs, request.output) : Leads(fs, p, d) => Starts(fs, guard'.output, p)
    BY <1>1, <2>2, RootBelow
  <2>5. RootsKnown'  BY <2>1, <2>3, <2>4 DEF RootsKnown
  <2> QED  BY <2>1, <2>5 DEF Archiving, Bound, BoundApart, Confined, Written
<1>13. CASE ShowArchiveGuard  BY <1>2, <1>13 DEF ShowArchiveGuard, Check, Call
<1>14. CASE OpenDestination
  <2>0. PICK existing : existing = Existing(request.destination)  OBVIOUS
  <2>1. /\ pc = "open" /\ pc' \in {"contain", "failed"} /\ (pc' = "contain" => Found(fs, existing))
        /\ pinned' = {Resolve(fs, existing).dir} /\ boundTo' = Canon(fs, existing) \o missing'
        /\ UNCHANGED <<fs, request, guard, spared, edits>>
    BY <1>14, <2>0 DEF OpenDestination, Call
  <2>2. existing \in Paths  BY <1>0, <2>0, ExistingFacts
  <2>3. PICK base \in Paths : base = Canon(fs, existing)  BY <1>1, <2>2, CanonFacts
  <2>4. ASSUME pc' = "contain", NEW p \in Paths, Leads(fs, p, Resolve(fs, existing).dir)
        PROVE  FoldPath(fs, p) = FoldPath(fs, base)
    <3>1. Leads(fs, base, Resolve(fs, existing).dir)  BY <1>1, <2>1, <2>2, <2>3, <2>4, CanonFound
    <3> QED  BY <1>1, <2>4, <3>1, OnePath
  <2>5. pc' = "contain" => Binds(base)'  BY <2>1, <2>3, <2>4 DEF Binds
  <2>6. Bound'  BY <2>1, <2>5 DEF Bound
  <2>7. RootsKnown'  BY <2>1 DEF Archiving, RootsKnown
  <2> QED  BY <2>1, <2>6, <2>7 DEF Archiving, BoundApart, Confined, Written
<1>15. CASE Contain
  <2>1. /\ pc = "contain" /\ pc' \in {"create", "failed"} /\ (pc' = "create" => DestinationAccepted(boundTo))
        /\ UNCHANGED <<fs, request, guard, spared, pinned, boundTo, missing, edits>>
    BY <1>15 DEF Contain, Check, Call
  <2>2. ASSUME pc' = "create", edits = 0 PROVE Apart
    <3>1. guard.source = Canon(fs, request.source) /\ guard.output = Canon(fs, request.output)
      BY <2>1, <2>2 DEF Settled, GuardOf
    <3>2. Disjoint(fs, Canon(fs, request.source), boundTo) /\ Disjoint(fs, Canon(fs, request.output), boundTo)
      BY <2>1, <2>2 DEF DestinationAccepted
    <3> QED  BY <1>1, <3>1, <3>2, DisjointFacts DEF Apart
  <2>3. BoundApart'  BY <2>1, <2>2 DEF BoundApart, Apart
  <2>4. Bound' /\ RootsKnown'  BY <2>1 DEF Archiving, Bound, Binds, RootsKnown
  <2> QED  BY <2>1, <2>3, <2>4 DEF Archiving, Confined, Written
<1>16. CASE CreateComponent
  <2>1. pc = "create" /\ pc' \in {"create", "failed"} /\ UNCHANGED <<request, guard, spared, boundTo, edits>>
    BY <1>0, <1>16, ComponentFacts
  <2>2. /\ fs' \in FileSystems /\ fs'.folds = fs.folds
        /\ \A p \in Paths, d \in spared : Leads(fs', p, d) => Leads(fs, p, d)
    BY <1>0, <1>16, ComponentKeeps
  <2>3. \A c, p : Starts(fs', c, p) <=> Starts(fs, c, p)  BY <1>1, <2>2, FoldKept
  <2>4. Bound'
    <3>1. ASSUME pc' = "create" PROVE \E on \in Paths : Binds(on)'
      <4>1. PICK base \in Paths : Binds(base)  BY <2>1 DEF Archiving, Bound
      <4> QED  BY <1>0, <1>16, <3>1, <4>1, ComponentBinds
    <3> QED  BY <2>1, <3>1 DEF Bound
  <2>5. RootsKnown'  BY <2>1, <2>2, <2>3 DEF Archiving, RootsKnown
  <2>6. BoundApart'  BY <2>1, <2>3 DEF Archiving, BoundApart, Apart
  <2> QED  BY <2>1, <2>4, <2>5, <2>6 DEF Archiving, Confined, Written
<1>17. CASE Created
  <2> DEFINE P == Resolve(fs, request.destination).dir
             q == Resolve(fs, request.destination).path
  <2>1. /\ missing = <<>> /\ pc = "create" /\ pc' \in {"confine", "failed"}
        /\ (pc' = "confine" => Found(fs, request.destination) /\ P \in pinned)
        /\ UNCHANGED <<fs, request, guard, spared, pinned, boundTo, missing, edits>>
    BY <1>17 DEF Created, Check, Call
  <2>2. ASSUME pc' = "confine" PROVE \A d \in pinned : Leads(fs, boundTo, d)
    <3>1. request.destination \in Paths  BY <1>0, RequestFacts
    <3>2. q \in Paths /\ Leads(fs, q, P)  BY <1>1, <2>1, <2>2, <3>1, ResolveFacts DEF Found
    <3>3. PICK base \in Paths : Binds(base)  BY <2>1 DEF Archiving, Bound
    <3>4. boundTo = base  BY <2>1, <3>3, NoMore DEF Binds
    <3>5. FoldPath(fs, q) = FoldPath(fs, boundTo)  BY <2>1, <2>2, <3>2, <3>3, <3>4 DEF Binds
    <3>6. Leads(fs, boundTo, P)  BY <1>1, <3>2, <3>5, LeadsSame
    <3>7. pinned = {P}  BY <1>0, <2>1, <2>2 DEF Typed, Pinning
    <3> QED  BY <3>6, <3>7
  <2>3. Confined'  BY <2>1, <2>2 DEF Confined
  <2>4. BoundApart' /\ RootsKnown'  BY <2>1 DEF Archiving, BoundApart, Apart, RootsKnown
  <2> QED  BY <2>1, <2>3, <2>4 DEF Archiving, Bound, Written
<1>18. CASE Confine
  <2>1. /\ pc = "confine" /\ pc' \in {"archives", "failed"} /\ (pc' = "archives" => DestinationAccepted(boundTo))
        /\ UNCHANGED <<fs, request, guard, spared, pinned, boundTo, missing, edits>>
    BY <1>18 DEF Confine, Check, Call
  <2>2. ASSUME pc' = "archives", NEW d \in pinned PROVE Apart /\ d \notin spared
    <3>1. CASE Apart /\ d \notin spared  BY <3>1
    <3>2. CASE Leads(fs, boundTo, d)
      <4>1. /\ RootsAccepted(fs, request.source, request.output)
            /\ SamePath(fs, Canon(fs, request.source), guard.source)
            /\ SamePath(fs, Canon(fs, request.output), guard.output)
            /\ Disjoint(fs, Canon(fs, request.source), boundTo) /\ Disjoint(fs, Canon(fs, request.output), boundTo)
        BY <2>1, <2>2, RevalidatedFacts DEF DestinationAccepted
      <4>2. Resolves(fs, request.source) /\ Resolves(fs, request.output)  BY <4>1 DEF RootsAccepted
      <4>3. ~Starts(fs, guard.source, boundTo)  BY <1>1, <3>2, <4>1, <4>2, AcceptedBound
      <4>4. ~Starts(fs, guard.output, boundTo)  BY <1>1, <3>2, <4>1, <4>2, AcceptedBound
      <4>5. d \notin spared  BY <1>1, <2>1, <3>2, <4>3, <4>4 DEF Archiving, RootsKnown
      <4> QED  BY <4>3, <4>4, <4>5 DEF Apart
    <3> QED  BY <2>1, <3>1, <3>2 DEF Archiving, Confined
  <2>3. \E d \in Dirs : pinned = {d}  BY <1>0, <2>1 DEF Typed, Pinning
  <2>4. Written'  BY <2>1, <2>2, <2>3 DEF Written, Apart
  <2> QED  BY <2>1, <2>4 DEF Archiving, RootsKnown, Bound, BoundApart, Confined
<1>19. CASE WriteArchives
  <2>1. pc' = "ok"  BY <1>19 DEF WriteArchives, Check, Call
  <2> QED  BY <2>1 DEF Archiving, RootsKnown, Bound, BoundApart, Confined, Written
<1>20. CASE Edit
  <2>1. edits = 0 /\ edits' # 0  BY <1>0, <1>20, OneEdit
  <2>2. /\ fs' \in FileSystems /\ Sparser(fs', fs)
        /\ UNCHANGED <<request, pc, guard, spared, pinned, boundTo, missing>>
    BY <1>0, <1>20, EditFacts
  <2>3. \A c, p : Starts(fs', c, p) <=> Starts(fs, c, p)  BY <1>0, <1>20, EditKeeps
  <2>4. \A p : FoldPath(fs', p) = FoldPath(fs, p)  BY <1>1, <2>2, FoldKept DEF Sparser
  <2>5. \A p \in Paths, d \in Dirs : Leads(fs', p, d) => Leads(fs, p, d)  BY <1>1, <2>2, SparserFacts
  <2>6. pinned \in SUBSET Dirs  BY <1>0 DEF Typed
  <2>7. RootsKnown'  BY <1>1, <2>2, <2>3, <2>5 DEF Archiving, RootsKnown
  <2>8. \A base : Binds(base) => Binds(base)'  BY <2>2, <2>4, <2>5, <2>6 DEF Binds
  <2>9. Bound'  BY <2>2, <2>8 DEF Archiving, Bound
  <2>10. Apart' <=> Apart  BY <2>2, <2>3 DEF Apart
  <2>11. Confined'
    <3>1. ASSUME pc = "confine", NEW d \in pinned, Leads(fs, boundTo, d) PROVE Apart /\ d \notin spared
      <4>1. Apart  BY <2>1, <3>1 DEF Archiving, BoundApart
      <4> QED  BY <1>1, <3>1, <4>1 DEF Archiving, RootsKnown, Apart
    <3>2. pc = "confine" => \A d \in pinned : Apart /\ d \notin spared  BY <3>1 DEF Archiving, Confined
    <3> QED  BY <2>2, <2>10, <3>2 DEF Confined
  <2>12. Written'  BY <2>2, <2>3 DEF Archiving, Written
  <2> QED  BY <2>1, <2>7, <2>9, <2>11, <2>12 DEF Archiving, BoundApart
<1>21. CASE UNCHANGED vars
  BY <1>21 DEF vars, Archiving, RootsKnown, Bound, Binds, BoundApart, Apart, Confined, Written
<1> QED
  BY <1>3, <1>4, <1>5, <1>6, <1>7, <1>8, <1>9, <1>10, <1>11, <1>12, <1>13, <1>14, <1>15, <1>16, <1>17, <1>18, <1>19,
     <1>20, <1>21 DEF Next

\* Archives stay apart from what their guard has found, with one change by
\* somebody else between any two calls.
THEOREM ArchivesApart ==
    ASSUME MaxEdits <= 1
    PROVE  Spec => ArchivesStayApart
<1>1. Init => Building /\ Archiving
  BY DEF Init, Building, Settled, NotLinked, SourceKnown, ParentFound, ParentClear,
         Archiving, RootsKnown, Bound, BoundApart, Confined, Written
<1>2. Base /\ Building /\ Archiving /\ [Next]_vars => (Building /\ Archiving)'
  BY NextBuilding, NextArchiving DEF Building
<1>3. ASSUME Base, Archiving, [Next]_vars, pc = "archives", pc' = "ok"
      PROVE  pinned \cap spared = {} /\ ~IsPrefix(FoldPath(fs, guard.output), FoldPath(fs, boundTo))
  <2>1. pinned \cap spared = {} /\ ~Starts(fs, guard.output, boundTo)  BY <1>3 DEF Archiving, Written
  <2>2. fs \in FileSystems /\ guard.output \in Paths /\ boundTo \in Paths
    BY <1>3, RequestFacts DEF Base, Typed
  <2> QED  BY <2>1, <2>2, StartsIsPrefix
<1>4. Base /\ Archiving /\ [Next]_vars => [pc = "archives" /\ pc' = "ok" =>
        /\ pinned \cap spared = {}
        /\ ~IsPrefix(FoldPath(fs, guard.output), FoldPath(fs, boundTo))]_vars
  BY <1>3
<1>5. Spec => []Base  BY TypesHold
<1> QED  BY <1>1, <1>2, <1>4, <1>5, PTL DEF Spec, ArchivesStayApart
=============================================================================
