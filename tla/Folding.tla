------------------------------ MODULE Folding ------------------------------
(***************************************************************************)
(* What a fold over a sequence comes to, for any operator: FoldLeft of the *)
(* community modules is defined by recursion on sets of indices, and is    *)
(* reached here one element of the sequence after the other.  Instantiated *)
(* with each operator that is folded in module Messages.                   *)
(***************************************************************************)
EXTENDS Integers, SequencesExt, SequenceTheorems, WellFoundedInduction, TLAPS

CONSTANT Op(_, _)

\* A set of numbers that is not empty has a least element: this is the form of
\* induction that is used throughout, on the least number that is an exception.
LEMMA LeastNumber ==
    ASSUME NEW T \in SUBSET Nat, T # {}
    PROVE  \E n \in T : \A m \in T : n <= m
<1> DEFINE R == OpToRel(<, Nat)
<1>1. IsWellFoundedOn(R, Nat)
  BY NatLessThanWellFounded
<1>2. \A n, m \in Nat : m < n => <<m, n>> \in R
  BY DEF OpToRel
<1> HIDE DEF R
<1>3. PICK n \in T : \A m \in T : ~ (<<m, n>> \in R)
  BY <1>1, WFMin, Zenon
<1>4. ASSUME NEW m \in T PROVE n <= m
  <2>1. n \in Nat /\ m \in Nat /\ ~ (m < n)
    BY <1>2, <1>3
  <2> QED
    BY <2>1
<1> QED
  BY <1>4

\* What is true at first, and at each number if it is at the one before, is true
\* of all of them, said of the set of the numbers it is true of.
LEMMA UpTo ==
    ASSUME NEW n \in Nat, NEW G, 0 \in G,
           \A i \in 1..n : i - 1 \in G => i \in G
    PROVE  \A i \in 0..n : i \in G
<1> DEFINE T == {i \in 0..n : i \notin G}
<1> SUFFICES ASSUME T # {} PROVE FALSE
  OBVIOUS
<1>1. T \in SUBSET Nat
  OBVIOUS
<1>2. PICK i \in T : \A m \in T : i <= m
  BY <1>1, LeastNumber
<1>3. i \in 1..n /\ i - 1 \in 0..n
  BY <1>2
<1>4. i - 1 \notin T
  BY <1>2, <1>3
<1> QED
  BY <1>2, <1>3, <1>4

\* The function by which a fold of a sequence is defined, on the first n elements.
IsIter(iter, base, seq, n) ==
    iter = [s \in SUBSET (1..n) |->
               IF s = {} THEN base ELSE Op(iter[s \ {Max(s)}], seq[Max(s)])]

\* There is one, whatever the operator.
LEMMA IterExists ==
    ASSUME NEW base, NEW seq, NEW length \in Nat
    PROVE  \E iter : IsIter(iter, base, seq, length)
<1> DEFINE T == {n \in Nat : ~ \E iter : IsIter(iter, base, seq, n)}
<1> SUFFICES ASSUME T # {} PROVE FALSE
  OBVIOUS
<1>1. PICK n \in T : \A m \in T : n <= m
  BY LeastNumber
<1>2. n # 0
  <2> DEFINE g == [s \in SUBSET (1..0) |-> base]
  <2>1. \A s \in SUBSET (1..0) : s = {}
    OBVIOUS
  <2>2. IsIter(g, base, seq, 0)
    BY <2>1 DEF IsIter
  <2> QED
    BY <1>1, <2>2
<1> DEFINE p == n - 1
<1>3. p \in Nat /\ n = p + 1 /\ p \notin T
  BY <1>1, <1>2
<1> HIDE DEF p
<1>4. PICK g : IsIter(g, base, seq, p)
  BY <1>3
<1> DEFINE h == [s \in SUBSET (1..n) |->
                    IF n \in s THEN Op(g[s \ {n}], seq[n]) ELSE g[s]]
<1>5. ASSUME NEW s \in SUBSET (1..n)
      PROVE  h[s] = IF s = {} THEN base ELSE Op(h[s \ {Max(s)}], seq[Max(s)])
  <2>1. CASE n \in s
    <3>1. Max(s) = n
      <4>1. \A y \in s : y \in Int /\ n >= y
        BY <1>1
      <4>2. \A x \in s : (\A y \in s : x >= y) <=> x = n
        BY <1>1, <2>1, <4>1
      <4> QED
        BY <2>1, <4>2 DEF Max
    <3>2. s \ {n} \in SUBSET (1..n) /\ n \notin s \ {n}
      OBVIOUS
    <3>3. h[s \ {n}] = g[s \ {n}]
      BY <3>2
    <3> QED
      BY <2>1, <3>1, <3>3
  <2>2. CASE n \notin s
    <3>1. s \in SUBSET (1..p)
      BY <1>3, <2>2
    <3> DEFINE rest == s \ {Max(s)}
    <3>4. rest \in SUBSET (1..n) /\ n \notin rest
      BY <2>2
    <3>2. h[s] = g[s] /\ h[s \ {Max(s)}] = g[s \ {Max(s)}]
      BY <2>2, <3>4
    <3>3. g[s] = IF s = {} THEN base ELSE Op(g[s \ {Max(s)}], seq[Max(s)])
      BY <1>4, <3>1 DEF IsIter
    <3> QED
      BY <3>2, <3>3
  <2> QED
    BY <2>1, <2>2
<1>6. h = [s \in SUBSET (1..n) |->
              IF s = {} THEN base ELSE Op(h[s \ {Max(s)}], seq[Max(s)])]
  <2>1. h = [s \in SUBSET (1..n) |-> h[s]]
    OBVIOUS
  <2> HIDE DEF h
  <2> QED
    BY <1>5, <2>1
<1> QED
  BY <1>1, <1>6 DEF IsIter

\* What has been folded of the sequence after each element.
IsChain(chain, base, seq) ==
    /\ chain = [i \in 0..Len(seq) |-> chain[i]]
    /\ chain[0] = base
    /\ \A i \in 1..Len(seq) : chain[i] = Op(chain[i - 1], seq[i])

\* A fold comes to the end of such a chain.
LEMMA FoldIsChain ==
    ASSUME NEW S, NEW seq \in Seq(S), NEW base
    PROVE  \E chain : /\ IsChain(chain, base, seq)
                      /\ FoldLeft(Op, base, seq) = chain[Len(seq)]
<1> DEFINE iter == CHOOSE g : IsIter(g, base, seq, Len(seq))
<1>1. IsIter(iter, base, seq, Len(seq))
  BY IterExists
<1>2. DOMAIN seq = 1..Len(seq) /\ Len(seq) \in Nat
  OBVIOUS
<1>3. FoldLeft(Op, base, seq) = iter[1..Len(seq)]
  BY <1>2, Zenon DEF FoldLeft, MapThenFoldSet, IsIter
<1> HIDE DEF iter
<1> DEFINE chain == [i \in 0..Len(seq) |-> iter[1..i]]
<1>4. chain[0] = base
  <2>1. 1..0 = {}
    OBVIOUS
  <2> QED
    BY <1>1, <1>2, <2>1 DEF IsIter
<1>5. ASSUME NEW i \in 1..Len(seq) PROVE chain[i] = Op(chain[i - 1], seq[i])
  <2>0. i \in Nat /\ i # 0 /\ Len(seq) \in Nat /\ i <= Len(seq)
    BY <1>2
  <2>1. Max(1..i) = i
    <3>1. \A x \in 1..i : (\A y \in 1..i : x >= y) <=> x = i
      BY <2>0
    <3> QED
      BY <2>0, <3>1 DEF Max
  <2>2. (1..i) \ {i} = 1..(i - 1)
    BY <2>0
  <2>4. i \in 1..i /\ 1..i \in SUBSET (1..Len(seq))
    <3>1. \A x \in 1..i : x \in 1..Len(seq)
      BY <2>0
    <3> QED
      BY <2>0, <3>1
  <2>3. iter[1..i] = Op(iter[1..(i - 1)], seq[i])
    BY <1>1, <2>1, <2>2, <2>4 DEF IsIter
  <2> QED
    BY <2>0, <2>3
<1>6. chain = [i \in 0..Len(seq) |-> chain[i]] /\ chain[Len(seq)] = iter[1..Len(seq)]
  BY <1>2
<1> HIDE DEF chain
<1> QED
  BY <1>3, <1>4, <1>5, <1>6 DEF IsChain

\* Two chains for sequences that agree up to an element agree up to there.
LEMMA ChainsAgree ==
    ASSUME NEW seq, NEW other, NEW base,
           NEW f, IsChain(f, base, seq), NEW g, IsChain(g, base, other),
           Len(seq) \in Nat, Len(other) \in Nat,
           NEW length \in Nat, length <= Len(seq), length <= Len(other),
           \A i \in 1..length : seq[i] = other[i]
    PROVE  f[length] = g[length]
<1> DEFINE T == {n \in 0..length : f[n] # g[n]}
<1> SUFFICES ASSUME T # {} PROVE FALSE
  OBVIOUS
<1>0. T \in SUBSET Nat
  OBVIOUS
<1>1. PICK n \in T : \A m \in T : n <= m
  BY <1>0, LeastNumber
<1>2. n # 0
  BY <1>1 DEF IsChain
<1>3. n \in 1..Len(seq) /\ n \in 1..Len(other) /\ n - 1 \in 0..length /\ n \in 1..length
  BY <1>1, <1>2
<1>4. f[n - 1] = g[n - 1]
  BY <1>1, <1>3
<1> QED
  BY <1>1, <1>3, <1>4 DEF IsChain

LEMMA FoldEmpty ==
    ASSUME NEW base
    PROVE  FoldLeft(Op, base, <<>>) = base
<1>1. <<>> \in Seq({}) /\ Len(<<>>) = 0
  OBVIOUS
<1>2. PICK chain : /\ IsChain(chain, base, <<>>)
                   /\ FoldLeft(Op, base, <<>>) = chain[Len(<<>>)]
  BY <1>1, FoldIsChain
<1> QED
  BY <1>1, <1>2 DEF IsChain

\* One element more is one step more.
LEMMA FoldAppend ==
    ASSUME NEW S, NEW seq \in Seq(S), NEW x \in S, NEW base
    PROVE  FoldLeft(Op, base, Append(seq, x)) = Op(FoldLeft(Op, base, seq), x)
<1>1. /\ Append(seq, x) \in Seq(S) /\ Len(Append(seq, x)) = Len(seq) + 1
      /\ \A i \in 1..Len(seq) : Append(seq, x)[i] = seq[i]
      /\ Append(seq, x)[Len(seq) + 1] = x
      /\ Len(seq) \in Nat
  BY AppendProperties
<1>2. PICK f : IsChain(f, base, seq) /\ FoldLeft(Op, base, seq) = f[Len(seq)]
  BY FoldIsChain
<1>3. PICK g : /\ IsChain(g, base, Append(seq, x))
               /\ FoldLeft(Op, base, Append(seq, x)) = g[Len(Append(seq, x))]
  BY <1>1, FoldIsChain
<1>4. f[Len(seq)] = g[Len(seq)]
  <2> DEFINE other == Append(seq, x)
  <2>1. /\ Len(seq) \in Nat /\ Len(other) \in Nat
        /\ Len(seq) <= Len(seq) /\ Len(seq) <= Len(other)
    BY <1>1
  <2>2. \A i \in 1..Len(seq) : seq[i] = other[i]
    BY <1>1
  <2>3. IsChain(f, base, seq) /\ IsChain(g, base, other)
    BY <1>2, <1>3
  <2> HIDE DEF other
  <2> QED
    BY <2>1, <2>2, <2>3, ChainsAgree
<1>5. g[Len(seq) + 1] = Op(g[Len(seq)], x)
  BY <1>1, <1>3 DEF IsChain
<1> QED
  BY <1>1, <1>2, <1>3, <1>4, <1>5
=============================================================================
