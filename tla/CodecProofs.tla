---------------------------- MODULE CodecProofs ----------------------------
(***************************************************************************)
(* Proofs about the bytes of messages and the stream they are sent in: a   *)
(* packed message is filled again with what it was packed from, whatever   *)
(* follows it, and has the length its header says; hence the framing of    *)
(* the stream is never lost and the handlers of a connection see the       *)
(* messages that were sent, wherever TCP has cut them.  For every set of   *)
(* messages, any number of them, and pieces of any size.                   *)
(***************************************************************************)
EXTENDS Codec, SequenceTheorems, WellFoundedInduction, TLAPS

\* The folds of modules Messages and Codec, and the one by which Shifted could have
\* been defined.
Divided(n, by) == n \div by

Adding == INSTANCE Folding WITH Op <- Plus
Numbering == INSTANCE Folding WITH Op <- AddByte
Dividing == INSTANCE Folding WITH Op <- Divided
Filling == INSTANCE Folding WITH Op <- FillValue
FillingStructs == INSTANCE Folding WITH Op <- FillStruct
FillingFields == INSTANCE Folding WITH Op <- FillField
Keeping == INSTANCE Folding WITH Op <- KeepHandled

\* They are the folds that module Folding speaks of.
LEMMA AddingFold ==
    ASSUME NEW base, NEW seq
    PROVE  FoldLeft(Plus, base, seq) = Adding!FoldLeft(Plus, base, seq)
BY Zenon DEF FoldLeft, MapThenFoldSet, Max,
             Adding!FoldLeft, Adding!MapThenFoldSet, Adding!Max

LEMMA NumberingFold ==
    ASSUME NEW base, NEW seq
    PROVE  FoldLeft(AddByte, base, seq) = Numbering!FoldLeft(AddByte, base, seq)
BY Zenon DEF FoldLeft, MapThenFoldSet, Max,
             Numbering!FoldLeft, Numbering!MapThenFoldSet, Numbering!Max

LEMMA DividingFold ==
    ASSUME NEW base, NEW seq
    PROVE  FoldLeft(Divided, base, seq) = Dividing!FoldLeft(Divided, base, seq)
BY Zenon DEF FoldLeft, MapThenFoldSet, Max,
             Dividing!FoldLeft, Dividing!MapThenFoldSet, Dividing!Max

LEMMA FillingFold ==
    ASSUME NEW base, NEW seq
    PROVE  FoldLeft(FillValue, base, seq) = Filling!FoldLeft(FillValue, base, seq)
BY Zenon DEF FoldLeft, MapThenFoldSet, Max,
             Filling!FoldLeft, Filling!MapThenFoldSet, Filling!Max

LEMMA FillingStructsFold ==
    ASSUME NEW base, NEW seq
    PROVE  FoldLeft(FillStruct, base, seq)
             = FillingStructs!FoldLeft(FillStruct, base, seq)
BY Zenon DEF FoldLeft, MapThenFoldSet, Max,
             FillingStructs!FoldLeft, FillingStructs!MapThenFoldSet, FillingStructs!Max

LEMMA FillingFieldsFold ==
    ASSUME NEW base, NEW seq
    PROVE  FoldLeft(FillField, base, seq) = FillingFields!FoldLeft(FillField, base, seq)
BY Zenon DEF FoldLeft, MapThenFoldSet, Max,
             FillingFields!FoldLeft, FillingFields!MapThenFoldSet, FillingFields!Max

LEMMA KeepingFold ==
    ASSUME NEW base, NEW seq
    PROVE  FoldLeft(KeepHandled, base, seq) = Keeping!FoldLeft(KeepHandled, base, seq)
BY Zenon DEF FoldLeft, MapThenFoldSet, Max,
             Keeping!FoldLeft, Keeping!MapThenFoldSet, Keeping!Max

\* Each comes to the end of a chain of its steps.
LEMMA AddingChain ==
    ASSUME NEW S, NEW seq \in Seq(S), NEW base
    PROVE  \E chain : /\ Adding!IsChain(chain, base, seq)
                      /\ FoldLeft(Plus, base, seq) = chain[Len(seq)]
<1>1. FoldLeft(Plus, base, seq) = Adding!FoldLeft(Plus, base, seq)
  BY AddingFold, Zenon
<1>2. \E chain : /\ Adding!IsChain(chain, base, seq)
                 /\ Adding!FoldLeft(Plus, base, seq) = chain[Len(seq)]
  BY Adding!FoldIsChain, Zenon
<1> QED
  BY <1>1, <1>2, Zenon

LEMMA NumberingChain ==
    ASSUME NEW S, NEW seq \in Seq(S), NEW base
    PROVE  \E chain : /\ Numbering!IsChain(chain, base, seq)
                      /\ FoldLeft(AddByte, base, seq) = chain[Len(seq)]
<1>1. FoldLeft(AddByte, base, seq) = Numbering!FoldLeft(AddByte, base, seq)
  BY NumberingFold, Zenon
<1>2. \E chain : /\ Numbering!IsChain(chain, base, seq)
                 /\ Numbering!FoldLeft(AddByte, base, seq) = chain[Len(seq)]
  BY Numbering!FoldIsChain, Zenon
<1> QED
  BY <1>1, <1>2, Zenon

LEMMA FillingChain ==
    ASSUME NEW S, NEW seq \in Seq(S), NEW base
    PROVE  \E chain : /\ Filling!IsChain(chain, base, seq)
                      /\ FoldLeft(FillValue, base, seq) = chain[Len(seq)]
<1>1. FoldLeft(FillValue, base, seq) = Filling!FoldLeft(FillValue, base, seq)
  BY FillingFold, Zenon
<1>2. \E chain : /\ Filling!IsChain(chain, base, seq)
                 /\ Filling!FoldLeft(FillValue, base, seq) = chain[Len(seq)]
  BY Filling!FoldIsChain, Zenon
<1> QED
  BY <1>1, <1>2, Zenon

LEMMA FillingStructsChain ==
    ASSUME NEW S, NEW seq \in Seq(S), NEW base
    PROVE  \E chain : /\ FillingStructs!IsChain(chain, base, seq)
                      /\ FoldLeft(FillStruct, base, seq) = chain[Len(seq)]
<1>1. FoldLeft(FillStruct, base, seq) = FillingStructs!FoldLeft(FillStruct, base, seq)
  BY FillingStructsFold, Zenon
<1>2. \E chain : /\ FillingStructs!IsChain(chain, base, seq)
                 /\ FillingStructs!FoldLeft(FillStruct, base, seq) = chain[Len(seq)]
  BY FillingStructs!FoldIsChain, Zenon
<1> QED
  BY <1>1, <1>2, Zenon

LEMMA FillingFieldsChain ==
    ASSUME NEW S, NEW seq \in Seq(S), NEW base
    PROVE  \E chain : /\ FillingFields!IsChain(chain, base, seq)
                      /\ FoldLeft(FillField, base, seq) = chain[Len(seq)]
<1>1. FoldLeft(FillField, base, seq) = FillingFields!FoldLeft(FillField, base, seq)
  BY FillingFieldsFold, Zenon
<1>2. \E chain : /\ FillingFields!IsChain(chain, base, seq)
                 /\ FillingFields!FoldLeft(FillField, base, seq) = chain[Len(seq)]
  BY FillingFields!FoldIsChain, Zenon
<1> QED
  BY <1>1, <1>2, Zenon

\* One element more is one step more.
LEMMA DividingAppend ==
    ASSUME NEW S, NEW seq \in Seq(S), NEW x \in S, NEW base
    PROVE  FoldLeft(Divided, base, Append(seq, x))
             = Divided(FoldLeft(Divided, base, seq), x)
<1>1. /\ FoldLeft(Divided, base, seq) = Dividing!FoldLeft(Divided, base, seq)
      /\ FoldLeft(Divided, base, Append(seq, x))
           = Dividing!FoldLeft(Divided, base, Append(seq, x))
  BY DividingFold, Zenon
<1>2. Dividing!FoldLeft(Divided, base, Append(seq, x))
        = Divided(Dividing!FoldLeft(Divided, base, seq), x)
  BY Dividing!FoldAppend, Zenon
<1> QED
  BY <1>1, <1>2, Zenon

LEMMA KeepingAppend ==
    ASSUME NEW S, NEW seq \in Seq(S), NEW x \in S, NEW base
    PROVE  FoldLeft(KeepHandled, base, Append(seq, x))
             = KeepHandled(FoldLeft(KeepHandled, base, seq), x)
<1>1. /\ FoldLeft(KeepHandled, base, seq) = Keeping!FoldLeft(KeepHandled, base, seq)
      /\ FoldLeft(KeepHandled, base, Append(seq, x))
           = Keeping!FoldLeft(KeepHandled, base, Append(seq, x))
  BY KeepingFold, Zenon
<1>2. Keeping!FoldLeft(KeepHandled, base, Append(seq, x))
        = KeepHandled(Keeping!FoldLeft(KeepHandled, base, seq), x)
  BY Keeping!FoldAppend, Zenon
<1> QED
  BY <1>1, <1>2, Zenon

----------------------------------------------------------------------------
(* Sequences of bytes, and sequences of them put together.  The names keep  *)
(* the provers from looking into them.                                     *)

Bytes == Seq(Byte)
Strings == Seq(Bytes)

LEMMA ConcatBytes ==
    ASSUME NEW s \in Bytes, NEW t \in Bytes
    PROVE  /\ s \o t \in Bytes
           /\ Len(s \o t) = Len(s) + Len(t)
           /\ Len(s) \in Nat
BY ConcatProperties DEF Bytes

LEMMA ConcatThree ==
    ASSUME NEW s \in Bytes, NEW t \in Bytes, NEW u \in Bytes
    PROVE  (s \o t) \o u = s \o (t \o u)
BY DEF Bytes

LEMMA ConcatNone ==
    ASSUME NEW s \in Bytes
    PROVE  /\ <<>> \in Bytes
           /\ <<>> \o s = s
           /\ s \o <<>> = s
BY ConcatEmptySeq DEF Bytes

LEMMA NoBytes == <<>> \in Bytes /\ Len(<<>>) = 0
BY DEF Bytes

LEMMA StringsType ==
    ASSUME NEW seqs \in Strings
    PROVE  /\ Len(seqs) \in Nat
           /\ DOMAIN seqs = 1..Len(seqs)
           /\ \A i \in 1..Len(seqs) : seqs[i] \in Bytes
BY DEF Strings

LEMMA StringsMade ==
    ASSUME NEW n \in Nat, NEW f, \A i \in 1..n : f[i] \in Bytes
    PROVE  /\ [i \in 1..n |-> f[i]] \in Strings
           /\ Len([i \in 1..n |-> f[i]]) = n
BY DEF Strings

\* What has been put together after each of the first n of them.
IsJoin(join, seqs, n) ==
    /\ join[0] = <<>>
    /\ \A i \in 1..n : join[i] = join[i - 1] \o seqs[i]

\* `rest` is what follows the first.
Follows(rest, seqs, n) == \A i \in 1..n : seqs[i + 1] = rest[i]

\* What is put together of bytes is bytes.
LEMMA JoinType ==
    ASSUME NEW n \in Nat, NEW seqs, \A i \in 1..n : seqs[i] \in Bytes,
           NEW join, IsJoin(join, seqs, n)
    PROVE  \A i \in 0..n : join[i] \in Bytes
<1> DEFINE G == {i \in 0..n : join[i] \in Bytes}
<1>1. 0 \in G
  <2>1. join[0] = <<>>
    BY Zenon DEF IsJoin
  <2> QED
    BY <2>1, NoBytes
<1>2. ASSUME NEW i \in 1..n, i - 1 \in G PROVE i \in G
  <2>1. join[i] = join[i - 1] \o seqs[i]
    BY Zenon DEF IsJoin
  <2>2. join[i - 1] \in Bytes /\ seqs[i] \in Bytes
    BY <1>2
  <2>3. join[i - 1] \o seqs[i] \in Bytes
    BY <2>2, ConcatBytes, Zenon
  <2>4. join[i] \in Bytes /\ i \in 0..n
    <3>1. i \in 0..n
      OBVIOUS
    <3> QED
      BY <2>1, <2>3, <3>1, Zenon
  <2> QED
    BY <2>4, Zenon
<1>3. \A i \in 0..n : i \in G
  <2> HIDE DEF G
  <2> QED
    BY <1>1, <1>2, Adding!UpTo
<1> QED
  BY <1>3

\* The first of them may as well be put before the others at the end.
LEMMA JoinHead ==
    ASSUME NEW n \in Nat,
           NEW seqs, seqs[1] \in Bytes, NEW f, IsJoin(f, seqs, n + 1),
           NEW rest, \A i \in 1..n : rest[i] \in Bytes, NEW g, IsJoin(g, rest, n),
           Follows(rest, seqs, n)
    PROVE  f[n + 1] = seqs[1] \o g[n]
<1> DEFINE G == {i \in 0..n : f[i + 1] = seqs[1] \o g[i]}
<1>0. \A i \in 0..n : g[i] \in Bytes
  BY JoinType
<1>1. 0 \in G
  <2>1. 1 \in 1..(n + 1) /\ 1 - 1 = 0
    OBVIOUS
  <2>2. f[0] = <<>> /\ g[0] = <<>> /\ f[1] = f[1 - 1] \o seqs[1]
    BY <2>1, Zenon DEF IsJoin
  <2>3. f[1] = <<>> \o seqs[1]
    BY <2>1, <2>2
  <2>4. f[1] = seqs[1] \o g[0]
    BY <2>2, <2>3, ConcatNone, Zenon
  <2>5. 0 \in 0..n /\ 0 + 1 = 1
    OBVIOUS
  <2> QED
    BY <2>4, <2>5
<1>2. ASSUME NEW i \in 1..n, i - 1 \in G PROVE i \in G
  <2>1. /\ i \in 0..n /\ i - 1 \in 0..n /\ i + 1 \in 1..(n + 1)
        /\ (i + 1) - 1 = i /\ (i - 1) + 1 = i
    OBVIOUS
  <2>2. f[i] = seqs[1] \o g[i - 1]
    BY <1>2, <2>1
  <2>3. f[i + 1] = f[(i + 1) - 1] \o seqs[i + 1] /\ g[i] = g[i - 1] \o rest[i]
    BY <2>1, Zenon DEF IsJoin
  <2>4. seqs[i + 1] = rest[i]
    BY Zenon DEF Follows
  <2>5. g[i - 1] \in Bytes /\ rest[i] \in Bytes
    BY <1>0, <2>1
  <2>6. (seqs[1] \o g[i - 1]) \o rest[i] = seqs[1] \o (g[i - 1] \o rest[i])
    BY <2>5, ConcatThree, Zenon
  <2>7. f[i + 1] = seqs[1] \o g[i]
    BY <2>1, <2>2, <2>3, <2>4, <2>6, Zenon
  <2> QED
    BY <2>1, <2>7
<1>3. n \in G
  <2>1. \A i \in 0..n : i \in G
    <3> HIDE DEF G
    <3> QED
      BY <1>1, <1>2, Adding!UpTo
  <2>2. n \in 0..n
    OBVIOUS
  <2> QED
    BY <2>1, <2>2, Zenon
<1> QED
  BY <1>3

\* It depends on nothing but the sequences put together.
LEMMA JoinsAgree ==
    ASSUME NEW n \in Nat, NEW seqs, NEW f, IsJoin(f, seqs, n),
           NEW others, NEW g, IsJoin(g, others, n),
           \A i \in 1..n : seqs[i] = others[i]
    PROVE  f[n] = g[n]
<1> DEFINE G == {i \in 0..n : f[i] = g[i]}
<1>1. 0 \in G
  <2>1. f[0] = <<>> /\ g[0] = <<>>
    BY Zenon DEF IsJoin
  <2> QED
    BY <2>1
<1>2. ASSUME NEW i \in 1..n, i - 1 \in G PROVE i \in G
  <2>1. f[i] = f[i - 1] \o seqs[i] /\ g[i] = g[i - 1] \o others[i]
    BY Zenon DEF IsJoin
  <2>2. f[i - 1] = g[i - 1] /\ seqs[i] = others[i]
    BY <1>2
  <2>3. f[i] = g[i] /\ i \in 0..n
    BY <2>1, <2>2
  <2> QED
    BY <2>3
<1>3. n \in G
  <2>1. \A i \in 0..n : i \in G
    <3> HIDE DEF G
    <3> QED
      BY <1>1, <1>2, Adding!UpTo
  <2>2. n \in 0..n
    OBVIOUS
  <2> QED
    BY <2>1, <2>2, Zenon
<1> QED
  BY <1>3

\* The function by which FlattenSeq is defined, on the first n sequences.
IsFlatten(flatten, seqs, n) ==
    flatten = [i \in 1..n |-> IF i = 1 THEN seqs[i] ELSE flatten[i - 1] \o seqs[i]]

LEMMA FlattenExists ==
    ASSUME NEW seqs, NEW length \in Nat
    PROVE  \E flatten : IsFlatten(flatten, seqs, length)
<1> DEFINE T == {n \in Nat : ~ \E flatten : IsFlatten(flatten, seqs, n)}
<1> SUFFICES ASSUME T # {} PROVE FALSE
  OBVIOUS
<1>1. PICK n \in T : \A m \in T : n <= m
  BY Adding!LeastNumber
<1>2. n # 0
  <2> DEFINE g == [i \in 1..0 |-> <<>>]
  <2>1. IsFlatten(g, seqs, 0)
    BY DEF IsFlatten
  <2> QED
    BY <1>1, <2>1
<1> DEFINE p == n - 1
<1>3. p \in Nat /\ n = p + 1 /\ p \notin T
  BY <1>1, <1>2
<1> HIDE DEF p
<1>4. PICK g : IsFlatten(g, seqs, p)
  BY <1>3
<1> DEFINE last == IF n = 1 THEN seqs[n] ELSE g[p] \o seqs[n]
           h == [i \in 1..n |-> IF i = n THEN last ELSE g[i]]
<1>5. ASSUME NEW i \in 1..n
      PROVE  h[i] = IF i = 1 THEN seqs[i] ELSE h[i - 1] \o seqs[i]
  <2>1. CASE i = n
    <3>1. n # 1 => h[i - 1] = g[p]
      BY <1>3, <2>1
    <3> QED
      BY <1>3, <2>1, <3>1
  <2>2. CASE i # n
    <3>1. i \in 1..p /\ (i # 1 => i - 1 \in 1..p)
      BY <1>3, <2>2
    <3>2. h[i] = g[i] /\ (i # 1 => h[i - 1] = g[i - 1])
      BY <1>3, <2>2, <3>1
    <3>3. g[i] = IF i = 1 THEN seqs[i] ELSE g[i - 1] \o seqs[i]
      BY <1>4, <3>1 DEF IsFlatten
    <3> QED
      BY <3>2, <3>3
  <2> QED
    BY <2>1, <2>2
<1>6. h = [i \in 1..n |-> h[i]]
  OBVIOUS
<1> HIDE DEF h
<1>7. IsFlatten(h, seqs, n)
  BY <1>5, <1>6 DEF IsFlatten
<1> QED
  BY <1>1, <1>7

LEMMA FlattenIsJoin ==
    ASSUME NEW seqs \in Strings
    PROVE  \E join : /\ IsJoin(join, seqs, Len(seqs))
                     /\ FlattenSeq(seqs) = join[Len(seqs)]
<1> DEFINE flatten == CHOOSE g : IsFlatten(g, seqs, Len(seqs))
           join == [i \in 0..Len(seqs) |-> IF i = 0 THEN <<>> ELSE flatten[i]]
<1>0. Len(seqs) \in Nat /\ \A i \in 1..Len(seqs) : seqs[i] \in Bytes
  BY StringsType
<1>1. IsFlatten(flatten, seqs, Len(seqs))
  BY <1>0, FlattenExists
<1>2. FlattenSeq(seqs) = IF Len(seqs) = 0 THEN seqs ELSE flatten[Len(seqs)]
  BY Zenon DEF FlattenSeq, IsFlatten
<1> HIDE DEF flatten
<1>3. FlattenSeq(seqs) = join[Len(seqs)]
  <2>1. Len(seqs) = 0 => seqs = <<>>
    BY DEF Strings
  <2> QED
    BY <1>0, <1>2, <2>1
<1>4. join[0] = <<>>
  BY <1>0
<1>5. ASSUME NEW i \in 1..Len(seqs) PROVE join[i] = join[i - 1] \o seqs[i]
  <2>1. flatten[i] = IF i = 1 THEN seqs[i] ELSE flatten[i - 1] \o seqs[i]
    BY <1>1 DEF IsFlatten
  <2>2. CASE i = 1
    <3>1. <<>> \o seqs[i] = seqs[i]
      BY <1>0, ConcatNone
    <3>2. join[i] = seqs[i] /\ join[i - 1] = <<>>
      BY <1>0, <2>1, <2>2
    <3> QED
      BY <3>1, <3>2
  <2>3. CASE i # 1
    <3>1. join[i] = flatten[i] /\ join[i - 1] = flatten[i - 1]
      BY <1>0, <2>3
    <3> QED
      BY <2>1, <2>3, <3>1
  <2> QED
    BY <2>2, <2>3
<1> HIDE DEF join
<1> QED
  BY <1>3, <1>4, <1>5 DEF IsJoin

LEMMA FlattenType ==
    ASSUME NEW seqs \in Strings
    PROVE  FlattenSeq(seqs) \in Bytes
<1>1. PICK join : /\ IsJoin(join, seqs, Len(seqs))
                  /\ FlattenSeq(seqs) = join[Len(seqs)]
  BY FlattenIsJoin
<1>2. /\ Len(seqs) \in Nat /\ Len(seqs) \in 0..Len(seqs)
      /\ \A i \in 1..Len(seqs) : seqs[i] \in Bytes
  BY StringsType
<1>3. \A i \in 0..Len(seqs) : join[i] \in Bytes
  BY <1>1, <1>2, JoinType, Zenon
<1> QED
  BY <1>1, <1>2, <1>3, Zenon

LEMMA FlattenNone == FlattenSeq(<<>>) = <<>>
BY DEF FlattenSeq

\* The first of the sequences is what comes first.
LEMMA FlattenHead ==
    ASSUME NEW seqs \in Strings, NEW rest \in Strings,
           Len(seqs) = Len(rest) + 1,
           Follows(rest, seqs, Len(rest))
    PROVE  FlattenSeq(seqs) = seqs[1] \o FlattenSeq(rest)
<1>1. PICK f : IsJoin(f, seqs, Len(seqs)) /\ FlattenSeq(seqs) = f[Len(seqs)]
  BY FlattenIsJoin
<1>2. PICK g : IsJoin(g, rest, Len(rest)) /\ FlattenSeq(rest) = g[Len(rest)]
  BY FlattenIsJoin
<1> DEFINE n == Len(rest)
<1>3. n \in Nat /\ seqs[1] \in Bytes /\ \A i \in 1..n : rest[i] \in Bytes
  <2>1. Len(rest) \in Nat /\ \A i \in 1..Len(rest) : rest[i] \in Bytes
    BY StringsType
  <2>2. \A i \in 1..Len(seqs) : seqs[i] \in Bytes
    BY StringsType
  <2>3. 1 \in 1..Len(seqs)
    BY <2>1
  <2> QED
    BY <2>1, <2>2, <2>3
<1>4. IsJoin(f, seqs, n + 1) /\ IsJoin(g, rest, n) /\ Follows(rest, seqs, n)
  BY <1>1, <1>2
<1>5. FlattenSeq(seqs) = f[n + 1] /\ FlattenSeq(rest) = g[n]
  BY <1>1, <1>2
<1> HIDE DEF n
<1>6. f[n + 1] = seqs[1] \o g[n]
  BY <1>3, <1>4, JoinHead, Zenon
<1> QED
  BY <1>5, <1>6

\* One more is put behind the others.
LEMMA FlattenAppend ==
    ASSUME NEW seqs \in Strings, NEW more \in Strings,
           Len(more) = Len(seqs) + 1,
           \A i \in 1..Len(seqs) : more[i] = seqs[i]
    PROVE  FlattenSeq(more) = FlattenSeq(seqs) \o more[Len(more)]
<1>1. PICK f : IsJoin(f, seqs, Len(seqs)) /\ FlattenSeq(seqs) = f[Len(seqs)]
  BY FlattenIsJoin
<1>2. PICK g : IsJoin(g, more, Len(more)) /\ FlattenSeq(more) = g[Len(more)]
  BY FlattenIsJoin
<1> DEFINE n == Len(seqs)
<1>3. n \in Nat /\ \A i \in 1..n : seqs[i] = more[i]
  BY StringsType
<1>4. IsJoin(f, seqs, n) /\ IsJoin(g, more, n + 1)
  BY <1>1, <1>2
<1>5. /\ FlattenSeq(more) = g[n + 1] /\ FlattenSeq(seqs) = f[n]
      /\ more[Len(more)] = more[n + 1]
  BY <1>1, <1>2
<1> HIDE DEF n
<1>6. g[n + 1] = g[n] \o more[n + 1] /\ IsJoin(g, more, n)
  <2>1. n + 1 \in 1..(n + 1) /\ (n + 1) - 1 = n /\ \A i \in 1..n : i \in 1..(n + 1)
    BY <1>3
  <2>2. g[n + 1] = g[(n + 1) - 1] \o more[n + 1]
    BY <1>4, <2>1, Zenon DEF IsJoin
  <2>3. IsJoin(g, more, n)
    BY <1>4, <2>1, Zenon DEF IsJoin
  <2> QED
    BY <2>1, <2>2, <2>3
<1>7. f[n] = g[n]
  <2>1. /\ n \in Nat /\ IsJoin(f, seqs, n) /\ IsJoin(g, more, n)
        /\ \A i \in 1..n : seqs[i] = more[i]
    BY <1>3, <1>4, <1>6
  <2> QED
    BY <2>1, JoinsAgree, SMT
<1> QED
  BY <1>5, <1>6, <1>7

\* As long as the sequences together.
LEMMA FlattenLen ==
    ASSUME NEW seqs \in Strings, NEW sizes \in Seq(Nat), Len(sizes) = Len(seqs),
           \A i \in 1..Len(seqs) : sizes[i] = Len(seqs[i])
    PROVE  Len(FlattenSeq(seqs)) = Sum(sizes)
<1> DEFINE n == Len(seqs)
<1>1. /\ n \in Nat /\ n \in 0..n /\ \A i \in 1..n : seqs[i] \in Bytes
      /\ \A i \in 1..n : sizes[i] = Len(seqs[i])
  BY StringsType
<1>2. PICK join : IsJoin(join, seqs, n) /\ FlattenSeq(seqs) = join[n]
  BY FlattenIsJoin
<1>3. PICK chain : Adding!IsChain(chain, 0, sizes) /\ Sum(sizes) = chain[n]
  <2>1. PICK chain : /\ Adding!IsChain(chain, 0, sizes)
                     /\ FoldLeft(Plus, 0, sizes) = chain[Len(sizes)]
    BY AddingChain
  <2> QED
    BY <2>1 DEF Sum
<1>4. chain[0] = 0 /\ \A i \in 1..n : chain[i] = chain[i - 1] + sizes[i]
  BY <1>3 DEF Adding!IsChain, Plus
<1> HIDE DEF n
<1>5. \A i \in 0..n : join[i] \in Bytes
  BY <1>1, <1>2, JoinType, Zenon
<1> DEFINE G == {i \in 0..n : Len(join[i]) = chain[i]}
<1>6. 0 \in G
  <2>1. join[0] = <<>> /\ 0 \in 0..n
    BY <1>1, <1>2 DEF IsJoin
  <2> QED
    BY <1>4, <2>1, NoBytes
<1>7. ASSUME NEW i \in 1..n, i - 1 \in G PROVE i \in G
  <2>1. i \in 0..n /\ i - 1 \in 0..n
    BY <1>1
  <2>2. join[i] = join[i - 1] \o seqs[i] /\ chain[i] = chain[i - 1] + sizes[i]
    BY <1>2, <1>4, Zenon DEF IsJoin
  <2>3. join[i - 1] \in Bytes /\ seqs[i] \in Bytes
    BY <1>1, <1>5, <2>1, Zenon
  <2>4. Len(join[i - 1] \o seqs[i]) = Len(join[i - 1]) + Len(seqs[i])
    BY <2>3, ConcatBytes, Zenon
  <2>5. Len(join[i - 1]) = chain[i - 1] /\ sizes[i] = Len(seqs[i])
    BY <1>1, <1>7, Zenon
  <2>6. Len(join[i]) = chain[i]
    BY <2>2, <2>4, <2>5, Zenon
  <2> QED
    BY <2>1, <2>6, Zenon
<1>8. \A i \in 0..n : i \in G
  <2> HIDE DEF G
  <2> QED
    BY <1>1, <1>6, <1>7, Adding!UpTo
<1> QED
  BY <1>1, <1>2, <1>3, <1>8

----------------------------------------------------------------------------
(* Numbers and their digits. *)

\* The function of Shifted is defined: it divides once more at each number.
LEMMA ShiftedFacts ==
    ASSUME NEW n \in Nat
    PROVE  /\ Shifted(n)[0] = n
           /\ \A k \in Nat \ {0} : Shifted(n)[k] = Shifted(n)[k - 1] \div Radix
<1> DEFINE divisors(k) == [i \in 1..k |-> Radix]
           g == [k \in Nat |-> FoldLeft(Divided, n, divisors(k))]
           Defines(f) == f = [k \in Nat |-> IF k = 0 THEN n ELSE f[k - 1] \div Radix]
<1>1. g[0] = n
  <2>1. divisors(0) = <<>>
    OBVIOUS
  <2>2. g[0] = FoldLeft(Divided, n, <<>>)
    BY <2>1
  <2> QED
    BY <2>2, Dividing!FoldEmpty, DividingFold, Zenon
<1>2. ASSUME NEW k \in Nat \ {0} PROVE g[k] = g[k - 1] \div Radix
  <2>1. k - 1 \in Nat /\ (k - 1) + 1 = k
    OBVIOUS
  <2>2. Radix \in Nat /\ divisors(k - 1) \in Seq(Nat)
    BY <2>1 DEF Radix
  <2>3. divisors(k) = Append(divisors(k - 1), Radix)
    BY <2>1, <2>2
  <2> HIDE DEF divisors
  <2>4. FoldLeft(Divided, n, Append(divisors(k - 1), Radix))
          = Divided(FoldLeft(Divided, n, divisors(k - 1)), Radix)
    BY <2>2, DividingAppend, Zenon
  <2>5. /\ g[k] = FoldLeft(Divided, n, divisors(k))
        /\ g[k - 1] = FoldLeft(Divided, n, divisors(k - 1))
    BY <2>1
  <2> QED
    BY <2>3, <2>4, <2>5, Zenon DEF Divided
<1>3. Defines(g)
  <2>1. g = [k \in Nat |-> g[k]]
    OBVIOUS
  <2> HIDE DEF g
  <2> QED
    BY <1>1, <1>2, <2>1
<1>4. Defines(Shifted(n))
  <2>1. \E f : Defines(f)
    BY <1>3
  <2>2. Shifted(n) = CHOOSE f : Defines(f)
    BY Zenon DEF Shifted
  <2> HIDE DEF Defines
  <2> QED
    BY <2>1, <2>2
<1> QED
  BY <1>4

LEMMA ShiftedType ==
    ASSUME NEW n \in Nat, NEW w \in Nat
    PROVE  \A k \in 0..w : Shifted(n)[k] \in Nat
<1> DEFINE s == Shifted(n)
           G == {k \in 0..w : s[k] \in Nat}
<1>1. s[0] = n /\ \A k \in Nat \ {0} : s[k] = s[k - 1] \div Radix
  BY ShiftedFacts
<1> HIDE DEF s
<1>2. 0 \in G
  BY <1>1
<1>3. ASSUME NEW k \in 1..w, k - 1 \in G PROVE k \in G
  <2>1. s[k] = s[k - 1] \div Radix /\ s[k - 1] \in Nat
    BY <1>1, <1>3
  <2> QED
    BY <2>1 DEF Radix
<1>4. \A k \in 0..w : k \in G
  <2> HIDE DEF G
  <2> QED
    BY <1>2, <1>3, Adding!UpTo
<1> QED
  BY <1>4 DEF s

LEMMA DigitsType ==
    ASSUME NEW n \in Nat, NEW w \in Nat
    PROVE  Digits(n, w) \in Bytes /\ Len(Digits(n, w)) = w
<1>1. \A i \in 1..w : Shifted(n)[w - i] % Radix \in Byte
  <2>1. \A i \in 1..w : w - i \in 0..w
    OBVIOUS
  <2>2. \A k \in 0..w : Shifted(n)[k] \in Nat
    BY ShiftedType
  <2>3. \A m \in Nat : m % Radix \in Byte
    BY DEF Radix, Byte
  <2> QED
    BY <2>1, <2>2, <2>3
<1> QED
  BY <1>1 DEF Digits, Bytes

\* The digits of a number that fits in them are read as the number again.
LEMMA NumberOfDigits ==
    ASSUME NEW n \in Nat, NEW w \in Nat, Shifted(n)[w] = 0
    PROVE  Number(Digits(n, w)) = n
<1> DEFINE s == Shifted(n)
           d == Digits(n, w)
<1>1. s[0] = n /\ s[w] = 0 /\ \A k \in Nat \ {0} : s[k] = s[k - 1] \div Radix
  BY ShiftedFacts
<1>2. \A k \in 0..w : s[k] \in Nat
  BY ShiftedType
<1>3. d \in Seq(Byte) /\ Len(d) = w /\ \A i \in 1..w : d[i] = s[w - i] % Radix
  BY DigitsType DEF Bytes, Digits
<1>4. PICK chain : Numbering!IsChain(chain, 0, d) /\ Number(d) = chain[w]
  <2>1. PICK chain : /\ Numbering!IsChain(chain, 0, d)
                     /\ FoldLeft(AddByte, 0, d) = chain[Len(d)]
    BY <1>3, NumberingChain
  <2> QED
    BY <1>3, <2>1 DEF Number
<1>5. chain[0] = 0 /\ \A i \in 1..w : chain[i] = chain[i - 1] * Radix + d[i]
  BY <1>3, <1>4 DEF Numbering!IsChain, AddByte
<1> HIDE DEF s, d
<1> DEFINE G == {i \in 0..w : chain[i] = s[w - i]}
<1>6. 0 \in G
  BY <1>1, <1>5
<1>7. ASSUME NEW i \in 1..w, i - 1 \in G PROVE i \in G
  <2>1. i \in 0..w /\ w - (i - 1) \in Nat \ {0} /\ (w - (i - 1)) - 1 = w - i
        /\ w - i \in 0..w
    OBVIOUS
  <2>2. chain[i - 1] = s[w - (i - 1)]
    BY <1>7
  <2>3. s[w - (i - 1)] = s[w - i] \div Radix
    BY <1>1, <2>1
  <2>4. chain[i] = (s[w - i] \div Radix) * Radix + (s[w - i] % Radix)
    BY <1>3, <1>5, <2>2, <2>3
  <2>5. \A m \in Nat : (m \div Radix) * Radix + (m % Radix) = m
    BY DEF Radix
  <2>6. chain[i] = s[w - i]
    BY <1>2, <2>1, <2>4, <2>5
  <2> QED
    BY <2>1, <2>6
<1>8. \A i \in 0..w : i \in G
  <2> HIDE DEF G
  <2> QED
    BY <1>6, <1>7, Adding!UpTo
<1>9. w \in 0..w /\ w - w = 0
  OBVIOUS
<1> QED
  BY <1>1, <1>4, <1>8, <1>9 DEF d

\* What is put in front is what is found there, and what is left behind it.
LEMMA InFront ==
    ASSUME NEW s \in Bytes, NEW z \in Bytes
    PROVE  /\ Peek(s \o z, Len(s)) = s
           /\ Drop(s \o z, Len(s)) = z
           /\ SubSeq(s \o z, 1, Len(s)) = s
           /\ \A i \in 1..Len(s) : (s \o z)[i] = s[i]
<1>1. /\ Len(s) \in Nat /\ Len(z) \in Nat /\ Len(s \o z) = Len(s) + Len(z)
      /\ \A i \in 1..Len(s) : (s \o z)[i] = s[i]
      /\ s = [i \in 1..Len(s) |-> s[i]]
      /\ \A i \in 1..Len(z) : (s \o z)[Len(s) + i] = z[i]
  BY DEF Bytes
<1>2. Peek(s \o z, Len(s)) = s
  <2>1. \A i \in 1..Len(s) : i <= Len(s \o z)
    BY <1>1
  <2> QED
    BY <1>1, <2>1 DEF Peek
<1>3. Drop(s \o z, Len(s)) = z
  BY DEF Drop, Bytes
<1>4. SubSeq(s \o z, 1, Len(s)) = s
  BY DEF Bytes
<1> QED
  BY <1>1, <1>2, <1>3, <1>4

----------------------------------------------------------------------------
(* What is read off the front of a buffer, one piece after the other.       *)

\* The sequences behind the first i.
Behind(seqs, i) == [j \in 1..(Len(seqs) - i) |-> seqs[i + j]]

LEMMA BehindFacts ==
    ASSUME NEW seqs \in Strings
    PROVE  /\ Behind(seqs, 0) = seqs
           /\ Behind(seqs, Len(seqs)) = <<>>
           /\ \A i \in 0..Len(seqs) : FlattenSeq(Behind(seqs, i)) \in Bytes
           /\ \A i \in 1..Len(seqs) :
                  FlattenSeq(Behind(seqs, i - 1))
                    = seqs[i] \o FlattenSeq(Behind(seqs, i))
<1>0. /\ Len(seqs) \in Nat /\ \A i \in 1..Len(seqs) : seqs[i] \in Bytes
      /\ seqs = [i \in 1..Len(seqs) |-> seqs[i]]
  BY DEF Strings
<1>1. Behind(seqs, 0) = seqs
  <2>1. Behind(seqs, 0) = [j \in 1..Len(seqs) |-> seqs[j]]
    BY <1>0 DEF Behind
  <2> QED
    BY <1>0, <2>1
<1>2. Behind(seqs, Len(seqs)) = <<>>
  BY <1>0 DEF Behind
<1>3. ASSUME NEW i \in 0..Len(seqs)
      PROVE  Behind(seqs, i) \in Strings /\ Len(Behind(seqs, i)) = Len(seqs) - i
  <2>1. Len(seqs) - i \in Nat /\ \A j \in 1..(Len(seqs) - i) : i + j \in 1..Len(seqs)
    BY <1>0
  <2>2. \A j \in 1..(Len(seqs) - i) : seqs[i + j] \in Bytes
    BY <1>0, <2>1
  <2> QED
    BY <2>1, <2>2 DEF Strings, Behind
<1>4. ASSUME NEW i \in 1..Len(seqs)
      PROVE  FlattenSeq(Behind(seqs, i - 1)) = seqs[i] \o FlattenSeq(Behind(seqs, i))
  <2> DEFINE long == Behind(seqs, i - 1)
             short == Behind(seqs, i)
  <2>1. i - 1 \in 0..Len(seqs) /\ i \in 0..Len(seqs) /\ Len(seqs) \in Nat
    BY <1>0
  <2>2. /\ long \in Strings /\ Len(long) = Len(seqs) - (i - 1)
        /\ short \in Strings /\ Len(short) = Len(seqs) - i
    BY <1>3, <2>1
  <2>3. Len(long) = Len(short) + 1
    BY <2>1, <2>2
  <2>4. long[1] = seqs[i]
    <3>1. 1 \in 1..(Len(seqs) - (i - 1)) /\ (i - 1) + 1 = i
      BY <2>1
    <3> QED
      BY <3>1 DEF Behind
  <2>5. Follows(short, long, Len(short))
    <3>1. ASSUME NEW j \in 1..(Len(seqs) - i) PROVE long[j + 1] = short[j]
      <4>1. j + 1 \in 1..(Len(seqs) - (i - 1)) /\ (i - 1) + (j + 1) = i + j
        BY <2>1
      <4> QED
        BY <4>1 DEF Behind
    <3> HIDE DEF long, short
    <3> QED
      BY <2>2, <3>1 DEF Follows
  <2> HIDE DEF long, short
  <2>6. FlattenSeq(long) = long[1] \o FlattenSeq(short)
    BY <2>2, <2>3, <2>5, FlattenHead
  <2> QED
    BY <2>4, <2>6 DEF long, short
<1>5. \A i \in 0..Len(seqs) : FlattenSeq(Behind(seqs, i)) \in Bytes
  BY <1>3, FlattenType
<1> QED
  BY <1>1, <1>2, <1>4, <1>5

\* Each step takes off the bytes of one value, whatever follows them.
Reads(f, values, bytes, n) ==
    \A i \in 1..n : \A z \in Bytes :
        f[i - 1].rest = bytes[i] \o z => f[i] = Add(f[i - 1], values[i], z)

\* Then all values are read, and what follows them is left.
LEMMA Reading ==
    ASSUME NEW bytes \in Strings, NEW more \in Bytes, NEW values, NEW f,
           f[0] = Nothing(FlattenSeq(bytes) \o more),
           Reads(f, values, bytes, Len(bytes))
    PROVE  f[Len(bytes)] = [values |-> [j \in 1..Len(bytes) |-> values[j]],
                            rest |-> more]
<1> DEFINE n == Len(bytes)
           first(i) == [j \in 1..i |-> values[j]]
           left(i) == FlattenSeq(Behind(bytes, i)) \o more
           G == {i \in 0..n : f[i] = [values |-> first(i), rest |-> left(i)]}
<1>0. n \in Nat /\ \A i \in 1..n : bytes[i] \in Bytes
  BY StringsType
<1>1. /\ left(0) = FlattenSeq(bytes) \o more
      /\ left(n) = more
      /\ \A i \in 0..n : left(i) \in Bytes
  <2>1. left(0) = FlattenSeq(bytes) \o more
    BY BehindFacts, Zenon
  <2>2. left(n) = <<>> \o more
    BY BehindFacts, FlattenNone
  <2>3. <<>> \o more = more
    BY ConcatNone
  <2>4. \A i \in 0..n : left(i) \in Bytes
    BY BehindFacts, ConcatBytes, Zenon
  <2> QED
    BY <2>1, <2>2, <2>3, <2>4
<1>2. \A i \in 1..n : left(i - 1) = bytes[i] \o left(i)
  <2> SUFFICES ASSUME NEW i \in 1..n PROVE left(i - 1) = bytes[i] \o left(i)
    BY Zenon
  <2> DEFINE tail == FlattenSeq(Behind(bytes, i))
  <2>1. FlattenSeq(Behind(bytes, i - 1)) = bytes[i] \o tail
    BY BehindFacts, Zenon
  <2>2. bytes[i] \in Bytes /\ tail \in Bytes
    <3>1. i \in 0..n
      BY <1>0
    <3> QED
      BY <1>0, <3>1, BehindFacts, Zenon
  <2> HIDE DEF tail
  <2>3. (bytes[i] \o tail) \o more = bytes[i] \o (tail \o more)
    BY <2>2, ConcatThree, Zenon
  <2> QED
    BY <2>1, <2>3, Zenon DEF tail
<1>3. ASSUME NEW i \in 1..n
      PROVE  Append(first(i - 1), values[i]) = first(i)
  <2> DEFINE V == {values[j] : j \in 1..n}
  <2>1. first(i - 1) \in Seq(V) /\ values[i] \in V /\ Len(first(i - 1)) = i - 1
    BY <1>0
  <2>2. first(i) \in Seq(V) /\ Len(first(i)) = i
    BY <1>0
  <2>3. \A j \in 1..i : Append(first(i - 1), values[i])[j] = values[j]
    BY <1>0, <2>1
  <2> QED
    BY <1>0, <2>1, <2>2, <2>3
<1>4. 0 \in G
  <2>1. first(0) = <<>> /\ 0 \in 0..n
    BY <1>0
  <2> HIDE DEF first, left
  <2> QED
    BY <1>1, <2>1 DEF Nothing
<1>5. ASSUME NEW i \in 1..n, i - 1 \in G PROVE i \in G
  <2> HIDE DEF first, left
  <2>0. i \in 0..n
    BY <1>0
  <2>1. f[i - 1] = [values |-> first(i - 1), rest |-> left(i - 1)]
    BY <1>5
  <2>2. f[i - 1].rest = bytes[i] \o left(i) /\ left(i) \in Bytes
    BY <1>1, <1>2, <2>0, <2>1
  <2>3. f[i] = Add(f[i - 1], values[i], left(i))
    BY <2>2, Zenon DEF Reads
  <2>4. f[i] = [values |-> Append(f[i - 1].values, values[i]), rest |-> left(i)]
    BY <2>3, Zenon DEF Add
  <2>5. f[i - 1].values = first(i - 1)
    BY <2>1
  <2>6. f[i] = [values |-> first(i), rest |-> left(i)]
    BY <1>3, <2>4, <2>5, Zenon
  <2> QED
    BY <2>0, <2>6, Zenon
<1>6. \A i \in 0..n : i \in G
  <2> HIDE DEF G
  <2> QED
    BY <1>0, <1>4, <1>5, Adding!UpTo
<1>7. n \in 0..n
  BY <1>0
<1> QED
  BY <1>1, <1>6, <1>7, Zenon

----------------------------------------------------------------------------
(* Values. *)

Kinds == {"string", "uint8_t", "uint32_t", "uint64_t"}

LEMMA ValueBytesType ==
    ASSUME NEW kind \in Kinds, NEW v, Fits(kind, v)
    PROVE  /\ ValueBytes(kind, v) \in Bytes
           /\ Len(ValueBytes(kind, v)) = ValueSize(kind, v)
<1>1. CASE kind = "string"
  <2>1. v \in Bytes /\ <<0>> \in Bytes /\ Len(<<0>>) = 1
    BY <1>1 DEF Fits, Bytes, Byte, Radix
  <2>2. v \o <<0>> \in Bytes /\ Len(v \o <<0>>) = Len(v) + 1
    BY <2>1, ConcatBytes
  <2> QED
    BY <1>1, <2>2 DEF ValueBytes, ValueSize
<1>2. CASE kind # "string"
  <2>1. v \in Nat /\ Width[kind] \in Nat
    BY <1>2 DEF Fits, Kinds, Width
  <2> QED
    BY <1>2, <2>1, DigitsType DEF ValueBytes, ValueSize
<1> QED
  BY <1>1, <1>2

\* FillValue reads the value that was packed, and no more.
LEMMA ValueRead ==
    ASSUME NEW kind \in Kinds, NEW v, Fits(kind, v), NEW z \in Bytes,
           NEW read, read.rest = ValueBytes(kind, v) \o z
    PROVE  FillValue(read, kind) = Add(read, v, z)
<1>1. CASE kind = "string"
  <2> DEFINE r == (v \o <<0>>) \o z
             e == Append(r, 0)
             I == {i \in 1..Len(e) : e[i] = 0}
             end == Len(v) + 1
  <2>0. v \in Seq(Byte \ {0}) /\ read.rest = r
    BY <1>1 DEF Fits, ValueBytes
  <2>1. v \in Bytes /\ <<0>> \in Bytes /\ v \o <<0>> \in Bytes /\ Len(v \o <<0>>) = end
    BY <2>0 DEF Bytes, Byte, Radix
  <2>2. /\ SubSeq(r, 1, Len(v)) = v
        /\ Drop(r, end) = z
    <3>1. Drop(r, Len(v \o <<0>>)) = z
      BY <2>1, InFront
    <3>2. SubSeq(v \o (<<0>> \o z), 1, Len(v)) = v
      BY <2>1, ConcatBytes, InFront
    <3>3. (v \o <<0>>) \o z = v \o (<<0>> \o z)
      BY <2>1, ConcatThree
    <3> QED
      BY <2>1, <3>1, <3>2, <3>3
  <2>3. /\ end \in 1..Len(e) /\ e[end] = 0
        /\ \A i \in 1..Len(v) : e[i] = v[i] /\ v[i] # 0
        /\ Len(v) \in Nat /\ Len(e) \in Nat
    BY <2>0 DEF Bytes, Byte, Radix
  <2> HIDE DEF e, r
  <2>4. end \in I /\ \A i \in I : end <= i
    BY <2>3
  <2>5. I # {} /\ Min(I) = end
    <3>1. \A x \in I : (\A y \in I : x <= y) <=> x = end
      BY <2>3, <2>4
    <3> QED
      BY <2>4, <3>1 DEF Min
  <2>6. SelectInSeq(Append(read.rest, 0), LAMBDA b : b = 0) = end
    BY <2>0, <2>5 DEF SelectInSeq, e
  <2>7. FillValue(read, kind) = Add(read, SubSeq(r, 1, end - 1), Drop(r, end))
    BY <1>1, <2>0, <2>6, Zenon DEF FillValue
  <2>8. end - 1 = Len(v)
    BY <2>3
  <2> QED
    BY <2>2, <2>7, <2>8
<1>2. CASE kind # "string"
  <2> DEFINE w == Width[kind]
             d == Digits(v, w)
  <2>1. v \in Nat /\ w \in Nat /\ Shifted(v)[w] = 0
    BY <1>2 DEF Fits, Kinds, Width
  <2>2. d \in Bytes /\ Len(d) = w /\ Number(d) = v
    BY <2>1, DigitsType, NumberOfDigits
  <2>3. read.rest = d \o z
    BY <1>2 DEF ValueBytes
  <2>4. FillValue(read, kind) = Add(read, Number(Peek(read.rest, w)), Drop(read.rest, w))
    BY <1>2 DEF FillValue
  <2> HIDE DEF d, w
  <2>5. Peek(d \o z, w) = d /\ Drop(d \o z, w) = z
    BY <2>2, InFront
  <2> QED
    BY <2>2, <2>3, <2>4, <2>5
<1> QED
  BY <1>1, <1>2

----------------------------------------------------------------------------
(* Structs. *)

\* The bytes of the values of a struct.
ValueStrings(kinds, v) == [i \in DOMAIN kinds |-> ValueBytes(kinds[i], v[i])]

LEMMA StructStrings ==
    ASSUME NEW kinds \in Seq(Kinds), NEW v, FitsStruct(kinds, v)
    PROVE  /\ ValueStrings(kinds, v) \in Strings
           /\ Len(ValueStrings(kinds, v)) = Len(kinds)
           /\ Len(kinds) \in Nat
           /\ StructBytes(kinds, v) = FlattenSeq(ValueStrings(kinds, v))
           /\ \A i \in 1..Len(kinds) :
                  /\ kinds[i] \in Kinds
                  /\ Fits(kinds[i], v[i])
                  /\ ValueStrings(kinds, v)[i] = ValueBytes(kinds[i], v[i])
<1>1. /\ Len(kinds) \in Nat /\ DOMAIN kinds = 1..Len(kinds)
      /\ \A i \in 1..Len(kinds) : kinds[i] \in Kinds
  OBVIOUS
<1>2. \A i \in 1..Len(kinds) : Fits(kinds[i], v[i])
  BY <1>1, Zenon DEF FitsStruct
<1>3. \A i \in 1..Len(kinds) : ValueBytes(kinds[i], v[i]) \in Bytes
  BY <1>1, <1>2, ValueBytesType, Zenon
<1>4. ValueStrings(kinds, v) = [i \in 1..Len(kinds) |-> ValueBytes(kinds[i], v[i])]
  BY <1>1, Zenon DEF ValueStrings
<1>5. ValueStrings(kinds, v) \in Strings /\ Len(ValueStrings(kinds, v)) = Len(kinds)
  BY <1>1, <1>3, <1>4 DEF Strings
<1>6. StructBytes(kinds, v) = FlattenSeq(ValueStrings(kinds, v))
  BY Zenon DEF StructBytes, ValueStrings
<1>7. \A i \in 1..Len(kinds) : ValueStrings(kinds, v)[i] = ValueBytes(kinds[i], v[i])
  BY <1>4, Zenon
<1> QED
  BY <1>1, <1>2, <1>5, <1>6, <1>7

LEMMA StructBytesType ==
    ASSUME NEW kinds \in Seq(Kinds), NEW v, FitsStruct(kinds, v)
    PROVE  /\ StructBytes(kinds, v) \in Bytes
           /\ Len(StructBytes(kinds, v)) = StructSize(kinds, v)
<1> DEFINE b == ValueStrings(kinds, v)
           sizes == [i \in DOMAIN kinds |-> ValueSize(kinds[i], v[i])]
<1>1. /\ b \in Strings /\ Len(b) = Len(kinds) /\ Len(kinds) \in Nat
      /\ StructBytes(kinds, v) = FlattenSeq(b)
      /\ \A i \in 1..Len(kinds) : /\ kinds[i] \in Kinds /\ Fits(kinds[i], v[i])
                                  /\ b[i] = ValueBytes(kinds[i], v[i])
  BY StructStrings
<1>2. \A i \in 1..Len(kinds) :
          /\ b[i] \in Bytes
          /\ ValueSize(kinds[i], v[i]) = Len(b[i])
  BY <1>1, ValueBytesType
<1>3. \A i \in 1..Len(kinds) : ValueSize(kinds[i], v[i]) \in Nat
  BY <1>2, ConcatBytes
<1>4. /\ sizes \in Seq(Nat) /\ Len(sizes) = Len(kinds)
      /\ \A i \in 1..Len(kinds) : sizes[i] = ValueSize(kinds[i], v[i])
  <2>1. DOMAIN kinds = 1..Len(kinds)
    OBVIOUS
  <2>2. sizes = [i \in 1..Len(kinds) |-> ValueSize(kinds[i], v[i])]
    BY <2>1, Zenon
  <2> HIDE DEF sizes
  <2> QED
    BY <1>1, <1>3, <2>2
<1>5. StructSize(kinds, v) = Sum(sizes)
  BY Zenon DEF StructSize
<1> HIDE DEF b, sizes
<1>6. Len(FlattenSeq(b)) = Sum(sizes) /\ FlattenSeq(b) \in Bytes
  <2>1. \A i \in 1..Len(b) : sizes[i] = Len(b[i])
    BY <1>1, <1>2, <1>4
  <2>2. Len(sizes) = Len(b)
    BY <1>1, <1>4
  <2> QED
    BY <1>1, <1>4, <2>1, <2>2, FlattenLen, FlattenType
<1> QED
  BY <1>1, <1>5, <1>6

\* FillStruct reads the struct that was packed, and no more.
LEMMA StructRead ==
    ASSUME NEW kinds \in Seq(Kinds), NEW v, FitsStruct(kinds, v), NEW z \in Bytes,
           NEW read, read.rest = StructBytes(kinds, v) \o z
    PROVE  FillStruct(read, kinds) = Add(read, v, z)
<1> DEFINE b == ValueStrings(kinds, v)
           n == Len(kinds)
<1>1. /\ b \in Strings /\ Len(b) = n /\ n \in Nat
      /\ StructBytes(kinds, v) = FlattenSeq(b)
      /\ \A i \in 1..n : /\ kinds[i] \in Kinds /\ Fits(kinds[i], v[i])
                         /\ b[i] = ValueBytes(kinds[i], v[i])
  BY StructStrings
<1>2. PICK f : /\ Filling!IsChain(f, Nothing(read.rest), kinds)
               /\ FoldLeft(FillValue, Nothing(read.rest), kinds) = f[n]
  BY FillingChain
<1>3. /\ f[0] = Nothing(read.rest)
      /\ \A i \in 1..n : f[i] = FillValue(f[i - 1], kinds[i])
  BY <1>2, Zenon DEF Filling!IsChain
<1>4. v = [i \in 1..n |-> v[i]]
  <2>1. DOMAIN kinds = 1..n
    OBVIOUS
  <2> QED
    BY <2>1, Zenon DEF FitsStruct
<1> HIDE DEF b, n
<1>5. Reads(f, v, b, n)
  <2> SUFFICES ASSUME NEW i \in 1..n, NEW y \in Bytes, f[i - 1].rest = b[i] \o y
               PROVE  f[i] = Add(f[i - 1], v[i], y)
    BY Zenon DEF Reads
  <2> DEFINE before == f[i - 1]
             kind == kinds[i]
             value == v[i]
  <2>1. /\ kind \in Kinds /\ Fits(kind, value)
        /\ before.rest = ValueBytes(kind, value) \o y
    BY <1>1, Zenon
  <2>2. f[i] = FillValue(before, kind)
    BY <1>3, Zenon
  <2> HIDE DEF before, kind, value
  <2>3. FillValue(before, kind) = Add(before, value, y)
    BY <2>1, ValueRead
  <2> QED
    BY <2>2, <2>3, Zenon DEF before, value
<1>6. f[n] = [values |-> [j \in 1..n |-> v[j]], rest |-> z]
  <2>1. f[0] = Nothing(FlattenSeq(b) \o z) /\ Reads(f, v, b, Len(b))
    BY <1>1, <1>3, <1>5, Zenon
  <2>2. f[Len(b)] = [values |-> [j \in 1..Len(b) |-> v[j]], rest |-> z]
    BY <1>1, <2>1, Reading
  <2> QED
    BY <1>1, <2>2, Zenon
<1>7. f[n].values = v /\ f[n].rest = z
  BY <1>4, <1>6
<1> QED
  BY <1>2, <1>7, Zenon DEF FillStruct

----------------------------------------------------------------------------
(* Fields. *)

Fields == [array : BOOLEAN, elem : Seq(Kinds)]

\* The bytes of the structs of a field.
StructStringsOf(field, v) == [i \in DOMAIN v |-> StructBytes(field.elem, v[i])]

LEMMA FieldStrings ==
    ASSUME NEW field \in Fields, NEW v, FitsField(field, v)
    PROVE  /\ field.elem \in Seq(Kinds)
           /\ Len(v) \in Byte
           /\ v = [i \in 1..Len(v) |-> v[i]]
           /\ ~field.array => Len(v) = 1
           /\ StructStringsOf(field, v) \in Strings
           /\ Len(StructStringsOf(field, v)) = Len(v)
           /\ \A i \in 1..Len(v) :
                  /\ FitsStruct(field.elem, v[i])
                  /\ StructStringsOf(field, v)[i] = StructBytes(field.elem, v[i])
<1>1. PICK count \in IF field.array THEN Byte ELSE {1} :
          /\ v = [i \in 1..count |-> v[i]]
          /\ \A i \in 1..count : FitsStruct(field.elem, v[i])
  BY DEF FitsField
<1>2. count \in Byte /\ count \in Nat /\ (~field.array => count = 1)
  <2>1. 1 \in Byte /\ \A m \in Byte : m \in Nat
    BY DEF Byte, Radix
  <2>2. CASE field.array
    BY <1>1, <2>1, <2>2
  <2>3. CASE ~field.array
    BY <1>1, <2>1, <2>3
  <2> QED
    BY <2>2, <2>3
<1>3. field.elem \in Seq(Kinds)
  BY DEF Fields
<1>4. DOMAIN v = 1..count /\ Len(v) = count
  <2>1. \E w : v = [i \in 1..count |-> w[i]]
    BY <1>1, Zenon
  <2>2. PICK w : v = [i \in 1..count |-> w[i]]
    BY <2>1
  <2>3. v \in Seq({w[i] : i \in 1..count}) /\ DOMAIN v = 1..count
    BY <1>2, <2>2
  <2> QED
    BY <1>2, <2>2, <2>3
<1>5. \A i \in 1..count : StructBytes(field.elem, v[i]) \in Bytes
  <2> DEFINE kinds == field.elem
  <2>1. kinds \in Seq(Kinds) /\ \A i \in 1..count : FitsStruct(kinds, v[i])
    BY <1>1, <1>3
  <2> HIDE DEF kinds
  <2>2. \A i \in 1..count : StructBytes(kinds, v[i]) \in Bytes
    BY <2>1, StructBytesType
  <2> QED
    BY <2>2 DEF kinds
<1>6. StructStringsOf(field, v) = [i \in 1..count |-> StructBytes(field.elem, v[i])]
  BY <1>4, Zenon DEF StructStringsOf
<1>7. /\ StructStringsOf(field, v) \in Strings
      /\ Len(StructStringsOf(field, v)) = count
  BY <1>2, <1>5, <1>6 DEF Strings
<1>8. \A i \in 1..count : StructStringsOf(field, v)[i] = StructBytes(field.elem, v[i])
  BY <1>6, Zenon
<1>9. v = [i \in 1..Len(v) |-> v[i]]
  BY <1>1, <1>4, Zenon
<1> QED
  BY <1>1, <1>2, <1>3, <1>4, <1>7, <1>8, <1>9

\* What is before the structs.
CountBytes(field, v) == IF field.array THEN <<Len(v) % Radix>> ELSE <<>>

LEMMA CountBytesType ==
    ASSUME NEW field \in Fields, NEW v, FitsField(field, v)
    PROVE  /\ CountBytes(field, v) \in Bytes
           /\ Len(CountBytes(field, v)) = IF field.array THEN 1 ELSE 0
           /\ field.array => CountBytes(field, v)[1] = Len(v)
<1>1. Len(v) \in Byte
  BY FieldStrings
<1>2. Len(v) % Radix = Len(v)
  <2>1. \A m \in Byte : m % Radix = m
    <3>1. \A m \in 0..255 : m % 256 = m
      OBVIOUS
    <3> QED
      BY <3>1 DEF Byte, Radix
  <2> QED
    BY <1>1, <2>1
<1> HIDE DEF Byte
<1> QED
  BY <1>1, <1>2 DEF CountBytes, Bytes

LEMMA FieldBytesType ==
    ASSUME NEW field \in Fields, NEW v, FitsField(field, v)
    PROVE  /\ FieldBytes(field, v) \in Bytes
           /\ Len(FieldBytes(field, v)) = FieldSize(field, v)
<1> DEFINE b == StructStringsOf(field, v)
           kinds == field.elem
           n == Len(v)
           sizes == [i \in DOMAIN v |-> StructSize(kinds, v[i])]
<1>1. /\ b \in Strings /\ Len(b) = n /\ kinds \in Seq(Kinds)
      /\ \A i \in 1..n : FitsStruct(kinds, v[i]) /\ b[i] = StructBytes(kinds, v[i])
  BY FieldStrings
<1>2. FieldBytes(field, v) = CountBytes(field, v) \o FlattenSeq(b)
  BY Zenon DEF FieldBytes, CountBytes, StructStringsOf
<1>3. FieldSize(field, v) = (IF field.array THEN 1 ELSE 0) + Sum(sizes)
  BY Zenon DEF FieldSize
<1>4. n \in Nat /\ sizes = [i \in 1..n |-> StructSize(kinds, v[i])]
  <2>1. v = [i \in 1..n |-> v[i]] /\ n \in Nat
    BY FieldStrings DEF Byte, Radix
  <2>2. DOMAIN v = 1..n
    BY <2>1, Zenon
  <2> QED
    BY <2>1, <2>2, Zenon
<1> HIDE DEF b, kinds, n, sizes
<1>5. \A i \in 1..n : b[i] \in Bytes /\ StructSize(kinds, v[i]) = Len(b[i])
  <2> SUFFICES ASSUME NEW i \in 1..n
               PROVE  b[i] \in Bytes /\ StructSize(kinds, v[i]) = Len(b[i])
    BY Zenon
  <2> DEFINE struct == v[i]
  <2>1. FitsStruct(kinds, struct) /\ b[i] = StructBytes(kinds, struct)
    BY <1>1, Zenon
  <2> HIDE DEF struct
  <2>2. /\ StructBytes(kinds, struct) \in Bytes
        /\ Len(StructBytes(kinds, struct)) = StructSize(kinds, struct)
    BY <1>1, <2>1, StructBytesType
  <2> QED
    BY <2>1, <2>2, Zenon DEF struct
<1>6. \A i \in 1..n : StructSize(kinds, v[i]) \in Nat
  <2>1. \A s \in Bytes : Len(s) \in Nat
    BY ConcatBytes
  <2> QED
    BY <1>5, <2>1, Zenon
<1>7. /\ sizes \in Seq(Nat) /\ Len(sizes) = n
      /\ \A i \in 1..n : sizes[i] = StructSize(kinds, v[i])
  BY <1>4, <1>6
<1>8. Len(FlattenSeq(b)) = Sum(sizes) /\ FlattenSeq(b) \in Bytes
  <2>1. \A i \in 1..Len(b) : sizes[i] = Len(b[i])
    BY <1>1, <1>5, <1>7
  <2>2. Len(sizes) = Len(b)
    BY <1>1, <1>7
  <2> QED
    BY <1>1, <1>7, <2>1, <2>2, FlattenLen, FlattenType
<1> DEFINE c == CountBytes(field, v)
<1>9. c \in Bytes /\ Len(c) = IF field.array THEN 1 ELSE 0
  BY CountBytesType
<1> HIDE DEF c
<1>10. /\ c \o FlattenSeq(b) \in Bytes
       /\ Len(c \o FlattenSeq(b)) = Len(c) + Len(FlattenSeq(b))
  BY <1>8, <1>9, ConcatBytes
<1> QED
  BY <1>2, <1>3, <1>8, <1>9, <1>10 DEF c

\* FillField reads the structs that were packed, and no more.
LEMMA FieldRead ==
    ASSUME NEW field \in Fields, NEW v, FitsField(field, v), NEW z \in Bytes,
           NEW read, read.rest = FieldBytes(field, v) \o z
    PROVE  FillField(read, field) = Add(read, v, z)
<1> DEFINE b == StructStringsOf(field, v)
           c == CountBytes(field, v)
           kinds == field.elem
           n == Len(v)
           left == FlattenSeq(b) \o z
           elems == [i \in 1..n |-> kinds]
<1>1. /\ b \in Strings /\ Len(b) = n /\ kinds \in Seq(Kinds)
      /\ n \in Nat /\ v = [i \in 1..n |-> v[i]]
      /\ ~field.array => n = 1
      /\ \A i \in 1..n : FitsStruct(kinds, v[i]) /\ b[i] = StructBytes(kinds, v[i])
  BY FieldStrings DEF Byte, Radix
<1>2. /\ c \in Bytes /\ Len(c) = (IF field.array THEN 1 ELSE 0)
      /\ field.array => c[1] = n
  BY CountBytesType
<1>3. FieldBytes(field, v) = c \o FlattenSeq(b)
  BY Zenon DEF FieldBytes, CountBytes, StructStringsOf
<1>4. elems \in Seq(Seq(Kinds)) /\ Len(elems) = n /\ \A i \in 1..n : elems[i] = kinds
  BY <1>1
<1>5. FillField(read, field) =
          LET count == IF field.array THEN Peek(read.rest, 1)[1] ELSE 1
              start == IF field.array THEN Drop(read.rest, 1) ELSE read.rest
              structs == FoldLeft(FillStruct, Nothing(start), [i \in 1..count |-> kinds])
          IN  Add(read, structs.values, structs.rest)
  BY Zenon DEF FillField
<1>6. ~field.array => c = <<>>
  BY Zenon DEF CountBytes
<1> HIDE DEF b, c, kinds
<1>7. FlattenSeq(b) \in Bytes /\ left \in Bytes
  BY <1>1, FlattenType, ConcatBytes
<1>8. read.rest = c \o left
  <2>1. (c \o FlattenSeq(b)) \o z = c \o left
    BY <1>2, <1>7, ConcatThree
  <2> QED
    BY <1>3, <2>1
<1> HIDE DEF left
<1>9. /\ (IF field.array THEN Peek(read.rest, 1)[1] ELSE 1) = n
      /\ (IF field.array THEN Drop(read.rest, 1) ELSE read.rest) = left
  <2>1. CASE field.array
    <3>1. Peek(c \o left, 1) = c /\ Drop(c \o left, 1) = left
      BY <1>2, <1>7, <2>1, InFront
    <3> QED
      BY <1>2, <1>8, <2>1, <3>1, Zenon
  <2>2. CASE ~field.array
    <3>1. <<>> \o left = left
      BY <1>7, ConcatNone
    <3> QED
      BY <1>1, <1>6, <1>8, <2>2, <3>1, Zenon
  <2> QED
    BY <2>1, <2>2
<1>10. FillField(read, field) =
          LET structs == FoldLeft(FillStruct, Nothing(left), elems)
          IN  Add(read, structs.values, structs.rest)
  BY <1>5, <1>9, Zenon
<1> HIDE DEF elems, n
<1>11. PICK f : /\ FillingStructs!IsChain(f, Nothing(left), elems)
                /\ FoldLeft(FillStruct, Nothing(left), elems) = f[n]
  BY <1>4, FillingStructsChain
<1>12. /\ f[0] = Nothing(left)
       /\ \A i \in 1..n : f[i] = FillStruct(f[i - 1], kinds)
  BY <1>4, <1>11, Zenon DEF FillingStructs!IsChain
<1>13. Reads(f, v, b, n)
  <2> SUFFICES ASSUME NEW i \in 1..n, NEW y \in Bytes, f[i - 1].rest = b[i] \o y
               PROVE  f[i] = Add(f[i - 1], v[i], y)
    BY Zenon DEF Reads
  <2> DEFINE before == f[i - 1]
             value == v[i]
  <2>1. FitsStruct(kinds, value) /\ before.rest = StructBytes(kinds, value) \o y
    BY <1>1, Zenon
  <2>2. f[i] = FillStruct(before, kinds)
    BY <1>12, Zenon
  <2> HIDE DEF before, value
  <2>3. FillStruct(before, kinds) = Add(before, value, y)
    BY <1>1, <2>1, StructRead
  <2> QED
    BY <2>2, <2>3, Zenon DEF before, value
<1>14. f[n] = [values |-> [j \in 1..n |-> v[j]], rest |-> z]
  <2>1. f[0] = Nothing(FlattenSeq(b) \o z) /\ Reads(f, v, b, Len(b))
    BY <1>1, <1>12, <1>13, Zenon DEF left
  <2>2. f[Len(b)] = [values |-> [j \in 1..Len(b) |-> v[j]], rest |-> z]
    BY <1>1, <2>1, Reading
  <2> QED
    BY <1>1, <2>2, Zenon
<1>15. f[n].values = v /\ f[n].rest = z
  BY <1>1, <1>14
<1> QED
  BY <1>10, <1>11, <1>15, Zenon

----------------------------------------------------------------------------
(* Messages. *)

LEMMA TemplateType ==
    ASSUME NEW type
    PROVE  Template(type) \in Seq(Fields)
<1>1. \A kind \in Kinds : Field(kind) \in Fields
  BY DEF Field, Fields
<1>2. \A kinds \in Seq(Kinds) : Array(kinds) \in Fields
  BY DEF Array, Fields
<1>3. /\ Field("string") \in Fields /\ Field("uint8_t") \in Fields
      /\ Field("uint32_t") \in Fields
  BY <1>1 DEF Kinds
<1>4. /\ <<"uint8_t", "string", "uint8_t", "uint8_t">> \in Seq(Kinds)
      /\ <<"uint8_t", "string">> \in Seq(Kinds)
      /\ <<"uint8_t", "uint64_t", "uint64_t">> \in Seq(Kinds)
      /\ <<"uint8_t", "uint64_t", "uint64_t", "uint64_t">> \in Seq(Kinds)
      /\ <<"uint64_t", "uint64_t">> \in Seq(Kinds)
      /\ <<"uint8_t", "uint32_t">> \in Seq(Kinds)
  BY DEF Kinds
<1>5. /\ Array(<<"uint8_t", "string", "uint8_t", "uint8_t">>) \in Fields
      /\ Array(<<"uint8_t", "string">>) \in Fields
      /\ Array(<<"uint8_t", "uint64_t", "uint64_t">>) \in Fields
      /\ Array(<<"uint8_t", "uint64_t", "uint64_t", "uint64_t">>) \in Fields
      /\ Array(<<"uint64_t", "uint64_t">>) \in Fields
      /\ Array(<<"uint8_t", "uint32_t">>) \in Fields
  BY <1>2, <1>4, Zenon
<1>6. /\ <<>> \in Seq(Fields)
      /\ \A f \in Fields : <<f>> \in Seq(Fields)
      /\ \A f, g \in Fields : <<f, g>> \in Seq(Fields)
      /\ \A f, g, h \in Fields : <<f, g, h>> \in Seq(Fields)
  OBVIOUS
<1>7. /\ <<Field("string")>> \in Seq(Fields)
      /\ <<Field("string"), Field("uint32_t"), Field("uint32_t")>> \in Seq(Fields)
      /\ <<Field("uint32_t"), Field("string")>> \in Seq(Fields)
      /\ <<Field("string"), Field("uint8_t")>> \in Seq(Fields)
      /\ <<Field("uint8_t")>> \in Seq(Fields)
      /\ <<Field("uint8_t"), Field("uint8_t")>> \in Seq(Fields)
  BY <1>3, <1>6, Zenon
<1>8. /\ <<Array(<<"uint8_t", "string", "uint8_t", "uint8_t">>)>> \in Seq(Fields)
      /\ <<Array(<<"uint8_t", "string">>)>> \in Seq(Fields)
      /\ <<Array(<<"uint8_t", "uint64_t", "uint64_t">>)>> \in Seq(Fields)
      /\ <<Array(<<"uint8_t", "uint64_t", "uint64_t", "uint64_t">>),
           Array(<<"uint64_t", "uint64_t">>)>> \in Seq(Fields)
      /\ <<Array(<<"uint8_t", "uint32_t">>)>> \in Seq(Fields)
  BY <1>5, <1>6, Zenon
<1> QED
  BY <1>6, <1>7, <1>8, Zenon DEF Template

\* The bytes of the fields of a message.
FieldStringsOf(m) ==
    [i \in DOMAIN Template(m.type) |-> FieldBytes(Template(m.type)[i], m.fields[i])]

LEMMA BodyStrings ==
    ASSUME NEW m, IsMessage(m)
    PROVE  /\ Len(Template(m.type)) \in Nat
           /\ DOMAIN Template(m.type) = 1..Len(Template(m.type))
           /\ FieldStringsOf(m) \in Strings
           /\ Len(FieldStringsOf(m)) = Len(Template(m.type))
           /\ Body(m) = FlattenSeq(FieldStringsOf(m))
           /\ m.fields = [i \in 1..Len(Template(m.type)) |-> m.fields[i]]
           /\ \A i \in 1..Len(Template(m.type)) :
                  /\ Template(m.type)[i] \in Fields
                  /\ FitsField(Template(m.type)[i], m.fields[i])
                  /\ FieldStringsOf(m)[i] = FieldBytes(Template(m.type)[i], m.fields[i])
<1> DEFINE fields == Template(m.type)
           v == m.fields
           n == Len(fields)
<1>1. Body(m) = FlattenSeq(FieldStringsOf(m))
  BY Zenon DEF Body, FieldStringsOf
<1>2. fields \in Seq(Fields)
  BY TemplateType
<1>3. v = [i \in DOMAIN fields |-> v[i]]
  BY Zenon DEF IsMessage
<1>4. \A i \in DOMAIN v : FitsField(fields[i], v[i])
  BY Zenon DEF IsMessage
<1>5. FieldStringsOf(m) = [i \in DOMAIN fields |-> FieldBytes(fields[i], v[i])]
  BY Zenon DEF FieldStringsOf
<1> HIDE DEF fields, v
<1>6. n \in Nat /\ DOMAIN fields = 1..n /\ \A i \in 1..n : fields[i] \in Fields
  BY <1>2
<1>7. v = [i \in 1..n |-> v[i]] /\ DOMAIN v = 1..n
  BY <1>3, <1>6, Zenon
<1>8. \A i \in 1..n : FitsField(fields[i], v[i])
  BY <1>4, <1>7, Zenon
<1>9. \A i \in 1..n : FieldBytes(fields[i], v[i]) \in Bytes
  <2> SUFFICES ASSUME NEW i \in 1..n PROVE FieldBytes(fields[i], v[i]) \in Bytes
    BY Zenon
  <2> DEFINE field == fields[i]
             value == v[i]
  <2>1. field \in Fields /\ FitsField(field, value)
    BY <1>6, <1>8, Zenon
  <2> HIDE DEF field, value
  <2>2. FieldBytes(field, value) \in Bytes
    BY <2>1, FieldBytesType
  <2> QED
    BY <2>2, Zenon DEF field, value
<1>10. FieldStringsOf(m) = [i \in 1..n |-> FieldBytes(fields[i], v[i])]
  BY <1>5, <1>6, Zenon
<1>11. FieldStringsOf(m) \in Strings /\ Len(FieldStringsOf(m)) = n
  BY <1>6, <1>9, <1>10 DEF Strings
<1>12. \A i \in 1..n : FieldStringsOf(m)[i] = FieldBytes(fields[i], v[i])
  BY <1>10, Zenon
<1> QED
  BY <1>1, <1>6, <1>7, <1>8, <1>11, <1>12, Zenon DEF fields, v

\* The length that size says is the number of the bytes that toByteArray gives.
LEMMA BodyType ==
    ASSUME NEW m, IsMessage(m)
    PROVE  Body(m) \in Bytes /\ Len(Body(m)) = MessageSize(m)
<1> DEFINE fields == Template(m.type)
           v == m.fields
           n == Len(fields)
           b == FieldStringsOf(m)
           sizes == [i \in DOMAIN fields |-> FieldSize(fields[i], v[i])]
<1>1. /\ n \in Nat /\ DOMAIN fields = 1..n
      /\ b \in Strings /\ Len(b) = n /\ Body(m) = FlattenSeq(b)
      /\ \A i \in 1..n : /\ fields[i] \in Fields /\ FitsField(fields[i], v[i])
                         /\ b[i] = FieldBytes(fields[i], v[i])
  BY BodyStrings
<1>2. MessageSize(m) = Sum(sizes)
  BY Zenon DEF MessageSize
<1>3. sizes = [i \in 1..n |-> FieldSize(fields[i], v[i])]
  BY <1>1, Zenon
<1> HIDE DEF fields, v, n, b, sizes
<1>4. \A i \in 1..n : b[i] \in Bytes /\ FieldSize(fields[i], v[i]) = Len(b[i])
  <2> SUFFICES ASSUME NEW i \in 1..n
               PROVE  b[i] \in Bytes /\ FieldSize(fields[i], v[i]) = Len(b[i])
    BY Zenon
  <2> DEFINE field == fields[i]
             value == v[i]
  <2>1. /\ field \in Fields /\ FitsField(field, value)
        /\ b[i] = FieldBytes(field, value)
    BY <1>1, Zenon
  <2> HIDE DEF field, value
  <2>2. /\ FieldBytes(field, value) \in Bytes
        /\ Len(FieldBytes(field, value)) = FieldSize(field, value)
    BY <2>1, FieldBytesType
  <2> QED
    BY <2>1, <2>2, Zenon DEF field, value
<1>5. \A i \in 1..n : FieldSize(fields[i], v[i]) \in Nat
  <2>1. \A s \in Bytes : Len(s) \in Nat
    BY ConcatBytes
  <2> QED
    BY <1>4, <2>1, Zenon
<1>6. /\ sizes \in Seq(Nat) /\ Len(sizes) = n
      /\ \A i \in 1..n : sizes[i] = FieldSize(fields[i], v[i])
  BY <1>1, <1>3, <1>5
<1>7. Len(FlattenSeq(b)) = Sum(sizes) /\ FlattenSeq(b) \in Bytes
  <2>1. \A i \in 1..Len(b) : sizes[i] = Len(b[i])
    BY <1>1, <1>4, <1>6
  <2>2. Len(sizes) = Len(b)
    BY <1>1, <1>6
  <2> QED
    BY <1>1, <1>6, <2>1, <2>2, FlattenLen, FlattenType
<1> QED
  BY <1>1, <1>2, <1>7

\* fill gives back the fields that were packed and takes off exactly their bytes,
\* whatever follows them in the buffer: it goes by the template alone, so the bytes
\* of each value must say themselves where they end.
THEOREM RoundTrip ==
    ASSUME NEW m, IsMessage(m), NEW z \in Bytes
    PROVE  Fill(m.type, Body(m) \o z) = [values |-> m.fields, rest |-> z]
<1> DEFINE fields == Template(m.type)
           v == m.fields
           n == Len(fields)
           b == FieldStringsOf(m)
           start == Nothing(Body(m) \o z)
<1>1. /\ n \in Nat /\ v = [i \in 1..n |-> v[i]]
      /\ b \in Strings /\ Len(b) = n /\ Body(m) = FlattenSeq(b)
      /\ \A i \in 1..n : /\ fields[i] \in Fields /\ FitsField(fields[i], v[i])
                         /\ b[i] = FieldBytes(fields[i], v[i])
  BY BodyStrings
<1>2. fields \in Seq(Fields)
  BY TemplateType
<1>3. Fill(m.type, Body(m) \o z) = FoldLeft(FillField, start, fields)
  BY Zenon DEF Fill
<1> HIDE DEF fields, v, b
<1>4. PICK f : /\ FillingFields!IsChain(f, start, fields)
               /\ FoldLeft(FillField, start, fields) = f[n]
  BY <1>2, FillingFieldsChain
<1>5. /\ f[0] = start
      /\ \A i \in 1..n : f[i] = FillField(f[i - 1], fields[i])
  BY <1>4, Zenon DEF FillingFields!IsChain
<1> HIDE DEF n
<1>6. Reads(f, v, b, n)
  <2> SUFFICES ASSUME NEW i \in 1..n, NEW y \in Bytes, f[i - 1].rest = b[i] \o y
               PROVE  f[i] = Add(f[i - 1], v[i], y)
    BY Zenon DEF Reads
  <2> DEFINE before == f[i - 1]
             field == fields[i]
             value == v[i]
  <2>1. /\ field \in Fields /\ FitsField(field, value)
        /\ before.rest = FieldBytes(field, value) \o y
    BY <1>1, Zenon
  <2>2. f[i] = FillField(before, field)
    BY <1>5, Zenon
  <2> HIDE DEF before, field, value
  <2>3. FillField(before, field) = Add(before, value, y)
    BY <2>1, FieldRead
  <2> QED
    BY <2>2, <2>3, Zenon DEF before, value
<1>7. f[n] = [values |-> [j \in 1..n |-> v[j]], rest |-> z]
  <2>1. f[0] = Nothing(FlattenSeq(b) \o z) /\ Reads(f, v, b, Len(b))
    BY <1>1, <1>5, <1>6, Zenon
  <2>2. f[Len(b)] = [values |-> [j \in 1..Len(b) |-> v[j]], rest |-> z]
    BY <1>1, <2>1, Reading
  <2> QED
    BY <1>1, <2>2, Zenon
<1> QED
  BY <1>1, <1>3, <1>4, <1>7, Zenon DEF v

LEMMA MessageSizeType ==
    ASSUME NEW m, IsMessage(m)
    PROVE  MessageSize(m) \in Nat /\ MessageSize(m) < Radix * Radix
<1>1. Body(m) \in Bytes /\ Len(Body(m)) = MessageSize(m)
  BY BodyType
<1>2. Len(Body(m)) \in Nat
  BY <1>1, ConcatBytes
<1> QED
  BY <1>1, <1>2, Zenon DEF IsMessage

LEMMA HeaderType ==
    ASSUME NEW m, IsMessage(m)
    PROVE  /\ Header(m) \in Bytes
           /\ Len(Header(m)) = HeaderLen
           /\ Header(m)[1] = m.type
           /\ Number(SubSeq(Header(m), 2, HeaderLen)) = MessageSize(m)
<1> DEFINE n == MessageSize(m)
           d == Digits(n, LenBytes)
           first == <<m.type>>
<1>1. n \in Nat /\ n < 256 * 256
  BY MessageSizeType DEF Radix
<1>2. Shifted(n)[LenBytes] = 0
  <2>1. /\ Shifted(n)[0] = n
        /\ \A k \in Nat \ {0} : Shifted(n)[k] = Shifted(n)[k - 1] \div 256
    BY <1>1, ShiftedFacts DEF Radix
  <2>2. Shifted(n)[1] = n \div 256
    <3>1. 1 \in Nat \ {0} /\ 1 - 1 = 0
      OBVIOUS
    <3> QED
      BY <2>1, <3>1
  <2>3. Shifted(n)[2] = (n \div 256) \div 256
    <3>1. 2 \in Nat \ {0} /\ 2 - 1 = 1
      OBVIOUS
    <3>2. Shifted(n)[2] = Shifted(n)[2 - 1] \div 256
      BY <2>1, <3>1, Zenon
    <3> QED
      BY <2>2, <3>1, <3>2
  <2>4. (n \div 256) \div 256 = 0
    <3> HIDE DEF n
    <3>1. n \div 256 \in 0..255
      BY <1>1
    <3> QED
      BY <3>1
  <2> QED
    BY <2>3, <2>4 DEF LenBytes
<1>3. d \in Bytes /\ Len(d) = 2 /\ Number(d) = n
  <2>1. LenBytes \in Nat /\ LenBytes = 2
    BY DEF LenBytes
  <2> HIDE DEF n
  <2> QED
    BY <1>1, <1>2, <2>1, DigitsType, NumberOfDigits
<1>4. first \in Bytes /\ Len(first) = 1 /\ first[1] = m.type
  BY DEF IsMessage, Bytes
<1>5. Header(m) = first \o d
  BY Zenon DEF Header
<1>6. HeaderLen = 3
  BY DEF HeaderLen, LenBytes
<1> HIDE DEF d, first, n
<1>7. first \o d \in Bytes /\ Len(first \o d) = 3
  <2>1. first \o d \in Bytes /\ Len(first \o d) = Len(first) + Len(d)
    BY <1>3, <1>4, ConcatBytes, Zenon
  <2> DEFINE both == first \o d
  <2> HIDE DEF both
  <2>2. both \in Bytes /\ Len(both) = Len(first) + Len(d)
    BY <2>1 DEF both
  <2>3. Len(both) = 3
    BY <1>3, <1>4, <2>2
  <2> QED
    BY <2>2, <2>3 DEF both
<1>8. (first \o d)[1] = first[1] /\ Drop(first \o d, 1) = d
  BY <1>3, <1>4, InFront
<1>9. SubSeq(first \o d, 2, 3) = d
  BY <1>7, <1>8 DEF Drop
<1> QED
  BY <1>3, <1>4, <1>5, <1>6, <1>7, <1>8, <1>9 DEF n

\* What is packed is bytes, as many as its header says and the header itself.
LEMMA PackType ==
    ASSUME NEW m, IsMessage(m)
    PROVE  /\ PackMessage(m) \in Bytes
           /\ Len(PackMessage(m)) = HeaderLen + MessageSize(m)
<1>1. Header(m) \in Bytes /\ Len(Header(m)) = HeaderLen
  BY HeaderType
<1>2. Body(m) \in Bytes /\ Len(Body(m)) = MessageSize(m)
  BY BodyType
<1> QED
  BY <1>1, <1>2, ConcatBytes DEF PackMessage

\* getHeader finds the header of a message that is at the front of the buffer, and
\* behind it the body.
LEMMA HeaderRead ==
    ASSUME NEW m, IsMessage(m), NEW z \in Bytes,
           NEW bytes, bytes = PackMessage(m) \o z
    PROVE  /\ MessageType(bytes) = m.type
           /\ MessageLen(bytes) = MessageSize(m)
           /\ Drop(bytes, HeaderLen) = Body(m) \o z
<1> DEFINE h == Header(m)
           left == Body(m) \o z
<1>1. /\ h \in Bytes /\ Len(h) = HeaderLen /\ h[1] = m.type
      /\ Number(SubSeq(h, 2, HeaderLen)) = MessageSize(m)
  BY HeaderType
<1>2. Body(m) \in Bytes
  BY BodyType
<1>3. HeaderLen = 3
  BY DEF HeaderLen, LenBytes
<1>4. bytes = (h \o Body(m)) \o z
  BY Zenon DEF PackMessage
<1> HIDE DEF h
<1>5. bytes = h \o left /\ left \in Bytes
  BY <1>1, <1>2, <1>4, ConcatThree, ConcatBytes
<1> HIDE DEF left
<1>6. Drop(h \o left, HeaderLen) = left
  BY <1>1, <1>5, InFront
<1>7. (h \o left)[1] = h[1] /\ SubSeq(h \o left, 2, 3) = SubSeq(h, 2, 3)
  <2> DEFINE long == h \o left
  <2>1. /\ \A i \in 1..Len(h) : long[i] = h[i]
        /\ long \in Bytes /\ Len(long) = Len(h) + Len(left) /\ Len(left) \in Nat
    BY <1>1, <1>5, ConcatBytes, InFront, Zenon
  <2> HIDE DEF long
  <2>2. Len(h) = 3 /\ Len(long) >= 3 /\ h \in Seq(Byte) /\ long \in Seq(Byte)
    BY <1>1, <1>3, <2>1 DEF Bytes
  <2>3. long[1] = h[1] /\ \A i \in 1..2 : long[i + 1] = h[i + 1]
    BY <2>1, <2>2
  <2>4. ASSUME NEW s \in Seq(Byte), Len(s) >= 3
        PROVE  SubSeq(s, 2, 3) = [i \in 1..2 |-> s[i + 1]]
    BY <2>4
  <2>5. SubSeq(long, 2, 3) = [i \in 1..2 |-> long[i + 1]]
    BY <2>2, <2>4
  <2>6. SubSeq(h, 2, 3) = [i \in 1..2 |-> h[i + 1]]
    BY <2>2, <2>4
  <2> QED
    BY <2>3, <2>5, <2>6, Zenon DEF long
<1> QED
  BY <1>1, <1>3, <1>5, <1>6, <1>7 DEF MessageType, MessageLen, left

----------------------------------------------------------------------------
(* What is in the buffer of a connection. *)

\* A sequence of bytes cut in two places, in p and r and in b and w.
CutTwice(p, r, b, w) == p \o r = b \o w

\* What is between the two places.
Between(z, p, r, b, w) == b = p \o z /\ r = z \o w

\* If what begins with a message is cut somewhere behind its last byte, the message
\* is at the front of the buffer, and what is left in the buffer continues as before.
LEMMA CutBehind ==
    ASSUME NEW p \in Bytes, NEW r \in Bytes, NEW b \in Bytes, NEW w \in Bytes,
           CutTwice(p, r, b, w), Len(p) <= Len(b)
    PROVE  \E z \in Bytes : Between(z, p, r, b, w)
<1> DEFINE z == Drop(b, Len(p))
<1>1. z \in Bytes /\ Len(z) = Len(b) - Len(p)
  BY DEF Drop, Bytes
<1>2. /\ Len(p) \in Nat /\ Len(b) \in Nat
      /\ \A i \in 1..Len(z) : z[i] = b[Len(p) + i]
  BY DEF Drop, Bytes
<1> HIDE DEF z
<1>3. \A i \in 1..Len(p) : b[i] = p[i]
  <2>1. \A i \in 1..Len(p) : (p \o r)[i] = p[i]
    BY InFront
  <2>2. \A i \in 1..Len(b) : (b \o w)[i] = b[i]
    BY InFront
  <2> QED
    BY <1>2, <2>1, <2>2 DEF CutTwice
<1>4. b = p \o z
  <2>1. p \o z \in Bytes /\ Len(p \o z) = Len(b)
    BY <1>1, <1>2, ConcatBytes
  <2>2. \A i \in 1..Len(p) : (p \o z)[i] = p[i]
    BY <1>1, InFront
  <2>3. \A i \in 1..Len(z) : (p \o z)[Len(p) + i] = z[i]
    BY <1>1 DEF Bytes
  <2>4. ASSUME NEW i \in 1..Len(b) PROVE (p \o z)[i] = b[i]
    <3>1. CASE i \in 1..Len(p)
      BY <1>3, <2>2, <3>1
    <3>2. CASE i \notin 1..Len(p)
      <4>1. i - Len(p) \in 1..Len(z) /\ Len(p) + (i - Len(p)) = i
        BY <1>1, <1>2, <3>2
      <4>2. (p \o z)[Len(p) + (i - Len(p))] = z[i - Len(p)]
        BY <2>3, <4>1, Zenon
      <4>3. z[i - Len(p)] = b[Len(p) + (i - Len(p))]
        BY <1>2, <4>1, Zenon
      <4> QED
        BY <4>1, <4>2, <4>3
    <3> QED
      BY <3>1, <3>2
  <2> DEFINE c == p \o z
  <2> HIDE DEF c
  <2>5. /\ c \in Seq(Byte) /\ b \in Seq(Byte) /\ Len(c) = Len(b)
        /\ \A i \in 1..Len(b) : c[i] = b[i]
    BY <2>1, <2>4 DEF c, Bytes
  <2>6. c = b
    BY <2>5
  <2> QED
    BY <2>6 DEF c
<1>5. r = z \o w
  <2>1. p \o r = p \o (z \o w)
    BY <1>1, <1>4, ConcatThree DEF CutTwice
  <2>2. z \o w \in Bytes
    BY <1>1, ConcatBytes
  <2>3. Drop(p \o r, Len(p)) = r /\ Drop(p \o (z \o w), Len(p)) = z \o w
    BY <2>2, InFront
  <2> QED
    BY <2>1, <2>3, Zenon
<1> QED
  BY <1>1, <1>4, <1>5, Zenon DEF Between

\* getHeader sees the same bytes whether or not the rest has arrived.
LEMMA HeaderArrived ==
    ASSUME NEW b \in Bytes, NEW w \in Bytes, Len(b) >= HeaderLen
    PROVE  MessageLen(b \o w) = MessageLen(b)
<1> DEFINE long == b \o w
<1>1. /\ \A i \in 1..Len(b) : long[i] = b[i]
      /\ long \in Bytes /\ Len(long) = Len(b) + Len(w)
      /\ Len(w) \in Nat /\ Len(b) \in Nat
  BY ConcatBytes, InFront, Zenon
<1>2. HeaderLen = 3
  BY DEF HeaderLen, LenBytes
<1> HIDE DEF long
<1>3. Len(b) >= 3 /\ Len(long) >= 3 /\ b \in Seq(Byte) /\ long \in Seq(Byte)
  BY <1>1, <1>2 DEF Bytes
<1>4. \A i \in 1..2 : long[i + 1] = b[i + 1]
  BY <1>1, <1>3
<1>5. ASSUME NEW s \in Seq(Byte), Len(s) >= 3
      PROVE  SubSeq(s, 2, 3) = [i \in 1..2 |-> s[i + 1]]
  BY <1>5
<1>6. SubSeq(long, 2, 3) = [i \in 1..2 |-> long[i + 1]]
  BY <1>3, <1>5
<1>7. SubSeq(b, 2, 3) = [i \in 1..2 |-> b[i + 1]]
  BY <1>3, <1>5
<1>8. SubSeq(long, 2, 3) = SubSeq(b, 2, 3)
  BY <1>4, <1>6, <1>7, Zenon
<1> QED
  BY <1>2, <1>8, Zenon DEF MessageLen, long

\* So a message that is first in the stream is taken whole if Complete, and nothing
\* of what follows it.
Taken(z, m, r, b, w) ==
    /\ Fill(MessageType(b), Drop(b, HeaderLen)) = [values |-> m.fields, rest |-> z]
    /\ z \o w = r

LEMMA FirstTaken ==
    ASSUME NEW m, IsMessage(m), NEW r \in Bytes, NEW b \in Bytes, NEW w \in Bytes,
           CutTwice(PackMessage(m), r, b, w),
           Len(b) >= HeaderLen, Len(b) >= HeaderLen + MessageLen(b)
    PROVE  /\ MessageType(b) = m.type
           /\ \E z \in Bytes : Taken(z, m, r, b, w)
<1> DEFINE p == PackMessage(m)
<1>1. p \in Bytes /\ Len(p) = HeaderLen + MessageSize(m)
  BY PackType
<1>2. MessageLen(p \o r) = MessageSize(m)
  <2> DEFINE bytes == p \o r
  <2>1. bytes = PackMessage(m) \o r
    OBVIOUS
  <2> HIDE DEF bytes, p
  <2>2. MessageLen(bytes) = MessageSize(m)
    BY <2>1, HeaderRead
  <2> QED
    BY <2>2 DEF bytes
<1>3. MessageLen(b) = MessageSize(m)
  <2>1. MessageLen(b \o w) = MessageLen(b)
    BY HeaderArrived
  <2>2. p \o r = b \o w
    BY Zenon DEF CutTwice
  <2> QED
    BY <1>2, <2>1, <2>2, Zenon
<1>4. Len(p) <= Len(b) /\ CutTwice(p, r, b, w)
  BY <1>1, <1>3
<1> HIDE DEF p
<1>5. PICK z \in Bytes : b = p \o z /\ r = z \o w
  <2>1. p \in Bytes /\ CutTwice(p, r, b, w) /\ Len(p) <= Len(b)
    BY <1>1, <1>4, Zenon
  <2>2. \E z \in Bytes : Between(z, p, r, b, w)
    BY <2>1, CutBehind, Zenon
  <2> QED
    BY <2>2, Zenon DEF Between
<1>6. MessageType(b) = m.type /\ Drop(b, HeaderLen) = Body(m) \o z
  <2>1. b = PackMessage(m) \o z
    BY <1>5 DEF p
  <2> QED
    BY <1>5, <2>1, HeaderRead
<1>7. Fill(m.type, Body(m) \o z) = [values |-> m.fields, rest |-> z]
  BY <1>5, RoundTrip
<1> QED
  BY <1>5, <1>6, <1>7, Zenon DEF Taken

----------------------------------------------------------------------------
(* The messages that are handled. *)

Kept(ms) == FoldLeft(KeepHandled, <<>>, ms)

LEMMA KeepType ==
    ASSUME NEW ms \in Seq(Samples), NEW m \in Samples
    PROVE  KeepHandled(ms, m) \in Seq(Samples)
BY DEF KeepHandled

\* The first k messages of which those with a handler are kept.
KeptUpTo(ms, k) == Kept(SubSeq(ms, 1, k))

LEMMA KeptStep ==
    ASSUME NEW ms \in Seq(Samples)
    PROVE  /\ KeptUpTo(ms, 0) = <<>>
           /\ KeptUpTo(ms, Len(ms)) = Kept(ms)
           /\ \A k \in 1..Len(ms) :
                  KeptUpTo(ms, k) = KeepHandled(KeptUpTo(ms, k - 1), ms[k])
<1>1. KeptUpTo(ms, 0) = <<>>
  <2>1. SubSeq(ms, 1, 0) = <<>>
    BY SubSeqEmpty
  <2>2. FoldLeft(KeepHandled, <<>>, <<>>) = Keeping!FoldLeft(KeepHandled, <<>>, <<>>)
    BY KeepingFold, Zenon
  <2>3. Keeping!FoldLeft(KeepHandled, <<>>, <<>>) = <<>>
    BY Keeping!FoldEmpty, Zenon
  <2> QED
    BY <2>1, <2>2, <2>3, Zenon DEF KeptUpTo, Kept
<1>2. SubSeq(ms, 1, Len(ms)) = ms
  OBVIOUS
<1>3. ASSUME NEW k \in 1..Len(ms)
      PROVE  KeptUpTo(ms, k) = KeepHandled(KeptUpTo(ms, k - 1), ms[k])
  <2> DEFINE before == SubSeq(ms, 1, k - 1)
  <2>1. before \in Seq(Samples) /\ ms[k] \in Samples
    OBVIOUS
  <2>2. SubSeq(ms, 1, k) = Append(before, ms[k])
    OBVIOUS
  <2> HIDE DEF before
  <2>3. FoldLeft(KeepHandled, <<>>, Append(before, ms[k]))
          = KeepHandled(FoldLeft(KeepHandled, <<>>, before), ms[k])
    BY <2>1, KeepingAppend
  <2> QED
    BY <2>2, <2>3, Zenon DEF KeptUpTo, Kept, before
<1> QED
  BY <1>1, <1>2, <1>3, Zenon DEF KeptUpTo

LEMMA KeptType ==
    ASSUME NEW ms \in Seq(Samples)
    PROVE  \A k \in 0..Len(ms) : KeptUpTo(ms, k) \in Seq(Samples)
<1> DEFINE n == Len(ms)
           kept(k) == KeptUpTo(ms, k)
           G == {k \in 0..n : kept(k) \in Seq(Samples)}
<1>1. n \in Nat /\ \A k \in 1..n : ms[k] \in Samples
  OBVIOUS
<1>2. kept(0) = <<>> /\ \A k \in 1..n : kept(k) = KeepHandled(kept(k - 1), ms[k])
  BY KeptStep
<1> HIDE DEF kept, n
<1>3. 0 \in G
  <2>1. <<>> \in Seq(Samples) /\ 0 \in 0..n
    BY <1>1
  <2> QED
    BY <1>2, <2>1, Zenon
<1>4. ASSUME NEW k \in 1..n, k - 1 \in G PROVE k \in G
  <2>1. kept(k - 1) \in Seq(Samples) /\ ms[k] \in Samples
    BY <1>1, <1>4, Zenon
  <2>2. kept(k) \in Seq(Samples)
    <3>1. KeepHandled(kept(k - 1), ms[k]) \in Seq(Samples)
      BY <2>1, KeepType, Zenon
    <3> QED
      BY <1>2, <3>1, Zenon
  <2>3. k \in 0..n
    BY <1>1
  <2> QED
    BY <2>2, <2>3, Zenon
<1>5. \A k \in 0..n : k \in G
  <2> HIDE DEF G
  <2> QED
    BY <1>1, <1>3, <1>4, Adding!UpTo
<1> QED
  BY <1>5, Zenon DEF kept, n

\* What is kept of the first messages is what comes first of all that is kept.
Begins(s, t) == Len(s) <= Len(t) /\ \A i \in 1..Len(s) : t[i] = s[i]

LEMMA KeptFirst ==
    ASSUME NEW ms \in Seq(Samples), NEW j \in 0..Len(ms)
    PROVE  Begins(KeptUpTo(ms, j), Kept(ms))
<1> DEFINE n == Len(ms) - j
           kept(k) == KeptUpTo(ms, k)
           G == {k \in 0..n : Begins(kept(j), kept(j + k))}
<1>1. n \in Nat /\ j \in Nat /\ Len(ms) = j + n /\ j + 0 = j
  OBVIOUS
<1>2. /\ kept(Len(ms)) = Kept(ms)
      /\ \A k \in 1..Len(ms) : kept(k) = KeepHandled(kept(k - 1), ms[k])
      /\ \A k \in 0..Len(ms) : kept(k) \in Seq(Samples)
      /\ \A k \in 1..Len(ms) : ms[k] \in Samples
  BY KeptStep, KeptType
<1> HIDE DEF kept, n
<1>3. 0 \in G
  <2>1. kept(j) \in Seq(Samples) /\ 0 \in 0..n
    BY <1>1, <1>2
  <2>2. Begins(kept(j), kept(j))
    BY <2>1 DEF Begins
  <2> QED
    BY <1>1, <2>1, <2>2, Zenon
<1>4. ASSUME NEW k \in 1..n, k - 1 \in G PROVE k \in G
  <2> DEFINE first == kept(j)
             before == kept(j + (k - 1))
             m == ms[j + k]
  <2>1. /\ j + k \in 1..Len(ms) /\ (j + k) - 1 = j + (k - 1)
        /\ j + (k - 1) \in 0..Len(ms) /\ j \in 0..Len(ms) /\ k \in 0..n
    BY <1>1
  <2>2. kept(j + k) = KeepHandled(before, m)
    BY <1>2, <2>1
  <2>3. Begins(first, before)
    BY <1>4
  <2>4. first \in Seq(Samples) /\ before \in Seq(Samples) /\ m \in Samples
    BY <1>2, <2>1
  <2> HIDE DEF first, before, m
  <2>5. Begins(first, KeepHandled(before, m))
    BY <2>3, <2>4 DEF Begins, KeepHandled
  <2> QED
    BY <2>1, <2>2, <2>5, Zenon DEF first
<1>5. \A k \in 0..n : k \in G
  <2> HIDE DEF G
  <2> QED
    BY <1>1, <1>3, <1>4, Adding!UpTo
<1>6. n \in 0..n
  BY <1>1
<1>7. Begins(kept(j), kept(j + n))
  BY <1>5, <1>6, Zenon
<1>8. kept(j + n) = Kept(ms)
  BY <1>1, <1>2
<1> QED
  BY <1>7, <1>8, Zenon DEF kept

----------------------------------------------------------------------------
(* The invariant of the connection. *)

\* What has been handled is what has a handler among the messages that were taken.
HandledIsKept == handled = KeptUpTo(sent, taken)

CodecInv == TypeOK /\ StreamFramed /\ HandledIsKept

\* The bytes of the messages behind the first n.
Waiting(ms, n) == [i \in 1..(Len(ms) - n) |-> PackMessage(ms[n + i])]

LEMMA WaitingType ==
    ASSUME NEW ms \in Seq(Samples), NEW n \in 0..Len(ms)
    PROVE  /\ Waiting(ms, n) \in Strings
           /\ Len(Waiting(ms, n)) = Len(ms) - n
           /\ FlattenSeq(Waiting(ms, n)) \in Bytes
<1>1. Len(ms) - n \in Nat /\ \A i \in 1..(Len(ms) - n) : ms[n + i] \in Samples
  OBVIOUS
<1>2. \A m \in Samples : PackMessage(m) \in Bytes
  BY SamplesAssumption, PackType
<1>3. Waiting(ms, n) \in Strings /\ Len(Waiting(ms, n)) = Len(ms) - n
  <2>1. \A i \in 1..(Len(ms) - n) : PackMessage(ms[n + i]) \in Bytes
    BY <1>1, <1>2, Zenon
  <2> QED
    BY <1>1, <2>1 DEF Waiting, Strings
<1> QED
  BY <1>3, FlattenType

LEMMA FramedIs == StreamFramed <=> buf \o wire = FlattenSeq(Waiting(sent, taken))
BY Zenon DEF StreamFramed, Waiting

\* The first message that waits is in front of the others.
LEMMA WaitingHead ==
    ASSUME NEW ms \in Seq(Samples), NEW n \in 0..Len(ms), n < Len(ms)
    PROVE  FlattenSeq(Waiting(ms, n))
             = PackMessage(ms[n + 1]) \o FlattenSeq(Waiting(ms, n + 1))
<1> DEFINE long == Waiting(ms, n)
           short == Waiting(ms, n + 1)
<1>1. /\ Len(ms) \in Nat /\ n \in Nat /\ n + 1 \in 0..Len(ms)
      /\ 1 \in 1..(Len(ms) - n)
  OBVIOUS
<1>2. /\ long \in Strings /\ Len(long) = Len(ms) - n
      /\ short \in Strings /\ Len(short) = Len(ms) - (n + 1)
  BY <1>1, WaitingType
<1>3. Len(long) = Len(short) + 1
  BY <1>1, <1>2
<1>4. long[1] = PackMessage(ms[n + 1])
  BY <1>1, Zenon DEF Waiting
<1>5. Follows(short, long, Len(short))
  <2>1. ASSUME NEW j \in 1..(Len(ms) - (n + 1)) PROVE long[j + 1] = short[j]
    <3>1. /\ j + 1 \in 1..(Len(ms) - n)
          /\ n + (j + 1) = (n + 1) + j
      BY <1>1
    <3>2. /\ long[j + 1] = PackMessage(ms[n + (j + 1)])
          /\ short[j] = PackMessage(ms[(n + 1) + j])
      BY <3>1, Zenon DEF Waiting
    <3> QED
      BY <3>1, <3>2
  <2> HIDE DEF long, short
  <2> QED
    BY <1>2, <2>1 DEF Follows
<1> HIDE DEF long, short
<1>6. FlattenSeq(long) = long[1] \o FlattenSeq(short)
  BY <1>2, <1>3, <1>5, FlattenHead
<1> QED
  BY <1>4, <1>6, Zenon DEF long, short

\* One more message waits behind the others.
LEMMA WaitingMore ==
    ASSUME NEW ms \in Seq(Samples), NEW n \in 0..Len(ms), NEW m \in Samples
    PROVE  FlattenSeq(Waiting(Append(ms, m), n))
             = FlattenSeq(Waiting(ms, n)) \o PackMessage(m)
<1> DEFINE more == Append(ms, m)
           short == Waiting(ms, n)
           long == Waiting(more, n)
<1>1. /\ more \in Seq(Samples) /\ Len(more) = Len(ms) + 1 /\ more[Len(ms) + 1] = m
      /\ \A i \in 1..Len(ms) : more[i] = ms[i]
      /\ Len(ms) \in Nat /\ n \in Nat
  OBVIOUS
<1> HIDE DEF more
<1>2. n \in 0..Len(more)
  BY <1>1
<1>3. /\ long \in Strings /\ Len(long) = Len(more) - n
      /\ short \in Strings /\ Len(short) = Len(ms) - n
  BY <1>1, <1>2, WaitingType
<1>4. /\ Len(long) = Len(short) + 1 /\ n + Len(long) = Len(ms) + 1
      /\ Len(long) \in 1..(Len(more) - n)
  BY <1>1, <1>3
<1>5. long[Len(long)] = PackMessage(m)
  <2>1. long[Len(long)] = PackMessage(more[n + Len(long)])
    BY <1>4, Zenon DEF Waiting
  <2> HIDE DEF long
  <2> QED
    BY <1>1, <1>4, <2>1
<1>6. \A i \in 1..Len(short) : long[i] = short[i]
  <2>1. ASSUME NEW i \in 1..(Len(ms) - n) PROVE long[i] = short[i]
    <3>1. i \in 1..(Len(more) - n) /\ n + i \in 1..Len(ms)
      BY <1>1
    <3>2. long[i] = PackMessage(more[n + i]) /\ short[i] = PackMessage(ms[n + i])
      BY <3>1, Zenon DEF Waiting
    <3>3. more[n + i] = ms[n + i]
      BY <1>1, <3>1
    <3> QED
      BY <3>2, <3>3, Zenon
  <2> HIDE DEF long, short
  <2> QED
    BY <1>3, <2>1
<1> HIDE DEF long, short
<1>7. FlattenSeq(long) = FlattenSeq(short) \o long[Len(long)]
  BY <1>3, <1>4, <1>6, FlattenAppend
<1> QED
  BY <1>5, <1>7, Zenon DEF long, short, more

LEMMA InitInv == Init => CodecInv
<1> SUFFICES ASSUME Init PROVE CodecInv
  OBVIOUS
<1>1. /\ sent = <<>> /\ wire = <<>> /\ buf = <<>>
      /\ ~handling /\ taken = 0 /\ handled = <<>>
  BY DEF Init
<1>2. TypeOK
  <2>1. /\ <<>> \in Seq(Samples) /\ <<>> \in Seq(Byte)
        /\ 0 \in 0..Len(<<>>) /\ DOMAIN <<>> = {}
    OBVIOUS
  <2>2. \A i \in DOMAIN handled : handled[i].type \in Handlers
    BY <1>1, <2>1
  <2>3. handling \in BOOLEAN
    BY DEF Init
  <2> QED
    BY <1>1, <2>1, <2>2, <2>3, Zenon DEF TypeOK
<1>3. StreamFramed
  <2>1. buf \o wire = <<>>
    BY <1>1, ConcatNone, NoBytes
  <2>2. Waiting(sent, taken) = <<>>
    BY <1>1 DEF Waiting
  <2> QED
    BY <2>1, <2>2, FlattenNone, FramedIs, Zenon
<1>4. HandledIsKept
  <2>1. sent \in Seq(Samples)
    BY <1>2 DEF TypeOK
  <2> QED
    BY <1>1, <2>1, KeptStep DEF HandledIsKept
<1> QED
  BY <1>2, <1>3, <1>4 DEF CodecInv

\* What the invariant says, in the terms of the lemmas above.
LEMMA InvFacts ==
    ASSUME CodecInv
    PROVE  /\ sent \in Seq(Samples) /\ wire \in Bytes /\ buf \in Bytes
           /\ handling \in BOOLEAN
           /\ taken \in 0..Len(sent) /\ taken \in Nat /\ Len(sent) \in Nat
           /\ \A i \in DOMAIN handled : handled[i].type \in Handlers
           /\ buf \o wire = FlattenSeq(Waiting(sent, taken))
           /\ handled = KeptUpTo(sent, taken)
           /\ handled \in Seq(Samples)
<1>1. /\ sent \in Seq(Samples) /\ wire \in Bytes /\ buf \in Bytes
      /\ handling \in BOOLEAN /\ taken \in 0..Len(sent)
      /\ \A i \in DOMAIN handled : handled[i].type \in Handlers
  BY Zenon DEF CodecInv, TypeOK, Bytes
<1>2. taken \in Nat /\ Len(sent) \in Nat
  BY <1>1
<1>3. buf \o wire = FlattenSeq(Waiting(sent, taken)) /\ handled = KeptUpTo(sent, taken)
  BY FramedIs, Zenon DEF CodecInv, HandledIsKept
<1>4. KeptUpTo(sent, taken) \in Seq(Samples)
  BY <1>1, KeptType, Zenon
<1> QED
  BY <1>1, <1>2, <1>3, <1>4, Zenon

\* The other way round, after a step.
LEMMA InvMade ==
    ASSUME sent' \in Seq(Samples), wire' \in Bytes, buf' \in Bytes,
           handling' \in BOOLEAN, taken' \in 0..Len(sent'),
           \A i \in DOMAIN handled' : handled'[i].type \in Handlers,
           buf' \o wire' = FlattenSeq(Waiting(sent', taken')),
           handled' = KeptUpTo(sent', taken')
    PROVE  CodecInv'
<1>1. TypeOK'
  BY Zenon DEF TypeOK, Bytes
<1>2. StreamFramed'
  BY Zenon DEF StreamFramed, Waiting
<1> QED
  BY <1>1, <1>2, Zenon DEF CodecInv, HandledIsKept

LEMMA SendInv ==
    ASSUME CodecInv, NEW m \in Samples, SendMessage(m)
    PROVE  CodecInv'
<1>1. /\ sent' = Append(sent, m)
      /\ wire' = wire \o PackMessage(m)
      /\ buf' = buf /\ handling' = handling /\ taken' = taken /\ handled' = handled
  BY Zenon DEF SendMessage
<1>2. /\ sent \in Seq(Samples) /\ wire \in Bytes /\ buf \in Bytes
      /\ handling \in BOOLEAN
      /\ taken \in 0..Len(sent) /\ taken \in Nat /\ Len(sent) \in Nat
      /\ \A i \in DOMAIN handled : handled[i].type \in Handlers
      /\ buf \o wire = FlattenSeq(Waiting(sent, taken))
      /\ handled = KeptUpTo(sent, taken)
  BY InvFacts
<1> DEFINE p == PackMessage(m)
<1>3. p \in Bytes
  BY SamplesAssumption, PackType
<1>4. sent' \in Seq(Samples) /\ taken' \in 0..Len(sent')
  BY <1>1, <1>2
<1>5. buf' \o wire' = FlattenSeq(Waiting(sent', taken'))
  <2>1. FlattenSeq(Waiting(Append(sent, m), taken))
          = FlattenSeq(Waiting(sent, taken)) \o p
    BY <1>2, WaitingMore, Zenon
  <2> HIDE DEF p
  <2>2. (buf \o wire) \o p = buf \o (wire \o p)
    BY <1>2, <1>3, ConcatThree, Zenon
  <2> QED
    BY <1>1, <1>2, <2>1, <2>2, Zenon DEF p
<1>6. SubSeq(sent', 1, taken) = SubSeq(sent, 1, taken)
  BY <1>1, <1>2
<1>7. handled' = KeptUpTo(sent', taken')
  BY <1>1, <1>2, <1>6, Zenon DEF KeptUpTo
<1>8. wire' \in Bytes
  BY <1>1, <1>2, <1>3, ConcatBytes
<1> QED
  BY <1>1, <1>2, <1>4, <1>5, <1>7, <1>8, InvMade, Zenon

LEMMA ArriveInv ==
    ASSUME CodecInv, NEW n \in 1..Len(wire), Arrive(n)
    PROVE  CodecInv'
<1>1. /\ buf' = buf \o SubSeq(wire, 1, n) /\ wire' = Drop(wire, n) /\ handling' = TRUE
      /\ sent' = sent /\ taken' = taken /\ handled' = handled
  BY Zenon DEF Arrive
<1>2. /\ sent \in Seq(Samples) /\ wire \in Bytes /\ buf \in Bytes
      /\ taken \in 0..Len(sent)
      /\ \A i \in DOMAIN handled : handled[i].type \in Handlers
      /\ buf \o wire = FlattenSeq(Waiting(sent, taken))
      /\ handled = KeptUpTo(sent, taken)
  BY InvFacts
<1> DEFINE piece == SubSeq(wire, 1, n)
           left == Drop(wire, n)
<1>3. piece \in Bytes /\ left \in Bytes /\ piece \o left = wire
  BY <1>2 DEF Drop, Bytes
<1> HIDE DEF piece, left
<1>4. (buf \o piece) \o left = buf \o (piece \o left)
  BY <1>2, <1>3, ConcatThree, Zenon
<1>5. buf' \o wire' = buf \o wire
  BY <1>1, <1>3, <1>4, Zenon DEF piece, left
<1>6. buf' \in Bytes /\ wire' \in Bytes
  BY <1>1, <1>2, <1>3, ConcatBytes DEF piece, left
<1>7. handling' \in BOOLEAN
  BY <1>1
<1>8. /\ sent' \in Seq(Samples) /\ taken' \in 0..Len(sent')
      /\ \A i \in DOMAIN handled' : handled'[i].type \in Handlers
      /\ buf' \o wire' = FlattenSeq(Waiting(sent', taken'))
      /\ handled' = KeptUpTo(sent', taken')
  BY <1>1, <1>2, <1>5, Zenon
<1> QED
  BY <1>6, <1>7, <1>8, InvMade, Zenon

LEMMA BreakInv ==
    ASSUME CodecInv, Break \/ UNCHANGED vars
    PROVE  CodecInv'
<1>1. /\ sent' = sent /\ wire' = wire /\ buf' = buf
      /\ taken' = taken /\ handled' = handled
      /\ handling' = handling \/ handling' = FALSE
  BY Zenon DEF Break, vars
<1>2. handling \in BOOLEAN
  BY InvFacts
<1>3. handling' \in BOOLEAN
  BY <1>1, <1>2
<1> QED
  BY <1>1, <1>3, InvFacts, InvMade, Zenon

\* What a message that is complete in the buffer is taken for, and what is left.
LEMMA HandleFacts ==
    ASSUME CodecInv, HandleMessage
    PROVE  /\ taken < Len(sent)
           /\ taken' = taken + 1 /\ sent' = sent /\ wire' = wire /\ handling' = handling
           /\ buf' \in Bytes
           /\ buf' \o wire = FlattenSeq(Waiting(sent, taken + 1))
           /\ handled' = KeepHandled(handled, sent[taken + 1])
<1>1. /\ sent \in Seq(Samples) /\ wire \in Bytes /\ buf \in Bytes
      /\ taken \in 0..Len(sent) /\ taken \in Nat /\ Len(sent) \in Nat
      /\ buf \o wire = FlattenSeq(Waiting(sent, taken))
  BY InvFacts
<1>2. /\ Len(buf) >= HeaderLen /\ Len(buf) >= HeaderLen + MessageLen(buf)
      /\ taken' = taken + 1 /\ sent' = sent /\ wire' = wire /\ handling' = handling
  BY Zenon DEF HandleMessage, TakeMessage, Complete
<1>3. taken < Len(sent)
  <2> SUFFICES ASSUME ~ taken < Len(sent) PROVE FALSE
    OBVIOUS
  <2>1. taken = Len(sent)
    BY <1>1
  <2>2. Waiting(sent, taken) = <<>>
    BY <1>1, <2>1 DEF Waiting
  <2>3. buf \o wire = <<>>
    BY <1>1, <2>2, FlattenNone, Zenon
  <2>4. Len(buf \o wire) = Len(buf) + Len(wire) /\ Len(buf) \in Nat /\ Len(wire) \in Nat
    BY <1>1, ConcatBytes, Zenon
  <2>5. Len(buf) + Len(wire) = 0
    BY <2>3, <2>4, NoBytes, Zenon
  <2> QED
    BY <1>2, <2>4, <2>5 DEF HeaderLen, LenBytes
<1> DEFINE m == sent[taken + 1]
           r == FlattenSeq(Waiting(sent, taken + 1))
<1>4. m \in Samples /\ taken + 1 \in 0..Len(sent)
  BY <1>1, <1>3
<1>5. IsMessage(m) /\ r \in Bytes
  BY <1>1, <1>4, SamplesAssumption, WaitingType, Zenon
<1>6. PackMessage(m) \o r = buf \o wire
  BY <1>1, <1>3, WaitingHead, Zenon
<1> HIDE DEF m, r
<1>7. PICK z \in Bytes :
          /\ Fill(MessageType(buf), Drop(buf, HeaderLen))
               = [values |-> m.fields, rest |-> z]
          /\ z \o wire = r
  <2>1. CutTwice(PackMessage(m), r, buf, wire)
    BY <1>6, Zenon DEF CutTwice
  <2>2. \E z \in Bytes : Taken(z, m, r, buf, wire)
    BY <1>1, <1>2, <1>5, <2>1, FirstTaken, Zenon
  <2> QED
    BY <2>2, Zenon DEF Taken
<1>8. MessageType(buf) = m.type
  <2>1. CutTwice(PackMessage(m), r, buf, wire)
    BY <1>6, Zenon DEF CutTwice
  <2> QED
    BY <1>1, <1>2, <1>5, <2>1, FirstTaken, Zenon
<1> DEFINE read == Fill(MessageType(buf), Drop(buf, HeaderLen))
<1>9. /\ buf' = read.rest
      /\ handled' = IF MessageType(buf) \in Handlers
                    THEN Append(handled, [type   |-> MessageType(buf),
                                          fields |-> read.values])
                    ELSE handled
  BY Zenon DEF HandleMessage
<1> HIDE DEF read
<1>10. read.rest = z /\ read.values = m.fields
  BY <1>7 DEF read
<1>11. [type |-> m.type, fields |-> m.fields] = m
  BY <1>5, Zenon DEF IsMessage
<1>12. handled' = KeepHandled(handled, m)
  BY <1>8, <1>9, <1>10, <1>11, Zenon DEF KeepHandled
<1>13. buf' \in Bytes /\ buf' \o wire = r
  BY <1>7, <1>9, <1>10, Zenon
<1> QED
  BY <1>2, <1>3, <1>12, <1>13, Zenon DEF m, r

LEMMA HandleInv ==
    ASSUME CodecInv, HandleMessage
    PROVE  CodecInv'
<1>1. /\ sent \in Seq(Samples) /\ wire \in Bytes
      /\ handling \in BOOLEAN
      /\ taken \in 0..Len(sent) /\ taken \in Nat /\ Len(sent) \in Nat
      /\ \A i \in DOMAIN handled : handled[i].type \in Handlers
      /\ handled = KeptUpTo(sent, taken)
      /\ handled \in Seq(Samples)
  BY InvFacts
<1>2. /\ taken < Len(sent)
      /\ taken' = taken + 1 /\ sent' = sent /\ wire' = wire /\ handling' = handling
      /\ buf' \in Bytes
      /\ buf' \o wire = FlattenSeq(Waiting(sent, taken + 1))
      /\ handled' = KeepHandled(handled, sent[taken + 1])
  BY HandleFacts
<1>3. /\ taken + 1 \in 1..Len(sent) /\ (taken + 1) - 1 = taken
      /\ sent[taken + 1] \in Samples
  BY <1>1, <1>2
<1>4. handled' = KeptUpTo(sent, taken + 1)
  <2>1. KeptUpTo(sent, taken + 1)
          = KeepHandled(KeptUpTo(sent, (taken + 1) - 1), sent[taken + 1])
    BY <1>1, <1>3, KeptStep, Zenon
  <2> QED
    BY <1>1, <1>2, <1>3, <2>1, Zenon
<1>5. \A i \in DOMAIN handled' : handled'[i].type \in Handlers
  <2> DEFINE m == sent[taken + 1]
  <2>1. CASE m.type \in Handlers
    <3>1. handled' = Append(handled, m) /\ m \in Samples
      BY <1>2, <1>3, <2>1 DEF KeepHandled
    <3> HIDE DEF m
    <3>2. /\ DOMAIN handled' = 1..(Len(handled) + 1) /\ Len(handled) \in Nat
          /\ handled'[Len(handled) + 1] = m
          /\ \A i \in 1..Len(handled) : handled'[i] = handled[i]
          /\ DOMAIN handled = 1..Len(handled)
      BY <1>1, <3>1
    <3>3. ASSUME NEW i \in DOMAIN handled' PROVE handled'[i].type \in Handlers
      <4>1. i = Len(handled) + 1 \/ i \in 1..Len(handled)
        BY <3>2
      <4> QED
        BY <1>1, <2>1, <3>2, <4>1, Zenon
    <3> QED
      BY <3>3
  <2>2. CASE m.type \notin Handlers
    BY <1>1, <1>2, <2>2, Zenon DEF KeepHandled
  <2> QED
    BY <2>1, <2>2
<1>6. /\ sent' \in Seq(Samples) /\ wire' \in Bytes /\ handling' \in BOOLEAN
      /\ buf' \o wire' = FlattenSeq(Waiting(sent', taken'))
      /\ handled' = KeptUpTo(sent', taken')
  BY <1>1, <1>2, <1>4, Zenon
<1>7. taken' \in 0..Len(sent')
  BY <1>1, <1>2, <1>3
<1> QED
  BY <1>2, <1>5, <1>6, <1>7, InvMade, Zenon

LEMMA StepInv == CodecInv /\ [Next]_vars => CodecInv'
<1> SUFFICES ASSUME CodecInv, [Next]_vars PROVE CodecInv'
  OBVIOUS
<1>1. CASE \E m \in Samples : SendMessage(m)
  BY <1>1, SendInv
<1>2. CASE ReceivePiece
  BY <1>2, ArriveInv DEF ReceivePiece
<1>3. CASE HandleMessage
  BY <1>3, HandleInv
<1>4. CASE Break \/ UNCHANGED vars
  BY <1>4, BreakInv
<1> QED
  BY <1>1, <1>2, <1>3, <1>4 DEF Next

\* Each iteration of handleMessage, each piece that TCP appends and each message sent
\* keep the framing, and the handlers have got what they should of what was taken off.
THEOREM CodecInvariance == Spec => []CodecInv
<1> QED
  BY InitInv, StepInv, PTL DEF Spec

\* Whatever is packed, sent and cut is bytes, and no message is taken that was not
\* sent.
THEOREM BytesTyped == Spec => []TypeOK
<1>1. CodecInv => TypeOK
  BY DEF CodecInv
<1> QED
  BY <1>1, CodecInvariance, PTL

\* handleMessage never loses the framing: behind the last message it took off, the
\* buffer and the wire hold the remaining messages, each from its first byte.
THEOREM FramingKept == Spec => []StreamFramed
<1>1. CodecInv => StreamFramed
  BY DEF CodecInv
<1> QED
  BY <1>1, CodecInvariance, PTL

----------------------------------------------------------------------------
(* The channel that the handlers see. *)

\* What was handled is what comes first of what will have been.
LEMMA HandledFirst ==
    ASSUME CodecInv
    PROVE  /\ Expected \in Seq(Samples)
           /\ Begins(handled, Expected)
<1>1. /\ sent \in Seq(Samples) /\ taken \in 0..Len(sent)
      /\ handled = KeptUpTo(sent, taken)
  BY InvFacts
<1>2. Expected = Kept(sent)
  BY Zenon DEF Expected, Kept
<1>3. KeptUpTo(sent, Len(sent)) = Kept(sent) /\ Len(sent) \in 0..Len(sent)
  BY <1>1, KeptStep
<1>4. Kept(sent) \in Seq(Samples)
  BY <1>1, <1>3, KeptType, Zenon
<1> QED
  BY <1>1, <1>2, <1>4, KeptFirst, Zenon

LEMMA InitIsChannel == Init => Abstract!Init
<1> SUFFICES ASSUME Init PROVE Abstract!Init
  OBVIOUS
<1>1. sent = <<>> /\ handled = <<>>
  BY Zenon DEF Init
<1>2. Expected = <<>>
  <2>1. FoldLeft(KeepHandled, <<>>, <<>>) = Keeping!FoldLeft(KeepHandled, <<>>, <<>>)
    BY KeepingFold, Zenon
  <2>2. Keeping!FoldLeft(KeepHandled, <<>>, <<>>) = <<>>
    BY Keeping!FoldEmpty, Zenon
  <2> QED
    BY <1>1, <2>1, <2>2, Zenon DEF Expected
<1>3. Drop(<<>>, 0) = <<>> /\ Len(<<>>) = 0
  BY DEF Drop
<1> QED
  BY <1>1, <1>2, <1>3, Zenon DEF Abstract!Init

\* A message with a handler is put into the channel when it is sent, one without
\* never.
LEMMA SendIsPut ==
    ASSUME CodecInv, NEW m \in Samples, SendMessage(m)
    PROVE  Abstract!Put(m) \/ UNCHANGED Abstract!channelVars
<1>1. sent' = Append(sent, m) /\ handled' = handled
  BY Zenon DEF SendMessage
<1>2. sent \in Seq(Samples) /\ handled \in Seq(Samples)
  BY InvFacts
<1>3. Expected \in Seq(Samples) /\ Begins(handled, Expected)
  BY HandledFirst
<1>4. Expected' = KeepHandled(Expected, m)
  <2>1. FoldLeft(KeepHandled, <<>>, Append(sent, m))
          = KeepHandled(FoldLeft(KeepHandled, <<>>, sent), m)
    BY <1>2, KeepingAppend
  <2>2. Expected' = FoldLeft(KeepHandled, <<>>, sent')
    BY Zenon DEF Expected
  <2> QED
    BY <1>1, <2>1, <2>2, Zenon DEF Expected
<1> DEFINE e == Expected
           k == Len(handled)
<1>5. e \in Seq(Samples) /\ k \in Nat /\ k <= Len(e)
  BY <1>2, <1>3 DEF Begins
<1> HIDE DEF e, k
<1>6. Drop(Append(e, m), k) = Append(Drop(e, k), m)
  <2>1. /\ Append(e, m) \in Seq(Samples) /\ Len(Append(e, m)) = Len(e) + 1
        /\ Append(e, m)[Len(e) + 1] = m
        /\ \A i \in 1..Len(e) : Append(e, m)[i] = e[i]
        /\ Len(e) \in Nat
    BY <1>5
  <2> DEFINE more == Append(e, m)
  <2> HIDE DEF more
  <2>2. /\ Drop(more, k) \in Seq(Samples) /\ Len(Drop(more, k)) = Len(e) + 1 - k
        /\ \A i \in 1..(Len(e) + 1 - k) : Drop(more, k)[i] = more[k + i]
    BY <1>5, <2>1 DEF Drop, more
  <2>3. /\ Drop(e, k) \in Seq(Samples) /\ Len(Drop(e, k)) = Len(e) - k
        /\ \A i \in 1..(Len(e) - k) : Drop(e, k)[i] = e[k + i]
    BY <1>5 DEF Drop
  <2> DEFINE left == Drop(e, k)
             longer == Drop(more, k)
             other == Append(left, m)
  <2> HIDE DEF left, longer
  <2>4. /\ other \in Seq(Samples) /\ Len(other) = Len(e) + 1 - k
        /\ other[Len(e) + 1 - k] = m
        /\ \A i \in 1..(Len(e) - k) : other[i] = left[i]
    BY <1>5, <2>1, <2>3 DEF left
  <2> HIDE DEF other
  <2>5. ASSUME NEW i \in 1..(Len(e) + 1 - k) PROVE longer[i] = other[i]
    <3>1. longer[i] = more[k + i]
      BY <2>2 DEF longer
    <3>2. CASE i = Len(e) + 1 - k
      <4>1. k + i = Len(e) + 1
        BY <1>5, <2>1, <3>2
      <4> QED
        BY <2>1, <2>4, <3>1, <3>2, <4>1, Zenon DEF more
    <3>3. CASE i # Len(e) + 1 - k
      <4>1. i \in 1..(Len(e) - k) /\ k + i \in 1..Len(e)
        BY <1>5, <2>1, <3>3
      <4> QED
        BY <2>1, <2>3, <2>4, <3>1, <4>1, Zenon DEF more, left
    <3> QED
      BY <3>2, <3>3
  <2>6. longer \in Seq(Samples) /\ Len(longer) = Len(e) + 1 - k
    BY <2>2 DEF longer
  <2>7. longer = other
    BY <2>4, <2>5, <2>6
  <2> QED
    BY <2>7, Zenon DEF longer, other, left, more
<1>7. CASE m.type \in Handlers
  <2>1. Expected' = Append(e, m)
    BY <1>4, <1>7, Zenon DEF KeepHandled, e
  <2>2. Drop(Expected', Len(handled')) = Append(Drop(Expected, Len(handled)), m)
    BY <1>1, <1>6, <2>1, Zenon DEF e, k
  <2> QED
    BY <1>1, <2>2, Zenon DEF Abstract!Put
<1>8. CASE m.type \notin Handlers
  <2>1. Expected' = Expected
    BY <1>4, <1>8, Zenon DEF KeepHandled
  <2> QED
    BY <1>1, <2>1, Zenon DEF Abstract!channelVars
<1> QED
  BY <1>7, <1>8

\* A message that is handled is the first in the channel.
LEMMA HandleIsDeliver ==
    ASSUME CodecInv, HandleMessage
    PROVE  Abstract!Deliver \/ UNCHANGED Abstract!channelVars
<1>1. /\ sent' = sent /\ handled' = KeepHandled(handled, sent[taken + 1])
      /\ taken < Len(sent)
  BY HandleFacts
<1>2. /\ sent \in Seq(Samples) /\ handled \in Seq(Samples)
      /\ taken \in Nat /\ Len(sent) \in Nat
  BY InvFacts
<1>3. Expected' = Expected
  BY <1>1, Zenon DEF Expected
<1> DEFINE m == sent[taken + 1]
           e == Expected
           k == Len(handled)
<1>4. CASE m.type \in Handlers
  <2>1. handled' = Append(handled, m) /\ m \in Samples
    BY <1>1, <1>2, <1>4 DEF KeepHandled
  <2> HIDE DEF m
  <2>2. /\ Len(handled') = k + 1 /\ handled'[k + 1] = m /\ k \in Nat
    BY <1>2, <2>1
  <2>3. e \in Seq(Samples) /\ Begins(handled', e)
    <3>1. CodecInv'
      BY HandleInv
    <3>2. (Expected \in Seq(Samples) /\ Begins(handled, Expected))'
      BY <3>1, HandledFirst, PTL
    <3> QED
      BY <1>3, <3>2, Zenon
  <2>4. k + 1 <= Len(e) /\ e[k + 1] = m /\ Len(e) \in Nat
    BY <2>2, <2>3 DEF Begins
  <2> HIDE DEF e, k
  <2>5. /\ Drop(e, k) # <<>>
        /\ Head(Drop(e, k)) = m
        /\ Tail(Drop(e, k)) = Drop(e, k + 1)
    <3> DEFINE left == Drop(e, k)
    <3>1. /\ left \in Seq(Samples) /\ Len(left) = Len(e) - k
          /\ \A i \in 1..(Len(e) - k) : left[i] = e[k + i]
      BY <2>2, <2>3, <2>4 DEF Drop
    <3>2. /\ Drop(e, k + 1) \in Seq(Samples) /\ Len(Drop(e, k + 1)) = Len(e) - (k + 1)
          /\ \A i \in 1..(Len(e) - (k + 1)) : Drop(e, k + 1)[i] = e[(k + 1) + i]
      BY <2>2, <2>3, <2>4 DEF Drop
    <3> HIDE DEF left
    <3>3. Len(left) >= 1 /\ 1 \in 1..(Len(e) - k) /\ left # <<>>
      BY <2>2, <2>4, <3>1
    <3>4. Head(left) = m
      BY <2>4, <3>1, <3>3
    <3> DEFINE other == Drop(e, k + 1)
               rest == Tail(left)
    <3>5. /\ rest \in Seq(Samples) /\ Len(rest) = Len(left) - 1
          /\ \A i \in 1..(Len(left) - 1) : rest[i] = left[i + 1]
      BY <3>1, <3>3
    <3> HIDE DEF other, rest
    <3>6. ASSUME NEW i \in 1..(Len(e) - (k + 1)) PROVE rest[i] = other[i]
      <4>1. /\ i \in 1..(Len(left) - 1) /\ i + 1 \in 1..(Len(e) - k)
            /\ k + (i + 1) = (k + 1) + i
        BY <2>2, <2>4, <3>1
      <4>2. rest[i] = e[k + (i + 1)]
        BY <3>1, <3>5, <4>1, Zenon
      <4>3. other[i] = e[(k + 1) + i]
        BY <3>2 DEF other
      <4> QED
        BY <4>1, <4>2, <4>3
    <3>7. other \in Seq(Samples) /\ Len(other) = Len(e) - (k + 1)
      BY <3>2 DEF other
    <3>8. Len(rest) = Len(e) - (k + 1)
      BY <2>2, <2>4, <3>1, <3>5
    <3>9. rest = other
      BY <3>5, <3>6, <3>7, <3>8
    <3> QED
      BY <3>3, <3>4, <3>9, Zenon DEF left, rest, other
  <2>6. Abstract!Deliver
    BY <1>3, <2>1, <2>2, <2>5, Zenon DEF Abstract!Deliver, e, k
  <2> QED
    BY <2>6
<1>5. CASE m.type \notin Handlers
  <2>1. handled' = handled
    BY <1>1, <1>5, Zenon DEF KeepHandled
  <2> QED
    BY <1>3, <2>1, Zenon DEF Abstract!channelVars
<1> QED
  BY <1>4, <1>5

LEMMA OtherIsStutter ==
    ASSUME ReceivePiece \/ Break \/ UNCHANGED vars
    PROVE  UNCHANGED Abstract!channelVars
<1>1. sent' = sent /\ handled' = handled
  BY Zenon DEF ReceivePiece, Arrive, Break, vars
<1>2. Expected' = Expected
  BY <1>1, Zenon DEF Expected
<1> QED
  BY <1>1, <1>2, Zenon DEF Abstract!channelVars

\* Every step of the connection puts, delivers, or is none of the channel: the
\* handlers see the messages that were sent, in order, each once and whole.
THEOREM ChannelImplemented == Spec => ImplementsChannel
<1>1. Init => Abstract!Init
  BY InitIsChannel
<1>2. CodecInv /\ [Next]_vars => [Abstract!Next]_(Abstract!channelVars)
  <2> SUFFICES ASSUME CodecInv, [Next]_vars
               PROVE  Abstract!Next \/ UNCHANGED Abstract!channelVars
    OBVIOUS
  <2>1. CASE \E m \in Samples : SendMessage(m)
    BY <2>1, SendIsPut, Zenon DEF Abstract!Next
  <2>2. CASE HandleMessage
    BY <2>2, HandleIsDeliver, Zenon DEF Abstract!Next
  <2>3. CASE ReceivePiece \/ Break \/ UNCHANGED vars
    BY <2>3, OtherIsStutter, Zenon
  <2> QED
    BY <2>1, <2>2, <2>3 DEF Next
<1> QED
  BY <1>1, <1>2, CodecInvariance, PTL DEF Spec, ImplementsChannel, Abstract!Spec
=============================================================================
