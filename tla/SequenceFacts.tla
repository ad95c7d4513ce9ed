---------------------------- MODULE SequenceFacts ----------------------------
(***************************************************************************)
(* What the proofs need of sequences, in the form in which the provers use *)
(* it: lengths and places.                                                 *)
(***************************************************************************)
EXTENDS Integers, Sequences, TLAPS

\* Append keeps the elements and their places and adds one after them.
LEMMA AppendFacts ==
    ASSUME NEW S, NEW q \in Seq(S), NEW e \in S
    PROVE  /\ Append(q, e) \in Seq(S)
           /\ DOMAIN q = 1 .. Len(q) /\ Len(q) \in Nat
           /\ DOMAIN Append(q, e) = 1 .. Len(q) + 1
           /\ \A i \in 1 .. Len(q) : Append(q, e)[i] = q[i] /\ q[i] \in S
           /\ Append(q, e)[Len(q) + 1] = e
  OBVIOUS

\* Tail moves every element one place down.
LEMMA TailFacts ==
    ASSUME NEW S, NEW q \in Seq(S), q # <<>>
    PROVE  /\ Tail(q) \in Seq(S)
           /\ Head(q) = q[1] /\ q[1] \in S /\ 1 \in DOMAIN q
           /\ DOMAIN q = 1 .. Len(q) /\ Len(q) \in Nat \ {0}
           /\ DOMAIN Tail(q) = 1 .. Len(q) - 1
           /\ \A i \in 1 .. Len(q) - 1 : Tail(q)[i] = q[i + 1] /\ q[i + 1] \in S
  OBVIOUS

\* The elements of a sequence over S are members of S.
LEMMA ElementsOf ==
    ASSUME NEW S, NEW q \in Seq(S)
    PROVE  \A i \in DOMAIN q : q[i] \in S
  OBVIOUS

\* A concatenation has the elements of the first sequence at their places and
\* those of the second after them.
LEMMA ConcatFacts ==
    ASSUME NEW S, NEW p \in Seq(S), NEW q \in Seq(S)
    PROVE  /\ p \o q \in Seq(S)
           /\ DOMAIN p = 1 .. Len(p) /\ Len(p) \in Nat
           /\ DOMAIN q = 1 .. Len(q) /\ Len(q) \in Nat
           /\ DOMAIN (p \o q) = 1 .. Len(p) + Len(q)
           /\ \A i \in 1 .. Len(p) : (p \o q)[i] = p[i]
           /\ \A i \in 1 .. Len(q) : (p \o q)[Len(p) + i] = q[i]
  OBVIOUS

\* Sequences of one length with the same elements are equal.
LEMMA SameElements ==
    ASSUME NEW S, NEW T, NEW p \in Seq(S), NEW q \in Seq(T), Len(p) = Len(q),
           \A i \in 1 .. Len(p) : p[i] = q[i]
    PROVE  p = q
  OBVIOUS

\* A part of a sequence has its elements, from the first place on.
LEMMA SubSeqFacts ==
    ASSUME NEW S, NEW q \in Seq(S), NEW i \in Nat \ {0}, NEW k \in Nat, i <= k + 1, k <= Len(q)
    PROVE  /\ SubSeq(q, i, k) \in Seq(S)
           /\ Len(SubSeq(q, i, k)) = k - i + 1
           /\ \A j \in 1 .. k - i + 1 : SubSeq(q, i, k)[j] = q[i + j - 1]
  OBVIOUS

\* The same, counted from the place before it.
LEMMA BehindFacts ==
    ASSUME NEW S, NEW q \in Seq(S), NEW n \in Nat, NEW k \in Nat, n <= k, k <= Len(q)
    PROVE  /\ SubSeq(q, n + 1, k) \in Seq(S)
           /\ Len(SubSeq(q, n + 1, k)) = k - n
           /\ \A j \in 1 .. k - n : SubSeq(q, n + 1, k)[j] = q[n + j]
  OBVIOUS

\* What a part of a sequence is from where there is nothing left of it.
LEMMA RestFacts ==
    ASSUME NEW S, NEW q \in Seq(S), NEW k \in Nat
    PROVE  /\ SubSeq(q, k + 1, Len(q)) \in Seq(S)
           /\ Len(SubSeq(q, k + 1, Len(q))) = IF k <= Len(q) THEN Len(q) - k ELSE 0
<1>1. CASE k <= Len(q)
  BY <1>1
<1>2. CASE k > Len(q)
  <2>1. SubSeq(q, k + 1, Len(q)) = <<>>
    BY <1>2
  <2> QED BY <1>2, <2>1
<1> QED BY <1>1, <1>2

\* A concatenation is taken apart where it was put together.
LEMMA DropFacts ==
    ASSUME NEW S, NEW p \in Seq(S), NEW q \in Seq(S)
    PROVE  /\ SubSeq(p \o q, 1, Len(p)) = p
           /\ SubSeq(p \o q, Len(p) + 1, Len(p \o q)) = q
<1> DEFINE r == p \o q
<1>1. /\ r \in Seq(S) /\ Len(r) = Len(p) + Len(q) /\ Len(p) \in Nat /\ Len(q) \in Nat
      /\ \A i \in 1 .. Len(p) : r[i] = p[i]
      /\ \A i \in 1 .. Len(q) : r[Len(p) + i] = q[i]
  BY ConcatFacts
<1> HIDE DEF r
<1>2. SubSeq(r, 1, Len(p)) = p
  <2>1. SubSeq(r, 1, Len(p)) \in Seq(S) /\ Len(SubSeq(r, 1, Len(p))) = Len(p)
        /\ \A j \in 1 .. Len(p) : SubSeq(r, 1, Len(p))[j] = r[j]
    BY <1>1
  <2>2. \A j \in 1 .. Len(p) : SubSeq(r, 1, Len(p))[j] = p[j]
    BY <1>1, <2>1
  <2> QED BY <2>1, <2>2, SameElements
<1>3. SubSeq(r, Len(p) + 1, Len(r)) = q
  <2>1. SubSeq(r, Len(p) + 1, Len(r)) \in Seq(S) /\ Len(SubSeq(r, Len(p) + 1, Len(r))) = Len(q)
        /\ \A j \in 1 .. Len(q) : SubSeq(r, Len(p) + 1, Len(r))[j] = r[Len(p) + j]
    BY <1>1
  <2>2. \A j \in 1 .. Len(q) : SubSeq(r, Len(p) + 1, Len(r))[j] = q[j]
    BY <1>1, <2>1
  <2> QED BY <2>1, <2>2, SameElements
<1> QED BY <1>2, <1>3 DEF r

\* So is the middle of three.
LEMMA MiddleFacts ==
    ASSUME NEW S, NEW p \in Seq(S), NEW q \in Seq(S), NEW r \in Seq(S)
    PROVE  SubSeq((p \o q) \o r, Len(p) + 1, Len(p) + Len(q)) = q
<1> DEFINE w == p \o q
           z == w \o r
<1>1. /\ w \in Seq(S) /\ Len(w) = Len(p) + Len(q) /\ Len(p) \in Nat /\ Len(q) \in Nat
      /\ \A i \in 1 .. Len(q) : w[Len(p) + i] = q[i]
  BY ConcatFacts
<1> HIDE DEF w
<1>2. /\ z \in Seq(S) /\ Len(z) = Len(w) + Len(r) /\ Len(r) \in Nat
      /\ \A i \in 1 .. Len(w) : z[i] = w[i]
  <2>1. w \in Seq(S)
    BY <1>1
  <2> QED BY <2>1, ConcatFacts
<1> HIDE DEF z
<1>3. \A i \in 1 .. Len(q) : z[Len(p) + i] = q[i]
  BY <1>1, <1>2
<1>4. /\ SubSeq(z, Len(p) + 1, Len(p) + Len(q)) \in Seq(S)
      /\ Len(SubSeq(z, Len(p) + 1, Len(p) + Len(q))) = Len(q)
      /\ \A j \in 1 .. Len(q) : SubSeq(z, Len(p) + 1, Len(p) + Len(q))[j] = z[Len(p) + j]
  BY <1>1, <1>2
<1>5. \A j \in 1 .. Len(q) : SubSeq(z, Len(p) + 1, Len(p) + Len(q))[j] = q[j]
  BY <1>3, <1>4
<1>6. SubSeq(z, Len(p) + 1, Len(p) + Len(q)) = q
  BY <1>4, <1>5, SameElements
<1> QED BY <1>6 DEF z, w

\* So is one that begins with one element.
LEMMA HeadTail ==
    ASSUME NEW S, NEW e \in S, NEW q \in Seq(S)
    PROVE  LET r == <<e>> \o q IN r \in Seq(S) /\ r # <<>> /\ Head(r) = e /\ Tail(r) = q
<1> DEFINE r == <<e>> \o q
<1>1. <<e>> \in Seq(S) /\ Len(<<e>>) = 1 /\ <<e>>[1] = e
  OBVIOUS
<1>2. /\ r \in Seq(S) /\ Len(r) = 1 + Len(q) /\ Len(q) \in Nat
      /\ \A i \in 1 .. Len(q) : r[1 + i] = q[i]
      /\ r[1] = e
  BY <1>1, ConcatFacts
<1> HIDE DEF r
<1>3. r # <<>> /\ Head(r) = e
  BY <1>2
<1>4. Tail(r) \in Seq(S) /\ Len(Tail(r)) = Len(q) /\ \A i \in 1 .. Len(q) : Tail(r)[i] = q[i]
  BY <1>2, <1>3, TailFacts
<1>5. Tail(r) = q
  BY <1>4, SameElements
<1> QED BY <1>2, <1>3, <1>5 DEF r

\* It does not matter in which order three are put together.
LEMMA Assoc ==
    ASSUME NEW S, NEW p \in Seq(S), NEW q \in Seq(S), NEW r \in Seq(S)
    PROVE  (p \o q) \o r = p \o (q \o r)
  OBVIOUS
=============================================================================
