------------------------ MODULE ResponseStream_proofs ------------------------
(* Proofs about ResponseStream, for any streams, chunks, markers and capacity. *)
EXTENDS ResponseStream, TLAPS, SequenceTheorems, NaturalsInduction, WellFoundedInduction

-----------------------------------------------------------------------------
(***************************************************************************)
(* Tails.  What the detector carries and what the capture keeps are tails  *)
(* of the stream: the bytes after the first k of them.                     *)
(***************************************************************************)
IsTail(tail, bytes, k) ==
    /\ tail \in Seq(Bytes) /\ bytes \in Seq(Bytes) /\ k \in Nat
    /\ Len(bytes) = k + Len(tail)
    /\ \A i \in 1..Len(tail) : tail[i] = bytes[k + i]

\* There is one tail after the first k bytes.
LEMMA TailUnique ==
    ASSUME NEW bytes, NEW k, NEW s, NEW t, IsTail(s, bytes, k), IsTail(t, bytes, k)
    PROVE  s = t
<1>1. s \in Seq(Bytes) /\ t \in Seq(Bytes) /\ Len(s) = Len(t)
  BY LenProperties DEF IsTail
<1>2. \A i \in 1..Len(s) : s[i] = t[i]
  BY <1>1 DEF IsTail
<1>3. QED BY <1>1, <1>2, SeqEqual

\* The tail of a tail.
LEMMA TailOfTail ==
    ASSUME NEW bytes, NEW s, NEW t, NEW j, NEW k, IsTail(s, bytes, j), IsTail(t, s, k)
    PROVE  IsTail(t, bytes, j + k)
<1>1. /\ j \in Nat /\ k \in Nat /\ Len(t) \in Nat /\ Len(s) = k + Len(t)
      /\ Len(bytes) = j + Len(s)
  BY LenProperties DEF IsTail
<1>2. ASSUME NEW i \in 1..Len(t) PROVE t[i] = bytes[(j + k) + i]
  <2>1. k + i \in 1..Len(s) /\ j + (k + i) = (j + k) + i
    BY <1>1
  <2>2. QED BY <2>1 DEF IsTail
<1>3. QED BY <1>1, <1>2 DEF IsTail

\* More bytes make the tail longer.
LEMMA TailGrows ==
    ASSUME NEW bytes, NEW t, NEW k, IsTail(t, bytes, k), NEW more \in Seq(Bytes)
    PROVE  IsTail(t \o more, bytes \o more, k)
<1>0. t \in Seq(Bytes) /\ bytes \in Seq(Bytes)
  BY DEF IsTail
<1>1. k \in Nat /\ Len(bytes) = k + Len(t) /\ Len(t) \in Nat /\ Len(more) \in Nat
  BY LenProperties DEF IsTail
<1>2. /\ t \o more \in Seq(Bytes) /\ Len(t \o more) = Len(t) + Len(more)
      /\ \A i \in 1..(Len(t) + Len(more)) :
            (t \o more)[i] = IF i <= Len(t) THEN t[i] ELSE more[i - Len(t)]
  BY <1>0, ConcatProperties
<1>3. /\ bytes \o more \in Seq(Bytes) /\ Len(bytes \o more) = Len(bytes) + Len(more)
      /\ \A i \in 1..(Len(bytes) + Len(more)) :
            (bytes \o more)[i] = IF i <= Len(bytes) THEN bytes[i] ELSE more[i - Len(bytes)]
  BY <1>0, ConcatProperties
<1>4. ASSUME NEW i \in 1..Len(t \o more) PROVE (t \o more)[i] = (bytes \o more)[k + i]
  <2>1. i \in 1..(Len(t) + Len(more)) /\ k + i \in 1..(Len(bytes) + Len(more))
    BY <1>1, <1>2
  <2>2. CASE i <= Len(t)
    <3>1. i \in 1..Len(t) /\ k + i <= Len(bytes)
      BY <1>1, <2>1, <2>2
    <3>2. QED BY <1>2, <1>3, <2>1, <3>1 DEF IsTail
  <2>3. CASE ~(i <= Len(t))
    <3>1. ~(k + i <= Len(bytes)) /\ (k + i) - Len(bytes) = i - Len(t)
      BY <1>1, <2>1, <2>3
    <3>2. QED BY <1>2, <1>3, <2>1, <2>3, <3>1
  <2>4. QED BY <2>2, <2>3
<1>5. QED BY <1>1, <1>2, <1>3, <1>4 DEF IsTail

\* A sequence from some position on is a tail.
LEMMA FromIsTail ==
    ASSUME NEW bytes \in Seq(Bytes), NEW p \in 1..(Len(bytes) + 1)
    PROVE  IsTail(SubSeq(bytes, p, Len(bytes)), bytes, p - 1)
<1>1. Len(bytes) \in Nat /\ p \in Nat /\ p >= 1 /\ p <= Len(bytes) + 1
  BY LenProperties
<1>2. \A i \in p..Len(bytes) : bytes[i] \in Bytes
  BY <1>1, ElementOfSeq
<1>3. /\ SubSeq(bytes, p, Len(bytes)) \in Seq(Bytes)
      /\ Len(SubSeq(bytes, p, Len(bytes))) = IF p <= Len(bytes) THEN Len(bytes) - p + 1 ELSE 0
      /\ \A i \in 1..(Len(bytes) - p + 1) : SubSeq(bytes, p, Len(bytes))[i] = bytes[p + i - 1]
  BY <1>1, <1>2, SubSeqProperties
<1>4. PICK part \in Seq(Bytes) : SubSeq(bytes, p, Len(bytes)) = part
  BY <1>3
<1>5. Len(part) = Len(bytes) - p + 1 /\ \A i \in 1..(Len(bytes) - p + 1) : part[i] = bytes[p + i - 1]
  BY <1>1, <1>3, <1>4
<1>6. \A i \in 1..(Len(bytes) - p + 1) : p + i - 1 = (p - 1) + i
  BY <1>1
<1>7. IsTail(part, bytes, p - 1)
  BY <1>1, <1>5, <1>6 DEF IsTail
<1>8. QED BY <1>4, <1>7, Zenon

\* The number of bytes that LastBytes leaves away.
Skipped(bytes, limit) == IF limit < Len(bytes) THEN Len(bytes) - limit ELSE 0

\* Either nothing is left away or the rest has as many bytes as it may.
LEMMA SkippedRest ==
    ASSUME NEW bytes, Len(bytes) \in Nat, NEW limit \in Nat,
           NEW n \in Nat, Len(bytes) = Skipped(bytes, limit) + n
    PROVE  Skipped(bytes, limit) = 0 \/ n = limit
BY DEF Skipped

\* The last bytes are a tail.
LEMMA LastBytesIsTail ==
    ASSUME NEW bytes \in Seq(Bytes), NEW limit \in Nat
    PROVE  IsTail(LastBytes(bytes, limit), bytes, Skipped(bytes, limit))
<1> DEFINE p == Skipped(bytes, limit) + 1
<1>1. Len(bytes) \in Nat
  BY LenProperties
<1>2. p \in 1..(Len(bytes) + 1) /\ p - 1 = Skipped(bytes, limit)
  BY <1>1 DEF Skipped
<1>3. Len(bytes) - (IF limit < Len(bytes) THEN limit ELSE Len(bytes)) + 1 = p
  BY <1>1 DEF Skipped
<1>4. LastBytes(bytes, limit) = SubSeq(bytes, p, Len(bytes))
  BY <1>3 DEF LastBytes
<1> HIDE DEF p
<1>5. QED BY <1>2, <1>4, FromIsTail

\* The last bytes of a tail that is long enough are the last bytes of the whole.
LEMMA LastBytesOfTail ==
    ASSUME NEW bytes, NEW t, NEW k, IsTail(t, bytes, k), NEW limit \in Nat,
           k = 0 \/ Len(t) >= limit
    PROVE  LastBytes(t, limit) = LastBytes(bytes, limit)
<1>1. /\ t \in Seq(Bytes) /\ bytes \in Seq(Bytes) /\ k \in Nat /\ Len(bytes) = k + Len(t)
      /\ Len(t) \in Nat
  BY LenProperties DEF IsTail
<1>2. k + Skipped(t, limit) = Skipped(bytes, limit)
  BY <1>1 DEF Skipped
<1>3. IsTail(LastBytes(t, limit), bytes, Skipped(bytes, limit))
  BY <1>1, <1>2, LastBytesIsTail, TailOfTail
<1>4. QED BY <1>1, <1>3, LastBytesIsTail, TailUnique

-----------------------------------------------------------------------------
(***************************************************************************)
(* Words.  A word that ends after what a detector has seen begins in what  *)
(* it carries, if the carry is at most one byte shorter than the word.     *)
(***************************************************************************)
\* A word is at a position when its bytes are.
LEMMA AtEach ==
    ASSUME NEW bytes \in Seq(Bytes), NEW word \in Seq(Bytes), NEW p \in Nat \ {0}
    PROVE  At(bytes, p, word) <=>
              /\ p + Len(word) - 1 <= Len(bytes)
              /\ \A i \in 1..Len(word) : bytes[p + i - 1] = word[i]
<1> DEFINE q == p + Len(word) - 1
           part == SubSeq(bytes, p, q)
<1>1. Len(bytes) \in Nat /\ Len(word) \in Nat
  BY LenProperties
<1>2. ASSUME q <= Len(bytes)
      PROVE  /\ part \in Seq(Bytes) /\ Len(part) = Len(word)
             /\ \A i \in 1..Len(word) : part[i] = bytes[p + i - 1]
  <2>1. \A i \in p..q : bytes[i] \in Bytes
    <3>1. \A i \in p..q : i \in 1..Len(bytes)
      BY <1>1, <1>2
    <3>2. QED BY <3>1, ElementOfSeq
  <2>2. q \in Int
    BY <1>1
  <2>3. /\ part \in Seq(Bytes) /\ Len(part) = IF p <= q THEN q - p + 1 ELSE 0
        /\ \A i \in 1..(q - p + 1) : part[i] = bytes[p + i - 1]
    BY <2>1, <2>2, SubSeqProperties
  <2>4. q - p + 1 = Len(word) /\ (p <= q <=> Len(word) # 0)
    BY <1>1
  <2> HIDE DEF part, q
  <2>5. QED BY <2>3, <2>4
<1>3. At(bytes, p, word) <=> q <= Len(bytes) /\ part = word
  BY DEF At
<1> HIDE DEF part, q
<1>4. ASSUME q <= Len(bytes), \A i \in 1..Len(word) : bytes[p + i - 1] = word[i]
      PROVE  part = word
  <2>1. \A i \in 1..Len(part) : part[i] = word[i]
    BY <1>2, <1>4
  <2>2. QED BY <1>2, <1>4, <2>1, SeqEqual
<1>5. ASSUME q <= Len(bytes), part = word
      PROVE  \A i \in 1..Len(word) : bytes[p + i - 1] = word[i]
  BY <1>2, <1>5
<1>6. QED BY <1>3, <1>4, <1>5 DEF q

\* Where a word is in a tail.
LEMMA AtInTail ==
    ASSUME NEW bytes, NEW t, NEW k, IsTail(t, bytes, k),
           NEW word \in Seq(Bytes), NEW p \in Nat \ {0}
    PROVE  At(t, p, word) <=> At(bytes, k + p, word)
<1>1. /\ t \in Seq(Bytes) /\ bytes \in Seq(Bytes) /\ k \in Nat /\ Len(bytes) = k + Len(t)
      /\ Len(t) \in Nat /\ Len(word) \in Nat
  BY LenProperties DEF IsTail
<1>2. p + Len(word) - 1 <= Len(t) <=> (k + p) + Len(word) - 1 <= Len(bytes)
  BY <1>1
<1>3. ASSUME p + Len(word) - 1 <= Len(t), NEW i \in 1..Len(word)
      PROVE  t[p + i - 1] = bytes[(k + p) + i - 1]
  <2>1. p + i - 1 \in 1..Len(t) /\ k + (p + i - 1) = (k + p) + i - 1
    BY <1>1, <1>3
  <2>2. QED BY <2>1 DEF IsTail
<1>4. At(t, p, word) <=> /\ p + Len(word) - 1 <= Len(t)
                         /\ \A i \in 1..Len(word) : t[p + i - 1] = word[i]
  BY <1>1, AtEach
<1>5. k + p \in Nat \ {0}
  BY <1>1
<1>6. At(bytes, k + p, word) <=> /\ (k + p) + Len(word) - 1 <= Len(bytes)
                                 /\ \A i \in 1..Len(word) : bytes[(k + p) + i - 1] = word[i]
  BY <1>1, <1>5, AtEach
<1>7. QED BY <1>2, <1>3, <1>4, <1>6

\* What follows leaves alone the words that are complete.
LEMMA AtInPrefix ==
    ASSUME NEW bytes \in Seq(Bytes), NEW more \in Seq(Bytes),
           NEW word \in Seq(Bytes), NEW p \in Nat \ {0},
           p + Len(word) - 1 <= Len(bytes)
    PROVE  At(bytes, p, word) <=> At(bytes \o more, p, word)
<1>1. Len(bytes) \in Nat /\ Len(more) \in Nat /\ Len(word) \in Nat
  BY LenProperties
<1>2. /\ bytes \o more \in Seq(Bytes) /\ Len(bytes \o more) = Len(bytes) + Len(more)
      /\ \A i \in 1..(Len(bytes) + Len(more)) :
            (bytes \o more)[i] = IF i <= Len(bytes) THEN bytes[i] ELSE more[i - Len(bytes)]
  BY ConcatProperties
<1>3. ASSUME NEW i \in 1..Len(word) PROVE (bytes \o more)[p + i - 1] = bytes[p + i - 1]
  <2>1. p + i - 1 \in 1..(Len(bytes) + Len(more)) /\ p + i - 1 <= Len(bytes)
    BY <1>1
  <2>2. QED BY <1>2, <2>1
<1>4. PICK all \in Seq(Bytes) : bytes \o more = all
  BY <1>2
<1>5. p + Len(word) - 1 <= Len(all)
  BY <1>1, <1>2, <1>4
<1>6. At(bytes, p, word) <=> \A i \in 1..Len(word) : bytes[p + i - 1] = word[i]
  BY AtEach
<1>7. At(all, p, word) <=> \A i \in 1..Len(word) : all[p + i - 1] = word[i]
  BY <1>5, AtEach
<1>8. QED BY <1>3, <1>4, <1>6, <1>7, Zenon

\* A word that was not there and is there now begins in the carry or after it.
LEMMA NewWordInCarry ==
    ASSUME NEW bytes \in Seq(Bytes), NEW more \in Seq(Bytes), NEW limit \in Nat,
           NEW word \in Seq(Bytes), Len(word) <= limit + 1,
           NEW p \in Nat \ {0}, ~At(bytes, p, word), At(bytes \o more, p, word)
    PROVE  p > Skipped(bytes, limit)
<1>1. Len(bytes) \in Nat /\ Len(word) \in Nat
  BY LenProperties
<1>2. ~(p + Len(word) - 1 <= Len(bytes))
  BY AtInPrefix
<1>3. QED BY <1>1, <1>2 DEF Skipped

\* Looking for a word in the carry and what follows is looking for it in everything.
LEMMA OccursInCarry ==
    ASSUME NEW bytes \in Seq(Bytes), NEW more \in Seq(Bytes), NEW limit \in Nat,
           NEW word \in Seq(Bytes), Len(word) \in 1..(limit + 1), ~Occurs(bytes, word)
    PROVE  Occurs(LastBytes(bytes, limit) \o more, word) <=> Occurs(bytes \o more, word)
<1> DEFINE t == LastBytes(bytes, limit) \o more
           k == Skipped(bytes, limit)
<1>1. IsTail(t, bytes \o more, k)
  BY LastBytesIsTail, TailGrows
<1> HIDE DEF t, k
<1>2. /\ t \in Seq(Bytes) /\ bytes \o more \in Seq(Bytes) /\ k \in Nat
      /\ Len(bytes \o more) = k + Len(t) /\ Len(t) \in Nat /\ Len(bytes \o more) \in Nat
      /\ Len(bytes) \in Nat /\ Len(word) \in Nat
  BY <1>1, LenProperties DEF IsTail
<1>3. ASSUME Occurs(t, word) PROVE Occurs(bytes \o more, word)
  <2>1. PICK p \in 1..Len(t) : At(t, p, word)
    BY <1>3 DEF Occurs
  <2>2. k + p \in 1..Len(bytes \o more) /\ p \in Nat \ {0}
    BY <1>2
  <2>3. At(bytes \o more, k + p, word)
    BY <1>1, <2>1, <2>2, AtInTail
  <2>4. QED BY <2>2, <2>3 DEF Occurs
<1>4. ASSUME Occurs(bytes \o more, word) PROVE Occurs(t, word)
  <2>1. PICK p \in 1..Len(bytes \o more) : At(bytes \o more, p, word)
    BY <1>4 DEF Occurs
  <2>2. p \in Nat \ {0}
    BY <1>2
  <2>3. ~At(bytes, p, word)
    <3>1. CASE p \in 1..Len(bytes)
      BY <3>1 DEF Occurs
    <3>2. CASE p \notin 1..Len(bytes)
      BY <1>2, <2>2, <3>2 DEF At
    <3>3. QED BY <3>1, <3>2
  <2>4. p > k
    BY <2>1, <2>2, <2>3, NewWordInCarry DEF k
  <2>5. p - k \in 1..Len(t) /\ p - k \in Nat \ {0} /\ k + (p - k) = p
    BY <1>2, <2>1, <2>4
  <2>6. At(t, p - k, word)
    BY <1>1, <2>1, <2>5, AtInTail
  <2>7. QED BY <2>5, <2>6 DEF Occurs
<1>5. QED BY <1>3, <1>4 DEF t

-----------------------------------------------------------------------------
(***************************************************************************)
(* Markers.  No marker is part of another, so two markers do not begin at  *)
(* the same place and the first complete marker stays the first.           *)
(***************************************************************************)
IsFirst(bytes, p, word) ==
    /\ p \in 1..Len(bytes) /\ word \in DOMAIN Markers /\ At(bytes, p, word)
    /\ \A q \in 1..Len(bytes), other \in DOMAIN Markers : At(bytes, q, other) => p <= q

\* A marker is a word of at least one byte that a carry has room for.
LEMMA MarkerWords ==
    ASSUME NEW word \in DOMAIN Markers
    PROVE  /\ word \in Seq(Bytes) /\ Len(word) \in Nat \ {0} /\ Len(word) <= MarkerCarry + 1
           /\ MarkerCarry \in Nat /\ Markers[word] # None
BY StreamAssumption

\* A marker that lies within another is that other.
LEMMA Nested ==
    ASSUME NEW bytes \in Seq(Bytes), NEW outer \in DOMAIN Markers, NEW inner \in DOMAIN Markers,
           NEW p \in Nat \ {0}, NEW q \in Nat \ {0}, At(bytes, p, outer), At(bytes, q, inner),
           p <= q, q + Len(inner) <= p + Len(outer)
    PROVE  p = q /\ outer = inner
<1>1. /\ outer \in Seq(Bytes) /\ inner \in Seq(Bytes)
      /\ Len(outer) \in Nat \ {0} /\ Len(inner) \in Nat \ {0}
  BY MarkerWords
<1> DEFINE r == q - p + 1
<1>2. r \in Nat \ {0} /\ r \in 1..Len(outer) /\ r + Len(inner) - 1 <= Len(outer)
  BY <1>1
<1>3. ASSUME NEW i \in 1..Len(inner) PROVE outer[r + i - 1] = inner[i]
  <2>1. r + i - 1 \in 1..Len(outer) /\ p + (r + i - 1) - 1 = q + i - 1
    BY <1>1, <1>2
  <2>2. \A j \in 1..Len(outer) : bytes[p + j - 1] = outer[j]
    BY <1>1, AtEach
  <2>3. \A j \in 1..Len(inner) : bytes[q + j - 1] = inner[j]
    BY <1>1, AtEach
  <2>4. bytes[p + (r + i - 1) - 1] = outer[r + i - 1]
    BY <2>1, <2>2
  <2>5. QED BY <2>1, <2>3, <2>4
<1> HIDE DEF r
<1>4. At(outer, r, inner)
  BY <1>1, <1>2, <1>3, AtEach
<1>5. outer = inner
  BY <1>2, <1>4, MarkersAssumption DEF Occurs
<1>6. QED BY <1>1, <1>5

\* A set of natural numbers that is not empty has a smallest member.
LEMMA Smallest ==
    ASSUME NEW T \in SUBSET Nat, T # {}
    PROVE  \E x \in T : \A y \in T : ~(y < x)
<1> DEFINE R == OpToRel(<, Nat)
<1>1. IsWellFoundedOn(R, Nat)
  BY NatLessThanWellFounded
<1>2. \A x, y \in Nat : y < x => <<y, x>> \in R
  BY DEF OpToRel
<1> HIDE DEF R
<1>3. \E x \in T : \A y \in T : <<y, x>> \notin R
  BY <1>1, WFMin
<1>4. QED BY <1>2, <1>3

\* Bytes that have a marker have a first one.
LEMMA FirstExists ==
    ASSUME NEW bytes \in Seq(Bytes), MarkersIn(bytes) # {}
    PROVE  \E p \in 1..Len(bytes), word \in DOMAIN Markers : IsFirst(bytes, p, word)
<1> DEFINE T == {p \in 1..Len(bytes) : \E word \in DOMAIN Markers : At(bytes, p, word)}
<1>1. Len(bytes) \in Nat
  BY LenProperties
<1>2. T \in SUBSET Nat
  BY <1>1
<1>3. T # {}
  <2>1. PICK m \in MarkersIn(bytes) : TRUE
    OBVIOUS
  <2>2. m[1] \in 1..Len(bytes) /\ m[2] \in DOMAIN Markers /\ At(bytes, m[1], m[2])
    BY DEF MarkersIn
  <2>3. m[1] \in T
    BY <2>2
  <2>4. QED BY <2>3
<1>4. PICK p \in T : \A q \in T : ~(q < p)
  <2> HIDE DEF T
  <2>1. QED BY <1>2, <1>3, Smallest
<1>5. PICK word \in DOMAIN Markers : At(bytes, p, word)
  BY <1>4
<1>6. IsFirst(bytes, p, word)
  BY <1>1, <1>4, <1>5 DEF IsFirst
<1>7. QED BY <1>6 DEF IsFirst

\* The first marker is the one that find_sse_terminal reports.
LEMMA FirstIsFound ==
    ASSUME NEW bytes \in Seq(Bytes), NEW p, NEW word, IsFirst(bytes, p, word)
    PROVE  MarkersIn(bytes) # {} /\ First(MarkersIn(bytes)) = <<p, word>>
<1> DEFINE found == MarkersIn(bytes)
<1>1. \A m : m \in found <=> /\ m \in (1..Len(bytes)) \X DOMAIN Markers
                             /\ At(bytes, m[1], m[2])
  BY DEF MarkersIn
<1>2. Len(bytes) \in Nat
  BY LenProperties
<1> HIDE DEF found
<1>3. <<p, word>> \in found
  BY <1>1 DEF IsFirst
<1>4. \A m \in found : m[1] \in 1..Len(bytes) /\ m[2] \in DOMAIN Markers /\ At(bytes, m[1], m[2])
                       /\ m = <<m[1], m[2]>>
  BY <1>1
<1>5. \A m \in found : p <= m[1]
  BY <1>4 DEF IsFirst
<1>6. \E m \in found : \A other \in found : m[1] <= other[1]
  BY <1>3, <1>5
<1> DEFINE f == First(found)
<1>7. f \in found /\ \A other \in found : f[1] <= other[1]
  BY <1>6 DEF First
<1> HIDE DEF f
<1>8. f[1] \in 1..Len(bytes) /\ p \in 1..Len(bytes) /\ f[1] <= p /\ p <= f[1]
  BY <1>3, <1>4, <1>5, <1>7 DEF IsFirst
<1>9. f[1] = p
  BY <1>2, <1>8
<1>10. f[2] \in DOMAIN Markers /\ word \in DOMAIN Markers /\ p \in Nat \ {0}
       /\ At(bytes, p, f[2]) /\ At(bytes, p, word)
       /\ Len(f[2]) \in Nat /\ Len(word) \in Nat
  BY <1>2, <1>4, <1>7, <1>8, <1>9, MarkerWords DEF IsFirst
<1>11. f[2] = word
  <2>1. CASE Len(f[2]) <= Len(word)
    BY <1>10, <2>1, Nested
  <2>2. CASE Len(word) <= Len(f[2])
    BY <1>10, <2>2, Nested
  <2>3. QED BY <1>10, <2>1, <2>2
<1>12. f = <<p, word>>
  BY <1>4, <1>7, <1>9, <1>11
<1>13. QED BY <1>3, <1>12 DEF f, found

\* However the stream goes on, its first marker stays the first.
LEMMA FirstStays ==
    ASSUME NEW bytes \in Seq(Bytes), NEW more \in Seq(Bytes), NEW p, NEW word,
           IsFirst(bytes, p, word)
    PROVE  IsFirst(bytes \o more, p, word)
<1>1. /\ Len(bytes) \in Nat /\ Len(more) \in Nat /\ bytes \o more \in Seq(Bytes)
      /\ Len(bytes \o more) = Len(bytes) + Len(more)
  BY LenProperties, ConcatProperties
<1>2. /\ p \in 1..Len(bytes) /\ p \in Nat \ {0} /\ word \in DOMAIN Markers /\ At(bytes, p, word)
      /\ word \in Seq(Bytes) /\ Len(word) \in Nat \ {0} /\ p + Len(word) - 1 <= Len(bytes)
  BY <1>1, MarkerWords DEF IsFirst, At
<1>3. At(bytes \o more, p, word)
  BY <1>2, AtInPrefix
<1>4. ASSUME NEW q \in 1..Len(bytes \o more), NEW other \in DOMAIN Markers,
             At(bytes \o more, q, other), ~(p <= q)
      PROVE  FALSE
  <2>1. other \in Seq(Bytes) /\ Len(other) \in Nat \ {0} /\ q \in Nat \ {0} /\ q < p
    BY <1>1, <1>2, <1>4, MarkerWords
  <2>2. CASE q + Len(other) - 1 <= Len(bytes)
    <3>1. At(bytes, q, other) /\ q \in 1..Len(bytes)
      BY <1>1, <1>2, <1>4, <2>1, <2>2, AtInPrefix
    <3>2. QED BY <1>4, <3>1 DEF IsFirst
  <2>3. CASE ~(q + Len(other) - 1 <= Len(bytes))
    <3>1. p + Len(word) <= q + Len(other) /\ q <= p
      BY <1>1, <1>2, <2>1, <2>3
    <3>2. q = p
      BY <1>1, <1>2, <1>3, <1>4, <2>1, <3>1, Nested
    <3>3. QED BY <2>1, <3>2, <1>2
  <2>4. QED BY <2>2, <2>3
<1>5. p \in 1..Len(bytes \o more)
  BY <1>1, <1>2
<1>6. QED BY <1>2, <1>3, <1>4, <1>5 DEF IsFirst

\* Looking for a marker in the carry and what follows is looking for it in everything.
LEMMA FirstInCarry ==
    ASSUME NEW bytes \in Seq(Bytes), NEW more \in Seq(Bytes), MarkersIn(bytes) = {}
    PROVE  LET t == LastBytes(bytes, MarkerCarry) \o more
               k == Skipped(bytes, MarkerCarry)
           IN  /\ \A p, word : IsFirst(t, p, word) => IsFirst(bytes \o more, k + p, word)
               /\ MarkersIn(t) = {} => MarkersIn(bytes \o more) = {}
<1> DEFINE t == LastBytes(bytes, MarkerCarry) \o more
           k == Skipped(bytes, MarkerCarry)
           all == bytes \o more
<1>1. MarkerCarry \in Nat
  BY StreamAssumption
<1>2. IsTail(t, all, k)
  BY <1>1, LastBytesIsTail, TailGrows
<1>3. ASSUME NEW q \in 1..Len(all), NEW word \in DOMAIN Markers, At(all, q, word)
      PROVE  q > k
  <2>1. /\ word \in Seq(Bytes) /\ Len(word) \in Nat \ {0} /\ Len(word) <= MarkerCarry + 1
        /\ Len(bytes) \in Nat /\ q \in Nat \ {0}
    BY MarkerWords, LenProperties, <1>2 DEF IsTail
  <2>2. ~At(bytes, q, word)
    <3>1. CASE q \in 1..Len(bytes)
      <4>1. <<q, word>> \notin MarkersIn(bytes)
        OBVIOUS
      <4>2. QED BY <3>1, <4>1 DEF MarkersIn
    <3>2. CASE q \notin 1..Len(bytes)
      BY <2>1, <3>2 DEF At
    <3>3. QED BY <3>1, <3>2
  <2>3. QED BY <1>1, <1>3, <2>1, <2>2, NewWordInCarry
<1> HIDE DEF t, k, all
<1>4. /\ t \in Seq(Bytes) /\ all \in Seq(Bytes) /\ k \in Nat /\ Len(all) = k + Len(t)
      /\ Len(t) \in Nat /\ Len(all) \in Nat
  BY <1>2, LenProperties DEF IsTail
<1>5. ASSUME NEW q \in 1..Len(all), NEW word \in DOMAIN Markers, At(all, q, word)
      PROVE  q - k \in 1..Len(t) /\ At(t, q - k, word)
  <2>1. q > k
    BY <1>3, <1>5
  <2>2. q - k \in 1..Len(t) /\ q - k \in Nat \ {0} /\ k + (q - k) = q
    BY <1>4, <2>1
  <2>3. word \in Seq(Bytes)
    BY MarkerWords
  <2>4. QED BY <1>2, <1>5, <2>2, <2>3, AtInTail
<1>6. ASSUME NEW p, NEW word, IsFirst(t, p, word)
      PROVE  IsFirst(all, k + p, word)
  <2>1. /\ p \in 1..Len(t) /\ word \in DOMAIN Markers /\ At(t, p, word) /\ word \in Seq(Bytes)
        /\ p \in Nat \ {0}
    BY <1>4, <1>6, MarkerWords DEF IsFirst
  <2>2. At(all, k + p, word) /\ k + p \in 1..Len(all)
    BY <1>2, <1>4, <2>1, AtInTail
  <2>3. ASSUME NEW q \in 1..Len(all), NEW other \in DOMAIN Markers, At(all, q, other)
        PROVE  k + p <= q
    <3>1. q - k \in 1..Len(t) /\ At(t, q - k, other)
      BY <1>5, <2>3
    <3>2. p <= q - k
      BY <1>6, <3>1 DEF IsFirst
    <3>3. QED BY <1>4, <2>1, <3>2
  <2>4. QED BY <2>1, <2>2, <2>3 DEF IsFirst
<1>7. ASSUME MarkersIn(t) = {}, MarkersIn(all) # {} PROVE FALSE
  <2>1. PICK m \in MarkersIn(all) : TRUE
    BY <1>7
  <2>2. m[1] \in 1..Len(all) /\ m[2] \in DOMAIN Markers /\ At(all, m[1], m[2])
    BY <2>1 DEF MarkersIn
  <2>3. m[1] - k \in 1..Len(t) /\ At(t, m[1] - k, m[2])
    BY <1>5, <2>2
  <2>4. <<m[1] - k, m[2]>> \in MarkersIn(t)
    BY <2>2, <2>3 DEF MarkersIn
  <2>5. QED BY <1>7, <2>4
<1>8. QED BY <1>6, <1>7 DEF t, k, all

-----------------------------------------------------------------------------
(***************************************************************************)
(* The detector.                                                           *)
(***************************************************************************)
\* What a detector that has not fired knows of the bytes it has seen.
DetectorOK(d, bytes) ==
    /\ d.pending = None =>
         MarkersIn(bytes) = {} /\ d.carry = LastBytes(bytes, MarkerCarry)
    /\ d.pending # None =>
         \E p \in 1..Len(bytes), word \in DOMAIN Markers :
            LET rest == SubSeq(bytes, p, Len(bytes))
            IN  /\ IsFirst(bytes, p, word) /\ d.pending = Markers[word]
                /\ ~HasBoundary(rest) /\ d.carry = LastBytes(rest, BoundaryCarry)

\* The two boundaries are words of at most four bytes.
LEMMA BoundaryWords ==
    /\ <<NL, NL>> \in Seq(Bytes) /\ Len(<<NL, NL>>) = 2
    /\ <<CR, NL, CR, NL>> \in Seq(Bytes) /\ Len(<<CR, NL, CR, NL>>) = 4
    /\ BoundaryCarry = 3
BY StreamAssumption DEF BoundaryCarry

\* Looking for a boundary in the carry and what follows is looking for it in everything.
LEMMA BoundaryInCarry ==
    ASSUME NEW bytes \in Seq(Bytes), NEW more \in Seq(Bytes), ~HasBoundary(bytes)
    PROVE  HasBoundary(LastBytes(bytes, BoundaryCarry) \o more) <=> HasBoundary(bytes \o more)
<1>1. ~Occurs(bytes, <<NL, NL>>) /\ ~Occurs(bytes, <<CR, NL, CR, NL>>)
  BY DEF HasBoundary
<1>2. /\ BoundaryCarry \in Nat /\ Len(<<NL, NL>>) \in 1..(BoundaryCarry + 1)
      /\ Len(<<CR, NL, CR, NL>>) \in 1..(BoundaryCarry + 1)
  BY BoundaryWords
<1>3. Occurs(LastBytes(bytes, BoundaryCarry) \o more, <<NL, NL>>) <=> Occurs(bytes \o more, <<NL, NL>>)
  BY <1>1, <1>2, BoundaryWords, OccursInCarry
<1>4. Occurs(LastBytes(bytes, BoundaryCarry) \o more, <<CR, NL, CR, NL>>)
        <=> Occurs(bytes \o more, <<CR, NL, CR, NL>>)
  BY <1>1, <1>2, BoundaryWords, OccursInCarry
<1>5. QED BY <1>3, <1>4 DEF HasBoundary

\* A boundary stays.
LEMMA BoundaryStays ==
    ASSUME NEW bytes \in Seq(Bytes), NEW more \in Seq(Bytes), HasBoundary(bytes)
    PROVE  HasBoundary(bytes \o more)
<1>1. ASSUME NEW word \in Seq(Bytes), Occurs(bytes, word) PROVE Occurs(bytes \o more, word)
  <2>1. PICK p \in 1..Len(bytes) : At(bytes, p, word)
    BY <1>1 DEF Occurs
  <2>2. /\ Len(bytes) \in Nat /\ Len(more) \in Nat /\ Len(bytes \o more) = Len(bytes) + Len(more)
    BY LenProperties, ConcatProperties
  <2>3. p \in Nat \ {0} /\ p + Len(word) - 1 <= Len(bytes) /\ p \in 1..Len(bytes \o more)
    BY <2>1, <2>2 DEF At
  <2>4. At(bytes \o more, p, word)
    BY <2>1, <2>3, AtInPrefix
  <2>5. QED BY <2>3, <2>4 DEF Occurs
<1>2. QED BY <1>1, BoundaryWords DEF HasBoundary

\* What is after a position grows with the bytes.
LEMMA RestGrows ==
    ASSUME NEW bytes \in Seq(Bytes), NEW more \in Seq(Bytes), NEW p \in 1..Len(bytes)
    PROVE  SubSeq(bytes \o more, p, Len(bytes \o more)) = SubSeq(bytes, p, Len(bytes)) \o more
<1>1. /\ Len(bytes) \in Nat /\ Len(more) \in Nat /\ bytes \o more \in Seq(Bytes)
      /\ Len(bytes \o more) = Len(bytes) + Len(more)
  BY LenProperties, ConcatProperties
<1>2. p \in 1..(Len(bytes) + 1) /\ p \in 1..(Len(bytes \o more) + 1)
  BY <1>1
<1>3. IsTail(SubSeq(bytes, p, Len(bytes)) \o more, bytes \o more, p - 1)
  BY <1>2, FromIsTail, TailGrows
<1>4. IsTail(SubSeq(bytes \o more, p, Len(bytes \o more)), bytes \o more, p - 1)
  BY <1>1, <1>2, FromIsTail
<1>5. QED BY <1>3, <1>4, TailUnique

\* The terminal event, by its first marker.
LEMMA TerminalIs ==
    ASSUME NEW bytes \in Seq(Bytes), NEW p, NEW word, IsFirst(bytes, p, word)
    PROVE  Terminal(bytes) =
              IF HasBoundary(SubSeq(bytes, p, Len(bytes))) THEN Markers[word] ELSE None
<1>1. MarkersIn(bytes) # {} /\ First(MarkersIn(bytes)) = <<p, word>>
  BY FirstIsFound
<1>2. First(MarkersIn(bytes))[1] = p /\ First(MarkersIn(bytes))[2] = word
  BY <1>1
<1>3. QED BY <1>1, <1>2 DEF Terminal

\* A stream keeps its terminal event, whatever follows.
LEMMA TerminalStays ==
    ASSUME NEW bytes \in Seq(Bytes), NEW more \in Seq(Bytes), Terminal(bytes) # None
    PROVE  Terminal(bytes \o more) = Terminal(bytes)
<1>1. MarkersIn(bytes) # {}
  BY DEF Terminal
<1>2. PICK p \in 1..Len(bytes), word \in DOMAIN Markers : IsFirst(bytes, p, word)
  BY <1>1, FirstExists
<1>3. HasBoundary(SubSeq(bytes, p, Len(bytes))) /\ Terminal(bytes) = Markers[word]
  BY <1>2, TerminalIs
<1>4. IsFirst(bytes \o more, p, word) /\ bytes \o more \in Seq(Bytes)
  BY <1>2, FirstStays, ConcatProperties
<1>5. SubSeq(bytes, p, Len(bytes)) \in Seq(Bytes)
  <2>1. p \in 1..(Len(bytes) + 1)
    BY <1>2, LenProperties
  <2>2. QED BY <2>1, FromIsTail DEF IsTail
<1>6. HasBoundary(SubSeq(bytes \o more, p, Len(bytes \o more)))
  BY <1>2, <1>3, <1>5, RestGrows, BoundaryStays
<1>7. QED BY <1>3, <1>4, <1>6, TerminalIs

\* What Observe returns, case by case.
LEMMA ObserveCases ==
    ASSUME NEW d, NEW more
    PROVE  LET combined == d.carry \o more
               found == MarkersIn(combined)
               o == Observe(d, more)
           IN  /\ d.pending = None /\ found = {} =>
                    o.fired = None /\ o.pending = None /\ o.carry = LastBytes(combined, MarkerCarry)
               /\ d.pending = None /\ found # {} =>
                    LET after == SubSeq(combined, First(found)[1], Len(combined))
                        outcome == Markers[First(found)[2]]
                    IN  IF HasBoundary(after) THEN o.fired = outcome
                        ELSE /\ o.fired = None /\ o.pending = outcome
                             /\ o.carry = LastBytes(after, BoundaryCarry)
               /\ d.pending # None =>
                    IF HasBoundary(combined) THEN o.fired = d.pending
                    ELSE /\ o.fired = None /\ o.pending = d.pending
                         /\ o.carry = LastBytes(combined, BoundaryCarry)
BY DEF Observe, Detector

\* A detector that knows its bytes reports the terminal event with the chunk that completes
\* it, and knows its bytes afterwards when there is none yet.
LEMMA ObserveCorrect ==
    ASSUME NEW bytes \in Seq(Bytes), NEW more \in Seq(Bytes), NEW d, DetectorOK(d, bytes)
    PROVE  LET o == Observe(d, more)
           IN  /\ o.fired = Terminal(bytes \o more)
               /\ o.fired = None => DetectorOK(o, bytes \o more)
<1> DEFINE o == Observe(d, more)
           all == bytes \o more
           combined == d.carry \o more
           k == Skipped(bytes, MarkerCarry)
<1>1. all \in Seq(Bytes) /\ MarkerCarry \in Nat /\ BoundaryCarry \in Nat
  BY ConcatProperties, StreamAssumption, BoundaryWords
<1>2. CASE d.pending = None
  <2>1. MarkersIn(bytes) = {} /\ d.carry = LastBytes(bytes, MarkerCarry)
    BY <1>2 DEF DetectorOK
  <2>2. IsTail(combined, all, k)
    BY <1>1, <2>1, LastBytesIsTail, TailGrows
  <2>3. combined \in Seq(Bytes) /\ Len(combined) \in Nat /\ Len(all) = k + Len(combined) /\ k \in Nat
    BY <2>2, LenProperties DEF IsTail
  <2>4. /\ \A p, word : IsFirst(combined, p, word) => IsFirst(all, k + p, word)
        /\ MarkersIn(combined) = {} => MarkersIn(all) = {}
    BY <2>1, FirstInCarry
  <2>5. k = 0 \/ Len(combined) >= MarkerCarry
    <3>1. /\ LastBytes(bytes, MarkerCarry) \in Seq(Bytes) /\ Len(bytes) \in Nat /\ Len(more) \in Nat
          /\ Len(bytes) = k + Len(LastBytes(bytes, MarkerCarry))
          /\ Len(LastBytes(bytes, MarkerCarry)) \in Nat
      BY <1>1, LastBytesIsTail, LenProperties DEF IsTail
    <3>2. Len(combined) = Len(LastBytes(bytes, MarkerCarry)) + Len(more)
      BY <2>1, <3>1, ConcatProperties
    <3>3. QED BY <1>1, <3>1, <3>2 DEF Skipped
  <2>6. CASE MarkersIn(combined) = {}
    <3>1. /\ o.fired = None /\ o.pending = None /\ o.carry = LastBytes(combined, MarkerCarry)
      BY <1>2, <2>6, ObserveCases
    <3>2. MarkersIn(all) = {} /\ Terminal(all) = None
      BY <2>4, <2>6 DEF Terminal
    <3>3. o.carry = LastBytes(all, MarkerCarry)
      BY <1>1, <2>2, <2>5, <3>1, LastBytesOfTail
    <3>4. QED BY <3>1, <3>2, <3>3 DEF DetectorOK
  <2>7. CASE MarkersIn(combined) # {}
    <3>1. PICK p \in 1..Len(combined), word \in DOMAIN Markers : IsFirst(combined, p, word)
      BY <2>3, <2>7, FirstExists
    <3>2. First(MarkersIn(combined)) = <<p, word>>
      BY <2>3, <3>1, FirstIsFound
    <3>3. First(MarkersIn(combined))[1] = p /\ First(MarkersIn(combined))[2] = word
      BY <3>2
    <3>4. IsFirst(all, k + p, word) /\ k + p \in 1..Len(all)
      BY <2>4, <3>1 DEF IsFirst
    <3> DEFINE after == SubSeq(combined, p, Len(combined))
               rest == SubSeq(all, k + p, Len(all))
    <3>5. after = rest
      <4>1. p \in 1..(Len(combined) + 1) /\ k + p \in 1..(Len(all) + 1) /\ k + (p - 1) = (k + p) - 1
        BY <2>3, <3>1, SMTT(30)
      <4>2. IsTail(after, all, k + (p - 1))
        BY <2>2, <2>3, <4>1, FromIsTail, TailOfTail
      <4>3. IsTail(rest, all, (k + p) - 1)
        BY <1>1, <4>1, FromIsTail
      <4>4. QED BY <4>1, <4>2, <4>3, TailUnique
    <3>6. Terminal(all) = IF HasBoundary(rest) THEN Markers[word] ELSE None
      BY <1>1, <3>4, TerminalIs
    <3>7. IF HasBoundary(after) THEN o.fired = Markers[word]
          ELSE o.fired = None /\ o.pending = Markers[word] /\ o.carry = LastBytes(after, BoundaryCarry)
      BY <1>2, <2>7, <3>3, ObserveCases
    <3>8. Markers[word] # None
      BY <3>1, MarkerWords
    <3> HIDE DEF after, o
    <3>9. o.fired = Terminal(all)
      BY <3>5, <3>6, <3>7
    <3>10. ASSUME o.fired = None PROVE DetectorOK(o, all)
      <4>1. ~HasBoundary(rest) /\ o.pending = Markers[word] /\ o.carry = LastBytes(rest, BoundaryCarry)
        BY <3>5, <3>7, <3>8, <3>10
      <4>2. QED BY <3>1, <3>4, <3>8, <4>1 DEF DetectorOK
    <3>11. QED BY <3>9, <3>10 DEF o
  <2>8. QED BY <2>6, <2>7
<1>3. CASE d.pending # None
  <2>1. PICK p \in 1..Len(bytes), word \in DOMAIN Markers :
          /\ IsFirst(bytes, p, word) /\ d.pending = Markers[word]
          /\ ~HasBoundary(SubSeq(bytes, p, Len(bytes)))
          /\ d.carry = LastBytes(SubSeq(bytes, p, Len(bytes)), BoundaryCarry)
    BY <1>3 DEF DetectorOK
  <2> DEFINE seen == SubSeq(bytes, p, Len(bytes))
             rest == SubSeq(all, p, Len(all))
  <2>2. seen \in Seq(Bytes)
    <3>1. p \in 1..(Len(bytes) + 1)
      BY <2>1, LenProperties
    <3>2. QED BY <3>1, FromIsTail DEF IsTail
  <2>3. rest = seen \o more
    BY <2>1, RestGrows
  <2>4. IsFirst(all, p, word) /\ p \in 1..Len(all)
    BY <2>1, FirstStays DEF IsFirst
  <2>5. Terminal(all) = IF HasBoundary(rest) THEN Markers[word] ELSE None
    BY <1>1, <2>4, TerminalIs
  <2> HIDE DEF seen, rest, all
  <2>6. HasBoundary(combined) <=> HasBoundary(rest)
    BY <2>1, <2>2, <2>3, BoundaryInCarry DEF seen
  <2>7. IF HasBoundary(combined) THEN o.fired = d.pending
        ELSE o.fired = None /\ o.pending = d.pending /\ o.carry = LastBytes(combined, BoundaryCarry)
    BY <1>3, ObserveCases
  <2>8. LastBytes(combined, BoundaryCarry) = LastBytes(rest, BoundaryCarry)
    <3>1. IsTail(d.carry, seen, Skipped(seen, BoundaryCarry))
      BY <1>1, <2>1, <2>2, LastBytesIsTail DEF seen
    <3>2. IsTail(combined, rest, Skipped(seen, BoundaryCarry))
      BY <2>3, <3>1, TailGrows
    <3>3. Skipped(seen, BoundaryCarry) = 0 \/ Len(combined) >= BoundaryCarry
      <4>1. /\ d.carry \in Seq(Bytes) /\ Len(d.carry) \in Nat /\ Len(more) \in Nat /\ Len(seen) \in Nat
            /\ Len(seen) = Skipped(seen, BoundaryCarry) + Len(d.carry)
        BY <2>2, <3>1, LenProperties DEF IsTail
      <4>2. Len(combined) = Len(d.carry) + Len(more)
        BY <4>1, ConcatProperties
      <4>3. Skipped(seen, BoundaryCarry) = 0 \/ Len(d.carry) = BoundaryCarry
        BY <1>1, <4>1, SkippedRest
      <4>4. QED BY <1>1, <4>1, <4>2, <4>3
    <3>4. QED BY <1>1, <3>2, <3>3, LastBytesOfTail
  <2> HIDE DEF combined, o
  <2>9. Markers[word] # None
    BY <2>1, MarkerWords
  <2>10. o.fired = Terminal(all)
    BY <2>1, <2>5, <2>6, <2>7
  <2>11. ASSUME o.fired = None PROVE DetectorOK(o, all)
    <3>1. ~HasBoundary(rest) /\ o.pending = Markers[word] /\ o.carry = LastBytes(rest, BoundaryCarry)
      BY <2>1, <2>6, <2>7, <2>8, <2>9, <2>11
    <3>2. QED BY <2>1, <2>4, <2>9, <3>1 DEF DetectorOK, rest
  <2>12. QED BY <2>10, <2>11 DEF o, all
<1>4. QED BY <1>2, <1>3

-----------------------------------------------------------------------------
(***************************************************************************)
(* The capture.  Unrolled, a ring is its bytes from the start on and then  *)
(* those before the start.  Writing r bytes at the start of a full ring    *)
(* and moving the start by r drops the r oldest bytes.                     *)
(***************************************************************************)
\* The position in the buffer of byte j of a ring that starts after s bytes.
Place(s, size, j) == IF j <= size - s THEN j + s ELSE j + s - size

IsRing(c) ==
    /\ c.buffer \in Seq(Bytes) /\ Len(c.buffer) <= Capacity
    /\ c.start \in 0..(Capacity - 1)
    /\ Len(c.buffer) < Capacity => c.start = 0

\* The bytes of a ring in their order.
LEMMA CapturedEach ==
    ASSUME NEW c, IsRing(c), NEW n \in Nat, Len(c.buffer) = n, NEW s \in Nat, c.start = s
    PROVE  /\ Captured(c) \in Seq(Bytes) /\ Len(Captured(c)) = n
           /\ \A j \in 1..n : Captured(c)[j] = c.buffer[Place(s, n, j)]
<1> DEFINE back == SubSeq(c.buffer, s + 1, n)
           front == SubSeq(c.buffer, 1, s)
<1>1. s <= n /\ c.buffer \in Seq(Bytes)
  BY StreamAssumption DEF IsRing
<1>2. \A i \in 1..n : c.buffer[i] \in Bytes
  BY <1>1, ElementOfSeq
<1>3. /\ back \in Seq(Bytes) /\ Len(back) = IF s + 1 <= n THEN n - (s + 1) + 1 ELSE 0
      /\ \A i \in 1..(n - (s + 1) + 1) : back[i] = c.buffer[(s + 1) + i - 1]
  <2>1. \A i \in (s + 1)..n : c.buffer[i] \in Bytes
    BY <1>1, <1>2
  <2>2. QED BY <1>1, <2>1, SubSeqProperties
<1>4. /\ front \in Seq(Bytes) /\ Len(front) = IF 1 <= s THEN s - 1 + 1 ELSE 0
      /\ \A i \in 1..(s - 1 + 1) : front[i] = c.buffer[1 + i - 1]
  <2>1. \A i \in 1..s : c.buffer[i] \in Bytes
    BY <1>1, <1>2
  <2>2. QED BY <1>1, <2>1, SubSeqProperties
<1>5. Captured(c) = back \o front
  BY DEF Captured
<1> HIDE DEF back, front
<1>6. Len(back) = n - s /\ Len(front) = s
  BY <1>1, <1>3, <1>4
<1>7. /\ back \o front \in Seq(Bytes) /\ Len(back \o front) = Len(back) + Len(front)
      /\ \A j \in 1..(Len(back) + Len(front)) :
            (back \o front)[j] = IF j <= Len(back) THEN back[j] ELSE front[j - Len(back)]
  BY <1>3, <1>4, ConcatProperties
<1>8. Len(back) + Len(front) = n
  BY <1>1, <1>6
<1>9. ASSUME NEW j \in 1..n PROVE (back \o front)[j] = c.buffer[Place(s, n, j)]
  <2>1. CASE j <= n - s
    <3>1. j \in 1..(n - (s + 1) + 1) /\ (s + 1) + j - 1 = j + s /\ Place(s, n, j) = j + s
      BY <1>1, <2>1 DEF Place
    <3>2. (back \o front)[j] = back[j]
      BY <1>6, <1>7, <1>8, <2>1
    <3>3. QED BY <1>3, <3>1, <3>2
  <2>2. CASE ~(j <= n - s)
    <3>1. /\ j - (n - s) \in 1..(s - 1 + 1) /\ 1 + (j - (n - s)) - 1 = j + s - n
          /\ Place(s, n, j) = j + s - n
      BY <1>1, <2>2 DEF Place
    <3>2. (back \o front)[j] = front[j - (n - s)]
      BY <1>6, <1>7, <1>8, <2>2
    <3>3. QED BY <1>4, <3>1, <3>2
  <2>3. QED BY <2>1, <2>2
<1>10. QED BY <1>5, <1>7, <1>8, <1>9

\* Remainders of numbers below twice the capacity.
LEMMA Remainder ==
    ASSUME NEW c \in Nat \ {0}, NEW x \in 0..(2 * c - 1)
    PROVE  x % c = IF x < c THEN x ELSE x - c
OBVIOUS

\* How far a position of the buffer is after the start of the ring.
After(s, size, i) == IF i - 1 >= s THEN i - 1 - s ELSE i - 1 - s + size

\* It is what Push computes as a remainder.
LEMMA AfterIsRemainder ==
    ASSUME NEW size \in Nat \ {0}, NEW s \in 0..(size - 1), NEW i \in 1..size
    PROVE  /\ (i - 1 - s + size) % size = After(s, size, i)
           /\ After(s, size, i) \in 0..(size - 1)
<1>1. i - 1 - s + size \in 0..(2 * size - 1)
  OBVIOUS
<1>2. (i - 1 - s + size) % size =
        IF i - 1 - s + size < size THEN i - 1 - s + size ELSE (i - 1 - s + size) - size
  BY <1>1, Remainder
<1>3. QED BY <1>2 DEF After

\* The start after r more bytes.
Moved(s, size, r) == IF s + r < size THEN s + r ELSE (s + r) - size

\* Position i has what was byte r + j of the ring, or one of the bytes written over it.
IsMoved(s, size, r, j, i) ==
    /\ j <= size - r => /\ ~(After(s, size, i) < r)
                        /\ r + j \in 1..size /\ Place(s, size, r + j) = i
    /\ ~(j <= size - r) => /\ After(s, size, i) < r /\ ~(r + j <= size)
                           /\ After(s, size, i) + 1 = (r + j) - size

\* Where byte j of the ring is when its start has moved by r.
LEMMA MovedPlace ==
    ASSUME NEW size \in Nat, NEW s \in 0..(size - 1), NEW r \in 1..(size - 1), NEW j \in 1..size
    PROVE  LET i == Place(Moved(s, size, r), size, j)
           IN  i \in 1..size /\ IsMoved(s, size, r, j, i)
BY DEF Place, After, Moved, IsMoved

\* What Push makes of a full ring and fewer bytes than it has.
Overwritten(buffer, s, rest, r) ==
    LET Offset(i) == (i - 1 - s + Capacity) % Capacity
    IN  [buffer |-> [i \in 1..Capacity |->
                        IF Offset(i) < r THEN rest[Offset(i) + 1] ELSE buffer[i]],
         start |-> StartAfter(s, r)]

\* Writing r bytes over the oldest ones of a full ring.
LEMMA OverwriteRing ==
    ASSUME NEW old, IsRing(old), Len(old.buffer) = Capacity,
           NEW s \in 0..(Capacity - 1), old.start = s,
           NEW rest \in Seq(Bytes), NEW r \in 1..(Capacity - 1), Len(rest) = r,
           NEW new, Overwritten(old.buffer, s, rest, r) = new
    PROVE  /\ IsRing(new) /\ Len(new.buffer) = Capacity
           /\ IsTail(Captured(new), Captured(old) \o rest, r)
<1>1. Capacity \in Nat \ {0} /\ s \in Nat
  BY StreamAssumption
<1> DEFINE s2 == Moved(s, Capacity, r)
<1>3. new.start = s2 /\ s2 \in 0..(Capacity - 1) /\ s2 \in Nat
  <2>1. s + r \in 0..(2 * Capacity - 1)
    BY <1>1
  <2>2. (s + r) % Capacity = IF s + r < Capacity THEN s + r ELSE (s + r) - Capacity
    BY <1>1, <2>1, Remainder
  <2>3. new.start = (s + r) % Capacity
    BY DEF Overwritten, StartAfter
  <2>4. s2 \in 0..(Capacity - 1)
    BY <1>1 DEF Moved
  <2>5. QED BY <1>1, <2>2, <2>3, <2>4 DEF Moved
<1> HIDE DEF s2
<1>4. /\ DOMAIN new.buffer = 1..Capacity
      /\ \A i \in 1..Capacity :
            new.buffer[i] = IF After(s, Capacity, i) < r THEN rest[After(s, Capacity, i) + 1]
                            ELSE old.buffer[i]
  <2>1. \A i \in 1..Capacity : (i - 1 - s + Capacity) % Capacity = After(s, Capacity, i)
    BY <1>1, AfterIsRemainder
  <2>2. QED BY <2>1 DEF Overwritten
<1>5. old.buffer \in Seq(Bytes) /\ \A i \in 1..Capacity : old.buffer[i] \in Bytes
  BY ElementOfSeq DEF IsRing
<1>6. \A i \in 1..r : rest[i] \in Bytes
  BY ElementOfSeq
<1>7. new.buffer \in Seq(Bytes) /\ Len(new.buffer) = Capacity
  <2>1. ASSUME NEW i \in 1..Capacity, After(s, Capacity, i) < r
        PROVE  After(s, Capacity, i) + 1 \in 1..r
    <3>1. After(s, Capacity, i) \in 0..(Capacity - 1)
      BY <1>1, AfterIsRemainder
    <3>2. QED BY <1>1, <2>1, <3>1
  <2>2. \A i \in 1..Capacity : new.buffer[i] \in Bytes
    BY <1>4, <1>5, <1>6, <2>1
  <2>3. new.buffer = [i \in 1..Capacity |-> new.buffer[i]]
    BY DEF Overwritten
  <2>4. new.buffer \in [1..Capacity -> Bytes]
    BY <2>2, <2>3
  <2>5. QED BY <1>1, <2>4
<1>8. IsRing(new)
  BY <1>1, <1>3, <1>7 DEF IsRing
<1>9. /\ Captured(new) \in Seq(Bytes) /\ Len(Captured(new)) = Capacity
      /\ \A j \in 1..Capacity : Captured(new)[j] = new.buffer[Place(s2, Capacity, j)]
  BY <1>1, <1>3, <1>7, <1>8, CapturedEach
<1>10. /\ Captured(old) \in Seq(Bytes) /\ Len(Captured(old)) = Capacity
       /\ \A j \in 1..Capacity : Captured(old)[j] = old.buffer[Place(s, Capacity, j)]
  BY <1>1, CapturedEach
<1> DEFINE both == Captured(old) \o rest
<1>11. /\ both \in Seq(Bytes) /\ Len(both) = Capacity + r
       /\ \A i \in 1..(Capacity + r) :
             both[i] = IF i <= Capacity THEN Captured(old)[i] ELSE rest[i - Capacity]
  <2>1. /\ both \in Seq(Bytes) /\ Len(both) = Len(Captured(old)) + Len(rest)
        /\ \A i \in 1..(Len(Captured(old)) + Len(rest)) :
              both[i] = IF i <= Len(Captured(old)) THEN Captured(old)[i]
                        ELSE rest[i - Len(Captured(old))]
    BY <1>10, ConcatProperties
  <2> HIDE DEF both
  <2>2. QED BY <1>10, <2>1
<1> HIDE DEF both
<1>12. ASSUME NEW j \in 1..Capacity PROVE Captured(new)[j] = both[r + j]
  <2> DEFINE i == Place(s2, Capacity, j)
  <2>1. Capacity \in Nat
    BY <1>1
  <2>2. i \in 1..Capacity /\ IsMoved(s, Capacity, r, j, i)
    BY <2>1, MovedPlace DEF s2
  <2>3. Captured(new)[j] = new.buffer[i] /\ r + j \in 1..(Capacity + r)
    BY <1>1, <1>9
  <2> HIDE DEF i
  <2>4. CASE j <= Capacity - r
    <3>1. Captured(new)[j] = old.buffer[i]
      BY <1>4, <2>2, <2>3, <2>4 DEF IsMoved
    <3>2. r + j <= Capacity
      BY <1>1, <2>2, <2>4 DEF IsMoved
    <3>3. both[r + j] = Captured(old)[r + j]
      BY <1>11, <2>3, <3>2
    <3>4. QED BY <1>10, <2>2, <2>4, <3>1, <3>3 DEF IsMoved
  <2>5. CASE ~(j <= Capacity - r)
    <3>1. Captured(new)[j] = rest[(r + j) - Capacity]
      BY <1>4, <2>2, <2>3, <2>5 DEF IsMoved
    <3>2. QED BY <1>11, <2>2, <2>3, <2>5, <3>1 DEF IsMoved
  <2>6. QED BY <2>4, <2>5
<1>13. Capacity + r = r + Capacity /\ r \in Nat
  BY <1>1
<1>14. IsTail(Captured(new), both, r)
  BY <1>9, <1>11, <1>12, <1>13 DEF IsTail
<1>15. QED BY <1>7, <1>8, <1>14 DEF both

\* A ring that starts at its first byte is its buffer.
LEMMA CapturedFromStart ==
    ASSUME NEW c, IsRing(c), c.start = 0
    PROVE  Captured(c) = c.buffer
<1>1. c.buffer \in Seq(Bytes) /\ Len(c.buffer) \in Nat
  BY LenProperties DEF IsRing
<1>2. PICK n \in Nat : Len(c.buffer) = n
  BY <1>1
<1>3. /\ Captured(c) \in Seq(Bytes) /\ Len(Captured(c)) = n
      /\ \A j \in 1..n : Captured(c)[j] = c.buffer[Place(0, n, j)]
  BY <1>2, CapturedEach
<1>4. \A j \in 1..n : Place(0, n, j) = j
  BY DEF Place
<1>5. QED BY <1>1, <1>2, <1>3, <1>4, SeqEqual

\* A tail of the right length is the last bytes.
LEMMA TailIsLast ==
    ASSUME NEW bytes, NEW t, NEW k, IsTail(t, bytes, k), NEW limit \in Nat,
           Len(t) = limit \/ (k = 0 /\ Len(t) <= limit)
    PROVE  t = LastBytes(bytes, limit)
<1>1. /\ t \in Seq(Bytes) /\ bytes \in Seq(Bytes) /\ k \in Nat /\ Len(bytes) = k + Len(t)
      /\ Len(t) \in Nat
  BY LenProperties DEF IsTail
<1>2. k = Skipped(bytes, limit)
  BY <1>1 DEF Skipped
<1>3. IsTail(LastBytes(bytes, limit), bytes, k)
  BY <1>1, <1>2, LastBytesIsTail
<1>4. QED BY <1>3, TailUnique

\* What follows is a tail of everything.
LEMMA MoreIsTail ==
    ASSUME NEW bytes \in Seq(Bytes), NEW more \in Seq(Bytes)
    PROVE  IsTail(more, bytes \o more, Len(bytes))
<1>1. Len(bytes) \in Nat /\ Len(more) \in Nat
  BY LenProperties
<1>2. /\ bytes \o more \in Seq(Bytes) /\ Len(bytes \o more) = Len(bytes) + Len(more)
      /\ \A i \in 1..(Len(bytes) + Len(more)) :
            (bytes \o more)[i] = IF i <= Len(bytes) THEN bytes[i] ELSE more[i - Len(bytes)]
  BY ConcatProperties
<1>3. ASSUME NEW i \in 1..Len(more) PROVE more[i] = (bytes \o more)[Len(bytes) + i]
  <2>1. /\ Len(bytes) + i \in 1..(Len(bytes) + Len(more)) /\ ~(Len(bytes) + i <= Len(bytes))
        /\ (Len(bytes) + i) - Len(bytes) = i
    BY <1>1
  <2>2. QED BY <1>2, <2>1
<1>4. QED BY <1>1, <1>2, <1>3 DEF IsTail

\* Three pieces are put together in either order.
LEMMA Associate ==
    ASSUME NEW x \in Seq(Bytes), NEW y \in Seq(Bytes), NEW z \in Seq(Bytes)
    PROVE  (x \o y) \o z = x \o (y \o z)
OBVIOUS

\* What follows a sequence is cut in two, and its head is added to the sequence.
Splits(start, head, rest, filled, more) ==
    /\ start \in Seq(Bytes) /\ head \in Seq(Bytes) /\ rest \in Seq(Bytes)
    /\ head \o rest = more /\ start \o head = filled

SameJoined(filled, rest, start, more) == filled \o rest = start \o more

\* A sequence, the head of what follows, and the rest of it.
LEMMA PutTogether ==
    ASSUME NEW start, NEW head, NEW rest, NEW filled, NEW more,
           Splits(start, head, rest, filled, more)
    PROVE  SameJoined(filled, rest, start, more)
<1>1. (start \o head) \o rest = start \o (head \o rest)
  BY Associate, Zenon DEF Splits
<1>2. QED BY <1>1, Zenon DEF Splits, SameJoined

\* What the capture has of the bytes that arrived.
CaptureOK(c, bytes) ==
    DOMAIN c = {"buffer", "start"} /\ IsRing(c) /\ Captured(c) = LastBytes(bytes, Capacity)

\* A chunk cut in two.
LEMMA CutInTwo ==
    ASSUME NEW bytes \in Seq(Bytes), NEW n \in 0..Len(bytes)
    PROVE  /\ SubSeq(bytes, 1, n) \in Seq(Bytes) /\ Len(SubSeq(bytes, 1, n)) = n
           /\ SubSeq(bytes, n + 1, Len(bytes)) \in Seq(Bytes)
           /\ Len(SubSeq(bytes, n + 1, Len(bytes))) = Len(bytes) - n
           /\ SubSeq(bytes, 1, n) \o SubSeq(bytes, n + 1, Len(bytes)) = bytes
<1>1. Len(bytes) \in Nat /\ n \in Nat /\ n <= Len(bytes)
  BY LenProperties
<1>2. /\ \A i \in 1..n : bytes[i] \in Bytes
      /\ \A i \in (n + 1)..Len(bytes) : bytes[i] \in Bytes
  BY <1>1, ElementOfSeq
<1>3. SubSeq(bytes, 1, n) \in Seq(Bytes) /\ Len(SubSeq(bytes, 1, n)) = n
  BY <1>1, <1>2, SubSeqProperties
<1>4. /\ SubSeq(bytes, n + 1, Len(bytes)) \in Seq(Bytes)
      /\ Len(SubSeq(bytes, n + 1, Len(bytes))) = Len(bytes) - n
  BY <1>1, <1>2, SubSeqProperties
<1>5. /\ 1 \in 1..(Len(bytes) + 1) /\ n \in 0..Len(bytes) /\ n \in (1 - 1)..Len(bytes)
      /\ Len(bytes) \in n..Len(bytes)
  BY <1>1
<1>6. SubSeq(bytes, 1, n) \o SubSeq(bytes, n + 1, Len(bytes)) = SubSeq(bytes, 1, Len(bytes))
  BY <1>5, ConcatAdjacentSubSeq
<1>7. QED BY <1>3, <1>4, <1>6, SubSeqFull

\* Push keeps the last bytes of everything that has arrived.
LEMMA PushCorrect ==
    ASSUME NEW bytes \in Seq(Bytes), NEW more \in Seq(Bytes), more # <<>>,
           NEW c, CaptureOK(c, bytes)
    PROVE  CaptureOK(Push(c, more), bytes \o more)
<1> DEFINE all == bytes \o more
           new == Push(c, more)
<1>1. /\ Capacity \in Nat \ {0} /\ IsRing(c) /\ c.buffer \in Seq(Bytes)
      /\ DOMAIN c = {"buffer", "start"} /\ Captured(c) = LastBytes(bytes, Capacity)
  BY StreamAssumption DEF CaptureOK, IsRing
<1>2. PICK n \in Nat : Len(c.buffer) = n
  BY <1>1, LenProperties
<1>3. PICK m \in Nat \ {0} : Len(more) = m
  BY EmptySeq
<1>4. PICK s \in 0..(Capacity - 1) : c.start = s
  BY <1>1 DEF IsRing
<1>5. n <= Capacity /\ (n < Capacity => s = 0)
  BY <1>1, <1>2, <1>4 DEF IsRing
<1>6. all \in Seq(Bytes) /\ IsTail(more, all, Len(bytes))
  BY ConcatProperties, MoreIsTail
<1>7. Captured(c) \in Seq(Bytes) /\ Len(Captured(c)) = n
  BY <1>1, <1>2, <1>4, CapturedEach
<1>8. PICK k \in Nat : Skipped(bytes, Capacity) = k
  <2>1. Len(bytes) \in Nat
    BY LenProperties
  <2>2. Skipped(bytes, Capacity) \in Nat
    BY <1>1, <2>1 DEF Skipped
  <2>3. QED BY <2>2
<1>9. IsTail(Captured(c), bytes, k) /\ IsTail(Captured(c) \o more, all, k)
  BY <1>1, <1>8, LastBytesIsTail, TailGrows
<1>10. CASE m >= Capacity
  <2>1. new = [buffer |-> LastBytes(more, Capacity), start |-> 0]
    BY <1>3, <1>10 DEF Push
  <2>2. IsTail(LastBytes(more, Capacity), more, Skipped(more, Capacity))
    BY <1>1, LastBytesIsTail
  <2>3. /\ LastBytes(more, Capacity) \in Seq(Bytes) /\ Len(LastBytes(more, Capacity)) = Capacity
    <3>1. PICK l \in Nat : Len(LastBytes(more, Capacity)) = l
      BY <2>2, LenProperties DEF IsTail
    <3>2. m = Skipped(more, Capacity) + l
      BY <1>3, <2>2, <3>1 DEF IsTail
    <3>3. l = Capacity
      BY <1>1, <1>3, <1>10, <3>2 DEF Skipped
    <3>4. QED BY <2>2, <3>1, <3>3 DEF IsTail
  <2>4. IsRing(new) /\ new.start = 0 /\ new.buffer = LastBytes(more, Capacity)
        /\ DOMAIN new = {"buffer", "start"}
    BY <1>1, <2>1, <2>3 DEF IsRing
  <2> HIDE DEF new, all
  <2>5. Captured(new) = LastBytes(more, Capacity)
    BY <2>4, CapturedFromStart
  <2>6. IsTail(Captured(new), all, Len(bytes) + Skipped(more, Capacity))
    BY <1>6, <2>2, <2>5, TailOfTail
  <2>7. Captured(new) = LastBytes(all, Capacity)
    BY <1>1, <2>3, <2>5, <2>6, TailIsLast
  <2>8. QED BY <2>4, <2>7 DEF CaptureOK, new, all
<1>11. CASE ~(m >= Capacity)
  <2> DEFINE room == Capacity - n
             append == IF m < room THEN m ELSE room
             head == SubSeq(more, 1, append)
             filled == c.buffer \o head
             rest == SubSeq(more, append + 1, m)
  <2>1. append \in 0..m /\ append \in Nat /\ append <= room /\ room \in Nat
    BY <1>1, <1>5
  <2>2. /\ head \in Seq(Bytes) /\ Len(head) = append
        /\ rest \in Seq(Bytes) /\ Len(rest) = m - append
        /\ head \o rest = more
    BY <1>3, <2>1, CutInTwo
  <2>3. filled \in Seq(Bytes) /\ Len(filled) = n + append
    <3> HIDE DEF head, append
    <3>1. filled \in Seq(Bytes) /\ Len(filled) = Len(c.buffer) + Len(head)
      <4>1. PICK x \in Seq(Bytes) : c.buffer = x
        BY <1>1
      <4>2. PICK y \in Seq(Bytes) : head = y
        BY <2>2
      <4>3. x \o y \in Seq(Bytes) /\ Len(x \o y) = Len(x) + Len(y)
        BY ConcatProperties
      <4>4. QED BY <4>1, <4>2, <4>3, Zenon DEF filled
    <3> HIDE DEF filled
    <3>2. QED BY <1>2, <2>2, <3>1
  <2>4. rest = <<>> <=> append = m
    <3>1. rest = <<>> => Len(rest) = 0
      OBVIOUS
    <3>2. rest # <<>> => Len(rest) # 0
      BY <2>2, EmptySeq
    <3> HIDE DEF rest, append
    <3>3. QED BY <2>1, <2>2, <3>1, <3>2
  <2>5. CASE append = m
    <3>1. n < Capacity /\ s = 0 /\ m <= Capacity - n /\ n + m <= Capacity
      BY <1>1, <1>5, <2>1, <2>5
    <3>2. Captured(c) = c.buffer
      BY <1>1, <1>4, <3>1, CapturedFromStart
    <3>3. filled = c.buffer \o more
      <4>1. SubSeq(more, 1, m) = more
        BY <1>3, SubSeqFull
      <4>2. QED BY <2>5, <4>1
    <3>4. new = [c EXCEPT !.buffer = filled]
      BY <1>2, <1>3, <1>11, <2>4, <2>5 DEF Push
    <3> HIDE DEF filled, new, all, append
    <3>5. new.buffer = filled /\ new.start = 0 /\ DOMAIN new = {"buffer", "start"}
      BY <1>1, <1>4, <3>1, <3>4
    <3>6. Len(filled) = n + m /\ filled \in Seq(Bytes)
      BY <2>3, <2>5
    <3>7. IsRing(new)
      BY <1>1, <3>1, <3>5, <3>6 DEF IsRing
    <3>8. Captured(new) = Captured(c) \o more
      BY <3>2, <3>3, <3>5, <3>7, CapturedFromStart
    <3>9. k = 0
      <4>1. Len(bytes) = k + n /\ Len(bytes) \in Nat
        BY <1>7, <1>9, LenProperties DEF IsTail
      <4>2. QED BY <1>1, <1>8, <3>1, <4>1 DEF Skipped
    <3>10. Len(Captured(new)) <= Capacity
      BY <3>1, <3>3, <3>6, <3>2, <3>8
    <3>11. Captured(new) = LastBytes(all, Capacity)
      BY <1>1, <1>9, <3>8, <3>9, <3>10, TailIsLast
    <3>12. QED BY <3>5, <3>7, <3>11 DEF CaptureOK, new, all
  <2>6. CASE append # m
    <3>1. append = room /\ room < m
      BY <1>1, <2>1, <2>6
    <3>2. PICK r \in 1..(Capacity - 1) : Len(rest) = r
      <4> HIDE DEF rest, append
      <4>1. m - append \in 1..(Capacity - 1)
        BY <1>1, <1>11, <2>1, <3>1
      <4>2. QED BY <2>2, <4>1
    <3> DEFINE mid == [buffer |-> filled, start |-> s]
    <3>3. new = Overwritten(filled, s, rest, r)
      BY <1>2, <1>3, <1>4, <1>11, <2>4, <2>6, <3>2 DEF Push, Overwritten
    <3>4. Len(filled) = Capacity
      BY <1>1, <2>1, <2>3, <3>1
    <3>5. DOMAIN new = {"buffer", "start"}
      BY <3>3 DEF Overwritten
    <3>6. mid.buffer = filled /\ mid.start = s
      OBVIOUS
    <3> HIDE DEF mid, filled, head, rest, new, all, append
    <3>7. IsRing(mid)
      BY <1>1, <2>3, <3>4, <3>6 DEF IsRing
    <3>8. IsRing(new) /\ Len(new.buffer) = Capacity /\ IsTail(Captured(new), Captured(mid) \o rest, r)
      BY <2>2, <3>2, <3>3, <3>4, <3>6, <3>7, OverwriteRing
    <3>9. Captured(mid) \o rest = Captured(c) \o more
      <4>1. CASE room = 0
        <5>1. head = <<>>
          BY <3>1, <4>1, SubSeqEmpty DEF head
        <5>2. filled = c.buffer
          BY <1>1, <5>1, ConcatEmptySeq DEF filled
        <5>3. rest = more
          BY <1>3, <3>1, <4>1, SubSeqFull DEF rest
        <5>4. Captured(mid) = Captured(c)
          BY <1>4, <3>6, <5>2 DEF Captured
        <5>5. QED BY <5>3, <5>4
      <4>2. CASE room # 0
        <5>1. s = 0
          BY <1>1, <1>5, <2>1, <4>2
        <5>2. Captured(mid) = filled /\ Captured(c) = c.buffer
          BY <1>1, <1>4, <3>6, <3>7, <5>1, CapturedFromStart
        <5>3. filled \o rest = c.buffer \o more
          <6>1. c.buffer \in Seq(Bytes) /\ head \in Seq(Bytes) /\ rest \in Seq(Bytes)
            BY <1>1, <2>2
          <6>2. Splits(c.buffer, head, rest, filled, more)
            BY <2>2, <6>1 DEF Splits, filled
          <6>3. SameJoined(filled, rest, c.buffer, more)
            BY <6>2, PutTogether, Zenon
          <6>4. QED BY <6>3, Zenon DEF SameJoined
        <5>4. QED BY <5>2, <5>3
      <4>3. QED BY <4>1, <4>2
    <3>10. IsTail(Captured(new), all, k + r)
      BY <1>9, <3>8, <3>9, TailOfTail
    <3>11. Len(Captured(new)) = Capacity
      <4>1. PICK s2 \in Nat : new.start = s2
        BY <3>8, <1>1 DEF IsRing
      <4>2. QED BY <1>1, <3>8, <4>1, CapturedEach
    <3>12. Captured(new) = LastBytes(all, Capacity)
      BY <1>1, <3>10, <3>11, TailIsLast
    <3>13. QED BY <3>5, <3>8, <3>12 DEF CaptureOK, new, all
  <2>7. QED BY <2>5, <2>6
<1>12. QED BY <1>10, <1>11

-----------------------------------------------------------------------------
(***************************************************************************)
(* The stream.  The inductive invariant has two parts: what the detector   *)
(* and the capture know of the bytes that have arrived, and, phase by      *)
(* phase, what has been logged and released.                               *)
(***************************************************************************)
Phases == {"read", "bind", "log", "yield", "finish", "fail", "ended", "dropped"}

Given == SubSeq(stream, 1, forwarded)

\* The bytes in hand are the ones that have arrived and that the client does not have.
BytesInHand ==
    /\ stream \in Seq(Bytes) /\ received \in 0..Len(stream)
    /\ forwarded \in Nat /\ chunk \in Seq(Bytes) /\ forwarded + Len(chunk) = received
    /\ phase \in {"read", "finish", "fail", "ended"} => chunk = <<>>

\* Detector and capture know what has arrived.
Informed ==
    /\ reported = Terminal(Sofar)
    /\ reported = None => DetectorOK(detector, Sofar)
    /\ CaptureOK(capture, Sofar)

Unaccounted == log = <<>> /\ lost = 0 /\ releases = 0

\* One insert of a log has been tried.
Tried == (Len(log) = 1 /\ lost = 0) \/ (log = <<>> /\ lost = 1)
LoggedAs(outcome) == (log = <<outcome>> /\ lost = 0) \/ (log = <<>> /\ lost = 1)
Settled == LoggedAs(reported) /\ releases = 1

\* What each phase has logged and released.
AccountedByPhase ==
    /\ phase \in Phases
    /\ phase \in {"read", "yield"} => IF reported = None THEN Unaccounted ELSE Settled
    /\ phase \in {"bind", "log"} => reported # None /\ Unaccounted
    /\ phase = "finish" => reported = None /\ Unaccounted
    /\ phase \in {"fail", "ended"} => Tried /\ releases = 1
    /\ phase = "dropped" => (Tried \/ (log = <<>> /\ lost = 0)) /\ releases = 1

StreamInv == BytesInHand /\ Informed /\ AccountedByPhase /\ SettledBeforeClientKnows

\* The bytes that have arrived, and how a chunk adds to them.
LEMMA SofarGrows ==
    ASSUME NEW bytes \in Seq(Bytes), NEW n \in 0..Len(bytes), NEW k \in 0..(Len(bytes) - n)
    PROVE  /\ SubSeq(bytes, 1, n) \in Seq(Bytes) /\ Len(SubSeq(bytes, 1, n)) = n
           /\ SubSeq(bytes, n + 1, n + k) \in Seq(Bytes) /\ Len(SubSeq(bytes, n + 1, n + k)) = k
           /\ SubSeq(bytes, 1, n + k) = SubSeq(bytes, 1, n) \o SubSeq(bytes, n + 1, n + k)
<1>1. Len(bytes) \in Nat /\ n \in Nat /\ n <= Len(bytes) /\ k \in Nat /\ n + k <= Len(bytes)
  BY LenProperties
<1>2. /\ \A i \in 1..n : bytes[i] \in Bytes
      /\ \A i \in (n + 1)..(n + k) : bytes[i] \in Bytes
  BY <1>1, ElementOfSeq
<1>3. SubSeq(bytes, 1, n) \in Seq(Bytes) /\ Len(SubSeq(bytes, 1, n)) = n
  BY <1>1, <1>2, SubSeqProperties
<1>4. SubSeq(bytes, n + 1, n + k) \in Seq(Bytes) /\ Len(SubSeq(bytes, n + 1, n + k)) = k
  BY <1>1, <1>2, SubSeqProperties
<1>5. /\ 1 \in 1..(Len(bytes) + 1) /\ n \in (1 - 1)..Len(bytes) /\ n + k \in n..Len(bytes)
  BY <1>1
<1>6. QED BY <1>3, <1>4, <1>5, ConcatAdjacentSubSeq

\* The insert of a log is tried, whatever comes of it.
LEMMA LogTried ==
    ASSUME NEW outcome, log = <<>>, lost = 0, LogRequest(outcome)
    PROVE  LoggedAs(outcome)' /\ Tried'
<1>1. CASE log' = Append(log, outcome) /\ lost' = lost
  <2>1. log' = <<outcome>> /\ Len(log') = 1 /\ lost' = 0
    BY <1>1
  <2>2. QED BY <2>1 DEF LoggedAs, Tried
<1>2. CASE lost' = lost + 1 /\ log' = log
  <2>1. log' = <<>> /\ lost' = 1
    BY <1>2
  <2>2. QED BY <2>1 DEF LoggedAs, Tried
<1>3. QED BY <1>1, <1>2 DEF LogRequest

\* A log that has its outcome has been tried.
LEMMA LoggedIsTried ==
    ASSUME NEW outcome, LoggedAs(outcome)
    PROVE  Tried
<1>1. Len(<<outcome>>) = 1
  OBVIOUS
<1>2. QED BY <1>1 DEF LoggedAs, Tried

\* No bytes have no terminal event.
LEMMA NothingYet ==
    /\ MarkersIn(<<>>) = {} /\ Terminal(<<>>) = None
<1>1. MarkersIn(<<>>) = {}
  BY DEF MarkersIn
<1>2. QED BY <1>1 DEF Terminal

\* The fields of a detector.
LEMMA ObserveFields ==
    ASSUME NEW d, NEW more
    PROVE  DOMAIN Observe(d, more) = {"carry", "pending", "fired"}
BY DEF Observe, Detector

\* Clearing what a detector reported leaves what it knows.
LEMMA ClearedKnows ==
    ASSUME NEW d, NEW bytes, DOMAIN d = {"carry", "pending", "fired"}, DetectorOK(d, bytes)
    PROVE  DetectorOK([d EXCEPT !.fired = None], bytes)
<1>1. [d EXCEPT !.fired = None].carry = d.carry /\ [d EXCEPT !.fired = None].pending = d.pending
  OBVIOUS
<1>2. QED BY <1>1 DEF DetectorOK

\* A client that has a terminal event has the one the detector reported.
LEMMA GivenIsReported ==
    ASSUME BytesInHand, Informed, Terminal(Given) # None
    PROVE  reported = Terminal(Given)
<1>1. PICK n \in Nat : Len(chunk) = n
  BY LenProperties DEF BytesInHand
<1>2. /\ stream \in Seq(Bytes) /\ forwarded \in 0..Len(stream)
      /\ n \in 0..(Len(stream) - forwarded) /\ received = forwarded + n
  BY <1>1, LenProperties DEF BytesInHand
<1>3. /\ Given \in Seq(Bytes) /\ SubSeq(stream, forwarded + 1, forwarded + n) \in Seq(Bytes)
      /\ Sofar = Given \o SubSeq(stream, forwarded + 1, forwarded + n)
  BY <1>2, SofarGrows DEF Given, Sofar
<1>4. QED BY <1>3, TerminalStays DEF Informed

\* Nothing has arrived at the start.
LEMMA StreamInitInv == Init => StreamInv
<1> SUFFICES ASSUME Init PROVE StreamInv
  OBVIOUS
<1>1. stream \in Seq(Bytes) /\ Len(stream) \in Nat
  BY StreamAssumption, LenProperties DEF Init
<1>2. BytesInHand
  <2>1. chunk = <<>> /\ chunk \in Seq(Bytes) /\ Len(chunk) = 0
    BY DEF Init
  <2>2. QED BY <1>1, <2>1 DEF Init, BytesInHand
<1>3. SubSeq(stream, 1, 0) = <<>>
  BY <1>1, SubSeqEmpty
<1>4. Sofar = <<>> /\ Given = <<>>
  BY <1>3 DEF Init, Sofar, Given
<1>5. LastBytes(<<>>, MarkerCarry) = <<>> /\ LastBytes(<<>>, Capacity) = <<>>
  BY StreamAssumption DEF LastBytes
<1>6. DetectorOK(detector, <<>>)
  BY <1>5, NothingYet DEF Init, Detector, DetectorOK
<1>7. CaptureOK(capture, <<>>)
  <2>1. IsRing(capture) /\ DOMAIN capture = {"buffer", "start"} /\ capture.start = 0 /\ capture.buffer = <<>>
    BY StreamAssumption DEF Init, IsRing
  <2>2. Captured(capture) = <<>>
    BY <2>1, CapturedFromStart
  <2>3. QED BY <1>5, <2>1, <2>2 DEF CaptureOK
<1>8. Informed
  BY <1>4, <1>6, <1>7, NothingYet DEF Init, Informed
<1>9. AccountedByPhase /\ SettledBeforeClientKnows
  BY <1>4, NothingYet DEF Init, AccountedByPhase, Phases, Unaccounted, SettledBeforeClientKnows, Given
<1>10. QED BY <1>2, <1>8, <1>9 DEF StreamInv

\* A chunk arrives: the detector and the capture learn of it, and a terminal event that it
\* completes is to be bound and logged before the client gets it.
LEMMA ReceiveInv ==
    ASSUME StreamInv, NEW length \in 1..(Len(stream) - received), Receive(length)
    PROVE  StreamInv'
<1> DEFINE bytes == SubSeq(stream, received + 1, received + length)
           observed == Observe(detector, bytes)
<1>1. /\ stream \in Seq(Bytes) /\ received \in 0..Len(stream) /\ Len(stream) \in Nat
      /\ length \in 0..(Len(stream) - received) /\ length \in Nat \ {0}
  BY LenProperties DEF StreamInv, BytesInHand
<1>2. /\ Sofar \in Seq(Bytes) /\ bytes \in Seq(Bytes) /\ Len(bytes) = length
      /\ SubSeq(stream, 1, received + length) = Sofar \o bytes
  BY <1>1, SofarGrows DEF Sofar
<1>3. Sofar' = Sofar \o bytes
  BY <1>2 DEF Receive, Sofar
<1>4. phase = "read" /\ chunk = <<>> /\ forwarded = received
  <2>1. phase = "read" /\ chunk = <<>>
    BY DEF Receive, StreamInv, BytesInHand
  <2>2. QED BY <1>1, <2>1 DEF StreamInv, BytesInHand
<1>5. BytesInHand'
  <2>1. /\ stream' = stream /\ received' = received + length /\ forwarded' = forwarded
        /\ chunk' = bytes /\ phase' \in {"bind", "yield"}
    BY DEF Receive, PhaseAfter
  <2>2. QED BY <1>1, <1>2, <1>4, <2>1 DEF BytesInHand
<1>6. CaptureOK(capture, Sofar)'
  <2>1. bytes # <<>>
    BY <1>1, <1>2
  <2>2. CaptureOK(Push(capture, bytes), Sofar \o bytes)
    BY <1>2, <2>1, PushCorrect DEF StreamInv, Informed
  <2>3. QED BY <1>3, <2>2 DEF Receive
<1>7. Informed' /\ AccountedByPhase'
  <2>1. CASE reported = None
    <3>1. /\ observed.fired = Terminal(Sofar \o bytes)
          /\ observed.fired = None => DetectorOK(observed, Sofar \o bytes)
      BY <1>2, <2>1, ObserveCorrect DEF StreamInv, Informed
    <3>2. observed.fired = None => DetectorOK([observed EXCEPT !.fired = None], Sofar \o bytes)
      BY <3>1, ObserveFields, ClearedKnows
    <3>3. /\ detector' = [observed EXCEPT !.fired = None] /\ reported' = observed.fired
          /\ phase' = PhaseAfter(observed.fired)
      BY <2>1 DEF Receive
    <3>4. Informed'
      BY <1>3, <1>6, <3>1, <3>2, <3>3 DEF Informed
    <3>5. Unaccounted /\ Unaccounted'
      BY <1>4, <2>1 DEF StreamInv, AccountedByPhase, Unaccounted, Receive
    <3>6. AccountedByPhase'
      BY <3>3, <3>5 DEF AccountedByPhase, Phases, PhaseAfter
    <3>7. QED BY <3>4, <3>6
  <2>2. CASE reported # None
    <3>1. phase' = "yield" /\ detector' = detector /\ reported' = reported
      BY <2>2 DEF Receive
    <3>2. reported = Terminal(Sofar \o bytes)
      BY <1>2, <2>2, TerminalStays DEF StreamInv, Informed
    <3>3. Informed'
      BY <1>3, <1>6, <2>2, <3>1, <3>2 DEF Informed
    <3>4. Settled /\ Settled'
      BY <1>4, <2>2, <3>1 DEF StreamInv, AccountedByPhase, Settled, LoggedAs, Receive
    <3>5. AccountedByPhase'
      BY <2>2, <3>1, <3>4 DEF AccountedByPhase, Phases
    <3>6. QED BY <3>3, <3>5
  <2>3. QED BY <2>1, <2>2
<1>8. SettledBeforeClientKnows'
  BY DEF Receive, StreamInv, SettledBeforeClientKnows
<1>9. QED BY <1>5, <1>7, <1>8 DEF StreamInv

\* The steps that receive nothing leave what has arrived and what is known of it.
LEMMA KeepsInformed ==
    ASSUME Informed, UNCHANGED <<stream, received, detector, reported, capture>>
    PROVE  Informed'
BY DEF Informed, Sofar

\* A terminal event is logged and its account released, or an affinity is bound.
LEMMA SettleInv ==
    ASSUME StreamInv, Bind \/ Log
    PROVE  StreamInv'
<1>1. phase \in {"bind", "log"} /\ reported # None /\ Unaccounted
  BY DEF Bind, Log, StreamInv, AccountedByPhase
<1>2. UNCHANGED <<stream, received, forwarded, chunk, detector, reported, capture>>
  BY DEF Bind, Log
<1>3. phase' \in {"log", "yield"}
  BY DEF Bind, Log
<1>4. BytesInHand' /\ Informed'
  BY <1>2, <1>3, KeepsInformed DEF StreamInv, BytesInHand
<1>5. Terminal(SubSeq(stream, 1, forwarded)) = None
  BY <1>1 DEF StreamInv, SettledBeforeClientKnows, Unaccounted
<1>6. SettledBeforeClientKnows'
  BY <1>2, <1>5 DEF SettledBeforeClientKnows
<1>7. AccountedByPhase'
  <2>1. CASE Bind
    BY <1>1, <2>1 DEF Bind, AccountedByPhase, Phases, Unaccounted
  <2>2. CASE Log
    <3>1. releases' = 1 /\ reported' = reported /\ phase' = "yield" /\ LogRequest(reported)
      BY <1>1, <2>2 DEF Log, Unaccounted
    <3>2. LoggedAs(reported)'
      BY <1>1, <3>1, LogTried DEF Unaccounted, LoggedAs
    <3>3. QED BY <1>1, <3>1, <3>2 DEF AccountedByPhase, Phases, Settled
  <2>3. QED BY <2>1, <2>2
<1>8. QED BY <1>4, <1>6, <1>7 DEF StreamInv

\* The client has everything that arrived once it takes the chunk, and by then a terminal
\* event in it is settled.
LEMMA YieldInv ==
    ASSUME StreamInv, Yield
    PROVE  StreamInv'
<1>1. /\ phase = "yield" /\ phase' = "read" /\ chunk' = <<>>
      /\ UNCHANGED <<stream, received, detector, reported, capture, log, lost, releases>>
  BY DEF Yield
<1>2. forwarded' = received
  BY DEF Yield, StreamInv, BytesInHand
<1>3. BytesInHand'
  <2>1. /\ stream \in Seq(Bytes) /\ received \in 0..Len(stream) /\ Len(stream) \in Nat
    BY LenProperties DEF StreamInv, BytesInHand
  <2>2. chunk' \in Seq(Bytes) /\ Len(chunk') = 0
    BY <1>1
  <2>3. QED BY <1>1, <1>2, <2>1, <2>2 DEF BytesInHand
<1>4. Informed'
  BY <1>1, KeepsInformed DEF StreamInv
<1>5. IF reported = None THEN Unaccounted ELSE Settled
  BY <1>1 DEF StreamInv, AccountedByPhase
<1>6. AccountedByPhase'
  BY <1>1, <1>5 DEF AccountedByPhase, Phases, Unaccounted, Settled, LoggedAs
<1>7. Terminal(SubSeq(stream, 1, forwarded))' = reported
  BY <1>1, <1>2 DEF StreamInv, Informed, Sofar
<1>8. SettledBeforeClientKnows'
  BY <1>1, <1>5, <1>7 DEF SettledBeforeClientKnows, Settled, LoggedAs
<1>9. QED BY <1>3, <1>4, <1>6, <1>8 DEF StreamInv

\* The stream ends, and one without a terminal event is accounted for how it ended.
LEMMA EndInv ==
    ASSUME StreamInv, UpstreamEnds \/ Finish \/ Fail
    PROVE  StreamInv'
<1>1. UNCHANGED <<stream, received, forwarded, chunk, detector, reported, capture>>
  BY DEF UpstreamEnds, Finish, Fail
<1>2. /\ phase \in {"read", "finish", "fail"} /\ phase' \in {"finish", "fail", "ended"}
  BY DEF UpstreamEnds, Finish, Fail
<1>3. BytesInHand' /\ Informed'
  BY <1>1, <1>2, KeepsInformed DEF StreamInv, BytesInHand
<1>4. AccountedByPhase' /\ SettledBeforeClientKnows'
  <2>1. CASE UpstreamEnds
    <3>1. IF reported = None THEN Unaccounted ELSE Settled
      BY <2>1 DEF UpstreamEnds, StreamInv, AccountedByPhase
    <3>2. UNCHANGED <<log, lost, releases>> /\ (reported = None => phase' = "finish")
            /\ (reported # None => phase' \in {"fail", "ended"})
      BY <2>1 DEF UpstreamEnds, Unsettled
    <3>3. reported # None => Tried /\ releases = 1
      BY <3>1, LoggedIsTried DEF Settled
    <3>4. AccountedByPhase'
      BY <1>1, <1>2, <3>1, <3>2, <3>3 DEF AccountedByPhase, Phases, Unaccounted, Tried
    <3>5. SettledBeforeClientKnows'
      BY <1>1, <3>2 DEF StreamInv, SettledBeforeClientKnows
    <3>6. QED BY <3>4, <3>5
  <2>2. CASE Finish
    <3>1. reported = None /\ Unaccounted
      BY <2>2 DEF Finish, StreamInv, AccountedByPhase
    <3>2. Tried' /\ releases' = 1 /\ phase' \in {"fail", "ended"}
      BY <2>2, <3>1, LogTried DEF Finish, Unaccounted
    <3>3. AccountedByPhase'
      BY <3>2 DEF AccountedByPhase, Phases
    <3>4. Terminal(SubSeq(stream, 1, forwarded)) = None
      BY <3>1 DEF StreamInv, SettledBeforeClientKnows, Unaccounted
    <3>5. SettledBeforeClientKnows'
      BY <1>1, <3>4 DEF SettledBeforeClientKnows
    <3>6. QED BY <3>3, <3>5
  <2>3. CASE Fail
    BY <2>3 DEF Fail, StreamInv, AccountedByPhase, Phases, Tried, SettledBeforeClientKnows
  <2>4. QED BY <2>1, <2>2, <2>3
<1>5. QED BY <1>3, <1>4 DEF StreamInv

\* A drop releases the lease that is still held, and only that one.
LEMMA DropInv ==
    ASSUME StreamInv, Drop
    PROVE  StreamInv'
<1>1. UNCHANGED <<stream, received, forwarded, chunk, detector, reported, capture, log, lost>>
  BY DEF Drop
<1>2. /\ phase \notin {"ended", "dropped"} /\ phase' = "dropped"
      /\ releases' = IF releases = 0 THEN releases + 1 ELSE releases
  BY DEF Drop, LeaseHeld
<1>3. BytesInHand' /\ Informed'
  BY <1>1, <1>2, KeepsInformed DEF StreamInv, BytesInHand
<1>4. (Tried \/ (log = <<>> /\ lost = 0)) /\ releases \in {0, 1}
  <2>1. Unaccounted \/ Settled \/ (Tried /\ releases = 1)
    BY <1>2 DEF StreamInv, AccountedByPhase, Phases
  <2>2. Settled => Tried /\ releases = 1
    BY LoggedIsTried DEF Settled
  <2>3. QED BY <2>1, <2>2 DEF Unaccounted
<1>5. AccountedByPhase'
  BY <1>1, <1>2, <1>4 DEF AccountedByPhase, Phases, Tried
<1>6. SettledBeforeClientKnows'
  <2>1. Terminal(SubSeq(stream, 1, forwarded)) # None => releases = 1
    BY DEF StreamInv, SettledBeforeClientKnows
  <2>2. releases = 1 => releases' = 1
    BY <1>2
  <2>3. QED BY <1>1, <2>1, <2>2 DEF StreamInv, SettledBeforeClientKnows
<1>7. QED BY <1>3, <1>5, <1>6 DEF StreamInv

\* Every step keeps the invariant.
LEMMA StreamNextInv == StreamInv /\ [Next]_vars => StreamInv'
<1> SUFFICES ASSUME StreamInv, [Next]_vars PROVE StreamInv'
  OBVIOUS
<1>1. CASE \E length \in 1..(Len(stream) - received) : Receive(length)
  BY <1>1, ReceiveInv
<1>2. CASE OwnStep
  BY <1>2, SettleInv, YieldInv, EndInv DEF OwnStep
<1>3. CASE UpstreamEnds
  BY <1>3, EndInv
<1>4. CASE Drop
  BY <1>4, DropInv
<1>5. CASE UNCHANGED vars
  BY <1>5 DEF vars, StreamInv, BytesInHand, Informed, Sofar, AccountedByPhase, Unaccounted,
              Settled, Tried, LoggedAs, SettledBeforeClientKnows
<1>6. QED BY <1>1, <1>2, <1>3, <1>4, <1>5 DEF Next

\* The invariant of the response stream, for every stream, way to cut it, and capacity.
THEOREM StreamInvariant == Spec => []StreamInv
<1>1. QED BY StreamInitInv, StreamNextInv, PTL DEF Spec

\* However the upstream's chunks cut the stream, SseTerminalDetector reports the terminal
\* event that a search of all bytes in one piece finds, with the chunk that completes it.
\* Its carries of 64 and of 3 bytes are enough because no marker is longer than 65 bytes,
\* none is part of another, and no boundary has more than four.
THEOREM DetectorComplete == Spec => []DetectorSeesWholeStream
<1>1. StreamInv => DetectorSeesWholeStream
  BY DEF StreamInv, Informed, DetectorSeesWholeStream
<1>2. QED BY <1>1, StreamInvariant, PTL

\* TailCapture holds the last bytes of the stream in their order, whatever chunks wrap its
\* ring, for every capacity.
THEOREM CaptureKeepsTail == Spec => []CaptureIsTail
<1>1. StreamInv => CaptureIsTail
  BY DEF StreamInv, Informed, CaptureOK, CaptureIsTail
<1>2. QED BY <1>1, StreamInvariant, PTL

\* A client that has its terminal event left a free account behind, and a request that is
\* logged with that event or whose insert failed.
THEOREM SettledFirst == Spec => []SettledBeforeClientKnows
<1>1. StreamInv => SettledBeforeClientKnows
  <2> SUFFICES ASSUME StreamInv PROVE SettledBeforeClientKnows
    OBVIOUS
  <2>1. QED BY DEF StreamInv
<1>2. QED BY <1>1, StreamInvariant, PTL

\* One insert of a log is tried for a request, and none only for a client that left, and the
\* account is released exactly once, whether the stream ends, breaks off or is dropped at
\* any await and whether or not the insert works.
THEOREM StreamAccountedOnce == Spec => []AccountedOnce
<1>1. StreamInv => AccountedOnce
  <2> SUFFICES ASSUME StreamInv PROVE AccountedOnce
    OBVIOUS
  <2>1. Settled => Tried /\ releases = 1
    BY LoggedIsTried DEF Settled
  <2>2. /\ phase \in {"read", "yield", "bind", "log", "finish"} =>
              Unaccounted \/ (Tried /\ releases = 1)
        /\ phase \in {"fail", "ended"} => Tried /\ releases = 1
        /\ phase = "dropped" => (Tried \/ (log = <<>> /\ lost = 0)) /\ releases = 1
        /\ phase \in Phases
    BY <2>1 DEF StreamInv, AccountedByPhase
  <2>3. Len(<<>>) = 0
    OBVIOUS
  <2>4. Tried => Len(log) + lost = 1
    BY <2>3 DEF Tried
  <2>5. log = <<>> /\ lost = 0 => Len(log) + lost = 0
    BY <2>3
  <2>6. QED BY <2>2, <2>4, <2>5 DEF Phases, Unaccounted, AccountedOnce
<1>2. QED BY <1>1, StreamInvariant, PTL
=============================================================================
