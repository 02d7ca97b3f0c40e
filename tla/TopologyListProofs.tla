-------------------------- MODULE TopologyListProofs --------------------------
(***************************************************************************)
(* The theorem about the topology lists of PodTemplates. What the operator  *)
(* writes in loops is FlattenSeq, a recursive function; the induction over   *)
(* it is that a set of naturals that is not empty has a smallest element.   *)
(***************************************************************************)
EXTENDS PodTemplates, SequenceTheorems, WellFoundedInduction, TLAPS

LEMMA Smallest ==
  ASSUME NEW T, T \subseteq Nat, T # {}
  PROVE  \E n \in T : \A k \in T : n <= k
<1>1. PICK n \in T : \A k \in T : ~ (<<k, n>> \in OpToRel(<, Nat))
  BY NatLessThanWellFounded, WFMin
<1>2. \A k \in T : ~ (k < n)
  BY <1>1 DEF OpToRel
<1> QED
  BY <1>2

-----------------------------------------------------------------------------
(* What FlattenSeq computes.                                               *)

\* The texts written after each of the parts.
Writes(f, parts, N) ==
  f = [n \in 1..N |-> IF n = 1 THEN parts[n] ELSE f[n - 1] \o parts[n]]

LEMMA WritesLonger ==
  ASSUME NEW parts, NEW N \in Nat, N # 0, NEW f, Writes(f, parts, N)
  PROVE  \E g : Writes(g, parts, N + 1)
<1> DEFINE g == [n \in 1..(N + 1) |-> IF n = N + 1 THEN f[N] \o parts[n] ELSE f[n]]
<1>1. \A n \in 1..(N + 1) :
        g[n] = IF n = 1 THEN parts[n] ELSE g[n - 1] \o parts[n]
  <2> TAKE n \in 1..(N + 1)
  <2>1. CASE n = N + 1
    <3>1. n # 1 /\ n - 1 \in 1..(N + 1) /\ n - 1 = N /\ N # N + 1
      BY <2>1
    <3>2. g[n - 1] = f[N]
      BY <3>1
    <3> QED
      BY <2>1, <3>1, <3>2
  <2>2. CASE n # N + 1
    <3>1. n \in 1..N /\ g[n] = f[n]
      BY <2>2
    <3>2. f[n] = IF n = 1 THEN parts[n] ELSE f[n - 1] \o parts[n]
      BY <3>1 DEF Writes
    <3>3. n # 1 => n - 1 \in 1..N /\ g[n - 1] = f[n - 1]
      BY <3>1
    <3> QED
      BY <3>1, <3>2, <3>3
  <2> QED
    BY <2>1, <2>2
<1>2. g = [n \in 1..(N + 1) |-> IF n = 1 THEN parts[n] ELSE g[n - 1] \o parts[n]]
  <2> DEFINE h == [n \in 1..(N + 1) |-> IF n = 1 THEN parts[n] ELSE g[n - 1] \o parts[n]]
  <2>1. \A n \in 1..(N + 1) : g[n] = h[n]
    BY <1>1
  <2>2. DOMAIN g = 1..(N + 1) /\ DOMAIN h = 1..(N + 1)
    OBVIOUS
  <2> QED
    BY <2>1
<1> HIDE DEF g
<1> QED
  BY <1>2 DEF Writes

LEMMA WritesExist ==
  ASSUME NEW parts, NEW N \in Nat, N # 0
  PROVE  \E f : Writes(f, parts, N)
<1> DEFINE T == {n \in Nat : n # 0 /\ ~ \E f : Writes(f, parts, n)}
<1>1. SUFFICES ASSUME T # {} PROVE FALSE
  OBVIOUS
<1>2. PICK n \in T : \A k \in T : n <= k
  BY <1>1, Smallest
<1>3. CASE n = 1
  <2> DEFINE f == [i \in 1..1 |-> parts[i]]
  <2>1. f = [i \in 1..1 |-> IF i = 1 THEN parts[i] ELSE f[i - 1] \o parts[i]]
    OBVIOUS
  <2>2. Writes(f, parts, 1)
    BY <2>1 DEF Writes
  <2> QED
    BY <1>2, <1>3, <2>2
<1>4. CASE n # 1
  <2>1. n - 1 \in Nat /\ n - 1 # 0 /\ n - 1 \notin T
    BY <1>2, <1>4
  <2>2. PICK f : Writes(f, parts, n - 1)
    BY <2>1
  <2>3. (n - 1) + 1 = n
    BY <1>2
  <2> QED
    BY <1>2, <2>1, <2>2, <2>3, WritesLonger
<1> QED
  BY <1>3, <1>4

LEMMA FlattenWrites ==
  ASSUME NEW parts, Len(parts) \in Nat, Len(parts) # 0
  PROVE  \E f : Writes(f, parts, Len(parts)) /\ FlattenSeq(parts) = f[Len(parts)]
<1> DEFINE f == CHOOSE f : f = [n \in 1..Len(parts) |-> IF n = 1 THEN parts[n] ELSE f[n - 1] \o parts[n]]
<1>1. \E g : Writes(g, parts, Len(parts))
  BY WritesExist
<1>2. Writes(f, parts, Len(parts))
  BY <1>1, Zenon DEF Writes
<1>3. FlattenSeq(parts) = f[Len(parts)]
  BY DEF FlattenSeq
<1> HIDE DEF f
<1> QED
  BY <1>2, <1>3

LEMMA WritesSeq ==
  ASSUME NEW S, NEW parts \in Seq(Seq(S)), NEW f, Writes(f, parts, Len(parts)),
         NEW n \in 1..Len(parts)
  PROVE  f[n] \in Seq(S)
<1> DEFINE T == {i \in Nat : i \in 1..Len(parts) /\ f[i] \notin Seq(S)}
<1>1. SUFFICES ASSUME T # {} PROVE FALSE
  OBVIOUS
<1>2. PICK i \in T : \A k \in T : i <= k
  BY <1>1, Smallest
<1>3. i \in 1..Len(parts) /\ Len(parts) \in Nat /\ f[i] \notin Seq(S) /\ parts[i] \in Seq(S)
  BY <1>2
<1>4. f[i] = IF i = 1 THEN parts[i] ELSE f[i - 1] \o parts[i]
  BY <1>3 DEF Writes
<1>5. CASE i = 1
  BY <1>3, <1>4, <1>5
<1>6. CASE i # 1
  <2>1. i - 1 \in 1..Len(parts) /\ i - 1 \in Nat /\ i - 1 \notin T
    BY <1>2, <1>3, <1>6
  <2>2. f[i - 1] \in Seq(S)
    BY <2>1
  <2> QED
    BY <1>3, <1>4, <1>6, <2>2, ConcatProperties
<1> QED
  BY <1>5, <1>6
-----------------------------------------------------------------------------
(* Commas after the parts, or between them.                                *)

Trailing(first, parts, comma) ==
  << <<first>> >> \o [n \in DOMAIN parts |-> parts[n] \o <<comma>>]

Separated(first, parts, comma) ==
  << <<first>> >> \o [n \in DOMAIN parts |-> IF n = 1 THEN parts[n] ELSE <<comma>> \o parts[n]]

\* A list that begins with head, and has each of the parts after it with an end.
Ended(S, parts, head, end, ended) ==
  /\ ended \in Seq(Seq(S)) /\ Len(ended) = Len(parts) + 1 /\ ended[1] = head
  /\ \A n \in 2..(Len(parts) + 1) : ended[n] = parts[n - 1] \o end

\* The same, but for the end being the beginning of the next part.
Begun(S, parts, head, end, begun) ==
  /\ begun \in Seq(Seq(S)) /\ Len(begun) = Len(parts) + 1 /\ begun[1] = head
  /\ \A n \in 2..(Len(parts) + 1) :
       begun[n] = IF n = 2 THEN parts[n - 1] ELSE end \o parts[n - 1]

LEMMA Preceded ==
  ASSUME NEW W, NEW w \in W, NEW parts \in Seq(W)
  PROVE  /\ <<w>> \o parts \in Seq(W) /\ Len(<<w>> \o parts) = Len(parts) + 1
         /\ (<<w>> \o parts)[1] = w
         /\ \A n \in 2..(Len(parts) + 1) : (<<w>> \o parts)[n] = parts[n - 1]
<1>1. <<w>> \in Seq(W) /\ Len(<<w>>) = 1 /\ <<w>>[1] = w /\ Len(parts) \in Nat
  OBVIOUS
<1> DEFINE a == <<w>>
<1>2. a \in Seq(W) /\ Len(a) = 1 /\ a[1] = w
  BY <1>1
<1> HIDE DEF a
<1>3. /\ a \o parts \in Seq(W) /\ Len(a \o parts) = Len(a) + Len(parts)
      /\ \A i \in 1..(Len(a) + Len(parts)) :
           (a \o parts)[i] = IF i <= Len(a) THEN a[i] ELSE parts[i - Len(a)]
  BY <1>2, ConcatProperties
<1>4. 1 \in 1..(Len(a) + Len(parts)) /\ Len(a) + Len(parts) = Len(parts) + 1
  BY <1>1, <1>2
<1>5. \A n \in 2..(Len(parts) + 1) : n \in 1..(Len(a) + Len(parts)) /\ ~ (n <= Len(a))
  BY <1>1, <1>2
<1>6. a \o parts \in Seq(W) /\ Len(a \o parts) = Len(parts) + 1 /\ (a \o parts)[1] = w
  BY <1>2, <1>3, <1>4
<1>7. \A n \in 2..(Len(parts) + 1) : (a \o parts)[n] = parts[n - 1]
  BY <1>2, <1>3, <1>5
<1> QED
  BY <1>6, <1>7 DEF a

LEMMA Regroup ==
  ASSUME NEW S, NEW q \in Seq(S), NEW c \in Seq(S), NEW p \in Seq(S)
  PROVE  (q \o c) \o (p \o c) = (q \o (c \o p)) \o c
<1>1. p \o c \in Seq(S) /\ c \o p \in Seq(S)
  BY ConcatProperties
<1>2. (q \o c) \o (p \o c) = q \o (c \o (p \o c))
  BY <1>1, ConcatAssociative
<1>3. c \o (p \o c) = (c \o p) \o c
  BY ConcatAssociative
<1>4. q \o ((c \o p) \o c) = (q \o (c \o p)) \o c
  BY <1>1, ConcatAssociative
<1> QED
  BY <1>2, <1>3, <1>4

LEMMA TrailingFacts ==
  ASSUME NEW S, NEW comma \in S, NEW first \in S, NEW parts \in Seq(Seq(S))
  PROVE  Ended(S, parts, <<first>>, <<comma>>, Trailing(first, parts, comma))
<1> DEFINE b == [n \in DOMAIN parts |-> parts[n] \o <<comma>>]
<1>1. Len(parts) \in Nat /\ DOMAIN parts = 1..Len(parts) /\ \A n \in 1..Len(parts) : parts[n] \in Seq(S)
  OBVIOUS
<1>2. <<comma>> \in Seq(S) /\ <<first>> \in Seq(S)
  OBVIOUS
<1>3. \A n \in 1..Len(parts) : parts[n] \o <<comma>> \in Seq(S)
  BY <1>1, <1>2, ConcatProperties
<1>4. b \in Seq(Seq(S)) /\ Len(b) = Len(parts)
  BY <1>1, <1>3
<1>5. \A n \in 2..(Len(parts) + 1) : b[n - 1] = parts[n - 1] \o <<comma>>
  BY <1>1
<1> HIDE DEF b
<1>6. Trailing(first, parts, comma) = << <<first>> >> \o b
  BY DEF Trailing, b
<1>7. /\ << <<first>> >> \o b \in Seq(Seq(S)) /\ Len(<< <<first>> >> \o b) = Len(b) + 1
      /\ (<< <<first>> >> \o b)[1] = <<first>>
      /\ \A n \in 2..(Len(b) + 1) : (<< <<first>> >> \o b)[n] = b[n - 1]
  BY <1>2, <1>4, Preceded
<1>8. \A n \in 2..(Len(parts) + 1) : (<< <<first>> >> \o b)[n] = b[n - 1]
  BY <1>4, <1>7
<1>9. \A n \in 2..(Len(parts) + 1) : (<< <<first>> >> \o b)[n] = parts[n - 1] \o <<comma>>
  BY <1>5, <1>8
<1> QED
  BY <1>4, <1>6, <1>7, <1>9 DEF Ended

LEMMA SeparatedFacts ==
  ASSUME NEW S, NEW comma \in S, NEW first \in S, NEW parts \in Seq(Seq(S))
  PROVE  Begun(S, parts, <<first>>, <<comma>>, Separated(first, parts, comma))
<1> DEFINE b == [n \in DOMAIN parts |-> IF n = 1 THEN parts[n] ELSE <<comma>> \o parts[n]]
<1>1. Len(parts) \in Nat /\ DOMAIN parts = 1..Len(parts) /\ \A n \in 1..Len(parts) : parts[n] \in Seq(S)
  OBVIOUS
<1>2. <<comma>> \in Seq(S) /\ <<first>> \in Seq(S)
  OBVIOUS
<1>3. \A n \in 1..Len(parts) : <<comma>> \o parts[n] \in Seq(S)
  BY <1>1, <1>2, ConcatProperties
<1>4. b \in Seq(Seq(S)) /\ Len(b) = Len(parts)
  BY <1>1, <1>3
<1>5. \A n \in 2..(Len(parts) + 1) :
        b[n - 1] = IF n = 2 THEN parts[n - 1] ELSE <<comma>> \o parts[n - 1]
  <2> TAKE n \in 2..(Len(parts) + 1)
  <2>1. n - 1 \in DOMAIN parts /\ (n - 1 = 1 <=> n = 2)
    BY <1>1
  <2> QED
    BY <2>1
<1> HIDE DEF b
<1>6. Separated(first, parts, comma) = << <<first>> >> \o b
  BY DEF Separated, b
<1>7. /\ << <<first>> >> \o b \in Seq(Seq(S)) /\ Len(<< <<first>> >> \o b) = Len(b) + 1
      /\ (<< <<first>> >> \o b)[1] = <<first>>
      /\ \A n \in 2..(Len(b) + 1) : (<< <<first>> >> \o b)[n] = b[n - 1]
  BY <1>2, <1>4, Preceded
<1>8. \A n \in 2..(Len(parts) + 1) : (<< <<first>> >> \o b)[n] = b[n - 1]
  BY <1>4, <1>7
<1>9. \A n \in 2..(Len(parts) + 1) :
        (<< <<first>> >> \o b)[n] = IF n = 2 THEN parts[n - 1] ELSE <<comma>> \o parts[n - 1]
  BY <1>5, <1>8
<1> QED
  BY <1>4, <1>6, <1>7, <1>9 DEF Begun

Moves(S, end) ==
  \A q, p \in Seq(S) :
    /\ q \o (p \o end) = (q \o p) \o end
    /\ (q \o end) \o (p \o end) = (q \o (end \o p)) \o end
    /\ q # <<>> => q \o p # <<>> /\ q \o (end \o p) # <<>>

LEMMA EndMoves ==
  ASSUME NEW S, NEW end \in Seq(S)
  PROVE  Moves(S, end)
<1> USE DEF Moves
<1> TAKE q, p \in Seq(S)
<1>1. end \o p \in Seq(S)
  BY ConcatProperties
<1>2. q \o (p \o end) = (q \o p) \o end
  BY ConcatAssociative
<1>3. (q \o end) \o (p \o end) = (q \o (end \o p)) \o end
  BY Regroup
<1>4. q # <<>> => q \o p # <<>>
  BY ConcatEqualIffEmpty
<1>5. q # <<>> => q \o (end \o p) # <<>>
  BY <1>1, ConcatEqualIffEmpty
<1> QED
  BY <1>2, <1>3, <1>4, <1>5

\* A text, with an end and without.
EndsIn(S, whole, text, end) == text \in Seq(S) /\ text # <<>> /\ whole = text \o end

\* The texts of the two differ by the last end.
LEMMA LastEnd ==
  ASSUME NEW S, NEW end \in Seq(S), NEW head \in Seq(S), head # <<>>,
         NEW parts \in Seq(Seq(S)), Len(parts) # 0,
         NEW ended, Ended(S, parts, head, end, ended),
         NEW begun, Begun(S, parts, head, end, begun)
  PROVE  EndsIn(S, FlattenSeq(ended), FlattenSeq(begun), end)
<1> DEFINE N == Len(parts) + 1
<1>1. N \in Nat /\ N >= 2 /\ N # 0 /\ N \in 2..N /\ N \in 1..N
  OBVIOUS
<1>2. /\ ended \in Seq(Seq(S)) /\ Len(ended) = N /\ ended[1] = head
      /\ begun \in Seq(Seq(S)) /\ Len(begun) = N /\ begun[1] = head
  BY DEF Ended, Begun
<1>3. \A n \in 2..N : /\ parts[n - 1] \in Seq(S) /\ ended[n] = parts[n - 1] \o end
                      /\ begun[n] = IF n = 2 THEN parts[n - 1] ELSE end \o parts[n - 1]
  <2> TAKE n \in 2..N
  <2>1. n - 1 \in 1..Len(parts)
    OBVIOUS
  <2>2. parts[n - 1] \in Seq(S)
    BY <2>1, ElementOfSeq
  <2> QED
    BY <2>2 DEF Ended, Begun
<1> HIDE DEF N
<1>4. PICK f : Writes(f, ended, N) /\ FlattenSeq(ended) = f[N]
  BY <1>1, <1>2, FlattenWrites
<1>5. PICK g : Writes(g, begun, N) /\ FlattenSeq(begun) = g[N]
  BY <1>1, <1>2, FlattenWrites
<1>6. \A n \in 1..N : f[n] \in Seq(S) /\ g[n] \in Seq(S)
  BY <1>2, <1>4, <1>5, WritesSeq
<1>7. \A n \in 1..N : /\ f[n] = IF n = 1 THEN ended[n] ELSE f[n - 1] \o ended[n]
                      /\ g[n] = IF n = 1 THEN begun[n] ELSE g[n - 1] \o begun[n]
  BY <1>4, <1>5 DEF Writes
<1>8. Moves(S, end)
  BY EndMoves
<1> DEFINE T == {n \in Nat : n \in 2..N /\ ~ (f[n] = g[n] \o end /\ g[n] # <<>>)}
<1>9. ASSUME T # {} PROVE FALSE
  <2>1. PICK n \in T : \A k \in T : n <= k
    BY <1>9, Smallest
  <2>2. /\ n \in 2..N /\ n \in 1..N /\ n # 1 /\ n - 1 \in 1..N /\ n \in Nat
        /\ ~ (f[n] = g[n] \o end /\ g[n] # <<>>)
    BY <1>1, <2>1
  <2>3. PICK own \in Seq(S) : own = parts[n - 1]
    BY <1>3, <2>2
  <2>4. PICK written \in Seq(S) : written = g[n - 1]
    BY <1>6, <2>2
  <2>5. f[n] = f[n - 1] \o (own \o end) /\ g[n] = written \o begun[n]
        /\ begun[n] = IF n = 2 THEN own ELSE end \o own
    <3>1. f[n] = f[n - 1] \o ended[n] /\ g[n] = g[n - 1] \o begun[n]
      BY <1>7, <2>2
    <3>2. ended[n] = own \o end /\ begun[n] = IF n = 2 THEN own ELSE end \o own
      BY <1>3, <2>2, <2>3
    <3> QED
      BY <2>4, <3>1, <3>2
  <2>6. CASE n = 2
    <3>1. f[n - 1] = head /\ written = head
      <4>1. n - 1 = 1 /\ 1 \in 1..N
        BY <2>2, <2>6
      <4>2. f[1] = ended[1] /\ g[1] = begun[1]
        BY <1>7, <4>1
      <4> QED
        BY <1>2, <2>4, <4>1, <4>2
    <3>2. f[n] = written \o (own \o end) /\ g[n] = written \o own
      BY <2>5, <2>6, <3>1
    <3>3. written \o (own \o end) = (written \o own) \o end /\ written \o own # <<>>
      BY <1>8, <2>3, <2>4, <3>1 DEF Moves
    <3> QED
      BY <2>2, <3>2, <3>3
  <2>7. CASE n # 2
    <3>1. n - 1 \in 2..N /\ n - 1 \in Nat /\ ~ (n <= n - 1)
      BY <1>1, <2>2, <2>7
    <3>2. f[n - 1] = written \o end /\ written # <<>>
      BY <2>1, <2>4, <3>1
    <3>3. f[n] = (written \o end) \o (own \o end) /\ g[n] = written \o (end \o own)
      BY <2>5, <2>7, <3>2
    <3>4. /\ (written \o end) \o (own \o end) = (written \o (end \o own)) \o end
          /\ written \o (end \o own) # <<>>
      BY <1>8, <2>3, <2>4, <3>2 DEF Moves
    <3> QED
      BY <2>2, <3>3, <3>4
  <2> QED
    BY <2>6, <2>7
<1>10. f[N] = g[N] \o end /\ g[N] # <<>>
  BY <1>1, <1>9
<1> QED
  BY <1>1, <1>4, <1>5, <1>6, <1>10 DEF EndsIn

LEMMA SameButComma ==
  ASSUME NEW S, NEW comma \in S, NEW first \in S, NEW parts \in Seq(Seq(S)), Len(parts) # 0
  PROVE  /\ FlattenSeq(Separated(first, parts, comma)) \in Seq(S)
         /\ FlattenSeq(Separated(first, parts, comma)) # <<>>
         /\ FlattenSeq(Trailing(first, parts, comma)) =
              FlattenSeq(Separated(first, parts, comma)) \o <<comma>>
<1>1. <<comma>> \in Seq(S) /\ <<first>> \in Seq(S) /\ <<first>> # <<>>
  OBVIOUS
<1>2. PICK head \in Seq(S) : head = <<first>> /\ head # <<>>
  BY <1>1
<1>3. PICK end \in Seq(S) : end = <<comma>>
  BY <1>1
<1>4. PICK ended : ended = Trailing(first, parts, comma) /\ Ended(S, parts, head, end, ended)
  BY <1>2, <1>3, TrailingFacts
<1>5. PICK begun : begun = Separated(first, parts, comma) /\ Begun(S, parts, head, end, begun)
  BY <1>2, <1>3, SeparatedFacts
<1>6. EndsIn(S, FlattenSeq(ended), FlattenSeq(begun), end)
  BY <1>2, <1>3, <1>4, <1>5, LastEnd
<1> QED
  BY <1>3, <1>4, <1>5, <1>6 DEF EndsIn

LEMMA TruncateComma ==
  ASSUME NEW S, NEW comma \in S, NEW text \in Seq(S), text # <<>>
  PROVE  Truncate(text \o <<comma>>) = text
<1>1. <<comma>> \in Seq(S) /\ Len(<<comma>>) = 1 /\ Len(text) \in Nat /\ Len(text) # 0
  BY EmptySeq
<1>2. Len(text \o <<comma>>) = Len(text) + 1 /\ 1 \in 1..Len(text) /\ Len(text) \in 1..Len(text)
  BY <1>1, ConcatProperties
<1>3. SubSeq(text \o <<comma>>, 1, Len(text)) = SubSeq(text, 1, Len(text))
  BY <1>1, <1>2, SubSeqOfConcat1
<1>4. SubSeq(text, 1, Len(text)) = text
  BY SubSeqFull
<1> QED
  BY <1>1, <1>2, <1>3, <1>4 DEF Truncate

\* A comma after each part, the last one cut off, is commas between the parts.
LEMMA CutOff ==
  ASSUME NEW S, NEW comma \in S, NEW first \in S, NEW parts \in Seq(Seq(S)), Len(parts) # 0
  PROVE  /\ FlattenSeq(Separated(first, parts, comma)) \in Seq(S)
         /\ Truncate(FlattenSeq(Trailing(first, parts, comma))) =
              FlattenSeq(Separated(first, parts, comma))
<1>1. PICK text \in Seq(S) : /\ text = FlattenSeq(Separated(first, parts, comma)) /\ text # <<>>
                             /\ FlattenSeq(Trailing(first, parts, comma)) = text \o <<comma>>
  BY SameButComma
<1>2. Truncate(text \o <<comma>>) = text
  BY <1>1, TruncateComma
<1> QED
  BY <1>1, <1>2

LEMMA TwoEnds ==
  ASSUME NEW S, NEW text \in Seq(S), NEW last \in S, NEW comma \in S
  PROVE  /\ Append(text, last) \in Seq(S)
         /\ text \o <<last, comma>> = Append(text, last) \o <<comma>>
<1> DEFINE l == <<last, comma>>
           r == <<comma>>
           a == Append(text, last)
<1>1. /\ l \in Seq(S) /\ Len(l) = 2 /\ l[1] = last /\ l[2] = comma
      /\ r \in Seq(S) /\ Len(r) = 1 /\ r[1] = comma
  OBVIOUS
<1>2. /\ Len(text) \in Nat /\ a \in Seq(S) /\ Len(a) = Len(text) + 1
      /\ \A i \in 1..Len(text) : a[i] = text[i]
      /\ a[Len(text) + 1] = last
  BY AppendProperties
<1> HIDE DEF l, r, a
<1>3. /\ text \o l \in Seq(S) /\ Len(text \o l) = Len(text) + 2
      /\ \A i \in 1..(Len(text) + 2) :
           (text \o l)[i] = IF i <= Len(text) THEN text[i] ELSE l[i - Len(text)]
  <2>1. Len(text) + Len(l) = Len(text) + 2
    BY <1>1, <1>2
  <2>2. /\ text \o l \in Seq(S) /\ Len(text \o l) = Len(text) + Len(l)
        /\ \A i \in 1..(Len(text) + Len(l)) :
             (text \o l)[i] = IF i <= Len(text) THEN text[i] ELSE l[i - Len(text)]
    BY <1>1, ConcatProperties
  <2> QED
    BY <2>1, <2>2
<1>4. /\ a \o r \in Seq(S) /\ Len(a \o r) = Len(text) + 2
      /\ \A i \in 1..(Len(text) + 2) :
           (a \o r)[i] = IF i <= Len(text) + 1 THEN a[i] ELSE r[i - (Len(text) + 1)]
  <2>1. Len(a) + Len(r) = Len(text) + 2
    BY <1>1, <1>2
  <2>2. /\ a \o r \in Seq(S) /\ Len(a \o r) = Len(a) + Len(r)
        /\ \A i \in 1..(Len(a) + Len(r)) :
             (a \o r)[i] = IF i <= Len(a) THEN a[i] ELSE r[i - Len(a)]
    BY <1>1, <1>2, ConcatProperties
  <2> QED
    BY <1>2, <2>1, <2>2
<1>5. ASSUME NEW i \in 1..(Len(text) + 2) PROVE (text \o l)[i] = (a \o r)[i]
  <2>1. CASE i \in 1..Len(text)
    BY <1>2, <1>3, <1>4, <2>1
  <2>2. CASE i = Len(text) + 1
    BY <1>1, <1>2, <1>3, <1>4, <2>2
  <2>3. CASE i = Len(text) + 2
    BY <1>1, <1>2, <1>3, <1>4, <2>3
  <2>4. i \in 1..Len(text) \/ i = Len(text) + 1 \/ i = Len(text) + 2
    <3>1. Len(text) \in Nat
      BY <1>2
    <3> QED
      BY <3>1
  <2> QED
    BY <2>1, <2>2, <2>3, <2>4
<1>6. text \o l = a \o r
  BY <1>2, <1>3, <1>4, <1>5, SeqEqual
<1> QED
  BY <1>2, <1>6 DEF l, r, a
-----------------------------------------------------------------------------
(* The lists of topologies.                                                *)

Tokens == Entries \cup {"[", "{", ",", "}", "]"}

LEMMA TwoSingles ==
  ASSUME NEW a, NEW b
  PROVE  <<a>> \o <<b>> = <<a, b>>
<1> DEFINE S == {a, b}
           s == <<a>>
           t == <<b>>
           u == <<a, b>>
<1>1. /\ s \in Seq(S) /\ Len(s) = 1 /\ s[1] = a
      /\ t \in Seq(S) /\ Len(t) = 1 /\ t[1] = b
      /\ u \in Seq(S) /\ Len(u) = 2 /\ u[1] = a /\ u[2] = b
  OBVIOUS
<1> HIDE DEF S, s, t, u
<1>2. /\ s \o t \in Seq(S) /\ Len(s \o t) = Len(s) + Len(t)
      /\ \A i \in 1..(Len(s) + Len(t)) :
           (s \o t)[i] = IF i <= Len(s) THEN s[i] ELSE t[i - Len(s)]
  BY <1>1, ConcatProperties
<1>3. Len(s \o t) = 2 /\ (s \o t)[1] = a /\ (s \o t)[2] = b
  BY <1>1, <1>2
<1>4. \A i \in 1..Len(u) : (s \o t)[i] = u[i]
  BY <1>1, <1>3
<1>5. s \o t = u
  BY <1>1, <1>2, <1>3, <1>4, SeqEqual
<1> QED
  BY <1>5 DEF s, t, u

Singles(topology) == [n \in DOMAIN topology |-> <<topology[n]>>]

LEMMA SinglesFacts ==
  ASSUME NEW S, NEW topology \in Seq(S)
  PROVE  Singles(topology) \in Seq(Seq(S)) /\ Len(Singles(topology)) = Len(topology)
<1>1. /\ Len(topology) \in Nat /\ DOMAIN topology = 1..Len(topology)
      /\ \A n \in 1..Len(topology) : <<topology[n]>> \in Seq(S)
  OBVIOUS
<1> QED
  BY <1>1 DEF Singles

\* What the inner loop of getAllCSITopologies writes.
EntriesText(open, topology, comma) ==
  FlattenSeq(<< <<open>> >> \o [n \in DOMAIN topology |-> <<topology[n], comma>>])

\* The comma after the last entry is cut off.
LEMMA OneTopology ==
  ASSUME NEW S, NEW comma \in S, NEW open \in S, NEW topology \in Seq(S), Len(topology) # 0
  PROVE  /\ FlattenSeq(Separated(open, Singles(topology), comma)) \in Seq(S)
         /\ Truncate(EntriesText(open, topology, comma)) =
              FlattenSeq(Separated(open, Singles(topology), comma))
<1>1. Singles(topology) \in Seq(Seq(S)) /\ Len(Singles(topology)) # 0
  BY SinglesFacts
<1>2. [n \in DOMAIN topology |-> <<topology[n], comma>>] =
        [n \in DOMAIN Singles(topology) |-> Singles(topology)[n] \o <<comma>>]
  <2>1. DOMAIN Singles(topology) = DOMAIN topology
    BY DEF Singles
  <2>2. \A n \in DOMAIN topology : Singles(topology)[n] \o <<comma>> = <<topology[n], comma>>
    <3> TAKE n \in DOMAIN topology
    <3>1. <<topology[n]>> \o <<comma>> = <<topology[n], comma>>
      BY TwoSingles
    <3> QED
      BY <3>1 DEF Singles
  <2> QED
    BY <2>1, <2>2
<1>3. << <<open>> >> \o [n \in DOMAIN topology |-> <<topology[n], comma>>] =
        Trailing(open, Singles(topology), comma)
  BY <1>2 DEF Trailing
<1>4. /\ FlattenSeq(Separated(open, Singles(topology), comma)) \in Seq(S)
      /\ Truncate(FlattenSeq(Trailing(open, Singles(topology), comma))) =
           FlattenSeq(Separated(open, Singles(topology), comma))
  BY <1>1, CutOff
<1> QED
  BY <1>3, <1>4, Zenon DEF EntriesText

LEMMA TokensAre ==
  /\ Entries \subseteq Tokens
  /\ "[" \in Tokens /\ "{" \in Tokens /\ "," \in Tokens /\ "}" \in Tokens /\ "]" \in Tokens
BY DEF Tokens

LEMMA JsonObjectIs ==
  ASSUME NEW topology
  PROVE  JsonObject(topology) =
           Append(FlattenSeq(Separated("{", Singles(topology), ",")), "}")
BY DEF JsonObject, Listed, Separated, Singles

\* What it writes of a topology is its JSON text, with a comma.
LEMMA TopologyTextIs ==
  ASSUME NEW topology \in Seq(Entries), Len(topology) # 0
  PROVE  /\ JsonObject(topology) \in Seq(Tokens)
         /\ TopologyText(topology) = JsonObject(topology) \o <<",">>
<1>1. topology \in Seq(Tokens)
  <2>1. Entries \subseteq Tokens
    BY TokensAre
  <2>2. \A n \in 1..Len(topology) : topology[n] \in Tokens
    BY <2>1, ElementOfSeq
  <2> QED
    BY <2>2
<1>2. PICK text \in Seq(Tokens) :
        /\ text = FlattenSeq(Separated("{", Singles(topology), ","))
        /\ Truncate(EntriesText("{", topology, ",")) = text
  <2>1. /\ FlattenSeq(Separated("{", Singles(topology), ",")) \in Seq(Tokens)
        /\ Truncate(EntriesText("{", topology, ",")) =
             FlattenSeq(Separated("{", Singles(topology), ","))
    BY <1>1, TokensAre, OneTopology, Zenon
  <2> QED
    BY <2>1, Zenon
<1>3. TopologyText(topology) = text \o <<"}", ",">> /\ JsonObject(topology) = Append(text, "}")
  <2>1. TopologyText(topology) = Truncate(EntriesText("{", topology, ",")) \o <<"}", ",">>
    BY DEF TopologyText, EntriesText
  <2> QED
    BY <1>2, <2>1, JsonObjectIs, Zenon
<1>4. Append(text, "}") \in Seq(Tokens) /\ text \o <<"}", ",">> = Append(text, "}") \o <<",">>
  BY <1>2, TokensAre, TwoEnds
<1> QED
  BY <1>3, <1>4

LEMMA AllCsiTopologiesIs ==
  ASSUME NEW topologies \in Seq(Seq(Entries)), Len(topologies) # 0,
         \A i \in 1..Len(topologies) : Len(topologies[i]) # 0
  PROVE  AllCsiTopologies(topologies) = JsonArray(topologies)
<1> DEFINE objects == [i \in DOMAIN topologies |-> JsonObject(topologies[i])]
<1>1. \A i \in 1..Len(topologies) :
        /\ JsonObject(topologies[i]) \in Seq(Tokens)
        /\ TopologyText(topologies[i]) = JsonObject(topologies[i]) \o <<",">>
  <2> TAKE i \in 1..Len(topologies)
  <2>1. topologies[i] \in Seq(Entries)
    BY ElementOfSeq
  <2> QED
    BY <2>1, TopologyTextIs
<1>2. DOMAIN topologies = 1..Len(topologies) /\ Len(topologies) \in Nat
  OBVIOUS
<1>3. objects \in Seq(Seq(Tokens)) /\ Len(objects) = Len(topologies)
      /\ DOMAIN objects = DOMAIN topologies
  <2>1. \A i \in 1..Len(topologies) : objects[i] \in Seq(Tokens)
    BY <1>1, <1>2, Zenon
  <2>2. objects = [i \in 1..Len(topologies) |-> objects[i]]
    BY <1>2
  <2> HIDE DEF objects
  <2> QED
    BY <1>2, <2>1, <2>2
<1>4. [i \in DOMAIN topologies |-> TopologyText(topologies[i])] =
        [i \in DOMAIN objects |-> objects[i] \o <<",">>]
  BY <1>1, <1>2
<1>5. JsonArray(topologies) = Append(FlattenSeq(Separated("[", objects, ",")), "]")
  BY DEF JsonArray, Listed, Separated
<1> HIDE DEF objects
<1>6. TopologyTexts(topologies) = FlattenSeq(Trailing("[", objects, ","))
  BY <1>4 DEF TopologyTexts, Trailing
<1>7. Truncate(FlattenSeq(Trailing("[", objects, ","))) =
        FlattenSeq(Separated("[", objects, ","))
  BY <1>3, TokensAre, CutOff
<1> QED
  BY <1>5, <1>6, <1>7 DEF AllCsiTopologies
-----------------------------------------------------------------------------
LEMMA BuildTopologies ==
  ASSUME Build
  PROVE  TopologiesKnown'
<1>1. PICK topologies \in TopologyLists :
        /\ pods'.known = IF topologies = <<>> THEN <<>> ELSE AllCsiTopologies(topologies)
        /\ pods'.topologies = [i \in IF topologies = <<>> THEN {} ELSE 0..Len(topologies) |->
                                 NodeTopology(topologies, i)]
  BY DEF Build
<1>2. topologies \in Seq(Seq(Entries)) /\ Len(topologies) \in Nat
  <2>1. TopologyLists \subseteq Seq(Seq(Entries))
    BY TemplatesAssumption, Zenon
  <2> QED
    BY <2>1
<1>3. SUFFICES ASSUME DOMAIN pods'.topologies # {},
                      \A i \in DOMAIN pods'.topologies : pods'.topologies[i] # {}
               PROVE  /\ pods'.known = JsonArray(topologies)
                      /\ DOMAIN pods'.topologies = 0..Len(topologies)
                      /\ \A i \in 1..Len(topologies) :
                           pods'.topologies[i] = {topologies[i][n] : n \in DOMAIN topologies[i]}
  BY <1>1 DEF TopologiesKnown
<1>4. topologies # <<>> /\ DOMAIN pods'.topologies = 0..Len(topologies)
  BY <1>1, <1>3
<1>5. Len(topologies) # 0
  BY <1>2, <1>4
<1>6. \A i \in 1..Len(topologies) :
        pods'.topologies[i] = {topologies[i][n] : n \in DOMAIN topologies[i]}
  <2> TAKE i \in 1..Len(topologies)
  <2>1. i \in 0..Len(topologies) /\ i # 0
    BY <1>2
  <2> QED
    BY <1>1, <1>4, <2>1 DEF NodeTopology
<1>7. \A i \in 1..Len(topologies) : Len(topologies[i]) # 0
  <2> TAKE i \in 1..Len(topologies)
  <2>1. topologies[i] \in Seq(Entries) /\ i \in 0..Len(topologies)
    BY <1>2, ElementOfSeq
  <2>2. {topologies[i][n] : n \in DOMAIN topologies[i]} # {}
    BY <1>3, <1>4, <1>6, <2>1
  <2> QED
    BY <2>1, <2>2
<1>8. AllCsiTopologies(topologies) = JsonArray(topologies)
  BY <1>2, <1>5, <1>7, AllCsiTopologiesIs
<1> QED
  BY <1>1, <1>4, <1>6, <1>8

\* The controller parses X_CSI_TOPOLOGIES, and it lists the topologies that the node
\* plugins of the CR's topologies have, in the order of their DaemonSets. The nodes of
\* the default DaemonSet have a topology of their own, which is not in the list; a
\* topology without labels is excepted. The commas that the two loops write, and the
\* truncations between them, leave the JSON text of the list, whatever its length and
\* that of its entries (common.go:195-215, node.go:340-358).
THEOREM TopologiesAreKnown == TemplatesSpec => []TopologiesKnown
<1>1. TemplatesInit => TopologiesKnown
  BY DEF TemplatesInit, TopologiesKnown, Built
<1>2. TopologiesKnown /\ [TemplatesNext]_templateVars => TopologiesKnown'
  <2>1. CASE Build
    BY <2>1, BuildTopologies
  <2>2. CASE UNCHANGED pods
    BY <2>2 DEF TopologiesKnown, Built
  <2> QED
    BY <2>1, <2>2 DEF TemplatesNext, templateVars
<1> QED
  BY <1>1, <1>2, PTL DEF TemplatesSpec
=============================================================================
