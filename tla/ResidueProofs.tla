---------------------------- MODULE ResidueProofs ----------------------------
(***************************************************************************)
(* The residue of a packet gives back its fields, for all rules and        *)
(* packets that CompressionTest admits, with proofs that TLAPS checks.     *)
(***************************************************************************)
EXTENDS CompressionProofs, FiniteSets, FiniteSetTheorems

-----------------------------------------------------------------------------
(* Functions defined by recursion on a position.                           *)

(* Induction on positions: what has 0, and with a position the next, has   *)
(* all of them; otherwise there were a least one that it does not have.    *)
LEMMA UpTo ==
    ASSUME NEW n \in Nat, NEW P, 0 \in P,
           \A i \in 1 .. n : i - 1 \in P => i \in P
    PROVE  0 .. n \subseteq P
<1> DEFINE out == (0 .. n) \ P
<1> SUFFICES ASSUME out # {} PROVE FALSE
  OBVIOUS
<1>1. out \in SUBSET Nat
  OBVIOUS
<1> DEFINE k == Compressor!First(out)
<1>2. k \in out /\ \A j \in out : k <= j
  <2> HIDE DEF out
  <2> QED
    BY <1>1, FirstIsLeast
<1> HIDE DEF k
<1>3. k \in 1 .. n
  BY <1>2
<1>4. k - 1 \notin out
  BY <1>2, <1>3
<1> QED
  BY <1>2, <1>3, <1>4

(* f begins with base and goes on by the steps.                            *)
Recurs(n, S, base, step, f) ==
    /\ f \in [0 .. n -> S]
    /\ f[0] = base
    /\ \A i \in 1 .. n : f[i] = step[i][f[i - 1]]

(* There is such a function.                                               *)
LEMMA Recursion ==
    ASSUME NEW n \in Nat, NEW S, NEW base \in S, NEW step \in [1 .. n -> [S -> S]]
    PROVE  \E f : Recurs(n, S, base, step, f)
<1> DEFINE P == {k \in 0 .. n : \E f : Recurs(k, S, base, step, f)}
<1>1. 0 \in P
  <2> DEFINE f == [j \in 0 .. 0 |-> base]
  <2>1. f \in [0 .. 0 -> S] /\ f[0] = base
    OBVIOUS
  <2>2. 1 .. 0 = {}
    OBVIOUS
  <2> HIDE DEF f
  <2>3. Recurs(0, S, base, step, f)
    BY <2>1, <2>2 DEF Recurs
  <2> QED
    BY <2>3
<1>2. ASSUME NEW k \in 1 .. n, k - 1 \in P PROVE k \in P
  <2>1. PICK f : Recurs(k - 1, S, base, step, f)
    BY <1>2
  <2>2. /\ f \in [0 .. k - 1 -> S] /\ f[0] = base
        /\ \A i \in 1 .. k - 1 : f[i] = step[i][f[i - 1]]
    BY <2>1 DEF Recurs
  <2> DEFINE g == [j \in 0 .. k |-> IF j = k THEN step[k][f[k - 1]] ELSE f[j]]
  <2>3. step[k][f[k - 1]] \in S
    BY <2>2
  <2>4. g \in [0 .. k -> S] /\ g[0] = base
    BY <2>2, <2>3
  <2>5. ASSUME NEW i \in 1 .. k PROVE g[i] = step[i][g[i - 1]]
    <3>1. g[i - 1] = f[i - 1]
      OBVIOUS
    <3>2. CASE i = k
      BY <3>1, <3>2
    <3>3. CASE i # k
      <4>1. i \in 1 .. k - 1 /\ g[i] = f[i]
        BY <3>3
      <4> QED
        BY <2>2, <3>1, <4>1
    <3> QED
      BY <3>2, <3>3
  <2> HIDE DEF g
  <2>6. Recurs(k, S, base, step, g)
    BY <2>4, <2>5 DEF Recurs
  <2> QED
    BY <2>6
<1>3. 0 .. n \subseteq P
  <2> HIDE DEF P
  <2> QED
    BY <1>1, <1>2, UpTo
<1> QED
  BY <1>3

(* What the steps keep is true of all of its values.                       *)
LEMMA StaysIn ==
    ASSUME NEW n \in Nat, NEW S, NEW f, f[0] \in S,
           \A i \in 1 .. n : f[i - 1] \in S => f[i] \in S
    PROVE  \A i \in 0 .. n : f[i] \in S
<1> DEFINE P == {i \in 0 .. n : f[i] \in S}
<1>1. 0 \in P /\ \A i \in 1 .. n : i - 1 \in P => i \in P
  OBVIOUS
<1>2. 0 .. n \subseteq P
  <2> HIDE DEF P
  <2> QED
    BY <1>1, UpTo
<1> QED
  BY <1>2

(* Sums of numbers.                                                        *)
Sums(n, lens, f) == f = [i \in 0 .. n |-> IF i = 0 THEN 0 ELSE f[i - 1] + lens[i]]

(* There are such sums.                                                    *)
LEMMA SumsExist ==
    ASSUME NEW n \in Nat, NEW lens \in [1 .. n -> Nat]
    PROVE  \E f : Sums(n, lens, f)
<1>1. PICK step \in [1 .. n -> [Nat -> Nat]] :
        \A i \in 1 .. n, x \in Nat : step[i][x] = x + lens[i]
  <2> DEFINE s == [i \in 1 .. n |-> [x \in Nat |-> x + lens[i]]]
  <2>1. s \in [1 .. n -> [Nat -> Nat]]
    OBVIOUS
  <2>2. \A i \in 1 .. n, x \in Nat : s[i][x] = x + lens[i]
    OBVIOUS
  <2> HIDE DEF s
  <2> QED
    BY <2>1, <2>2
<1>2. 0 \in Nat
  OBVIOUS
<1>3. PICK f : Recurs(n, Nat, 0, step, f)
  BY <1>2, Recursion
<1>4. f \in [0 .. n -> Nat] /\ f[0] = 0
  BY <1>3 DEF Recurs
<1>5. ASSUME NEW i \in 1 .. n PROVE f[i] = f[i - 1] + lens[i]
  <2>1. i - 1 \in 0 .. n
    OBVIOUS
  <2>2. f[i] = step[i][f[i - 1]]
    BY <1>3 DEF Recurs
  <2> QED
    BY <1>1, <1>4, <2>1, <2>2
<1>6. f = [i \in 0 .. n |-> IF i = 0 THEN 0 ELSE f[i - 1] + lens[i]]
  BY <1>4, <1>5
<1> QED
  BY <1>6 DEF Sums

(* They are natural numbers, each the one before and one more length.      *)
LEMMA SumsAdd ==
    ASSUME NEW n \in Nat, NEW lens \in [1 .. n -> Nat], NEW f, Sums(n, lens, f)
    PROVE  /\ f \in [0 .. n -> Nat]
           /\ f[0] = 0
           /\ \A i \in 1 .. n : f[i] = f[i - 1] + lens[i]
<1>1. f[0] = 0 /\ \A i \in 1 .. n : f[i] = f[i - 1] + lens[i]
  BY DEF Sums
<1>2. \A i \in 0 .. n : f[i] \in Nat
  <2>1. f[0] \in Nat /\ \A i \in 1 .. n : f[i - 1] \in Nat => f[i] \in Nat
    BY <1>1
  <2> QED
    BY <2>1, StaysIn
<1> QED
  BY <1>1, <1>2 DEF Sums

(* Where the bits of each entry end.                                       *)
LEMMA EndsAdd ==
    ASSUME NEW entries, Len(entries) \in Nat,
           \A i \in 1 .. Len(entries) : SentLength(entries[i]) \in Nat
    PROVE  /\ SentEnds(entries)[0] = 0
           /\ \A i \in 1 .. Len(entries) :
                SentEnds(entries)[i] = SentEnds(entries)[i - 1] + SentLength(entries[i])
           /\ SentEnds(entries) \in [0 .. Len(entries) -> Nat]
<1> DEFINE n == Len(entries)
           lens == [i \in 1 .. n |-> SentLength(entries[i])]
           e == SentEnds(entries)
<1>1. lens \in [1 .. n -> Nat] /\ n \in Nat
  OBVIOUS
<1>2. \E f : Sums(n, lens, f)
  <2> HIDE DEF lens, n
  <2> QED
    BY <1>1, SumsExist
<1>3. ASSUME NEW f
      PROVE  Sums(n, lens, f) <=>
               f = [i \in 0 .. n |-> IF i = 0 THEN 0 ELSE f[i - 1] + SentLength(entries[i])]
  <2>1. \A i \in 0 .. n :
          (IF i = 0 THEN 0 ELSE f[i - 1] + lens[i]) =
          (IF i = 0 THEN 0 ELSE f[i - 1] + SentLength(entries[i]))
    OBVIOUS
  <2> HIDE DEF lens
  <2>2. [i \in 0 .. n |-> IF i = 0 THEN 0 ELSE f[i - 1] + lens[i]] =
        [i \in 0 .. n |-> IF i = 0 THEN 0 ELSE f[i - 1] + SentLength(entries[i])]
    BY <2>1, Zenon
  <2> QED
    BY <2>2 DEF Sums
<1>4. Sums(n, lens, e)
  <2> HIDE DEF lens
  <2>1. e = CHOOSE f : f = [i \in 0 .. n |-> IF i = 0 THEN 0
                                             ELSE f[i - 1] + SentLength(entries[i])]
    BY Zenon DEF SentEnds
  <2>2. e = [i \in 0 .. n |-> IF i = 0 THEN 0 ELSE e[i - 1] + SentLength(entries[i])]
    BY <1>2, <1>3 DEF SentEnds
  <2> HIDE DEF e
  <2> QED
    BY <1>3, <2>2
<1>5. /\ e \in [0 .. n -> Nat] /\ e[0] = 0
      /\ \A i \in 1 .. n : e[i] = e[i - 1] + lens[i]
  <2> HIDE DEF e, lens, n
  <2> QED
    BY <1>1, <1>4, SumsAdd
<1> QED
  BY <1>5

-----------------------------------------------------------------------------
(* The residue: sequences put one behind the other.                        *)

Joins(n, pieces, f) ==
    /\ f[0] = <<>>
    /\ \A i \in 1 .. n : f[i] = f[i - 1] \o pieces[i]

(* FlattenSeq joins the pieces in their order.                             *)
LEMMA FlattenJoins ==
    ASSUME NEW S, NEW pieces \in Seq(Seq(S)), pieces # <<>>
    PROVE  \E f : /\ Joins(Len(pieces), pieces, f)
                  /\ FlattenSeq(pieces) = f[Len(pieces)]
<1> DEFINE n == Len(pieces)
           Is(f) == f = [i \in 1 .. n |-> IF i = 1 THEN pieces[i] ELSE f[i - 1] \o pieces[i]]
<1>1. n \in Nat /\ n >= 1 /\ \A i \in 1 .. n : pieces[i] \in Seq(S)
  OBVIOUS
<1>2. \E f : Is(f)
  <2>1. PICK step \in [1 .. n -> [Seq(S) -> Seq(S)]] :
          \A i \in 1 .. n, x \in Seq(S) : step[i][x] = x \o pieces[i]
    <3> DEFINE s == [i \in 1 .. n |-> [x \in Seq(S) |-> x \o pieces[i]]]
    <3>1. \A i \in 1 .. n, x \in Seq(S) : x \o pieces[i] \in Seq(S)
      BY <1>1
    <3> HIDE DEF n
    <3>2. s \in [1 .. n -> [Seq(S) -> Seq(S)]]
      BY <3>1
    <3>3. \A i \in 1 .. n, x \in Seq(S) : s[i][x] = x \o pieces[i]
      OBVIOUS
    <3> HIDE DEF s
    <3> QED
      BY <3>2, <3>3
  <2>2. <<>> \in Seq(S)
    OBVIOUS
  <2> HIDE DEF n
  <2>3. PICK g : Recurs(n, Seq(S), <<>>, step, g)
    BY <1>1, <2>2, Recursion
  <2>4. g \in [0 .. n -> Seq(S)] /\ g[0] = <<>>
    BY <2>3 DEF Recurs
  <2>5. ASSUME NEW i \in 1 .. n PROVE g[i] = g[i - 1] \o pieces[i]
    <3>1. i - 1 \in 0 .. n
      BY <1>1
    <3>2. g[i] = step[i][g[i - 1]]
      BY <2>3 DEF Recurs
    <3> QED
      BY <2>1, <2>4, <3>1, <3>2
  <2> DEFINE f == [i \in 1 .. n |-> g[i]]
  <2>6. ASSUME NEW i \in 1 .. n
        PROVE  f[i] = IF i = 1 THEN pieces[i] ELSE f[i - 1] \o pieces[i]
    <3>1. CASE i = 1
      <4>1. g[i - 1] = <<>>
        BY <2>4, <3>1
      <4>2. g[i] = pieces[i]
        BY <1>1, <2>5, <4>1, ConcatEmptySeq
      <4> QED
        BY <3>1, <4>2
    <3>2. CASE i # 1
      <4>1. i - 1 \in 1 .. n /\ f[i] = g[i] /\ f[i - 1] = g[i - 1]
        BY <1>1, <3>2
      <4> QED
        BY <2>5, <3>2, <4>1
    <3> QED
      BY <3>1, <3>2
  <2>7. f = [i \in 1 .. n |-> f[i]]
    OBVIOUS
  <2> HIDE DEF f
  <2>8. Is(f)
    BY <2>6, <2>7
  <2> QED
    BY <2>8
<1> DEFINE whole == CHOOSE f : Is(f)
<1>3. Is(whole)
  <2> HIDE DEF Is
  <2> QED
    BY <1>2
<1>4. FlattenSeq(pieces) = whole[n]
  BY <1>1 DEF FlattenSeq
<1> DEFINE f == [i \in 0 .. n |-> IF i = 0 THEN <<>> ELSE whole[i]]
<1> HIDE DEF whole, n
<1>5. ASSUME NEW i \in 1 .. n PROVE f[i] = f[i - 1] \o pieces[i]
  <2>1. f[i] = whole[i] /\ f[i - 1] = IF i = 1 THEN <<>> ELSE whole[i - 1]
    BY <1>1
  <2>2. whole[i] = IF i = 1 THEN pieces[i] ELSE whole[i - 1] \o pieces[i]
    BY <1>3
  <2>3. <<>> \o pieces[i] = pieces[i]
    BY <1>1, ConcatEmptySeq
  <2> QED
    BY <2>1, <2>2, <2>3
<1>6. f[0] = <<>> /\ FlattenSeq(pieces) = f[n]
  BY <1>1, <1>4
<1> HIDE DEF f
<1>7. Joins(n, pieces, f)
  BY <1>5, <1>6 DEF Joins
<1> QED
  BY <1>6, <1>7 DEF n

(* Where the elements are when a sequence is put behind another.           *)
LEMMA PutBehind ==
    ASSUME NEW S, NEW s \in Seq(S), NEW p \in Seq(S)
    PROVE  /\ s \o p \in Seq(S)
           /\ Len(s \o p) = Len(s) + Len(p)
           /\ \A b \in 1 .. Len(s) : (s \o p)[b] = s[b]
           /\ \A b \in 1 .. Len(p) : (s \o p)[Len(s) + b] = p[b]
<1> DEFINE t == s \o p
<1>1. /\ t \in Seq(S) /\ Len(t) = Len(s) + Len(p)
      /\ \A b \in 1 .. Len(s) + Len(p) :
           t[b] = IF b <= Len(s) THEN s[b] ELSE p[b - Len(s)]
  BY ConcatProperties
<1>2. Len(s) \in Nat /\ Len(p) \in Nat
  OBVIOUS
<1> HIDE DEF t
<1>3. ASSUME NEW b \in 1 .. Len(s) PROVE t[b] = s[b]
  BY <1>1, <1>2
<1>4. ASSUME NEW b \in 1 .. Len(p) PROVE t[Len(s) + b] = p[b]
  <2>1. /\ Len(s) + b \in 1 .. Len(s) + Len(p) /\ ~(Len(s) + b <= Len(s))
        /\ Len(s) + b - Len(s) = b
    BY <1>2
  <2> QED
    BY <1>1, <2>1
<1> QED
  BY <1>1, <1>3, <1>4 DEF t

(* A piece that lies in a sequence can be cut out of it.                   *)
LEMMA CutOut ==
    ASSUME NEW S, NEW t \in Seq(S), NEW p \in Seq(S), NEW a \in Nat,
           a + Len(p) <= Len(t), \A b \in 1 .. Len(p) : t[a + b] = p[b]
    PROVE  SubSeq(t, a + 1, a + Len(p)) = p
<1> DEFINE z == a + Len(p)
           cut == SubSeq(t, a + 1, z)
<1>1. Len(p) \in Nat /\ Len(t) \in Nat /\ z \in Nat
  OBVIOUS
<1>2. \A j \in a + 1 .. z : t[j] \in S
  BY <1>1
<1>3. /\ cut \in Seq(S)
      /\ Len(cut) = IF a + 1 <= z THEN z - (a + 1) + 1 ELSE 0
      /\ \A b \in 1 .. z - (a + 1) + 1 : cut[b] = t[a + 1 + b - 1]
  <2> HIDE DEF z
  <2>1. a + 1 \in Int /\ z \in Int
    BY <1>1
  <2> QED
    BY <1>2, <2>1, SubSeqProperties
<1> HIDE DEF cut
<1>4. Len(cut) = Len(p)
  BY <1>1, <1>3
<1>5. ASSUME NEW b \in 1 .. Len(cut) PROVE cut[b] = p[b]
  <2>1. /\ b \in 1 .. Len(p) /\ b \in 1 .. z - (a + 1) + 1
        /\ a + 1 + b - 1 = a + b
    BY <1>1, <1>4
  <2> QED
    BY <1>3, <2>1
<1> QED
  BY <1>3, <1>4, <1>5, SeqEqual DEF cut

(* A sequence of pieces that lie one behind the other.                     *)
EndOf(n, pieces, ends) ==
    /\ ends \in [0 .. n -> Nat]
    /\ ends[0] = 0
    /\ \A i \in 1 .. n : ends[i] = ends[i - 1] + Len(pieces[i])

(* A piece lies in a sequence from a position on.                          *)
Lies(s, a, p) ==
    /\ a + Len(p) <= Len(s)
    /\ \A b \in 1 .. Len(p) : s[a + b] = p[b]

(* A piece lies where it lay when another is put behind it.                *)
LEMMA LiesStill ==
    ASSUME NEW S, NEW s \in Seq(S), NEW p \in Seq(S), NEW q \in Seq(S),
           NEW a \in Nat
    PROVE  /\ Lies(s, a, p) => Lies(s \o q, a, p)
           /\ Lies(s \o q, Len(s), q)
<1>1. /\ Len(s) \in Nat /\ Len(p) \in Nat /\ Len(q) \in Nat
  OBVIOUS
<1>2. ASSUME Lies(s, a, p) PROVE Lies(s \o q, a, p)
  <2>1. a + Len(p) <= Len(s \o q)
    BY <1>1, <1>2, PutBehind DEF Lies
  <2>2. ASSUME NEW b \in 1 .. Len(p) PROVE (s \o q)[a + b] = p[b]
    <3>1. a + b \in 1 .. Len(s) /\ s[a + b] = p[b]
      BY <1>1, <1>2 DEF Lies
    <3> QED
      BY <3>1, PutBehind
  <2> QED
    BY <2>1, <2>2 DEF Lies
<1>3. Lies(s \o q, Len(s), q)
  BY <1>1, PutBehind DEF Lies
<1> QED
  BY <1>2, <1>3

Cuts(n, pieces, ends, whole) ==
    \A i \in 1 .. n : SubSeq(whole, ends[i - 1] + 1, ends[i]) = pieces[i]

(* Cut where the pieces end, what they were joined to gives them back.     *)
LEMMA JoinedPieces ==
    ASSUME NEW S, NEW n \in Nat, NEW pieces \in [1 .. n -> Seq(S)],
           NEW f, Joins(n, pieces, f),
           NEW ends, EndOf(n, pieces, ends)
    PROVE  Cuts(n, pieces, ends, f[n])
<1> DEFINE Good(k) == /\ f[k] \in Seq(S) /\ Len(f[k]) = ends[k]
                      /\ \A i \in 1 .. k : Lies(f[k], ends[i - 1], pieces[i])
           P == {k \in 0 .. n : Good(k)}
<1>1. ends \in [0 .. n -> Nat] /\ ends[0] = 0
  BY DEF EndOf
<1>2. ASSUME NEW i \in 1 .. n
      PROVE  /\ ends[i - 1] \in Nat /\ ends[i] \in Nat
             /\ pieces[i] \in Seq(S)
             /\ ends[i] = ends[i - 1] + Len(pieces[i])
             /\ f[i] = f[i - 1] \o pieces[i]
  <2>1. i - 1 \in 0 .. n /\ i \in 0 .. n /\ pieces[i] \in Seq(S)
    OBVIOUS
  <2>2. ends[i] = ends[i - 1] + Len(pieces[i]) /\ f[i] = f[i - 1] \o pieces[i]
    BY DEF EndOf, Joins
  <2> QED
    BY <1>1, <2>1, <2>2
<1>3. 0 \in P
  <2>1. f[0] = <<>>
    BY DEF Joins
  <2>2. f[0] \in Seq(S) /\ Len(f[0]) = ends[0]
    BY <1>1, <2>1
  <2>3. 1 .. 0 = {} /\ 0 \in 0 .. n
    OBVIOUS
  <2> QED
    BY <2>2, <2>3
<1>4. ASSUME NEW k \in 1 .. n, k - 1 \in P PROVE k \in P
  <2> DEFINE s == f[k - 1]
             p == pieces[k]
  <2>1. /\ s \in Seq(S) /\ Len(s) = ends[k - 1]
        /\ \A i \in 1 .. k - 1 : Lies(s, ends[i - 1], pieces[i])
    BY <1>4
  <2>2. /\ f[k] = s \o p /\ p \in Seq(S)
        /\ ends[k] = ends[k - 1] + Len(p)
    BY <1>2
  <2> HIDE DEF s, p
  <2>3. s \o p \in Seq(S) /\ Len(s \o p) = Len(s) + Len(p)
    BY <2>1, <2>2, PutBehind
  <2>4. f[k] \in Seq(S) /\ Len(f[k]) = ends[k]
    BY <2>1, <2>2, <2>3
  <2>5. ASSUME NEW i \in 1 .. k PROVE Lies(f[k], ends[i - 1], pieces[i])
    <3>1. i \in 1 .. n
      OBVIOUS
    <3>2. ends[i - 1] \in Nat /\ pieces[i] \in Seq(S)
      BY <1>2, <3>1
    <3>3. CASE i = k
      <4>1. Lies(s \o p, Len(s), p)
        BY <2>1, <2>2, <3>2, LiesStill
      <4> QED
        BY <2>1, <2>2, <3>3, <4>1 DEF p
    <3>4. CASE i # k
      <4>1. i \in 1 .. k - 1
        BY <3>4
      <4>2. Lies(s, ends[i - 1], pieces[i])
        BY <2>1, <4>1
      <4>3. Lies(s \o p, ends[i - 1], pieces[i])
        BY <2>1, <2>2, <3>2, <4>2, LiesStill
      <4> QED
        BY <2>2, <4>3
    <3> QED
      BY <3>3, <3>4
  <2> QED
    BY <2>4, <2>5
<1>5. Good(n)
  <2>1. 0 .. n \subseteq P
    <3> HIDE DEF P
    <3> QED
      BY <1>3, <1>4, UpTo
  <2> HIDE DEF Good
  <2> QED
    BY <2>1
<1>6. ASSUME NEW i \in 1 .. n
      PROVE  SubSeq(f[n], ends[i - 1] + 1, ends[i]) = pieces[i]
  <2>1. f[n] \in Seq(S) /\ Lies(f[n], ends[i - 1], pieces[i])
    BY <1>5
  <2>2. /\ ends[i - 1] \in Nat /\ pieces[i] \in Seq(S)
        /\ ends[i] = ends[i - 1] + Len(pieces[i])
    BY <1>2
  <2>3. SubSeq(f[n], ends[i - 1] + 1, ends[i - 1] + Len(pieces[i])) = pieces[i]
    BY <2>1, <2>2, CutOut DEF Lies
  <2> QED
    BY <2>2, <2>3
<1> QED
  BY <1>6 DEF Cuts

-----------------------------------------------------------------------------
(* The indexes: what st_mo() collects, st_cda() finds in the same order.   *)

Collects(n, took, value, f) ==
    f = [i \in 0 .. n |-> IF i = 0 THEN <<>>
                          ELSE IF i \in took THEN Append(f[i - 1], value[i])
                          ELSE f[i - 1]]

(* There is such a collection.                                             *)
LEMMA CollectionExists ==
    ASSUME NEW n \in Nat, NEW took, NEW value \in [1 .. n -> Int]
    PROVE  \E f : Collects(n, took, value, f)
<1>1. PICK step \in [1 .. n -> [Seq(Int) -> Seq(Int)]] :
        \A i \in 1 .. n, x \in Seq(Int) :
          step[i][x] = IF i \in took THEN Append(x, value[i]) ELSE x
  <2> DEFINE s == [i \in 1 .. n |-> [x \in Seq(Int) |->
                     IF i \in took THEN Append(x, value[i]) ELSE x]]
  <2>1. \A i \in 1 .. n, x \in Seq(Int) :
          (IF i \in took THEN Append(x, value[i]) ELSE x) \in Seq(Int)
    OBVIOUS
  <2>2. s \in [1 .. n -> [Seq(Int) -> Seq(Int)]]
    BY <2>1, Zenon
  <2>3. \A i \in 1 .. n, x \in Seq(Int) :
          s[i][x] = IF i \in took THEN Append(x, value[i]) ELSE x
    OBVIOUS
  <2> HIDE DEF s
  <2> QED
    BY <2>2, <2>3
<1>2. <<>> \in Seq(Int)
  OBVIOUS
<1>3. PICK f : Recurs(n, Seq(Int), <<>>, step, f)
  BY <1>2, Recursion
<1>4. f \in [0 .. n -> Seq(Int)] /\ f[0] = <<>>
  BY <1>3 DEF Recurs
<1>5. ASSUME NEW i \in 1 .. n
      PROVE  f[i] = IF i \in took THEN Append(f[i - 1], value[i]) ELSE f[i - 1]
  <2>1. i - 1 \in 0 .. n
    OBVIOUS
  <2>2. f[i] = step[i][f[i - 1]]
    BY <1>3 DEF Recurs
  <2> QED
    BY <1>1, <1>4, <2>1, <2>2
<1> DEFINE g == [i \in 0 .. n |-> IF i = 0 THEN <<>>
                                  ELSE IF i \in took THEN Append(f[i - 1], value[i])
                                  ELSE f[i - 1]]
<1>6. DOMAIN g = 0 .. n /\ g = [i \in 0 .. n |-> g[i]]
  OBVIOUS
<1>7. f = [i \in 0 .. n |-> f[i]]
  BY <1>4
<1>8. \A i \in 0 .. n : f[i] = g[i]
  <2>1. \A i \in 1 .. n : f[i] = g[i]
    BY <1>5
  <2>2. f[0] = g[0]
    BY <1>4
  <2> HIDE DEF g
  <2> QED
    BY <2>1, <2>2
<1>9. f = g
  <2> HIDE DEF g
  <2> QED
    BY <1>6, <1>7, <1>8
<1> QED
  BY <1>9 DEF Collects

(* It is a sequence of integers.                                           *)
LEMMA CollectionTyped ==
    ASSUME NEW n \in Nat, NEW took, NEW value \in [1 .. n -> Int],
           NEW f, Collects(n, took, value, f)
    PROVE  f[n] \in Seq(Int)
<1> DEFINE P == {k \in 0 .. n : f[k] \in Seq(Int)}
<1>1. f[0] = <<>>
  BY DEF Collects
<1>2. 0 \in P
  <2>1. f[0] \in Seq(Int) /\ 0 \in 0 .. n
    BY <1>1
  <2> QED
    BY <2>1
<1>3. ASSUME NEW k \in 1 .. n, k - 1 \in P PROVE k \in P
  <2>1. f[k] = IF k \in took THEN Append(f[k - 1], value[k]) ELSE f[k - 1]
    <3> HIDE DEF P
    <3>1. k \in 0 .. n /\ k # 0
      OBVIOUS
    <3> QED
      BY <3>1, Zenon DEF Collects
  <2>2. f[k - 1] \in Seq(Int) /\ value[k] \in Int /\ k \in 0 .. n
    BY <1>3
  <2>3. f[k] \in Seq(Int)
    BY <2>1, <2>2
  <2> QED
    BY <2>2, <2>3
<1>4. 0 .. n \subseteq P
  <2> HIDE DEF P
  <2> QED
    BY <1>2, <1>3, UpTo
<1> QED
  BY <1>4

(* The next position is one more to count if it is taken.                  *)
LEMMA UpToNext ==
    ASSUME NEW n \in Nat, NEW took \in SUBSET (1 .. n), NEW k \in 1 .. n
    PROVE  LET before == {j \in took : j <= k - 1}
               upTo == {j \in took : j <= k}
           IN  IF k \in took THEN upTo = before \cup {k} /\ k \notin before
                             ELSE upTo = before
<1> DEFINE before == {j \in took : j <= k - 1}
           upTo == {j \in took : j <= k}
<1>1. \A j \in took : j \in 1 .. n
  OBVIOUS
<1>2. \A j \in took : j <= k <=> j <= k - 1 \/ j = k
  BY <1>1
<1>3. \A j : j \in upTo <=> j \in before \/ (j = k /\ k \in took)
  <2>1. \A j : j \in upTo => j \in before \/ (j = k /\ k \in took)
    BY <1>2
  <2>2. \A j : j \in before \/ (j = k /\ k \in took) => j \in upTo
    BY <1>2
  <2> QED
    BY <2>1, <2>2
<1>4. k \notin before
  OBVIOUS
<1>5. CASE k \in took
  <2> HIDE DEF before, upTo
  <2>1. upTo = before \cup {k}
    BY <1>3, <1>5
  <2> QED
    BY <1>4, <1>5, <2>1 DEF before, upTo
<1>6. CASE k \notin took
  <2> HIDE DEF before, upTo
  <2>1. upTo = before
    BY <1>3, <1>6
  <2> QED
    BY <1>6, <2>1 DEF before, upTo
<1> QED
  BY <1>5, <1>6

Count(took, i) == Cardinality({j \in took : j <= i})

(* Of a collection, the element that i has put there is as far as i is     *)
(* among the positions that put one.                                       *)
LEMMA Collected ==
    ASSUME NEW n \in Nat, NEW took \in SUBSET (1 .. n), NEW value \in [1 .. n -> Int],
           NEW f, Collects(n, took, value, f), NEW i \in took
    PROVE  Count(took, i) \in 1 .. Len(f[n]) /\ f[n][Count(took, i)] = value[i]
<1> DEFINE upTo(k) == {j \in took : j <= k}
           count(k) == Cardinality(upTo(k))
           Good(k) == /\ f[k] \in Seq(Int) /\ Len(f[k]) = count(k)
                      /\ \A j \in upTo(k) : /\ count(j) \in 1 .. Len(f[k])
                                            /\ f[k][count(j)] = value[j]
           P == {k \in 0 .. n : Good(k)}
<1>0. \A j \in took : j \in 1 .. n
  OBVIOUS
<1>1. IsFiniteSet(took)
  <2>1. IsFiniteSet(1 .. n)
    BY FS_Interval
  <2> QED
    BY <2>1, FS_Subset
<1>2. ASSUME NEW k PROVE IsFiniteSet(upTo(k)) /\ count(k) \in Nat
  <2>1. upTo(k) \in SUBSET took
    OBVIOUS
  <2> HIDE DEF upTo
  <2> QED
    BY <1>1, <2>1, FS_Subset, FS_CardinalityType
<1>3. 0 \in P
  <2>1. upTo(0) = {}
    <3>1. \A j \in took : ~(j <= 0)
      BY <1>0
    <3> QED
      BY <3>1
  <2>2. count(0) = 0
    BY <2>1, FS_EmptySet
  <2>3. f[0] = <<>>
    BY DEF Collects
  <2>4. f[0] \in Seq(Int) /\ Len(f[0]) = 0
    BY <2>3
  <2> HIDE DEF upTo, count
  <2> QED
    BY <2>1, <2>2, <2>4
<1>4. ASSUME NEW k \in 1 .. n, k - 1 \in P PROVE k \in P
  <2>1. Good(k - 1)
    BY <1>4
  <2>2. f[k] = IF k \in took THEN Append(f[k - 1], value[k]) ELSE f[k - 1]
    <3> HIDE DEF P
    <3>1. k \in 0 .. n /\ k # 0
      OBVIOUS
    <3> QED
      BY <3>1, Zenon DEF Collects
  <2>3. CASE k \in took
    <3>1. upTo(k) = upTo(k - 1) \cup {k} /\ k \notin upTo(k - 1)
      BY <2>3, UpToNext
    <3>2. count(k) = count(k - 1) + 1
      <4> HIDE DEF upTo
      <4> QED
        BY <1>2, <3>1, FS_AddElement
    <3> HIDE DEF upTo, count
    <3>3. f[k - 1] \in Seq(Int) /\ Len(f[k - 1]) = count(k - 1) /\ value[k] \in Int
      BY <2>1
    <3>4. /\ f[k] \in Seq(Int) /\ Len(f[k]) = count(k)
          /\ f[k][count(k)] = value[k]
          /\ \A b \in 1 .. Len(f[k - 1]) : f[k][b] = f[k - 1][b]
      BY <2>2, <2>3, <3>2, <3>3
    <3>5. ASSUME NEW j \in upTo(k)
          PROVE  count(j) \in 1 .. Len(f[k]) /\ f[k][count(j)] = value[j]
      <4>1. CASE j = k
        BY <1>2, <3>2, <3>4, <4>1
      <4>2. CASE j \in upTo(k - 1)
        <5>1. count(j) \in 1 .. Len(f[k - 1]) /\ f[k - 1][count(j)] = value[j]
          BY <2>1, <4>2
        <5>2. count(j) \in 1 .. Len(f[k])
          BY <1>2, <3>2, <3>3, <3>4, <5>1
        <5>3. f[k][count(j)] = f[k - 1][count(j)]
          BY <3>4, <5>1
        <5> QED
          BY <5>1, <5>2, <5>3
      <4> QED
        BY <3>1, <4>1, <4>2
    <3> QED
      BY <3>4, <3>5
  <2>4. CASE k \notin took
    <3>1. upTo(k) = upTo(k - 1)
      BY <2>4, UpToNext
    <3>2. count(k) = count(k - 1)
      BY <3>1
    <3> HIDE DEF upTo, count
    <3> QED
      BY <2>1, <2>2, <2>4, <3>1, <3>2
  <2> QED
    BY <2>3, <2>4
<1>5. Good(n)
  <2>1. 0 .. n \subseteq P
    <3> HIDE DEF P
    <3> QED
      BY <1>3, <1>4, UpTo
  <2> HIDE DEF Good
  <2> QED
    BY <2>1
<1>6. i \in upTo(n)
  BY <1>0
<1>7. count(i) \in 1 .. Len(f[n]) /\ f[n][count(i)] = value[i]
  <2> HIDE DEF upTo, count
  <2> QED
    BY <1>5, <1>6
<1> QED
  BY <1>7 DEF Count

-----------------------------------------------------------------------------
(* An index and its bits.                                                  *)

LEMMA Powers ==
    /\ 2^0 = 1 /\ 2^1 = 2 /\ 2^2 = 4 /\ 2^3 = 8
    /\ 2^4 = 16 /\ 2^5 = 32 /\ 2^6 = 64 /\ 2^7 = 128
<1>1. 2^0 = 1 /\ 2^1 = 2 /\ 2^2 = 4 /\ 2^3 = 8
  OBVIOUS
<1>2. 2^4 = 16 /\ 2^5 = 32 /\ 2^6 = 64 /\ 2^7 = 128
  OBVIOUS
<1> QED
  BY <1>1, <1>2

(* The next power is twice as large.                                       *)
LEMMA PowerDoubles ==
    ASSUME NEW k \in 0 .. 6
    PROVE  2^k \in {1, 2, 4, 8, 16, 32, 64} /\ 2^(k + 1) = 2 * 2^k
<1>1. k = 0 \/ k = 1 \/ k = 2 \/ k = 3 \/ k = 4 \/ k = 5 \/ k = 6
  OBVIOUS
<1>2. CASE k = 0
  BY <1>2, Powers
<1>3. CASE k = 1
  BY <1>3, Powers
<1>4. CASE k = 2
  BY <1>4, Powers
<1>5. CASE k = 3
  BY <1>5, Powers
<1>6. CASE k = 4
  BY <1>6, Powers
<1>7. CASE k = 5
  BY <1>7, Powers
<1>8. CASE k = 6
  BY <1>8, Powers
<1> QED
  BY <1>1, <1>2, <1>3, <1>4, <1>5, <1>6, <1>7, <1>8

(* A number is twice its half and its last bit.                            *)
LEMMA LastBit ==
    ASSUME NEW n \in Nat, NEW q \in {1, 2, 4, 8, 16, 32, 64}
    PROVE  n \div q = 2 * (n \div (2 * q)) + ((n \div q) % 2)
<1>1. CASE q = 1
  BY <1>1
<1>2. CASE q = 2
  BY <1>2
<1>3. CASE q = 4
  BY <1>3
<1>4. CASE q = 8
  BY <1>4
<1>5. CASE q = 16
  BY <1>5
<1>6. CASE q = 32
  BY <1>6
<1>7. CASE q = 64
  BY <1>7
<1> QED
  BY <1>1, <1>2, <1>3, <1>4, <1>5, <1>6, <1>7

Reads(n, bits, f) == f = [i \in 0 .. n |-> IF i = 0 THEN 0 ELSE 2 * f[i - 1] + bits[i]]

(* There is such a reading of bits.                                        *)
LEMMA ReadingExists ==
    ASSUME NEW n \in Nat, NEW bits \in [1 .. n -> Nat]
    PROVE  \E f : Reads(n, bits, f)
<1>1. PICK step \in [1 .. n -> [Nat -> Nat]] :
        \A i \in 1 .. n, x \in Nat : step[i][x] = 2 * x + bits[i]
  <2> DEFINE s == [i \in 1 .. n |-> [x \in Nat |-> 2 * x + bits[i]]]
  <2>1. s \in [1 .. n -> [Nat -> Nat]]
    OBVIOUS
  <2>2. \A i \in 1 .. n, x \in Nat : s[i][x] = 2 * x + bits[i]
    OBVIOUS
  <2> HIDE DEF s
  <2> QED
    BY <2>1, <2>2
<1>2. 0 \in Nat
  OBVIOUS
<1>3. PICK f : Recurs(n, Nat, 0, step, f)
  BY <1>2, Recursion
<1>4. f \in [0 .. n -> Nat] /\ f[0] = 0
  BY <1>3 DEF Recurs
<1>5. ASSUME NEW i \in 1 .. n PROVE f[i] = 2 * f[i - 1] + bits[i]
  <2>1. i - 1 \in 0 .. n
    OBVIOUS
  <2>2. f[i] = step[i][f[i - 1]]
    BY <1>3 DEF Recurs
  <2> QED
    BY <1>1, <1>4, <2>1, <2>2
<1>6. f = [i \in 0 .. n |-> IF i = 0 THEN 0 ELSE 2 * f[i - 1] + bits[i]]
  BY <1>4, <1>5
<1> QED
  BY <1>6 DEF Reads

(* Number reads what Bits has written.                                     *)
LEMMA NumberOfBits ==
    ASSUME NEW w \in 1 .. 7, NEW n \in Nat, n < 2^w
    PROVE  /\ Compressor!Bits(n, w) \in Seq(Nat)
           /\ Len(Compressor!Bits(n, w)) = w
           /\ Number(Compressor!Bits(n, w)) = n
<1> DEFINE bits == Compressor!Bits(n, w)
<1>1. bits = [i \in 1 .. w |-> (n \div 2^(w - i)) % 2]
  BY DEF Compressor!Bits
<1>2. ASSUME NEW i \in 1 .. w
      PROVE  /\ 2^(w - i) \in {1, 2, 4, 8, 16, 32, 64}
             /\ 2^(w - (i - 1)) = 2 * 2^(w - i)
             /\ bits[i] = (n \div 2^(w - i)) % 2
             /\ bits[i] \in Nat
  <2>1. w - i \in 0 .. 6 /\ w - (i - 1) = (w - i) + 1
    OBVIOUS
  <2>2. 2^(w - i) \in {1, 2, 4, 8, 16, 32, 64} /\ 2^(w - (i - 1)) = 2 * 2^(w - i)
    BY <2>1, PowerDoubles
  <2>3. bits[i] = (n \div 2^(w - i)) % 2
    BY <1>1
  <2>4. (n \div 2^(w - i)) % 2 \in Nat
    BY <2>2
  <2> QED
    BY <2>2, <2>3, <2>4
<1>3. bits \in [1 .. w -> Nat] /\ bits \in Seq(Nat) /\ Len(bits) = w
  <2>1. bits = [i \in 1 .. w |-> bits[i]]
    BY <1>1
  <2> HIDE DEF bits
  <2>2. bits \in [1 .. w -> Nat]
    BY <1>2, <2>1
  <2> QED
    BY <2>2
<1> HIDE DEF bits
<1> DEFINE whole == CHOOSE f : Reads(w, bits, f)
<1>4. Reads(w, bits, whole)
  <2>1. \E f : Reads(w, bits, f)
    BY <1>3, ReadingExists
  <2> QED
    BY <2>1
<1>5. Number(bits) = whole[w]
  BY <1>3 DEF Number, Reads
<1> HIDE DEF whole
<1> DEFINE P == {i \in 0 .. w : whole[i] = n \div 2^(w - i)}
<1>6. 0 \in P
  <2>1. whole[0] = 0
    BY <1>4 DEF Reads
  <2>2. 2^w \in Nat
    <3>1. w - 1 \in 0 .. 6 /\ (w - 1) + 1 = w
      OBVIOUS
    <3>2. 2^(w - 1) \in {1, 2, 4, 8, 16, 32, 64} /\ 2^((w - 1) + 1) = 2 * 2^(w - 1)
      BY <3>1, PowerDoubles
    <3> QED
      BY <3>1, <3>2
  <2>3. n \div 2^w = 0
    BY <2>2
  <2>4. w - 0 = w
    OBVIOUS
  <2> QED
    BY <2>1, <2>3, <2>4
<1>7. ASSUME NEW i \in 1 .. w, i - 1 \in P PROVE i \in P
  <2>1. whole[i] = 2 * whole[i - 1] + bits[i]
    BY <1>4 DEF Reads
  <2>2. whole[i - 1] = n \div 2^(w - (i - 1))
    BY <1>7
  <2>3. n \div 2^(w - i) = 2 * (n \div (2 * 2^(w - i))) + ((n \div 2^(w - i)) % 2)
    BY <1>2, LastBit
  <2> QED
    BY <1>2, <2>1, <2>2, <2>3
<1>8. w \in P
  <2>1. 0 .. w \subseteq P
    <3> HIDE DEF P
    <3> QED
      BY <1>6, <1>7, UpTo
  <2> HIDE DEF P
  <2> QED
    BY <2>1
<1>9. w - w = 0 /\ n \div 1 = n
  OBVIOUS
<1>10. whole[w] = n
  BY <1>8, <1>9, Powers
<1> QED
  BY <1>3, <1>5, <1>10 DEF bits

(* Larger exponents have larger powers.                                    *)
LEMMA PowersGrow ==
    ASSUME NEW b \in 0 .. 7
    PROVE  2^b \in Nat /\ \A a \in 0 .. b : 2^a \in Nat /\ 2^a <= 2^b
<1> DEFINE Good(k) == 2^k \in Nat /\ \A a \in 0 .. k : 2^a \in Nat /\ 2^a <= 2^k
           P == {k \in 0 .. 7 : Good(k)}
<1>1. 0 \in P
  <2>1. 2^0 \in Nat /\ 2^0 <= 2^0
    <3>1. 2^0 = 1
      BY Powers
    <3> QED
      BY <3>1
  <2>2. ASSUME NEW a \in 0 .. 0 PROVE 2^a \in Nat /\ 2^a <= 2^0
    <3>1. a = 0
      OBVIOUS
    <3> QED
      BY <2>1, <3>1
  <2>3. Good(0)
    BY <2>1, <2>2, Zenon
  <2> HIDE DEF Good
  <2> QED
    BY <2>3
<1>2. ASSUME NEW k \in 1 .. 7, k - 1 \in P PROVE k \in P
  <2>1. k - 1 \in 0 .. 6 /\ k = (k - 1) + 1
    OBVIOUS
  <2>2. 2^k = 2 * 2^(k - 1)
    BY <2>1, PowerDoubles
  <2>3. 2^(k - 1) \in Nat /\ \A a \in 0 .. k - 1 : 2^a \in Nat /\ 2^a <= 2^(k - 1)
    BY <1>2
  <2>4. 2^k \in Nat /\ 2^(k - 1) <= 2^k
    BY <2>2, <2>3
  <2>5. ASSUME NEW a \in 0 .. k PROVE 2^a \in Nat /\ 2^a <= 2^k
    <3>1. CASE a = k
      BY <2>4, <3>1
    <3>2. CASE a # k
      <4>1. a \in 0 .. k - 1
        BY <3>2
      <4> QED
        BY <2>3, <2>4, <4>1
    <3> QED
      BY <3>1, <3>2
  <2> QED
    BY <2>4, <2>5
<1>3. 0 .. 7 \subseteq P
  <2> HIDE DEF P
  <2> QED
    BY <1>1, <1>2, UpTo
<1> HIDE DEF Good
<1>4. Good(b)
  BY <1>3
<1> QED
  BY <1>4 DEF Good

(* The parser of the residue takes as many bits for an index as the writer *)
(* has taken, if the target values are at most 128.                        *)
LEMMA IndexWidth ==
    ASSUME NEW len \in 1 .. 128
    PROVE  \E w \in 1 .. 7 :
             /\ len <= 2^w
             /\ Compressor!value_size_in_bits(len - 1) = w
             /\ w = CHOOSE b \in 1 .. 7 : 2^b >= len /\ (b = 1 \/ 2^(b - 1) < len)
<1>1. PICK w \in 1 .. 7 : len <= 2^w /\ (w = 1 \/ 2^(w - 1) < len)
  <2>1. CASE len <= 2
    BY <2>1, Powers
  <2>2. CASE len > 2 /\ len <= 4
    BY <2>2, Powers
  <2>3. CASE len > 4 /\ len <= 8
    BY <2>3, Powers
  <2>4. CASE len > 8 /\ len <= 16
    BY <2>4, Powers
  <2>5. CASE len > 16 /\ len <= 32
    BY <2>5, Powers
  <2>6. CASE len > 32 /\ len <= 64
    BY <2>6, Powers
  <2>7. CASE len > 64
    BY <2>7, Powers
  <2> QED
    BY <2>1, <2>2, <2>3, <2>4, <2>5, <2>6, <2>7
<1>2. ASSUME NEW a \in 1 .. w - 1 PROVE 2^a \in Nat /\ len - 1 >= 2^a
  <2>1. a \in 0 .. w - 1 /\ w - 1 \in 0 .. 7 /\ w # 1
    OBVIOUS
  <2>2. 2^a \in Nat /\ 2^(w - 1) \in Nat /\ 2^a <= 2^(w - 1)
    BY <2>1, PowersGrow
  <2> QED
    BY <1>1, <2>1, <2>2
<1>3. 2^w \in Nat
  <2>1. w \in 0 .. 7
    OBVIOUS
  <2> QED
    BY <2>1, PowersGrow
<1>4. Compressor!value_size_in_bits(len - 1) = w
  <2> DEFINE Is(b) == len - 1 < 2^b /\ \A a \in 1 .. b - 1 : len - 1 >= 2^a
  <2>1. w \in 1 .. 16 /\ Is(w)
    BY <1>1, <1>2, <1>3
  <2>2. ASSUME NEW c \in 1 .. 16, Is(c) PROVE c = w
    <3>1. CASE c < w
      <4>1. c \in 1 .. w - 1
        BY <3>1
      <4> QED
        BY <1>2, <2>2, <4>1
    <3>2. CASE c > w
      <4>1. w \in 1 .. c - 1
        BY <3>2
      <4>2. len - 1 >= 2^w
        BY <2>2, <4>1
      <4> QED
        BY <1>1, <1>3, <4>2
    <3> QED
      BY <3>1, <3>2
  <2>3. Compressor!value_size_in_bits(len - 1) = CHOOSE b \in 1 .. 16 : Is(b)
    BY DEF Compressor!value_size_in_bits
  <2> HIDE DEF Is
  <2> QED
    BY <2>1, <2>2, <2>3
<1>5. w = CHOOSE b \in 1 .. 7 : 2^b >= len /\ (b = 1 \/ 2^(b - 1) < len)
  <2> DEFINE Is(b) == 2^b >= len /\ (b = 1 \/ 2^(b - 1) < len)
  <2>1. Is(w)
    BY <1>1, <1>3
  <2>2. ASSUME NEW c \in 1 .. 7, Is(c) PROVE c = w
    <3>1. c \in 0 .. 7 /\ w \in 0 .. 7
      OBVIOUS
    <3>2. 2^c \in Nat
      BY <3>1, PowersGrow
    <3>3. CASE c < w
      <4>1. c \in 1 .. w - 1
        BY <3>3
      <4>2. len - 1 >= 2^c
        BY <1>2, <4>1
      <4> QED
        BY <2>2, <3>2, <4>2
    <3>4. CASE c > w
      <4>1. c - 1 \in 0 .. 7 /\ w \in 0 .. c - 1 /\ c # 1
        BY <3>4
      <4>2. 2^(c - 1) \in Nat /\ 2^w <= 2^(c - 1)
        BY <3>1, <4>1, PowersGrow
      <4> QED
        BY <1>1, <1>3, <2>2, <4>1, <4>2
    <3> QED
      BY <3>3, <3>4
  <2> HIDE DEF Is
  <2>3. w = CHOOSE b \in 1 .. 7 : Is(b)
    BY <2>1, <2>2
  <2> QED
    BY <2>3 DEF Is
<1> QED
  BY <1>1, <1>4, <1>5

(* The index that match-mapping finds is where the value is.               *)
LEMMA IndexFinds ==
    ASSUME NEW entry, NEW field, entry.tv \in Seq(Binary)
    PROVE  LET index == Compressor!MappingIndex(entry, field)
           IN  /\ index \in Int
               /\ index >= 0 /\ Len(entry.tv) <= 128 =>
                    /\ index + 1 \in 1 .. Len(entry.tv)
                    /\ entry.tv[index + 1] = field.value
<1> DEFINE at == {j \in DOMAIN entry.tv : entry.tv[j] = field.value}
           index == Compressor!MappingIndex(entry, field)
           byte == (Compressor!First(at) - 1) % 256
<1>1. DOMAIN entry.tv = 1 .. Len(entry.tv) /\ Len(entry.tv) \in Nat
  OBVIOUS
<1>2. index = IF at = {} THEN -1 ELSE IF byte > 127 THEN byte - 256 ELSE byte
  BY Zenon DEF Compressor!MappingIndex
<1>3. CASE at = {}
  BY <1>2, <1>3
<1>4. CASE at # {}
  <2>1. at \in SUBSET Nat
    BY <1>1
  <2>2. Compressor!First(at) \in at
    <3> HIDE DEF at
    <3> QED
      BY <1>4, <2>1, FirstIsLeast
  <2> DEFINE first == Compressor!First(at)
  <2>3. first \in 1 .. Len(entry.tv) /\ entry.tv[first] = field.value
    BY <1>1, <2>2
  <2>4. byte = (first - 1) % 256
    OBVIOUS
  <2>5. index = IF byte > 127 THEN byte - 256 ELSE byte
    BY <1>2, <1>4
  <2> HIDE DEF first, byte, index
  <2>6. byte \in 0 .. 255
    BY <2>3, <2>4
  <2>7. Len(entry.tv) <= 128 => index = first - 1
    BY <1>1, <2>3, <2>4, <2>5
  <2>8. index \in Int
    BY <2>5, <2>6
  <2>9. index >= 0 /\ Len(entry.tv) <= 128 =>
          index + 1 \in 1 .. Len(entry.tv) /\ entry.tv[index + 1] = field.value
    BY <1>1, <2>3, <2>7
  <2> QED
    BY <2>8, <2>9 DEF index
<1> QED
  BY <1>3, <1>4

-----------------------------------------------------------------------------
(* What an entry sends, and what it gives back.                            *)

(* The operators of the libraries are the same in SCHCCompressor and here. *)
LEMMA SameOperators ==
    ASSUME NEW x
    PROVE  /\ Compressor!Cardinality(x) = Cardinality(x)
           /\ Compressor!FlattenSeq(x) = FlattenSeq(x)
<1>1. Compressor!Cardinality(x) = Cardinality(x)
  BY DEF Compressor!Cardinality, Cardinality
<1>2. Compressor!FlattenSeq(x) = FlattenSeq(x)
  BY DEF Compressor!FlattenSeq, FlattenSeq
<1> QED
  BY <1>1, <1>2

(* A field is what the parser has made of its bits on the wire.            *)
FieldHeld(field) ==
    \E bits \in Binary :
      /\ field.value = Compressor!normalize_extracted_value(bits)
      /\ field.bit_length = Len(bits)

(* A field of whole bytes is kept as it is on the wire.                    *)
LEMMA FieldBinary ==
    ASSUME NEW field, FieldHeld(field)
    PROVE  /\ field.bit_length \in Nat
           /\ field.bit_length % 8 = 0 =>
                field.value \in Binary /\ Len(field.value) = field.bit_length
<1>1. PICK bits \in Binary :
        /\ field.value = Compressor!normalize_extracted_value(bits)
        /\ field.bit_length = Len(bits)
  BY DEF FieldHeld
<1>2. bits \in Seq({0, 1}) /\ Len(bits) \in Nat
  BY DEF Binary
<1>3. ASSUME field.bit_length % 8 = 0 PROVE field.value = bits
  <2>1. (8 - (Len(bits) % 8)) % 8 = 0
    BY <1>1, <1>2, <1>3
  <2>2. Compressor!Zeros(0) = <<>>
    BY DEF Compressor!Zeros
  <2>3. <<>> \o bits = bits
    BY <1>2, ConcatEmptySeq
  <2> QED
    BY <1>1, <2>1, <2>2, <2>3 DEF Compressor!normalize_extracted_value
<1> QED
  BY <1>1, <1>2, <1>3

(* The entry has bits of the length that the reference expects, and they   *)
(* are enough to know the field.                                           *)
GivesBack(entry, bits) ==
    LET value == Compressor!FieldOf(entry.fid).value
    IN  /\ bits \in Seq(Nat)
        /\ Len(bits) = SentLength(entry)
        /\ entry.cda = "not-sent" => entry.tv[1] = value
        /\ entry.cda = "value-sent" => bits = value
        /\ entry.cda = "mapping-sent" => entry.tv[Number(bits) + 1] = value
        /\ entry.cda = "lsb" => SubSeq(entry.tv[1], 1, entry.msb) \o bits = value

(* An entry that sends nothing: its target value is the value, or the      *)
(* value is computed.                                                      *)
LEMMA NotSent ==
    ASSUME NEW entries, NEW i, NEW garbage,
           entries[i].cda \in {"not-sent", "compute"},
           Sound(entries[i]), Compressor!Matches(entries[i])
    PROVE  GivesBack(entries[i], Compressor!Sent(entries, i, garbage))
<1> DEFINE entry == entries[i]
<1>1. Compressor!Sent(entries, i, garbage) = <<>>
  BY DEF Compressor!Sent
<1>2. SentLength(entry) = 0
  BY DEF SentLength
<1>3. <<>> \in Seq(Nat) /\ Len(<<>>) = 0
  OBVIOUS
<1>4. entry.cda = "not-sent" => entry.mo = "equal"
  BY DEF Sound
<1>5. entry.mo = "equal" => entry.tv[1] = Compressor!FieldOf(entry.fid).value
  BY DEF Compressor!Matches
<1> QED
  BY <1>1, <1>2, <1>3, <1>4, <1>5 DEF GivesBack

(* An entry that sends the value.                                          *)
LEMMA ValueSent ==
    ASSUME NEW entries, NEW i, NEW garbage,
           entries[i].cda = "value-sent", Sound(entries[i]),
           FieldHeld(Compressor!FieldOf(entries[i].fid))
    PROVE  GivesBack(entries[i], Compressor!Sent(entries, i, garbage))
<1> DEFINE entry == entries[i]
           field == Compressor!FieldOf(entry.fid)
<1>1. field.bit_length % 8 = 0
  BY DEF Sound, WholeBytes
<1>2. /\ field.value \in Seq({0, 1}) /\ Len(field.value) = field.bit_length
      /\ field.bit_length \in Nat
  <2> HIDE DEF field
  <2> QED
    BY <1>1, FieldBinary DEF field, Binary
<1>3. Compressor!Sent(entries, i, garbage) = SubSeq(field.value, 1, field.bit_length)
  BY DEF Compressor!Sent
<1>4. SentLength(entry) = field.bit_length
  BY DEF SentLength
<1> HIDE DEF field
<1>5. SubSeq(field.value, 1, field.bit_length) = field.value
  BY <1>2, SubSeqFull
<1>6. field.value \in Seq(Nat)
  <2>1. {0, 1} \subseteq Nat
    OBVIOUS
  <2> QED
    BY <1>2, <2>1, SeqMonotonic
<1> QED
  BY <1>2, <1>3, <1>4, <1>5, <1>6 DEF GivesBack, field

(* An entry that sends the index of the value among its target values.     *)
LEMMA MappingSent ==
    ASSUME NEW entries, NEW i, NEW garbage,
           entries[i].cda = "mapping-sent", Sound(entries[i]),
           Compressor!Matches(entries[i]), entries[i].tv \in Seq(Binary),
           NEW index,
           index = Compressor!MappingIndex(entries[i],
                                           Compressor!FieldOf(entries[i].fid)),
           LET next == Cardinality({j \in Compressor!Indexed(entries) : j <= i})
           IN  next <= Len(ctx.indexMM) /\ ctx.indexMM[next] = index
    PROVE  GivesBack(entries[i], Compressor!Sent(entries, i, garbage))
<1> DEFINE entry == entries[i]
           field == Compressor!FieldOf(entry.fid)
           len == Len(entry.tv)
<1>1. entry.mo = "match-mapping" /\ len <= 128
  BY DEF Sound
<1>2. index >= 0
  BY <1>1 DEF Compressor!Matches
<1>3. index \in Int /\ index + 1 \in 1 .. len /\ entry.tv[index + 1] = field.value
  BY <1>1, <1>2, IndexFinds
<1>4. len \in 1 .. 128
  <2>1. len \in Nat
    OBVIOUS
  <2> HIDE DEF len
  <2> QED
    BY <1>1, <1>3, <2>1
<1>5. PICK w \in 1 .. 7 :
        /\ len <= 2^w
        /\ Compressor!value_size_in_bits(len - 1) = w
        /\ w = CHOOSE b \in 1 .. 7 : 2^b >= len /\ (b = 1 \/ 2^(b - 1) < len)
  <2> HIDE DEF len
  <2> QED
    BY <1>4, IndexWidth
<1>6. Compressor!Sent(entries, i, garbage) = Compressor!Bits(index, w)
  <2> DEFINE next == Cardinality({j \in Compressor!Indexed(entries) : j <= i})
  <2>1. next = Compressor!Cardinality({j \in Compressor!Indexed(entries) : j <= i})
    BY SameOperators
  <2>2. next <= Len(ctx.indexMM) /\ ctx.indexMM[next] = index
    OBVIOUS
  <2>3. (IF next <= Len(ctx.indexMM) THEN ctx.indexMM[next] ELSE garbage) = index
    BY <2>2
  <2> HIDE DEF next
  <2>4. Compressor!Sent(entries, i, garbage) =
          Compressor!Bits(IF next <= Len(ctx.indexMM) THEN ctx.indexMM[next] ELSE garbage,
                          Compressor!value_size_in_bits(Len(entries[i].tv) - 1))
    BY <2>1 DEF Compressor!Sent
  <2> QED
    BY <1>5, <2>3, <2>4
<1>7. SentLength(entry) = w
  BY <1>5 DEF SentLength
<1>8. index \in Nat /\ index < 2^w
  <2>1. w \in 0 .. 7
    OBVIOUS
  <2>2. 2^w \in Nat
    BY <2>1, PowersGrow
  <2> QED
    BY <1>2, <1>3, <1>4, <1>5, <2>2
<1>9. /\ Compressor!Bits(index, w) \in Seq(Nat)
      /\ Len(Compressor!Bits(index, w)) = w
      /\ Number(Compressor!Bits(index, w)) = index
  BY <1>8, NumberOfBits
<1> QED
  BY <1>3, <1>6, <1>7, <1>9 DEF GivesBack

(* Where the last bits of a field begin when at most 16 of them are kept.  *)
LEMMA CutPlaces ==
    ASSUME NEW w \in Nat, NEW m \in Nat, w - m \in 0 .. 16
    PROVE  /\ ~(w - m > 16)
           /\ (w - m) - (w - m) = 0
           /\ w - (w - m) + 1 = m + 1
OBVIOUS

(* An entry that sends the bits that were not matched.                     *)
LEMMA LsbSent ==
    ASSUME NEW entries, NEW i, NEW garbage,
           entries[i].cda = "lsb", Sound(entries[i]),
           Compressor!Matches(entries[i]), entries[i].tv \in Seq(Binary),
           entries[i].msb \in Nat,
           FieldHeld(Compressor!FieldOf(entries[i].fid))
    PROVE  GivesBack(entries[i], Compressor!Sent(entries, i, garbage))
<1> DEFINE entry == entries[i]
           field == Compressor!FieldOf(entry.fid)
           value == field.value
           width == field.bit_length
           msb == entry.msb
           first == SubSeq(entry.tv[1], 1, msb)
           rest == SubSeq(value, msb + 1, width)
<1>1. /\ entry.mo = "msb" /\ width % 8 = 0 /\ width - msb \in 0 .. 16
  BY DEF Sound, WholeBytes
<1>2. /\ value \in Seq({0, 1}) /\ Len(value) = width /\ width \in Nat
  <2> HIDE DEF field
  <2> QED
    BY <1>1, FieldBinary DEF field, Binary
<1>3. Compressor!msb_comparator(entry.tv[1], value, msb)
  BY <1>1 DEF Compressor!Matches
<1>4. first = SubSeq(value, 1, msb)
  BY <1>3 DEF Compressor!msb_comparator
<1>5. Compressor!Sent(entries, i, garbage) =
        Compressor!LeastSignificant(value, width - msb)
  BY DEF Compressor!Sent
<1>6. SentLength(entry) = width - msb
  BY DEF SentLength
<1>7. msb \in Nat
  OBVIOUS
<1> HIDE DEF value, width, msb, first, rest
<1>8. msb \in 0 .. width
  BY <1>1, <1>2, <1>7
<1>9. value \in Seq(Nat)
  <2>1. {0, 1} \subseteq Nat
    OBVIOUS
  <2> QED
    BY <1>2, <2>1, SeqMonotonic
<1>10. rest \in Seq(Nat) /\ Len(rest) = width - msb
  <2>1. \A j \in msb + 1 .. width : value[j] \in Nat
    BY <1>2, <1>8, <1>9
  <2>2. /\ rest \in Seq(Nat)
        /\ Len(rest) = IF msb + 1 <= width THEN width - (msb + 1) + 1 ELSE 0
    BY <1>2, <1>8, <2>1, SubSeqProperties DEF rest
  <2> QED
    BY <1>2, <1>8, <2>2
<1>11. Compressor!LeastSignificant(value, width - msb) = rest
  <2>1. Compressor!Zeros(0) = <<>>
    BY DEF Compressor!Zeros
  <2>2. /\ ~(width - msb > 16)
        /\ (width - msb) - (width - msb) = 0
        /\ width - (width - msb) + 1 = msb + 1
    <3>1. width - msb \in 0 .. 16
      BY <1>1
    <3>2. width \in Nat
      BY <1>2
    <3> QED
      BY <1>7, <3>1, <3>2, CutPlaces
  <2>3. Compressor!LeastSignificant(value, width - msb) =
          Compressor!Zeros(0) \o SubSeq(value, msb + 1, width)
    BY <1>2, <2>2 DEF Compressor!LeastSignificant
  <2>4. <<>> \o rest = rest
    BY <1>10, ConcatEmptySeq
  <2> QED
    BY <2>1, <2>3, <2>4 DEF rest
<1>12. first \o rest = value
  <2>1. 1 \in 1 .. Len(value) + 1 /\ msb \in 1 - 1 .. Len(value) /\ width \in msb .. Len(value)
    BY <1>2, <1>8
  <2>2. SubSeq(value, 1, msb) \o SubSeq(value, msb + 1, width) = SubSeq(value, 1, width)
    BY <1>9, <2>1, ConcatAdjacentSubSeq
  <2>3. SubSeq(value, 1, width) = value
    BY <1>2, <1>9, SubSeqFull
  <2> QED
    BY <1>4, <2>2, <2>3 DEF rest
<1> QED
  BY <1>5, <1>6, <1>10, <1>11, <1>12 DEF GivesBack, value, width, msb, first

-----------------------------------------------------------------------------
(* From a packet to its residue.                                           *)

LEMMA RulesAreTyped ==
    ASSUME StoreInv, NEW k \in 1 .. Len(rules)
    PROVE  LET entries == rules[k].entries
           IN  /\ Len(entries) \in Nat /\ DOMAIN entries = 1 .. Len(entries)
               /\ \A i \in 1 .. Len(entries) :
                    entries[i].msb \in Nat /\ entries[i].tv \in Seq(Binary)
<1> DEFINE entries == rules[k].entries
<1>1. rules[k] \in AllRules
  BY DEF StoreInv, StoreTyped
<1>2. RuleTyped(rules[k])
  BY <1>1, CompressionAssumption DEF AllRules
<1>3. /\ entries \in Seq(ToSet(entries))
      /\ \A e \in ToSet(entries) : e.msb \in Nat /\ e.tv \in Seq(Binary)
  BY <1>2 DEF RuleTyped
<1> HIDE DEF entries
<1>4. Len(entries) \in Nat /\ DOMAIN entries = 1 .. Len(entries)
  BY <1>3
<1>5. \A i \in 1 .. Len(entries) : entries[i] \in ToSet(entries)
  BY <1>4 DEF ToSet
<1> QED
  BY <1>3, <1>4, <1>5 DEF entries

(* The parser makes such fields of a packet.                               *)
LEMMA ParsedHeld ==
    ASSUME NEW packet \in Packets
    PROVE  \A i \in DOMAIN Compressor!parse_ipv6_udp_fields(packet) :
             FieldHeld(Compressor!parse_ipv6_udp_fields(packet)[i])
<1> DEFINE names == Compressor!FieldsOf(packet)
           Bits(fid) == Compressor!FieldBits(packet, fid)
           parsed == Compressor!parse_ipv6_udp_fields(packet)
<1>1. \A fid \in ToSet(names) : Bits(fid) \in Binary
  BY CompressionAssumption DEF PacketTyped
<1>2. parsed = [i \in DOMAIN names |->
                  [fid |-> names[i], bit_length |-> Len(Bits(names[i])),
                   value |-> Compressor!normalize_extracted_value(Bits(names[i]))]]
  BY DEF Compressor!parse_ipv6_udp_fields
<1> HIDE DEF names, Bits, parsed
<1>3. ASSUME NEW i \in DOMAIN parsed PROVE FieldHeld(parsed[i])
  <2>1. i \in DOMAIN names
    BY <1>2
  <2>2. Bits(names[i]) \in Binary
    BY <1>1, <2>1 DEF ToSet
  <2>3. /\ parsed[i].bit_length = Len(Bits(names[i]))
        /\ parsed[i].value =
             Compressor!normalize_extracted_value(Bits(names[i]))
    BY <1>2, <2>1
  <2> QED
    BY <2>2, <2>3 DEF FieldHeld
<1> QED
  BY <1>3 DEF parsed

(* st_mo() pushes an index for every entry that st_cda() takes one for.    *)
LEMMA PushedCollects ==
    ASSUME NEW entries, Len(entries) \in Nat,
           \A i \in 1 .. Len(entries) : entries[i].tv \in Seq(Binary)
    PROVE  LET n == Len(entries)
               took == {i \in 1 .. n : entries[i].mo = "match-mapping"}
               value == [i \in 1 .. n |->
                           Compressor!MappingIndex(entries[i],
                             Compressor!FieldOf(entries[i].fid))]
           IN  /\ value \in [1 .. n -> Int]
               /\ \E f : /\ Collects(n, took, value, f)
                         /\ Compressor!Pushed(entries) = f[n]
<1> DEFINE n == Len(entries)
           took == {i \in 1 .. n : entries[i].mo = "match-mapping"}
           Index(i) == Compressor!MappingIndex(entries[i],
                         Compressor!FieldOf(entries[i].fid))
           value == [i \in 1 .. n |-> Index(i)]
           Is(f) == f = [i \in 0 .. n |->
                           IF i = 0 THEN <<>>
                           ELSE IF entries[i].mo = "match-mapping"
                             THEN Append(f[i - 1], Index(i)) ELSE f[i - 1]]
<1>1. value \in [1 .. n -> Int] /\ n \in Nat
  <2>1. \A i \in 1 .. n : Index(i) \in Int
    BY IndexFinds
  <2> HIDE DEF Index
  <2> QED
    BY <2>1
<1>2. Compressor!Pushed(entries) = (CHOOSE f : Is(f))[n]
  BY Zenon DEF Compressor!Pushed
<1> HIDE DEF Index
<1>3. ASSUME NEW f PROVE Collects(n, took, value, f) <=> Is(f)
  <2> DEFINE a == [i \in 0 .. n |->
                     IF i = 0 THEN <<>>
                     ELSE IF i \in took THEN Append(f[i - 1], value[i])
                     ELSE f[i - 1]]
             b == [i \in 0 .. n |->
                     IF i = 0 THEN <<>>
                     ELSE IF entries[i].mo = "match-mapping"
                       THEN Append(f[i - 1], Index(i)) ELSE f[i - 1]]
  <2>1. ASSUME NEW i \in 0 .. n PROVE a[i] = b[i]
    <3>1. CASE i = 0
      BY <3>1
    <3>2. CASE i # 0
      <4>1. i \in 1 .. n
        BY <1>1, <3>2
      <4>2. (i \in took <=> entries[i].mo = "match-mapping") /\ value[i] = Index(i)
        BY <4>1
      <4> QED
        BY <3>2, <4>2
    <3> QED
      BY <3>1, <3>2
  <2>2. a = [i \in 0 .. n |-> a[i]] /\ b = [i \in 0 .. n |-> b[i]]
    OBVIOUS
  <2>3. a = b
    <3> HIDE DEF a, b
    <3> QED
      BY <2>1, <2>2
  <2>4. Collects(n, took, value, f) <=> f = a
    BY Zenon DEF Collects
  <2> QED
    BY <2>3, <2>4
<1> HIDE DEF value, took, Is, n
<1>4. \E f : Is(f)
  BY <1>1, <1>3, CollectionExists
<1>5. Is(CHOOSE f : Is(f))
  BY <1>4
<1>6. /\ value \in [1 .. n -> Int]
      /\ \E f : Collects(n, took, value, f) /\ Compressor!Pushed(entries) = f[n]
  BY <1>1, <1>2, <1>3, <1>5
<1> QED
  BY <1>6 DEF value, took, n, Index

(* What the states rely on: the fields are those of a packet, the rule     *)
(* finds its fields and matches them, and the indexes are the rule's own.  *)
Pieces(garbage) ==
    [i \in DOMAIN Compressor!Selected.entries |->
       Compressor!Sent(Compressor!Selected.entries, i, garbage)]

ResidueInv ==
    /\ ctx.arrived => ctx.raw \in Packets
    /\ \A i \in DOMAIN ctx.fields : FieldHeld(ctx.fields[i])
    /\ state_ \in {"MO", "CDA", "GEN"} =>
         Compressor!HasFields(Compressor!Selected.entries)
    /\ state_ \in {"CDA", "GEN"} =>
         /\ Compressor!Mismatches = {}
         /\ ctx.indexMM = Compressor!Pushed(Compressor!Selected.entries)
    /\ state_ = "GEN" =>
         \E garbage : ctx.residue = Compressor!FlattenSeq(Pieces(garbage))

(* The index that a mapping-sent entry takes is the one it has pushed.     *)
LEMMA IndexTaken ==
    ASSUME NEW entries, Len(entries) \in Nat, DOMAIN entries = 1 .. Len(entries),
           \A i \in 1 .. Len(entries) : entries[i].tv \in Seq(Binary),
           \A i \in DOMAIN entries : Sound(entries[i]),
           ctx.indexMM = Compressor!Pushed(entries),
           NEW i \in DOMAIN entries, entries[i].cda = "mapping-sent"
    PROVE  LET next == Cardinality({j \in Compressor!Indexed(entries) : j <= i})
           IN  /\ next <= Len(ctx.indexMM)
               /\ ctx.indexMM[next] =
                    Compressor!MappingIndex(entries[i],
                                            Compressor!FieldOf(entries[i].fid))
<1> DEFINE n == Len(entries)
           took == {j \in 1 .. n : entries[j].mo = "match-mapping"}
           Index(j) == Compressor!MappingIndex(entries[j],
                         Compressor!FieldOf(entries[j].fid))
           value == [j \in 1 .. n |-> Index(j)]
           next == Count(took, i)
<1>1. took = Compressor!Indexed(entries)
  <2>1. \A j \in 1 .. n :
          entries[j].mo = "match-mapping" <=> entries[j].cda = "mapping-sent"
    BY DEF Sound
  <2> QED
    BY <2>1 DEF Compressor!Indexed
<1>2. took \in SUBSET (1 .. n) /\ i \in took
  BY <1>1 DEF Compressor!Indexed
<1>3. /\ value \in [1 .. n -> Int]
      /\ \E f : Collects(n, took, value, f) /\ Compressor!Pushed(entries) = f[n]
  BY PushedCollects
<1>4. value[i] = Index(i)
  BY <1>2
<1> HIDE DEF took, value, n, Index
<1>5. PICK f : Collects(n, took, value, f) /\ Compressor!Pushed(entries) = f[n]
  BY <1>3
<1>6. next \in 1 .. Len(f[n]) /\ f[n][next] = value[i]
  <2>1. n \in Nat
    BY DEF n
  <2> QED
    BY <1>2, <1>3, <1>5, <2>1, Collected
<1>7. next <= Len(ctx.indexMM) /\ ctx.indexMM[next] = Index(i)
  <2> HIDE DEF next
  <2> QED
    BY <1>4, <1>5, <1>6
<1> QED
  BY <1>1, <1>7 DEF Index, Count

(* Whatever its action is, a sound entry of the selected rule.             *)
LEMMA EntriesGiveBack ==
    ASSUME StoreInv, CtxTyped, StateRelies, ResidueInv, state_ = "GEN",
           \A i \in DOMAIN Compressor!Selected.entries :
             Sound(Compressor!Selected.entries[i]),
           NEW garbage, NEW i \in DOMAIN Compressor!Selected.entries
    PROVE  GivesBack(Compressor!Selected.entries[i],
                     Compressor!Sent(Compressor!Selected.entries, i, garbage))
<1> DEFINE entries == Compressor!Selected.entries
<1>1. ctx.selected \in 1 .. Len(rules)
  BY DEF CtxTyped, StateRelies, Pointers
<1>2. /\ Len(entries) \in Nat /\ DOMAIN entries = 1 .. Len(entries)
      /\ \A j \in 1 .. Len(entries) :
           entries[j].msb \in Nat /\ entries[j].tv \in Seq(Binary)
  BY <1>1, RulesAreTyped DEF Compressor!Selected
<1>3. /\ Compressor!HasFields(entries)
      /\ Compressor!Mismatches = {}
      /\ ctx.indexMM = Compressor!Pushed(entries)
      /\ \A j \in DOMAIN ctx.fields : FieldHeld(ctx.fields[j])
  BY DEF ResidueInv
<1>4. Compressor!Matches(entries[i])
  BY <1>3 DEF Compressor!Mismatches
<1> HIDE DEF entries
<1>5. FieldHeld(Compressor!FieldOf(entries[i].fid))
  <2>1. entries[i].fid \in Compressor!Parsed
    BY <1>3 DEF Compressor!HasFields, entries
  <2>2. PICK j \in DOMAIN ctx.fields : ctx.fields[j].fid = entries[i].fid
    BY <2>1 DEF Compressor!Parsed
  <2> DEFINE k == CHOOSE k \in DOMAIN ctx.fields : ctx.fields[k].fid = entries[i].fid
  <2>3. k \in DOMAIN ctx.fields
    BY <2>2
  <2>4. Compressor!FieldOf(entries[i].fid) = ctx.fields[k]
    BY DEF Compressor!FieldOf
  <2> HIDE DEF k
  <2> QED
    BY <1>3, <2>3, <2>4
<1>6. Sound(entries[i]) /\ i \in 1 .. Len(entries)
  BY <1>2 DEF entries
<1>7. CASE entries[i].cda \in {"not-sent", "compute"}
  BY <1>4, <1>6, <1>7, NotSent DEF entries
<1>8. CASE entries[i].cda = "value-sent"
  BY <1>5, <1>6, <1>8, ValueSent DEF entries
<1>9. CASE entries[i].cda = "lsb"
  BY <1>2, <1>4, <1>5, <1>6, <1>9, LsbSent DEF entries
<1>10. CASE entries[i].cda = "mapping-sent"
  <2> DEFINE next == Cardinality({j \in Compressor!Indexed(entries) : j <= i})
             index == Compressor!MappingIndex(entries[i],
                                              Compressor!FieldOf(entries[i].fid))
  <2>1. next <= Len(ctx.indexMM) /\ ctx.indexMM[next] = index
    BY <1>2, <1>3, <1>10, IndexTaken DEF entries
  <2> QED
    BY <1>2, <1>4, <1>6, <1>10, <2>1, MappingSent DEF entries
<1>11. entries[i].cda \in {"not-sent", "compute", "value-sent", "lsb", "mapping-sent"}
  BY <1>6 DEF Sound
<1> QED
  BY <1>7, <1>8, <1>9, <1>10, <1>11

(* A state with these has a residue that gives the fields back.            *)
LEMMA ResidueGivesBack ==
    ASSUME StoreInv, CtxTyped, StateRelies, ResidueInv
    PROVE  ResidueRestores
<1> DEFINE entries == Compressor!Selected.entries
           n == Len(entries)
<1> SUFFICES ASSUME state_ = "GEN", \A i \in DOMAIN entries : Sound(entries[i]),
                    NEW i \in DOMAIN entries, entries[i].cda # "compute"
             PROVE  Restored(entries, i) = Compressor!FieldOf(entries[i].fid).value
  BY DEF ResidueRestores, Compressor!Selected
<1>1. PICK garbage : ctx.residue = Compressor!FlattenSeq(Pieces(garbage))
  BY DEF ResidueInv
<1> DEFINE pieces == Pieces(garbage)
           ends == SentEnds(entries)
<1>2. ctx.selected \in 1 .. Len(rules)
  BY DEF CtxTyped, StateRelies, Pointers
<1>3. n \in Nat /\ DOMAIN entries = 1 .. n
  BY <1>2, RulesAreTyped DEF Compressor!Selected
<1>4. ASSUME NEW j \in 1 .. n
      PROVE  pieces[j] = Compressor!Sent(entries, j, garbage) /\ GivesBack(entries[j], pieces[j])
  <2>1. pieces[j] = Compressor!Sent(entries, j, garbage)
    BY <1>3 DEF Pieces
  <2>2. GivesBack(entries[j], Compressor!Sent(entries, j, garbage))
    BY <1>3, EntriesGiveBack
  <2> QED
    BY <2>1, <2>2
<1>5. ASSUME NEW j \in 1 .. n
      PROVE  /\ pieces[j] \in Seq(Nat) /\ Len(pieces[j]) = SentLength(entries[j])
             /\ SentLength(entries[j]) \in Nat
  <2>1. pieces[j] \in Seq(Nat) /\ Len(pieces[j]) = SentLength(entries[j])
    BY <1>4 DEF GivesBack
  <2>2. Len(pieces[j]) \in Nat
    BY <2>1
  <2> QED
    BY <2>1, <2>2
<1>6. pieces = [j \in 1 .. n |-> pieces[j]]
  BY <1>3 DEF Pieces
<1> HIDE DEF pieces, entries, n, ends
<1>7. /\ pieces \in Seq(Seq(Nat)) /\ Len(pieces) = n /\ i \in 1 .. n
      /\ pieces \in [1 .. n -> Seq(Nat)] /\ pieces # <<>>
  <2>1. pieces \in [1 .. n -> Seq(Nat)]
    BY <1>5, <1>6
  <2>2. pieces \in Seq(Seq(Nat)) /\ Len(pieces) = n
    BY <1>3, <2>1
  <2>3. i \in 1 .. n
    BY <1>3
  <2>4. Len(<<>>) = 0 /\ n # 0
    BY <1>3, <2>3
  <2> QED
    BY <2>1, <2>2, <2>3, <2>4
<1>8. PICK f : Joins(n, pieces, f) /\ FlattenSeq(pieces) = f[n]
  BY <1>7, FlattenJoins
<1>9. EndOf(n, pieces, ends)
  <2>1. \A j \in 1 .. Len(entries) : SentLength(entries[j]) \in Nat
    BY <1>5 DEF n
  <2>2. /\ ends[0] = 0
        /\ \A j \in 1 .. n : ends[j] = ends[j - 1] + SentLength(entries[j])
        /\ ends \in [0 .. n -> Nat]
    BY <1>3, <2>1, EndsAdd DEF ends, n
  <2> QED
    BY <1>5, <2>2 DEF EndOf
<1>10. SubSeq(ctx.residue, ends[i - 1] + 1, ends[i]) = pieces[i]
  <2>1. ctx.residue = f[n]
    BY <1>1, <1>8, SameOperators DEF pieces
  <2>2. Cuts(n, pieces, ends, f[n])
    <3>1. n \in Nat /\ pieces \in [1 .. n -> Seq(Nat)]
      BY <1>3, <1>7
    <3>2. Joins(n, pieces, f) /\ EndOf(n, pieces, ends)
      BY <1>8, <1>9
    <3> QED
      BY <3>1, <3>2, JoinedPieces
  <2> QED
    BY <1>7, <2>1, <2>2 DEF Cuts
<1>11. GivesBack(entries[i], pieces[i])
  BY <1>4, <1>7
<1>12. Restored(entries, i) =
         CASE entries[i].cda = "not-sent" -> entries[i].tv[1]
           [] entries[i].cda = "value-sent" -> pieces[i]
           [] entries[i].cda = "mapping-sent" -> entries[i].tv[Number(pieces[i]) + 1]
           [] entries[i].cda = "lsb" ->
                SubSeq(entries[i].tv[1], 1, entries[i].msb) \o pieces[i]
  BY <1>10, Zenon DEF Restored, ends
<1>13. entries[i].cda \in {"not-sent", "value-sent", "lsb", "mapping-sent"}
  BY DEF Sound, entries
<1>14. CASE entries[i].cda = "not-sent"
  BY <1>11, <1>12, <1>14 DEF GivesBack
<1>15. CASE entries[i].cda = "value-sent"
  BY <1>11, <1>12, <1>15 DEF GivesBack
<1>16. CASE entries[i].cda = "mapping-sent"
  BY <1>11, <1>12, <1>16 DEF GivesBack
<1>17. CASE entries[i].cda = "lsb"
  BY <1>11, <1>12, <1>17 DEF GivesBack
<1> QED
  BY <1>13, <1>14, <1>15, <1>16, <1>17 DEF entries

-----------------------------------------------------------------------------
(* The invariant.                                                          *)

(* What matching and sending come to depends on nothing but the rule, the  *)
(* fields and, for sending, the indexes.                                   *)
LEMMA MatchingStays ==
    ASSUME ctx'.fields = ctx.fields, NEW entries
    PROVE  /\ Compressor!HasFields(entries)' <=> Compressor!HasFields(entries)
           /\ Compressor!Pushed(entries)' = Compressor!Pushed(entries)
           /\ \A i \in DOMAIN entries :
                Compressor!Matches(entries[i])' <=> Compressor!Matches(entries[i])
<1>1. Compressor!HasFields(entries)' <=> Compressor!HasFields(entries)
  BY DEF Compressor!HasFields, Compressor!Parsed
<1>2. ASSUME NEW fid PROVE Compressor!FieldOf(fid)' = Compressor!FieldOf(fid)
  BY DEF Compressor!FieldOf
<1>3. \A i \in DOMAIN entries :
        Compressor!Matches(entries[i])' <=> Compressor!Matches(entries[i])
  BY <1>2 DEF Compressor!Matches, Compressor!MappingIndex
<1>4. Compressor!Pushed(entries)' = Compressor!Pushed(entries)
  <2> DEFINE At(fields, fid) ==
               fields[CHOOSE i \in DOMAIN fields : fields[i].fid = fid]
             All(fields) ==
               LET pushed[i \in 0 .. Len(entries)] ==
                     IF i = 0 THEN <<>>
                     ELSE IF entries[i].mo = "match-mapping"
                       THEN Append(pushed[i - 1],
                                   Compressor!MappingIndex(entries[i],
                                     At(fields, entries[i].fid)))
                       ELSE pushed[i - 1]
               IN  pushed[Len(entries)]
  <2>1. /\ Compressor!Pushed(entries) = All(ctx.fields)
        /\ Compressor!Pushed(entries)' = All(ctx'.fields)
    BY Zenon DEF Compressor!Pushed, Compressor!FieldOf
  <2> HIDE DEF All
  <2> QED
    BY <2>1
<1> QED
  BY <1>1, <1>3, <1>4

(* What is sent depends on the fields and the indexes.                     *)
LEMMA SendingStays ==
    ASSUME ctx'.fields = ctx.fields, ctx'.indexMM = ctx.indexMM,
           NEW entries, NEW i, NEW garbage
    PROVE  Compressor!Sent(entries, i, garbage)' =
             Compressor!Sent(entries, i, garbage)
<1>1. ASSUME NEW fid PROVE Compressor!FieldOf(fid)' = Compressor!FieldOf(fid)
  BY DEF Compressor!FieldOf
<1> QED
  BY <1>1 DEF Compressor!Sent

(* The same of the selected rule, as long as it is the same.               *)
LEMMA SelectedStays ==
    ASSUME ctx'.fields = ctx.fields, ctx'.selected = ctx.selected, rules' = rules
    PROVE  /\ Compressor!HasFields(Compressor!Selected.entries)' <=>
                Compressor!HasFields(Compressor!Selected.entries)
           /\ Compressor!Mismatches' = Compressor!Mismatches
           /\ Compressor!Pushed(Compressor!Selected.entries)' =
                Compressor!Pushed(Compressor!Selected.entries)
           /\ ctx'.indexMM = ctx.indexMM =>
                \A garbage : Pieces(garbage)' = Pieces(garbage)
<1>1. Compressor!Selected' = Compressor!Selected
  BY DEF Compressor!Selected
<1>2. /\ Compressor!HasFields(Compressor!Selected.entries)' <=>
           Compressor!HasFields(Compressor!Selected.entries)
      /\ Compressor!Pushed(Compressor!Selected.entries)' =
           Compressor!Pushed(Compressor!Selected.entries)
  BY <1>1, MatchingStays
<1>3. Compressor!Mismatches' = Compressor!Mismatches
  BY <1>1, MatchingStays DEF Compressor!Mismatches
<1>4. ASSUME ctx'.indexMM = ctx.indexMM, NEW garbage
      PROVE  Pieces(garbage)' = Pieces(garbage)
  BY <1>1, <1>4, SendingStays DEF Pieces
<1> QED
  BY <1>2, <1>3, <1>4

(* After a step to a state that has no rule to compress with, only the     *)
(* packet and its fields count.                                            *)
LEMMA OutsideCompression ==
    ASSUME ResidueInv, state_' \in {"IDLE", "PARSE", "FIND_RULE", "NOCOMPRESS"},
           ctx'.arrived => ctx'.raw \in Packets, ctx'.fields = ctx.fields
    PROVE  ResidueInv'
BY DEF ResidueInv, FieldHeld

(* The invariant holds at first.                                           *)
LEMMA ResidueInitially == Init => ResidueInv
<1> SUFFICES ASSUME Init PROVE ResidueInv
  OBVIOUS
<1>1. ctx.arrived = FALSE /\ ctx.fields = <<>> /\ state_ = "IDLE"
  BY DEF Init, Compressor!CompInit, Compressor!NewCtx
<1>2. DOMAIN ctx.fields = {}
  BY <1>1
<1> QED
  BY <1>1, <1>2 DEF ResidueInv

(* The end of the program forgets everything.                              *)
LEMMA OffKeepsResidue ==
    ASSUME Off PROVE ResidueInv'
<1>1. ctx'.arrived = FALSE /\ ctx'.fields = <<>> /\ state_' = "IDLE"
  BY DEF Off, Compressor!NewCtx
<1>2. DOMAIN ctx'.fields = {}
  BY <1>1
<1> QED
  BY <1>1, <1>2 DEF ResidueInv

(* The menu, the creation of a rule and a new packet.                      *)
LEMMA MenuKeepsResidue ==
    ASSUME SearchInv, ResidueInv, Launch \/ ChoosesCreate \/ Creates \/ ReadsPacket
    PROVE  ResidueInv'
<1>1. state_' = state_ /\ state_ \in {"IDLE", "FIND_RULE"}
  BY DEF Launch, ChoosesCreate, Chooses, Creates, ReadsPacket, Manager!BeginRule,
         Compressor!PacketArrives, SearchInv, StateRelies, Fresh
<1>2. ctx'.fields = ctx.fields /\ (ctx'.arrived => ctx'.raw \in Packets)
  <2>1. DOMAIN ctx = CtxFields /\ (ctx.arrived => ctx.raw \in Packets)
    BY DEF SearchInv, CtxTyped, ResidueInv
  <2>2. CASE Launch \/ ChoosesCreate
    BY <2>1, <2>2 DEF Launch, ChoosesCreate
  <2>3. CASE Creates
    BY <2>1, <2>3 DEF Creates, CtxFields
  <2>4. CASE ReadsPacket
    BY <2>1, <2>4 DEF ReadsPacket, Compressor!PacketArrives, CtxFields
  <2> QED
    BY <2>2, <2>3, <2>4
<1> QED
  BY <1>1, <1>2, OutsideCompression

(* Nothing the compression relies on changes.                              *)
LEMMA ResidueStays ==
    ASSUME ResidueInv, ctx' = ctx, rules' = rules, state_' = state_ PROVE ResidueInv'
<1>1. /\ Compressor!HasFields(Compressor!Selected.entries)' <=>
           Compressor!HasFields(Compressor!Selected.entries)
      /\ Compressor!Mismatches' = Compressor!Mismatches
      /\ Compressor!Pushed(Compressor!Selected.entries)' =
           Compressor!Pushed(Compressor!Selected.entries)
      /\ \A garbage : Pieces(garbage)' = Pieces(garbage)
  BY SelectedStays
<1> QED
  BY <1>1 DEF ResidueInv, FieldHeld

(* st_find_rule() selects a rule that finds its fields.                    *)
LEMMA FindKeepsResidue ==
    ASSUME SearchInv, ResidueInv, Compressor!st_find_rule PROVE ResidueInv'
<1> DEFINE k == Compressor!First(Compressor!Candidates)
<1>1. /\ state_' = "MO" /\ rules' = rules /\ Compressor!Candidates # {}
      /\ ctx' = [ctx EXCEPT !.defRule = Compressor!DefaultFound,
                            !.selected = k, !.search = k]
  BY DEF Compressor!st_find_rule, Compressor!Enter, Compressor!Behind
<1>2. DOMAIN ctx = CtxFields /\ ctx.search \in Nat
  BY DEF SearchInv, CtxTyped
<1>3. k \in Compressor!Candidates
  <2>1. Compressor!Candidates \in SUBSET Nat
    BY <1>2 DEF Compressor!Candidates
  <2> QED
    BY <1>1, <2>1, FirstIsLeast
<1>4. Compressor!HasFields(rules[k].entries)
  BY <1>3 DEF Compressor!Candidates, Compressor!EntriesOf
<1> HIDE DEF k
<1>5. /\ ctx'.fields = ctx.fields /\ ctx'.selected = k
      /\ ctx'.raw = ctx.raw /\ ctx'.arrived = ctx.arrived
  BY <1>1, <1>2 DEF CtxFields
<1>6. Compressor!HasFields(Compressor!Selected.entries)'
  BY <1>1, <1>4, <1>5, MatchingStays DEF Compressor!Selected
<1> QED
  BY <1>1, <1>5, <1>6 DEF ResidueInv, FieldHeld

(* st_mo() passes a rule that matches, with its indexes.                   *)
LEMMA MoKeepsResidue ==
    ASSUME SearchInv, ResidueInv, Compressor!st_mo PROVE ResidueInv'
<1> DEFINE entries == Compressor!Selected.entries
<1>1. /\ state_ = "MO" /\ state_' = "CDA" /\ rules' = rules
      /\ Compressor!Mismatches = {}
      /\ ctx' = [ctx EXCEPT !.indexMM = <<>> \o Compressor!Pushed(entries)]
  BY DEF Compressor!st_mo, Compressor!Enter, Compressor!IndexesAtStart
<1>2. DOMAIN ctx = CtxFields /\ ctx.selected \in 1 .. Len(rules)
  BY <1>1 DEF SearchInv, CtxTyped, StateRelies, Pointers
<1>3. Compressor!Pushed(entries) \in Seq(Int)
  <2>1. /\ Len(entries) \in Nat
        /\ \A i \in 1 .. Len(entries) : entries[i].tv \in Seq(Binary)
    BY <1>2, RulesAreTyped DEF SearchInv, Compressor!Selected
  <2> HIDE DEF entries
  <2> DEFINE n == Len(entries)
             took == {i \in 1 .. n : entries[i].mo = "match-mapping"}
             value == [i \in 1 .. n |->
                         Compressor!MappingIndex(entries[i],
                           Compressor!FieldOf(entries[i].fid))]
  <2>2. /\ value \in [1 .. n -> Int]
        /\ \E f : Collects(n, took, value, f) /\ Compressor!Pushed(entries) = f[n]
    BY <2>1, PushedCollects
  <2> HIDE DEF took, value
  <2> QED
    BY <2>1, <2>2, CollectionTyped
<1>4. <<>> \o Compressor!Pushed(entries) = Compressor!Pushed(entries)
  BY <1>3, ConcatEmptySeq
<1>5. ctx' = [ctx EXCEPT !.indexMM = Compressor!Pushed(entries)]
  BY <1>1, <1>4
<1>6. /\ ctx'.fields = ctx.fields /\ ctx'.selected = ctx.selected
      /\ ctx'.raw = ctx.raw /\ ctx'.arrived = ctx.arrived
      /\ ctx'.indexMM = Compressor!Pushed(entries)
  <2> HIDE DEF entries
  <2> QED
    BY <1>2, <1>5 DEF CtxFields
<1>7. /\ Compressor!HasFields(Compressor!Selected.entries)'
      /\ Compressor!Mismatches' = {}
      /\ ctx'.indexMM = Compressor!Pushed(Compressor!Selected.entries)'
  BY <1>1, <1>6, SelectedStays DEF ResidueInv
<1> QED
  BY <1>1, <1>6, <1>7 DEF ResidueInv, FieldHeld

(* st_cda() puts the pieces of the entries together.                       *)
LEMMA CdaKeepsResidue ==
    ASSUME SearchInv, ResidueInv, Compressor!st_cda PROVE ResidueInv'
<1>1. state_ = "CDA" /\ state_' = "GEN" /\ rules' = rules
  BY DEF Compressor!st_cda, Compressor!Enter
<1>2. PICK garbage :
        ctx' = [ctx EXCEPT !.residue = Compressor!FlattenSeq(Pieces(garbage))]
  BY DEF Compressor!st_cda, Pieces
<1>3. DOMAIN ctx = CtxFields
  BY DEF SearchInv, CtxTyped
<1>4. /\ ctx'.fields = ctx.fields /\ ctx'.selected = ctx.selected
      /\ ctx'.raw = ctx.raw /\ ctx'.arrived = ctx.arrived
      /\ ctx'.indexMM = ctx.indexMM
      /\ ctx'.residue = Compressor!FlattenSeq(Pieces(garbage))
  BY <1>2, <1>3 DEF CtxFields
<1>5. /\ Compressor!HasFields(Compressor!Selected.entries)'
      /\ Compressor!Mismatches' = {}
      /\ ctx'.indexMM = Compressor!Pushed(Compressor!Selected.entries)'
      /\ Pieces(garbage)' = Pieces(garbage)
  BY <1>1, <1>4, SelectedStays DEF ResidueInv
<1>6. (\E g : ctx.residue = Compressor!FlattenSeq(Pieces(g)))'
  BY <1>4, <1>5
<1> QED
  BY <1>1, <1>4, <1>5, <1>6 DEF ResidueInv, FieldHeld

(* The other states of the machine leave the compression or are not in it. *)
LEMMA OthersKeepResidue ==
    ASSUME SearchInv, ResidueInv,
           \/ Compressor!st_idle \/ Compressor!st_parse
           \/ Compressor!FindDefaultRule \/ Compressor!FindNoRule
           \/ Compressor!MoRejects \/ Compressor!st_gen \/ Compressor!st_nocompress
    PROVE  ResidueInv'
<1>1. DOMAIN ctx = CtxFields
  BY DEF SearchInv, CtxTyped
<1> USE DEF Compressor!Enter
<1>2. CASE Compressor!st_parse
  <2> DEFINE parsed == Compressor!parse_ipv6_udp_fields(ctx.raw)
  <2>1. state_ = "PARSE" /\ state_' = "FIND_RULE"
    BY <1>2 DEF Compressor!st_parse
  <2>2. ctx.raw \in Packets
    BY <2>1 DEF SearchInv, StateRelies, ResidueInv
  <2>3. \A i \in DOMAIN parsed : FieldHeld(parsed[i])
    BY <2>2, ParsedHeld
  <2>4. ctx' = [ctx EXCEPT !.fields = parsed, !.began = ctx.search]
    BY <1>2 DEF Compressor!st_parse
  <2> HIDE DEF parsed
  <2>5. ctx'.fields = parsed /\ ctx'.raw = ctx.raw
    BY <1>1, <2>4 DEF CtxFields
  <2> QED
    BY <2>1, <2>2, <2>3, <2>5 DEF ResidueInv, FieldHeld
<1>3. CASE ~Compressor!st_parse
  <2>1. state_' \in {"IDLE", "PARSE", "FIND_RULE", "NOCOMPRESS"}
    BY <1>3 DEF Compressor!st_idle, Compressor!FindDefaultRule, Compressor!FindNoRule,
         Compressor!MoRejects, Compressor!st_gen, Compressor!st_nocompress
  <2>2. ctx'.fields = ctx.fields /\ ctx'.raw = ctx.raw
        /\ (ctx'.arrived => ctx.arrived)
    <3>1. CASE Compressor!st_idle \/ Compressor!FindDefaultRule \/ Compressor!FindNoRule
      BY <1>1, <3>1 DEF Compressor!st_idle, Compressor!FindDefaultRule,
           Compressor!FindNoRule, CtxFields
    <3>2. CASE Compressor!MoRejects
      <4>1. \E pushed, none : ctx' = [ctx EXCEPT !.indexMM = pushed, !.selected = none]
        BY <3>2 DEF Compressor!MoRejects
      <4> QED
        BY <1>1, <4>1 DEF CtxFields
    <3>3. CASE Compressor!st_gen
      <4>1. \E out : ctx' = [ctx EXCEPT !.out = out, !.arrived = FALSE]
        BY <3>3 DEF Compressor!st_gen
      <4> QED
        BY <1>1, <4>1 DEF CtxFields
    <3>4. CASE Compressor!st_nocompress
      <4> DEFINE whole == Compressor!WholePacket(ctx.raw)
      <4>1. \E id : ctx' = [ctx EXCEPT !.residue = whole, !.arrived = FALSE,
                                      !.out = [rule |-> id, residue |-> whole]]
        BY <3>4 DEF Compressor!st_nocompress
      <4> HIDE DEF whole
      <4> QED
        BY <1>1, <4>1 DEF CtxFields
    <3> QED
      BY <1>3, <3>1, <3>2, <3>3, <3>4
  <2>3. ctx'.arrived => ctx'.raw \in Packets
    BY <2>2 DEF ResidueInv
  <2> QED
    BY <2>1, <2>2, <2>3, OutsideCompression
<1> QED
  BY <1>2, <1>3

(* Every step of the program keeps the invariant.                          *)
LEMMA ResidueStep == SearchInv /\ ResidueInv /\ [Next]_vars => ResidueInv'
<1> SUFFICES ASSUME SearchInv, ResidueInv, [Next]_vars PROVE ResidueInv'
  OBVIOUS
<1>1. CASE Launch \/ ChoosesCreate \/ Creates \/ ReadsPacket
  BY <1>1, MenuKeepsResidue
<1>2. CASE Ends \/ Crashes
  BY <1>2, OffKeepsResidue DEF Ends, Crashes
<1>3. CASE ChoosesCompress \/ UNCHANGED vars
  BY <1>3, ResidueStays DEF ChoosesCompress, vars
<1>4. CASE Steps
  BY <1>4, FindKeepsResidue, MoKeepsResidue, CdaKeepsResidue, OthersKeepResidue
  DEF Steps, Compressor!StepPasses
<1> QED
  BY <1>1, <1>2, <1>3, <1>4 DEF Next

(* The residue of a packet, with the rule it was made by, gives back every *)
(* field that the rule sends or knows, whatever rules and packets there    *)
(* are and however many rules st_mo() has tried before: the indexes that   *)
(* it collects are the ones st_cda() sends, in their order and bits, if    *)
(* the actions of the rule go with its operators, its mappings have at     *)
(* most 128 values and what it sends of a field is whole bytes.            *)
THEOREM ResidueRestored == Spec => []ResidueRestores
<1>1. Init => ResidueInv
  BY ResidueInitially
<1>2. SearchInv /\ ResidueInv /\ [Next]_vars => ResidueInv'
  BY ResidueStep
<1>3. SearchInv /\ ResidueInv => ResidueRestores
  BY ResidueGivesBack DEF SearchInv
<1> QED
  BY <1>1, <1>2, <1>3, SearchInvariance, PTL DEF Spec

===============================================================================
