---------------------------- MODULE TextOpsProofs ----------------------------
(***************************************************************************)
(* Proofs about TextOps and TextLimits, for texts, requests and edits of   *)
(* any size.                                                               *)
(***************************************************************************)
EXTENDS TextOps, SequenceTheorems, WellFoundedInduction, TLAPS

-----------------------------------------------------------------------------
(* Numbers, and functions that are defined by recursion on them.           *)

LEMMA LeastNumber ==
    ASSUME NEW S \in SUBSET Nat, S # {}
    PROVE  \E n \in S : \A m \in S : n <= m
<1> DEFINE less == {ss \in Nat \X Nat : ss[1] < ss[2]}
<1>1. IsWellFoundedOn(less, Nat)
  BY NatLessThanWellFounded, Zenon DEF OpToRel
<1>2. \A i, j \in Nat : <<i, j>> \in less <=> i < j
  OBVIOUS
<1> HIDE DEF less
<1>3. PICK n \in S : \A m \in S : <<m, n>> \notin less
  BY <1>1, WFMin, Zenon
<1>4. ASSUME NEW m \in S PROVE n <= m
  <2>1. m \in Nat /\ n \in Nat
    OBVIOUS
  <2>2. ~ (m < n)
    BY <1>2, <1>3, <2>1, Zenon
  <2> QED
    BY <2>1, <2>2
<1> QED
  BY <1>4

(* The maximum of a set of numbers without gaps to worry about: it exists. *)
LEMMA MaxBelow ==
    ASSUME NEW a \in Int, NEW b \in Int, NEW S \in SUBSET (a .. b), S # {}
    PROVE  Max(S) \in S /\ \A y \in S : Max(S) >= y
<1> DEFINE below == {n \in 0 .. b - a : b - n \in S}
<1>1. ASSUME NEW x \in S PROVE x \in Int /\ b - x \in below
  <2>1. x \in a .. b
    OBVIOUS
  <2>2. b - x \in 0 .. b - a /\ b - (b - x) = x
    BY <2>1
  <2>3. b - (b - x) \in S
    BY <2>2, Zenon
  <2> QED
    BY <2>1, <2>2, <2>3
<1>2. below \in SUBSET Nat /\ below # {}
  <2>1. below \in SUBSET Nat
    OBVIOUS
  <2> QED
    BY <1>1, <2>1, Zenon
<1>3. PICK n \in below : \A m \in below : n <= m
  BY <1>2, LeastNumber, Zenon
<1>4. b - n \in S /\ n \in Int
  OBVIOUS
<1> HIDE DEF below
<1>5. ASSUME NEW y \in S PROVE b - n >= y
  <2>1. n <= b - y /\ y \in Int
    BY <1>1, <1>3, Zenon
  <2> QED
    BY <1>4, <2>1
<1>6. \E x \in S : \A y \in S : x >= y
  BY <1>4, <1>5, Zenon
<1> QED
  BY <1>6, Zenon DEF Max

(* A function on 0 .. N can be defined by its first value and by how each
   value follows from the one before.                                      *)
Recursive(g, A, N, base, step) ==
    /\ g \in [0 .. N -> A]
    /\ g[0] = base
    /\ \A n \in 1 .. N : g[n] = step[n][g[n - 1]]

LEMMA RecursionExists ==
    ASSUME NEW A, NEW N \in Nat, NEW base \in A, NEW step \in [1 .. N -> [A -> A]]
    PROVE  \E g : Recursive(g, A, N, base, step)
<1> DEFINE Defined(g, m) == /\ g[0] = base
                            /\ \A n \in 1 .. m : g[n] = step[n][g[n - 1]]
           without == {m \in 0 .. N : ~ \E g \in [0 .. m -> A] : Defined(g, m)}
<1> SUFFICES without = {}
  <2>1. N \in 0 .. N
    OBVIOUS
  <2>2. ASSUME without = {} PROVE \E g \in [0 .. N -> A] : Defined(g, N)
    BY <2>1, <2>2, Zenon
  <2> QED
    BY <2>2 DEF Recursive
<1> SUFFICES ASSUME without # {} PROVE FALSE
  OBVIOUS
<1>1. PICK m \in without : \A k \in without : m <= k
  <2>1. without \in SUBSET Nat
    OBVIOUS
  <2> QED
    BY <2>1, LeastNumber
<1>2. m # 0
  <2> SUFFICES ASSUME m = 0 PROVE FALSE
    OBVIOUS
  <2> DEFINE g == [n \in 0 .. 0 |-> base]
  <2>1. g \in [0 .. 0 -> A] /\ Defined(g, 0)
    OBVIOUS
  <2> QED
    BY <1>1, <2>1
<1>3. m \in 1 .. N /\ m - 1 \in 0 .. N /\ m \in Nat
  BY <1>2
<1>4. PICK g \in [0 .. m - 1 -> A] : Defined(g, m - 1)
  <2>1. m - 1 \notin without
    <3> SUFFICES ASSUME m - 1 \in without PROVE FALSE
      OBVIOUS
    <3> DEFINE k == m - 1
    <3>1. m <= k
      <4>1. k \in without
        OBVIOUS
      <4> HIDE DEF k, without
      <4> QED
        BY <1>1, <4>1, Zenon
    <3>2. m \in Nat /\ k = m - 1
      BY <1>3
    <3> HIDE DEF k, without
    <3> QED
      BY <3>1, <3>2
  <2> QED
    BY <1>3, <2>1, Zenon
<1> DEFINE h == [n \in 0 .. m |-> IF n = m THEN step[m][g[m - 1]] ELSE g[n]]
<1>5. h \in [0 .. m -> A]
  BY <1>3
<1>6. Defined(h, m)
  <2>1. h[0] = base
    BY <1>3, <1>4
  <2>2. ASSUME NEW n \in 1 .. m PROVE h[n] = step[n][h[n - 1]]
    <3>1. h[n - 1] = g[n - 1]
      BY <1>3
    <3>2. CASE n = m
      <4>1. h[m] = step[m][g[m - 1]]
        BY <1>3
      <4> HIDE DEF h
      <4> QED
        BY <3>1, <3>2, <4>1
    <3>3. CASE n # m
      <4>1. n \in 1 .. m - 1 /\ n \in 0 .. m
        BY <1>3, <3>3
      <4>2. h[n] = g[n]
        BY <3>3, <4>1
      <4> QED
        BY <1>4, <3>1, <4>1, <4>2
    <3> QED
      BY <3>2, <3>3
  <2> QED
    BY <2>1, <2>2
<1> QED
  BY <1>1, <1>5, <1>6

(* Induction, for the members of a set.                                    *)
LEMMA UpTo ==
    ASSUME NEW N \in Nat, NEW S, 0 \in S, \A n \in 1 .. N : n - 1 \in S => n \in S
    PROVE  \A n \in 0 .. N : n \in S
<1> DEFINE out == {n \in 0 .. N : n \notin S}
<1> SUFFICES ASSUME out # {} PROVE FALSE
  OBVIOUS
<1>1. PICK m \in out : \A k \in out : m <= k
  <2>1. out \in SUBSET Nat
    OBVIOUS
  <2> QED
    BY <2>1, LeastNumber
<1>2. m \in 1 .. N /\ m \notin S /\ m - 1 \in 0 .. N
  OBVIOUS
<1>3. m - 1 \notin S
  BY <1>2
<1>4. m - 1 \in out
  BY <1>2, <1>3
<1> HIDE DEF out
<1>5. m <= m - 1
  BY <1>1, <1>4
<1> QED
  BY <1>2, <1>5

-----------------------------------------------------------------------------
(* The operators on texts.                                                 *)

(* What the steps of Places and Join make of the step before.              *)
NextPlace(t, sep, n, places) ==
    IF Occurs(t, sep, n) /\ (places = <<>> \/ Last(places) + Len(sep) <= n)
    THEN Append(places, n) ELSE places

NextPart(parts, sep, n, joined) ==
    IF n = 1 THEN parts[1] ELSE joined \o sep \o parts[n]

LEMMA PlacesSteps ==
    ASSUME NEW t, NEW sep, Len(t) \in Nat
    PROVE  \E f \in [0 .. Len(t) -> Seq(1 .. Len(t))] :
              /\ f[0] = <<>>
              /\ \A n \in 1 .. Len(t) : f[n] = NextPlace(t, sep, n, f[n - 1])
              /\ Places(t, sep) = f[Len(t)]
<1> DEFINE N == Len(t)
           A == Seq(1 .. N)
           Def(h) == [n \in 0 .. N |->
                         IF n = 0 THEN <<>>
                         ELSE LET places == h[n - 1] IN
                              IF /\ Occurs(t, sep, n)
                                 /\ places = <<>> \/ Last(places) + Len(sep) <= n
                              THEN Append(places, n) ELSE places]
           upTo == CHOOSE h : h = Def(h)
           step == [n \in 1 .. N |-> [p \in A |-> NextPlace(t, sep, n, p)]]
<1>1. Places(t, sep) = upTo[N]
  BY Zenon DEF Places
<1>2. \A h : \A n \in 1 .. N : Def(h)[n] = NextPlace(t, sep, n, h[n - 1])
  BY DEF NextPlace
<1>3. \A h : Def(h)[0] = <<>>
  OBVIOUS
<1>4. step \in [1 .. N -> [A -> A]]
  <2>1. ASSUME NEW n \in 1 .. N, NEW p \in A PROVE NextPlace(t, sep, n, p) \in A
    <3>1. Append(p, n) \in A
      BY AppendProperties
    <3> HIDE DEF A
    <3> QED
      BY <3>1, Zenon DEF NextPlace
  <2> HIDE DEF A
  <2> QED
    BY <2>1
<1>5. <<>> \in A
  OBVIOUS
<1> HIDE DEF A
<1>6. PICK g : Recursive(g, A, N, <<>>, step)
  BY <1>4, <1>5, RecursionExists
<1>7. \A n \in 1 .. N : g[n] = NextPlace(t, sep, n, g[n - 1])
  <2>1. ASSUME NEW n \in 1 .. N PROVE g[n] = NextPlace(t, sep, n, g[n - 1])
    <3>1. n - 1 \in 0 .. N
      OBVIOUS
    <3>2. g[n - 1] \in A
      BY <1>6, <3>1 DEF Recursive
    <3> HIDE DEF N
    <3> QED
      BY <1>6, <3>2 DEF Recursive
  <2> QED
    BY <2>1
<1>8. g = Def(g)
  <2>1. ASSUME NEW n \in 0 .. N PROVE g[n] = Def(g)[n]
    <3> HIDE DEF Def
    <3>1. n = 0 \/ n \in 1 .. N
      OBVIOUS
    <3> QED
      BY <1>2, <1>3, <1>6, <1>7, <3>1 DEF Recursive
  <2>2. DOMAIN Def(g) = 0 .. N /\ Def(g) = [n \in 0 .. N |-> Def(g)[n]]
    OBVIOUS
  <2>3. g = [n \in 0 .. N |-> g[n]]
    BY <1>6 DEF Recursive
  <2> HIDE DEF Def, N
  <2> QED
    BY <2>1, <2>2, <2>3
<1>9. upTo = Def(upTo)
  <2> HIDE DEF Def
  <2> QED
    BY <1>8, Zenon
<1>10. upTo[0] = <<>> /\ \A n \in 1 .. N : upTo[n] = NextPlace(t, sep, n, upTo[n - 1])
  <2> HIDE DEF upTo, Def
  <2> QED
    BY <1>2, <1>3, <1>9, Zenon
<1> HIDE DEF upTo
<1>11. \A n \in 0 .. N : upTo[n] = g[n]
  <2> DEFINE S == {n \in 0 .. N : upTo[n] = g[n]}
  <2>1. 0 \in S
    BY <1>6, <1>10 DEF Recursive
  <2>2. ASSUME NEW n \in 1 .. N, n - 1 \in S PROVE n \in S
    BY <1>7, <1>10, <2>2
  <2>3. \A n \in 0 .. N : n \in S
    <3> HIDE DEF S
    <3> QED
      BY <2>1, <2>2, UpTo
  <2> QED
    BY <2>3
<1>12. N \in 0 .. N
  OBVIOUS
<1> QED
  BY <1>1, <1>6, <1>7, <1>11, <1>12, Zenon DEF A, Recursive

LEMMA JoinSteps ==
    ASSUME NEW C, NEW parts \in Seq(Seq(C)), NEW sep \in Seq(C)
    PROVE  \E f \in [0 .. Len(parts) -> Seq(C)] :
              /\ f[0] = <<>>
              /\ \A n \in 1 .. Len(parts) : f[n] = NextPart(parts, sep, n, f[n - 1])
              /\ Join(parts, sep) = f[Len(parts)]
<1> DEFINE N == Len(parts)
           A == Seq(C)
           Def(h) == [n \in 0 .. N |->
                         IF n = 0 THEN <<>>
                         ELSE IF n = 1 THEN parts[1] ELSE h[n - 1] \o sep \o parts[n]]
           joined == CHOOSE h : h = Def(h)
           step == [n \in 1 .. N |-> [p \in A |-> NextPart(parts, sep, n, p)]]
<1>0. N \in Nat
  OBVIOUS
<1>1. Join(parts, sep) = joined[N]
  BY Zenon DEF Join
<1>2. \A h : \A n \in 1 .. N : Def(h)[n] = NextPart(parts, sep, n, h[n - 1])
  BY DEF NextPart
<1>3. \A h : Def(h)[0] = <<>>
  OBVIOUS
<1>4. step \in [1 .. N -> [A -> A]]
  <2>1. ASSUME NEW n \in 1 .. N, NEW p \in A PROVE NextPart(parts, sep, n, p) \in A
    <3>1. parts[n] \in A /\ parts[1] \in A
      BY <1>0, LenProperties
    <3>2. p \o sep \o parts[n] \in A
      BY <3>1, ConcatProperties
    <3> QED
      BY <3>1, <3>2, Zenon DEF NextPart
  <2> HIDE DEF A
  <2> QED
    BY <2>1
<1>5. <<>> \in A
  OBVIOUS
<1> HIDE DEF A
<1>6. PICK g : Recursive(g, A, N, <<>>, step)
  BY <1>0, <1>4, <1>5, RecursionExists
<1>7. \A n \in 1 .. N : g[n] = NextPart(parts, sep, n, g[n - 1])
  <2>1. ASSUME NEW n \in 1 .. N PROVE g[n] = NextPart(parts, sep, n, g[n - 1])
    <3>1. n - 1 \in 0 .. N
      OBVIOUS
    <3>2. g[n - 1] \in A
      BY <1>6, <3>1 DEF Recursive
    <3> HIDE DEF N
    <3> QED
      BY <1>6, <3>2 DEF Recursive
  <2> QED
    BY <2>1
<1>8. g = Def(g)
  <2>1. ASSUME NEW n \in 0 .. N PROVE g[n] = Def(g)[n]
    <3> HIDE DEF Def
    <3>1. n = 0 \/ n \in 1 .. N
      OBVIOUS
    <3> QED
      BY <1>2, <1>3, <1>6, <1>7, <3>1 DEF Recursive
  <2>2. DOMAIN Def(g) = 0 .. N /\ Def(g) = [n \in 0 .. N |-> Def(g)[n]]
    OBVIOUS
  <2>3. g = [n \in 0 .. N |-> g[n]]
    BY <1>6 DEF Recursive
  <2> HIDE DEF Def, N
  <2> QED
    BY <2>1, <2>2, <2>3
<1>9. joined = Def(joined)
  <2> HIDE DEF Def
  <2> QED
    BY <1>8, Zenon
<1>10. joined[0] = <<>> /\ \A n \in 1 .. N : joined[n] = NextPart(parts, sep, n, joined[n - 1])
  <2> HIDE DEF joined, Def
  <2> QED
    BY <1>2, <1>3, <1>9, Zenon
<1> HIDE DEF joined
<1>11. \A n \in 0 .. N : joined[n] = g[n]
  <2> DEFINE S == {n \in 0 .. N : joined[n] = g[n]}
  <2>1. 0 \in S
    BY <1>6, <1>10 DEF Recursive
  <2>2. ASSUME NEW n \in 1 .. N, n - 1 \in S PROVE n \in S
    BY <1>7, <1>10, <2>2
  <2>3. \A n \in 0 .. N : n \in S
    <3> HIDE DEF S, N
    <3> QED
      BY <1>0, <2>1, <2>2, UpTo
  <2> QED
    BY <2>3
<1>12. N \in 0 .. N
  BY <1>0
<1> QED
  BY <1>1, <1>6, <1>7, <1>11, <1>12, Zenon DEF A, Recursive

LEMMA PlacesType ==
    ASSUME NEW C, NEW t \in Seq(C), NEW sep
    PROVE  Places(t, sep) \in Seq(1 .. Len(t))
<1>1. Len(t) \in Nat /\ Len(t) \in 0 .. Len(t)
  OBVIOUS
<1> QED
  BY <1>1, PlacesSteps

LEMMA JoinType ==
    ASSUME NEW C, NEW parts \in Seq(Seq(C)), NEW sep \in Seq(C)
    PROVE  Join(parts, sep) \in Seq(C)
<1>1. Len(parts) \in Nat /\ Len(parts) \in 0 .. Len(parts)
  OBVIOUS
<1> QED
  BY <1>1, JoinSteps

(* Any part of a text is a text, also an empty one.                        *)
LEMMA PartType ==
    ASSUME NEW C, NEW s \in Seq(C), NEW m \in Nat \ {0}, NEW n \in Int, n <= Len(s)
    PROVE  /\ SubSeq(s, m, n) \in Seq(C)
           /\ Len(SubSeq(s, m, n)) = IF m <= n THEN n - m + 1 ELSE 0
           /\ \A i \in 1 .. n - m + 1 : SubSeq(s, m, n)[i] = s[m + i - 1]
<1>1. \A i \in m .. n : s[i] \in C
  OBVIOUS
<1> QED
  BY <1>1, SubSeqProperties

LEMMA SplitType ==
    ASSUME NEW C, NEW t \in Seq(C), NEW sep \in Seq(C)
    PROVE  /\ Split(t, sep) \in Seq(Seq(C))
           /\ Len(Split(t, sep)) = Len(Places(t, sep)) + 1
           /\ Len(Places(t, sep)) \in Nat
<1> DEFINE places == Places(t, sep)
           from(k) == IF k = 1 THEN 1 ELSE places[k - 1] + Len(sep)
           to(k) == IF k > Len(places) THEN Len(t) ELSE places[k] - 1
<1>1. places \in Seq(1 .. Len(t)) /\ Len(places) \in Nat
  BY PlacesType
<1>2. ASSUME NEW k \in 1 .. Len(places) + 1
      PROVE  SubSeq(t, from(k), to(k)) \in Seq(C)
  <2>1. from(k) \in Nat \ {0}
    <3>1. CASE k = 1
      BY <3>1
    <3>2. CASE k # 1
      <4>1. k - 1 \in 1 .. Len(places)
        BY <1>1, <3>2
      <4>2. places[k - 1] \in 1 .. Len(t)
        BY <1>1, <4>1, ElementOfSeq
      <4> QED
        BY <3>2, <4>2
    <3> QED
      BY <3>1, <3>2
  <2>2. to(k) \in Int /\ to(k) <= Len(t)
    <3>1. CASE k > Len(places)
      BY <3>1
    <3>2. CASE ~ (k > Len(places))
      <4>1. k \in 1 .. Len(places)
        BY <1>1, <3>2
      <4>2. places[k] \in 1 .. Len(t)
        BY <1>1, <4>1, ElementOfSeq
      <4> QED
        BY <3>2, <4>2
    <3> QED
      BY <3>1, <3>2
  <2> HIDE DEF from, to
  <2> QED
    BY <2>1, <2>2, PartType
<1>3. Split(t, sep) = [k \in 1 .. Len(places) + 1 |-> SubSeq(t, from(k), to(k))]
  BY Zenon DEF Split
<1> HIDE DEF from, to, places
<1>4. Split(t, sep) \in [1 .. Len(places) + 1 -> Seq(C)]
  BY <1>2, <1>3
<1> QED
  BY <1>1, <1>4 DEF places

LEMMA LinesType ==
    ASSUME NEW C, NEW t \in Seq(C), NL \in C
    PROVE  Lines(t) \in Seq(Seq(C)) /\ Len(Lines(t)) \in Nat \ {0}
<1> DEFINE sep == <<NL>>
<1>1. sep \in Seq(C)
  OBVIOUS
<1>2. Lines(t) = Split(t, sep)
  BY DEF Lines
<1> HIDE DEF sep
<1>3. /\ Lines(t) \in Seq(Seq(C)) /\ Len(Places(t, sep)) \in Nat
      /\ Len(Lines(t)) = Len(Places(t, sep)) + 1
  BY <1>1, <1>2, SplitType
<1> QED
  BY <1>3

LEMMA DropCRType ==
    ASSUME NEW C, NEW line \in Seq(C)
    PROVE  DropCR(line) \in Seq(C)
<1>1. CASE line # <<>>
  <2>1. Len(line) \in Nat \ {0}
    BY <1>1
  <2>2. SubSeq(line, 1, Len(line) - 1) \in Seq(C)
    BY <2>1, PartType
  <2> QED
    BY <2>2 DEF DropCR, Front
<1>2. CASE line = <<>>
  BY <1>2 DEF DropCR
<1> QED
  BY <1>1, <1>2

LEMMA ViewLinesType ==
    ASSUME NEW C, NEW t \in Seq(C), NL \in C
    PROVE  /\ ViewLines(t) \in Seq(Seq(C)) /\ Len(ViewLines(t)) \in Nat
           /\ Len(ViewLines(t)) <= Len(Lines(t))
           /\ \A k \in 1 .. Len(ViewLines(t)) : ViewLines(t)[k] = DropCR(Lines(t)[k])
<1> DEFINE lines == Lines(t)
           shown == IF Last(lines) = <<>> THEN Len(lines) - 1 ELSE Len(lines)
<1>1. lines \in Seq(Seq(C)) /\ Len(lines) \in Nat \ {0}
  BY LinesType
<1>2. shown \in Nat /\ shown <= Len(lines)
  BY <1>1
<1>3. \A k \in 1 .. shown : DropCR(lines[k]) \in Seq(C)
  <2>1. ASSUME NEW k \in 1 .. shown PROVE DropCR(lines[k]) \in Seq(C)
    <3>1. k \in 1 .. Len(lines)
      BY <1>1, <1>2
    <3>2. lines[k] \in Seq(C)
      BY <1>1, <3>1, ElementOfSeq
    <3> QED
      BY <3>2, DropCRType
  <2> QED
    BY <2>1
<1>4. ViewLines(t) = [k \in 1 .. shown |-> DropCR(lines[k])]
  BY Zenon DEF ViewLines
<1> HIDE DEF lines, shown
<1>5. ViewLines(t) \in [1 .. shown -> Seq(C)]
  BY <1>3, <1>4
<1>6. ViewLines(t) \in Seq(Seq(C)) /\ Len(ViewLines(t)) = shown
  BY <1>2, <1>5
<1> QED
  BY <1>2, <1>4, <1>6 DEF lines

(* What a replacement writes is a text.                                    *)
LEMMA ReplacedType ==
    ASSUME NEW t \in Seq(Chars), NEW e,
           e.old \in Seq(Chars), e.new \in Seq(Chars), e.from \in Nat, e.to \in Nat,
           Replaceable(t, e)
    PROVE  Replaced(t, e) \in Seq(Chars)
<1> DEFINE T == Seq(Chars)
           sep == <<NL>>
<1>1. sep \in T /\ NL \in Chars /\ <<>> \in T
  BY TextAssumption
<1>2. Lines(t) \in Seq(T) /\ Len(Lines(t)) \in Nat \ {0}
  BY <1>1, LinesType
<1>3. FirstLine(e) \in Nat \ {0}
  BY DEF FirstLine, AtLeast
<1>4. LastLine(t, e) \in Nat /\ LastLine(t, e) <= Len(Lines(t))
  BY <1>2 DEF LastLine
<1>5. ASSUME NEW parts \in Seq(T), NEW x \in T PROVE Join(parts, x) \in T
  BY JoinType
<1>6. ASSUME NEW x \in T, NEW y \in T PROVE x \o y \in T
  BY ConcatProperties
<1>7. ASSUME NEW m \in Nat \ {0}, NEW n \in Nat, n <= Len(Lines(t))
      PROVE  SubSeq(Lines(t), m, n) \in Seq(T)
  BY <1>2, <1>7, PartType
<1> HIDE DEF T, sep
<1>8. Chunk(t, e) \in T
  <2>1. Join(SubSeq(Lines(t), FirstLine(e), LastLine(t, e)), sep) \in T
    BY <1>1, <1>3, <1>4, <1>5, <1>7
  <2> QED
    BY <2>1 DEF Chunk, T, sep
<1>9. After(t, e) \in T
  <2>1. CASE LastLine(t, e) >= Len(Lines(t))
    BY <1>1, <2>1 DEF After
  <2>2. CASE ~ (LastLine(t, e) >= Len(Lines(t)))
    <3>1. SubSeq(Lines(t), LastLine(t, e) + 1, Len(Lines(t))) \in Seq(T)
      BY <1>2, <1>4, <1>7
    <3>2. sep \o Join(SubSeq(Lines(t), LastLine(t, e) + 1, Len(Lines(t))), sep) \in T
      BY <1>1, <1>5, <1>6, <3>1
    <3> QED
      BY <1>1, <3>2, Zenon DEF After, sep
  <2> QED
    BY <2>1, <2>2
<1>10. Before(t, e) \in T
  <2> DEFINE above == Join(SubSeq(Lines(t), 1, FirstLine(e) - 1), sep)
  <2>1. CASE ~Ranged(e)
    BY <1>1, <2>1 DEF Before
  <2>2. CASE Ranged(e)
    <3>1. FirstLine(e) - 1 <= Len(Lines(t))
      BY <1>2, <1>3, <2>2 DEF Replaceable
    <3>2. SubSeq(Lines(t), 1, FirstLine(e) - 1) \in Seq(T)
      BY <1>2, <1>3, <1>7, <3>1
    <3>3. above \o sep \in T
      BY <1>1, <1>5, <1>6, <3>2
    <3> QED
      BY <1>1, <3>3, Zenon DEF Before, sep
  <2> QED
    BY <2>1, <2>2
<1>11. Split(Chunk(t, e), e.old) \in Seq(T) /\ Len(Split(Chunk(t, e), e.old)) > 0
  <2> DEFINE chunk == Chunk(t, e)
  <2>1. chunk \in Seq(Chars)
    BY <1>8 DEF T
  <2> HIDE DEF chunk
  <2>2. /\ Split(chunk, e.old) \in Seq(Seq(Chars)) /\ Len(Places(chunk, e.old)) \in Nat
        /\ Len(Split(chunk, e.old)) = Len(Places(chunk, e.old)) + 1
    BY <2>1, SplitType
  <2>3. Len(Split(chunk, e.old)) > 0
    BY <2>2
  <2> QED
    BY <2>2, <2>3, Zenon DEF chunk, T
<1>12. ReplaceEach(Chunk(t, e), e.old, e.new) \in T
  <2>1. e.new \in T
    BY DEF T
  <2> QED
    BY <1>5, <1>11, <2>1 DEF ReplaceEach
<1>13. ReplaceOne(Chunk(t, e), e.old, e.new) \in T
  <2> DEFINE parts == Split(Chunk(t, e), e.old)
  <2>1. parts \in Seq(T) /\ parts # <<>> /\ e.old \in T /\ e.new \in T
    BY <1>11 DEF T
  <2>2. ReplaceOne(Chunk(t, e), e.old, e.new) = Head(parts) \o e.new \o Join(Tail(parts), e.old)
    BY DEF ReplaceOne
  <2> HIDE DEF parts
  <2>3. Head(parts) \in T /\ Tail(parts) \in Seq(T)
    BY <2>1, HeadTailProperties
  <2>4. Join(Tail(parts), e.old) \in T
    BY <1>5, <2>1, <2>3
  <2> QED
    BY <1>6, <2>1, <2>2, <2>3, <2>4
<1> QED
  <2> DEFINE middle == IF e.multiple THEN ReplaceEach(Chunk(t, e), e.old, e.new)
                       ELSE ReplaceOne(Chunk(t, e), e.old, e.new)
  <2>1. middle \in T
    BY <1>12, <1>13
  <2>2. Replaced(t, e) = Before(t, e) \o middle \o After(t, e)
    BY Zenon DEF Replaced
  <2> HIDE DEF middle
  <2> QED
    BY <1>6, <1>9, <1>10, <2>1, <2>2 DEF T

-----------------------------------------------------------------------------
(* Pages.                                                                  *)

(* The last line that is asked for.                                        *)
LastAsked(lines, to) == IF to = 0 \/ to > Len(lines) THEN Len(lines) ELSE to

(* A page of the lines from .. last begins with the first one, and ends with
   the last one or before a line that does not fit.                        *)
Cut(page, lines, from, last, limit) ==
    /\ page.end \in Nat /\ page.end <= Len(lines)
    /\ page.end = from - 1 \/ page.end \in from .. last
    /\ page.lines = SubSeq(lines, from, page.end)
    /\ page.truncated <=> page.end < last
    /\ \A i \in from .. last :
          PageBytes(lines, from, i) <= MaxBytes(limit) => i <= page.end

LEMMA PageOf ==
    ASSUME NEW t \in Seq(Chars), NEW from \in Nat \ {0}, NEW to \in Nat, NEW limit
    PROVE  LET lines == ViewLines(t)
               page == Page(t, from, to, limit)
           IN /\ from > Len(lines) => page = NoPage
              /\ from <= Len(lines) => Cut(page, lines, from, LastAsked(lines, to), limit)
<1> DEFINE lines == ViewLines(t)
           last == LastAsked(lines, to)
           fits == {from - 1} \cup {i \in from .. last :
                                       PageBytes(lines, from, i) <= MaxBytes(limit)}
           page == Page(t, from, to, limit)
           highest == IF last < from - 1 THEN from - 1 ELSE last
<1>1. page = IF from > Len(lines) THEN NoPage
             ELSE [lines |-> SubSeq(lines, from, Max(fits)),
                   end |-> Max(fits), truncated |-> Max(fits) < last]
  BY Zenon DEF Page, LastAsked
<1>2. lines \in Seq(Seq(Chars)) /\ Len(lines) \in Nat
  BY ViewLinesType, TextAssumption
<1>3. last \in Nat /\ last <= Len(lines)
  BY <1>2 DEF LastAsked
<1> HIDE DEF lines, last, page
<1>4. /\ from - 1 \in Int /\ highest \in Int /\ fits # {}
      /\ fits \in SUBSET (from - 1 .. highest)
  BY <1>3
<1> HIDE DEF highest
<1>5. Max(fits) \in fits /\ \A y \in fits : Max(fits) >= y
  <2> HIDE DEF fits
  <2> QED
    BY <1>4, MaxBelow
<1>6. Max(fits) = from - 1 \/ Max(fits) \in from .. last
  BY <1>5
<1>7. \A i \in from .. last : PageBytes(lines, from, i) <= MaxBytes(limit) => Max(fits) >= i
  BY <1>5
<1> HIDE DEF fits
<1>8. CASE from > Len(lines)
  BY <1>1, <1>2, <1>8 DEF lines, last, page
<1>9. CASE from <= Len(lines)
  <2>1. page.end = Max(fits) /\ page.lines = SubSeq(lines, from, Max(fits))
        /\ (page.truncated <=> Max(fits) < last)
    <3>1. page = [lines |-> SubSeq(lines, from, Max(fits)),
                  end |-> Max(fits), truncated |-> Max(fits) < last]
      BY <1>1, <1>2, <1>9
    <3> QED
      BY <3>1, Zenon
  <2>2. page.end \in Nat /\ page.end <= Len(lines)
    BY <1>2, <1>3, <1>6, <1>9, <2>1
  <2>3. \A i \in from .. last : PageBytes(lines, from, i) <= MaxBytes(limit) => i <= page.end
    BY <1>3, <1>7, <2>1, <2>2
  <2> QED
    <3>1. Cut(page, lines, from, last, limit)
      BY <1>2, <1>6, <1>9, <2>1, <2>2, <2>3 DEF Cut
    <3> QED
      BY <1>2, <1>9, <3>1 DEF lines, last, page
<1> QED
  BY <1>2, <1>8, <1>9

(* One line takes its own bytes.                                           *)
LEMMA OneLine ==
    ASSUME NEW lines, NEW i \in Nat, PrintedBytes(lines[i]) \in Int
    PROVE  PageBytes(lines, i, i) = PrintedBytes(lines[i])
<1> DEFINE f(n) == PrintedBytes(lines[n])
           S == {i}
           Def(h) == [s \in SUBSET S |->
                        IF s = {} THEN 0
                        ELSE LET x == CHOOSE x \in s : TRUE IN f(x) + h[s \ {x}]]
           iter == CHOOSE h : h = Def(h)
           g == [s \in SUBSET S |-> IF s = {} THEN 0 ELSE f(i)]
<1>1. i .. i = S
  OBVIOUS
<1>2. PageBytes(lines, i, i) = iter[S]
  BY <1>1, Zenon DEF PageBytes, MapThenSumSet, MapThenFoldSet
<1>3. (CHOOSE x \in S : TRUE) = i
  OBVIOUS
<1>4. g = Def(g)
  <2>1. ASSUME NEW s \in SUBSET S PROVE g[s] = Def(g)[s]
    <3>1. CASE s = {}
      BY <3>1
    <3>2. CASE s # {}
      <4>1. s = S /\ S \ {i} = {}
        BY <3>2
      <4>2. Def(g)[S] = f(i) + g[{}]
        BY <1>3, <4>1
      <4>3. g[{}] = 0 /\ g[S] = f(i)
        BY <4>1
      <4> HIDE DEF g, Def, S
      <4> QED
        BY <4>1, <4>2, <4>3
    <3> QED
      BY <3>1, <3>2
  <2>2. Def(g) = [s \in SUBSET S |-> Def(g)[s]] /\ g = [s \in SUBSET S |-> g[s]]
    OBVIOUS
  <2> HIDE DEF g, Def, S
  <2> QED
    BY <2>1, <2>2
<1>5. iter = Def(iter)
  <2> HIDE DEF Def
  <2> QED
    BY <1>4, Zenon
<1> HIDE DEF iter
<1>6. iter[{}] = 0
  <2>1. Def(iter)[{}] = 0
    OBVIOUS
  <2> HIDE DEF Def
  <2> QED
    BY <1>5, <2>1, Zenon
<1>7. iter[S] = f(i) + iter[{}]
  <2>1. S # {} /\ S \ {i} = {} /\ S \in SUBSET S
    OBVIOUS
  <2>2. Def(iter)[S] = f(i) + iter[{}]
    BY <1>3, <2>1
  <2> HIDE DEF Def, S
  <2> QED
    BY <1>5, <2>2, Zenon
<1> HIDE DEF S, Def
<1> QED
  BY <1>2, <1>6, <1>7

-----------------------------------------------------------------------------
(* The invariant.                                                          *)

TextInv == text \in Seq(Chars)

EditInv == /\ edit.old \in Seq(Chars) /\ edit.new \in Seq(Chars)
           /\ edit.from \in Nat /\ edit.to \in Nat

ReaderInv == reader \in [from: Nat, to: Nat, limit: Nat, next: Nat,
                         shown: Seq(Seq(Chars)), fresh: BOOLEAN]

(* As long as the text does not change, a reader has the lines up to the
   next page, and there is no next page unless a line is left.             *)
PagesInv ==
    reader.fresh =>
        LET lines == ViewLines(text)
            last == LastAsked(lines, reader.to)
        IN /\ reader.from > 0
           /\ reader.next = 0 => reader.shown = SubSeq(lines, reader.from, last)
           /\ reader.next # 0 =>
                 /\ reader.shown = SubSeq(lines, reader.from, reader.next - 1)
                 /\ \/ reader.next = reader.from
                    \/ reader.next \in reader.from + 1 .. last

IInv == TextInv /\ EditInv /\ ReaderInv /\ PagesInv

LEMMA InitInv == Init => IInv
<1> SUFFICES ASSUME Init PROVE IInv
  OBVIOUS
<1>1. TextInv
  BY TextAssumption DEF Init, TextInv
<1>2. EditInv
  BY DEF Init, EditInv, NoEdit
<1>3. ReaderInv /\ PagesInv
  BY DEF Init, ReaderInv, PagesInv, NoReader
<1> QED
  BY <1>1, <1>2, <1>3 DEF IInv

LEMMA BeginStep == IInv /\ BeginReading => IInv'
<1> SUFFICES ASSUME IInv, BeginReading PROVE IInv'
  OBVIOUS
<1>1. PICK range \in ViewRanges, limit \in ByteLimits :
         reader' = [from |-> AtLeast(range[1], 1), to |-> range[2], limit |-> limit,
                    next |-> AtLeast(range[1], 1), shown |-> <<>>, fresh |-> TRUE]
  BY DEF BeginReading
<1>2. UNCHANGED <<text, edit>>
  BY DEF BeginReading
<1>3. /\ range[1] \in Nat /\ range[2] \in Nat /\ limit \in Nat
      /\ AtLeast(range[1], 1) \in Nat \ {0}
  <2>1. range \in Nat \X Nat /\ limit \in Nat
    BY TextAssumption
  <2> QED
    BY <2>1 DEF AtLeast
<1>4. TextInv' /\ EditInv'
  BY <1>2 DEF IInv, TextInv, EditInv
<1>5. ReaderInv'
  BY <1>1, <1>3 DEF ReaderInv
<1>6. PagesInv'
  <2> DEFINE first == AtLeast(range[1], 1)
  <2>1. reader'.from = first /\ reader'.next = first /\ reader'.shown = <<>>
    BY <1>1
  <2>2. SubSeq(ViewLines(text'), first, first - 1) = <<>>
    BY <1>3, SubSeqEmpty
  <2> HIDE DEF first
  <2>3. first \in Nat \ {0}
    BY <1>3 DEF first
  <2> QED
    BY <2>1, <2>2, <2>3 DEF PagesInv
<1> QED
  BY <1>4, <1>5, <1>6 DEF IInv

LEMMA ViewStep == IInv /\ ViewFile => IInv'
<1> SUFFICES ASSUME IInv, ViewFile PROVE IInv'
  OBVIOUS
<1> DEFINE lines == ViewLines(text)
           last == LastAsked(lines, reader.to)
           page == Page(text, reader.next, reader.to, reader.limit)
<1>1. /\ reader.from \in Nat /\ reader.to \in Nat /\ reader.limit \in Nat
      /\ reader.next \in Nat \ {0} /\ reader.shown \in Seq(Seq(Chars))
      /\ reader.fresh \in BOOLEAN
  BY DEF IInv, ReaderInv, ViewFile
<1>2. text \in Seq(Chars) /\ UNCHANGED <<text, edit>>
  BY DEF IInv, TextInv, ViewFile
<1>3. reader' = [reader EXCEPT !.shown = @ \o page.lines,
                               !.next = IF page.truncated THEN page.end + 1 ELSE 0]
  BY DEF ViewFile
<1>4. /\ reader'.from = reader.from /\ reader'.to = reader.to
      /\ reader'.limit = reader.limit /\ reader'.fresh = reader.fresh
      /\ reader'.shown = reader.shown \o page.lines
      /\ reader'.next = IF page.truncated THEN page.end + 1 ELSE 0
      /\ reader' = [from |-> reader.from, to |-> reader.to, limit |-> reader.limit,
                    next |-> reader'.next, shown |-> reader'.shown, fresh |-> reader.fresh]
  <2> HIDE DEF page
  <2> QED
    BY <1>3 DEF IInv, ReaderInv
<1>5. lines \in Seq(Seq(Chars)) /\ Len(lines) \in Nat
  BY <1>2, ViewLinesType, TextAssumption
<1>6. last \in Nat /\ last <= Len(lines)
  BY <1>1, <1>5 DEF LastAsked
<1>7. TextInv' /\ EditInv'
  BY <1>2 DEF IInv, TextInv, EditInv
<1>8. reader'.fresh => /\ reader.from > 0
                       /\ reader.shown = SubSeq(lines, reader.from, reader.next - 1)
                       /\ \/ reader.next = reader.from
                          \/ reader.next \in reader.from + 1 .. last
  BY <1>1, <1>4 DEF IInv, PagesInv
<1>9. /\ ReaderInv'
      /\ reader'.fresh =>
            /\ reader'.next = 0 => reader'.shown = SubSeq(lines, reader.from, last)
            /\ reader'.next # 0 =>
                  /\ reader'.shown = SubSeq(lines, reader.from, reader'.next - 1)
                  /\ \/ reader'.next = reader.from
                     \/ reader'.next \in reader.from + 1 .. last
  <2>1. CASE reader.next > Len(lines)
    <3>1. page = NoPage
      BY <1>1, <1>2, <2>1, PageOf
    <3> HIDE DEF page, lines, last
    <3>2. reader'.next = 0 /\ reader'.shown = reader.shown
      BY <1>1, <1>4, <3>1, ConcatEmptySeq DEF NoPage
    <3>3. ReaderInv'
      BY <1>1, <1>4, <3>2 DEF ReaderInv
    <3>4. reader'.fresh => reader.shown = SubSeq(lines, reader.from, last)
      <4> SUFFICES ASSUME reader'.fresh PROVE reader.shown = SubSeq(lines, reader.from, last)
        OBVIOUS
      <4>1. reader.next = reader.from /\ last < reader.from
        BY <1>1, <1>5, <1>6, <1>8, <2>1
      <4>2. reader.shown = <<>>
        BY <1>1, <1>8, <4>1, SubSeqEmpty
      <4>3. SubSeq(lines, reader.from, last) = <<>>
        BY <1>1, <1>6, <4>1, SubSeqEmpty
      <4> QED
        BY <4>2, <4>3
    <3> QED
      BY <3>2, <3>3, <3>4
  <2>2. CASE reader.next <= Len(lines)
    <3>1. /\ page.end \in Nat /\ page.end <= Len(lines)
          /\ page.end = reader.next - 1 \/ page.end \in reader.next .. last
          /\ page.lines = SubSeq(lines, reader.next, page.end)
          /\ (page.truncated <=> page.end < last)
      <4>1. Cut(page, lines, reader.next, last, reader.limit)
        BY <1>1, <1>2, <2>2, PageOf
      <4> HIDE DEF page, lines, last
      <4> QED
        BY <4>1 DEF Cut
    <3> HIDE DEF page, lines, last
    <3>2. page.lines \in Seq(Seq(Chars))
      BY <1>1, <1>5, <3>1, PartType
    <3>3. reader'.shown \in Seq(Seq(Chars)) /\ reader'.next \in Nat
      BY <1>1, <1>4, <3>1, <3>2, ConcatProperties
    <3>4. ReaderInv'
      BY <1>1, <1>4, <3>3 DEF ReaderInv
    <3> SUFFICES ASSUME reader'.fresh
                 PROVE  /\ reader'.next = 0 => reader'.shown = SubSeq(lines, reader.from, last)
                        /\ reader'.next # 0 =>
                              /\ reader'.shown = SubSeq(lines, reader.from, reader'.next - 1)
                              /\ \/ reader'.next = reader.from
                                 \/ reader'.next \in reader.from + 1 .. last
      BY <3>4
    <3>5. reader.from \in 1 .. reader.next
      BY <1>1, <1>8
    <3>6. reader'.shown = SubSeq(lines, reader.from, page.end)
      <4>1. reader.from \in 1 .. Len(lines) + 1
        BY <1>1, <1>5, <2>2, <3>5
      <4>2. reader.next - 1 \in reader.from - 1 .. Len(lines)
        BY SMTT(20), <1>1, <1>5, <2>2, <3>5
      <4>3. page.end \in reader.next - 1 .. Len(lines)
        BY SMTT(20), <1>1, <1>5, <1>6, <3>1
      <4>4. SubSeq(lines, reader.from, reader.next - 1)
              \o SubSeq(lines, reader.next - 1 + 1, page.end)
              = SubSeq(lines, reader.from, page.end)
        BY <1>5, <4>1, <4>2, <4>3, ConcatAdjacentSubSeq
      <4>5. reader.next - 1 + 1 = reader.next
        BY <1>1
      <4> QED
        BY <1>4, <1>8, <3>1, <4>4, <4>5
    <3>7. CASE page.end < last
      <4>1. /\ reader'.next = page.end + 1 /\ reader'.next # 0
            /\ reader'.next - 1 = page.end
        BY <1>4, <3>1, <3>7
      <4>2. page.end + 1 = reader.from \/ page.end + 1 \in reader.from + 1 .. last
        BY SMTT(20), <1>1, <1>6, <3>1, <3>5, <3>7
      <4> QED
        BY <3>6, <4>1, <4>2
    <3>8. CASE ~ (page.end < last)
      <4>1. reader'.next = 0
        BY <1>4, <3>1, <3>8
      <4>2. SubSeq(lines, reader.from, page.end) = SubSeq(lines, reader.from, last)
        <5>1. CASE page.end = last
          BY <5>1
        <5>2. CASE page.end # last
          <6>1. page.end = reader.next - 1 /\ reader.next > last
            BY <1>1, <1>6, <3>1, <3>8, <5>2
          <6>2. reader.next = reader.from
            BY <1>1, <1>6, <1>8, <6>1
          <6>3. page.end < reader.from /\ last < reader.from
            BY <1>1, <1>6, <6>1, <6>2
          <6>4. /\ SubSeq(lines, reader.from, page.end) = <<>>
                /\ SubSeq(lines, reader.from, last) = <<>>
            BY <1>1, <1>6, <3>1, <6>3, SubSeqEmpty
          <6> QED
            BY <6>4
        <5> QED
          BY <5>1, <5>2
      <4> QED
        BY <3>6, <4>1, <4>2
    <3> QED
      BY <3>7, <3>8
  <2> QED
    BY <1>1, <1>5, <2>1, <2>2
<1>10. PagesInv'
  <2> HIDE DEF lines, last, page
  <2>1. ViewLines(text') = lines /\ LastAsked(ViewLines(text'), reader'.to) = last
    BY <1>2, <1>4 DEF lines, last
  <2> QED
    BY <1>4, <1>8, <1>9, <2>1 DEF PagesInv
<1> QED
  BY <1>7, <1>9, <1>10 DEF IInv

LEMMA StepInv == IInv /\ [Next]_vars => IInv'
<1> SUFFICES ASSUME IInv, [Next]_vars PROVE IInv'
  OBVIOUS
<1>1. CASE BeginReading
  BY <1>1, BeginStep
<1>2. CASE ViewFile
  BY <1>2, ViewStep
<1>3. CASE AskReplace
  <2>1. PICK old \in Targets, new \in Replacements, range \in EditRanges,
             multiple \in BOOLEAN :
           edit' = [old |-> old, new |-> new, from |-> range[1], to |-> range[2],
                    multiple |-> multiple]
    BY <1>3 DEF AskReplace
  <2>2. range \in Nat \X Nat /\ old \in Seq(Chars) /\ new \in Seq(Chars)
    BY TextAssumption
  <2>3. EditInv'
    BY <2>1, <2>2 DEF EditInv
  <2>4. UNCHANGED <<text, reader>>
    BY <1>3 DEF AskReplace
  <2> QED
    BY <2>3, <2>4 DEF IInv, TextInv, ReaderInv, PagesInv
<1>4. CASE ReplaceFileContent
  <2>1. /\ Replaceable(text, edit) /\ text' = Replaced(text, edit) /\ edit' = NoEdit
        /\ reader' = [reader EXCEPT !.fresh = FALSE]
    BY <1>4 DEF ReplaceFileContent
  <2>2. text' \in Seq(Chars)
    BY <2>1, ReplacedType DEF IInv, TextInv, EditInv
  <2>3. EditInv'
    BY <2>1 DEF EditInv, NoEdit
  <2>4. ReaderInv' /\ reader'.fresh = FALSE
    BY <2>1 DEF IInv, ReaderInv
  <2> QED
    BY <2>2, <2>3, <2>4 DEF IInv, TextInv, PagesInv
<1>5. CASE ReplaceRefused
  <2>1. edit' = NoEdit /\ UNCHANGED <<text, reader>>
    BY <1>5 DEF ReplaceRefused
  <2>2. EditInv'
    BY <2>1 DEF EditInv, NoEdit
  <2> QED
    BY <2>1, <2>2 DEF IInv, TextInv, ReaderInv, PagesInv
<1>6. CASE ReadLines \/ UNCHANGED vars
  <2>1. UNCHANGED <<text, edit, reader>>
    BY <1>6 DEF ReadLines, vars
  <2> QED
    BY <2>1 DEF IInv, TextInv, EditInv, ReaderInv, PagesInv
<1> QED
  BY <1>1, <1>2, <1>3, <1>4, <1>5, <1>6 DEF Next

LEMMA Invariant == Spec => []IInv
  BY InitInv, StepInv, PTL DEF Spec

-----------------------------------------------------------------------------
(* The pages of ViewFile are the lines of a text that does not change, in
   order, each once, and none is missing when there is no next page.       *)
THEOREM PagesSound == Spec => []PagesInOrder
<1>1. IInv => PagesInOrder
  <2> SUFFICES ASSUME IInv, reader.fresh PROVE PagesInOrder
    BY DEF PagesInOrder
  <2> DEFINE lines == ViewLines(text)
             last == LastAsked(lines, reader.to)
             asked == SubSeq(lines, reader.from, last)
             shown == reader.shown
  <2>1. /\ reader.from \in Nat \ {0} /\ reader.to \in Nat /\ reader.next \in Nat
        /\ shown \in Seq(Seq(Chars))
    BY DEF IInv, ReaderInv, PagesInv
  <2>2. lines \in Seq(Seq(Chars)) /\ Len(lines) \in Nat
    BY ViewLinesType, TextAssumption DEF IInv, TextInv
  <2>3. last \in Nat /\ last <= Len(lines)
    BY <2>1, <2>2 DEF LastAsked
  <2>4. /\ reader.next = 0 => shown = asked
        /\ reader.next # 0 => /\ shown = SubSeq(lines, reader.from, reader.next - 1)
                              /\ \/ reader.next = reader.from
                                 \/ reader.next \in reader.from + 1 .. last
    BY DEF IInv, PagesInv
  <2>5. PagesInOrder <=> IsPrefix(shown, asked) /\ (reader.next = 0 => shown = asked)
    BY Zenon DEF PagesInOrder, LastAsked
  <2> HIDE DEF lines, last, shown
  <2>6. /\ asked \in Seq(Seq(Chars)) /\ Len(asked) \in Nat
        /\ Len(asked) = IF reader.from <= last THEN last - reader.from + 1 ELSE 0
    BY SMTT(20), <2>1, <2>2, <2>3, PartType
  <2>7. CASE reader.next = 0
    <3>1. shown = asked
      BY <2>4, <2>7
    <3> HIDE DEF asked
    <3> QED
      BY <2>5, <2>6, <3>1 DEF IsPrefix
  <2>8. CASE reader.next # 0 /\ reader.next = reader.from
    <3>1. shown = <<>>
      BY <2>1, <2>4, <2>8, SubSeqEmpty
    <3>2. /\ SubSeq(shown, 1, 0) = <<>> /\ SubSeq(asked, 1, 0) = <<>>
          /\ Len(shown) = 0
      BY <3>1, SubSeqEmpty
    <3> HIDE DEF asked
    <3> QED
      BY <2>5, <2>6, <2>8, <3>2 DEF IsPrefix
  <2>9. CASE reader.next # 0 /\ reader.next \in reader.from + 1 .. last
    <3> DEFINE from == reader.from
               next == reader.next
               n == next - from
    <3>1. /\ from \in Nat \ {0} /\ next \in Nat /\ from + 1 <= next /\ next <= last
          /\ shown = SubSeq(lines, from, next - 1) /\ asked = SubSeq(lines, from, last)
      BY <2>1, <2>4, <2>9
    <3>2. Len(asked) = last - from + 1 /\ n \in Nat \ {0} /\ n <= last - from + 1
      BY SMTT(20), <2>3, <2>6, <3>1
    <3> HIDE DEF from, next, asked
    <3>3. /\ n \in 1 .. last - from + 1 /\ 1 \in 1 .. last - from + 1
          /\ from \in 1 .. Len(lines) /\ last \in 1 .. Len(lines)
          /\ from + 1 - 1 = from /\ from + n - 1 = next - 1
          /\ next - 1 <= Len(lines) /\ from <= next - 1 /\ next - 1 - from + 1 = n
      BY <2>2, <2>3, <3>1, <3>2
    <3> HIDE DEF n
    <3>4. SubSeq(asked, 1, n) = SubSeq(lines, from + 1 - 1, from + n - 1)
      BY <2>2, <3>1, <3>3, SubSeqOfSubSeq
    <3>5. SubSeq(asked, 1, n) = shown
      BY <3>1, <3>3, <3>4
    <3>6. Len(shown) = n
      BY <2>2, <2>3, <3>1, <3>3, PartType
    <3>7. SubSeq(shown, 1, Len(shown)) = shown
      BY <2>1, SubSeqFull
    <3> QED
      BY <2>5, <2>9, <3>2, <3>5, <3>6, <3>7 DEF IsPrefix
  <2> QED
    BY <2>4, <2>7, <2>8, <2>9
<1> QED
  BY <1>1, Invariant, PTL

(* A reader that asks for the line after a truncated page of ViewFile gets
   further, unless that line alone is longer than a page.                  *)
THEOREM PagingMoves == Spec => []PagingAdvances
<1>1. IInv => PagingAdvances
  <2> DEFINE lines == ViewLines(text)
             last == LastAsked(lines, reader.to)
             page == Page(text, reader.next, reader.to, reader.limit)
             line == lines[reader.next]
  <2> SUFFICES ASSUME IInv, reader.next \in DOMAIN lines, page.truncated,
                      ~ (PrintedBytes(line) > MaxBytes(reader.limit))
               PROVE  page.end >= reader.next
    BY Zenon DEF PagingAdvances
  <2>1. /\ reader.to \in Nat /\ reader.limit \in Nat /\ text \in Seq(Chars)
    BY DEF IInv, ReaderInv, TextInv
  <2>2. lines \in Seq(Seq(Chars)) /\ Len(lines) \in Nat
    BY <2>1, ViewLinesType, TextAssumption
  <2>3. /\ reader.next \in Nat \ {0} /\ reader.next <= Len(lines)
        /\ reader.next \in 1 .. Len(lines)
    BY <2>2
  <2>4. Cut(page, lines, reader.next, last, reader.limit)
    BY <2>1, <2>3, PageOf
  <2>5. last \in Nat
    BY <2>1, <2>2 DEF LastAsked
  <2> HIDE DEF lines, last, page
  <2>6. reader.next \in reader.next .. last
    BY <2>3, <2>4, <2>5 DEF Cut
  <2>7. PrintedBytes(line) \in Int
    <3>1. line \in Seq(Chars)
      BY <2>2, <2>3, ElementOfSeq
    <3> QED
      BY <3>1 DEF PrintedBytes
  <2>8. PageBytes(lines, reader.next, reader.next) <= MaxBytes(reader.limit)
    <3>1. PageBytes(lines, reader.next, reader.next) = PrintedBytes(line)
      BY <2>3, <2>7, OneLine
    <3>2. MaxBytes(reader.limit) \in Int
      BY <2>1 DEF MaxBytes
    <3> QED
      BY <2>7, <3>1, <3>2
  <2> QED
    BY <2>4, <2>6, <2>8 DEF Cut
<1> QED
  BY <1>1, Invariant, PTL

-----------------------------------------------------------------------------
(* What is copied from a page is found in the text.                        *)

(* s is how x begins.                                                      *)
Begins(s, x) == \E k \in 0 .. Len(x) : s = SubSeq(x, 1, k)

LEMMA BeginsConcat ==
    ASSUME NEW C, NEW a \in Seq(C), NEW b \in Seq(C), NEW s, Begins(s, b)
    PROVE  Begins(a \o s, a \o b)
<1>1. PICK k \in 0 .. Len(b) : s = SubSeq(b, 1, k)
  BY DEF Begins
<1>2. /\ s \in Seq(C) /\ Len(s) = k /\ k \in Nat /\ k <= Len(b)
      /\ \A i \in 1 .. k : s[i] = b[i]
  BY <1>1, PartType
<1> DEFINE n == Len(a) + k
           whole == a \o b
<1>3. /\ whole \in Seq(C) /\ Len(whole) = Len(a) + Len(b)
      /\ \A i \in 1 .. Len(whole) : whole[i] = IF i <= Len(a) THEN a[i] ELSE b[i - Len(a)]
  BY ConcatProperties
<1>4. /\ a \o s \in Seq(C) /\ Len(a \o s) = n
      /\ \A i \in 1 .. n : (a \o s)[i] = IF i <= Len(a) THEN a[i] ELSE s[i - Len(a)]
  BY <1>2, ConcatProperties
<1> HIDE DEF whole
<1>5. n \in 0 .. Len(whole)
  BY <1>2, <1>3
<1>6. /\ SubSeq(whole, 1, n) \in Seq(C) /\ Len(SubSeq(whole, 1, n)) = n
      /\ \A i \in 1 .. n : SubSeq(whole, 1, n)[i] = whole[i]
  BY <1>3, <1>5, PartType
<1>7. ASSUME NEW i \in 1 .. n PROVE (a \o s)[i] = SubSeq(whole, 1, n)[i]
  <2>1. i \in 1 .. Len(whole) /\ whole[i] = IF i <= Len(a) THEN a[i] ELSE b[i - Len(a)]
    BY <1>3, <1>5
  <2>2. i <= Len(a) \/ i - Len(a) \in 1 .. k
    BY <1>2
  <2> QED
    BY <1>2, <1>4, <1>6, <2>1, <2>2
<1>8. a \o s = SubSeq(whole, 1, n)
  BY <1>4, <1>6, <1>7, SeqEqual
<1> QED
  BY <1>5, <1>8 DEF Begins, whole

LEMMA DropCRBegins ==
    ASSUME NEW C, NEW line \in Seq(C)
    PROVE  Begins(DropCR(line), line)
<1>1. line = SubSeq(line, 1, Len(line)) /\ Len(line) \in 0 .. Len(line)
  BY SubSeqFull
<1>2. line # <<>> => Len(line) - 1 \in 0 .. Len(line)
  OBVIOUS
<1> QED
  BY <1>1, <1>2 DEF DropCR, Front, Begins

(* Parts that are the same, except that the last one is cut short, join to
   the beginning of the same text.                                         *)
LEMMA JoinBegins ==
    ASSUME NEW C, NEW p \in Seq(Seq(C)), NEW q \in Seq(Seq(C)), NEW sep \in Seq(C),
           NEW n \in Nat \ {0}, Len(p) = n, Len(q) = n,
           \A i \in 1 .. n - 1 : p[i] = q[i],
           Begins(p[n], q[n])
    PROVE  Begins(Join(p, sep), Join(q, sep))
<1> DEFINE T == Seq(C)
<1>1. PICK f \in [0 .. Len(p) -> Seq(C)] :
         /\ f[0] = <<>>
         /\ \A i \in 1 .. Len(p) : f[i] = NextPart(p, sep, i, f[i - 1])
         /\ Join(p, sep) = f[Len(p)]
  BY JoinSteps, ZenonT(30)
<1>2. PICK g \in [0 .. Len(q) -> Seq(C)] :
         /\ g[0] = <<>>
         /\ \A i \in 1 .. Len(q) : g[i] = NextPart(q, sep, i, g[i - 1])
         /\ Join(q, sep) = g[Len(q)]
  BY JoinSteps, ZenonT(30)
<1>3. \A i \in 0 .. n - 1 : f[i] = g[i]
  <2> DEFINE S == {i \in 0 .. n - 1 : f[i] = g[i]}
  <2>1. 0 \in S
    BY <1>1, <1>2
  <2>2. ASSUME NEW i \in 1 .. n - 1, i - 1 \in S PROVE i \in S
    <3>1. i \in 1 .. n /\ 1 \in 1 .. n - 1
      OBVIOUS
    <3>2. p[1] = q[1] /\ p[i] = q[i] /\ f[i - 1] = g[i - 1]
      BY <2>2, <3>1
    <3>3. NextPart(p, sep, i, f[i - 1]) = NextPart(q, sep, i, g[i - 1])
      BY <3>2, Zenon DEF NextPart
    <3> QED
      BY <1>1, <1>2, <3>1, <3>3
  <2>3. n - 1 \in Nat
    OBVIOUS
  <2>4. \A i \in 0 .. n - 1 : i \in S
    <3> HIDE DEF S
    <3> QED
      BY <2>1, <2>2, <2>3, UpTo
  <2> QED
    BY <2>4
<1>4. n \in 1 .. n /\ n - 1 \in 0 .. n - 1 /\ n - 1 \in 0 .. n
  OBVIOUS
<1>5. CASE n = 1
  BY <1>1, <1>2, <1>4, <1>5 DEF NextPart
<1>6. CASE n # 1
  <2> DEFINE before == f[n - 1]
  <2>1. before \in T /\ g[n - 1] = before
    BY <1>3, <1>4
  <2> HIDE DEF before
  <2>2. /\ Join(p, sep) = before \o sep \o p[n]
        /\ Join(q, sep) = before \o sep \o q[n]
    BY <1>1, <1>2, <1>4, <1>6, <2>1 DEF NextPart, before
  <2>3. before \o sep \in Seq(C) /\ q[n] \in Seq(C)
    BY <1>4, <2>1, ConcatProperties, ElementOfSeq
  <2> QED
    BY <2>2, <2>3, BeginsConcat
<1> QED
  BY <1>5, <1>6

(* Count finds what a text begins with.                                    *)
LEMMA BeginningCounted ==
    ASSUME NEW C, NEW x \in Seq(C), NEW old, Begins(old, x), old # <<>>
    PROVE  Count(x, old) > 0
<1>1. PICK k \in 0 .. Len(x) : old = SubSeq(x, 1, k)
  BY DEF Begins
<1>2. /\ old \in Seq(C) /\ Len(old) = k /\ k \in Nat \ {0}
      /\ Len(x) \in Nat \ {0} /\ k <= Len(x)
  BY <1>1, PartType
<1>3. Occurs(x, old, 1)
  <2>1. 1 + Len(old) - 1 = k
    BY <1>2
  <2> QED
    BY <1>1, <1>2, <2>1 DEF Occurs
<1>4. PICK f \in [0 .. Len(x) -> Seq(1 .. Len(x))] :
         /\ f[0] = <<>>
         /\ \A n \in 1 .. Len(x) : f[n] = NextPlace(x, old, n, f[n - 1])
         /\ Places(x, old) = f[Len(x)]
  BY <1>2, PlacesSteps
<1> DEFINE S == {n \in 0 .. Len(x) : n # 0 => f[n] # <<>>}
<1>5. 0 \in S
  OBVIOUS
<1>6. ASSUME NEW n \in 1 .. Len(x), n - 1 \in S PROVE n \in S
  <2>1. f[n - 1] \in Seq(1 .. Len(x)) /\ f[n] = NextPlace(x, old, n, f[n - 1])
    BY <1>4, <1>6
  <2>2. Append(f[n - 1], n) # <<>>
    <3>1. \A places \in Seq(1 .. Len(x)) : Append(places, n) # <<>>
      BY AppendProperties
    <3> QED
      BY <2>1, <3>1, Zenon
  <2>3. CASE n = 1
    <3>1. f[n - 1] = <<>>
      BY <1>4, <2>3
    <3>2. Occurs(x, old, n)
      BY <1>3, <2>3
    <3>3. NextPlace(x, old, n, f[n - 1]) = Append(f[n - 1], n)
      BY <3>1, <3>2, Zenon DEF NextPlace
    <3> QED
      BY <2>1, <2>2, <3>3
  <2>4. CASE n # 1
    <3>1. f[n - 1] # <<>>
      BY <1>6, <2>4
    <3>2. \/ NextPlace(x, old, n, f[n - 1]) = Append(f[n - 1], n)
          \/ NextPlace(x, old, n, f[n - 1]) = f[n - 1]
      BY Zenon DEF NextPlace
    <3> QED
      BY <2>1, <2>2, <3>1, <3>2
  <2> QED
    BY <2>3, <2>4
<1>7. Len(x) \in S
  <2>1. Len(x) \in 0 .. Len(x) /\ Len(x) \in Nat
    BY <1>2
  <2> HIDE DEF S
  <2> QED
    BY <1>5, <1>6, <2>1, UpTo
<1>8. Places(x, old) # <<>> /\ Places(x, old) \in Seq(1 .. Len(x))
  BY <1>2, <1>4, <1>7, PlacesType
<1> QED
  BY <1>8, EmptySeq DEF Count

LEMMA CopiedBegins ==
    ASSUME NEW C, NEW shown \in Seq(Seq(C)), NEW lines \in Seq(Seq(C)), NEW sep \in Seq(C),
           NEW from \in Nat \ {0}, NEW to \in Nat, from <= to,
           to <= Len(shown), to <= Len(lines),
           SubSeq(shown, from, to - 1) = SubSeq(lines, from, to - 1),
           Begins(shown[to], lines[to])
    PROVE  Begins(Join(SubSeq(shown, from, to), sep), Join(SubSeq(lines, from, to), sep))
<1> DEFINE p == SubSeq(shown, from, to)
           q == SubSeq(lines, from, to)
           n == to - from + 1
<1>1. n \in Nat \ {0} /\ n \in 1 .. n /\ from + n - 1 = to
  OBVIOUS
<1>2. p \in Seq(Seq(C)) /\ Len(p) = n /\ \A i \in 1 .. n : p[i] = shown[from + i - 1]
  BY <1>1, to \in Int, PartType
<1>3. q \in Seq(Seq(C)) /\ Len(q) = n /\ \A i \in 1 .. n : q[i] = lines[from + i - 1]
  <2>1. /\ SubSeq(lines, from, to) \in Seq(Seq(C))
        /\ Len(SubSeq(lines, from, to)) = IF from <= to THEN to - from + 1 ELSE 0
        /\ \A i \in 1 .. to - from + 1 : SubSeq(lines, from, to)[i] = lines[from + i - 1]
    BY to \in Int, PartType
  <2> QED
    BY <2>1
<1>4. ASSUME NEW i \in 1 .. n - 1 PROVE p[i] = q[i]
  <2>1. /\ to - 1 \in Int /\ to - 1 <= Len(shown) /\ to - 1 <= Len(lines)
        /\ i \in 1 .. to - 1 - from + 1 /\ i \in 1 .. n
    OBVIOUS
  <2>2. SubSeq(shown, from, to - 1)[i] = shown[from + i - 1]
    BY <2>1, PartType
  <2>3. SubSeq(lines, from, to - 1)[i] = lines[from + i - 1]
    BY <2>1, PartType
  <2> HIDE DEF p, q
  <2> QED
    BY <1>2, <1>3, <2>1, <2>2, <2>3
<1>5. Begins(p[n], q[n])
  <2> HIDE DEF p, q, n
  <2>1. p[n] = shown[to] /\ q[n] = lines[to]
    BY <1>1, <1>2, <1>3
  <2> QED
    BY <2>1
<1> HIDE DEF p, q, n
<1>6. Begins(Join(p, sep), Join(q, sep))
  BY <1>1, <1>2, <1>3, <1>4, <1>5, JoinBegins
<1> QED
  BY <1>6 DEF p, q

(* What a caller copies from the pages of ViewFile, ReplaceFileContent finds
   in the lines it was copied from, unless the pages hide a carriage return
   in front of one of its line breaks.                                     *)
THEOREM CopiedIsFound == Spec => []ShownIsFound
<1>1. IInv => ShownIsFound
  <2> DEFINE shown == ViewLines(text)
             lines == Lines(text)
             sep == <<NL>>
  <2> SUFFICES ASSUME IInv, NEW from \in DOMAIN shown, NEW to \in from .. Len(shown),
                      Copied(shown, from, to).old # <<>>,
                      SubSeq(shown, from, to - 1) = SubSeq(lines, from, to - 1)
               PROVE  Replaceable(text, Copied(shown, from, to))
    BY Zenon DEF ShownIsFound
  <2> DEFINE e == Copied(shown, from, to)
             copied == Join(SubSeq(shown, from, to), sep)
             chunk == Join(SubSeq(lines, from, to), sep)
  <2>1. text \in Seq(Chars) /\ NL \in Chars /\ sep \in Seq(Chars)
    BY TextAssumption DEF IInv, TextInv
  <2>2. /\ shown \in Seq(Seq(Chars)) /\ Len(shown) \in Nat /\ Len(shown) <= Len(lines)
        /\ \A k \in 1 .. Len(shown) : shown[k] = DropCR(lines[k])
    BY <2>1, ViewLinesType
  <2>3. lines \in Seq(Seq(Chars)) /\ Len(lines) \in Nat
    BY <2>1, LinesType
  <2>4. e.old = copied /\ e.from = from /\ e.to = to /\ e.multiple = TRUE /\ e.old # <<>>
    BY DEF Copied
  <2> HIDE DEF e, shown, lines, sep
  <2>5. from \in Nat \ {0} /\ from <= Len(shown)
    <3>1. from \in 1 .. Len(shown)
      BY <2>2, LenProperties
    <3> QED
      BY <2>2, <3>1
  <2>6. /\ to \in Nat \ {0} /\ from <= to /\ to <= Len(shown) /\ to <= Len(lines)
        /\ to \in 1 .. Len(shown) /\ to \in 1 .. Len(lines)
    <3>1. to \in Int /\ from <= to /\ to <= Len(shown)
      BY <2>2, <2>5
    <3>2. Len(shown) \in Nat /\ Len(lines) \in Nat /\ Len(shown) <= Len(lines)
      BY <2>2, <2>3
    <3> QED
      BY <2>5, <3>1, <3>2
  <2>7. Begins(shown[to], lines[to])
    <3>1. shown[to] = DropCR(lines[to])
      BY <2>2, <2>6
    <3>2. lines[to] \in Seq(Chars)
      <4>1. to \in 1 .. Len(lines)
        BY <2>6
      <4> QED
        BY <2>3, <4>1, ElementOfSeq, ZenonT(30)
    <3> QED
      BY <3>1, <3>2, DropCRBegins
  <2>8. Begins(copied, chunk)
    BY <2>1, <2>2, <2>3, <2>5, <2>6, <2>7, CopiedBegins
  <2>9. chunk \in Seq(Chars)
    <3>1. SubSeq(lines, from, to) \in Seq(Seq(Chars))
      BY <2>3, <2>5, <2>6, PartType
    <3> QED
      BY <2>1, <3>1, JoinType
  <2>10. /\ Ranged(e) /\ FirstLine(e) = from /\ LastLine(text, e) = to
    BY <2>3, <2>4, <2>5, <2>6 DEF Ranged, FirstLine, LastLine, AtLeast, lines
  <2>11. Chunk(text, e) = chunk
    BY <2>10 DEF Chunk, lines, sep
  <2> HIDE DEF copied, chunk
  <2>12. Count(Chunk(text, e), e.old) > 0
    BY <2>4, <2>8, <2>9, <2>11, BeginningCounted
  <2>13. Replaceable(text, e)
    BY <2>2, <2>3, <2>4, <2>5, <2>10, <2>12 DEF Replaceable, lines
  <2> QED
    BY <2>13 DEF e
<1> QED
  BY <1>1, Invariant, PTL

-----------------------------------------------------------------------------
(* TextLimits.                                                             *)

(* What is kept of the beginning and of the end of a text is at least the
   minimum, and together what was asked for or twice the minimum.          *)
LEMMA Kept ==
    ASSUME NEW m \in Nat \ {0}
    PROVE  LET head == AtLeast(m \div 3, Least)
               tail == AtLeast(m - head, Least)
           IN /\ head \in Nat /\ tail \in Nat
              /\ head >= Least /\ tail >= Least
              /\ head + tail = AtLeast(m, 2 * Least)
<1> DEFINE third == m \div 3
<1>1. third \in Nat /\ 3 * third <= m /\ m < 3 * third + 3
  OBVIOUS
<1> HIDE DEF third
<1>2. CASE third < 5
  BY <1>1, <1>2 DEF AtLeast, Least, third
<1>3. CASE third >= 5
  BY <1>1, <1>3 DEF AtLeast, Least, third
<1> QED
  BY <1>1, <1>2, <1>3

(* What one call returns, for every text and every request: nothing is shown
   twice, nothing is left out that the marker does not count, and the limit
   holds.                                                                  *)
LEMMA OneRead ==
    ASSUME NEW n \in Lengths, NEW lines \in Requests
    PROVE  LET r == ReadPane(n, lines)
               limit == AtLeast(Asked(lines), 2 * Least)
           IN /\ r.head + r.missing + r.tail = n
              /\ r.head \in 0 .. n /\ r.missing \in 0 .. n /\ r.tail \in 0 .. n
              /\ r.head + r.tail <= limit
              /\ r.missing > 0 => r.head >= Least /\ r.tail >= Least /\ n > limit
              /\ TailLines(n, lines) <= r.head + r.tail
              /\ TailLines(n, lines) < n => TailLines(n, lines) = Asked(lines)
<1> DEFINE m == Asked(lines)
           head == AtLeast(m \div 3, Least)
           tail == AtLeast(m - head, Least)
<1>1. n \in Nat /\ m \in Nat \ {0}
  BY LimitsAssumption DEF Asked, Default
<1>2. /\ head \in Nat /\ tail \in Nat /\ head >= Least /\ tail >= Least
      /\ head + tail = AtLeast(m, 2 * Least)
  BY <1>1, Kept
<1>3. ReadPane(n, lines) = IF n <= m \/ head + tail >= n THEN Whole(n)
                           ELSE [head |-> head, missing |-> n - head - tail, tail |-> tail]
  BY <1>1 DEF ReadPane, SmartTruncate
<1>4. TailLines(n, lines) = IF n <= m THEN n ELSE m
  BY DEF TailLines
<1>5. m <= AtLeast(m, 2 * Least) /\ Least \in Nat
  BY <1>1 DEF AtLeast, Least
<1> HIDE DEF m, head, tail
<1>6. CASE n <= m \/ head + tail >= n
  BY <1>1, <1>2, <1>3, <1>4, <1>5, <1>6 DEF Whole, m
<1>7. CASE ~(n <= m \/ head + tail >= n)
  BY <1>1, <1>2, <1>3, <1>4, <1>5, <1>7 DEF m
<1> QED
  BY <1>6, <1>7

(* Every answer of ReadPane and of Task.Tail is what TruncationHonest says. *)
THEOREM TruncationSound == Spec => []TruncationHonest
<1>1. Init => TruncationHonest
  BY DEF Init, NoRead, TruncationHonest, AtLeast, Asked, Least, Default
<1>2. ReadLines => TruncationHonest'
  <2> SUFFICES ASSUME ReadLines PROVE TruncationHonest'
    OBVIOUS
  <2>1. PICK n \in Lengths, lines \in Requests :
           read' = [lines |-> n, asked |-> lines, pane |-> ReadPane(n, lines),
                    last |-> TailLines(n, lines)]
    BY DEF ReadLines, ReadText
  <2>2. /\ read'.lines = n /\ read'.asked = lines
        /\ read'.pane = ReadPane(n, lines) /\ read'.last = TailLines(n, lines)
    BY <2>1, Zenon
  <2> QED
    BY <2>2, OneRead DEF TruncationHonest
<1>3. TruncationHonest /\ [Next]_vars => TruncationHonest'
  <2> SUFFICES ASSUME TruncationHonest, [Next]_vars PROVE TruncationHonest'
    OBVIOUS
  <2>1. ReadLines \/ UNCHANGED read
    BY DEF Next, vars, BeginReading, ViewFile, AskReplace, ReplaceFileContent,
           ReplaceRefused
  <2> QED
    BY <1>2, <2>1 DEF TruncationHonest
<1> QED
  BY <1>1, <1>3, PTL DEF Spec
=============================================================================
