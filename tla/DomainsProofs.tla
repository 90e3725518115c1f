---------------------------- MODULE DomainsProofs ----------------------------
(***************************************************************************)
(* Theorems about Domains: the byte tests of config.rs accept what they    *)
(* are meant to, in terms of labels, and one pass over the sorted suffixes *)
(* leaves the outermost ones.  Induction is over the natural numbers, by   *)
(* the set of those a claim holds of.                                      *)
(***************************************************************************)
EXTENDS Domains, SequenceTheorems, FiniteSetTheorems, WellFoundedInduction, TLAPS

String == Seq(Byte)

-----------------------------------------------------------------------------
(* Every set of natural numbers has a smallest element. *)
LEMMA Smallest ==
  ASSUME NEW T, T \subseteq Nat, T # {}
  PROVE  \E n \in T : \A m \in T : n <= m
<1> DEFINE R == {ss \in Nat \X Nat : ss[1] < ss[2]}
<1>1. IsWellFoundedOn(R, Nat)
  BY NatLessThanWellFounded DEF OpToRel
<1>2. \E x \in T : \A y \in T : ~(<<y, x>> \in R)
  <2> HIDE DEF R
  <2> QED BY <1>1, WFMin
<1>3. PICK x \in T : \A y \in T : ~(<<y, x>> \in R)
  BY <1>2
<1>4. ASSUME NEW y \in T PROVE x <= y
  <2>1. x \in Nat /\ y \in Nat
    OBVIOUS
  <2>2. y < x => <<y, x>> \in R
    BY <2>1
  <2> QED BY <1>3, <2>1, <2>2
<1> QED BY <1>4

(* A set that has 0 and the successor of each of its numbers has them all.  *)
LEMMA Induction ==
  ASSUME NEW T, 0 \in T, \A n \in Nat : n \in T => n + 1 \in T
  PROVE  \A n \in Nat : n \in T
<1> DEFINE Rest == Nat \ T
<1>1. SUFFICES ASSUME Rest # {} PROVE FALSE
  OBVIOUS
<1>2. PICK n \in Rest : \A m \in Rest : n <= m
  BY <1>1, Smallest
<1>3. n # 0 /\ n - 1 \in Nat
  OBVIOUS
<1>4. n - 1 \in T
  BY <1>2, <1>3
<1> QED BY <1>3, <1>4

-----------------------------------------------------------------------------
(* A suffix, place by place. *)
LEMMA SuffixByPlace ==
  ASSUME NEW S, NEW s \in Seq(S), NEW t \in Seq(S)
  PROVE  IsSuffix(s, t) <=>
           /\ Len(s) <= Len(t)
           /\ \A i \in 1 .. Len(s) : s[i] = t[Len(t) - Len(s) + i]
<1> DEFINE m == Len(s)
           n == Len(t)
           rs == Reverse(s)
           rt == Reverse(t)
<1>1. m \in Nat /\ n \in Nat /\ DOMAIN s = 1 .. m /\ DOMAIN t = 1 .. n
  BY LenProperties
<1>2. /\ rs \in Seq(S) /\ Len(rs) = m /\ \A i \in 1 .. m : rs[i] = s[m - i + 1]
      /\ rt \in Seq(S) /\ Len(rt) = n /\ \A i \in 1 .. n : rt[i] = t[n - i + 1]
  BY <1>1 DEF Reverse
<1>3. SUFFICES ASSUME m <= n
               PROVE  SubSeq(rs, 1, m) = SubSeq(rt, 1, m)
                        <=> \A i \in 1 .. m : s[i] = t[n - m + i]
  BY <1>1, <1>2 DEF IsSuffix, IsPrefix
<1>4. /\ SubSeq(rs, 1, m) \in Seq(S) /\ Len(SubSeq(rs, 1, m)) = m
      /\ \A i \in 1 .. m : SubSeq(rs, 1, m)[i] = s[m - i + 1]
      /\ SubSeq(rt, 1, m) \in Seq(S) /\ Len(SubSeq(rt, 1, m)) = m
      /\ \A i \in 1 .. m : SubSeq(rt, 1, m)[i] = t[n - i + 1]
  <2>1. (\A i \in 1 .. m : rs[i] \in S) /\ (\A i \in 1 .. m : rt[i] \in S)
    BY <1>1, <1>2, <1>3, ElementOfSeq
  <2> HIDE DEF rs, rt, m
  <2>2. /\ SubSeq(rs, 1, m) \in Seq(S) /\ Len(SubSeq(rs, 1, m)) = m
        /\ \A i \in 1 .. m : SubSeq(rs, 1, m)[i] = rs[i]
    BY <1>1, <2>1, SubSeqProperties, Z3
  <2>3. /\ SubSeq(rt, 1, m) \in Seq(S) /\ Len(SubSeq(rt, 1, m)) = m
        /\ \A i \in 1 .. m : SubSeq(rt, 1, m)[i] = rt[i]
    BY <1>1, <2>1, SubSeqProperties, Z3
  <2> QED BY <1>1, <1>2, <1>3, <2>2, <2>3
<1>5. ASSUME \A i \in 1 .. m : s[i] = t[n - m + i]
      PROVE  SubSeq(rs, 1, m) = SubSeq(rt, 1, m)
  <2>1. \A i \in 1 .. m : s[m - i + 1] = t[n - i + 1]
    <3> TAKE i \in 1 .. m
    <3>1. m - i + 1 \in 1 .. m /\ n - m + (m - i + 1) = n - i + 1
      BY <1>1
    <3> QED BY <1>5, <3>1
  <2> HIDE DEF m, n
  <2> QED BY <1>1, <1>4, <2>1, SeqEqual
<1>6. ASSUME SubSeq(rs, 1, m) = SubSeq(rt, 1, m), NEW i \in 1 .. m
      PROVE  s[i] = t[n - m + i]
  <2>1. m - i + 1 \in 1 .. m /\ m - (m - i + 1) + 1 = i /\ n - (m - i + 1) + 1 = n - m + i
    BY <1>1
  <2> QED BY <1>4, <1>6, <2>1
<1> QED BY <1>5, <1>6

-----------------------------------------------------------------------------
(* The recursion of Splitting, one byte at a time. *)
NextLabels(ls, b) ==
  IF b = Dot THEN Append(ls, <<>>) ELSE Append(Front(ls), Append(Last(ls), b))

(* A function that obeys it exists, so that Splitting is one. *)
LEMMA SplittingExists ==
  ASSUME NEW d \in String
  PROVE  Splitting(d) = [n \in 0 .. Len(d) |->
                           IF n = 0 THEN << <<>> >>
                                    ELSE NextLabels(Splitting(d)[n - 1], d[n])]
<1> DEFINE Obeys(f, n) ==
             f = [m \in 0 .. n |-> IF m = 0 THEN << <<>> >> ELSE NextLabels(f[m - 1], d[m])]
           T == {n \in Nat : \E f : Obeys(f, n)}
<1>1. 0 \in T
  <2> DEFINE f == [m \in 0 .. 0 |-> << <<>> >>]
  <2>1. \A m \in 0 .. 0 : m = 0
    OBVIOUS
  <2>2. Obeys(f, 0)
    BY <2>1, Zenon
  <2> QED BY <2>2
<1>2. ASSUME NEW n \in Nat, n \in T PROVE n + 1 \in T
  <2>1. PICK f : Obeys(f, n)
    BY <1>2
  <2> DEFINE g == [m \in 0 .. n + 1 |->
                     IF m = n + 1 THEN NextLabels(f[n], d[n + 1]) ELSE f[m]]
             h == [m \in 0 .. n + 1 |-> IF m = 0 THEN << <<>> >> ELSE NextLabels(g[m - 1], d[m])]
  <2>2. ASSUME NEW m \in 0 .. n + 1 PROVE g[m] = h[m]
    <3>1. CASE m = n + 1
      <4>1. m # 0 /\ m - 1 = n /\ n \in 0 .. n + 1 /\ n # n + 1
        BY <3>1
      <4>2. g[m] = NextLabels(f[n], d[n + 1]) /\ g[n] = f[n]
        BY <3>1, <4>1
      <4> HIDE DEF g
      <4>3. h[m] = NextLabels(g[m - 1], d[m])
        BY <4>1
      <4> QED BY <3>1, <4>1, <4>2, <4>3
    <3>2. CASE m = 0
      <4>1. 0 \in 0 .. n /\ 0 # n + 1
        OBVIOUS
      <4>2. f[0] = << <<>> >>
        BY <2>1, <4>1, Zenon
      <4> QED BY <3>2, <4>1, <4>2
    <3>3. CASE m # n + 1 /\ m # 0
      <4>1. m \in 0 .. n /\ m - 1 \in 0 .. n + 1 /\ m - 1 # n + 1
        BY <3>3
      <4>2. g[m] = f[m] /\ g[m - 1] = f[m - 1]
        BY <3>3, <4>1
      <4>3. f[m] = NextLabels(f[m - 1], d[m])
        BY <2>1, <3>3, <4>1, Zenon
      <4> HIDE DEF g
      <4>4. h[m] = NextLabels(g[m - 1], d[m])
        BY <3>3
      <4> QED BY <4>2, <4>3, <4>4
    <3> QED BY <3>1, <3>2, <3>3
  <2>3. g = h
    <3>1. g = [m \in 0 .. n + 1 |-> g[m]]
      BY Z3
    <3>2. h = [m \in 0 .. n + 1 |-> h[m]]
      <4> HIDE DEF g
      <4> QED BY Z3
    <3> HIDE DEF g, h
    <3> QED BY <2>2, <3>1, <3>2
  <2>4. Obeys(g, n + 1)
    <3> HIDE DEF g
    <3> QED BY <2>3
  <2> HIDE DEF g
  <2>5. n + 1 \in Nat
    OBVIOUS
  <2> QED BY <2>4, <2>5
<1>3. Len(d) \in T
  <2> HIDE DEF T
  <2>1. Len(d) \in Nat
    BY LenProperties DEF String
  <2> QED BY <1>1, <1>2, <2>1, Induction
<1>4. \E f : Obeys(f, Len(d))
  BY <1>3
<1>5. Splitting(d) = CHOOSE f : Obeys(f, Len(d))
  BY Zenon DEF Splitting, NextLabels
<1>6. Obeys(Splitting(d), Len(d))
  BY <1>4, <1>5, Zenon
<1> QED BY <1>6, Zenon

(* A byte in the list of labels: at a dot a label more, else a byte more in *)
(* the last one.                                                            *)
LEMMA NextLabelsByPlace ==
  ASSUME NEW ls \in Seq(String), ls # <<>>, NEW b \in Byte
  PROVE  /\ NextLabels(ls, b) \in Seq(String) /\ NextLabels(ls, b) # <<>>
         /\ b = Dot =>
              /\ Len(NextLabels(ls, b)) = Len(ls) + 1
              /\ \A i \in 1 .. Len(ls) : NextLabels(ls, b)[i] = ls[i]
              /\ NextLabels(ls, b)[Len(ls) + 1] = <<>>
         /\ b # Dot =>
              /\ Len(NextLabels(ls, b)) = Len(ls)
              /\ \A i \in 1 .. Len(ls) - 1 : NextLabels(ls, b)[i] = ls[i]
              /\ NextLabels(ls, b)[Len(ls)] = Append(ls[Len(ls)], b)
<1>1. Len(ls) \in Nat \ {0} /\ \A i \in 1 .. Len(ls) : ls[i] \in String
  BY EmptySeq, ElementOfSeq
<1>2. CASE b = Dot
  <2>1. <<>> \in String
    BY DEF String
  <2>2. NextLabels(ls, b) = Append(ls, <<>>)
    BY <1>2 DEF NextLabels
  <2> QED BY <1>1, <1>2, <2>1, <2>2, AppendProperties
<1>3. CASE b # Dot
  <2> DEFINE n == Len(ls)
             f == SubSeq(ls, 1, n - 1)
             l == Append(ls[n], b)
  <2>1. f \in Seq(String) /\ Len(f) = n - 1 /\ \A i \in 1 .. n - 1 : f[i] = ls[i]
    <3>1. n \in Nat \ {0} /\ n - 1 \in Int /\ \A i \in 1 .. n - 1 : ls[i] \in String
      BY <1>1
    <3> HIDE DEF n
    <3> QED BY <3>1, SubSeqProperties, Z3
  <2>2. l \in String
    BY <1>1 DEF String
  <2>3. NextLabels(ls, b) = Append(f, l)
    BY <1>3 DEF NextLabels, Front, Last
  <2> HIDE DEF f, l
  <2>4. /\ Append(f, l) \in Seq(String) /\ Append(f, l) # <<>>
        /\ Len(Append(f, l)) = Len(f) + 1
        /\ \A i \in 1 .. Len(f) : Append(f, l)[i] = f[i]
        /\ Append(f, l)[Len(f) + 1] = l
    BY <2>1, <2>2, AppendProperties
  <2>5. n - 1 + 1 = n
    BY <1>1
  <2>6. l = Append(ls[n], b)
    BY DEF l
  <2> QED BY <1>1, <1>3, <2>1, <2>3, <2>4, <2>5, <2>6
<1> QED BY <1>2, <1>3

(* The labels of the first n bytes, place by place. *)
Grows(d, n) ==
  LET before == Splitting(d)[n - 1]
      after  == Splitting(d)[n]
  IN /\ d[n] = Dot =>
          /\ Len(after) = Len(before) + 1
          /\ \A i \in 1 .. Len(before) : after[i] = before[i]
          /\ after[Len(before) + 1] = <<>>
     /\ d[n] # Dot =>
          /\ Len(after) = Len(before)
          /\ \A i \in 1 .. Len(before) - 1 : after[i] = before[i]
          /\ after[Len(before)] = Append(before[Len(before)], d[n])

LEMMA SplittingByPlace ==
  ASSUME NEW d \in String
  PROVE  /\ Len(d) \in Nat /\ \A n \in 1 .. Len(d) : d[n] \in Byte
         /\ Splitting(d)[0] = << <<>> >>
         /\ \A n \in 0 .. Len(d) :
              /\ Splitting(d)[n] \in Seq(String)
              /\ Len(Splitting(d)[n]) \in Nat \ {0}
         /\ \A n \in 1 .. Len(d) : Grows(d, n)
<1> DEFINE S == Splitting(d)
<1>1. Len(d) \in Nat /\ \A n \in 1 .. Len(d) : d[n] \in Byte
  BY LenProperties, ElementOfSeq DEF String
<1>2. S[0] = << <<>> >> /\ \A n \in 1 .. Len(d) : S[n] = NextLabels(S[n - 1], d[n])
  <2> HIDE DEF S
  <2>1. S = [n \in 0 .. Len(d) |-> IF n = 0 THEN << <<>> >> ELSE NextLabels(S[n - 1], d[n])]
    BY SplittingExists DEF S
  <2>2. 0 \in 0 .. Len(d) /\ \A n \in 1 .. Len(d) : n \in 0 .. Len(d) /\ n # 0
    BY <1>1
  <2> QED BY <2>1, <2>2, Zenon
<1> DEFINE T == {n \in Nat : n <= Len(d) => S[n] \in Seq(String) /\ S[n] # <<>>}
<1>3. 0 \in T
  <2>1. <<>> \in String
    BY DEF String
  <2>2. << <<>> >> \in Seq(String) /\ << <<>> >> # <<>>
    BY <2>1
  <2> HIDE DEF S
  <2> QED BY <1>2, <2>2
<1>4. ASSUME NEW n \in Nat, n \in T PROVE n + 1 \in T
  <2>1. CASE n + 1 <= Len(d)
    <3>1. n + 1 \in 1 .. Len(d) /\ n + 1 - 1 = n /\ n <= Len(d)
      BY <1>1, <2>1
    <3>2. S[n] \in Seq(String) /\ S[n] # <<>> /\ d[n + 1] \in Byte
      BY <1>1, <1>4, <3>1
    <3> HIDE DEF S
    <3>3. S[n + 1] = NextLabels(S[n], d[n + 1])
      BY <1>2, <3>1
    <3> QED BY <3>2, <3>3, NextLabelsByPlace
  <2>2. CASE ~(n + 1 <= Len(d))
    BY <2>2
  <2> QED BY <2>1, <2>2
<1>5. \A n \in 0 .. Len(d) : S[n] \in Seq(String) /\ S[n] # <<>>
  <2>1. \A n \in Nat : n \in T
    <3> HIDE DEF T
    <3> QED BY <1>3, <1>4, Induction
  <2> QED BY <1>1, <2>1
<1>6. \A n \in 0 .. Len(d) : S[n] \in Seq(String) /\ Len(S[n]) \in Nat \ {0}
  <2> HIDE DEF S
  <2> QED BY <1>5, EmptySeq
<1>7. ASSUME NEW n \in 1 .. Len(d) PROVE Grows(d, n)
  <2>1. n - 1 \in 0 .. Len(d)
    BY <1>1
  <2>2. S[n] = NextLabels(S[n - 1], d[n])
    BY <1>2
  <2>3. Splitting(d)[n - 1] = S[n - 1] /\ Splitting(d)[n] = S[n]
    OBVIOUS
  <2>4. S[n - 1] \in Seq(String) /\ S[n - 1] # <<>> /\ d[n] \in Byte
    BY <1>1, <1>5, <2>1
  <2> DEFINE before == S[n - 1]
             after == S[n]
  <2>5. /\ d[n] = Dot =>
             /\ Len(after) = Len(before) + 1
             /\ \A i \in 1 .. Len(before) : after[i] = before[i]
             /\ after[Len(before) + 1] = <<>>
        /\ d[n] # Dot =>
             /\ Len(after) = Len(before)
             /\ \A i \in 1 .. Len(before) - 1 : after[i] = before[i]
             /\ after[Len(before)] = Append(before[Len(before)], d[n])
    <3>1. /\ before \in Seq(String) /\ before # <<>> /\ d[n] \in Byte
          /\ after = NextLabels(before, d[n])
      BY <2>2, <2>4
    <3> HIDE DEF before, after
    <3> QED BY <3>1, NextLabelsByPlace
  <2> QED BY <2>5 DEF Grows
<1> QED BY <1>1, <1>2, <1>6, <1>7

(* The last label is empty at the start and after a dot. *)
LEMMA LastLabelEmpty ==
  ASSUME NEW d \in String, NEW n \in 0 .. Len(d)
  PROVE  LET ls == Splitting(d)[n] IN ls[Len(ls)] = <<>> <=> n = 0 \/ d[n] = Dot
<1> DEFINE S == Splitting(d)
<1>1. CASE n = 0
  <2>1. S[0] = << <<>> >>
    BY SplittingByPlace
  <2> HIDE DEF S
  <2>2. S[n][Len(S[n])] = <<>>
    BY <1>1, <2>1
  <2> QED BY <1>1, <2>2 DEF S
<1>2. CASE n # 0
  <2>1. n \in 1 .. Len(d) /\ n - 1 \in 0 .. Len(d) /\ Len(d) \in Nat
    BY <1>2, SplittingByPlace
  <2>2. Grows(d, n) /\ d[n] \in Byte /\ S[n - 1] \in Seq(String) /\ Len(S[n - 1]) \in Nat \ {0}
    BY <2>1, SplittingByPlace
  <2>3. S[n - 1][Len(S[n - 1])] \in String
    <3> HIDE DEF S
    <3> QED BY <2>2, ElementOfSeq
  <2>4. d[n] # Dot => S[n][Len(S[n])] # <<>>
    <3> DEFINE l == S[n - 1][Len(S[n - 1])]
    <3>1. d[n] # Dot => S[n][Len(S[n])] = Append(l, d[n])
      BY <2>2 DEF Grows
    <3>2. l \in Seq(Byte)
      BY <2>3 DEF String
    <3> HIDE DEF l
    <3>3. Append(l, d[n]) # <<>>
      BY <2>2, <3>2, AppendProperties
    <3> QED BY <3>1, <3>3
  <2>5. d[n] = Dot => S[n][Len(S[n])] = <<>>
    BY <2>2 DEF Grows
  <2> QED BY <1>2, <2>4, <2>5
<1> QED BY <1>1, <1>2

(* No label but the last is empty if no dot is the first byte or follows    *)
(* another one.                                                             *)
LEMMA EmptyLabels ==
  ASSUME NEW d \in String, NEW m \in 0 .. Len(d)
  PROVE  LET ls == Splitting(d)[m]
         IN (\A i \in 1 .. Len(ls) - 1 : ls[i] # <<>>)
              <=> \A k \in 1 .. m : d[k] = Dot => k # 1 /\ d[k - 1] # Dot
<1> DEFINE S == Splitting(d)
           Full(n) == \A i \in 1 .. Len(S[n]) - 1 : S[n][i] # <<>>
           Apart(n) == \A k \in 1 .. n : d[k] = Dot => k # 1 /\ d[k - 1] # Dot
           T == {n \in Nat : n <= Len(d) => (Full(n) <=> Apart(n))}
<1>0. Len(d) \in Nat
  BY SplittingByPlace
<1>1. 0 \in T
  <2>1. S[0] = << <<>> >>
    BY SplittingByPlace
  <2> HIDE DEF S
  <2>2. Full(0)
    BY <2>1
  <2>3. Apart(0)
    OBVIOUS
  <2> QED BY <2>2, <2>3
<1>2. ASSUME NEW n \in Nat, n \in T PROVE n + 1 \in T
  <2>1. SUFFICES ASSUME n + 1 <= Len(d) PROVE Full(n + 1) <=> Apart(n + 1)
    BY <1>2
  <2>2. n \in 0 .. Len(d) /\ n + 1 \in 1 .. Len(d) /\ n + 1 - 1 = n /\ (n + 1 = 1 <=> n = 0)
    BY <1>0, <2>1
  <2>3. Full(n) <=> Apart(n)
    <3>1. n <= Len(d)
      BY <2>2
    <3> HIDE DEF Full, Apart
    <3> QED BY <1>2, <3>1
  <2>4. Len(S[n]) \in Nat \ {0} /\ Grows(d, n + 1)
    BY <2>2, SplittingByPlace
  <2>5. S[n][Len(S[n])] = <<>> <=> n = 0 \/ d[n] = Dot
    BY <2>2, LastLabelEmpty
  <2>6. Apart(n + 1) <=> Apart(n) /\ (d[n + 1] = Dot => n # 0 /\ d[n] # Dot)
    BY <2>2
  <2>7. CASE d[n + 1] = Dot
    <3>1. /\ Len(S[n + 1]) = Len(S[n]) + 1
          /\ \A i \in 1 .. Len(S[n]) : S[n + 1][i] = S[n][i]
      BY <2>2, <2>4, <2>7 DEF Grows
    <3> DEFINE L == Len(S[n])
    <3>2. Full(n + 1) <=> \A i \in 1 .. L : S[n][i] # <<>>
      <4> HIDE DEF S
      <4> QED BY <2>4, <3>1
    <3>3. Full(n + 1) <=> Full(n) /\ S[n][L] # <<>>
      <4>1. L \in 1 .. L /\ \A i \in 1 .. L : i = L \/ i \in 1 .. L - 1
        BY <2>4
      <4>2. \A i \in 1 .. L - 1 : i \in 1 .. L
        BY <2>4
      <4> HIDE DEF S
      <4> QED BY <3>2, <4>1, <4>2
    <3> HIDE DEF S
    <3> QED BY <2>3, <2>5, <2>6, <2>7, <3>3
  <2>8. CASE d[n + 1] # Dot
    <3>1. /\ Len(S[n + 1]) = Len(S[n])
          /\ \A i \in 1 .. Len(S[n]) - 1 : S[n + 1][i] = S[n][i]
      BY <2>2, <2>4, <2>8 DEF Grows
    <3>2. Full(n + 1) <=> Full(n)
      <4> HIDE DEF S
      <4> QED BY <3>1
    <3> QED BY <2>3, <2>6, <2>8, <3>2
  <2> QED BY <2>7, <2>8
<1>3. m \in T
  <2> HIDE DEF T
  <2> QED BY <1>0, <1>1, <1>2, Induction
<1> QED BY <1>0, <1>3

(* The labels have the bytes of the string that are not dots. *)
LEMMA BytesOfLabels ==
  ASSUME NEW d \in String, NEW A, NEW m \in 0 .. Len(d)
  PROVE  LET ls == Splitting(d)[m]
         IN (\A i \in 1 .. Len(ls) : ToSet(ls[i]) \subseteq A)
              <=> \A k \in 1 .. m : d[k] = Dot \/ d[k] \in A
<1> DEFINE S == Splitting(d)
           Within(n) == \A i \in 1 .. Len(S[n]) : ToSet(S[n][i]) \subseteq A
           Plain(n) == \A k \in 1 .. n : d[k] = Dot \/ d[k] \in A
           T == {n \in Nat : n <= Len(d) => (Within(n) <=> Plain(n))}
<1>0. Len(d) \in Nat /\ ToSet(<<>>) \subseteq A
  BY SplittingByPlace DEF ToSet
<1>1. 0 \in T
  <2>1. S[0] = << <<>> >>
    BY SplittingByPlace
  <2> HIDE DEF S
  <2>2. Within(0)
    BY <1>0, <2>1
  <2>3. Plain(0)
    OBVIOUS
  <2> QED BY <2>2, <2>3
<1>2. ASSUME NEW n \in Nat, n \in T PROVE n + 1 \in T
  <2>1. SUFFICES ASSUME n + 1 <= Len(d) PROVE Within(n + 1) <=> Plain(n + 1)
    BY <1>2
  <2>2. n \in 0 .. Len(d) /\ n + 1 \in 1 .. Len(d) /\ n + 1 - 1 = n
    BY <1>0, <2>1
  <2>3. Within(n) <=> Plain(n)
    BY <1>2, <2>2
  <2>4. /\ S[n] \in Seq(String) /\ Len(S[n]) \in Nat \ {0}
        /\ Grows(d, n + 1) /\ d[n + 1] \in Byte
    BY <2>2, SplittingByPlace
  <2>5. Plain(n + 1) <=> Plain(n) /\ (d[n + 1] = Dot \/ d[n + 1] \in A)
    BY <2>2
  <2> DEFINE L == Len(S[n])
  <2>6. /\ L \in 1 .. L /\ \A i \in 1 .. L : i = L \/ i \in 1 .. L - 1
        /\ L + 1 \in 1 .. L + 1 /\ \A i \in 1 .. L + 1 : i = L + 1 \/ i \in 1 .. L
        /\ \A i \in 1 .. L - 1 : i \in 1 .. L
        /\ \A i \in 1 .. L : i \in 1 .. L + 1
    BY <2>4
  <2>7. CASE d[n + 1] = Dot
    <3>1. /\ Len(S[n + 1]) = L + 1
          /\ \A i \in 1 .. L : S[n + 1][i] = S[n][i]
          /\ S[n + 1][L + 1] = <<>>
      BY <2>2, <2>4, <2>7 DEF Grows
    <3>2. Within(n + 1) <=> Within(n)
      <4> HIDE DEF S
      <4> QED BY <1>0, <2>6, <3>1
    <3> QED BY <2>3, <2>5, <2>7, <3>2
  <2>8. CASE d[n + 1] # Dot
    <3> DEFINE l == S[n][L]
    <3>1. /\ Len(S[n + 1]) = L
          /\ \A i \in 1 .. L - 1 : S[n + 1][i] = S[n][i]
          /\ S[n + 1][L] = Append(l, d[n + 1])
      BY <2>2, <2>4, <2>8 DEF Grows
    <3>2. l \in String
      <4> HIDE DEF S
      <4> QED BY <2>4, <2>6, ElementOfSeq
    <3>3. ToSet(Append(l, d[n + 1])) = ToSet(l) \cup {d[n + 1]}
      <4>1. l \in Seq(Byte)
        BY <3>2 DEF String
      <4> DEFINE a == Append(l, d[n + 1])
      <4> HIDE DEF l
      <4>2. /\ Len(l) \in Nat /\ DOMAIN l = 1 .. Len(l)
            /\ a \in Seq(Byte) /\ Len(a) = Len(l) + 1
            /\ \A i \in 1 .. Len(l) : a[i] = l[i]
            /\ a[Len(l) + 1] = d[n + 1]
        BY <2>4, <4>1, AppendProperties, LenProperties
      <4>3. DOMAIN a = 1 .. Len(l) + 1
        BY <4>2, LenProperties
      <4> HIDE DEF a
      <4>4. ToSet(a) \subseteq ToSet(l) \cup {d[n + 1]}
        BY <4>2, <4>3 DEF ToSet
      <4>5. ToSet(l) \subseteq ToSet(a) /\ d[n + 1] \in ToSet(a)
        BY <4>2, <4>3 DEF ToSet
      <4> QED BY <4>4, <4>5 DEF a
    <3>4. Within(n + 1) <=> Within(n) /\ d[n + 1] \in A
      <4> HIDE DEF S
      <4> QED BY <2>6, <3>1, <3>3
    <3> QED BY <2>3, <2>5, <2>8, <3>4
  <2> QED BY <2>7, <2>8
<1>3. m \in T
  <2> HIDE DEF T
  <2> QED BY <1>0, <1>1, <1>2, Induction
<1> QED BY <1>0, <1>3

(* The first label is the string up to the first dot, as far as it matters  *)
(* here: it is "*" only in a string that begins with "*.".                  *)
LEMMA FirstLabel ==
  ASSUME NEW d \in String, NEW m \in 0 .. Len(d)
  PROVE  LET ls == Splitting(d)[m]
         IN /\ Len(ls) = 1 => Len(ls[1]) = m /\ \A i \in 1 .. m : ls[1][i] = d[i]
            /\ Len(ls) > 1 /\ ls[1] = <<Star>> => m >= 2 /\ d[1] = Star /\ d[2] = Dot
<1> DEFINE S == Splitting(d)
           Single(n) == Len(S[n]) = 1 => Len(S[n][1]) = n /\ \A i \in 1 .. n : S[n][1][i] = d[i]
           Wild(n) == Len(S[n]) > 1 /\ S[n][1] = <<Star>> => n >= 2 /\ d[1] = Star /\ d[2] = Dot
           T == {n \in Nat : n <= Len(d) => Single(n) /\ Wild(n)}
<1>0. Len(d) \in Nat
  BY SplittingByPlace
<1>1. 0 \in T
  <2>1. S[0] = << <<>> >>
    BY SplittingByPlace
  <2> HIDE DEF S
  <2> QED BY <2>1
<1>2. ASSUME NEW n \in Nat, n \in T PROVE n + 1 \in T
  <2>1. SUFFICES ASSUME n + 1 <= Len(d) PROVE Single(n + 1) /\ Wild(n + 1)
    BY <1>2
  <2>2. n \in 0 .. Len(d) /\ n + 1 \in 1 .. Len(d) /\ n + 1 - 1 = n /\ n <= Len(d)
    BY <1>0, <2>1
  <2>3. Single(n) /\ Wild(n)
    <3> HIDE DEF Single, Wild
    <3> QED BY <1>2, <2>2
  <2>4. /\ S[n] \in Seq(String) /\ Len(S[n]) \in Nat \ {0}
        /\ Grows(d, n + 1) /\ d[n + 1] \in Byte
    BY <2>2, SplittingByPlace
  <2> DEFINE L == Len(S[n])
             l == S[n][1]
  <2>5. l \in Seq(Byte)
    <3> HIDE DEF S
    <3>1. 1 \in 1 .. L
      BY <2>4
    <3> QED BY <2>4, <3>1, ElementOfSeq DEF String
  <2>6. CASE d[n + 1] = Dot
    <3>1. Len(S[n + 1]) = L + 1 /\ S[n + 1][1] = l
      BY <2>2, <2>4, <2>6 DEF Grows
    <3>2. Single(n + 1)
      <4>1. L + 1 # 1
        BY <2>4
      <4> HIDE DEF S, L, l
      <4> QED BY <3>1, <4>1
    <3>3. Wild(n + 1)
      <4> SUFFICES ASSUME l = <<Star>> PROVE n + 1 >= 2 /\ d[1] = Star /\ d[2] = Dot
        BY <3>1
      <4>1. Len(l) = 1 /\ l[1] = Star
        OBVIOUS
      <4>2. CASE L = 1
        <5>1. n = 1 /\ d[1] = Star
          <6> HIDE DEF S
          <6> QED BY <2>3, <4>1, <4>2
        <5> QED BY <2>6, <5>1
      <4>3. CASE L # 1
        <5> HIDE DEF S
        <5> QED BY <2>3, <2>4, <4>3
      <4> QED BY <4>2, <4>3
    <3> QED BY <3>2, <3>3
  <2>7. CASE d[n + 1] # Dot
    <3>1. /\ Len(S[n + 1]) = L
          /\ \A i \in 1 .. L - 1 : S[n + 1][i] = S[n][i]
          /\ S[n + 1][L] = Append(S[n][L], d[n + 1])
      BY <2>2, <2>4, <2>7 DEF Grows
    <3>2. CASE L = 1
      <4> DEFINE a == Append(l, d[n + 1])
      <4>1. Len(S[n + 1]) = 1 /\ S[n + 1][1] = a
        <5> HIDE DEF S
        <5> QED BY <3>1, <3>2
      <4>2. Len(l) = n /\ \A i \in 1 .. n : l[i] = d[i]
        <5> HIDE DEF S
        <5> QED BY <2>3, <3>2
      <4>3. Len(a) = n + 1 /\ (\A i \in 1 .. n : a[i] = l[i]) /\ a[n + 1] = d[n + 1]
        <5> HIDE DEF l
        <5> QED BY <2>4, <2>5, <4>2, AppendProperties
      <4> HIDE DEF a, l
      <4>4. Single(n + 1)
        <5> HIDE DEF S
        <5> QED BY <4>1, <4>2, <4>3
      <4>5. Wild(n + 1)
        <5> HIDE DEF S
        <5> QED BY <4>1
      <4> QED BY <4>4, <4>5
    <3>3. CASE L # 1
      <4>1. S[n + 1][1] = S[n][1] /\ Len(S[n + 1]) = Len(S[n])
        <5>1. 1 \in 1 .. L - 1
          <6>1. L \in Nat \ {0}
            BY <2>4
          <6> HIDE DEF L
          <6> QED BY <3>3, <6>1
        <5> QED BY <3>1, <5>1
      <4>2. Single(n + 1)
        <5> HIDE DEF S
        <5> QED BY <3>3, <4>1
      <4>3. Wild(n + 1)
        <5> HIDE DEF S
        <5> QED BY <2>3, <4>1
      <4> QED BY <4>2, <4>3
    <3> QED BY <3>2, <3>3
  <2> QED BY <2>6, <2>7
<1>3. m \in T
  <2> HIDE DEF T
  <2> QED BY <1>0, <1>1, <1>2, Induction
<1>4. Single(m) /\ Wild(m)
  <2>1. m <= Len(d)
    BY <1>0
  <2> HIDE DEF Single, Wild
  <2> QED BY <1>3, <2>1
<1> QED BY <1>4

(* d stands at the end of e: at its start, or behind a dot.                 *)
EndsAt(d, e, k) ==
  /\ Len(e) = k + Len(d)
  /\ \A i \in 1 .. Len(d) : e[k + i] = d[i]
  /\ k = 0 \/ e[k] = Dot

(* Then the labels of e are those of what is before, and those of d.        *)
LEMMA LabelsOfEnd ==
  ASSUME NEW d \in String, NEW e \in String, NEW k \in Nat, EndsAt(d, e, k),
         NEW m \in 0 .. Len(d)
  PROVE  LET ds == Splitting(d)[m]
             es == Splitting(e)[k + m]
             before == Splitting(e)[k]
         IN /\ Len(es) = Len(before) - 1 + Len(ds)
            /\ \A i \in 1 .. Len(before) - 1 : es[i] = before[i]
            /\ \A i \in 1 .. Len(ds) : es[Len(before) - 1 + i] = ds[i]
<1> DEFINE D == Splitting(d)
           E == Splitting(e)
           c == Len(E[k]) - 1
           Same(n) ==
             /\ Len(E[k + n]) = c + Len(D[n])
             /\ \A i \in 1 .. c : E[k + n][i] = E[k][i]
             /\ \A i \in 1 .. Len(D[n]) : E[k + n][c + i] = D[n][i]
           T == {n \in Nat : n <= Len(d) => Same(n)}
<1>0. Len(d) \in Nat /\ Len(e) = k + Len(d) /\ k \in 0 .. Len(e)
  BY SplittingByPlace DEF EndsAt
<1>1. c \in Nat /\ Len(E[k]) = c + 1 /\ E[k][c + 1] = <<>>
  <2>1. Len(E[k]) \in Nat \ {0}
    BY <1>0, SplittingByPlace
  <2>2. E[k][Len(E[k])] = <<>>
    BY <1>0, LastLabelEmpty DEF EndsAt
  <2> HIDE DEF E
  <2>3. c + 1 = Len(E[k])
    BY <2>1
  <2> QED BY <2>1, <2>2, <2>3
<1>2. 0 \in T
  <2>1. D[0] = << <<>> >> /\ k + 0 = k
    BY SplittingByPlace
  <2> HIDE DEF D, E
  <2>2. Len(D[0]) = 1 /\ D[0][1] = <<>>
    BY <2>1
  <2> HIDE DEF c
  <2>3. Same(0)
    BY <1>1, <2>1, <2>2
  <2> QED BY <2>3
<1>3. ASSUME NEW n \in Nat, n \in T PROVE n + 1 \in T
  <2>1. SUFFICES ASSUME n + 1 <= Len(d) PROVE Same(n + 1)
    <3> HIDE DEF Same
    <3> QED BY <1>3
  <2>2. /\ n \in 0 .. Len(d) /\ n + 1 \in 1 .. Len(d) /\ n + 1 - 1 = n /\ n <= Len(d)
        /\ k + n \in 0 .. Len(e) /\ k + (n + 1) \in 1 .. Len(e) /\ k + (n + 1) - 1 = k + n
    BY <1>0, <2>1
  <2>3. Same(n)
    <3> HIDE DEF Same
    <3> QED BY <1>3, <2>2
  <2>4. e[k + (n + 1)] = d[n + 1]
    BY <2>2 DEF EndsAt
  <2>5. Len(D[n]) \in Nat \ {0} /\ Len(E[k + n]) \in Nat \ {0}
    BY <2>2, SplittingByPlace
  <2>6. Grows(d, n + 1) /\ Grows(e, k + (n + 1))
    BY <2>2, SplittingByPlace
  <2> DEFINE L == Len(D[n])
             M == Len(E[k + n])
  <2>7. M = c + L /\ L \in Nat \ {0} /\ M \in Nat \ {0}
    BY <2>3, <2>5
  <2>8. CASE d[n + 1] = Dot
    <3>1. /\ Len(D[n + 1]) = L + 1
          /\ \A i \in 1 .. L : D[n + 1][i] = D[n][i]
          /\ D[n + 1][L + 1] = <<>>
          /\ Len(E[k + (n + 1)]) = M + 1
          /\ \A i \in 1 .. M : E[k + (n + 1)][i] = E[k + n][i]
          /\ E[k + (n + 1)][M + 1] = <<>>
      BY <2>2, <2>4, <2>6, <2>8 DEF Grows
    <3> HIDE DEF D, E, c
    <3>2. Len(E[k + (n + 1)]) = c + Len(D[n + 1])
      BY <1>1, <2>5, <2>7, <3>1
    <3>3. \A i \in 1 .. c : E[k + (n + 1)][i] = E[k][i]
      <4>1. \A i \in 1 .. c : i \in 1 .. M
        BY <1>1, <2>5, <2>7
      <4> QED BY <2>3, <3>1, <4>1
    <3>4. ASSUME NEW i \in 1 .. Len(D[n + 1])
          PROVE  E[k + (n + 1)][c + i] = D[n + 1][i]
      <4>1. CASE i = L + 1
        <5>1. c + i = M + 1
          BY <1>1, <2>5, <2>7, <4>1
        <5> QED BY <3>1, <4>1, <5>1
      <4>2. CASE i # L + 1
        <5>1. i \in 1 .. L /\ c + i \in 1 .. M
          <6>1. i \in 1 .. L + 1
            BY <3>1
          <6> HIDE DEF L, M
          <6> QED BY <1>1, <2>7, <4>2, <6>1
        <5> QED BY <2>3, <3>1, <5>1
      <4> QED BY <4>1, <4>2
    <3> QED BY <3>2, <3>3, <3>4
  <2>9. CASE d[n + 1] # Dot
    <3>1. /\ Len(D[n + 1]) = L
          /\ \A i \in 1 .. L - 1 : D[n + 1][i] = D[n][i]
          /\ D[n + 1][L] = Append(D[n][L], d[n + 1])
          /\ Len(E[k + (n + 1)]) = M
          /\ \A i \in 1 .. M - 1 : E[k + (n + 1)][i] = E[k + n][i]
          /\ E[k + (n + 1)][M] = Append(E[k + n][M], d[n + 1])
      BY <2>2, <2>4, <2>6, <2>9 DEF Grows
    <3> HIDE DEF D, E, c
    <3>2. Len(E[k + (n + 1)]) = c + Len(D[n + 1])
      BY <2>7, <3>1
    <3>3. \A i \in 1 .. c : E[k + (n + 1)][i] = E[k][i]
      <4>1. \A i \in 1 .. c : i \in 1 .. M - 1
        BY <1>1, <2>5, <2>7
      <4> QED BY <2>3, <3>1, <4>1
    <3>4. ASSUME NEW i \in 1 .. Len(D[n + 1])
          PROVE  E[k + (n + 1)][c + i] = D[n + 1][i]
      <4>1. CASE i = L
        <5>1. c + i = M /\ L \in 1 .. L
          BY <2>5, <2>7, <4>1
        <5>2. E[k + n][M] = D[n][L]
          BY <2>3, <4>1, <5>1
        <5> QED BY <3>1, <4>1, <5>1, <5>2
      <4>2. CASE i # L
        <5>1. i \in 1 .. L - 1 /\ c + i \in 1 .. M - 1 /\ i \in 1 .. L
          <6>1. i \in 1 .. L
            BY <3>1
          <6> HIDE DEF L, M
          <6> QED BY <1>1, <2>7, <4>2, <6>1
        <5> QED BY <2>3, <3>1, <5>1
      <4> QED BY <4>1, <4>2
    <3> QED BY <3>2, <3>3, <3>4
  <2> QED BY <2>8, <2>9
<1>4. m \in T
  <2> HIDE DEF T
  <2> QED BY <1>0, <1>2, <1>3, Induction
<1>5. Same(m)
  <2>1. m <= Len(d)
    BY <1>0
  <2> HIDE DEF Same
  <2> QED BY <1>4, <2>1
<1> QED BY <1>5

-----------------------------------------------------------------------------
(* Labels that are neither empty nor have other bytes than a name may have. *)
PlainLabels(ls) == \A i \in DOMAIN ls : ls[i] # <<>> /\ ToSet(ls[i]) \subseteq Ascii \ {Star}

(* What validate_domain tests, before parse_dns_name, is that of the labels.*)
LEMMA ValidMeansPlain ==
  ASSUME NEW d \in String
  PROVE  ValidDomain(d) <=> PlainLabels(Labels(d)) /\ IsDnsName(d)
<1> DEFINE N == Len(d)
           ls == Labels(d)
           A == Ascii \ {Star}
           Apart == \A k \in 1 .. N : d[k] = Dot => k # 1 /\ d[k - 1] # Dot
           Plain == \A k \in 1 .. N : d[k] = Dot \/ d[k] \in A
<1>1. /\ N \in Nat /\ N \in 0 .. N /\ DOMAIN d = 1 .. N /\ (d = <<>> <=> N = 0)
      /\ ls \in Seq(String) /\ Len(ls) \in Nat \ {0} /\ DOMAIN ls = 1 .. Len(ls)
  <2>1. N \in Nat /\ DOMAIN d = 1 .. N /\ (d = <<>> <=> N = 0)
    BY EmptySeq, LenProperties DEF String
  <2>2. N \in 0 .. N
    BY <2>1
  <2>3. ls \in Seq(String) /\ Len(ls) \in Nat \ {0}
    BY <2>2, SplittingByPlace DEF Labels
  <2> QED BY <2>1, <2>2, <2>3, LenProperties
<1>2. (\A i \in 1 .. Len(ls) - 1 : ls[i] # <<>>) <=> Apart
  BY <1>1, EmptyLabels DEF Labels
<1>3. ls[Len(ls)] = <<>> <=> N = 0 \/ d[N] = Dot
  BY <1>1, LastLabelEmpty DEF Labels
<1>4. (\A i \in 1 .. Len(ls) : ToSet(ls[i]) \subseteq A) <=> Plain
  BY <1>1, BytesOfLabels DEF Labels
<1>5. PlainLabels(ls) <=> Apart /\ ~(N = 0 \/ d[N] = Dot) /\ Plain
  <2> HIDE DEF ls, Apart, Plain, A
  <2>1. /\ \A i \in 1 .. Len(ls) : i = Len(ls) \/ i \in 1 .. Len(ls) - 1
        /\ Len(ls) \in 1 .. Len(ls) /\ \A i \in 1 .. Len(ls) - 1 : i \in 1 .. Len(ls)
    <3> DEFINE L == Len(ls)
    <3>1. L \in Nat \ {0}
      BY <1>1
    <3> HIDE DEF L
    <3>2. /\ \A i \in 1 .. L : i = L \/ i \in 1 .. L - 1
          /\ L \in 1 .. L /\ \A i \in 1 .. L - 1 : i \in 1 .. L
      BY <3>1
    <3> QED BY <3>2 DEF L
  <2> QED BY <1>1, <1>2, <1>3, <1>4, <2>1 DEF PlainLabels, A
<1>6. ASSUME N # 0
      PROVE  Apart <=> d[1] # Dot /\ \A i \in 1 .. N - 1 : ~(d[i] = Dot /\ d[i + 1] = Dot)
  <2>1. ASSUME Apart PROVE d[1] # Dot /\ \A i \in 1 .. N - 1 : ~(d[i] = Dot /\ d[i + 1] = Dot)
    <3>1. 1 \in 1 .. N /\ \A i \in 1 .. N - 1 : i + 1 \in 1 .. N /\ i + 1 - 1 = i
      BY <1>1, <1>6
    <3> QED BY <2>1, <3>1
  <2>2. ASSUME d[1] # Dot, \A i \in 1 .. N - 1 : ~(d[i] = Dot /\ d[i + 1] = Dot)
        PROVE  Apart
    <3> SUFFICES ASSUME NEW k \in 1 .. N, d[k] = Dot, k # 1 PROVE d[k - 1] # Dot
      BY <2>2
    <3>1. k - 1 \in 1 .. N - 1 /\ k - 1 + 1 = k
      BY <1>1
    <3> QED BY <2>2, <3>1
  <2> QED BY <2>1, <2>2
<1>7. Plain <=> ToSet(d) \subseteq Ascii /\ ~Contains(d, Star)
  <2>1. Dot \in Ascii /\ Dot # Star
    BY DEF Dot, Ascii, Star
  <2> QED BY <1>1, <2>1 DEF ToSet, Contains
<1> HIDE DEF N, ls, Apart, Plain
<1>8. ValidDomain(d) <=>
        /\ N # 0 /\ d[1] # Dot /\ d[N] # Dot
        /\ \A i \in 1 .. N - 1 : ~(d[i] = Dot /\ d[i + 1] = Dot)
        /\ Plain /\ IsDnsName(d)
  BY <1>1, <1>7 DEF ValidDomain, N
<1> QED BY <1>5, <1>6, <1>8 DEF ls

(* The labels of a string after "*." are those of the string but the first. *)
LEMMA WildcardLabels ==
  ASSUME NEW s \in String
  PROVE  /\ Stripped(s) \in String
         /\ LET ls == Labels(s)
                rest == IF Len(ls) > 1 /\ ls[1] = <<Star>> THEN Tail(ls) ELSE ls
            IN rest = Labels(Stripped(s))
<1> DEFINE ls == Labels(s)
           N == Len(s)
<1>1. /\ N \in Nat /\ N \in 0 .. N /\ \A i \in 1 .. N : s[i] \in Byte
      /\ ls \in Seq(String) /\ Len(ls) \in Nat \ {0}
  BY SplittingByPlace DEF Labels
<1>2. IsWildcard(s) <=> N >= 2 /\ s[1] = Star /\ s[2] = Dot
  <2>1. SubSeq(<<Star, Dot>>, 1, Len(<<Star, Dot>>)) = <<Star, Dot>>
    <3>1. <<Star, Dot>> \in Seq({Star, Dot})
      OBVIOUS
    <3> QED BY <3>1, SubSeqFull
  <2>2. ASSUME N >= 2
        PROVE  /\ SubSeq(s, 1, 2) \in String /\ Len(SubSeq(s, 1, 2)) = 2
               /\ SubSeq(s, 1, 2)[1] = s[1] /\ SubSeq(s, 1, 2)[2] = s[2]
    <3>1. /\ \A i \in 1 .. 2 : s[i] \in Byte
          /\ 1 \in 1 .. 2 - 1 + 1 /\ 2 \in 1 .. 2 - 1 + 1 /\ 1 + 1 - 1 = 1 /\ 1 + 2 - 1 = 2
      BY <1>1, <2>2
    <3>2. /\ SubSeq(s, 1, 2) \in Seq(Byte) /\ Len(SubSeq(s, 1, 2)) = 2 - 1 + 1
          /\ \A i \in 1 .. 2 - 1 + 1 : SubSeq(s, 1, 2)[i] = s[1 + i - 1]
      BY <3>1, SubSeqProperties, Z3
    <3> QED BY <3>1, <3>2 DEF String
  <2>3. ASSUME N >= 2
        PROVE  <<Star, Dot>> = SubSeq(s, 1, 2) <=> s[1] = Star /\ s[2] = Dot
    <3>1. <<Star, Dot>> \in String /\ Len(<<Star, Dot>>) = 2
      BY DEF String, Star, Dot, Byte
    <3> DEFINE t == SubSeq(s, 1, 2)
    <3>2. t \in Seq(Byte) /\ Len(t) = 2 /\ t[1] = s[1] /\ t[2] = s[2]
      BY <2>2, <2>3 DEF String
    <3> HIDE DEF t
    <3>3. t = <<t[1], t[2]>>
      BY <3>2
    <3> QED BY <3>2, <3>3 DEF t
  <2> QED BY <1>1, <2>1, <2>3 DEF IsWildcard, IsPrefix
<1>3. CASE ~IsWildcard(s)
  <2>1. ~(Len(ls) > 1 /\ ls[1] = <<Star>>)
    BY <1>1, <1>2, <1>3, FirstLabel DEF Labels
  <2> QED BY <1>3, <2>1 DEF Stripped
<1>4. CASE IsWildcard(s)
  <2> DEFINE r == Stripped(s)
  <2>1. N >= 2 /\ s[1] = Star /\ s[2] = Dot
    BY <1>2, <1>4
  <2>2. r \in String /\ Len(r) = N - 2 /\ \A i \in 1 .. N - 2 : r[i] = s[2 + i]
    <3>1. r = SubSeq(s, 3, N)
      BY <1>4 DEF Stripped
    <3>2. /\ 3 \in Int /\ N \in Int /\ \A i \in 3 .. N : s[i] \in Byte
          /\ \A i \in 1 .. N - 2 : i \in 1 .. N - 3 + 1 /\ 3 + i - 1 = 2 + i
          /\ (IF 3 <= N THEN N - 3 + 1 ELSE 0) = N - 2
      <4> HIDE DEF N
      <4> QED BY <1>1, <2>1
    <3> HIDE DEF N, r
    <3>3. /\ r \in Seq(Byte) /\ Len(r) = (IF 3 <= N THEN N - 3 + 1 ELSE 0)
          /\ \A i \in 1 .. N - 3 + 1 : r[i] = s[3 + i - 1]
      BY <3>1, <3>2, SubSeqProperties, Z3
    <3> QED BY <3>2, <3>3 DEF String
  <2> HIDE DEF r
  <2>3. EndsAt(r, s, 2)
    BY <1>1, <2>1, <2>2 DEF EndsAt
  <2> DEFINE before == Splitting(s)[2]
  <2>4. Len(before) = 2 /\ before[1] = <<Star>>
    <3>1. 1 \in 1 .. N /\ 2 \in 1 .. N /\ 1 - 1 = 0 /\ 2 - 1 = 1
      BY <1>1, <2>1
    <3>2. Splitting(s)[0] = << <<>> >> /\ Grows(s, 1) /\ Grows(s, 2)
      BY <3>1, SplittingByPlace
    <3>3. Dot # Star
      BY DEF Dot, Star
    <3> DEFINE one == Splitting(s)[1]
    <3>4. Len(one) = 1 /\ one[1] = <<Star>>
      <4>1. Len(<< <<>> >>) = 1 /\ << <<>> >>[1] = <<>> /\ Append(<<>>, Star) = <<Star>>
        OBVIOUS
      <4>2. /\ Len(one) = Len(<< <<>> >>)
            /\ one[Len(<< <<>> >>)] = Append(<< <<>> >>[Len(<< <<>> >>)], Star)
        BY <2>1, <3>1, <3>2, <3>3 DEF Grows
      <4> HIDE DEF one
      <4> QED BY <4>1, <4>2
    <3>5. Len(before) = Len(one) + 1 /\ \A i \in 1 .. Len(one) : before[i] = one[i]
      BY <2>1, <3>1, <3>2 DEF Grows
    <3> HIDE DEF one, before
    <3> QED BY <3>4, <3>5
  <2> DEFINE rs == Labels(r)
  <2>5. rs \in Seq(String) /\ Len(rs) \in Nat \ {0} /\ Len(r) \in 0 .. Len(r) /\ 2 + Len(r) = N
    <3>1. Len(r) \in 0 .. Len(r) /\ 2 + Len(r) = N
      <4> HIDE DEF N
      <4> QED BY <1>1, <2>1, <2>2
    <3>2. rs \in Seq(String) /\ Len(rs) \in Nat \ {0}
      BY <2>2, <3>1, SplittingByPlace DEF Labels
    <3> QED BY <3>1, <3>2
  <2>6. /\ Len(ls) = Len(before) - 1 + Len(rs)
        /\ \A i \in 1 .. Len(before) - 1 : ls[i] = before[i]
        /\ \A i \in 1 .. Len(rs) : ls[Len(before) - 1 + i] = rs[i]
    <3>1. rs = Splitting(r)[Len(r)] /\ ls = Splitting(s)[2 + Len(r)]
      BY <2>5 DEF Labels
    <3> DEFINE ds == Splitting(r)[Len(r)]
               es == Splitting(s)[2 + Len(r)]
    <3>2. /\ Len(es) = Len(before) - 1 + Len(ds)
          /\ \A i \in 1 .. Len(before) - 1 : es[i] = before[i]
          /\ \A i \in 1 .. Len(ds) : es[Len(before) - 1 + i] = ds[i]
      BY <2>2, <2>3, <2>5, LabelsOfEnd, 2 \in Nat, Zenon
    <3>3. rs = ds /\ ls = es
      BY <3>1
    <3> HIDE DEF rs, ls, ds, es, before
    <3> QED BY <3>2, <3>3
  <2> HIDE DEF before, rs, ls
  <2>7. Len(ls) = 1 + Len(rs) /\ ls[1] = <<Star>> /\ \A i \in 1 .. Len(rs) : ls[1 + i] = rs[i]
    BY <2>4, <2>6
  <2>8. Tail(ls) = rs
    <3>1. ls # <<>> /\ Len(ls) > 1
      BY <2>5, <2>7
    <3> DEFINE t == Tail(ls)
    <3>2. t \in Seq(String) /\ Len(t) = Len(ls) - 1 /\ \A i \in 1 .. Len(t) : t[i] = ls[i + 1]
      BY <1>1, <3>1, HeadTailProperties DEF ls
    <3> HIDE DEF t
    <3>3. Len(t) = Len(rs) /\ \A i \in 1 .. Len(t) : t[i] = rs[i]
      <4>1. \A n \in Nat : 1 + n - 1 = n /\ \A i \in 1 .. n : i + 1 = 1 + i
        OBVIOUS
      <4>2. Len(t) = Len(rs)
        BY <2>5, <2>7, <3>2, <4>1
      <4> QED BY <2>5, <2>7, <3>2, <4>1, <4>2
    <3>4. t = rs
      BY <2>5, <3>2, <3>3, SeqEqual
    <3> QED BY <3>4 DEF t
  <2> QED BY <2>2, <2>5, <2>7, <2>8 DEF rs, r, ls
<1> QED BY <1>3, <1>4

(* A string is accepted exactly if it names a suffix.                       *)
LEMMA WellFormedIsValid ==
  ASSUME NEW s \in String
  PROVE  WellFormed(s) <=> ValidDomain(Stripped(s))
BY WildcardLabels, ValidMeansPlain DEF WellFormed, PlainLabels

(* An owner is accepted exactly if it is as documented. *)
LEMMA DocumentedIsValid ==
  ASSUME NEW o \in [len : Nat, bytes : SUBSET Byte]
  PROVE  Documented(o) <=> ValidOwner(o)
BY DEF Documented, ValidOwner, Ascii, Byte

-----------------------------------------------------------------------------
(* The labels ds are the last ones of es. *)
LastOf(ds, es) ==
  /\ Len(ds) <= Len(es)
  /\ \A i \in 1 .. Len(ds) : ds[i] = es[Len(es) - Len(ds) + i]

(* One byte back: what the labels end in tells what the strings end in.     *)
LEMMA OneByteBack ==
  ASSUME NEW d \in String, NEW e \in String, NEW n \in 1 .. Len(d), NEW m \in 0 .. Len(e),
         LastOf(Splitting(d)[n], Splitting(e)[m])
  PROVE  m # 0 /\ e[m] = d[n] /\ LastOf(Splitting(d)[n - 1], Splitting(e)[m - 1])
<1> DEFINE D == Splitting(d)
           E == Splitting(e)
           L == Len(D[n - 1])
           M == Len(E[m])
<1>1. /\ Len(d) \in Nat /\ Len(e) \in Nat /\ n - 1 \in 0 .. Len(d) /\ n \in 0 .. Len(d)
      /\ Grows(d, n) /\ d[n] \in Byte
  <2>1. Len(d) \in Nat /\ Len(e) \in Nat /\ Grows(d, n) /\ d[n] \in Byte
    BY SplittingByPlace
  <2> QED BY <2>1
<1>2. /\ D[n - 1] \in Seq(String) /\ L \in Nat \ {0}
      /\ E[m] \in Seq(String) /\ M \in Nat \ {0}
  BY <1>1, SplittingByPlace
<1>3. E[m][M] = <<>> <=> m = 0 \/ e[m] = Dot
  BY LastLabelEmpty
<1>4. m = 0 => M = 1
  <2>1. E[0] = << <<>> >> /\ Len(<< <<>> >>) = 1
    BY SplittingByPlace
  <2> HIDE DEF E
  <2> QED BY <2>1
<1>5. m # 0 => /\ m \in 1 .. Len(e) /\ m - 1 \in 0 .. Len(e) /\ Grows(e, m) /\ e[m] \in Byte
               /\ E[m - 1] \in Seq(String) /\ Len(E[m - 1]) \in Nat \ {0}
  <2>1. m # 0 => m \in 1 .. Len(e) /\ m - 1 \in 0 .. Len(e)
    BY <1>1
  <2> QED BY <2>1, SplittingByPlace
<1>6. CASE d[n] = Dot
  <2>1. Len(D[n]) = L + 1 /\ (\A i \in 1 .. L : D[n][i] = D[n - 1][i]) /\ D[n][L + 1] = <<>>
    BY <1>1, <1>6 DEF Grows
  <2>2. L + 1 <= M /\ \A i \in 1 .. L + 1 : D[n][i] = E[m][M - (L + 1) + i]
    <3>1. Len(D[n]) <= Len(E[m]) /\ \A i \in 1 .. Len(D[n]) : D[n][i] = E[m][Len(E[m]) - Len(D[n]) + i]
      BY DEF LastOf
    <3> HIDE DEF D, E
    <3> QED BY <2>1, <3>1
  <2>3. m # 0 /\ e[m] = Dot
    <3> HIDE DEF L, M
    <3>1. L + 1 \in 1 .. L + 1 /\ M - (L + 1) + (L + 1) = M
      BY <1>2
    <3>2. E[m][M] = <<>>
      BY <2>1, <2>2, <3>1
    <3> QED BY <1>2, <1>3, <1>4, <2>2, <3>2
  <2>4. M = Len(E[m - 1]) + 1 /\ \A i \in 1 .. Len(E[m - 1]) : E[m][i] = E[m - 1][i]
    BY <1>5, <2>3 DEF Grows
  <2>5. L <= Len(E[m - 1]) /\ \A i \in 1 .. L : D[n - 1][i] = E[m - 1][Len(E[m - 1]) - L + i]
    <3> DEFINE K == Len(E[m - 1])
    <3>1. K \in Nat /\ M = K + 1
      BY <1>5, <2>3, <2>4
    <3> HIDE DEF L, M, K
    <3>2. L <= K
      BY <1>2, <2>2, <3>1
    <3>3. ASSUME NEW i \in 1 .. L PROVE D[n - 1][i] = E[m - 1][K - L + i]
      <4>1. i \in 1 .. L + 1 /\ M - (L + 1) + i = K - L + i /\ K - L + i \in 1 .. K
        BY <1>2, <3>1, <3>2
      <4>2. E[m][K - L + i] = E[m - 1][K - L + i]
        BY <2>4, <4>1 DEF K
      <4>3. D[n][i] = D[n - 1][i] /\ D[n][i] = E[m][M - (L + 1) + i]
        BY <2>1, <2>2, <4>1
      <4> QED BY <4>1, <4>2, <4>3
    <3> QED BY <3>2, <3>3 DEF K
  <2> QED BY <1>6, <2>3, <2>5 DEF LastOf
<1>7. CASE d[n] # Dot
  <2> DEFINE l == D[n - 1][L]
  <2>1. /\ Len(D[n]) = L /\ (\A i \in 1 .. L - 1 : D[n][i] = D[n - 1][i])
        /\ D[n][L] = Append(l, d[n])
    BY <1>1, <1>7 DEF Grows
  <2>2. L <= M /\ \A i \in 1 .. L : D[n][i] = E[m][M - L + i]
    <3>1. Len(D[n]) <= Len(E[m]) /\ \A i \in 1 .. Len(D[n]) : D[n][i] = E[m][Len(E[m]) - Len(D[n]) + i]
      BY DEF LastOf
    <3> HIDE DEF D, E
    <3> QED BY <2>1, <3>1
  <2>3. l \in Seq(Byte) /\ L \in 1 .. L
    <3>1. L \in 1 .. L
      <4> HIDE DEF L
      <4> QED BY <1>2
    <3> HIDE DEF D
    <3> QED BY <1>2, <3>1, ElementOfSeq DEF String
  <2>4. E[m][M] = Append(l, d[n])
    <3> HIDE DEF L, M, l
    <3>1. M - L + L = M
      BY <1>2
    <3> QED BY <2>1, <2>2, <2>3, <3>1
  <2>5. m # 0 /\ e[m] # Dot
    <3> HIDE DEF l
    <3>1. Append(l, d[n]) # <<>>
      BY <1>1, <2>3, AppendProperties
    <3> QED BY <1>3, <2>4, <3>1
  <2>6. /\ M = Len(E[m - 1]) /\ \A i \in 1 .. M - 1 : E[m][i] = E[m - 1][i]
        /\ E[m][M] = Append(E[m - 1][M], e[m])
    <3>1. /\ M = Len(E[m - 1])
          /\ \A i \in 1 .. Len(E[m - 1]) - 1 : E[m][i] = E[m - 1][i]
          /\ E[m][Len(E[m - 1])] = Append(E[m - 1][Len(E[m - 1])], e[m])
      BY <1>5, <2>5 DEF Grows
    <3> HIDE DEF E
    <3> QED BY <3>1
  <2>7. l = E[m - 1][M] /\ d[n] = e[m]
    <3> DEFINE x == E[m - 1][M]
    <3>1. x \in Seq(Byte)
      <4>1. M \in 1 .. Len(E[m - 1])
        <5>1. M \in 1 .. M
          <6> HIDE DEF M
          <6> QED BY <1>2
        <5> QED BY <2>6, <5>1
      <4> HIDE DEF E, M
      <4> QED BY <1>5, <2>5, <4>1, ElementOfSeq DEF String
    <3>2. Append(l, d[n]) = Append(x, e[m])
      BY <2>4, <2>6
    <3> HIDE DEF l, x
    <3>3. l = x /\ d[n] = e[m]
      BY <1>1, <1>5, <2>3, <2>5, <3>1, <3>2, AppendInjective
    <3> QED BY <3>3 DEF x
  <2>8. L <= Len(E[m - 1]) /\ \A i \in 1 .. L : D[n - 1][i] = E[m - 1][Len(E[m - 1]) - L + i]
    <3>1. ASSUME NEW i \in 1 .. L PROVE D[n - 1][i] = E[m - 1][M - L + i]
      <4> HIDE DEF L, M, D, E
      <4>1. CASE i = L
        <5>1. M - L + i = M
          BY <1>2, <4>1
        <5> QED BY <2>7, <4>1, <5>1
      <4>2. CASE i # L
        <5>1. i \in 1 .. L - 1 /\ M - L + i \in 1 .. M - 1
          BY <1>2, <2>2, <4>2
        <5> QED BY <2>1, <2>2, <2>6, <5>1
      <4> QED BY <4>1, <4>2
    <3> HIDE DEF M, L
    <3> QED BY <2>2, <2>6, <3>1
  <2> QED BY <2>5, <2>7, <2>8 DEF LastOf
<1> QED BY <1>6, <1>7

(* Suffixes of labels are suffixes of bytes that begin at a label.          *)
LEMMA LabelsTellTheEnd ==
  ASSUME NEW d \in String, NEW e \in String,
         LastOf(Splitting(d)[Len(d)], Splitting(e)[Len(e)])
  PROVE  \E k \in Nat : EndsAt(d, e, k)
<1> DEFINE D == Splitting(d)
           E == Splitting(e)
           Found(n, m, k) ==
             /\ m = k + n /\ \A i \in 1 .. n : e[k + i] = d[i]
             /\ k = 0 \/ e[k] = Dot
           T == {n \in Nat : n <= Len(d) =>
                   \A m \in 0 .. Len(e) : LastOf(D[n], E[m]) => \E k \in Nat : Found(n, m, k)}
<1>0. Len(d) \in Nat /\ Len(e) \in Nat
  BY SplittingByPlace
<1>1. 0 \in T
  <2> SUFFICES ASSUME NEW m \in 0 .. Len(e), LastOf(D[0], E[m]) PROVE Found(0, m, m)
    BY <1>0
  <2>1. D[0] = << <<>> >> /\ Len(E[m]) \in Nat
    BY SplittingByPlace
  <2>2. E[m][Len(E[m])] = <<>> <=> m = 0 \/ e[m] = Dot
    BY LastLabelEmpty
  <2>3. Len(D[0]) = 1 /\ D[0][1] = <<>>
    <3> HIDE DEF D
    <3> QED BY <2>1
  <2> HIDE DEF D, E
  <2>4. E[m][Len(E[m])] = <<>>
    <3>1. Len(E[m]) - 1 + 1 = Len(E[m])
      BY <2>1
    <3>2. D[0][1] = E[m][Len(E[m]) - 1 + 1]
      BY <2>3 DEF LastOf
    <3> QED BY <2>3, <3>1, <3>2
  <2> QED BY <2>2, <2>4
<1>2. ASSUME NEW n \in Nat, n \in T PROVE n + 1 \in T
  <2> SUFFICES ASSUME n + 1 <= Len(d), NEW m \in 0 .. Len(e), LastOf(D[n + 1], E[m])
               PROVE  \E k \in Nat : Found(n + 1, m, k)
    <3> HIDE DEF D, E, Found
    <3> QED OBVIOUS
  <2>1. n + 1 \in 1 .. Len(d) /\ n + 1 - 1 = n /\ n <= Len(d)
    BY <1>0
  <2>2. m # 0 /\ e[m] = d[n + 1] /\ LastOf(D[n], E[m - 1])
    BY <2>1, OneByteBack
  <2>3. m - 1 \in 0 .. Len(e)
    BY <1>0, <2>2
  <2>4. PICK k \in Nat : Found(n, m - 1, k)
    <3> HIDE DEF D, E, Found
    <3> QED BY <1>2, <2>1, <2>2, <2>3
  <2>5. m = k + (n + 1)
    BY <2>3, <2>4
  <2>6. Found(n + 1, m, k)
    <3>1. ASSUME NEW i \in 1 .. n + 1 PROVE e[k + i] = d[i]
      <4>1. i = n + 1 \/ i \in 1 .. n
        OBVIOUS
      <4> QED BY <2>2, <2>4, <2>5, <4>1
    <3> QED BY <2>4, <2>5, <3>1
  <2> QED BY <2>6
<1>3. Len(d) \in T
  <2> HIDE DEF T
  <2> QED BY <1>0, <1>1, <1>2, Induction
<1>4. PICK k \in Nat : Found(Len(d), Len(e), k)
  <2>1. Len(d) <= Len(d) /\ Len(e) \in 0 .. Len(e)
    BY <1>0
  <2> HIDE DEF Found
  <2> QED BY <1>3, <2>1
<1> QED BY <1>4 DEF EndsAt

(* The byte test of the loop is the one of the labels.                      *)
LEMMA CoversByBytes ==
  ASSUME NEW d \in String, NEW e \in String
  PROVE  Covers(d, e) <=> d = e \/ IsChildSuffix(e, d)
<1>1. Len(d) \in Nat /\ Len(e) \in Nat /\ Len(d) \in 0 .. Len(d) /\ Len(e) \in 0 .. Len(e)
  <2>1. Len(d) \in Nat /\ Len(e) \in Nat
    BY SplittingByPlace
  <2> QED BY <2>1
<1>2. /\ Labels(d) \in Seq(String) /\ Len(Labels(d)) \in Nat \ {0}
      /\ Labels(e) \in Seq(String) /\ Len(Labels(e)) \in Nat \ {0}
  BY <1>1, SplittingByPlace DEF Labels
<1>3. Covers(d, e) <=> LastOf(Labels(d), Labels(e))
  BY <1>2, SuffixByPlace DEF Covers, LastOf
<1>4. ASSUME NEW k \in Nat, EndsAt(d, e, k) PROVE LastOf(Labels(d), Labels(e))
  <2> DEFINE before == Splitting(e)[k]
             ds == Labels(d)
             es == Labels(e)
  <2>1. Len(e) = k + Len(d) /\ k \in 0 .. Len(e)
    BY <1>1, <1>4 DEF EndsAt
  <2>2. Len(before) \in Nat \ {0}
    BY <2>1, SplittingByPlace
  <2>3. /\ Len(es) = Len(before) - 1 + Len(ds)
        /\ \A i \in 1 .. Len(ds) : es[Len(before) - 1 + i] = ds[i]
    <3> DEFINE fs == Splitting(e)[k + Len(d)]
               gs == Splitting(d)[Len(d)]
    <3>1. /\ Len(fs) = Len(before) - 1 + Len(gs)
          /\ \A i \in 1 .. Len(gs) : fs[Len(before) - 1 + i] = gs[i]
      BY <1>1, <1>4, LabelsOfEnd, Zenon
    <3>2. fs = es /\ gs = ds
      BY <2>1 DEF Labels
    <3> HIDE DEF fs, gs, es, ds, before
    <3> QED BY <3>1, <3>2
  <2>4. Len(ds) \in Nat /\ Len(es) \in Nat
    BY <1>2
  <2> HIDE DEF before, ds, es
  <2>5. Len(ds) <= Len(es) /\ Len(es) - Len(ds) = Len(before) - 1
    BY <2>2, <2>3, <2>4
  <2>6. LastOf(ds, es)
    BY <2>3, <2>5 DEF LastOf
  <2> QED BY <2>6 DEF ds, es
<1>5. Covers(d, e) <=> \E k \in Nat : EndsAt(d, e, k)
  BY <1>3, <1>4, LabelsTellTheEnd DEF Labels
<1>6. EndsWith(e, d) <=> Len(d) <= Len(e) /\ \A i \in 1 .. Len(d) : d[i] = e[Len(e) - Len(d) + i]
  BY SuffixByPlace DEF EndsWith, String
<1>7. ASSUME NEW k \in Nat, EndsAt(d, e, k) PROVE d = e \/ IsChildSuffix(e, d)
  <2>1. Len(e) = k + Len(d) /\ Len(e) - Len(d) = k /\ Len(d) <= Len(e)
    BY <1>1, <1>7 DEF EndsAt
  <2>2. EndsWith(e, d)
    BY <1>6, <1>7, <2>1 DEF EndsAt
  <2>3. CASE k = 0
    <3>1. Len(d) = Len(e) /\ \A i \in 1 .. Len(d) : e[i] = d[i]
      <4>1. \A i \in 1 .. Len(d) : k + i = i
        BY <2>3
      <4> QED BY <1>1, <1>7, <2>1, <2>3, <4>1 DEF EndsAt
    <3> QED BY <3>1, SeqEqual DEF String
  <2>4. CASE k # 0
    <3>1. Len(e) > Len(d) /\ e[k] = Dot
      BY <1>1, <1>7, <2>1, <2>4 DEF EndsAt
    <3> QED BY <2>1, <2>2, <3>1 DEF IsChildSuffix
  <2> QED BY <2>3, <2>4
<1>8. ASSUME d = e PROVE EndsAt(d, e, 0)
  <2>1. \A i \in 1 .. Len(d) : 0 + i = i
    OBVIOUS
  <2> QED BY <1>1, <1>8, <2>1 DEF EndsAt
<1>9. ASSUME IsChildSuffix(e, d) PROVE EndsAt(d, e, Len(e) - Len(d)) /\ Len(e) - Len(d) \in Nat
  BY <1>1, <1>6, <1>9 DEF EndsAt, IsChildSuffix
<1> QED BY <1>5, <1>7, <1>8, <1>9

-----------------------------------------------------------------------------
(* s is less than t at place i. *)
LessAt(s, t, i) ==
  /\ i <= Len(s) + 1
  /\ \A j \in 1 .. i - 1 : s[j] = t[j]
  /\ i = Len(s) + 1 \/ s[i] < t[i]

LEMMA LessByPlace ==
  ASSUME NEW s \in String, NEW t \in String
  PROVE  Less(s, t) <=> \E i \in 1 .. Len(t) : LessAt(s, t, i)
<1>1. /\ Len(s) \in Nat /\ Len(t) \in Nat /\ DOMAIN s = 1 .. Len(s) /\ DOMAIN t = 1 .. Len(t)
      /\ (\A i \in 1 .. Len(s) : s[i] \in Byte) /\ (\A i \in 1 .. Len(t) : t[i] \in Byte)
  BY LenProperties, ElementOfSeq DEF String
<1>2. IsStrictPrefix(s, t) <=> Len(s) < Len(t) /\ \A i \in 1 .. Len(s) : s[i] = t[i]
  <2>1. SubSeq(s, 1, Len(s)) = s
    BY SubSeqFull DEF String
  <2> DEFINE u == SubSeq(t, 1, Len(s))
  <2>2. ASSUME Len(s) <= Len(t)
        PROVE  u \in String /\ Len(u) = Len(s) /\ \A i \in 1 .. Len(s) : u[i] = t[i]
    <3> DEFINE n == Len(s)
    <3>1. /\ n \in Nat /\ \A i \in 1 .. n : t[i] \in Byte
          /\ (IF 1 <= n THEN n - 1 + 1 ELSE 0) = n /\ n - 1 + 1 = n
          /\ \A i \in 1 .. n : 1 + i - 1 = i
      BY <1>1, <2>2
    <3> HIDE DEF n
    <3>2. /\ SubSeq(t, 1, n) \in Seq(Byte)
          /\ Len(SubSeq(t, 1, n)) = (IF 1 <= n THEN n - 1 + 1 ELSE 0)
          /\ \A i \in 1 .. n - 1 + 1 : SubSeq(t, 1, n)[i] = t[1 + i - 1]
      BY <3>1, SubSeqProperties, Z3
    <3>3. /\ SubSeq(t, 1, n) \in Seq(Byte) /\ Len(SubSeq(t, 1, n)) = n
          /\ \A i \in 1 .. n : SubSeq(t, 1, n)[i] = t[i]
      BY <3>1, <3>2
    <3> QED BY <3>3 DEF n, String
  <2>3. IsPrefix(s, t) <=> Len(s) <= Len(t) /\ \A i \in 1 .. Len(s) : s[i] = t[i]
    <3>1. ASSUME Len(s) <= Len(t), \A i \in 1 .. Len(s) : s[i] = t[i] PROVE s = u
      <4> HIDE DEF u
      <4> QED BY <2>2, <3>1, SeqEqual DEF String
    <3> HIDE DEF u
    <3> QED BY <2>1, <2>2, <3>1 DEF IsPrefix, u
  <2>4. Len(s) = Len(t) /\ (\A i \in 1 .. Len(s) : s[i] = t[i]) => s = t
    BY SeqEqual DEF String
  <2>5. s = t => Len(s) = Len(t)
    OBVIOUS
  <2>6. \A m, n \in Nat : (m <= n <=> m < n \/ m = n) /\ (m < n => m # n)
    OBVIOUS
  <2>7. /\ Len(s) <= Len(t) <=> Len(s) < Len(t) \/ Len(s) = Len(t)
        /\ Len(s) < Len(t) => Len(s) # Len(t)
    BY <1>1, <2>6, Zenon
  <2> QED BY <2>3, <2>4, <2>5, <2>7, Zenon DEF IsStrictPrefix
<1>3. ASSUME IsStrictPrefix(s, t) PROVE Len(s) + 1 \in 1 .. Len(t) /\ LessAt(s, t, Len(s) + 1)
  BY <1>1, <1>2, <1>3 DEF LessAt
<1>4. ASSUME NEW i \in DOMAIN s \cap DOMAIN t, s[i] < t[i], \A j \in 1 .. i - 1 : s[j] = t[j]
      PROVE  i \in 1 .. Len(t) /\ LessAt(s, t, i)
  BY <1>1, <1>4 DEF LessAt
<1>5. ASSUME NEW i \in 1 .. Len(t), LessAt(s, t, i) PROVE Less(s, t)
  <2>1. CASE i = Len(s) + 1
    <3>1. Len(s) < Len(t) /\ \A j \in 1 .. Len(s) : s[j] = t[j]
      BY <1>1, <1>5, <2>1 DEF LessAt
    <3> QED BY <1>2, <3>1 DEF Less
  <2>2. CASE i # Len(s) + 1
    <3>1. i \in DOMAIN s \cap DOMAIN t
      BY <1>1, <1>5, <2>2 DEF LessAt
    <3> QED BY <1>5, <2>2, <3>1 DEF Less, LessAt
  <2> QED BY <2>1, <2>2
<1> QED BY <1>3, <1>4, <1>5 DEF Less

(* str::cmp is a strict total order. *)
LEMMA LessIsTotal ==
  /\ \A s \in String : ~Less(s, s)
  /\ \A s, t, u \in String : Less(s, t) /\ Less(t, u) => Less(s, u)
  /\ \A s, t \in String : s # t => Less(s, t) \/ Less(t, s)
<1>1. \A s \in String : /\ Len(s) \in Nat
                        /\ \A i \in 1 .. Len(s) : s[i] \in Nat
  <2>1. ASSUME NEW s \in String PROVE Len(s) \in Nat /\ \A i \in 1 .. Len(s) : s[i] \in Byte
    BY LenProperties, ElementOfSeq DEF String
  <2>2. Byte \subseteq Nat
    BY DEF Byte
  <2> QED BY <2>1, <2>2
<1>2. ASSUME NEW s \in String, NEW i \in 1 .. Len(s), LessAt(s, s, i) PROVE FALSE
  BY <1>1, <1>2 DEF LessAt
<1>3. ASSUME NEW s \in String, NEW t \in String, NEW u \in String,
             NEW i \in 1 .. Len(t), LessAt(s, t, i), NEW k \in 1 .. Len(u), LessAt(t, u, k)
      PROVE  Less(s, u)
  <2>1. CASE i < k
    <3>1. i \in 1 .. Len(u) /\ u[i] = t[i] /\ \A j \in 1 .. i - 1 : s[j] = u[j]
      BY <1>1, <1>3, <2>1 DEF LessAt
    <3>2. LessAt(s, u, i)
      BY <1>3, <3>1 DEF LessAt
    <3> QED BY <3>1, <3>2, LessByPlace
  <2>2. CASE k < i
    <3>1. k <= Len(s) /\ k # Len(t) + 1 /\ s[k] = t[k] /\ \A j \in 1 .. k - 1 : s[j] = u[j]
      BY <1>1, <1>3, <2>2 DEF LessAt
    <3>2. LessAt(s, u, k)
      BY <1>1, <1>3, <3>1 DEF LessAt
    <3> QED BY <3>2, LessByPlace
  <2>3. CASE i = k
    <3>1. t[i] < u[i] /\ \A j \in 1 .. i - 1 : s[j] = u[j]
      BY <1>1, <1>3, <2>3 DEF LessAt
    <3>2. i = Len(s) + 1 \/ (i \in 1 .. Len(s) /\ s[i] < t[i])
      BY <1>1, <1>3 DEF LessAt
    <3>3. LessAt(s, u, i)
      BY <1>1, <1>3, <2>3, <3>1, <3>2 DEF LessAt
    <3> QED BY <2>3, <3>3, LessByPlace
  <2> QED BY <1>1, <2>1, <2>2, <2>3
<1>4. ASSUME NEW s \in String, NEW t \in String, s # t, Len(s) <= Len(t)
      PROVE  Less(s, t) \/ Less(t, s)
  <2> DEFINE Diff == {i \in 1 .. Len(s) : s[i] # t[i]}
  <2>1. CASE Diff = {}
    <3>1. \A i \in 1 .. Len(s) : s[i] = t[i]
      BY <2>1
    <3>2. Len(s) # Len(t)
      BY <1>4, <3>1, SeqEqual DEF String
    <3>3. Len(s) + 1 \in 1 .. Len(t)
      BY <1>1, <1>4, <3>2
    <3>4. LessAt(s, t, Len(s) + 1)
      BY <1>1, <3>1 DEF LessAt
    <3> QED BY <3>3, <3>4, LessByPlace
  <2>2. CASE Diff # {}
    <3>1. PICK i \in Diff : \A j \in Diff : i <= j
      <4>1. Diff \subseteq Nat
        BY <1>1
      <4> HIDE DEF Diff
      <4> QED BY <2>2, <4>1, Smallest
    <3>2. \A j \in 1 .. i - 1 : s[j] = t[j] /\ t[j] = s[j]
      BY <1>1, <3>1
    <3>3. i \in 1 .. Len(s) /\ i \in 1 .. Len(t) /\ (s[i] < t[i] \/ t[i] < s[i])
      BY <1>1, <1>4
    <3>4. LessAt(s, t, i) \/ LessAt(t, s, i)
      BY <1>1, <3>2, <3>3 DEF LessAt
    <3> QED BY <3>3, <3>4, LessByPlace
  <2> QED BY <2>1, <2>2
<1>5. \A s, t \in String : Len(s) <= Len(t) \/ Len(t) <= Len(s)
  BY <1>1
<1> QED BY <1>2, <1>3, <1>4, <1>5, LessByPlace

(* The dots of a string are finitely many, and a child has more of them.    *)
LEMMA LabelCounts ==
  ASSUME NEW d \in String
  PROVE  /\ LabelCount(d) \in Nat
         /\ \A e \in String : IsChildSuffix(e, d) => LabelCount(d) < LabelCount(e)
<1> DEFINE Dots(s) == {i \in DOMAIN s : s[i] = Dot}
<1>1. ASSUME NEW s \in String
      PROVE  /\ Len(s) \in Nat /\ DOMAIN s = 1 .. Len(s) /\ Dots(s) \subseteq 1 .. Len(s)
             /\ IsFiniteSet(Dots(s)) /\ Cardinality(Dots(s)) \in Nat
  <2>1. Len(s) \in Nat /\ DOMAIN s = 1 .. Len(s)
    BY LenProperties DEF String
  <2>2. IsFiniteSet(1 .. Len(s)) /\ Dots(s) \subseteq 1 .. Len(s)
    BY <2>1, FS_Interval
  <2> HIDE DEF Dots
  <2>3. IsFiniteSet(Dots(s))
    BY <2>2, FS_Subset
  <2> QED BY <2>1, <2>2, <2>3, FS_CardinalityType
<1>2. ASSUME NEW e \in String, IsChildSuffix(e, d) PROVE LabelCount(d) < LabelCount(e)
  <2> DEFINE k == Len(e) - Len(d)
             f == [i \in Dots(d) |-> k + i]
  <2>1. /\ k \in Nat \ {0} /\ k \in 1 .. Len(e) /\ e[k] = Dot
        /\ \A i \in 1 .. Len(d) : d[i] = e[k + i] /\ k + i \in 1 .. Len(e)
    <3>1. Len(d) < Len(e) /\ e[k] = Dot /\ \A i \in 1 .. Len(d) : d[i] = e[k + i]
      BY <1>1, <1>2, SuffixByPlace DEF IsChildSuffix, EndsWith, String
    <3> QED BY <1>1, <3>1
  <2>2. f \in Injection(Dots(d), Dots(e))
    <3>1. ASSUME NEW i \in Dots(d) PROVE k + i \in Dots(e)
      BY <1>1, <2>1
    <3>2. \A i, j \in Dots(d) : k + i = k + j => i = j
      BY <1>1, <2>1
    <3> HIDE DEF Dots, k
    <3> QED BY <3>1, <3>2 DEF Injection, IsInjective
  <2>3. f \notin Surjection(Dots(d), Dots(e))
    <3>1. k \in Dots(e)
      BY <1>1, <2>1
    <3>2. \A i \in Dots(d) : k + i # k
      BY <1>1, <2>1
    <3> HIDE DEF Dots, k
    <3> QED BY <3>1, <3>2 DEF Surjection
  <2>4. Cardinality(Dots(d)) <= Cardinality(Dots(e)) /\ Cardinality(Dots(d)) # Cardinality(Dots(e))
    <3> HIDE DEF f, Dots
    <3> QED BY <1>1, <2>2, <2>3, FS_Injection
  <2>5. Cardinality(Dots(d)) \in Nat /\ Cardinality(Dots(e)) \in Nat
    BY <1>1
  <2>6. LabelCount(d) = Cardinality(Dots(d)) + 1 /\ LabelCount(e) = Cardinality(Dots(e)) + 1
    BY DEF LabelCount
  <2> HIDE DEF Dots
  <2> QED BY <2>4, <2>5, <2>6
<1>3. LabelCount(d) \in Nat
  <2>1. LabelCount(d) = Cardinality(Dots(d)) + 1 /\ Cardinality(Dots(d)) \in Nat
    BY <1>1 DEF LabelCount
  <2> HIDE DEF Dots
  <2> QED BY <2>1
<1> QED BY <1>2, <1>3

Suffix == [domain : String, wildcard : BOOLEAN]

(* The order of the sort is a strict total one, as sort_unstable_by asks.   *)
THEOREM SortOrderIsTotal ==
  /\ \A a \in Suffix : ~Before(a, a)
  /\ \A a, b, c \in Suffix : Before(a, b) /\ Before(b, c) => Before(a, c)
  /\ \A a, b \in Suffix : a # b => Before(a, b) \/ Before(b, a)
<1>1. \A a \in Suffix : /\ a.domain \in String /\ a.wildcard \in BOOLEAN
                        /\ LabelCount(a.domain) \in Nat
  BY LabelCounts DEF Suffix
<1>2. \A a \in Suffix : ~Before(a, a)
  BY <1>1, LessIsTotal DEF Before
<1>3. ASSUME NEW a \in Suffix, NEW b \in Suffix, NEW c \in Suffix, Before(a, b), Before(b, c)
      PROVE  Before(a, c)
  <2> DEFINE m == LabelCount(a.domain)
             n == LabelCount(b.domain)
             p == LabelCount(c.domain)
  <2>1. /\ m \in Nat /\ n \in Nat /\ p \in Nat
        /\ a.domain = b.domain => m = n
        /\ b.domain = c.domain => n = p
    BY <1>1
  <2>2. m < n \/ (m = n /\ Less(a.domain, b.domain)) \/ (a.domain = b.domain /\ ~a.wildcard /\ b.wildcard)
    BY <1>3 DEF Before
  <2>3. n < p \/ (n = p /\ Less(b.domain, c.domain)) \/ (b.domain = c.domain /\ ~b.wildcard /\ c.wildcard)
    BY <1>3 DEF Before
  <2>4. Less(a.domain, b.domain) /\ Less(b.domain, c.domain) => Less(a.domain, c.domain)
    BY <1>1, LessIsTotal
  <2> SUFFICES m < p \/ (m = p /\ Less(a.domain, c.domain))
    BY <2>2, <2>3 DEF Before
  <2> QED BY <2>1, <2>2, <2>3, <2>4
<1>4. ASSUME NEW a \in Suffix, NEW b \in Suffix, a # b PROVE Before(a, b) \/ Before(b, a)
  <2>1. CASE a.domain # b.domain
    <3>1. Less(a.domain, b.domain) \/ Less(b.domain, a.domain)
      BY <1>1, <2>1, LessIsTotal
    <3> QED BY <1>1, <3>1 DEF Before
  <2>2. CASE a.domain = b.domain
    <3>1. a.wildcard # b.wildcard
      BY <1>4, <2>2 DEF Suffix
    <3> QED BY <1>1, <2>2, <3>1 DEF Before
  <2> QED BY <2>1, <2>2
<1> QED BY <1>2, <1>3, <1>4

-----------------------------------------------------------------------------
(* Lists and their elements. *)
LEMMA HeadAndTail ==
  ASSUME NEW S, NEW q \in Seq(S), q # <<>>
  PROVE  /\ Head(q) \in S /\ Tail(q) \in Seq(S)
         /\ ToSet(q) = {Head(q)} \cup ToSet(Tail(q))
         /\ Len(q) \in Nat \ {0} /\ Len(Tail(q)) = Len(q) - 1
         /\ Head(q) = q[1] /\ \A i \in 1 .. Len(q) - 1 : Tail(q)[i] = q[i + 1]
<1> DEFINE t == Tail(q)
<1>1. /\ Len(q) \in Nat \ {0} /\ DOMAIN q = 1 .. Len(q) /\ Head(q) = q[1] /\ Head(q) \in S
      /\ t \in Seq(S) /\ Len(t) = Len(q) - 1 /\ \A i \in 1 .. Len(t) : t[i] = q[i + 1]
  BY EmptySeq, LenProperties, HeadTailProperties
<1>2. DOMAIN t = 1 .. Len(q) - 1
  BY <1>1, LenProperties
<1> HIDE DEF t
<1>3. ToSet(q) \subseteq {q[1]} \cup ToSet(t)
  <2> SUFFICES ASSUME NEW i \in 1 .. Len(q) PROVE q[i] \in {q[1]} \cup ToSet(t)
    BY <1>1 DEF ToSet
  <2>1. i = 1 \/ (i - 1 \in 1 .. Len(q) - 1 /\ i - 1 + 1 = i)
    BY <1>1
  <2> QED BY <1>1, <1>2, <2>1 DEF ToSet
<1>4. {q[1]} \cup ToSet(t) \subseteq ToSet(q)
  <2>1. 1 \in 1 .. Len(q) /\ \A i \in 1 .. Len(q) - 1 : i + 1 \in 1 .. Len(q)
    BY <1>1
  <2> QED BY <1>1, <1>2, <2>1 DEF ToSet
<1> QED BY <1>1, <1>3, <1>4 DEF t

LEMMA Appended ==
  ASSUME NEW S, NEW q \in Seq(S), NEW x \in S
  PROVE  /\ Append(q, x) \in Seq(S) /\ ToSet(Append(q, x)) = ToSet(q) \cup {x}
         /\ Len(q) \in Nat /\ Len(Append(q, x)) = Len(q) + 1
         /\ DOMAIN q = 1 .. Len(q) /\ DOMAIN Append(q, x) = 1 .. Len(q) + 1
         /\ \A i \in 1 .. Len(q) : Append(q, x)[i] = q[i]
         /\ Append(q, x)[Len(q) + 1] = x
<1> DEFINE a == Append(q, x)
<1>1. /\ Len(q) \in Nat /\ DOMAIN q = 1 .. Len(q)
      /\ a \in Seq(S) /\ Len(a) = Len(q) + 1
      /\ \A i \in 1 .. Len(q) : a[i] = q[i]
      /\ a[Len(q) + 1] = x
  BY AppendProperties, LenProperties
<1>2. DOMAIN a = 1 .. Len(q) + 1
  BY <1>1, LenProperties
<1> HIDE DEF a
<1>3. ToSet(a) \subseteq ToSet(q) \cup {x}
  BY <1>1, <1>2 DEF ToSet
<1>4. ToSet(q) \cup {x} \subseteq ToSet(a)
  BY <1>1, <1>2 DEF ToSet
<1> QED BY <1>1, <1>2, <1>3, <1>4 DEF a

LEMMA Elements ==
  ASSUME NEW S, NEW q \in Seq(S)
  PROVE  /\ ToSet(q) \subseteq S /\ DOMAIN q = 1 .. Len(q) /\ Len(q) \in Nat
         /\ \A i \in 1 .. Len(q) : q[i] \in ToSet(q)
BY LenProperties, ElementOfSeq DEF ToSet

(* What parse_domain_suffix returns is a suffix without upper case.         *)
LEMMA ParsedSuffix ==
  ASSUME NEW s \in String
  PROVE  /\ ParseDomainSuffix(s) \in Suffix
         /\ ToSet(ParseDomainSuffix(s).domain) \cap Upper = {}
<1> DEFINE d == Stripped(s)
<1>1. d \in String
  BY WildcardLabels
<1> HIDE DEF d
<1>2. Len(d) \in Nat /\ DOMAIN d = 1 .. Len(d) /\ \A i \in 1 .. Len(d) : d[i] \in Byte
  BY <1>1, LenProperties, ElementOfSeq DEF String
<1>3. \A b \in Byte : /\ (IF b \in Upper THEN b + 32 ELSE b) \in Byte
                      /\ (IF b \in Upper THEN b + 32 ELSE b) \notin Upper
  BY DEF Byte, Upper
<1>4. /\ ToLower(d) \in [1 .. Len(d) -> Byte]
      /\ \A i \in 1 .. Len(d) : ToLower(d)[i] \notin Upper
  BY <1>2, <1>3 DEF ToLower
<1>5. ToLower(d) \in String
  BY <1>2, <1>4, SeqDef DEF String
<1>6. ToSet(ToLower(d)) \cap Upper = {}
  BY <1>2, <1>4 DEF ToSet
<1>7. IsWildcard(s) \in BOOLEAN
  BY DEF IsWildcard, IsPrefix
<1> QED BY <1>5, <1>6, <1>7 DEF ParseDomainSuffix, Suffix, d

-----------------------------------------------------------------------------
AllValid == \A i \in DOMAIN input.domains : ValidDomain(Stripped(input.domains[i]))

Typed ==
  /\ input \in Inputs
  /\ pc \in {"owner", "servers", "parse", "coalesce", "done", "error"}
  /\ pending \in Seq(Suffix) /\ kept \in Seq(Suffix)

(* What the checks before pc have found. *)
Checked ==
  /\ pc \in {"servers", "parse", "coalesce", "done"} => ValidOwner(input.owner)
  /\ pc \in {"parse", "coalesce", "done"} => input.servers # 0
  /\ pc \in {"coalesce", "done"} => AllValid
  /\ pc = "error" => ~(ValidOwner(input.owner) /\ input.servers # 0 /\ AllValid)

(* s may be left out where t is kept. *)
StandsFor(t, s) ==
  /\ Covers(t.domain, s.domain)
  /\ t.domain = s.domain /\ t.wildcard => s.wildcard

(* The loop between two turns: what is pending is sorted and not before     *)
(* what is kept, which is sorted and of which none covers another.          *)
LoopInv ==
  pc \in {"coalesce", "done"} =>
    /\ ToSet(pending) \cup ToSet(kept) \subseteq Parsed
    /\ \A s \in Parsed : s \in ToSet(pending) \/ \E t \in ToSet(kept) : StandsFor(t, s)
    /\ IsSorted(pending, NotAfter) /\ IsSorted(kept, Before)
    /\ \A s \in ToSet(pending), t \in ToSet(kept) : ~Before(s, t)
    /\ \A s, t \in ToSet(kept) : Covers(s.domain, t.domain) => s = t

Started == /\ pc \notin {"coalesce", "done"} => kept = <<>>
           /\ pc = "done" => pending = <<>>

NormalizeInv == Typed /\ Checked /\ LoopInv /\ Started

LEMMA NormalizeInit == Init => NormalizeInv
BY DEF Init, NormalizeInv, Typed, Checked, LoopInv, Started

LEMMA InputTyped ==
  ASSUME input \in Inputs
  PROVE  /\ input.owner \in [len : Nat, bytes : SUBSET Byte]
         /\ input.domains \in Seq(String)
         /\ \A i \in DOMAIN input.domains : input.domains[i] \in String
         /\ Parsed \subseteq Suffix
         /\ \A s \in Parsed : ToSet(s.domain) \cap Upper = {}
<1>1. input.owner \in [len : Nat, bytes : SUBSET Byte] /\ input.domains \in Seq(String)
  BY DomainsAssumption DEF String
<1>2. \A i \in DOMAIN input.domains : input.domains[i] \in String
  BY <1>1, LenProperties, ElementOfSeq
<1> QED BY <1>1, <1>2, ParsedSuffix DEF Parsed

(* The list that Parse sorts has the parsed suffixes.                       *)
LEMMA ParseStep ==
  ASSUME NormalizeInv, Parse
  PROVE  NormalizeInv'
<1> DEFINE doms == input.domains
           D == DOMAIN doms
<1>1. /\ doms \in Seq(String) /\ Parsed \subseteq Suffix /\ kept = <<>>
      /\ \A i \in D : ParseDomainSuffix(doms[i]) \in Suffix
      /\ UNCHANGED <<input, kept>> /\ pc = "parse" /\ pc' = "coalesce"
      /\ IsSorted(pending', NotAfter)
  BY InputTyped, ParsedSuffix DEF NormalizeInv, Typed, Started, Parse
<1>2. PICK p \in Bijection(D, D) : pending' = [i \in D |-> ParseDomainSuffix(doms[p[i]])]
  BY DEF Parse
<1>3. p \in [D -> D] /\ \A j \in D : \E i \in D : p[i] = j
  BY DEF Bijection, Injection, Surjection
<1>4. pending' \in Seq(Suffix)
  <2>1. D = 1 .. Len(doms) /\ Len(doms) \in Nat
    BY <1>1, LenProperties
  <2>2. pending' \in [D -> Suffix]
    <3> HIDE DEF D, doms
    <3> QED BY <1>1, <1>2, <1>3
  <2> HIDE DEF D, doms
  <2> QED BY <2>1, <2>2, SeqDef
<1>5. ToSet(pending') = Parsed
  <2>1. DOMAIN pending' = D
    BY <1>2
  <2>2. ToSet(pending') = {ParseDomainSuffix(doms[p[i]]) : i \in D}
    <3> HIDE DEF D, doms
    <3> QED BY <1>2, <2>1 DEF ToSet
  <2>3. Parsed = {ParseDomainSuffix(doms[j]) : j \in D}
    BY DEF Parsed
  <2> HIDE DEF D, doms
  <2> QED BY <1>3, <2>2, <2>3
<1>6. Typed' /\ Started'
  BY <1>1, <1>4 DEF NormalizeInv, Typed, Started
<1>7. Checked'
  BY <1>1 DEF NormalizeInv, Checked, Parse, AllValid
<1>8. LoopInv'
  <2>1. Parsed' = Parsed /\ kept' = <<>>
    BY <1>1 DEF Parsed
  <2>2. ToSet(kept') = {} /\ IsSorted(kept', Before)
    BY <2>1 DEF ToSet, IsSorted
  <2> QED BY <1>1, <1>5, <2>1, <2>2 DEF LoopInv
<1> QED BY <1>6, <1>7, <1>8 DEF NormalizeInv

(* A cover of a cover is a cover, and two that cover each other are equal.  *)
LEMMA CoversIsOrder ==
  ASSUME NEW d \in String, NEW e \in String, NEW f \in String
  PROVE  /\ Covers(d, d)
         /\ Covers(d, e) /\ Covers(e, d) => d = e
         /\ Covers(d, e) /\ Covers(e, f) => Covers(d, f)
<1>1. Len(d) \in Nat /\ Len(e) \in Nat /\ Len(f) \in Nat
  BY SplittingByPlace
<1>2. /\ Labels(d) \in Seq(String) /\ Len(Labels(d)) \in Nat
      /\ Labels(e) \in Seq(String) /\ Len(Labels(e)) \in Nat
      /\ Labels(f) \in Seq(String) /\ Len(Labels(f)) \in Nat
  <2>1. Len(d) \in 0 .. Len(d) /\ Len(e) \in 0 .. Len(e) /\ Len(f) \in 0 .. Len(f)
    BY <1>1
  <2> QED BY <2>1, SplittingByPlace DEF Labels
<1>3. Covers(d, d)
  BY CoversByBytes
<1>4. Covers(d, e) /\ Covers(e, d) => d = e
  <2>1. ~(IsChildSuffix(e, d) /\ IsChildSuffix(d, e))
    BY <1>1 DEF IsChildSuffix
  <2> QED BY <2>1, CoversByBytes
<1>5. ASSUME Covers(d, e), Covers(e, f) PROVE Covers(d, f)
  <2> DEFINE x == Labels(d)
             y == Labels(e)
             z == Labels(f)
  <2>1. /\ Len(x) <= Len(y) /\ \A i \in 1 .. Len(x) : x[i] = y[Len(y) - Len(x) + i]
        /\ Len(y) <= Len(z) /\ \A i \in 1 .. Len(y) : y[i] = z[Len(z) - Len(y) + i]
    BY <1>2, <1>5, SuffixByPlace DEF Covers
  <2>2. /\ x \in Seq(String) /\ z \in Seq(String)
        /\ Len(x) \in Nat /\ Len(y) \in Nat /\ Len(z) \in Nat
    BY <1>2
  <2> HIDE DEF x, y, z
  <2>3. ASSUME NEW i \in 1 .. Len(x) PROVE x[i] = z[Len(z) - Len(x) + i]
    <3>1. /\ Len(y) - Len(x) + i \in 1 .. Len(y)
          /\ Len(z) - Len(y) + (Len(y) - Len(x) + i) = Len(z) - Len(x) + i
      BY <2>1, <2>2
    <3> QED BY <2>1, <3>1
  <2>4. IsSuffix(x, z)
    <3>1. Len(x) <= Len(z)
      BY <2>1, <2>2
    <3> QED BY <2>2, <2>3, <3>1, SuffixByPlace
  <2> QED BY <2>4 DEF Covers, x, z
<1> QED BY <1>3, <1>4, <1>5

(* The head of the list is left out only if what is kept stands for it, and *)
(* is kept only if it covers none that is kept before it.                   *)
LEMMA CoalesceStep ==
  ASSUME NormalizeInv, Coalesce
  PROVE  NormalizeInv'
<1> DEFINE suffix == Head(pending)
           rest == Tail(pending)
           covered == \E i \in DOMAIN kept :
                        \/ suffix.domain = kept[i].domain
                        \/ IsChildSuffix(suffix.domain, kept[i].domain)
<1>1. /\ pc = "coalesce" /\ pending # <<>> /\ pending \in Seq(Suffix) /\ kept \in Seq(Suffix)
      /\ pending' = rest /\ kept' = IF covered THEN kept ELSE Append(kept, suffix)
      /\ input' = input /\ pc' = pc /\ Parsed' = Parsed /\ Parsed \subseteq Suffix
  BY InputTyped, Zenon DEF NormalizeInv, Typed, Coalesce, Parsed
<1>2. /\ ToSet(pending) \cup ToSet(kept) \subseteq Parsed
      /\ \A s \in Parsed : s \in ToSet(pending) \/ \E t \in ToSet(kept) : StandsFor(t, s)
      /\ IsSorted(pending, NotAfter) /\ IsSorted(kept, Before)
      /\ \A s \in ToSet(pending), t \in ToSet(kept) : ~Before(s, t)
      /\ \A s, t \in ToSet(kept) : Covers(s.domain, t.domain) => s = t
  BY <1>1 DEF NormalizeInv, LoopInv
<1>3. /\ suffix \in Suffix /\ rest \in Seq(Suffix)
      /\ ToSet(pending) = {suffix} \cup ToSet(rest)
      /\ Len(pending) \in Nat \ {0} /\ Len(rest) = Len(pending) - 1
      /\ suffix = pending[1] /\ \A i \in 1 .. Len(pending) - 1 : rest[i] = pending[i + 1]
  BY <1>1, HeadAndTail
<1>4. ToSet(kept) \subseteq Suffix /\ ToSet(rest) \subseteq Suffix
  BY <1>1, <1>3, Elements
<1>5. covered <=> \E t \in ToSet(kept) : suffix.domain = t.domain \/ IsChildSuffix(suffix.domain, t.domain)
  BY DEF ToSet
<1>6. covered <=> \E t \in ToSet(kept) : Covers(t.domain, suffix.domain)
  <2>1. ASSUME NEW t \in ToSet(kept)
        PROVE  Covers(t.domain, suffix.domain)
                 <=> suffix.domain = t.domain \/ IsChildSuffix(suffix.domain, t.domain)
    <3>1. t.domain \in String /\ suffix.domain \in String
      BY <1>3, <1>4 DEF Suffix
    <3> HIDE DEF suffix
    <3> QED BY <3>1, CoversByBytes
  <2> HIDE DEF suffix, covered
  <2> QED BY <1>5, <2>1
<1>7. \A s \in ToSet(rest) : ~Before(s, suffix)
  <2> SUFFICES ASSUME NEW i \in DOMAIN rest PROVE ~Before(rest[i], suffix)
    BY DEF ToSet
  <2>1. DOMAIN rest = 1 .. Len(pending) - 1
    <3> HIDE DEF rest
    <3> QED BY <1>3, LenProperties
  <2>2. i \in 1 .. Len(pending) - 1 /\ 1 \in 1 .. Len(pending) /\ i + 1 \in 1 .. Len(pending) /\ 1 < i + 1
    <3> HIDE DEF rest
    <3> QED BY <1>3, <2>1
  <2>3. NotAfter(pending[1], pending[i + 1])
    BY <1>2, <2>2 DEF IsSorted
  <2> QED BY <1>3, <2>2, <2>3 DEF NotAfter
<1>8. IsSorted(rest, NotAfter)
  <2> SUFFICES ASSUME NEW i \in 1 .. Len(rest), NEW j \in 1 .. Len(rest), i < j
               PROVE  NotAfter(rest[i], rest[j])
    BY DEF IsSorted
  <2> HIDE DEF rest, suffix
  <2>1. /\ i \in 1 .. Len(pending) - 1 /\ j \in 1 .. Len(pending) - 1
        /\ i + 1 \in 1 .. Len(pending) /\ j + 1 \in 1 .. Len(pending) /\ i + 1 < j + 1
    BY <1>3
  <2>2. NotAfter(pending[i + 1], pending[j + 1])
    BY <1>2, <2>1 DEF IsSorted
  <2> QED BY <1>3, <2>1, <2>2
<1> HIDE DEF suffix, rest, covered
<1>9. suffix.domain \in String /\ suffix.wildcard \in BOOLEAN /\ Covers(suffix.domain, suffix.domain)
  BY <1>3, CoversIsOrder DEF Suffix
<1>10. CASE covered
  <2>1. kept' = kept
    BY <1>1, <1>10
  <2>2. PICK t \in ToSet(kept) : Covers(t.domain, suffix.domain)
    BY <1>6, <1>10
  <2>3. StandsFor(t, suffix)
    <3>1. t \in Suffix /\ ~Before(suffix, t)
      BY <1>2, <1>3, <1>4
    <3>2. t.domain = suffix.domain /\ t.wildcard => suffix.wildcard
      BY <1>9, <3>1 DEF Before
    <3> QED BY <2>2, <3>2 DEF StandsFor
  <2>4. LoopInv'
    BY <1>1, <1>2, <1>3, <1>7, <1>8, <2>1, <2>3 DEF LoopInv
  <2>5. Typed'
    BY <1>1, <1>3, <2>1 DEF NormalizeInv, Typed
  <2> QED BY <1>1, <2>1, <2>4, <2>5 DEF NormalizeInv, Checked, Started, AllValid
<1>11. CASE ~covered
  <2>1. /\ kept' = Append(kept, suffix) /\ kept' \in Seq(Suffix)
        /\ ToSet(kept') = ToSet(kept) \cup {suffix}
        /\ Len(kept) \in Nat /\ Len(kept') = Len(kept) + 1
        /\ \A i \in 1 .. Len(kept) : kept'[i] = kept[i]
        /\ kept'[Len(kept) + 1] = suffix
    <3>1. kept' = Append(kept, suffix)
      BY <1>1, <1>11
    <3> QED BY <1>1, <1>3, <3>1, Appended
  <2>2. ASSUME NEW t \in ToSet(kept)
        PROVE  /\ Before(t, suffix)
               /\ ~Covers(t.domain, suffix.domain) /\ ~Covers(suffix.domain, t.domain)
    <3>1. t \in Suffix /\ ~Before(suffix, t) /\ t.domain \in String
      BY <1>2, <1>3, <1>4 DEF Suffix
    <3>2. ~Covers(t.domain, suffix.domain)
      BY <1>6, <1>11
    <3>3. t # suffix
      BY <1>9, <3>2
    <3>4. Before(t, suffix)
      BY <1>3, <3>1, <3>3, SortOrderIsTotal
    <3>5. ~Covers(suffix.domain, t.domain)
      <4>1. ASSUME Covers(suffix.domain, t.domain) PROVE FALSE
        <5>1. suffix.domain = t.domain \/ IsChildSuffix(t.domain, suffix.domain)
          BY <1>9, <3>1, <4>1, CoversByBytes
        <5>2. suffix.domain # t.domain
          BY <1>9, <3>2
        <5>3. LabelCount(suffix.domain) < LabelCount(t.domain)
          BY <1>9, <3>1, <5>1, <5>2, LabelCounts
        <5> QED BY <3>1, <5>3 DEF Before
      <4> QED BY <4>1
    <3> QED BY <3>2, <3>4, <3>5
  <2>3. IsSorted(kept', Before)
    <3> SUFFICES ASSUME NEW i \in 1 .. Len(kept'), NEW j \in 1 .. Len(kept'), i < j
                 PROVE  Before(kept'[i], kept'[j])
      BY DEF IsSorted
    <3>1. i \in 1 .. Len(kept) /\ (j \in 1 .. Len(kept) \/ j = Len(kept) + 1)
      BY <2>1
    <3>2. kept'[i] = kept[i] /\ kept[i] \in ToSet(kept)
      BY <1>1, <2>1, <3>1, Elements
    <3>3. CASE j \in 1 .. Len(kept)
      <4>1. Before(kept[i], kept[j])
        BY <1>2, <3>1, <3>3 DEF IsSorted
      <4> QED BY <2>1, <3>2, <3>3, <4>1
    <3>4. CASE j = Len(kept) + 1
      BY <2>1, <2>2, <3>2, <3>4
    <3> QED BY <3>1, <3>3, <3>4
  <2>4. StandsFor(suffix, suffix)
    BY <1>9 DEF StandsFor
  <2>5. \A s, t \in ToSet(kept') : Covers(s.domain, t.domain) => s = t
    BY <1>2, <2>1, <2>2
  <2>6. \A s \in ToSet(rest), t \in ToSet(kept') : ~Before(s, t)
    BY <1>2, <1>3, <1>7, <2>1
  <2>7. \A s \in Parsed : s \in ToSet(rest) \/ \E t \in ToSet(kept') : StandsFor(t, s)
    BY <1>2, <1>3, <2>1, <2>4
  <2>8. ToSet(rest) \cup ToSet(kept') \subseteq Parsed
    BY <1>2, <1>3, <2>1
  <2>9. LoopInv'
    BY <1>1, <1>8, <2>3, <2>5, <2>6, <2>7, <2>8 DEF LoopInv
  <2>10. Typed'
    BY <1>1, <1>3, <2>1 DEF NormalizeInv, Typed
  <2> QED BY <1>1, <2>9, <2>10 DEF NormalizeInv, Checked, Started, AllValid
<1> QED BY <1>10, <1>11

LEMMA NormalizeStep ==
  ASSUME NormalizeInv, [Next]_vars
  PROVE  NormalizeInv'
<1>1. CASE CheckOwner
  BY <1>1 DEF CheckOwner, NormalizeInv, Typed, Checked, LoopInv, Started, AllValid
<1>2. CASE CheckServers
  BY <1>2 DEF CheckServers, NormalizeInv, Typed, Checked, LoopInv, Started, AllValid
<1>3. CASE ParseInvalid
  BY <1>3 DEF ParseInvalid, NormalizeInv, Typed, Checked, LoopInv, Started, AllValid
<1>4. CASE Parse
  BY <1>4, ParseStep
<1>5. CASE Coalesce
  BY <1>5, CoalesceStep
<1>6. CASE Finish
  <2>1. /\ pc = "coalesce" /\ pending = <<>> /\ pc' = "done"
        /\ input' = input /\ pending' = pending /\ kept' = kept /\ Parsed' = Parsed
    BY <1>6 DEF Finish, Parsed
  <2>2. LoopInv'
    BY <2>1, Zenon DEF NormalizeInv, LoopInv
  <2>3. Typed' /\ Checked' /\ Started'
    BY <2>1 DEF NormalizeInv, Typed, Checked, Started, AllValid
  <2> QED BY <2>2, <2>3 DEF NormalizeInv
<1>7. CASE UNCHANGED vars
  <2>1. input' = input /\ pc' = pc /\ pending' = pending /\ kept' = kept /\ Parsed' = Parsed
    BY <1>7 DEF vars, Parsed
  <2>2. LoopInv'
    BY <2>1, Zenon DEF NormalizeInv, LoopInv
  <2>3. Typed' /\ Checked' /\ Started'
    BY <2>1 DEF NormalizeInv, Typed, Checked, Started, AllValid
  <2> QED BY <2>2, <2>3 DEF NormalizeInv
<1> QED BY <1>1, <1>2, <1>3, <1>4, <1>5, <1>6, <1>7 DEF Next

(* What the checks have found, and between two turns of the loop that what  *)
(* is kept stands for all that was taken from the list.                     *)
THEOREM NormalizeInvariant == Spec => []NormalizeInv
<1>1. NormalizeInv /\ [Next]_vars => NormalizeInv'
  BY NormalizeStep
<1> QED BY NormalizeInit, <1>1, PTL DEF Spec

(* A configuration is refused exactly if it is malformed: the byte tests    *)
(* accept the documented owners and the strings whose labels make a name.   *)
THEOREM NormalizeRejectsMalformed == Spec => []RejectsMalformed
<1>1. NormalizeInv => RejectsMalformed
  <2> SUFFICES ASSUME NormalizeInv PROVE RejectsMalformed
    OBVIOUS
  <2>1. /\ Documented(input.owner) <=> ValidOwner(input.owner)
        /\ \A i \in DOMAIN input.domains :
             WellFormed(input.domains[i]) <=> ValidDomain(Stripped(input.domains[i]))
    BY InputTyped, DocumentedIsValid, WellFormedIsValid DEF NormalizeInv, Typed
  <2> QED BY <2>1 DEF NormalizeInv, Checked, AllValid, RejectsMalformed
<1> QED BY <1>1, NormalizeInvariant, PTL

(* One pass over the sorted suffixes keeps the outermost ones: for any list *)
(* of any strings, in any order and spelling.                               *)
THEOREM NormalizeOutermostKept == Spec => []OutermostKept
<1>1. NormalizeInv => OutermostKept
  <2> SUFFICES ASSUME NormalizeInv, pc = "done"
               PROVE  /\ ToSet(kept) = Outermost
                      /\ IsSorted(kept, Before)
                      /\ \A s \in ToSet(kept) : ToSet(s.domain) \cap Upper = {}
                      /\ \A s \in Parsed : \E t \in ToSet(kept) : Covers(t.domain, s.domain)
    BY DEF OutermostKept
  <2>1. /\ ToSet(kept) \subseteq Parsed /\ Parsed \subseteq Suffix
        /\ \A s \in Parsed : \E t \in ToSet(kept) : StandsFor(t, s)
        /\ IsSorted(kept, Before)
        /\ \A s, t \in ToSet(kept) : Covers(s.domain, t.domain) => s = t
        /\ \A s \in Parsed : ToSet(s.domain) \cap Upper = {}
    <3>1. pending = <<>> /\ ToSet(<<>>) = {}
      BY DEF NormalizeInv, Started, ToSet
    <3> QED BY <3>1, InputTyped DEF NormalizeInv, Typed, LoopInv
  <2>2. \A s \in Parsed : s.domain \in String /\ s.wildcard \in BOOLEAN
    BY <2>1 DEF Suffix
  <2>3. ASSUME NEW s \in ToSet(kept), NEW t \in Parsed, Covers(t.domain, s.domain)
        PROVE  t.domain = s.domain /\ (s.wildcard => t.wildcard)
    <3>1. PICK u \in ToSet(kept) : StandsFor(u, t)
      BY <2>1
    <3>2. u \in Parsed /\ s \in Parsed
      BY <2>1
    <3>3. Covers(u.domain, s.domain)
      BY <2>2, <2>3, <3>1, <3>2, CoversIsOrder DEF StandsFor
    <3>4. u = s
      BY <2>1, <3>3
    <3>5. t.domain = s.domain
      BY <2>2, <2>3, <3>1, <3>2, <3>4, CoversIsOrder DEF StandsFor
    <3> QED BY <3>1, <3>4, <3>5 DEF StandsFor
  <2>4. ASSUME NEW s \in Outermost PROVE s \in ToSet(kept)
    <3>1. s \in Parsed
      BY DEF Outermost
    <3>2. PICK t \in ToSet(kept) : StandsFor(t, s)
      BY <2>1, <3>1
    <3>3. t.domain = s.domain /\ (s.wildcard => t.wildcard)
      BY <2>1, <3>2 DEF Outermost, StandsFor
    <3>4. t.wildcard => s.wildcard
      BY <3>2, <3>3 DEF StandsFor
    <3>5. t \in Suffix /\ s \in Suffix
      BY <2>1, <3>1
    <3>6. t = s
      BY <3>3, <3>4, <3>5 DEF Suffix
    <3> QED BY <3>6
  <2>5. ToSet(kept) = Outermost
    BY <2>1, <2>3, <2>4 DEF Outermost
  <2> QED BY <2>1, <2>5 DEF StandsFor
<1> QED BY <1>1, NormalizeInvariant, PTL

-----------------------------------------------------------------------------
(* Of some suffixes there is a last one. *)
LEMMA LastSuffix ==
  ASSUME NEW q, NEW n \in Nat \ {0}, \A i \in 1 .. n : q[i] \in Suffix
  PROVE  \E m \in 1 .. n : \A i \in 1 .. n : ~Before(q[m], q[i])
<1> DEFINE HasLast(k) == \E m \in 1 .. k : \A i \in 1 .. k : ~Before(q[m], q[i])
           T == {k \in Nat : k # 0 /\ k <= n => HasLast(k)}
<1>1. 0 \in T
  OBVIOUS
<1>2. ASSUME NEW k \in Nat, k \in T PROVE k + 1 \in T
  <2> SUFFICES ASSUME k + 1 <= n PROVE HasLast(k + 1)
    OBVIOUS
  <2>1. k + 1 \in 1 .. n /\ q[k + 1] \in Suffix /\ ~Before(q[k + 1], q[k + 1])
    BY SortOrderIsTotal
  <2>2. CASE k = 0
    <3>1. k + 1 \in 1 .. k + 1 /\ \A i \in 1 .. k + 1 : i = k + 1
      BY <2>2
    <3> QED BY <2>1, <3>1
  <2>3. CASE k # 0
    <3>1. HasLast(k)
      BY <1>2, <2>3
    <3>2. PICK m \in 1 .. k : \A i \in 1 .. k : ~Before(q[m], q[i])
      BY <3>1
    <3>3. m \in 1 .. k + 1 /\ \A i \in 1 .. k + 1 : i = k + 1 \/ i \in 1 .. k
      OBVIOUS
    <3>4. \A i \in 1 .. k + 1 : q[i] \in Suffix
      OBVIOUS
    <3>5. CASE ~Before(q[m], q[k + 1])
      BY <3>2, <3>3, <3>5
    <3>6. CASE Before(q[m], q[k + 1])
      <4>1. \A i \in 1 .. k : ~Before(q[k + 1], q[i])
        BY <2>1, <3>2, <3>3, <3>4, <3>6, SortOrderIsTotal
      <4> QED BY <2>1, <3>3, <4>1
    <3> QED BY <3>5, <3>6
  <2> QED BY <2>2, <2>3
<1>3. n \in T
  <2> HIDE DEF T
  <2> QED BY <1>1, <1>2, Induction
<1> QED BY <1>3

(* There is always a sorted rearrangement, so that Parse can take place:    *)
(* what sort_unstable_by promises of an order that is total.                *)
THEOREM SortSucceeds ==
  ASSUME NEW q \in Seq(Suffix)
  PROVE  \E p \in Bijection(1 .. Len(q), 1 .. Len(q)) :
           IsSorted([i \in 1 .. Len(q) |-> q[p[i]]], NotAfter)
<1> DEFINE Sorts(p, f, n) == /\ p \in Bijection(1 .. n, 1 .. n)
                             /\ \A i, j \in 1 .. n : i < j => ~Before(f[p[j]], f[p[i]])
           T == {n \in Nat : \A f \in [1 .. n -> Suffix] : \E p : Sorts(p, f, n)}
<1>1. 0 \in T
  <2> SUFFICES ASSUME NEW f \in [1 .. 0 -> Suffix] PROVE \E p : Sorts(p, f, 0)
    OBVIOUS
  <2> DEFINE p == [i \in 1 .. 0 |-> i]
  <2>1. \A i \in 1 .. 0 : FALSE
    OBVIOUS
  <2>2. p \in Bijection(1 .. 0, 1 .. 0)
    BY <2>1 DEF Bijection, Injection, Surjection, IsInjective
  <2>3. Sorts(p, f, 0)
    BY <2>1, <2>2
  <2> QED BY <2>3
<1>2. ASSUME NEW n \in Nat, n \in T PROVE n + 1 \in T
  <2> SUFFICES ASSUME NEW f \in [1 .. n + 1 -> Suffix] PROVE \E p : Sorts(p, f, n + 1)
    OBVIOUS
  <2>1. PICK m \in 1 .. n + 1 : \A i \in 1 .. n + 1 : ~Before(f[m], f[i])
    <3>1. n + 1 \in Nat \ {0} /\ \A i \in 1 .. n + 1 : f[i] \in Suffix
      OBVIOUS
    <3> QED BY <3>1, LastSuffix
  <2> DEFINE g == [i \in 1 .. n |-> IF i = m THEN f[n + 1] ELSE f[i]]
  <2>2. g \in [1 .. n -> Suffix]
    OBVIOUS
  <2>3. PICK r : Sorts(r, g, n)
    <3> HIDE DEF g, Sorts
    <3> QED BY <1>2, <2>2
  <2>4. /\ r \in [1 .. n -> 1 .. n] /\ \A i, j \in 1 .. n : r[i] = r[j] => i = j
        /\ \A j \in 1 .. n : \E i \in 1 .. n : r[i] = j
    BY <2>3 DEF Bijection, Injection, Surjection, IsInjective
  <2> DEFINE back(i) == IF r[i] = m THEN n + 1 ELSE r[i]
             p == [i \in 1 .. n + 1 |-> IF i = n + 1 THEN m ELSE back(i)]
  <2>5. /\ n + 1 \in 1 .. n + 1 /\ p[n + 1] = m
        /\ \A i \in 1 .. n + 1 : i = n + 1 \/ (i \in 1 .. n /\ i # n + 1)
        /\ \A i \in 1 .. n : i \in 1 .. n + 1 /\ i # n + 1
        /\ \A i \in 1 .. n : p[i] = back(i)
    <3>1. /\ n + 1 \in 1 .. n + 1
          /\ \A i \in 1 .. n + 1 : i = n + 1 \/ (i \in 1 .. n /\ i # n + 1)
          /\ \A i \in 1 .. n : i \in 1 .. n + 1 /\ i # n + 1
      <4> HIDE DEF p, back, g
      <4> QED OBVIOUS
    <3>2. \A i \in 1 .. n + 1 : p[i] = IF i = n + 1 THEN m ELSE back(i)
      <4> HIDE DEF back, g
      <4> QED OBVIOUS
    <3> HIDE DEF p, back, g
    <3> QED BY <3>1, <3>2
  <2>6. ASSUME NEW i \in 1 .. n PROVE p[i] # m /\ p[i] \in 1 .. n + 1 /\ f[p[i]] = g[r[i]]
    BY <2>4, <2>5
  <2>7. ASSUME NEW i \in 1 .. n, NEW j \in 1 .. n, p[i] = p[j] PROVE i = j
    <3>1. r[i] \in 1 .. n /\ r[j] \in 1 .. n /\ (r[i] = r[j] => i = j)
      BY <2>4
    <3>2. back(i) = back(j)
      BY <2>5, <2>7
    <3>3. r[i] = r[j]
      BY <2>5, <3>1, <3>2
    <3> QED BY <3>1, <3>3
  <2>8. ASSUME NEW j \in 1 .. n + 1 PROVE \E i \in 1 .. n + 1 : p[i] = j
    <3>1. CASE j = m
      BY <2>5, <3>1
    <3>2. CASE j # m /\ j # n + 1
      <4>1. PICK i \in 1 .. n : r[i] = j
        BY <2>4, <2>5, <3>2
      <4>2. p[i] = j
        BY <2>5, <3>2, <4>1
      <4> QED BY <2>5, <4>2
    <3>3. CASE j # m /\ j = n + 1
      <4>1. m \in 1 .. n
        BY <2>5, <3>3
      <4>2. PICK i \in 1 .. n : r[i] = m
        BY <2>4, <4>1
      <4>3. p[i] = j
        BY <2>5, <3>3, <4>2
      <4> QED BY <2>5, <4>3
    <3> QED BY <3>1, <3>2, <3>3
  <2>9. p \in [1 .. n + 1 -> 1 .. n + 1]
    <3>1. \A i \in 1 .. n + 1 : p[i] \in 1 .. n + 1
      BY <2>5, <2>6
    <3> QED BY <3>1
  <2> HIDE DEF p, g
  <2>10. p \in Bijection(1 .. n + 1, 1 .. n + 1)
    <3>1. \A i, j \in 1 .. n + 1 : p[i] = p[j] => i = j
      BY <2>5, <2>6, <2>7
    <3>2. IsInjective(p)
      <4>1. DOMAIN p = 1 .. n + 1
        BY <2>9
      <4> QED BY <3>1, <4>1 DEF IsInjective
    <3> QED BY <2>8, <2>9, <3>2 DEF Bijection, Injection, Surjection
  <2>11. ASSUME NEW i \in 1 .. n + 1, NEW j \in 1 .. n + 1, i < j
         PROVE  ~Before(f[p[j]], f[p[i]])
    <3>1. i \in 1 .. n
      BY <2>11
    <3>2. CASE j = n + 1
      BY <2>1, <2>5, <2>6, <3>1, <3>2
    <3>3. CASE j # n + 1
      <4>1. j \in 1 .. n
        BY <3>3
      <4> QED BY <2>3, <2>6, <2>11, <3>1, <4>1
    <3> QED BY <3>2, <3>3
  <2> QED BY <2>10, <2>11
<1>3. Len(q) \in Nat /\ q \in [1 .. Len(q) -> Suffix]
  BY LenProperties
<1>4. Len(q) \in T
  <2> HIDE DEF T
  <2> QED BY <1>1, <1>2, <1>3, Induction
<1>5. PICK p : Sorts(p, q, Len(q))
  BY <1>3, <1>4
<1> DEFINE N == Len(q)
           s == [i \in 1 .. N |-> q[p[i]]]
<1>6. Len(s) = N /\ \A i \in 1 .. N : s[i] = q[p[i]]
  <2> HIDE DEF N
  <2> QED BY <1>3 DEF N
<1>7. \A i, j \in 1 .. N : i < j => ~Before(q[p[j]], q[p[i]])
  BY <1>5
<1>8. IsSorted(s, NotAfter)
  <2> HIDE DEF s, N
  <2> QED BY <1>6, <1>7 DEF IsSorted, NotAfter
<1> QED BY <1>5, <1>8

=============================================================================
