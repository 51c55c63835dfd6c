--------------------------- MODULE HostFilesProofs ---------------------------
(***************************************************************************)
(* The files of the host for any number of repositories, tasks, names and  *)
(* terminals: TaskRecords with Mounts, SandboxFiles, and the types of all  *)
(* parts together.                                                         *)
(*                                                                         *)
(* Task files: one that a container was given stays where it is, and what  *)
(* is found for a name ends in it (RecordsInv).  Mounts: of what a launch  *)
(* assembles, links add mounts only beside the others, and the validation  *)
(* drops none in a repository.  So the deepest mount in a repository says  *)
(* what a container can do with a path there (RootServed), and those are   *)
(* few and known (RepoTop, EntryTop).                                      *)
(*                                                                         *)
(* SandboxFiles: what a command puts back or accepts at its end it has     *)
(* noted earlier: in the backup, in the text it read, or by validating the *)
(* file.  The invariant says at each step what of these is still the file  *)
(* it began with, or the file that is there.                               *)
(***************************************************************************)
EXTENDS MCHostFiles, MigrationProofs, IncludesProofs, FiniteSetTheorems, SequenceTheorems,
        WellFoundedInduction, TLAPS

\* A set of numbers has a least one.  It stands for induction: a property that fails
\* fails first somewhere.
LEMMA HasLeast ==
    ASSUME NEW T \in SUBSET Nat, T # {}
    PROVE  \E x \in T : \A y \in T : x <= y
<1> DEFINE R == OpToRel(<, Nat)
<1>1. IsWellFoundedOn(R, Nat)
  BY NatLessThanWellFounded
<1>2. \A x, y \in Nat : <<y, x>> \in R <=> y < x
  BY DEF OpToRel
<1> HIDE DEF R
<1>3. PICK x \in T : \A y \in T : ~ (<<y, x>> \in R)
  BY <1>1, WFMin
<1>4. ASSUME NEW y \in T
      PROVE  x <= y
  <2>1. x \in Nat /\ y \in Nat /\ ~ (<<y, x>> \in R)
    BY <1>3
  <2>2. ~ (y < x)
    BY <1>2, <2>1
  <2> QED BY <2>1, <2>2
<1> QED BY <1>4

\* What holds of 0 and of n + 1 if of n holds up to m.
LEMMA UpTo ==
    ASSUME NEW m \in Nat, NEW S, 0 \in S, \A n \in 0..(m - 1) : n \in S => n + 1 \in S
    PROVE  0..m \subseteq S
<1> SUFFICES ASSUME ~ (0..m \subseteq S)
             PROVE  FALSE
  OBVIOUS
<1>1. PICK x \in (0..m) \ S : \A y \in (0..m) \ S : x <= y
  <2>1. (0..m) \ S \in SUBSET Nat /\ (0..m) \ S # {}
    OBVIOUS
  <2> QED BY <2>1, HasLeast
<1>2. x - 1 \in 0..(m - 1) /\ x - 1 \in S /\ (x - 1) + 1 = x
  BY <1>1
<1> QED BY <1>1, <1>2

\* f[i] is the sequences 1 to i of s, one after the other.
Joins(f, s, n) == f = [i \in 1..n |-> IF i = 1 THEN s[i] ELSE f[i - 1] \o s[i]]

LEMMA JoinsExist ==
    ASSUME NEW s, NEW m \in Nat
    PROVE  \E f : Joins(f, s, m)
<1> DEFINE S == {n \in Nat : \E f : Joins(f, s, n)}
<1>1. 0 \in S
  <2> DEFINE g == [i \in 1..0 |-> <<>>]
  <2>1. Joins(g, s, 0)
    BY DEF Joins
  <2> QED BY <2>1
<1>2. ASSUME NEW n \in Nat, n \in S
      PROVE  n + 1 \in S
  <2>1. PICK f : Joins(f, s, n)
    BY <1>2
  <2> DEFINE g == [i \in 1..(n + 1) |->
                     IF i = n + 1 THEN IF i = 1 THEN s[i] ELSE f[i - 1] \o s[i] ELSE f[i]]
  <2>2. \A i \in 1..n : f[i] = IF i = 1 THEN s[i] ELSE f[i - 1] \o s[i]
    BY <2>1 DEF Joins
  <2>3. g = [i \in 1..(n + 1) |-> g[i]]
    OBVIOUS
  <2>4. ASSUME NEW i \in 1..n
        PROVE  g[i] = f[i]
    OBVIOUS
  <2>5. g[n + 1] = IF n + 1 = 1 THEN s[n + 1] ELSE f[(n + 1) - 1] \o s[n + 1]
    OBVIOUS
  <2> HIDE DEF g
  <2>6. ASSUME NEW i \in 1..(n + 1)
        PROVE  g[i] = IF i = 1 THEN s[i] ELSE g[i - 1] \o s[i]
    <3>1. CASE i = n + 1
      <4>1. CASE i = 1
        BY <2>5, <3>1, <4>1
      <4>2. CASE i # 1
        <5>1. i - 1 \in 1..n
          BY <4>2, <3>1
        <5>2. (n + 1) - 1 = i - 1 /\ g[i - 1] = f[i - 1] /\ n + 1 # 1
          BY <2>4, <3>1, <4>2, <5>1
        <5>3. g[n + 1] = f[(n + 1) - 1] \o s[n + 1]
          BY <2>5, <5>2
        <5> QED BY <3>1, <4>2, <5>2, <5>3
      <4> QED BY <4>1, <4>2
    <3>2. CASE i # n + 1
      <4>1. i \in 1..n /\ (i # 1 => i - 1 \in 1..n)
        BY <3>2
      <4> QED BY <2>2, <2>4, <4>1
    <3> QED BY <3>1, <3>2
  <2>7. g = [i \in 1..(n + 1) |-> IF i = 1 THEN s[i] ELSE g[i - 1] \o s[i]]
    BY <2>3, <2>6
  <2>8. Joins(g, s, n + 1)
    BY <2>7 DEF Joins
  <2> QED BY <2>8
<1> HIDE DEF S
<1>3. 0..m \subseteq S
  BY <1>1, <1>2, UpTo
<1> QED BY <1>3 DEF S

LEMMA JoinsTyped ==
    ASSUME NEW B, NEW m \in Nat, NEW s, \A i \in 1..m : s[i] \in Seq(B), NEW f, Joins(f, s, m)
    PROVE  f \in [1..m -> Seq(B)]
<1>1. f = [i \in 1..m |-> f[i]]
  BY DEF Joins
<1>2. \A i \in 1..m : f[i] = IF i = 1 THEN s[i] ELSE f[i - 1] \o s[i]
  BY DEF Joins
<1> DEFINE T == {n \in Nat : n \in 1..m => f[n] \in Seq(B)}
<1>3. 0 \in T
  OBVIOUS
<1>4. ASSUME NEW n \in 0..(m - 1), n \in T
      PROVE  n + 1 \in T
  <2>1. CASE n = 0
    BY <1>2, <2>1
  <2>2. CASE n # 0
    <3>1. n \in 1..m /\ n + 1 \in 1..m /\ n + 1 # 1 /\ (n + 1) - 1 = n /\ n + 1 \in Nat
      BY <2>2
    <3>2. f[n] \in Seq(B) /\ s[n + 1] \in Seq(B) /\ f[n + 1] = f[n] \o s[n + 1]
      BY <1>2, <1>4, <3>1
    <3>3. f[n + 1] \in Seq(B)
      BY <3>2, ConcatProperties
    <3> QED BY <3>1, <3>3
  <2> QED BY <2>1, <2>2
<1>5. ASSUME NEW i \in 1..m
      PROVE  f[i] \in Seq(B)
  <2>1. 0..m \subseteq T
    <3> HIDE DEF T
    <3> QED BY <1>3, <1>4, UpTo
  <2>2. i \in 0..m
    OBVIOUS
  <2> QED BY <2>1, <2>2
<1> QED BY <1>1, <1>5

\* FlattenSeq joins one sequence after the other.
LEMMA Flattened ==
    ASSUME NEW s, Len(s) \in Nat \ {0}
    PROVE  \E f : Joins(f, s, Len(s)) /\ FlattenSeq(s) = f[Len(s)]
<1> DEFINE h == CHOOSE f : Joins(f, s, Len(s))
<1>1. Joins(h, s, Len(s))
  BY JoinsExist
<1>2. FlattenSeq(s) = h[Len(s)]
  BY DEF FlattenSeq, Joins
<1> HIDE DEF h
<1> QED BY <1>1, <1>2

LEMMA RangeOfConcat ==
    ASSUME NEW B, NEW s \in Seq(B), NEW t \in Seq(B)
    PROVE  Range(s \o t) = Range(s) \cup Range(t)
<1>1. /\ Len(s) \in Nat /\ Len(t) \in Nat /\ DOMAIN s = 1..Len(s) /\ DOMAIN t = 1..Len(t)
      /\ DOMAIN (s \o t) = 1..(Len(s) + Len(t))
      /\ \A i \in 1..Len(s) : (s \o t)[i] = s[i]
  BY ConcatProperties
<1>2. ASSUME NEW i \in 1..Len(t)
      PROVE  (s \o t)[Len(s) + i] = t[i] /\ Len(s) + i \in 1..(Len(s) + Len(t))
  BY ConcatProperties
<1>3. ASSUME NEW i \in 1..(Len(s) + Len(t))
      PROVE  i \in 1..Len(s) \/ \E j \in 1..Len(t) : i = Len(s) + j
  <2>1. CASE i > Len(s)
    <3>1. i - Len(s) \in 1..Len(t) /\ i = Len(s) + (i - Len(s))
      BY <2>1
    <3> QED BY <3>1
  <2> QED BY <2>1
<1>4. \A i \in 1..Len(s) : i \in 1..(Len(s) + Len(t))
  BY <1>1
<1> HIDE DEF Range
<1>5. ASSUME NEW x \in Range(s \o t)
      PROVE  x \in Range(s) \cup Range(t)
  <2>1. PICK i \in 1..(Len(s) + Len(t)) : x = (s \o t)[i]
    BY <1>1, <1>5 DEF Range
  <2> QED BY <1>1, <1>2, <1>3, <2>1 DEF Range
<1>6. ASSUME NEW x \in Range(s) \cup Range(t)
      PROVE  x \in Range(s \o t)
  BY <1>1, <1>2, <1>4, <1>6 DEF Range
<1> QED BY <1>5, <1>6

\* What was joined is what there was.
LEMMA JoinsRange ==
    ASSUME NEW B, NEW m \in Nat, NEW s, \A i \in 1..m : s[i] \in Seq(B), NEW f, Joins(f, s, m)
    PROVE  \A i \in 1..m : \A x : x \in Range(f[i]) <=> \E j \in 1..i : x \in Range(s[j])
<1>1. \A i \in 1..m : f[i] = IF i = 1 THEN s[i] ELSE f[i - 1] \o s[i]
  BY DEF Joins
<1>2. f \in [1..m -> Seq(B)]
  BY JoinsTyped
<1> DEFINE T == {n \in Nat : n \in 1..m =>
                     \A x : x \in Range(f[n]) <=> \E j \in 1..n : x \in Range(s[j])}
<1>3. 0 \in T
  OBVIOUS
<1>4. ASSUME NEW n \in 0..(m - 1), n \in T
      PROVE  n + 1 \in T
  <2>1. CASE n = 0
    <3>1. f[1] = s[1] /\ n + 1 = 1 /\ n + 1 \in Nat /\ \A j : j \in 1..1 <=> j = 1
      BY <1>1, <2>1
    <3>2. \A x : x \in Range(f[1]) <=> \E j \in 1..1 : x \in Range(s[j])
      BY <3>1, Zenon
    <3>3. \A x : x \in Range(f[n + 1]) <=> \E j \in 1..(n + 1) : x \in Range(s[j])
      BY <3>1, <3>2, Zenon
    <3> QED BY <3>1, <3>3
  <2>2. CASE n # 0
    <3>1. n \in 1..m /\ n + 1 \in 1..m /\ n + 1 # 1 /\ (n + 1) - 1 = n /\ n + 1 \in Nat
      BY <2>2
    <3>2. f[n] \in Seq(B) /\ s[n + 1] \in Seq(B) /\ f[n + 1] = f[n] \o s[n + 1]
      BY <1>1, <1>2, <3>1
    <3>3. Range(f[n + 1]) = Range(f[n]) \cup Range(s[n + 1])
      BY <3>2, RangeOfConcat
    <3>4. \A x : x \in Range(f[n]) <=> \E j \in 1..n : x \in Range(s[j])
      BY <1>4, <3>1
    <3>5. \A j : j \in 1..(n + 1) <=> j \in 1..n \/ j = n + 1
      BY <3>1
    <3>6. \A x : x \in Range(f[n + 1]) <=> \E j \in 1..(n + 1) : x \in Range(s[j])
      BY <3>3, <3>4, <3>5, Zenon
    <3> QED BY <3>1, <3>6
  <2> QED BY <2>1, <2>2
<1>5. 0..m \subseteq T
  <2> HIDE DEF T
  <2> QED BY <1>3, <1>4, UpTo
<1>6. ASSUME NEW i \in 1..m
      PROVE  \A x : x \in Range(f[i]) <=> \E j \in 1..i : x \in Range(s[j])
  <2>1. i \in 0..m
    OBVIOUS
  <2>2. i \in T
    BY <1>5, <2>1
  <2> QED BY <2>2
<1> QED BY <1>6

LEMMA FlattenedFacts ==
    ASSUME NEW B, NEW s \in Seq(Seq(B))
    PROVE  /\ FlattenSeq(s) \in Seq(B)
           /\ \A x : x \in Range(FlattenSeq(s)) <=> \E j \in 1..Len(s) : x \in Range(s[j])
<1>1. CASE Len(s) = 0
  <2>1. s = <<>> /\ 1..Len(s) = {}
    BY <1>1
  <2>2. FlattenSeq(s) = <<>>
    BY <1>1, <2>1 DEF FlattenSeq
  <2>3. Range(<<>>) = {} /\ <<>> \in Seq(B)
    BY DEF Range
  <2> QED BY <2>1, <2>2, <2>3
<1>2. CASE Len(s) # 0
  <2>1. Len(s) \in Nat \ {0} /\ Len(s) \in 1..Len(s) /\ \A i \in 1..Len(s) : s[i] \in Seq(B)
    BY <1>2
  <2>2. PICK f : Joins(f, s, Len(s)) /\ FlattenSeq(s) = f[Len(s)]
    BY <2>1, Flattened
  <2>3. f[Len(s)] \in Seq(B)
    BY <2>1, <2>2, JoinsTyped
  <2>4. \A x : x \in Range(f[Len(s)]) <=> \E j \in 1..Len(s) : x \in Range(s[j])
    <3> HIDE DEF Range
    <3>1. \A i \in 1..Len(s) :
             \A x : x \in Range(f[i]) <=> \E j \in 1..i : x \in Range(s[j])
      BY <2>1, <2>2, JoinsRange
    <3> QED BY <2>1, <3>1
  <2> QED BY <2>2, <2>3, <2>4
<1> QED BY <1>1, <1>2

LEMMA OnlyFacts ==
    ASSUME NEW B, NEW s \in Seq(B), NEW keep
    PROVE  /\ Only(s, keep) \in Seq(B)
           /\ \A x : x \in Range(Only(s, keep)) <=> \E i \in 1..Len(s) : i \in keep /\ x = s[i]
<1> DEFINE t == [i \in DOMAIN s |-> IF i \in keep THEN <<s[i]>> ELSE <<>>]
<1>1. DOMAIN s = 1..Len(s) /\ Len(s) \in Nat /\ \A i \in 1..Len(s) : s[i] \in B
  OBVIOUS
<1>2. /\ t \in Seq(Seq(B)) /\ Len(t) = Len(s)
      /\ \A i \in 1..Len(s) : t[i] = IF i \in keep THEN <<s[i]>> ELSE <<>>
  BY <1>1
<1>3. Only(s, keep) = FlattenSeq(t)
  BY DEF Only
<1> HIDE DEF t
<1>4. /\ FlattenSeq(t) \in Seq(B)
      /\ \A x : x \in Range(FlattenSeq(t)) <=> \E j \in 1..Len(t) : x \in Range(t[j])
  BY <1>2, FlattenedFacts
<1>5. \A y : \A x : x \in Range(<<y>>) <=> x = y
  BY DEF Range
<1>6. \A x : x \notin Range(<<>>)
  BY DEF Range
<1>7. \A i \in 1..Len(s) : \A x : x \in Range(t[i]) <=> i \in keep /\ x = s[i]
  <2> HIDE DEF Range
  <2>1. ASSUME NEW x, NEW i \in 1..Len(s)
        PROVE  x \in Range(t[i]) <=> i \in keep /\ x = s[i]
    <3>1. CASE i \in keep
      BY <1>2, <1>5, <3>1
    <3>2. CASE i \notin keep
      BY <1>2, <1>6, <3>2
    <3> QED BY <3>1, <3>2
  <2> QED BY <2>1
<1> QED BY <1>2, <1>3, <1>4, <1>7
-----------------------------------------------------------------------------
(* Paths.                                                                  *)

LEMMA SequenceTyped ==
    ASSUME NEW p, IsSeq(p), NEW U, Range(p) \subseteq U
    PROVE  p \in Seq(U)
<1>1. Len(p) \in Nat /\ p = [i \in 1..Len(p) |-> p[i]]
  BY DEF IsSeq
<1>2. DOMAIN p = 1..Len(p)
  BY <1>1
<1>3. \A i \in 1..Len(p) : p[i] \in U
  BY <1>2 DEF Range
<1> QED BY <1>1, <1>3

LEMMA WithinIs ==
    ASSUME NEW U, NEW p \in Seq(U), NEW r \in Seq(U)
    PROVE  Within(p, r) <=> Len(r) <= Len(p) /\ \A i \in 1..Len(r) : p[i] = r[i]
<1>1. Len(p) \in Nat /\ Len(r) \in Nat
  OBVIOUS
<1>2. CASE Len(r) <= Len(p)
  <2>1. /\ Len(SubSeq(r, 1, Len(r))) = Len(r) /\ Len(SubSeq(p, 1, Len(r))) = Len(r)
        /\ SubSeq(r, 1, Len(r)) \in Seq(U) /\ SubSeq(p, 1, Len(r)) \in Seq(U)
        /\ \A i \in 1..Len(r) : SubSeq(r, 1, Len(r))[i] = r[i] /\ SubSeq(p, 1, Len(r))[i] = p[i]
    BY <1>1, <1>2, SubSeqProperties
  <2>2. SubSeq(r, 1, Len(r)) = SubSeq(p, 1, Len(r)) <=> \A i \in 1..Len(r) : p[i] = r[i]
    BY <2>1, SeqEqual
  <2> QED BY <1>2, <2>2 DEF Within, IsPrefix
<1>3. CASE ~ (Len(r) <= Len(p))
  BY <1>3 DEF Within, IsPrefix
<1> QED BY <1>2, <1>3

LEMMA WithinSame ==
    ASSUME NEW U, NEW p \in Seq(U)
    PROVE  Within(p, p)
BY WithinIs

LEMMA WithinWithin ==
    ASSUME NEW U, NEW p \in Seq(U), NEW q \in Seq(U), NEW r \in Seq(U), Within(p, q), Within(q, r)
    PROVE  Within(p, r)
<1>1. Len(q) <= Len(p) /\ \A i \in 1..Len(q) : p[i] = q[i]
  BY WithinIs
<1>2. Len(r) <= Len(q) /\ \A i \in 1..Len(r) : q[i] = r[i]
  BY WithinIs
<1>3. Len(p) \in Nat /\ Len(q) \in Nat /\ Len(r) \in Nat
  OBVIOUS
<1>4. Len(r) <= Len(p) /\ \A i \in 1..Len(r) : p[i] = r[i]
  BY <1>1, <1>2, <1>3
<1> QED BY <1>4, WithinIs

\* Two paths that a third is in: one is in the other, and is the longer one.
LEMMA WithinBoth ==
    ASSUME NEW U, NEW p \in Seq(U), NEW q \in Seq(U), NEW r \in Seq(U), Within(p, q), Within(p, r),
           ~ Within(q, r)
    PROVE  Within(r, q) /\ Len(q) < Len(r)
<1>1. Len(q) <= Len(p) /\ \A i \in 1..Len(q) : p[i] = q[i]
  BY WithinIs
<1>2. Len(r) <= Len(p) /\ \A i \in 1..Len(r) : p[i] = r[i]
  BY WithinIs
<1>3. Len(p) \in Nat /\ Len(q) \in Nat /\ Len(r) \in Nat
  OBVIOUS
<1>4. ~ (Len(r) <= Len(q))
  <2>1. SUFFICES ASSUME Len(r) <= Len(q)
                 PROVE  FALSE
    OBVIOUS
  <2>2. \A i \in 1..Len(r) : q[i] = r[i]
    BY <1>1, <1>2, <1>3, <2>1
  <2> QED BY <2>1, <2>2, WithinIs
<1>5. Len(q) <= Len(r) /\ \A i \in 1..Len(q) : r[i] = q[i]
  BY <1>1, <1>2, <1>3, <1>4
<1> QED BY <1>3, <1>4, <1>5, WithinIs

\* Below one directory only the rest of the paths counts.
LEMMA WithinBelow ==
    ASSUME NEW U, NEW r \in Seq(U), NEW a \in Seq(U), NEW b \in Seq(U)
    PROVE  /\ Within(r \o a, r \o b) <=> Within(a, b)
           /\ Within(r \o a, r)
           /\ r \o a = r \o b => a = b
           /\ Len(r \o a) = Len(r) + Len(a) /\ r \o a \in Seq(U)
<1>1. /\ Len(r) \in Nat /\ Len(a) \in Nat /\ Len(b) \in Nat
      /\ r \o a \in Seq(U) /\ Len(r \o a) = Len(r) + Len(a)
      /\ r \o b \in Seq(U) /\ Len(r \o b) = Len(r) + Len(b)
      /\ \A i \in 1..Len(r) : (r \o a)[i] = r[i] /\ (r \o b)[i] = r[i]
      /\ \A i \in 1..Len(a) : (r \o a)[Len(r) + i] = a[i]
      /\ \A i \in 1..Len(b) : (r \o b)[Len(r) + i] = b[i]
  BY ConcatProperties
<1> DEFINE ra == r \o a
           rb == r \o b
<1> HIDE DEF ra, rb
<1>2. /\ ra \in Seq(U) /\ Len(ra) = Len(r) + Len(a)
      /\ rb \in Seq(U) /\ Len(rb) = Len(r) + Len(b)
      /\ \A i \in 1..Len(r) : ra[i] = r[i] /\ rb[i] = r[i]
      /\ \A i \in 1..Len(a) : ra[Len(r) + i] = a[i]
      /\ \A i \in 1..Len(b) : rb[Len(r) + i] = b[i]
  BY <1>1 DEF ra, rb
<1>3. Within(ra, r)
  <2>1. Len(r) <= Len(ra)
    BY <1>1, <1>2
  <2> QED BY <1>2, <2>1, WithinIs
<1>4. Within(ra, rb) => Within(a, b)
  <2>1. SUFFICES ASSUME Within(ra, rb)
                 PROVE  Within(a, b)
    OBVIOUS
  <2>2. Len(rb) <= Len(ra) /\ \A i \in 1..Len(rb) : ra[i] = rb[i]
    <3>1. ra \in Seq(U) /\ rb \in Seq(U)
      BY <1>2
    <3>2. Within(ra, rb) <=> Len(rb) <= Len(ra) /\ \A i \in 1..Len(rb) : ra[i] = rb[i]
      BY <3>1, WithinIs
    <3> QED BY <2>1, <3>2
  <2>3. Len(b) <= Len(a)
    BY <1>1, <1>2, <2>2
  <2>4. ASSUME NEW i \in 1..Len(b)
        PROVE  a[i] = b[i]
    <3>1. Len(r) + i \in 1..Len(rb) /\ i \in 1..Len(a)
      BY <1>1, <1>2, <2>3
    <3> QED BY <1>2, <2>2, <3>1
  <2> QED BY <2>3, <2>4, WithinIs
<1>5. Within(a, b) => Within(ra, rb)
  <2>1. SUFFICES ASSUME Within(a, b)
                 PROVE  Within(ra, rb)
    OBVIOUS
  <2>2. Len(b) <= Len(a) /\ \A i \in 1..Len(b) : a[i] = b[i]
    BY <2>1, WithinIs
  <2>3. Len(rb) <= Len(ra)
    BY <1>1, <1>2, <2>2
  <2>4. ASSUME NEW i \in 1..Len(rb)
        PROVE  ra[i] = rb[i]
    <3>1. CASE i <= Len(r)
      BY <1>1, <1>2, <3>1
    <3>2. CASE i > Len(r)
      <4> DEFINE j == i - Len(r)
      <4>1. j \in 1..Len(b) /\ j \in 1..Len(a) /\ i = Len(r) + j
        BY <1>1, <1>2, <2>2, <3>2
      <4> HIDE DEF j
      <4>2. ra[Len(r) + j] = a[j] /\ rb[Len(r) + j] = b[j]
        BY <1>2, <4>1
      <4>3. a[j] = b[j]
        BY <2>2, <4>1
      <4> QED BY <4>1, <4>2, <4>3
    <3> QED BY <1>1, <1>2, <3>1, <3>2
  <2> QED BY <1>2, <2>3, <2>4, WithinIs
<1>6. ra = rb => a = b
  <2>1. SUFFICES ASSUME ra = rb
                 PROVE  a = b
    OBVIOUS
  <2>2. Len(a) = Len(b)
    BY <1>1, <1>2, <2>1
  <2>3. \A i \in 1..Len(a) : a[i] = b[i]
    BY <1>2, <2>1, <2>2
  <2> QED BY <2>2, <2>3, SeqEqual
<1> QED BY <1>2, <1>3, <1>4, <1>5, <1>6 DEF ra, rb
-----------------------------------------------------------------------------
(* Which mount serves a path.                                              *)

MountsOver(U) == [src : Seq(U), dst : Seq(U), mode : MountModes, links : BOOLEAN]

LEMMA MountFacts ==
    ASSUME NEW U, NEW m \in MountsOver(U)
    PROVE  /\ m.src \in Seq(U) /\ m.dst \in Seq(U) /\ Len(m.dst) \in Nat
           /\ m.mode \in MountModes /\ m.links \in BOOLEAN
BY DEF MountsOver

LEMMA HasGreatest ==
    ASSUME NEW n \in Nat, NEW T \in SUBSET (1..n), T # {}
    PROVE  Max(T) \in T /\ \A y \in T : y <= Max(T)
<1> DEFINE S == {k \in 0..n : n - k \in T}
<1>1. S \in SUBSET Nat /\ S # {}
  <2>1. PICK t \in T : TRUE
    OBVIOUS
  <2>2. n - t \in S
    <3>1. n - t \in 0..n /\ n - (n - t) = t
      OBVIOUS
    <3> QED BY <2>1, <3>1
  <2>3. S \in SUBSET Nat
    OBVIOUS
  <2> HIDE DEF S
  <2> QED BY <2>2, <2>3
<1>2. PICK x \in S : \A y \in S : x <= y
  BY <1>1, HasLeast
<1>3. ASSUME NEW y \in T
      PROVE  n - x >= y
  <2>1. n - y \in 0..n /\ n - (n - y) = y
    OBVIOUS
  <2>2. n - y \in S
    BY <2>1
  <2>3. x <= n - y /\ x \in 0..n
    BY <1>2, <2>2
  <2> QED BY <2>3
<1>4. n - x \in T
  BY <1>2
<1>5. \E z \in T : \A y \in T : z >= y
  BY <1>3, <1>4
<1>6. Max(T) \in T /\ \A y \in T : Max(T) >= y
  BY <1>5 DEF Max
<1> QED BY <1>6

LEMMA ServedBy ==
    ASSUME NEW U, NEW L \in Seq(MountsOver(U)), NEW p \in Seq(U), NEW top \in Range(L),
           Within(p, top.dst),
           \A m \in Range(L) : Within(p, m.dst) =>
               \/ Len(m.dst) < Len(top.dst)
               \/ m.dst = top.dst /\ m.src = top.src /\ m.mode = top.mode
    PROVE  Writable(L, p) <=> top.mode = "RW" /\ top.src = top.dst
<1> DEFINE over == {i \in DOMAIN L : Within(p, L[i].dst)}
           deepest == {i \in over : \A j \in over : Len(L[j].dst) <= Len(L[i].dst)}
<1>1. DOMAIN L = 1..Len(L) /\ Len(L) \in Nat /\ \A i \in 1..Len(L) : L[i] \in MountsOver(U)
  OBVIOUS
<1>2. \A i \in 1..Len(L) : L[i] \in Range(L) /\ Len(L[i].dst) \in Nat
  BY <1>1, MountFacts DEF Range
<1>3. PICK k \in 1..Len(L) : L[k] = top
  BY <1>1 DEF Range
<1>4. k \in over
  BY <1>1, <1>3
<1>5. ASSUME NEW j \in over
      PROVE  \/ Len(L[j].dst) < Len(top.dst)
             \/ L[j].dst = top.dst /\ L[j].src = top.src /\ L[j].mode = top.mode
  BY <1>1, <1>2
<1>6. k \in deepest
  <2>1. \A j \in over : Len(L[j].dst) <= Len(L[k].dst)
    BY <1>1, <1>2, <1>3, <1>5
  <2> QED BY <1>4, <2>1
<1>7. deepest \in SUBSET (1..Len(L)) /\ deepest # {} /\ over # {}
  BY <1>1, <1>4, <1>6
<1>8. Max(deepest) \in deepest
  <2> HIDE DEF deepest
  <2> QED BY <1>1, <1>7, HasGreatest
<1>9. Serving(L, p) = Max(deepest)
  BY <1>7 DEF Serving
<1> DEFINE g == Max(deepest)
<1>10. g \in 1..Len(L) /\ g \in over /\ Len(L[k].dst) <= Len(L[g].dst)
  <2> HIDE DEF g
  <2>1. g \in deepest
    BY <1>8 DEF g
  <2> QED BY <1>1, <1>4, <2>1
<1> HIDE DEF over, deepest, g
<1>11. L[g].dst = top.dst /\ L[g].src = top.src /\ L[g].mode = top.mode
  <2>1. ~ (Len(L[g].dst) < Len(top.dst))
    BY <1>2, <1>3, <1>10
  <2> QED BY <1>5, <1>10, <2>1
<1>12. Serving(L, p) = g /\ g # 0
  BY <1>9, <1>10 DEF g
<1> QED BY <1>11, <1>12 DEF Writable
-----------------------------------------------------------------------------
(* The order of file names, and the newest file.                           *)

\* The components of the names of task files.
NameWords == Range(Days) \cup Range(Alphabet)

LEMMA WordFacts ==
    /\ Days \in Seq(NameWords) /\ Alphabet \in Seq(NameWords) /\ Len(Days) >= 1
    /\ TaskNames \subseteq Seq(NameWords)
<1>1. Days \in Seq(NameWords) /\ Alphabet \in Seq(NameWords)
  BY RecordsAssumption, SequenceTyped DEF NameWords
<1>2. Len(Days) >= 1
  BY <1>1, RecordsAssumption
<1>3. TaskNames \subseteq Seq(NameWords)
  <2>1. TaskNames \subseteq Seq(Range(Alphabet)) /\ Range(Alphabet) \subseteq NameWords
    BY RecordsAssumption DEF NameWords
  <2>2. \A n \in TaskNames : n \in Seq(NameWords)
    <3> HIDE DEF NameWords
    <3> QED BY <2>1
  <2> QED BY <2>2
<1> QED BY <1>1, <1>2, <1>3

LEMMA RankFacts ==
    /\ \A w \in NameWords : Rank(w) \in Nat
    /\ \A w, x \in NameWords : Rank(w) = Rank(x) => w = x
<1> DEFINE all == Days \o Alphabet
<1>1. all \in Seq(NameWords) /\ Range(all) = NameWords
  BY WordFacts, RangeOfConcat, ConcatProperties DEF NameWords
<1>2. \A w \in NameWords : \E k \in DOMAIN all : all[k] = w
  BY <1>1 DEF Range
<1> HIDE DEF NameWords
<1>3. \A w \in NameWords : Rank(w) \in DOMAIN all /\ all[Rank(w)] = w
  BY <1>2 DEF Rank
<1>4. DOMAIN all \subseteq Nat
  <2> HIDE DEF all
  <2> QED BY <1>1
<1> HIDE DEF all
<1> QED BY <1>3, <1>4

LEMMA BeforeIs ==
    ASSUME NEW U, NEW s \in Seq(U), NEW t \in Seq(U)
    PROVE  Before(s, t) <=>
             \/ Len(s) < Len(t) /\ \A i \in 1..Len(s) : s[i] = t[i]
             \/ \E k \in 1..Len(s) : /\ k <= Len(t) /\ \A i \in 1..(k - 1) : s[i] = t[i]
                                     /\ Rank(s[k]) < Rank(t[k])
<1>1. Len(s) \in Nat /\ Len(t) \in Nat
  OBVIOUS
<1>2. s # t /\ IsPrefix(s, t) <=> Len(s) < Len(t) /\ \A i \in 1..Len(s) : s[i] = t[i]
  <2>1. IsPrefix(s, t) <=> Len(s) <= Len(t) /\ \A i \in 1..Len(s) : t[i] = s[i]
    BY WithinIs DEF Within
  <2>2. Len(s) = Len(t) /\ (\A i \in 1..Len(s) : s[i] = t[i]) => s = t
    BY SeqEqual
  <2> QED BY <1>1, <2>1, <2>2
<1>3. ASSUME NEW k \in 1..Len(s), k <= Len(t)
      PROVE  SubSeq(s, 1, k - 1) = SubSeq(t, 1, k - 1) <=> \A i \in 1..(k - 1) : s[i] = t[i]
  <2> DEFINE a == SubSeq(s, 1, k - 1)
             b == SubSeq(t, 1, k - 1)
  <2>1. k - 1 \in Nat /\ k - 1 <= Len(s) /\ k - 1 <= Len(t)
    BY <1>1, <1>3
  <2>2. /\ a \in Seq(U) /\ Len(a) = k - 1 /\ \A i \in 1..(k - 1) : a[i] = s[i]
        /\ b \in Seq(U) /\ Len(b) = k - 1 /\ \A i \in 1..(k - 1) : b[i] = t[i]
    BY <2>1, SubSeqProperties
  <2> HIDE DEF a, b
  <2>3. a = b <=> \A i \in 1..(k - 1) : a[i] = b[i]
    BY <2>1, <2>2, SeqEqual
  <2>4. a = b <=> \A i \in 1..(k - 1) : s[i] = t[i]
    BY <2>2, <2>3
  <2> QED BY <2>4 DEF a, b
<1> QED BY <1>2, <1>3 DEF Before

LEMMA BeforeTotal ==
    ASSUME NEW s \in Seq(NameWords), NEW t \in Seq(NameWords), s # t
    PROVE  Before(s, t) \/ Before(t, s)
<1>1. Len(s) \in Nat /\ Len(t) \in Nat
      /\ (\A i \in 1..Len(s) : s[i] \in NameWords) /\ (\A i \in 1..Len(t) : t[i] \in NameWords)
  OBVIOUS
<1> DEFINE differ == {i \in Nat : i \in 1..Len(s) /\ i \in 1..Len(t) /\ s[i] # t[i]}
<1>2. CASE differ = {}
  <2>1. \A i \in 1..Len(s) : i <= Len(t) => s[i] = t[i]
    BY <1>1, <1>2
  <2>2. Len(s) # Len(t)
    <3>1. Len(s) = Len(t) => \A i \in 1..Len(s) : s[i] = t[i]
      BY <1>1, <2>1
    <3> QED BY <3>1, SeqEqual
  <2>3. CASE Len(s) < Len(t)
    <3>1. \A i \in 1..Len(s) : s[i] = t[i]
      BY <1>1, <2>1, <2>3
    <3> QED BY <2>3, <3>1, BeforeIs
  <2>4. CASE Len(t) < Len(s)
    <3>1. \A i \in 1..Len(t) : t[i] = s[i]
      BY <1>1, <2>1, <2>4
    <3> QED BY <2>4, <3>1, BeforeIs
  <2> QED BY <1>1, <2>2, <2>3, <2>4
<1>3. CASE differ # {}
  <2>1. PICK k \in differ : \A y \in differ : k <= y
    <3>1. differ \in SUBSET Nat
      OBVIOUS
    <3> HIDE DEF differ
    <3> QED BY <1>3, <3>1, HasLeast
  <2>2. k \in 1..Len(s) /\ k \in 1..Len(t) /\ s[k] # t[k] /\ k <= Len(t) /\ k <= Len(s)
    BY <1>1
  <2>3. \A i \in 1..(k - 1) : s[i] = t[i]
    <3>1. SUFFICES ASSUME NEW i \in 1..(k - 1), s[i] # t[i]
                   PROVE  FALSE
      OBVIOUS
    <3>2. i \in Nat /\ i \in 1..Len(s) /\ i \in 1..Len(t) /\ ~ (k <= i)
      BY <1>1, <2>2
    <3>3. i \in differ
      BY <3>1, <3>2
    <3> QED BY <2>1, <3>2, <3>3
  <2>4. Rank(s[k]) < Rank(t[k]) \/ Rank(t[k]) < Rank(s[k])
    <3>1. s[k] \in NameWords /\ t[k] \in NameWords
      BY <1>1, <2>2
    <3>2. Rank(s[k]) \in Nat /\ Rank(t[k]) \in Nat /\ Rank(s[k]) # Rank(t[k])
      BY <2>2, <3>1, RankFacts
    <3> QED BY <3>2
  <2>5. CASE Rank(s[k]) < Rank(t[k])
    BY <2>2, <2>3, <2>5, BeforeIs
  <2>6. CASE Rank(t[k]) < Rank(s[k])
    <3>1. \A i \in 1..(k - 1) : t[i] = s[i]
      BY <2>3
    <3> QED BY <2>2, <3>1, <2>6, BeforeIs
  <2> QED BY <2>4, <2>5, <2>6
<1> QED BY <1>2, <1>3

LEMMA BeforeTransitive ==
    ASSUME NEW s \in Seq(NameWords), NEW t \in Seq(NameWords), NEW u \in Seq(NameWords),
           Before(s, t), Before(t, u)
    PROVE  Before(s, u)
<1>1. /\ Len(s) \in Nat /\ Len(t) \in Nat /\ Len(u) \in Nat
      /\ \A i \in 1..Len(s) : Rank(s[i]) \in Nat
      /\ \A i \in 1..Len(t) : Rank(t[i]) \in Nat
      /\ \A i \in 1..Len(u) : Rank(u[i]) \in Nat
  BY RankFacts
<1>2. \/ Len(s) < Len(t) /\ \A i \in 1..Len(s) : s[i] = t[i]
      \/ \E k \in 1..Len(s) : /\ k <= Len(t) /\ \A i \in 1..(k - 1) : s[i] = t[i]
                              /\ Rank(s[k]) < Rank(t[k])
  BY BeforeIs
<1>3. \/ Len(t) < Len(u) /\ \A i \in 1..Len(t) : t[i] = u[i]
      \/ \E k \in 1..Len(t) : /\ k <= Len(u) /\ \A i \in 1..(k - 1) : t[i] = u[i]
                              /\ Rank(t[k]) < Rank(u[k])
  BY BeforeIs
<1> SUFFICES \/ Len(s) < Len(u) /\ \A i \in 1..Len(s) : s[i] = u[i]
             \/ \E k \in 1..Len(s) : /\ k <= Len(u) /\ \A i \in 1..(k - 1) : s[i] = u[i]
                                     /\ Rank(s[k]) < Rank(u[k])
  BY BeforeIs
<1>4. CASE Len(s) < Len(t) /\ \A i \in 1..Len(s) : s[i] = t[i]
  <2>1. CASE Len(t) < Len(u) /\ \A i \in 1..Len(t) : t[i] = u[i]
    <3>1. Len(s) < Len(u) /\ \A i \in 1..Len(s) : s[i] = u[i]
      BY <1>1, <1>4, <2>1
    <3> QED BY <3>1
  <2>2. ASSUME NEW k \in 1..Len(t), k <= Len(u), \A i \in 1..(k - 1) : t[i] = u[i],
               Rank(t[k]) < Rank(u[k])
        PROVE  \/ Len(s) < Len(u) /\ \A i \in 1..Len(s) : s[i] = u[i]
               \/ \E j \in 1..Len(s) : /\ j <= Len(u) /\ \A i \in 1..(j - 1) : s[i] = u[i]
                                       /\ Rank(s[j]) < Rank(u[j])
    <3>1. CASE k <= Len(s)
      <4>1. k \in 1..Len(s) /\ Rank(s[k]) < Rank(u[k]) /\ \A i \in 1..(k - 1) : s[i] = u[i]
        BY <1>1, <1>4, <2>2, <3>1
      <4> QED BY <2>2, <4>1
    <3>2. CASE k > Len(s)
      <4>1. Len(s) < Len(u) /\ \A i \in 1..Len(s) : s[i] = u[i]
        BY <1>1, <1>4, <2>2, <3>2
      <4> QED BY <4>1
    <3> QED BY <1>1, <3>1, <3>2
  <2> QED BY <1>3, <2>1, <2>2
<1>5. ASSUME NEW k \in 1..Len(s), k <= Len(t), \A i \in 1..(k - 1) : s[i] = t[i],
             Rank(s[k]) < Rank(t[k])
      PROVE  \E j \in 1..Len(s) : /\ j <= Len(u) /\ \A i \in 1..(j - 1) : s[i] = u[i]
                                  /\ Rank(s[j]) < Rank(u[j])
  <2>1. CASE Len(t) < Len(u) /\ \A i \in 1..Len(t) : t[i] = u[i]
    <3>1. k <= Len(u) /\ Rank(s[k]) < Rank(u[k]) /\ \A i \in 1..(k - 1) : s[i] = u[i]
      BY <1>1, <1>5, <2>1
    <3> QED BY <3>1
  <2>2. ASSUME NEW l \in 1..Len(t), l <= Len(u), \A i \in 1..(l - 1) : t[i] = u[i],
               Rank(t[l]) < Rank(u[l])
        PROVE  \E j \in 1..Len(s) : /\ j <= Len(u) /\ \A i \in 1..(j - 1) : s[i] = u[i]
                                    /\ Rank(s[j]) < Rank(u[j])
    <3>1. CASE k < l
      <4>1. k <= Len(u) /\ Rank(s[k]) < Rank(u[k]) /\ \A i \in 1..(k - 1) : s[i] = u[i]
        BY <1>1, <1>5, <2>2, <3>1
      <4> QED BY <4>1
    <3>2. CASE k = l
      <4>1. k <= Len(u) /\ k \in 1..Len(t) /\ k \in 1..Len(u)
            /\ \A i \in 1..(k - 1) : s[i] = u[i]
        BY <1>1, <1>5, <2>2, <3>2
      <4>2. Rank(s[k]) < Rank(u[k])
        BY <1>1, <1>5, <2>2, <3>2, <4>1
      <4> QED BY <4>1, <4>2
    <3>3. CASE l < k
      <4>1. l \in 1..Len(s) /\ l <= Len(u) /\ s[l] = t[l] /\ \A i \in 1..(l - 1) : s[i] = u[i]
        BY <1>1, <1>5, <2>2, <3>3
      <4> QED BY <2>2, <4>1
    <3> QED BY <1>1, <3>1, <3>2, <3>3
  <2> QED BY <1>3, <2>1, <2>2
<1> QED BY <1>2, <1>4, <1>5

\* A finite set has a last element in a total order.
LEMMA HasLast ==
    ASSUME NEW S, IsFiniteSet(S), S # {}, NEW R,
           \A x, y \in S : x = y \/ <<x, y>> \in R \/ <<y, x>> \in R,
           \A x, y, z \in S : <<x, y>> \in R /\ <<y, z>> \in R => <<x, z>> \in R
    PROVE  \E k \in S : \A l \in S : l = k \/ <<l, k>> \in R
<1> DEFINE Topped(A) == \E k \in A : \A l \in A : l = k \/ <<l, k>> \in R
           bad == {A \in SUBSET S : A # {} /\ ~ Topped(A)}
           sizes == {Cardinality(A) : A \in bad}
<1>1. SUFFICES ASSUME bad # {}
               PROVE  FALSE
  OBVIOUS
<1>2. \A A \in SUBSET S : IsFiniteSet(A) /\ Cardinality(A) \in Nat
  BY FS_Subset, FS_CardinalityType
<1>3. sizes \in SUBSET Nat /\ sizes # {}
  BY <1>1, <1>2
<1>4. PICK n \in sizes : \A y \in sizes : n <= y
  <2> HIDE DEF sizes
  <2> QED BY <1>3, HasLeast
<1>5. PICK A \in bad : n = Cardinality(A)
  OBVIOUS
<1>6. PICK x \in A : TRUE
  OBVIOUS
<1> DEFINE B == A \ {x}
<1>7. Cardinality(B) = n - 1 /\ n \in Nat /\ B \in SUBSET S /\ A = B \cup {x} /\ A \in SUBSET S
  <2>1. A \in SUBSET S
    OBVIOUS
  <2>2. IsFiniteSet(A) /\ Cardinality(A) \in Nat
    BY <1>2, <2>1
  <2>3. Cardinality(A \ {x}) = Cardinality(A) - 1
    BY <2>2, FS_RemoveElement
  <2> QED BY <1>5, <2>1, <2>2, <2>3
<1>8. B \notin bad
  <2>1. SUFFICES ASSUME B \in bad
                 PROVE  FALSE
    OBVIOUS
  <2>2. n - 1 \in sizes
    <3> HIDE DEF bad, B
    <3> QED BY <1>7, <2>1
  <2>3. n <= n - 1
    <3> HIDE DEF sizes
    <3> QED BY <1>4, <2>2
  <2> QED BY <1>7, <2>3
<1>9. ~ Topped(A)
  OBVIOUS
<1>10. CASE B = {}
  <2>1. A = {x}
    BY <1>7, <1>10
  <2> QED BY <1>9, <2>1
<1>11. CASE B # {}
  <2>1. Topped(B)
    BY <1>7, <1>8, <1>11
  <2>2. PICK k \in B : \A l \in B : l = k \/ <<l, k>> \in R
    BY <2>1
  <2>3. k \in S /\ x \in S /\ \A l \in A : l \in S /\ (l \in B \/ l = x)
    BY <1>7
  <2> HIDE DEF B, bad, sizes
  <2>4. CASE <<x, k>> \in R \/ x = k
    <3>1. \A l \in A : l = k \/ <<l, k>> \in R
      BY <2>2, <2>3, <2>4
    <3>2. k \in A
      BY <1>7, <2>2
    <3> QED BY <1>9, <3>1, <3>2
  <2>5. CASE <<k, x>> \in R
    <3>1. \A l \in A : l = x \/ <<l, x>> \in R
      BY <2>2, <2>3, <2>5
    <3> QED BY <1>6, <1>9, <3>1
  <2> QED BY <2>3, <2>4, <2>5
<1> QED BY <1>10, <1>11
-----------------------------------------------------------------------------
(* Which file is found for a name.                                         *)

LEMMA StemFacts ==
    ASSUME NEW k \in Key
    PROVE  /\ Stem(k) \in Seq(NameWords) /\ Len(Stem(k)) = Len(k.name) + 1
           /\ Stem(k)[1] = k.day /\ \A i \in 1..Len(k.name) : Stem(k)[i + 1] = k.name[i]
           /\ k.name \in Seq(NameWords) /\ k.day \in NameWords /\ k.layout \in Layouts
           /\ k.name \in TaskNames
<1>1. /\ k.name \in TaskNames /\ k.day \in Range(Days) /\ k.layout \in Layouts
  BY DEF Key
<1>2. k.name \in Seq(NameWords) /\ k.day \in NameWords
  BY <1>1, WordFacts DEF NameWords
<1>3. <<k.day>> \in Seq(NameWords) /\ Len(<<k.day>>) = 1 /\ <<k.day>>[1] = k.day
  BY <1>2
<1>4. /\ Stem(k) \in Seq(NameWords) /\ Len(Stem(k)) = 1 + Len(k.name)
      /\ \A i \in 1..1 : Stem(k)[i] = <<k.day>>[i]
      /\ \A i \in 1..Len(k.name) : Stem(k)[1 + i] = k.name[i]
  BY <1>2, <1>3, ConcatProperties DEF Stem
<1>5. Len(k.name) \in Nat
  BY <1>2
<1> QED BY <1>1, <1>2, <1>3, <1>4, <1>5

LEMMA StemDetermines ==
    ASSUME NEW k \in Key, NEW l \in Key, Stem(k) = Stem(l)
    PROVE  k.day = l.day /\ k.name = l.name
<1>1. /\ Len(k.name) = Len(l.name) /\ k.day = l.day /\ k.name \in Seq(NameWords)
      /\ l.name \in Seq(NameWords)
  BY StemFacts
<1>2. ASSUME NEW i \in 1..Len(k.name)
      PROVE  k.name[i] = l.name[i]
  <2>1. Stem(k)[i + 1] = k.name[i]
    BY StemFacts
  <2>2. Stem(l)[i + 1] = l.name[i]
    BY <1>1, StemFacts
  <2> QED BY <2>1, <2>2
<1> QED BY <1>1, <1>2, SeqEqual

LEMMA KeyIs ==
    ASSUME NEW k \in Key
    PROVE  /\ k = [layout |-> k.layout, day |-> k.day, name |-> k.name]
           /\ NewKey(k) = [layout |-> "dir", day |-> k.day, name |-> k.name]
           /\ NewKey(k) \in Key /\ NewKey(k).layout = "dir"
           /\ NewKey(k).name = k.name /\ NewKey(k).day = k.day
           /\ k.layout = "dir" => NewKey(k) = k
           /\ Stem(NewKey(k)) = Stem(k)
<1>1. k = [layout |-> k.layout, day |-> k.day, name |-> k.name]
  BY DEF Key
<1>2. NewKey(k) = [layout |-> "dir", day |-> k.day, name |-> k.name] /\ NewKey(k) \in Key
  BY DEF NewKey, Key, Layouts
<1> QED BY <1>1, <1>2 DEF Stem

LEMMA EndsInIs ==
    ASSUME NEW U, NEW s \in Seq(U), NEW n \in Seq(U)
    PROVE  EndsIn(s, n) <=> /\ Len(s) > Len(n)
                            /\ \A i \in 1..Len(n) : s[Len(s) - Len(n) + i] = n[i]
<1> DEFINE rs == Reverse(s)
           rn == Reverse(n)
<1>1. Len(s) \in Nat /\ Len(n) \in Nat
  OBVIOUS
<1>2. /\ rs \in Seq(U) /\ Len(rs) = Len(s) /\ \A i \in 1..Len(s) : rs[i] = s[(Len(s) - i) + 1]
      /\ rn \in Seq(U) /\ Len(rn) = Len(n) /\ \A i \in 1..Len(n) : rn[i] = n[(Len(n) - i) + 1]
  BY <1>1 DEF Reverse
<1> HIDE DEF rs, rn
<1>3. IsPrefix(rn, rs) <=> Len(rn) <= Len(rs) /\ \A i \in 1..Len(rn) : rs[i] = rn[i]
  BY <1>2, WithinIs DEF Within
<1>4. ASSUME Len(s) > Len(n)
      PROVE  (\A i \in 1..Len(n) : rs[i] = rn[i])
                <=> \A i \in 1..Len(n) : s[Len(s) - Len(n) + i] = n[i]
  <2>1. ASSUME \A i \in 1..Len(n) : rs[i] = rn[i], NEW i \in 1..Len(n)
        PROVE  s[Len(s) - Len(n) + i] = n[i]
    <3> DEFINE j == (Len(n) - i) + 1
    <3>1. /\ j \in 1..Len(n) /\ j \in 1..Len(s) /\ (Len(n) - j) + 1 = i
          /\ (Len(s) - j) + 1 = Len(s) - Len(n) + i
      BY <1>1, <1>4
    <3> HIDE DEF j
    <3>2. rs[j] = s[(Len(s) - j) + 1] /\ rn[j] = n[(Len(n) - j) + 1] /\ rs[j] = rn[j]
      BY <1>2, <2>1, <3>1
    <3> QED BY <3>1, <3>2
  <2>2. ASSUME \A i \in 1..Len(n) : s[Len(s) - Len(n) + i] = n[i], NEW i \in 1..Len(n)
        PROVE  rs[i] = rn[i]
    <3> DEFINE j == (Len(n) - i) + 1
    <3>1. /\ j \in 1..Len(n) /\ i \in 1..Len(s)
          /\ (Len(s) - i) + 1 = Len(s) - Len(n) + j
      BY <1>1, <1>4
    <3>2. rs[i] = s[(Len(s) - i) + 1] /\ rn[i] = n[j]
      BY <1>2, <3>1
    <3> HIDE DEF j
    <3>3. s[Len(s) - Len(n) + j] = n[j]
      BY <2>2, <3>1
    <3> QED BY <3>1, <3>2, <3>3
  <2> QED BY <2>1, <2>2
<1>5. EndsIn(s, n) <=> Len(s) > Len(n) /\ IsPrefix(rn, rs)
  BY DEF EndsIn, IsSuffix, rs, rn
<1> QED BY <1>1, <1>2, <1>3, <1>4, <1>5

\* A file is found for its own task, and for the names that its task's ends in.
LEMMA StemEnds ==
    ASSUME NEW k \in Key, NEW n \in TaskNames
    PROVE  /\ EndsIn(Stem(k), n) => n = k.name \/ EndsIn(k.name, n)
           /\ n = k.name => EndsIn(Stem(k), n)
<1>1. /\ n \in Seq(NameWords) /\ Len(n) \in Nat /\ Len(k.name) \in Nat
      /\ Stem(k) \in Seq(NameWords) /\ k.name \in Seq(NameWords)
      /\ Len(Stem(k)) = Len(k.name) + 1
      /\ \A i \in 1..Len(k.name) : Stem(k)[i + 1] = k.name[i]
  <2>1. n \in Seq(NameWords)
    BY WordFacts
  <2>2. k.name \in Seq(NameWords) /\ Stem(k) \in Seq(NameWords)
    BY StemFacts
  <2>3. Len(n) \in Nat /\ Len(k.name) \in Nat
    BY <2>1, <2>2
  <2>4. Len(Stem(k)) = Len(k.name) + 1 /\ \A i \in 1..Len(k.name) : Stem(k)[i + 1] = k.name[i]
    BY StemFacts
  <2> QED BY <2>1, <2>2, <2>3, <2>4
<1> DEFINE s == Stem(k)
           m == k.name
<1> HIDE DEF s, m
<1>2. /\ n \in Seq(NameWords) /\ Len(n) \in Nat /\ Len(m) \in Nat
      /\ s \in Seq(NameWords) /\ m \in Seq(NameWords)
      /\ Len(s) = Len(m) + 1 /\ \A i \in 1..Len(m) : s[i + 1] = m[i]
  BY <1>1 DEF s, m
<1>3. ASSUME EndsIn(s, n)
      PROVE  n = m \/ EndsIn(m, n)
  <2>1. Len(s) > Len(n) /\ \A i \in 1..Len(n) : s[Len(s) - Len(n) + i] = n[i]
    <3>1. s \in Seq(NameWords) /\ n \in Seq(NameWords)
      BY <1>2
    <3>2. EndsIn(s, n) <=> /\ Len(s) > Len(n)
                           /\ \A i \in 1..Len(n) : s[Len(s) - Len(n) + i] = n[i]
      BY <3>1, EndsInIs
    <3> QED BY <1>3, <3>2
  <2>2. ASSUME NEW i \in 1..Len(n)
        PROVE  m[Len(m) - Len(n) + i] = n[i]
    <3>1. Len(m) - Len(n) + i \in 1..Len(m)
          /\ (Len(m) - Len(n) + i) + 1 = Len(s) - Len(n) + i
      BY <1>2, <2>1
    <3> QED BY <1>2, <2>1, <3>1
  <2>3. CASE Len(m) > Len(n)
    BY <1>2, <2>2, <2>3, EndsInIs
  <2>4. CASE Len(m) = Len(n)
    <3>1. \A i \in 1..Len(n) : m[i] = n[i]
      BY <1>2, <2>2, <2>4
    <3> QED BY <1>2, <2>4, <3>1, SeqEqual
  <2> QED BY <1>2, <2>1, <2>3, <2>4
<1>4. ASSUME n = m
      PROVE  EndsIn(s, n)
  <2>1. \A i \in 1..Len(n) : s[Len(s) - Len(n) + i] = n[i]
    <3>1. ASSUME NEW i \in 1..Len(n)
          PROVE  s[Len(s) - Len(n) + i] = n[i]
      <4>1. Len(s) - Len(n) + i = i + 1
        BY <1>2, <1>4
      <4> QED BY <1>2, <1>4, <4>1
    <3> QED BY <3>1
  <2> QED BY <1>2, <1>4, <2>1, EndsInIs
<1> QED BY <1>3, <1>4 DEF s, m

LEMMA LatestIs ==
    ASSUME NEW keys \in SUBSET Key, IsFiniteSet(keys), keys # {},
           \A k, l \in keys : k.layout = l.layout
    PROVE  Latest(keys) \in keys
<1> DEFINE R == {e \in keys \X keys : Before(Stem(e[1]), Stem(e[2]))}
<1>1. \A x, y \in keys : <<x, y>> \in R <=> Before(Stem(x), Stem(y))
  OBVIOUS
<1>2. \A x \in keys : Stem(x) \in Seq(NameWords)
  BY StemFacts
<1> HIDE DEF R
<1>3. ASSUME NEW x \in keys, NEW y \in keys
      PROVE  x = y \/ <<x, y>> \in R \/ <<y, x>> \in R
  <2>1. Stem(x) = Stem(y) => x = y
    <3>1. Stem(x) = Stem(y) => x.day = y.day /\ x.name = y.name
      BY StemDetermines
    <3> QED BY <3>1, KeyIs
  <2>2. Stem(x) \in Seq(NameWords) /\ Stem(y) \in Seq(NameWords)
    BY <1>2
  <2>3. Stem(x) # Stem(y) => Before(Stem(x), Stem(y)) \/ Before(Stem(y), Stem(x))
    BY <2>2, BeforeTotal
  <2> QED BY <1>1, <2>1, <2>3
<1>4. ASSUME NEW x \in keys, NEW y \in keys, NEW z \in keys, <<x, y>> \in R, <<y, z>> \in R
      PROVE  <<x, z>> \in R
  BY <1>1, <1>2, <1>4, BeforeTransitive
<1>5. \E k \in keys : \A l \in keys : l = k \/ <<l, k>> \in R
  <2>1. \A x, y \in keys : x = y \/ <<x, y>> \in R \/ <<y, x>> \in R
    BY <1>3, Zenon
  <2>2. \A x, y, z \in keys : <<x, y>> \in R /\ <<y, z>> \in R => <<x, z>> \in R
    BY <1>4, Zenon
  <2> QED BY <2>1, <2>2, HasLast, Zenon
<1>6. \E k \in keys : \A l \in keys : l = k \/ Before(Stem(l), Stem(k))
  BY <1>1, <1>5
<1> QED BY <1>6 DEF Latest

LEMMA FoundIs ==
    ASSUME DOMAIN records \subseteq Key, IsFiniteSet(DOMAIN records), NEW n \in TaskNames,
           Match(n) # {}
    PROVE  Found(n) \in DOMAIN records /\ Found(n) \in Key /\ EndsIn(Stem(Found(n)), n)
<1> DEFINE hits(layout) == {k \in DOMAIN records : k.layout = layout /\ EndsIn(Stem(k), n)}
           own == {k \in hits("sub") : k.name = n}
<1>1. Match(n) = IF hits("dir") # {} THEN hits("dir") ELSE IF own # {} THEN own ELSE hits("flat")
  BY DEF Match
<1>2. \A k \in Match(n) : k \in DOMAIN records /\ EndsIn(Stem(k), n)
  BY <1>1
<1>3. \A k, l \in Match(n) : k.layout = l.layout
  BY <1>1
<1>4. Match(n) \in SUBSET Key /\ IsFiniteSet(Match(n))
  BY <1>2, FS_Subset
<1>5. Latest(Match(n)) \in Match(n)
  BY <1>3, <1>4, LatestIs
<1> QED BY <1>2, <1>4, <1>5 DEF Found

LEMMA MatchIs ==
    ASSUME DOMAIN records \subseteq Key, NEW n \in TaskNames, NEW k \in DOMAIN records, k.name = n
    PROVE  Match(n) # {}
<1>1. EndsIn(Stem(k), n) /\ k \in Key /\ k.layout \in {"dir", "sub", "flat"}
  BY StemEnds, StemFacts DEF Layouts
<1> QED BY <1>1 DEF Match
-----------------------------------------------------------------------------
(* The invariant of the task files.                                        *)

\* The container of task n whose record is in the directory of k.
MountsFor(n, k) == Assembled(n, <<Mirror(Hatchery(Repo), "RO"), Mirror(TaskDir(n, k), "RW")>>)

\* A task that was created has a file; one that runs was given the directory of a file
\* found for it, which is still there: files move from old layouts to the new one only.
RecordsInv ==
    /\ RecordsTypeOK /\ OwnRecords
    /\ IsFiniteSet(DOMAIN records)
    /\ \A k \in DOMAIN records : k.name \in Setup.names
    /\ \A n \in TaskNames : task[n] # "none" => \E k \in DOMAIN records : k.name = n
    /\ mounts = [n \in TaskNames |-> mounts[n]]
    /\ \A n \in TaskNames : task[n] = "running" =>
          \E k \in DOMAIN records : /\ k.layout = "dir" /\ EndsIn(Stem(k), n)
                                    /\ mounts[n] = MountsFor(n, k)

LEMMA SetupFacts ==
    ASSUME setup \in DOMAIN Setups
    PROVE  Instance(Setup)
BY RecordsAssumption DEF Setup

LEMMA RecordsInitInv == RecordsInit => RecordsInv
<1> SUFFICES ASSUME RecordsInit
             PROVE  RecordsInv
  OBVIOUS
<1>1. /\ setup \in DOMAIN Setups /\ Setup.names \subseteq TaskNames
      /\ Setup.legacy \subseteq [layout : {"sub", "flat"}, day : {Days[1]}, name : Setup.names]
      /\ IsFiniteSet(Setup.legacy)
  BY SetupFacts DEF RecordsInit, Instance
<1>2. DOMAIN records = Setup.legacy /\ today = 1
      /\ \A k \in Setup.legacy : records[k] = [status |-> "in-progress", by |-> k.name]
  BY DEF RecordsInit
<1>3. today \in DOMAIN Days /\ Days[1] \in Range(Days)
  BY <1>2, WordFacts DEF Range
<1>4. Setup.legacy \subseteq Key /\ \A k \in Setup.legacy : k.name \in Setup.names
  <2>1. ASSUME NEW k \in Setup.legacy
        PROVE  k \in Key /\ k.name \in Setup.names
    <3>1. k \in [layout : {"sub", "flat"}, day : {Days[1]}, name : Setup.names]
      BY <1>1
    <3> QED BY <1>1, <1>3, <3>1 DEF Key, Layouts
  <2> QED BY <2>1
<1>5. /\ task = [n \in TaskNames |-> IF \E k \in Setup.legacy : k.name = n THEN "open" ELSE "none"]
      /\ mounts = [n \in TaskNames |-> <<>>]
  BY DEF RecordsInit
<1>6. \A k \in DOMAIN records : /\ records[k].status = "in-progress" /\ records[k].by = k.name
                                /\ k.name \in TaskNames
  <2>1. ASSUME NEW k \in DOMAIN records
        PROVE  /\ records[k].status = "in-progress" /\ records[k].by = k.name
               /\ k.name \in TaskNames
    <3>1. k \in Setup.legacy
      BY <1>2
    <3>2. records[k] = [status |-> "in-progress", by |-> k.name]
      BY <1>2, <3>1
    <3>3. k.name \in TaskNames
      BY <1>1, <1>4, <3>1
    <3> QED BY <3>2, <3>3
  <2> QED BY <2>1
<1>7. RecordsTypeOK
  BY <1>1, <1>2, <1>3, <1>4, <1>5, <1>6 DEF RecordsTypeOK
<1>8. OwnRecords
  BY <1>6 DEF OwnRecords
<1> QED BY <1>1, <1>2, <1>4, <1>5, <1>7, <1>8 DEF RecordsInv

\* Finding a file moves it to the new layout, and may write it.
LEMMA MigratedIs ==
    ASSUME RecordsInv, NEW n \in TaskNames, NEW status \in {"", "in-progress", "complete"},
           Match(n) # {}
    PROVE  LET prev == Found(n)
               new == NewKey(prev)
               now == Migrated(n, status, n)
           IN  /\ DOMAIN now = (DOMAIN records \ {prev}) \cup {new}
               /\ \A k \in DOMAIN now : k # new => k \in DOMAIN records /\ now[k] = records[k]
               /\ \/ now[new] = records[prev]
                  \/ /\ now[new].status \in {"in-progress", "complete"} /\ now[new].by = n
<1> DEFINE prev == Found(n)
           new == NewKey(prev)
           now == Migrated(n, status, n)
           file == IF status \in {"", records[prev].status} THEN records[prev]
                   ELSE [status |-> status, by |-> n]
<1>1. now = WithFile(records, {prev}, new, file)
  BY DEF Migrated
<1>2. file = records[prev] \/ (file.status \in {"in-progress", "complete"} /\ file.by = n)
  <2>1. status # "" => status \in {"in-progress", "complete"}
    OBVIOUS
  <2>2. CASE status \in {"", records[prev].status}
    <3>1. file = records[prev]
      BY <2>2
    <3> HIDE DEF file
    <3> QED BY <3>1
  <2>3. CASE status \notin {"", records[prev].status}
    <3>1. file = [status |-> status, by |-> n] /\ status # ""
      BY <2>3
    <3> HIDE DEF file
    <3> QED BY <2>1, <3>1
  <2> QED BY <2>2, <2>3
<1> HIDE DEF file, new, prev, now
<1>3. /\ DOMAIN now = (DOMAIN records \ {prev}) \cup {new}
      /\ \A k \in (DOMAIN records \ {prev}) \cup {new} :
            now[k] = IF k = new THEN file ELSE records[k]
  BY <1>1 DEF WithFile
<1>4. /\ DOMAIN now = (DOMAIN records \ {prev}) \cup {new}
      /\ \A k \in DOMAIN now : k # new => k \in DOMAIN records /\ now[k] = records[k]
      /\ \/ now[new] = records[prev]
         \/ /\ now[new].status \in {"in-progress", "complete"}
            /\ now[new].by = n
  BY <1>2, <1>3
<1> QED BY <1>4 DEF now, new, prev

\* The part of the invariant that a step on the files of n has to keep.
Filed ==
    /\ DOMAIN records \subseteq Key
    /\ \A k \in DOMAIN records : /\ records[k].status \in {"in-progress", "complete"}
                                 /\ records[k].by \in TaskNames
    /\ OwnRecords
    /\ IsFiniteSet(DOMAIN records)
    /\ \A k \in DOMAIN records : k.name \in Setup.names

\* No file that another step relies on goes away.
Lasting ==
    /\ \A k \in DOMAIN records : k.layout = "dir" => k \in DOMAIN records'
    /\ \A k \in DOMAIN records : \E l \in DOMAIN records' : l.name = k.name

LEMMA MigratedKeeps ==
    ASSUME RecordsInv, NEW n \in TaskNames, NEW status \in {"", "in-progress", "complete"},
           records' = Migrated(n, status, n), setup' = setup
    PROVE  /\ Filed' /\ Lasting
           /\ Match(n) # {} =>
                 LET k == NewKey(Found(n))
                 IN  k \in DOMAIN records' /\ k.layout = "dir" /\ EndsIn(Stem(k), n)
<1>1. CASE Match(n) = {}
  <2>1. records' = records
    BY <1>1 DEF Migrated
  <2> QED BY <1>1, <2>1 DEF RecordsInv, RecordsTypeOK, Filed, Lasting, OwnRecords, Setup
<1>2. CASE Match(n) # {}
  <2> DEFINE prev == Found(n)
             new == NewKey(prev)
  <2>1. /\ DOMAIN records' = (DOMAIN records \ {prev}) \cup {new}
        /\ \A k \in DOMAIN records' : k # new => k \in DOMAIN records /\ records'[k] = records[k]
        /\ \/ records'[new] = records[prev]
           \/ /\ records'[new].status \in {"in-progress", "complete"} /\ records'[new].by = n
    <3>1. LET now == Migrated(n, status, n)
          IN  /\ DOMAIN now = (DOMAIN records \ {prev}) \cup {new}
              /\ \A k \in DOMAIN now : k # new => k \in DOMAIN records /\ now[k] = records[k]
              /\ \/ now[new] = records[prev]
                 \/ /\ now[new].status \in {"in-progress", "complete"} /\ now[new].by = n
      BY <1>2, MigratedIs
    <3> QED BY <3>1
  <2>2. prev \in DOMAIN records /\ prev \in Key /\ EndsIn(Stem(prev), n)
    BY <1>2, FoundIs DEF RecordsInv, RecordsTypeOK
  <2>3. /\ new \in Key /\ new.layout = "dir" /\ new.name = prev.name
        /\ prev.layout = "dir" => new = prev
        /\ Stem(new) = Stem(prev)
    BY <2>2, KeyIs
  <2>4. n = new.name \/ EndsIn(new.name, n)
    BY <2>2, <2>3, StemEnds
  <2> HIDE DEF new, prev
  <2>5. ASSUME NEW k \in DOMAIN records'
        PROVE  /\ k \in Key /\ k.name \in Setup.names
               /\ records'[k].status \in {"in-progress", "complete"}
               /\ records'[k].by \in TaskNames
               /\ records'[k].by # k.name => EndsIn(k.name, records'[k].by)
    <3>1. CASE k = new
      <4>1. /\ new \in Key /\ new.name \in Setup.names /\ new.name = prev.name
            /\ records[prev].status \in {"in-progress", "complete"} /\ records[prev].by \in TaskNames
            /\ records[prev].by # prev.name => EndsIn(prev.name, records[prev].by)
        BY <2>2, <2>3 DEF RecordsInv, RecordsTypeOK, OwnRecords
      <4>2. CASE records'[new] = records[prev]
        BY <3>1, <4>1, <4>2
      <4>3. CASE records'[new].status \in {"in-progress", "complete"} /\ records'[new].by = n
        BY <2>4, <3>1, <4>1, <4>3
      <4> QED BY <2>1, <4>2, <4>3
    <3>2. CASE k # new
      <4>1. k \in DOMAIN records /\ records'[k] = records[k]
        BY <2>1, <3>2
      <4> QED BY <4>1 DEF RecordsInv, RecordsTypeOK, OwnRecords
    <3> QED BY <3>1, <3>2
  <2>6. IsFiniteSet(DOMAIN records')
    <3>1. IsFiniteSet(DOMAIN records \ {prev})
      BY FS_Subset DEF RecordsInv
    <3>2. IsFiniteSet((DOMAIN records \ {prev}) \cup {new})
      BY <3>1, FS_AddElement
    <3> QED BY <2>1, <3>2
  <2>7. Setup' = Setup
    BY DEF Setup
  <2>8. Filed'
    BY <2>5, <2>6, <2>7 DEF Filed, OwnRecords
  <2>9. Lasting
    <3>1. \A k \in DOMAIN records : k = prev \/ k \in DOMAIN records'
      BY <2>1
    <3>2. new \in DOMAIN records'
      BY <2>1
    <3> QED BY <2>2, <2>3, <3>1, <3>2 DEF Lasting
  <2>10. new \in DOMAIN records' /\ new.layout = "dir" /\ EndsIn(Stem(new), n)
    BY <2>1, <2>2, <2>3
  <2> QED BY <2>8, <2>9, <2>10 DEF new, prev
<1> QED BY <1>1, <1>2

\* The mounts of a container depend on nothing that changes.
LEMMA MountsForStays ==
    ASSUME setup' = setup, NEW n, NEW k
    PROVE  MountsFor(n, k)' = MountsFor(n, k)
<1>1. Setup' = Setup
  BY DEF Setup
<1>2. CheckoutMounts(n)' = CheckoutMounts(n)
  BY <1>1 DEF CheckoutMounts
<1>3. IncludedMounts(n)' = IncludedMounts(n)
  BY <1>1 DEF IncludedMounts, Isolated1
<1>4. \A st : Assembled(n, st)' = Assembled(n, st)
  BY <1>1, <1>2, <1>3 DEF Assembled
<1> QED BY <1>4 DEF MountsFor

\* What is left to show of a step that has kept the files.
LEMMA FiledKeeps ==
    ASSUME RecordsInv, Filed', Lasting, setup' = setup, today' \in DOMAIN Days,
           task' \in [TaskNames -> {"none", "open", "running", "done"}],
           mounts' = [n \in TaskNames |-> mounts'[n]],
           \A n \in TaskNames : task'[n] # "none" =>
               task[n] # "none" \/ \E k \in DOMAIN records' : k.name = n,
           \A n \in TaskNames : task'[n] # "running" => mounts'[n] = <<>>,
           \A n \in TaskNames : task'[n] = "running" =>
               \/ task[n] = "running" /\ mounts'[n] = mounts[n]
               \/ \E k \in DOMAIN records' : /\ k.layout = "dir" /\ EndsIn(Stem(k), n)
                                             /\ mounts'[n] = MountsFor(n, k)
    PROVE  RecordsInv'
<1>1. RecordsTypeOK'
  BY DEF RecordsTypeOK, Filed, RecordsInv
<1>2. ASSUME NEW n \in TaskNames, task'[n] # "none"
      PROVE  \E k \in DOMAIN records' : k.name = n
  <2>1. CASE task[n] # "none"
    <3>1. PICK k \in DOMAIN records : k.name = n
      BY <2>1 DEF RecordsInv
    <3> QED BY <3>1 DEF Lasting
  <2> QED BY <1>2, <2>1
<1>3. ASSUME NEW n \in TaskNames, task'[n] = "running"
      PROVE  \E k \in DOMAIN records' : /\ k.layout = "dir" /\ EndsIn(Stem(k), n)
                                        /\ mounts'[n] = MountsFor(n, k)'
  <2>1. \E k \in DOMAIN records' : /\ k.layout = "dir" /\ EndsIn(Stem(k), n)
                                   /\ mounts'[n] = MountsFor(n, k)
    <3>1. CASE task[n] = "running" /\ mounts'[n] = mounts[n]
      <4>1. PICK k \in DOMAIN records : /\ k.layout = "dir" /\ EndsIn(Stem(k), n)
                                        /\ mounts[n] = MountsFor(n, k)
        BY <3>1 DEF RecordsInv
      <4>2. k \in DOMAIN records'
        BY <4>1 DEF Lasting
      <4> QED BY <3>1, <4>1, <4>2
    <3> QED BY <1>3, <3>1
  <2>2. PICK k \in DOMAIN records' : /\ k.layout = "dir" /\ EndsIn(Stem(k), n)
                                     /\ mounts'[n] = MountsFor(n, k)
    BY <2>1
  <2>3. MountsFor(n, k)' = MountsFor(n, k)
    BY MountsForStays
  <2> QED BY <2>2, <2>3
<1> QED BY <1>1, <1>2, <1>3 DEF RecordsInv, Filed

LEMMA FilesStay ==
    ASSUME RecordsInv, UNCHANGED <<setup, records>>
    PROVE  Filed' /\ Lasting
BY DEF RecordsInv, RecordsTypeOK, Filed, Lasting, OwnRecords, Setup

LEMMA InvIs ==
    ASSUME RecordsInv
    PROVE  /\ setup \in DOMAIN Setups /\ today \in DOMAIN Days
           /\ DOMAIN records \subseteq Key
           /\ task \in [TaskNames -> {"none", "open", "running", "done"}]
           /\ mounts = [n \in TaskNames |-> mounts[n]]
           /\ \A n \in TaskNames : task[n] # "running" => mounts[n] = <<>>
           /\ \A n \in TaskNames : task[n] # "none" => \E k \in DOMAIN records : k.name = n
BY DEF RecordsInv, RecordsTypeOK

LEMMA WriteTaskFileKeeps ==
    ASSUME RecordsInv, NEW n \in Setup.names, WriteTaskFile(n)
    PROVE  RecordsInv'
<1> DEFINE new == [layout |-> "dir", day |-> Days[today], name |-> n]
<1>1. /\ n \in TaskNames
      /\ records' = WithFile(records, {}, new, [status |-> "in-progress", by |-> n])
      /\ task' = [task EXCEPT ![n] = "open"]
      /\ setup' = setup /\ today' = today /\ mounts' = mounts
      /\ task[n] # "running"
  BY SetupFacts, InvIs DEF WriteTaskFile, Instance
<1>2. new \in Key /\ new.name = n /\ new.layout = "dir"
  <2>1. Days[today] \in Range(Days)
    BY InvIs DEF Range
  <2> QED BY <1>1, <2>1 DEF Key, Layouts
<1> HIDE DEF new
<1>3. /\ DOMAIN records' = DOMAIN records \cup {new}
      /\ \A k \in DOMAIN records' :
            records'[k] = IF k = new THEN [status |-> "in-progress", by |-> n] ELSE records[k]
  <2>1. DOMAIN records \ {} = DOMAIN records
    OBVIOUS
  <2> QED BY <1>1, <2>1 DEF WithFile
<1>4. Filed'
  <2>1. ASSUME NEW k \in DOMAIN records'
        PROVE  /\ k \in Key /\ k.name \in Setup.names
               /\ records'[k].status \in {"in-progress", "complete"}
               /\ records'[k].by \in TaskNames
               /\ records'[k].by # k.name => EndsIn(k.name, records'[k].by)
    <3>1. CASE k = new
      <4>1. records'[k] = [status |-> "in-progress", by |-> n]
        BY <1>3, <3>1
      <4> QED BY <1>1, <1>2, <3>1, <4>1
    <3>2. CASE k # new
      <4>1. k \in DOMAIN records /\ records'[k] = records[k]
        BY <1>3, <3>2
      <4> QED BY <4>1 DEF RecordsInv, RecordsTypeOK, OwnRecords
    <3> QED BY <3>1, <3>2
  <2>2. IsFiniteSet(DOMAIN records')
    <3>1. IsFiniteSet(DOMAIN records \cup {new})
      BY FS_AddElement DEF RecordsInv
    <3> QED BY <1>3, <3>1
  <2>3. Setup' = Setup
    BY <1>1 DEF Setup
  <2> QED BY <2>1, <2>2, <2>3 DEF Filed, OwnRecords
<1>5. Lasting
  BY <1>3 DEF Lasting
<1>6. /\ today' \in DOMAIN Days
      /\ task' \in [TaskNames -> {"none", "open", "running", "done"}]
      /\ mounts' = [m \in TaskNames |-> mounts'[m]]
      /\ \A m \in TaskNames : task'[m] # "none" =>
               task[m] # "none" \/ \E k \in DOMAIN records' : k.name = m
      /\ \A m \in TaskNames : task'[m] # "running" => mounts'[m] = <<>>
      /\ \A m \in TaskNames : task'[m] = "running" => task[m] = "running" /\ mounts'[m] = mounts[m]
  BY <1>1, <1>2, <1>3, InvIs
<1> QED BY <1>1, <1>4, <1>5, <1>6, FiledKeeps

LEMMA LaunchTaskKeeps ==
    ASSUME RecordsInv, NEW n \in Setup.names, LaunchTask(n)
    PROVE  RecordsInv'
<1>1. /\ n \in TaskNames /\ task[n] = "open"
      /\ records' = Migrated(n, "", n)
      /\ mounts' = [mounts EXCEPT ![n] = BuildMounts(n)]
      /\ task' = [task EXCEPT ![n] = "running"]
      /\ setup' = setup /\ today' = today
  BY SetupFacts, InvIs DEF LaunchTask, Instance
<1>2. Match(n) # {}
  <2>1. PICK k \in DOMAIN records : k.name = n
    BY <1>1, InvIs
  <2> QED BY <1>1, <2>1, InvIs, MatchIs
<1> DEFINE new == NewKey(Found(n))
<1>3. Filed' /\ Lasting /\ new \in DOMAIN records' /\ new.layout = "dir" /\ EndsIn(Stem(new), n)
  BY <1>1, <1>2, MigratedKeeps
<1>4. BuildMounts(n) = MountsFor(n, new)
  <2>1. \A a, b : <<a>> \o <<b>> = <<a, b>>
    <3>1. ASSUME NEW a, NEW b
          PROVE  <<a>> \o <<b>> = <<a, b>>
      <4>1. <<a>> \in Seq({a, b}) /\ <<b>> \in Seq({a, b}) /\ <<a, b>> \in Seq({a, b})
        OBVIOUS
      <4>2. /\ <<a>> \o <<b>> \in Seq({a, b}) /\ Len(<<a>> \o <<b>>) = 2
            /\ (<<a>> \o <<b>>)[1] = a /\ (<<a>> \o <<b>>)[2] = b
        BY <4>1, ConcatProperties
      <4> DEFINE s == <<a>> \o <<b>>
      <4> HIDE DEF s
      <4>3. s \in Seq({a, b}) /\ Len(s) = 2 /\ s[1] = a /\ s[2] = b
        BY <4>2 DEF s
      <4>4. s = <<a, b>>
        BY <4>3
      <4> QED BY <4>4 DEF s
    <3> QED BY <3>1
  <2> QED BY <1>2, <2>1 DEF BuildMounts, MountsFor
<1> HIDE DEF new
<1>5. /\ today' \in DOMAIN Days
      /\ task' \in [TaskNames -> {"none", "open", "running", "done"}]
      /\ mounts' = [m \in TaskNames |-> mounts'[m]]
      /\ \A m \in TaskNames : task'[m] # "none" => task[m] # "none"
      /\ \A m \in TaskNames : task'[m] # "running" => mounts'[m] = <<>>
      /\ mounts'[n] = MountsFor(n, new)
      /\ \A m \in TaskNames : task'[m] = "running" /\ m # n =>
            task[m] = "running" /\ mounts'[m] = mounts[m]
  BY <1>1, <1>4, InvIs
<1>6. \A m \in TaskNames : task'[m] = "running" =>
               \/ task[m] = "running" /\ mounts'[m] = mounts[m]
               \/ \E k \in DOMAIN records' : /\ k.layout = "dir" /\ EndsIn(Stem(k), m)
                                             /\ mounts'[m] = MountsFor(m, k)
  BY <1>3, <1>5
<1> QED BY <1>1, <1>3, <1>5, <1>6, FiledKeeps

\* The commands that find a file and leave the mounts of the others alone.
LEMMA OtherStepsKeep ==
    ASSUME RecordsInv, NEW n \in Setup.names,
           AgentCompletes(n) \/ LeaveTask(n) \/ CompleteTask(n) \/ ReviveTask(n)
    PROVE  RecordsInv'
<1>1. n \in TaskNames /\ setup' = setup /\ today' = today
  BY SetupFacts, InvIs DEF AgentCompletes, LeaveTask, CompleteTask, ReviveTask, Instance
<1>2. Filed' /\ Lasting
  <2>1. CASE records' = records
    BY <1>1, <2>1, FilesStay
  <2>2. CASE \E status \in {"in-progress", "complete"} : records' = Migrated(n, status, n)
    BY <1>1, <2>2, MigratedKeeps
  <2>3. records' = records
        \/ \E status \in {"in-progress", "complete"} : records' = Migrated(n, status, n)
    BY DEF AgentCompletes, LeaveTask, CompleteTask, ReviveTask
  <2> QED BY <2>1, <2>2, <2>3
<1>3. /\ task' \in [TaskNames -> {"none", "open", "running", "done"}]
      /\ mounts' = [m \in TaskNames |-> mounts'[m]]
      /\ \A m \in TaskNames : task'[m] # "none" => task[m] # "none"
      /\ \A m \in TaskNames : task'[m] # "running" => mounts'[m] = <<>>
      /\ \A m \in TaskNames : task'[m] = "running" => task[m] = "running" /\ mounts'[m] = mounts[m]
  <2>1. CASE AgentCompletes(n)
    BY <1>1, <2>1, InvIs DEF AgentCompletes
  <2>2. CASE LeaveTask(n)
    BY <1>1, <2>2, InvIs DEF LeaveTask
  <2>3. CASE CompleteTask(n)
    BY <1>1, <2>3, InvIs DEF CompleteTask
  <2>4. CASE ReviveTask(n)
    BY <1>1, <2>4, InvIs DEF ReviveTask
  <2> QED BY <2>1, <2>2, <2>3, <2>4
<1>4. today' \in DOMAIN Days
  BY <1>1, InvIs
<1> QED BY <1>1, <1>2, <1>3, <1>4, FiledKeeps

LEMMA RecordsStep == RecordsInv /\ [RecordsNext]_recordsVars => RecordsInv'
<1> SUFFICES ASSUME RecordsInv, [RecordsNext]_recordsVars
             PROVE  RecordsInv'
  OBVIOUS
<1>1. CASE Midnight \/ UNCHANGED recordsVars
  <2>1. setup' = setup /\ records' = records /\ task' = task /\ mounts' = mounts
    BY <1>1 DEF Midnight, recordsVars
  <2>2. today' \in DOMAIN Days
    <3>1. today \in 1..Len(Days) /\ Len(Days) \in Nat /\ DOMAIN Days = 1..Len(Days)
      BY InvIs, WordFacts
    <3> QED BY <1>1, <3>1 DEF Midnight, recordsVars
  <2>3. Filed' /\ Lasting
    BY <2>1, FilesStay
  <2> QED BY <2>1, <2>2, <2>3, InvIs, FiledKeeps
<1>2. ASSUME NEW n \in Setup.names,
             \/ WriteTaskFile(n) \/ LaunchTask(n) \/ AgentCompletes(n) \/ LeaveTask(n)
             \/ CompleteTask(n) \/ ReviveTask(n)
      PROVE  RecordsInv'
  BY <1>2, WriteTaskFileKeeps, LaunchTaskKeeps, OtherStepsKeep
<1> QED BY <1>1, <1>2 DEF RecordsNext

LEMMA RecordsAlways == RecordsSpec => []RecordsInv
BY RecordsInitInv, RecordsStep, PTL DEF RecordsSpec

\* The task files, the tasks and the mounts keep their types.
THEOREM RecordsTyped == RecordsSpec => []RecordsTypeOK
<1>1. RecordsInv => RecordsTypeOK
  BY DEF RecordsInv
<1> QED BY <1>1, RecordsAlways, PTL

\* A task file is written only for its own task, and for one whose name the task's ends in.
THEOREM RecordsAreOwn == RecordsSpec => []OwnRecords
<1>1. RecordsInv => OwnRecords
  BY DEF RecordsInv
<1> QED BY <1>1, RecordsAlways, PTL
-----------------------------------------------------------------------------
(* The paths that OwnFiles speaks of.                                      *)

OwnParts == {"git", "hatchery", "worktrees", "tasks", "objects", "refs", "logs", "src",
             "docker.yaml", "gitconfig", "clipboard"}

\* U has all components of the paths of an instance.
Typed(s, U) ==
    /\ OwnParts \subseteq U /\ TaskNames \subseteq U /\ \A k \in Key : Stem(k) \in U
    /\ Repo \in Seq(U) /\ Home.host \in Seq(U) /\ Home.container \in Seq(U)
    /\ System \subseteq Seq(U)
    /\ s.config.agent \in Seq(MountsOver(U)) /\ s.config.mounts \in Seq(MountsOver(U))
    /\ s.config.volumes \in Seq(MountsOver(U))
    /\ \A e \in Range(s.includes) : e.path \in Seq(U)
    /\ \A l \in s.links : l.at \in Seq(U) /\ l.raw \in Seq(U) /\ l.target \in Seq(U)

LEMMA BindIs ==
    ASSUME NEW U, NEW src \in Seq(U), NEW dst \in Seq(U), NEW mode \in MountModes,
           NEW links \in BOOLEAN
    PROVE  /\ Bind(src, dst, mode, links) \in MountsOver(U)
           /\ Bind(src, dst, mode, links).src = src /\ Bind(src, dst, mode, links).dst = dst
           /\ Bind(src, dst, mode, links).mode = mode /\ Bind(src, dst, mode, links).links = links
BY DEF Bind, MountsOver

LEMMA IsTyped ==
    ASSUME NEW s, Instance(s)
    PROVE  \E U : Typed(s, U)
<1> DEFINE binds == Given(s.config)
           given == {Repo, Home.host, Home.container} \cup System
                    \cup {e.path : e \in Range(s.includes)}
                    \cup {m.src : m \in binds} \cup {m.dst : m \in binds}
                    \cup {l.at : l \in s.links} \cup {l.raw : l \in s.links}
                    \cup {l.target : l \in s.links}
           U == OwnParts \cup TaskNames \cup {Stem(k) : k \in Key} \cup UNION {Range(p) : p \in given}
<1>1. ASSUME NEW p \in given
      PROVE  p \in Seq(U)
  <2>1. IsSeq(p)
    BY RecordsAssumption DEF Instance, IsMount
  <2>2. Range(p) \subseteq U
    <3> HIDE DEF Range, given
    <3> QED OBVIOUS
  <2> HIDE DEF U
  <2> QED BY <2>1, <2>2, SequenceTyped
<1>2. /\ OwnParts \subseteq U /\ TaskNames \subseteq U /\ \A k \in Key : Stem(k) \in U
  OBVIOUS
<1>3. /\ Repo \in given /\ Home.host \in given /\ Home.container \in given
      /\ \A p \in System : p \in given
      /\ \A e \in Range(s.includes) : e.path \in given
      /\ \A l \in s.links : l.at \in given /\ l.raw \in given /\ l.target \in given
      /\ \A m \in binds : m.src \in given /\ m.dst \in given
  OBVIOUS
<1> HIDE DEF U, given
<1>4. binds \subseteq MountsOver(U)
  <2>1. ASSUME NEW m \in binds
        PROVE  m \in MountsOver(U)
    <3>1. m = Bind(m.src, m.dst, m.mode, m.links) /\ m.mode \in MountModes /\ m.links \in BOOLEAN
      BY DEF Instance, IsMount
    <3>2. m.src \in Seq(U) /\ m.dst \in Seq(U)
      BY <1>1, <1>3
    <3>3. Bind(m.src, m.dst, m.mode, m.links) \in MountsOver(U)
      BY <3>1, <3>2, BindIs
    <3> QED BY <3>1, <3>3
  <2> QED BY <2>1
<1>5. /\ s.config.agent \in Seq(MountsOver(U)) /\ s.config.mounts \in Seq(MountsOver(U))
      /\ s.config.volumes \in Seq(MountsOver(U))
  BY <1>4, SequenceTyped DEF Instance, Given
<1>6. System \subseteq Seq(U)
  BY <1>1, <1>3
<1>7. Typed(s, U)
  BY <1>1, <1>2, <1>3, <1>5, <1>6 DEF Typed
<1> QED BY <1>7

LEMMA AppendIs ==
    ASSUME NEW U, NEW r \in Seq(U), NEW x \in U
    PROVE  Append(r, x) = r \o <<x>>
<1>1. /\ <<x>> \in Seq(U) /\ Len(<<x>>) = 1 /\ <<x>>[1] = x /\ Len(r) \in Nat
      /\ Append(r, x) \in Seq(U) /\ Len(Append(r, x)) = Len(r) + 1
      /\ \A i \in 1..Len(r) : Append(r, x)[i] = r[i]
      /\ Append(r, x)[Len(r) + 1] = x
  OBVIOUS
<1>2. /\ r \o <<x>> \in Seq(U) /\ Len(r \o <<x>>) = Len(r) + 1
      /\ \A i \in 1..Len(r) : (r \o <<x>>)[i] = r[i]
      /\ (r \o <<x>>)[Len(r) + 1] = x
  BY <1>1, ConcatProperties
<1> DEFINE a == Append(r, x)
           c == r \o <<x>>
<1> HIDE DEF a, c
<1>3. /\ a \in Seq(U) /\ c \in Seq(U) /\ Len(a) = Len(r) + 1 /\ Len(c) = Len(r) + 1
      /\ \A i \in 1..Len(r) : a[i] = c[i]
      /\ a[Len(r) + 1] = c[Len(r) + 1]
  BY <1>1, <1>2 DEF a, c
<1>4. \A i \in 1..Len(a) : a[i] = c[i]
  BY <1>1, <1>3
<1>5. a = c
  BY <1>3, <1>4, SeqEqual
<1> QED BY <1>5 DEF a, c

LEMMA JoinJoin ==
    ASSUME NEW U, NEW r \in Seq(U), NEW a \in Seq(U), NEW b \in Seq(U)
    PROVE  (r \o a) \o b = r \o (a \o b)
<1> DEFINE ra == r \o a
           ab == a \o b
           x == ra \o b
           y == r \o ab
<1>1. Len(r) \in Nat /\ Len(a) \in Nat /\ Len(b) \in Nat
  OBVIOUS
<1> HIDE DEF ra, ab, x, y
<1>2. /\ ra \in Seq(U) /\ Len(ra) = Len(r) + Len(a)
      /\ \A i \in 1..Len(r) + Len(a) : ra[i] = IF i <= Len(r) THEN r[i] ELSE a[i - Len(r)]
  BY ConcatProperties DEF ra
<1>3. /\ ab \in Seq(U) /\ Len(ab) = Len(a) + Len(b)
      /\ \A i \in 1..Len(a) + Len(b) : ab[i] = IF i <= Len(a) THEN a[i] ELSE b[i - Len(a)]
  BY ConcatProperties DEF ab
<1>4. /\ x \in Seq(U) /\ Len(x) = Len(ra) + Len(b)
      /\ \A i \in 1..Len(ra) + Len(b) : x[i] = IF i <= Len(ra) THEN ra[i] ELSE b[i - Len(ra)]
  <2>1. ra \in Seq(U)
    BY <1>2
  <2> QED BY <2>1, ConcatProperties DEF x
<1>5. /\ y \in Seq(U) /\ Len(y) = Len(r) + Len(ab)
      /\ \A i \in 1..Len(r) + Len(ab) : y[i] = IF i <= Len(r) THEN r[i] ELSE ab[i - Len(r)]
  <2>1. ab \in Seq(U)
    BY <1>3
  <2> QED BY <2>1, ConcatProperties DEF y
<1>6. ASSUME NEW i \in 1..Len(x)
      PROVE  x[i] = y[i]
  <2>1. /\ i \in 1..Len(ra) + Len(b) /\ i \in 1..Len(r) + Len(ab)
        /\ Len(ra) = Len(r) + Len(a) /\ Len(ab) = Len(a) + Len(b)
    BY <1>1, <1>2, <1>3, <1>4
  <2>2. x[i] = IF i <= Len(ra) THEN ra[i] ELSE b[i - Len(ra)]
    BY <1>4, <2>1
  <2>3. y[i] = IF i <= Len(r) THEN r[i] ELSE ab[i - Len(r)]
    BY <1>5, <2>1
  <2>4. i <= Len(ra) => ra[i] = IF i <= Len(r) THEN r[i] ELSE a[i - Len(r)]
    BY <1>1, <1>2, <2>1
  <2>5. ~ (i <= Len(r)) => ab[i - Len(r)] = IF i - Len(r) <= Len(a) THEN a[i - Len(r)]
                                          ELSE b[(i - Len(r)) - Len(a)]
    <3>1. SUFFICES ASSUME ~ (i <= Len(r))
                   PROVE  ab[i - Len(r)] = IF i - Len(r) <= Len(a) THEN a[i - Len(r)]
                                           ELSE b[(i - Len(r)) - Len(a)]
      OBVIOUS
    <3>2. i - Len(r) \in 1..Len(a) + Len(b)
      BY <1>1, <2>1, <3>1
    <3> QED BY <1>3, <3>2
  <2>6. (i - Len(r)) - Len(a) = i - Len(ra) /\ i \in Int
    BY <1>1, <2>1
  <2>7. i - Len(r) <= Len(a) <=> i <= Len(ra)
    BY <1>1, <2>1, <2>6
  <2>8. i <= Len(r) => i <= Len(ra)
    BY <1>1, <2>1, <2>6
  <2> QED BY <2>2, <2>3, <2>4, <2>5, <2>6, <2>7, <2>8
<1>7. x = y
  <2>1. Len(x) = Len(y)
    BY <1>1, <1>2, <1>3, <1>4, <1>5
  <2>2. x \in Seq(U) /\ y \in Seq(U)
    BY <1>4, <1>5
  <2> QED BY <1>6, <2>1, <2>2, SeqEqual
<1> QED BY <1>7 DEF x, y, ra, ab

LEMMA ConcretePaths ==
    ASSUME NEW x, NEW y, NEW z
    PROVE  /\ <<x>> \o <<y>> = <<x, y>> /\ <<x>> \o <<y, z>> = <<x, y, z>>
           /\ <<x, y>> \o <<z>> = <<x, y, z>>
<1> DEFINE B == {x, y, z}
           s == <<x>> \o <<y>>
           t == <<x>> \o <<y, z>>
           u == <<x, y>> \o <<z>>
<1>1. <<x>> \in Seq(B) /\ <<y>> \in Seq(B) /\ <<z>> \in Seq(B)
      /\ <<x, y>> \in Seq(B) /\ <<y, z>> \in Seq(B)
  OBVIOUS
<1>2. s \in Seq(B) /\ Len(s) = 2 /\ s[1] = x /\ s[2] = y
  BY <1>1, ConcatProperties
<1>3. t \in Seq(B) /\ Len(t) = 3 /\ t[1] = x /\ t[2] = y /\ t[3] = z
  BY <1>1, ConcatProperties
<1>4. u \in Seq(B) /\ Len(u) = 3 /\ u[1] = x /\ u[2] = y /\ u[3] = z
  BY <1>1, ConcatProperties
<1> HIDE DEF s, t, u
<1>5. s = <<x, y>> /\ t = <<x, y, z>> /\ u = <<x, y, z>>
  BY <1>2, <1>3, <1>4
<1> QED BY <1>5 DEF s, t, u

\* Each path as what it adds to the root of its repository.
LEMMA PathsAre ==
    ASSUME NEW U, OwnParts \subseteq U, NEW r \in Seq(U), NEW n \in U
    PROVE  /\ Git(r) = r \o <<"git">> /\ Hatchery(r) = r \o <<"hatchery">>
           /\ Worktree(r, n) = r \o <<"hatchery", "worktrees", n>>
           /\ Append(Tasks(r), n) = r \o <<"hatchery", "tasks", n>>
           /\ Append(Hatchery(r), "docker.yaml") = r \o <<"hatchery", "docker.yaml">>
           /\ Append(r, "src") = r \o <<"src">>
<1>1. /\ "git" \in U /\ "hatchery" \in U /\ "worktrees" \in U /\ "tasks" \in U /\ "src" \in U
      /\ "docker.yaml" \in U
  BY DEF OwnParts
<1>2. Git(r) = r \o <<"git">> /\ Hatchery(r) = r \o <<"hatchery">> /\ Append(r, "src") = r \o <<"src">>
  BY <1>1, AppendIs DEF Git, Hatchery
<1>3. /\ <<"hatchery">> \in Seq(U) /\ <<"worktrees", n>> \in Seq(U) /\ <<"tasks">> \in Seq(U)
      /\ <<n>> \in Seq(U) /\ <<"docker.yaml">> \in Seq(U) /\ <<"hatchery", "tasks">> \in Seq(U)
      /\ <<"git">> \in Seq(U) /\ <<"src">> \in Seq(U)
      /\ <<"hatchery", "worktrees", n>> \in Seq(U) /\ <<"hatchery", "tasks", n>> \in Seq(U)
      /\ <<"hatchery", "docker.yaml">> \in Seq(U)
  BY <1>1
<1>4. /\ <<"hatchery">> \o <<"worktrees", n>> = <<"hatchery", "worktrees", n>>
      /\ <<"hatchery">> \o <<"tasks">> = <<"hatchery", "tasks">>
      /\ <<"hatchery", "tasks">> \o <<n>> = <<"hatchery", "tasks", n>>
      /\ <<"hatchery">> \o <<"docker.yaml">> = <<"hatchery", "docker.yaml">>
  BY ConcretePaths
<1>5. Worktree(r, n) = r \o <<"hatchery", "worktrees", n>>
  BY <1>2, <1>3, <1>4, JoinJoin DEF Worktree
<1>6. Tasks(r) = r \o <<"hatchery", "tasks">> /\ Tasks(r) \in Seq(U)
  <2>1. Hatchery(r) \in Seq(U)
    BY <1>2, <1>3, ConcatProperties
  <2>2. Tasks(r) = Hatchery(r) \o <<"tasks">>
    BY <1>1, <2>1, AppendIs DEF Tasks
  <2>3. Tasks(r) = r \o <<"hatchery", "tasks">>
    BY <1>2, <1>3, <1>4, <2>2, JoinJoin
  <2> QED BY <1>3, <2>3, ConcatProperties
<1>7. Append(Tasks(r), n) = r \o <<"hatchery", "tasks", n>>
  <2>1. Append(Tasks(r), n) = Tasks(r) \o <<n>>
    BY <1>6, AppendIs
  <2>2. (r \o <<"hatchery", "tasks">>) \o <<n>> = r \o (<<"hatchery", "tasks">> \o <<n>>)
    BY <1>3, JoinJoin
  <2> QED BY <1>4, <1>6, <2>1, <2>2
<1>8. Append(Hatchery(r), "docker.yaml") = r \o <<"hatchery", "docker.yaml">>
  <2>1. Hatchery(r) \in Seq(U)
    BY <1>2, <1>3, ConcatProperties
  <2>2. Append(Hatchery(r), "docker.yaml") = Hatchery(r) \o <<"docker.yaml">>
    BY <1>1, <2>1, AppendIs
  <2> QED BY <1>2, <1>3, <1>4, <2>2, JoinJoin
<1> QED BY <1>2, <1>5, <1>7, <1>8
-----------------------------------------------------------------------------
(* Links and the image's own files: what becomes of the mounts assembled.  *)

\* f[i] is the path of the first i components, once ".." is resolved.
Descends(f, p, n) == f = [i \in 0..n |-> IF i = 0 THEN <<>> ELSE Descend(f[i - 1], p[i])]

LEMMA DescendsExist ==
    ASSUME NEW p, NEW m \in Nat
    PROVE  \E f : Descends(f, p, m)
<1> DEFINE S == {n \in Nat : \E f : Descends(f, p, n)}
<1>1. 0 \in S
  <2> DEFINE g == [i \in 0..0 |-> <<>>]
  <2>1. Descends(g, p, 0)
    BY DEF Descends
  <2> QED BY <2>1
<1>2. ASSUME NEW n \in Nat, n \in S
      PROVE  n + 1 \in S
  <2>1. PICK f : Descends(f, p, n)
    BY <1>2
  <2> DEFINE g == [i \in 0..(n + 1) |-> IF i = n + 1 THEN Descend(f[n], p[n + 1]) ELSE f[i]]
  <2>2. \A i \in 0..n : f[i] = IF i = 0 THEN <<>> ELSE Descend(f[i - 1], p[i])
    BY <2>1 DEF Descends
  <2>3. g = [i \in 0..(n + 1) |-> g[i]] /\ g[n + 1] = Descend(f[n], p[n + 1])
    OBVIOUS
  <2>4. ASSUME NEW i \in 0..n
        PROVE  g[i] = f[i]
    OBVIOUS
  <2> HIDE DEF g
  <2>5. ASSUME NEW i \in 0..(n + 1)
        PROVE  g[i] = IF i = 0 THEN <<>> ELSE Descend(g[i - 1], p[i])
    <3>1. CASE i = n + 1
      <4>1. i # 0 /\ i - 1 = n /\ n \in 0..n
        BY <3>1
      <4> QED BY <2>3, <2>4, <3>1, <4>1
    <3>2. CASE i # n + 1
      <4>1. i \in 0..n /\ (i # 0 => i - 1 \in 0..n)
        BY <3>2
      <4> QED BY <2>2, <2>4, <4>1
    <3> QED BY <3>1, <3>2
  <2>6. g = [i \in 0..(n + 1) |-> IF i = 0 THEN <<>> ELSE Descend(g[i - 1], p[i])]
    BY <2>3, <2>5
  <2>7. Descends(g, p, n + 1)
    BY <2>6 DEF Descends
  <2> QED BY <2>7
<1> HIDE DEF S
<1>3. 0..m \subseteq S
  BY <1>1, <1>2, UpTo
<1> QED BY <1>3 DEF S

LEMMA DescendTyped ==
    ASSUME NEW U, NEW p \in Seq(U), NEW c \in U
    PROVE  Descend(p, c) \in Seq(U)
<1>1. Append(p, c) \in Seq(U)
  OBVIOUS
<1>2. p # <<>> => Front(p) \in Seq(U)
  <2>1. SUFFICES ASSUME p # <<>>
                 PROVE  SubSeq(p, 1, Len(p) - 1) \in Seq(U)
    BY DEF Front
  <2>2. Len(p) \in Nat \ {0}
    BY <2>1
  <2> QED BY <2>2, SubSeqProperties
<1> QED BY <1>1, <1>2, Zenon DEF Descend

\* Resolving ".." leaves of a path some of its components.
LEMMA NormalTyped ==
    ASSUME NEW U, NEW p \in Seq(U)
    PROVE  Normal(p) \in Seq(U)
<1> DEFINE h == CHOOSE f : Descends(f, p, Len(p))
<1>1. Len(p) \in Nat /\ \A i \in 1..Len(p) : p[i] \in U
  OBVIOUS
<1>2. Descends(h, p, Len(p))
  BY <1>1, DescendsExist
<1>3. Normal(p) = h[Len(p)]
  BY DEF Normal, Descends
<1> HIDE DEF h
<1>4. \A i \in 0..Len(p) : h[i] = IF i = 0 THEN <<>> ELSE Descend(h[i - 1], p[i])
  BY <1>2 DEF Descends
<1> DEFINE T == {n \in Nat : n \in 0..Len(p) => h[n] \in Seq(U)}
<1>5. 0 \in T
  <2>1. 0 \in 0..Len(p)
    BY <1>1
  <2>2. h[0] = <<>>
    BY <1>4, <2>1
  <2>3. h[0] \in Seq(U)
    BY <2>2
  <2> QED BY <2>3
<1>6. ASSUME NEW n \in 0..(Len(p) - 1), n \in T
      PROVE  n + 1 \in T
  <2>1. /\ n \in 0..Len(p) /\ n + 1 \in 0..Len(p) /\ n + 1 # 0 /\ (n + 1) - 1 = n
        /\ n + 1 \in 1..Len(p) /\ n + 1 \in Nat
    BY <1>1
  <2>2. h[n] \in Seq(U) /\ p[n + 1] \in U
    BY <1>1, <1>6, <2>1
  <2>3. h[n + 1] = Descend(h[n], p[n + 1])
    BY <1>4, <2>1
  <2>4. h[n + 1] \in Seq(U)
    BY <2>2, <2>3, DescendTyped
  <2> QED BY <2>1, <2>4
<1>7. 0..Len(p) \subseteq T
  <2> HIDE DEF T
  <2> QED BY <1>1, <1>5, <1>6, UpTo
<1>8. h[Len(p)] \in Seq(U)
  <2>1. Len(p) \in 0..Len(p)
    BY <1>1
  <2> QED BY <1>7, <2>1
<1> QED BY <1>3, <1>8

LEMMA SetAsSequence ==
    ASSUME NEW B, NEW T \in SUBSET B, IsFiniteSet(T)
    PROVE  SetToSeq(T) \in Seq(B) /\ Range(SetToSeq(T)) \subseteq T
<1>1. Cardinality(T) \in Nat /\ ExistsBijection(1..Cardinality(T), T)
  BY FS_CardinalityType
<1>2. PICK f \in Bijection(1..Cardinality(T), T) : TRUE
  BY <1>1 DEF ExistsBijection
<1>3. f \in [1..Cardinality(T) -> T] /\ IsInjective(f)
  BY <1>2 DEF Bijection, Injection, IsInjective
<1>4. SetToSeq(T) \in [1..Cardinality(T) -> T]
  BY <1>3 DEF SetToSeq
<1> DEFINE s == SetToSeq(T)
<1> HIDE DEF s
<1>5. s \in [1..Cardinality(T) -> T]
  BY <1>4 DEF s
<1>6. s \in Seq(B) /\ Range(s) \subseteq T
  BY <1>1, <1>5 DEF Range
<1> QED BY <1>6 DEF s

\* The links are some, and lie and point to where components of U say.
LinksOver(U, links) ==
    IsFiniteSet(links)
    /\ \A l \in links : l.at \in Seq(U) /\ l.raw \in Seq(U) /\ l.target \in Seq(U)

LEMMA DestinationTyped ==
    ASSUME NEW U, NEW m \in MountsOver(U), NEW l, l.at \in Seq(U), l.raw \in Seq(U)
    PROVE  Destination(m, l) \in Seq(U)
<1>1. m.dst \in Seq(U) /\ m.src \in Seq(U)
  BY MountFacts
<1> DEFINE mid == SubSeq(l.at, Len(m.src) + 1, Len(l.at) - 1)
<1>2. mid \in Seq(U)
  <2>1. Len(m.src) \in Nat /\ Len(l.at) \in Nat
    BY <1>1
  <2>2. /\ Len(m.src) + 1 \in Int /\ Len(l.at) - 1 \in Int
        /\ \A i \in (Len(m.src) + 1)..(Len(l.at) - 1) : l.at[i] \in U
    BY <2>1
  <2> QED BY <2>2, SubSeqProperties
<1> HIDE DEF mid
<1>3. m.dst \o mid \in Seq(U)
  BY <1>1, <1>2, ConcatProperties
<1>4. (m.dst \o mid) \o l.raw \in Seq(U)
  BY <1>3, ConcatProperties
<1>5. (IF l.absolute THEN l.raw ELSE m.dst \o mid \o l.raw) \in Seq(U)
  BY <1>4
<1>6. Normal(IF l.absolute THEN l.raw ELSE m.dst \o mid \o l.raw) \in Seq(U)
  BY <1>5, NormalTyped
<1> QED BY <1>6 DEF Destination, mid

\* Two mounts that differ in whether links are followed at most.
SameMount(m, l) == m.src = l.src /\ m.dst = l.dst /\ m.mode = l.mode

\* Of the mounts and links, a container has the mounts, and others that lie beside all.
LEMMA ExpandedFacts ==
    ASSUME NEW U, NEW raw \in Seq(MountsOver(U)), NEW links, LinksOver(U, links)
    PROVE  LET L == ExpandLinks(raw, links)
           IN  /\ L \in Seq(MountsOver(U))
               /\ \A m \in Range(raw) : \E l \in Range(L) : SameMount(l, m)
               /\ \A l \in Range(L) :
                     \/ \E m \in Range(raw) : SameMount(l, m)
                     \/ \A m \in Range(raw) : ~ Within(l.dst, m.dst) /\ ~ Within(m.dst, l.dst)
<1> DEFINE B == MountsOver(U)
           needed(m) == {l \in links : Needs(m, l, raw)}
           binds(m) == {Bind(l.target, Destination(m, l), m.mode, FALSE) : l \in needed(m)}
           parts == [i \in DOMAIN raw |-> IF raw[i].links THEN SetToSeq(binds(raw[i])) ELSE <<>>]
           all == FlattenSeq(parts)
           own == [i \in DOMAIN raw |-> [raw[i] EXCEPT !.links = FALSE]]
           keep == {i \in DOMAIN all : \A j \in 1..i - 1 : all[j].dst # all[i].dst}
           Beside(l) == \A m \in Range(raw) : ~ Within(l.dst, m.dst) /\ ~ Within(m.dst, l.dst)
<1>1. DOMAIN raw = 1..Len(raw) /\ Len(raw) \in Nat /\ \A i \in 1..Len(raw) : raw[i] \in B
  OBVIOUS
<1>2. Range(raw) \subseteq B /\ \A m \in Range(raw) : \E i \in 1..Len(raw) : m = raw[i]
  BY <1>1 DEF Range
<1>3. ASSUME NEW m \in B
      PROVE  /\ binds(m) \in SUBSET B /\ IsFiniteSet(binds(m))
             /\ \A l \in binds(m) : Beside(l)
  <2>1. ASSUME NEW l \in needed(m)
        PROVE  LET b == Bind(l.target, Destination(m, l), m.mode, FALSE)
               IN  b \in B /\ Beside(b)
    <3>1. l.at \in Seq(U) /\ l.raw \in Seq(U) /\ l.target \in Seq(U) /\ Needs(m, l, raw)
      BY DEF LinksOver
    <3>2. Destination(m, l) \in Seq(U)
      BY <3>1, DestinationTyped
    <3> DEFINE d == Destination(m, l)
               b == Bind(l.target, d, m.mode, FALSE)
    <3> HIDE DEF d
    <3>3. b \in B /\ b.dst = d
      <4> HIDE DEF b
      <4>1. m.mode \in MountModes /\ d \in Seq(U) /\ l.target \in Seq(U) /\ FALSE \in BOOLEAN
        BY <3>1, <3>2, MountFacts DEF d
      <4>2. /\ Bind(l.target, d, m.mode, FALSE) \in MountsOver(U)
            /\ Bind(l.target, d, m.mode, FALSE).dst = d
        BY <4>1 DEF Bind, MountsOver
      <4> QED BY <4>2 DEF b
    <3>4. \A i \in DOMAIN raw : ~ Within(d, raw[i].dst) /\ ~ Within(raw[i].dst, d)
      <4>1. Needs(m, l, raw)
        BY <3>1
      <4> HIDE DEF b, B, needed
      <4>2. \A i \in DOMAIN raw : /\ ~ Within(Destination(m, l), raw[i].dst)
                                 /\ ~ Within(raw[i].dst, Destination(m, l))
        BY <4>1, Zenon DEF Needs
      <4> QED BY <4>2 DEF d
    <3> HIDE DEF b, B
    <3>5. ASSUME NEW k \in Range(raw)
          PROVE  ~ Within(b.dst, k.dst) /\ ~ Within(k.dst, b.dst)
      BY <1>1, <1>2, <3>3, <3>4
    <3> QED BY <3>3, <3>5 DEF b, d
  <2>2. IsFiniteSet(needed(m))
    BY FS_Subset DEF LinksOver
  <2> DEFINE f == [l \in needed(m) |-> Bind(l.target, Destination(m, l), m.mode, FALSE)]
  <2>3. f \in Surjection(needed(m), binds(m))
    BY DEF Surjection
  <2> HIDE DEF f
  <2>4. IsFiniteSet(binds(m))
    BY <2>2, <2>3, FS_Surjection
  <2> HIDE DEF Beside, needed
  <2> QED BY <2>1, <2>4
<1> HIDE DEF binds, needed
<1>4. ASSUME NEW m \in B
      PROVE  /\ SetToSeq(binds(m)) \in Seq(B)
             /\ \A l \in Range(SetToSeq(binds(m))) : Beside(l)
  <2>1. SetToSeq(binds(m)) \in Seq(B) /\ Range(SetToSeq(binds(m))) \subseteq binds(m)
    BY <1>3, SetAsSequence
  <2> HIDE DEF Beside
  <2> QED BY <1>3, <2>1
<1>5. /\ parts \in Seq(Seq(B)) /\ Len(parts) = Len(raw)
      /\ \A i \in 1..Len(raw) : \A l \in Range(parts[i]) : Beside(l)
  <2>1. ASSUME NEW i \in 1..Len(raw)
        PROVE  parts[i] \in Seq(B) /\ \A l \in Range(parts[i]) : Beside(l)
    <3>1. raw[i] \in B /\ i \in DOMAIN raw
      BY <1>1
    <3>2. Range(<<>>) = {} /\ <<>> \in Seq(B)
      BY DEF Range
    <3> HIDE DEF Beside, B
    <3> QED BY <1>4, <3>1, <3>2
  <2>2. parts = [i \in 1..Len(raw) |-> parts[i]]
    BY <1>1
  <2> HIDE DEF parts, Beside
  <2>3. parts \in [1..Len(raw) -> Seq(B)]
    BY <2>1, <2>2
  <2>4. parts \in Seq(Seq(B)) /\ Len(parts) = Len(raw)
    BY <1>1, <2>3
  <2> QED BY <2>1, <2>4
<1> HIDE DEF parts
<1>6. all \in Seq(B) /\ \A l \in Range(all) : Beside(l)
  <2>1. /\ FlattenSeq(parts) \in Seq(B)
        /\ \A x : x \in Range(FlattenSeq(parts)) <=> \E j \in 1..Len(parts) : x \in Range(parts[j])
    BY <1>5, FlattenedFacts
  <2> HIDE DEF Beside
  <2> QED BY <1>5, <2>1
<1> HIDE DEF all
<1>7. Only(all, keep) \in Seq(B) /\ \A l \in Range(Only(all, keep)) : Beside(l)
  <2>1. /\ Only(all, keep) \in Seq(B)
        /\ \A x : x \in Range(Only(all, keep)) <=> \E i \in 1..Len(all) : i \in keep /\ x = all[i]
    BY <1>6, OnlyFacts
  <2>2. \A i \in 1..Len(all) : all[i] \in Range(all)
    <3>1. DOMAIN all = 1..Len(all)
      BY <1>6
    <3> QED BY <3>1 DEF Range
  <2> HIDE DEF Beside, keep
  <2> QED BY <1>6, <2>1, <2>2
<1> HIDE DEF keep
<1>8. /\ own \in Seq(B) /\ \A m \in Range(raw) : \E l \in Range(own) : SameMount(l, m)
      /\ \A l \in Range(own) : \E m \in Range(raw) : SameMount(l, m)
  <2>1. ASSUME NEW i \in 1..Len(raw)
        PROVE  own[i] \in B /\ SameMount(own[i], raw[i])
    <3>1. raw[i] \in B /\ own[i] = [raw[i] EXCEPT !.links = FALSE]
      BY <1>1
    <3> QED BY <3>1 DEF MountsOver, SameMount
  <2>2. own = [i \in 1..Len(raw) |-> own[i]] /\ DOMAIN own = 1..Len(raw)
    BY <1>1
  <2> HIDE DEF own, B
  <2>3. own \in Seq(B)
    BY <1>1, <2>1, <2>2
  <2>4. \A i \in 1..Len(raw) : own[i] \in Range(own) /\ raw[i] \in Range(raw)
    BY <1>1, <2>2 DEF Range
  <2>5. \A l \in Range(own) : \E i \in 1..Len(raw) : l = own[i]
    BY <2>2 DEF Range
  <2>6. \A m \in Range(raw) : \E l \in Range(own) : SameMount(l, m)
    BY <1>2, <2>1, <2>4
  <2>7. \A l \in Range(own) : \E m \in Range(raw) : SameMount(l, m)
    BY <2>1, <2>4, <2>5
  <2> QED BY <2>3, <2>6, <2>7
<1>9. ExpandLinks(raw, links) = own \o Only(all, keep)
  BY DEF ExpandLinks, all, keep, parts, binds, needed
<1> HIDE DEF own
<1>10. /\ own \o Only(all, keep) \in Seq(B)
       /\ Range(own \o Only(all, keep)) = Range(own) \cup Range(Only(all, keep))
  BY <1>7, <1>8, RangeOfConcat, ConcatProperties
<1> HIDE DEF B
<1>11. \A m \in Range(raw) : \E l \in Range(ExpandLinks(raw, links)) : SameMount(l, m)
  BY <1>8, <1>9, <1>10
<1>12. \A l \in Range(ExpandLinks(raw, links)) : (\E m \in Range(raw) : SameMount(l, m)) \/ Beside(l)
  <2> HIDE DEF Beside
  <2> QED BY <1>7, <1>8, <1>9, <1>10
<1> QED BY <1>9, <1>10, <1>11, <1>12 DEF B

\* A mount that _validate_mounts does not drop.
Stays(m) == m.mode = "VOLUME" \/ \A root \in System : ~ Within(m.dst, root)

LEMMA ValidatedFacts ==
    ASSUME NEW B, NEW s \in Seq(B)
    PROVE  /\ Validate(s) \in Seq(B)
           /\ \A m : m \in Range(Validate(s)) <=>
                       m \in Range(s) /\ Stays(m)
<1> DEFINE keep == {i \in DOMAIN s : Stays(s[i])}
<1>1. DOMAIN s = 1..Len(s)
  OBVIOUS
<1>2. /\ Only(s, keep) \in Seq(B)
      /\ \A x : x \in Range(Only(s, keep)) <=> \E i \in 1..Len(s) : i \in keep /\ x = s[i]
  <2> HIDE DEF keep
  <2> QED BY OnlyFacts
<1>3. Validate(s) = Only(s, keep)
  BY DEF Validate, Stays
<1>4. ASSUME NEW m
      PROVE  (\E i \in 1..Len(s) : i \in keep /\ m = s[i]) <=> m \in Range(s) /\ Stays(m)
  BY <1>1 DEF Range
<1> QED BY <1>2, <1>3, <1>4

\* What decides of a path below r: the mount in r that is deepest over it.
LEMMA RootServed ==
    ASSUME NEW U, NEW raw \in Seq(MountsOver(U)), NEW links, LinksOver(U, links),
           System \subseteq Seq(U), NEW r \in Seq(U), NEW p \in Seq(U),
           \A s \in System : ~ Within(s, r) /\ ~ Within(r, s),
           NEW top \in Range(raw), Within(p, top.dst), Within(top.dst, r),
           \A m \in Range(raw) : Within(m.dst, r) /\ Within(p, m.dst) =>
               Len(m.dst) < Len(top.dst) \/ SameMount(m, top)
    PROVE  Writable(Validate(ExpandLinks(raw, links)), p) <=> top.mode = "RW" /\ top.src = top.dst
<1> DEFINE E == ExpandLinks(raw, links)
           V == Validate(E)
<1>1. /\ E \in Seq(MountsOver(U))
      /\ \A m \in Range(raw) : \E l \in Range(E) : SameMount(l, m)
      /\ \A l \in Range(E) :
            \/ \E m \in Range(raw) : SameMount(l, m)
            \/ \A m \in Range(raw) : ~ Within(l.dst, m.dst) /\ ~ Within(m.dst, l.dst)
  BY ExpandedFacts
<1> HIDE DEF E
<1>2. /\ V \in Seq(MountsOver(U))
      /\ \A m : m \in Range(V) <=> m \in Range(E) /\ Stays(m)
  BY <1>1, ValidatedFacts
<1> HIDE DEF V
<1>3. Range(raw) \subseteq MountsOver(U) /\ Range(E) \subseteq MountsOver(U)
  <2>1. \A s \in Seq(MountsOver(U)) : Range(s) \subseteq MountsOver(U)
    BY DEF Range
  <2> QED BY <1>1, <2>1
<1>4. \A m \in Range(raw) \cup Range(E) : m.dst \in Seq(U) /\ Len(m.dst) \in Nat
  BY <1>3, MountFacts
<1>5. top.dst \in Seq(U) /\ Len(r) \in Nat /\ Within(p, r)
  BY <1>4, WithinWithin
<1>6. Len(r) <= Len(top.dst)
  BY <1>5, WithinIs
<1>7. ASSUME NEW s \in System
      PROVE  ~ Within(top.dst, s)
  <2>1. SUFFICES ASSUME Within(top.dst, s)
                 PROVE  FALSE
    OBVIOUS
  <2>2. s \in Seq(U) /\ ~ Within(s, r) /\ ~ Within(r, s)
    OBVIOUS
  <2>3. Within(r, s)
    BY <1>5, <2>1, <2>2, WithinBoth
  <2> QED BY <2>2, <2>3
<1>8. PICK t \in Range(E) : SameMount(t, top)
  BY <1>1
<1>9. t \in Range(V)
  <2>1. t.dst = top.dst
    BY <1>8 DEF SameMount
  <2>2. Stays(t)
    BY <1>7, <2>1 DEF Stays
  <2> QED BY <1>2, <2>2
<1>10. ASSUME NEW m \in Range(V), Within(p, m.dst)
       PROVE  Len(m.dst) < Len(top.dst) \/ SameMount(m, top)
  <2>1. m \in Range(E) /\ m.dst \in Seq(U)
    BY <1>2, <1>4
  <2>2. ASSUME NEW k \in Range(raw), SameMount(m, k)
        PROVE  Len(m.dst) < Len(top.dst) \/ SameMount(m, top)
    <3>1. m.dst = k.dst /\ (SameMount(k, top) => SameMount(m, top))
      BY <2>2 DEF SameMount
    <3>2. k.dst \in Seq(U) /\ Within(p, k.dst) /\ Len(k.dst) \in Nat
      BY <1>4, <1>10, <3>1
    <3>3. CASE Within(k.dst, r)
      BY <3>1, <3>2, <3>3
    <3>4. CASE ~ Within(k.dst, r)
      <4>1. Len(k.dst) < Len(r)
        BY <1>5, <3>2, <3>4, WithinBoth
      <4>2. Len(top.dst) \in Nat
        BY <1>4
      <4> QED BY <1>5, <1>6, <3>1, <3>2, <4>1, <4>2
    <3> QED BY <3>3, <3>4
  <2>3. CASE \A k \in Range(raw) : ~ Within(m.dst, k.dst) /\ ~ Within(k.dst, m.dst)
    <3>1. ~ Within(m.dst, top.dst) /\ ~ Within(top.dst, m.dst)
      BY <2>3
    <3>2. Within(top.dst, m.dst)
      BY <1>5, <1>10, <2>1, <3>1, WithinBoth
    <3> QED BY <3>1, <3>2
  <2> QED BY <1>1, <2>1, <2>2, <2>3
<1>11. t.dst = top.dst /\ t.src = top.src /\ t.mode = top.mode
  BY <1>8 DEF SameMount
<1>12. \A m \in Range(V) : Within(p, m.dst) =>
               \/ Len(m.dst) < Len(t.dst)
               \/ m.dst = t.dst /\ m.src = t.src /\ m.mode = t.mode
  BY <1>10, <1>11 DEF SameMount
<1>13. Writable(V, p) <=> t.mode = "RW" /\ t.src = t.dst
  <2>1. Within(p, t.dst)
    BY <1>11
  <2> QED BY <1>2, <1>9, <1>12, <2>1, ServedBy
<1> QED BY <1>11, <1>13 DEF V, E
-----------------------------------------------------------------------------
(* The mounts of one repository.                                           *)

LEMMA SingleFacts ==
    ASSUME NEW B, NEW x \in B
    PROVE  <<x>> \in Seq(B) /\ Range(<<x>>) = {x}
BY DEF Range

\* One more mount, before or after the others.
LEMMA AddsOne ==
    ASSUME NEW B, NEW s \in Seq(B), NEW x \in B
    PROVE  /\ s \o <<x>> \in Seq(B) /\ Range(s \o <<x>>) = Range(s) \cup {x}
           /\ <<x>> \o s \in Seq(B) /\ Range(<<x>> \o s) = {x} \cup Range(s)
<1> DEFINE one == <<x>>
<1>1. one \in Seq(B) /\ Range(one) = {x}
  BY SingleFacts
<1> HIDE DEF one
<1>2. s \o one \in Seq(B) /\ one \o s \in Seq(B)
  BY <1>1, ConcatProperties
<1>3. Range(s \o one) = Range(s) \cup Range(one)
  BY <1>1, RangeOfConcat
<1>4. Range(one \o s) = Range(one) \cup Range(s)
  BY <1>1, RangeOfConcat
<1> QED BY <1>1, <1>2, <1>3, <1>4 DEF one

LEMMA PairFacts ==
    ASSUME NEW B, NEW x \in B, NEW y \in B
    PROVE  <<x, y>> \in Seq(B) /\ Range(<<x, y>>) = {x, y}
<1>1. <<x, y>> \in Seq(B) /\ DOMAIN <<x, y>> = {1, 2}
  OBVIOUS
<1> QED BY <1>1 DEF Range

LEMMA TripleFacts ==
    ASSUME NEW B, NEW x \in B, NEW y \in B, NEW z \in B
    PROVE  <<x, y, z>> \in Seq(B) /\ Range(<<x, y, z>>) = {x, y, z}
<1>1. <<x, y, z>> \in Seq(B) /\ DOMAIN <<x, y, z>> = {1, 2, 3}
  OBVIOUS
<1> QED BY <1>1 DEF Range

LEMMA MirrorIs ==
    ASSUME NEW U, NEW path \in Seq(U), NEW mode \in {"RO", "RW"}
    PROVE  /\ Mirror(path, mode) \in MountsOver(U)
           /\ Mirror(path, mode).src = path /\ Mirror(path, mode).dst = path
           /\ Mirror(path, mode).mode = mode
BY DEF Mirror, Bind, MountsOver, MountModes

\* The directory of one task's file.
TaskAt(r, stem) == Append(Tasks(r), stem)
DockerYaml(r) == Append(Hatchery(r), "docker.yaml")
Source(r) == Append(r, "src")

LEMMA RelativePaths ==
    ASSUME NEW U, OwnParts \subseteq U, NEW m \in U, NEW n \in U
    PROVE  LET w(x) == <<"hatchery", "worktrees", x>>
               t(x) == <<"hatchery", "tasks", x>>
               h == <<"hatchery">>
               g == <<"git">>
               d == <<"hatchery", "docker.yaml">>
               s == <<"src">>
           IN  /\ {w(m), t(m), h, g, d, s} \subseteq Seq(U)
               /\ ~ Within(w(m), g) /\ ~ Within(t(m), g) /\ ~ Within(d, g) /\ ~ Within(s, g)
               /\ Within(w(m), h) /\ Within(t(m), h) /\ Within(d, h)
               /\ (Within(w(m), w(n)) <=> m = n) /\ (Within(t(m), t(n)) <=> m = n)
               /\ ~ Within(w(m), t(n)) /\ ~ Within(t(m), w(n))
               /\ ~ Within(d, t(n)) /\ ~ Within(d, w(n)) /\ ~ Within(s, w(n))
<1> DEFINE w(x) == <<"hatchery", "worktrees", x>>
           t(x) == <<"hatchery", "tasks", x>>
           h == <<"hatchery">>
           g == <<"git">>
           d == <<"hatchery", "docker.yaml">>
           s == <<"src">>
<1>1. \A x \in U : /\ w(x) \in Seq(U) /\ Len(w(x)) = 3
                   /\ w(x)[1] = "hatchery" /\ w(x)[2] = "worktrees" /\ w(x)[3] = x
                   /\ t(x) \in Seq(U) /\ Len(t(x)) = 3
                   /\ t(x)[1] = "hatchery" /\ t(x)[2] = "tasks" /\ t(x)[3] = x
  BY DEF OwnParts
<1>2. /\ h \in Seq(U) /\ Len(h) = 1 /\ h[1] = "hatchery"
      /\ g \in Seq(U) /\ Len(g) = 1 /\ g[1] = "git"
      /\ d \in Seq(U) /\ Len(d) = 2 /\ d[1] = "hatchery" /\ d[2] = "docker.yaml"
      /\ s \in Seq(U) /\ Len(s) = 1 /\ s[1] = "src"
  BY DEF OwnParts
<1> HIDE DEF w, t, h, g, d, s
<1>3. ASSUME NEW p \in Seq(U), NEW r \in Seq(U)
      PROVE  /\ Len(r) = 1 => (Within(p, r) <=> 1 <= Len(p) /\ p[1] = r[1])
             /\ Len(r) = 3 => (Within(p, r) <=> /\ 3 <= Len(p) /\ p[1] = r[1] /\ p[2] = r[2]
                                                /\ p[3] = r[3])
  <2>1. Within(p, r) <=> Len(r) <= Len(p) /\ \A i \in 1..Len(r) : p[i] = r[i]
    BY WithinIs
  <2>2. Len(r) = 1 => ((\A i \in 1..Len(r) : p[i] = r[i]) <=> p[1] = r[1])
    OBVIOUS
  <2>3. Len(r) = 3 => ((\A i \in 1..Len(r) : p[i] = r[i]) <=>
                          p[1] = r[1] /\ p[2] = r[2] /\ p[3] = r[3])
    OBVIOUS
  <2> QED BY <2>1, <2>2, <2>3
<1>4. ~ Within(w(m), g) /\ ~ Within(t(m), g) /\ ~ Within(d, g) /\ ~ Within(s, g)
  <2>1. \A p \in Seq(U) : Within(p, g) => p[1] = "git"
    BY <1>2, <1>3
  <2>2. w(m)[1] # "git" /\ t(m)[1] # "git" /\ d[1] # "git" /\ s[1] # "git"
    BY <1>1, <1>2
  <2>3. w(m) \in Seq(U) /\ t(m) \in Seq(U) /\ d \in Seq(U) /\ s \in Seq(U)
    BY <1>1, <1>2
  <2> QED BY <2>1, <2>2, <2>3
<1>5. Within(w(m), h) /\ Within(t(m), h) /\ Within(d, h)
  <2>1. \A p \in Seq(U) : 1 <= Len(p) /\ p[1] = "hatchery" => Within(p, h)
    BY <1>2, <1>3
  <2>2. 1 <= Len(w(m)) /\ 1 <= Len(t(m)) /\ 1 <= Len(d)
    BY <1>1, <1>2
  <2>3. w(m)[1] = "hatchery" /\ t(m)[1] = "hatchery" /\ d[1] = "hatchery"
    BY <1>1, <1>2
  <2>4. w(m) \in Seq(U) /\ t(m) \in Seq(U) /\ d \in Seq(U)
    BY <1>1, <1>2
  <2> QED BY <2>1, <2>2, <2>3, <2>4
<1>6. (Within(w(m), w(n)) <=> m = n) /\ (Within(t(m), t(n)) <=> m = n)
  BY <1>1, <1>3
<1>7. ~ Within(w(m), t(n)) /\ ~ Within(t(m), w(n))
  BY <1>1, <1>3
<1>8. ~ Within(d, t(n)) /\ ~ Within(d, w(n)) /\ ~ Within(s, w(n))
  BY <1>1, <1>2, <1>3
<1> QED BY <1>1, <1>2, <1>4, <1>5, <1>6, <1>7, <1>8 DEF w, t, h, g, d, s

\* Which of the paths of a repository lie within which.
LEMMA BelowRoot ==
    ASSUME NEW U, OwnParts \subseteq U, NEW r \in Seq(U), NEW m \in U, NEW n \in U
    PROVE  /\ {Git(r), Hatchery(r), Worktree(r, m), TaskAt(r, m), DockerYaml(r), Source(r)}
                  \subseteq Seq(U)
           /\ Within(r, r) /\ Within(Git(r), r) /\ Within(Hatchery(r), r) /\ Len(r) < Len(Hatchery(r))
           /\ \A p \in {Worktree(r, m), TaskAt(r, m), DockerYaml(r), Source(r)} :
                 Within(p, r) /\ ~ Within(p, Git(r)) /\ Len(r) < Len(p)
           /\ \A p \in {Worktree(r, m), TaskAt(r, m), DockerYaml(r)} :
                 Within(p, Hatchery(r)) /\ Len(Hatchery(r)) < Len(p)
           /\ Within(Worktree(r, m), Worktree(r, n)) <=> m = n
           /\ Within(TaskAt(r, m), TaskAt(r, n)) <=> m = n
           /\ ~ Within(Worktree(r, m), TaskAt(r, n)) /\ ~ Within(TaskAt(r, m), Worktree(r, n))
           /\ ~ Within(DockerYaml(r), TaskAt(r, n)) /\ ~ Within(DockerYaml(r), Worktree(r, n))
           /\ ~ Within(Source(r), Worktree(r, n))
<1> DEFINE w(x) == <<"hatchery", "worktrees", x>>
           t(x) == <<"hatchery", "tasks", x>>
           h == <<"hatchery">>
           g == <<"git">>
           d == <<"hatchery", "docker.yaml">>
           s == <<"src">>
<1>1. /\ {w(m), t(m), h, g, d, s} \subseteq Seq(U) /\ w(n) \in Seq(U) /\ t(n) \in Seq(U)
      /\ ~ Within(w(m), g) /\ ~ Within(t(m), g) /\ ~ Within(d, g) /\ ~ Within(s, g)
      /\ Within(w(m), h) /\ Within(t(m), h) /\ Within(d, h)
      /\ (Within(w(m), w(n)) <=> m = n) /\ (Within(t(m), t(n)) <=> m = n)
      /\ ~ Within(w(m), t(n)) /\ ~ Within(t(m), w(n))
      /\ ~ Within(d, t(n)) /\ ~ Within(d, w(n)) /\ ~ Within(s, w(n))
  BY RelativePaths, ZenonT(30)
<1>2. /\ Len(w(m)) = 3 /\ Len(t(m)) = 3 /\ Len(h) = 1 /\ Len(d) = 2 /\ Len(s) = 1
      /\ Len(r) \in Nat
  OBVIOUS
<1>3. /\ Git(r) = r \o g /\ Hatchery(r) = r \o h /\ Source(r) = r \o s /\ DockerYaml(r) = r \o d
      /\ Worktree(r, m) = r \o w(m) /\ TaskAt(r, m) = r \o t(m)
      /\ Worktree(r, n) = r \o w(n) /\ TaskAt(r, n) = r \o t(n)
  <2>1. ASSUME NEW x \in U
        PROVE  /\ Git(r) = r \o <<"git">> /\ Hatchery(r) = r \o <<"hatchery">>
               /\ Worktree(r, x) = r \o <<"hatchery", "worktrees", x>>
               /\ Append(Tasks(r), x) = r \o <<"hatchery", "tasks", x>>
               /\ Append(Hatchery(r), "docker.yaml") = r \o <<"hatchery", "docker.yaml">>
               /\ Append(r, "src") = r \o <<"src">>
    BY PathsAre, Zenon
  <2> QED BY <2>1, Zenon DEF TaskAt, DockerYaml, Source
<1> HIDE DEF w, t, h, g, d, s
<1>4. \A a \in Seq(U) : \A b \in Seq(U) : Within(r \o a, r \o b) <=> Within(a, b)
  BY WithinBelow
<1>5. \A a \in Seq(U) : /\ Within(r \o a, r) /\ Len(r \o a) = Len(r) + Len(a) /\ r \o a \in Seq(U)
  BY WithinBelow
<1>6. {Git(r), Hatchery(r), Worktree(r, m), TaskAt(r, m), DockerYaml(r), Source(r)}
                  \subseteq Seq(U)
  BY <1>1, <1>3, <1>5
<1>7. Within(r, r) /\ Within(Git(r), r) /\ Within(Hatchery(r), r) /\ Len(r) < Len(Hatchery(r))
  <2>1. Within(r, r)
    BY WithinSame
  <2>2. Len(Hatchery(r)) = Len(r) + 1
    BY <1>1, <1>2, <1>3, <1>5
  <2> QED BY <1>1, <1>2, <1>3, <1>5, <2>1, <2>2
<1>8. ASSUME NEW a \in {w(m), t(m), d, s}
      PROVE  Within(r \o a, r) /\ ~ Within(r \o a, Git(r)) /\ Len(r) < Len(r \o a)
  <2>1. a \in Seq(U) /\ g \in Seq(U) /\ ~ Within(a, g) /\ Len(a) \in Nat /\ Len(a) > 0
    <3>1. a = w(m) \/ a = t(m) \/ a = d \/ a = s
      OBVIOUS
    <3>2. a \in Seq(U) /\ g \in Seq(U) /\ ~ Within(a, g)
      BY <1>1, <3>1
    <3>3. Len(a) = 3 \/ Len(a) = 2 \/ Len(a) = 1
      BY <1>2, <3>1
    <3>4. 3 \in Nat /\ 3 > 0 /\ 2 \in Nat /\ 2 > 0 /\ 1 \in Nat /\ 1 > 0
      OBVIOUS
    <3>5. Len(a) \in Nat /\ Len(a) > 0
      BY <3>3, <3>4, Zenon
    <3> QED BY <3>2, <3>5
  <2>2. Len(r \o a) = Len(r) + Len(a) /\ Within(r \o a, r)
    BY <1>5, <2>1
  <2>3. ~ Within(r \o a, r \o g)
    BY <1>4, <2>1
  <2> QED BY <1>2, <1>3, <2>1, <2>2, <2>3
<1>9. ASSUME NEW a \in {w(m), t(m), d}
      PROVE  Within(r \o a, Hatchery(r)) /\ Len(Hatchery(r)) < Len(r \o a)
  <2>1. a \in Seq(U) /\ h \in Seq(U) /\ Within(a, h) /\ Len(a) \in Nat /\ Len(a) > 1 /\ Len(h) = 1
    <3>1. a = w(m) \/ a = t(m) \/ a = d
      OBVIOUS
    <3>2. a \in Seq(U) /\ h \in Seq(U) /\ Within(a, h)
      BY <1>1, <3>1
    <3>3. Len(h) = 1 /\ (Len(a) = 3 \/ Len(a) = 2)
      BY <1>2, <3>1
    <3>4. 3 \in Nat /\ 3 > 1 /\ 2 \in Nat /\ 2 > 1
      OBVIOUS
    <3>5. Len(a) \in Nat /\ Len(a) > 1
      BY <3>3, <3>4, Zenon
    <3> QED BY <3>2, <3>3, <3>5
  <2>2. Len(r \o a) = Len(r) + Len(a) /\ Len(r \o h) = Len(r) + Len(h)
    BY <1>5, <2>1
  <2>3. Within(r \o a, r \o h)
    BY <1>4, <2>1
  <2> QED BY <1>2, <1>3, <2>1, <2>2, <2>3
<1>10. /\ Within(Worktree(r, m), Worktree(r, n)) <=> m = n
       /\ Within(TaskAt(r, m), TaskAt(r, n)) <=> m = n
       /\ ~ Within(Worktree(r, m), TaskAt(r, n)) /\ ~ Within(TaskAt(r, m), Worktree(r, n))
       /\ ~ Within(DockerYaml(r), TaskAt(r, n)) /\ ~ Within(DockerYaml(r), Worktree(r, n))
       /\ ~ Within(Source(r), Worktree(r, n))
  BY <1>1, <1>3, <1>4
<1> QED BY <1>3, <1>6, <1>7, <1>8, <1>9, <1>10

LEMMA GitMountsAre ==
    ASSUME NEW U, OwnParts \subseteq U, NEW r \in Seq(U), NEW n \in U
    PROVE  LET G == GitWorktreeMounts(r, n, GitDirs)
           IN  /\ G \in Seq(MountsOver(U)) /\ Mirror(r, "RO") \in Range(G)
               /\ \A m \in Range(G) : m = Mirror(r, "RO") \/ Within(m.dst, Git(r))
<1> DEFINE B == MountsOver(U)
           rw(sub) == Mirror(Git(r) \o sub, "RW")
           wanted == <<<<"refs">>, <<"logs">>, <<"worktrees", n>>>>
           keep == {i \in 1..3 : wanted[i][1] \in GitDirs}
           first == <<Mirror(r, "RO"), rw(<<>>), rw(<<"objects">>)>>
           rest == [i \in 1..3 |-> rw(wanted[i])]
           InGit(m) == Within(m.dst, Git(r))
<1>1. Git(r) \in Seq(U)
  BY BelowRoot
<1>2. ASSUME NEW sub \in Seq(U)
      PROVE  rw(sub) \in B /\ InGit(rw(sub))
  <2>1. Git(r) \o sub \in Seq(U) /\ Within(Git(r) \o sub, Git(r))
    BY <1>1, WithinBelow
  <2>2. "RW" \in {"RO", "RW"}
    OBVIOUS
  <2> DEFINE at1 == Git(r) \o sub
  <2>3. at1 \in Seq(U) /\ Within(at1, Git(r))
    BY <2>1
  <2> HIDE DEF at1
  <2>4. /\ Mirror(at1, "RW") \in MountsOver(U)
        /\ Mirror(at1, "RW").dst = at1
    BY <2>2, <2>3, MirrorIs
  <2>5. Within(Mirror(at1, "RW").dst, Git(r))
    BY <2>3, <2>4
  <2> QED BY <2>4, <2>5 DEF at1
<1>3. /\ <<>> \in Seq(U) /\ <<"objects">> \in Seq(U)
      /\ <<"refs">> \in Seq(U) /\ <<"logs">> \in Seq(U) /\ <<"worktrees", n>> \in Seq(U)
  BY DEF OwnParts
<1>4. wanted[1] \in Seq(U) /\ wanted[2] \in Seq(U) /\ wanted[3] \in Seq(U)
  BY <1>3
<1>5. Mirror(r, "RO") \in B
  BY MirrorIs
<1>6. GitWorktreeMounts(r, n, GitDirs) = first \o Only(rest, keep)
  BY DEF GitWorktreeMounts
<1> HIDE DEF rw, InGit, wanted, keep, B
<1>7. first \in Seq(B) /\ Range(first) = {Mirror(r, "RO"), rw(<<>>), rw(<<"objects">>)}
  BY <1>2, <1>3, <1>5, TripleFacts
<1>8. rest \in Seq(B) /\ Len(rest) = 3 /\ \A i \in 1..3 : InGit(rest[i])
  <2>1. \A i \in 1..3 : i = 1 \/ i = 2 \/ i = 3
    OBVIOUS
  <2>2. \A i \in 1..3 : wanted[i] \in Seq(U)
    BY <1>4, <2>1
  <2>3. \A i \in 1..3 : rw(wanted[i]) \in B /\ InGit(rw(wanted[i]))
    BY <1>2, <2>2
  <2> QED BY <2>3
<1> HIDE DEF first, rest
<1>9. /\ Only(rest, keep) \in Seq(B)
      /\ \A x : x \in Range(Only(rest, keep)) <=> \E i \in 1..Len(rest) : i \in keep /\ x = rest[i]
  BY <1>8, OnlyFacts
<1>10. /\ first \o Only(rest, keep) \in Seq(B)
       /\ Range(first \o Only(rest, keep)) = Range(first) \cup Range(Only(rest, keep))
  BY <1>7, <1>9, RangeOfConcat, ConcatProperties
<1>11. \A m \in Range(first \o Only(rest, keep)) : m = Mirror(r, "RO") \/ InGit(m)
  <2>1. \A m \in Range(first) : m = Mirror(r, "RO") \/ InGit(m)
    BY <1>2, <1>3, <1>7
  <2>2. \A m \in Range(Only(rest, keep)) : InGit(m)
    BY <1>8, <1>9
  <2> QED BY <1>10, <2>1, <2>2
<1> QED BY <1>6, <1>7, <1>10, <1>11 DEF InGit, B

LEMMA IncludeMountsAre ==
    ASSUME NEW U, OwnParts \subseteq U, NEW r \in Seq(U), NEW n \in U,
           NEW mode \in {"worktree", "rw", "ro"}, NEW isolated \in BOOLEAN,
           isolated => mode = "worktree"
    PROVE  LET I == IncludeMounts(r, mode, n, isolated, GitDirs)
               work == Mirror(Worktree(r, n), "RW")
           IN  /\ I \in Seq(MountsOver(U)) /\ \A m \in Range(I) : Within(m.dst, r)
               /\ isolated => /\ Mirror(r, "RO") \in Range(I) /\ work \in Range(I)
                              /\ \A m \in Range(I) :
                                    m = Mirror(r, "RO") \/ m = work \/ Within(m.dst, Git(r))
               /\ ~ isolated => Range(I) = {Mirror(r, IF mode = "ro" THEN "RO" ELSE "RW")}
<1> DEFINE B == MountsOver(U)
           I == IncludeMounts(r, mode, n, isolated, GitDirs)
           work == Mirror(Worktree(r, n), "RW")
           G == GitWorktreeMounts(r, n, GitDirs)
           sole == Mirror(r, IF mode = "ro" THEN "RO" ELSE "RW")
<1>1. /\ Git(r) \in Seq(U) /\ Worktree(r, n) \in Seq(U)
      /\ Within(r, r) /\ Within(Git(r), r) /\ Within(Worktree(r, n), r)
  BY BelowRoot
<1>2. work \in B /\ work.dst = Worktree(r, n)
  <2>1. "RW" \in {"RO", "RW"}
    OBVIOUS
  <2> QED BY <1>1, <2>1, MirrorIs
<1>3. \A access \in {"RO", "RW"} : Mirror(r, access) \in B /\ Mirror(r, access).dst = r
  BY MirrorIs
<1>4. sole \in B /\ sole.dst = r
  <2>1. (IF mode = "ro" THEN "RO" ELSE "RW") \in {"RO", "RW"}
    OBVIOUS
  <2> QED BY <1>3, <2>1
<1>5. CASE isolated
  <2>1. I = G \o <<work>>
    BY <1>5 DEF IncludeMounts
  <2> HIDE DEF I, work
  <2>2. /\ G \in Seq(B) /\ Mirror(r, "RO") \in Range(G)
        /\ \A m \in Range(G) : m = Mirror(r, "RO") \/ Within(m.dst, Git(r))
    BY GitMountsAre
  <2> HIDE DEF G, B
  <2>3. <<work>> \in Seq(B) /\ Range(<<work>>) = {work}
    BY <1>2, SingleFacts
  <2>4. I \in Seq(B) /\ Range(I) = Range(G) \cup {work}
    <3>1. G \o <<work>> \in Seq(B) /\ Range(G \o <<work>>) = Range(G) \cup {work}
      BY <2>2, <1>2, AddsOne
    <3> QED BY <2>1, <3>1
  <2>5. /\ Mirror(r, "RO") \in Range(I) /\ work \in Range(I)
        /\ \A m \in Range(I) : m = Mirror(r, "RO") \/ m = work \/ Within(m.dst, Git(r))
    BY <2>2, <2>4
  <2>6. \A m \in Range(I) : Within(m.dst, r)
    <3>1. ASSUME NEW m \in Range(G), Within(m.dst, Git(r))
          PROVE  Within(m.dst, r)
      <4>1. \A x \in Range(G) : x \in B
        BY <2>2 DEF Range
      <4>2. m.dst \in Seq(U)
        BY <4>1, MountFacts DEF B
      <4> QED BY <1>1, <3>1, <4>2, WithinWithin
    <3>2. "RO" \in {"RO", "RW"}
      OBVIOUS
    <3>3. Within(Mirror(r, "RO").dst, r) /\ Within(work.dst, r)
      BY <1>1, <1>2, <1>3, <3>2
    <3> QED BY <2>2, <2>4, <3>1, <3>3
  <2> QED BY <1>5, <2>4, <2>5, <2>6 DEF I, work, B
<1>6. CASE ~ isolated
  <2>1. I = <<sole>>
    <3>1. CASE mode = "worktree"
      BY <1>6, <3>1 DEF IncludeMounts
    <3>2. CASE mode \in {"rw", "ro"}
      BY <1>6, <3>2 DEF IncludeMounts
    <3> QED BY <3>1, <3>2
  <2> HIDE DEF I, sole, B
  <2>2. <<sole>> \in Seq(B) /\ Range(<<sole>>) = {sole}
    BY <1>4, SingleFacts
  <2>3. I \in Seq(B) /\ Range(I) = {sole}
    BY <2>1, <2>2
  <2>4. \A m \in Range(I) : Within(m.dst, r)
    BY <1>1, <1>4, <2>3
  <2> QED BY <1>6, <2>3, <2>4 DEF I, sole, B
<1> QED BY <1>5, <1>6
-----------------------------------------------------------------------------
(* The mounts of a container before links are expanded.                    *)

Roots(s) == {Repo} \cup {e.path : e \in Range(s.includes)}

LEMMA SeparateIs ==
    ASSUME NEW s, Separate(s), NEW r \in Roots(s)
    PROVE  /\ \A m \in Given(s.config) : ~ Within(m.dst, r)
           /\ ~ Within(GitConfig.dst, r)
           /\ ~ Within(Append(Home.host, "clipboard"), r)
           /\ \A p \in System : ~ Within(p, r) /\ ~ Within(r, p)
<1> DEFINE binds == Given(s.config)
           others == {m.dst : m \in binds} \cup {GitConfig.dst, Append(Home.host, "clipboard")}
<1>1. /\ \A d \in others \cup System : ~ Within(d, r)
      /\ \A p \in System : ~ Within(r, p)
  BY DEF Separate, Roots
<1>2. /\ GitConfig.dst \in others /\ Append(Home.host, "clipboard") \in others
      /\ \A m \in binds : m.dst \in others
  OBVIOUS
<1> HIDE DEF others, binds
<1>3. /\ \A m \in binds : ~ Within(m.dst, r)
      /\ ~ Within(GitConfig.dst, r)
      /\ ~ Within(Append(Home.host, "clipboard"), r)
      /\ \A p \in System : ~ Within(p, r) /\ ~ Within(r, p)
  BY <1>1, <1>2
<1> QED BY <1>3 DEF binds

LEMMA CommonAre ==
    ASSUME NEW U, NEW s, Typed(s, U), Separate(s)
    PROVE  LET C == CommonMounts(s.config)
           IN  /\ C \in Seq(MountsOver(U))
               /\ \A m \in Range(C) : \A r \in Roots(s) : ~ Within(m.dst, r)
<1> DEFINE B == MountsOver(U)
           c == s.config
           first == IF GitConfig.src \in c.exist THEN <<GitConfig>> ELSE <<>>
           clip == Mirror(Append(Home.host, "clipboard"), "RW")
           keep == {i \in DOMAIN c.mounts : c.mounts[i].src \in c.exist}
           own == Only(c.mounts, keep)
           last == IF c.clipboard THEN <<clip>> ELSE <<>>
           Aside(m) == \A r \in Roots(s) : ~ Within(m.dst, r)
<1>1. /\ c.agent \in Seq(B) /\ c.mounts \in Seq(B) /\ c.volumes \in Seq(B)
      /\ Append(Home.host, "gitconfig") \in Seq(U) /\ Append(Home.container, "gitconfig") \in Seq(U)
      /\ Append(Home.host, "clipboard") \in Seq(U)
  <2>1. /\ Home.host \in Seq(U) /\ Home.container \in Seq(U)
        /\ "gitconfig" \in U /\ "clipboard" \in U
    BY DEF Typed, OwnParts
  <2>2. c.agent \in Seq(B) /\ c.mounts \in Seq(B) /\ c.volumes \in Seq(B)
    BY DEF Typed
  <2> HIDE DEF B
  <2> QED BY <2>1, <2>2
<1>2. GitConfig \in B
  BY <1>1 DEF GitConfig, Bind, MountsOver, MountModes
<1>3. clip \in B /\ clip.dst = Append(Home.host, "clipboard")
  BY <1>1 DEF Mirror, Bind, MountsOver, MountModes
<1> HIDE DEF clip, B, keep
<1>4. Aside(GitConfig) /\ Aside(clip)
  BY <1>2, <1>3, SeparateIs
<1>5. \A m \in Range(c.agent) \cup Range(c.mounts) \cup Range(c.volumes) : Aside(m)
  BY SeparateIs DEF Given
<1>6. /\ own \in Seq(B)
      /\ \A x : x \in Range(own) <=> \E i \in 1..Len(c.mounts) : i \in keep /\ x = c.mounts[i]
  <2>1. c.mounts \in Seq(B)
    BY <1>1
  <2> HIDE DEF c
  <2> QED BY <2>1, OnlyFacts
<1> HIDE DEF own, Aside
<1>7. \A m \in Range(own) : Aside(m)
  <2>1. \A i \in 1..Len(c.mounts) : c.mounts[i] \in Range(c.mounts)
    <3>1. DOMAIN c.mounts = 1..Len(c.mounts)
      BY <1>1
    <3> QED BY <3>1 DEF Range
  <2> QED BY <1>5, <1>6, <2>1
<1>8. last \in Seq(B) /\ \A m \in Range(last) : Aside(m)
  <2>1. <<clip>> \in Seq(B) /\ Range(<<clip>>) = {clip}
    BY <1>3, SingleFacts
  <2>2. <<>> \in Seq(B) /\ Range(<<>>) = {}
    BY DEF Range
  <2>3. CASE c.clipboard
    BY <1>4, <2>1, <2>3
  <2>4. CASE ~ c.clipboard
    BY <2>2, <2>4
  <2> QED BY <2>3, <2>4
<1>9. first \in Seq(B) /\ \A m \in Range(first) : Aside(m)
  <2>1. <<GitConfig>> \in Seq(B) /\ Range(<<GitConfig>>) = {GitConfig}
    BY <1>2, SingleFacts
  <2>2. <<>> \in Seq(B) /\ Range(<<>>) = {}
    BY DEF Range
  <2>3. CASE GitConfig.src \in c.exist
    BY <1>4, <2>1, <2>3
  <2>4. CASE GitConfig.src \notin c.exist
    BY <2>2, <2>4
  <2> QED BY <2>3, <2>4
<1>10. CommonMounts(c) = (((first \o c.agent) \o own) \o c.volumes) \o last
  BY DEF CommonMounts, own, keep, clip
<1> HIDE DEF first, last
<1> DEFINE one == first \o c.agent
           two == one \o own
           three == two \o c.volumes
<1>11. one \in Seq(B) /\ Range(one) = Range(first) \cup Range(c.agent)
  BY <1>1, <1>9, RangeOfConcat, ConcatProperties
<1> HIDE DEF one
<1>15. two \in Seq(B) /\ Range(two) = Range(one) \cup Range(own)
  BY <1>6, <1>11, RangeOfConcat, ConcatProperties
<1> HIDE DEF two
<1>12. three \in Seq(B) /\ Range(three) = Range(two) \cup Range(c.volumes)
  BY <1>1, <1>15, RangeOfConcat, ConcatProperties
<1> HIDE DEF three
<1>13. three \o last \in Seq(B) /\ Range(three \o last) = Range(three) \cup Range(last)
  BY <1>8, <1>12, RangeOfConcat, ConcatProperties
<1>14. \A m \in Range(three \o last) : Aside(m)
  <2>1. \A m \in Range(two) : Aside(m)
    BY <1>5, <1>7, <1>9, <1>11, <1>15
  <2> HIDE DEF c
  <2> QED BY <1>5, <1>8, <1>12, <1>13, <2>1
<1> QED BY <1>10, <1>13, <1>14 DEF one, two, three, B, Aside

LEMMA CheckoutAre ==
    ASSUME NEW U, Typed(Setup, U), NEW n \in U, Instance(Setup)
    PROVE  LET C == CheckoutMounts(n)
               work == Bind(Worktree(Repo, n), Worktree(Repo, n), "RW", Setup.config.follow)
           IN  /\ C \in Seq(MountsOver(U))
               /\ work.src = Worktree(Repo, n) /\ work.dst = Worktree(Repo, n) /\ work.mode = "RW"
               /\ ~ Setup.bare => work \in Range(C)
               /\ \A m \in Range(C) : \/ m.dst = Repo \/ Within(m.dst, Git(Repo))
                                      \/ ~ Setup.bare /\ m = work
<1> DEFINE B == MountsOver(U)
           C == CheckoutMounts(n)
           work == Bind(Worktree(Repo, n), Worktree(Repo, n), "RW", Setup.config.follow)
           whole == Bind(Repo, Repo, "RW", Setup.config.follow)
           G == GitWorktreeMounts(Repo, n, GitDirs)
<1>1. Repo \in Seq(U) /\ OwnParts \subseteq U /\ Setup.config.follow \in BOOLEAN /\ Setup.bare \in BOOLEAN
  BY DEF Typed, Instance
<1>2. Worktree(Repo, n) \in Seq(U)
  BY <1>1, BelowRoot
<1>3. whole \in B /\ whole.dst = Repo
  BY <1>1 DEF Bind, MountsOver, MountModes
<1>4. work \in B /\ work.src = Worktree(Repo, n) /\ work.dst = Worktree(Repo, n) /\ work.mode = "RW"
  BY <1>1, <1>2 DEF Bind, MountsOver, MountModes
<1>5. CASE Setup.bare
  <2>1. C = <<whole>>
    BY <1>5 DEF CheckoutMounts
  <2> HIDE DEF C, whole, work, B
  <2>2. <<whole>> \in Seq(B) /\ Range(<<whole>>) = {whole}
    BY <1>3, SingleFacts
  <2>3. C \in Seq(B) /\ \A m \in Range(C) : m.dst = Repo
    BY <1>3, <2>1, <2>2
  <2> QED BY <1>4, <1>5, <2>3 DEF C, B, work
<1>6. CASE ~ Setup.bare
  <2>1. C = G \o <<work>>
    BY <1>6 DEF CheckoutMounts
  <2>2. /\ G \in Seq(B)
        /\ \A m \in Range(G) : m = Mirror(Repo, "RO") \/ Within(m.dst, Git(Repo))
    BY <1>1, GitMountsAre
  <2>3. Mirror(Repo, "RO").dst = Repo
    BY DEF Mirror, Bind
  <2> HIDE DEF C, G, work, B
  <2>4. <<work>> \in Seq(B) /\ Range(<<work>>) = {work}
    BY <1>4, SingleFacts
  <2>5. C \in Seq(B) /\ Range(C) = Range(G) \cup {work}
    <3>1. G \o <<work>> \in Seq(B) /\ Range(G \o <<work>>) = Range(G) \cup {work}
      BY <2>2, <1>4, AddsOne
    <3> QED BY <2>1, <3>1
  <2>6. \A m \in Range(C) : m.dst = Repo \/ Within(m.dst, Git(Repo)) \/ m = work
    BY <2>2, <2>3, <2>5
  <2> QED BY <1>4, <1>6, <2>5, <2>6 DEF C, B, work
<1> QED BY <1>1, <1>5, <1>6

EntryMounts(n, e) == IncludeMounts(e.path, e.mode, n, Isolated1(e), GitDirs)

\* An entry's worktree is used where it is there.
LEMMA EntryIs ==
    ASSUME NEW U, Typed(Setup, U), NEW n \in U, Instance(Setup), NEW e \in Range(Setup.includes)
    PROVE  LET one == EntryMounts(n, e)
               work == Mirror(Worktree(e.path, n), "RW")
           IN  /\ e.path \in Seq(U) /\ e.path \in Roots(Setup)
               /\ e.mode \in {"worktree", "rw", "ro"} /\ Isolated1(e) \in BOOLEAN
               /\ (Isolated1(e) => e.mode = "worktree")
               /\ one \in Seq(MountsOver(U))
               /\ \A m \in Range(one) : Within(m.dst, e.path)
               /\ Isolated1(e) => /\ Mirror(e.path, "RO") \in Range(one) /\ work \in Range(one)
                                  /\ \A m \in Range(one) : \/ m = Mirror(e.path, "RO") \/ m = work
                                                           \/ Within(m.dst, Git(e.path))
               /\ ~ Isolated1(e) =>
                     Range(one) = {Mirror(e.path, IF e.mode = "ro" THEN "RO" ELSE "RW")}
<1>1. e.path \in Seq(U) /\ OwnParts \subseteq U
  BY DEF Typed
<1>2. e.path \in Roots(Setup)
  BY DEF Roots
<1>3. e.mode \in {"worktree", "rw", "ro"} /\ e.there \in BOOLEAN /\ Setup.bare \in BOOLEAN
  BY DEF Instance
<1> DEFINE iso == Isolated1(e)
<1>4. iso \in BOOLEAN /\ (iso => e.mode = "worktree")
  BY <1>3 DEF Isolated1
<1> HIDE DEF iso
<1>5. LET I == IncludeMounts(e.path, e.mode, n, iso, GitDirs)
          work == Mirror(Worktree(e.path, n), "RW")
      IN  /\ I \in Seq(MountsOver(U)) /\ \A m \in Range(I) : Within(m.dst, e.path)
          /\ iso => /\ Mirror(e.path, "RO") \in Range(I) /\ work \in Range(I)
                    /\ \A m \in Range(I) :
                          m = Mirror(e.path, "RO") \/ m = work \/ Within(m.dst, Git(e.path))
          /\ ~ iso => Range(I) = {Mirror(e.path, IF e.mode = "ro" THEN "RO" ELSE "RW")}
  BY <1>1, <1>3, <1>4, IncludeMountsAre
<1> QED BY <1>1, <1>2, <1>3, <1>4, <1>5, Zenon DEF iso, EntryMounts

LEMMA IncludedAre ==
    ASSUME NEW U, Typed(Setup, U), NEW n \in U, Instance(Setup)
    PROVE  LET inc == Setup.includes
           IN  /\ DOMAIN inc = 1..Len(inc) /\ Len(inc) \in Nat
               /\ \A i \in 1..Len(inc) : inc[i] \in Range(inc)
               /\ IncludedMounts(n) \in Seq(MountsOver(U))
               /\ \A m : m \in Range(IncludedMounts(n)) <=>
                           \E i \in 1..Len(inc) : m \in Range(EntryMounts(n, inc[i]))
<1> DEFINE B == MountsOver(U)
           inc == Setup.includes
           parts == [i \in DOMAIN inc |-> EntryMounts(n, inc[i])]
<1>1. inc = [i \in 1..Len(inc) |-> inc[i]] /\ Len(inc) \in Nat /\ DOMAIN inc = 1..Len(inc)
  BY DEF Instance, IsSeq
<1>2. \A i \in 1..Len(inc) : inc[i] \in Range(inc)
  BY <1>1 DEF Range
<1>3. \A i \in 1..Len(inc) : EntryMounts(n, inc[i]) \in Seq(B)
  BY <1>2, EntryIs
<1>4. /\ parts \in Seq(Seq(B)) /\ Len(parts) = Len(inc)
      /\ \A i \in 1..Len(inc) : parts[i] = EntryMounts(n, inc[i])
  <2> HIDE DEF B
  <2> QED BY <1>1, <1>3
<1>5. IncludedMounts(n) = FlattenSeq(parts)
  BY DEF IncludedMounts, EntryMounts
<1> HIDE DEF parts
<1>6. /\ FlattenSeq(parts) \in Seq(B)
      /\ \A x : x \in Range(FlattenSeq(parts)) <=> \E j \in 1..Len(parts) : x \in Range(parts[j])
  BY <1>4, FlattenedFacts
<1>7. /\ IncludedMounts(n) \in Seq(B)
      /\ \A m : m \in Range(IncludedMounts(n)) <=>
                  \E i \in 1..Len(inc) : m \in Range(EntryMounts(n, inc[i]))
  <2> HIDE DEF B, inc
  <2> QED BY <1>4, <1>5, <1>6
<1> QED BY <1>1, <1>2, <1>7

Store(n, k) == <<Mirror(Hatchery(Repo), "RO"), Mirror(TaskDir(n, k), "RW")>>
Raw(n, k) == CheckoutMounts(n) \o CommonMounts(Setup.config) \o Store(n, k) \o IncludedMounts(n)

\* A task whose record is k, in a setup whose repositories are apart.
LaunchMounts(U, n, k) ==
    /\ setup \in DOMAIN Setups /\ Typed(Setup, U) /\ Separate(Setup)
    /\ n \in TaskNames /\ k \in Key

LEMMA LaunchedIs ==
    ASSUME NEW U, NEW n, NEW k, LaunchMounts(U, n, k)
    PROVE  /\ Instance(Setup) /\ Typed(Setup, U) /\ Separate(Setup) /\ n \in U
           /\ Repo \in Seq(U) /\ OwnParts \subseteq U /\ System \subseteq Seq(U)
           /\ TaskDir(n, k) = TaskAt(Repo, Stem(k)) /\ Stem(k) \in U
           /\ Repo \in Roots(Setup) /\ LinksOver(U, Setup.links)
<1>1. Instance(Setup) /\ Typed(Setup, U) /\ Separate(Setup)
  BY SetupFacts DEF LaunchMounts
<1>2. /\ n \in U /\ Stem(k) \in U /\ Repo \in Seq(U) /\ OwnParts \subseteq U
      /\ System \subseteq Seq(U)
  BY <1>1 DEF LaunchMounts, Typed
<1>3. TaskDir(n, k) = TaskAt(Repo, Stem(k))
  BY DEF TaskDir, TaskAt
<1>4. LinksOver(U, Setup.links)
  BY <1>1 DEF Instance, Typed, LinksOver
<1> QED BY <1>1, <1>2, <1>3, <1>4 DEF Roots

LEMMA StoreIs ==
    ASSUME NEW U, NEW n, NEW k, LaunchMounts(U, n, k)
    PROVE  /\ Store(n, k) \in Seq(MountsOver(U))
           /\ Range(Store(n, k)) = {Mirror(Hatchery(Repo), "RO"), Mirror(TaskDir(n, k), "RW")}
           /\ Mirror(Hatchery(Repo), "RO").dst = Hatchery(Repo)
           /\ Mirror(Hatchery(Repo), "RO").mode = "RO"
           /\ Mirror(TaskDir(n, k), "RW").dst = TaskDir(n, k)
           /\ Mirror(TaskDir(n, k), "RW").src = TaskDir(n, k)
           /\ Mirror(TaskDir(n, k), "RW").mode = "RW"
<1>1. /\ Repo \in Seq(U) /\ OwnParts \subseteq U /\ Stem(k) \in U
      /\ TaskDir(n, k) = TaskAt(Repo, Stem(k))
  BY LaunchedIs
<1>2. Hatchery(Repo) \in Seq(U) /\ TaskDir(n, k) \in Seq(U)
  BY <1>1, BelowRoot
<1>3. "RO" \in {"RO", "RW"} /\ "RW" \in {"RO", "RW"}
  OBVIOUS
<1>4. /\ Mirror(Hatchery(Repo), "RO") \in MountsOver(U)
      /\ Mirror(Hatchery(Repo), "RO").dst = Hatchery(Repo)
      /\ Mirror(Hatchery(Repo), "RO").mode = "RO"
      /\ Mirror(TaskDir(n, k), "RW") \in MountsOver(U)
      /\ Mirror(TaskDir(n, k), "RW").dst = TaskDir(n, k)
      /\ Mirror(TaskDir(n, k), "RW").src = TaskDir(n, k)
      /\ Mirror(TaskDir(n, k), "RW").mode = "RW"
  BY <1>2, <1>3, MirrorIs
<1> QED BY <1>4, PairFacts DEF Store

LEMMA RawIs ==
    ASSUME NEW U, NEW n, NEW k, LaunchMounts(U, n, k)
    PROVE  /\ Raw(n, k) \in Seq(MountsOver(U))
           /\ Range(Raw(n, k)) = Range(CheckoutMounts(n)) \cup Range(CommonMounts(Setup.config))
                                 \cup Range(Store(n, k)) \cup Range(IncludedMounts(n))
<1> DEFINE B == MountsOver(U)
           c == CheckoutMounts(n)
           d == CommonMounts(Setup.config)
           s == Store(n, k)
           i == IncludedMounts(n)
           cd == c \o d
           cds == cd \o s
<1>1. Instance(Setup) /\ Typed(Setup, U) /\ Separate(Setup) /\ n \in U
  BY LaunchedIs
<1>2. c \in Seq(B)
  BY <1>1, CheckoutAre
<1>3. d \in Seq(B)
  BY <1>1, CommonAre
<1>4. s \in Seq(B)
  BY StoreIs
<1>5. i \in Seq(B)
  BY <1>1, IncludedAre
<1>6. Raw(n, k) = cds \o i
  BY DEF Raw
<1> HIDE DEF c, d, s, i, B, cd
<1>7. cd \in Seq(B) /\ Range(cd) = Range(c) \cup Range(d)
  BY <1>2, <1>3, RangeOfConcat, ConcatProperties DEF cd
<1> HIDE DEF cds
<1>8. cds \in Seq(B) /\ Range(cds) = Range(cd) \cup Range(s)
  <2>1. cd \in Seq(B)
    BY <1>7
  <2> QED BY <1>4, <2>1, RangeOfConcat, ConcatProperties DEF cds
<1>9. cds \o i \in Seq(B) /\ Range(cds \o i) = Range(cds) \cup Range(i)
  <2>1. cds \in Seq(B)
    BY <1>8
  <2> QED BY <1>5, <2>1, RangeOfConcat, ConcatProperties
<1>10. Raw(n, k) \in Seq(B) /\ Range(Raw(n, k)) = ((Range(c) \cup Range(d)) \cup Range(s)) \cup Range(i)
  BY <1>6, <1>7, <1>8, <1>9
<1> QED BY <1>10 DEF c, d, s, i, B

\* A root lies in no other; entry i's is not Repo, and not another entry's.
LEMMA RootsApart ==
    ASSUME NEW U, NEW s, Typed(s, U), Separate(s), NEW p \in Seq(U), NEW i \in DOMAIN s.includes,
           Within(p, s.includes[i].path)
    PROVE  /\ ~ Within(p, Repo)
           /\ \A j \in DOMAIN s.includes : Within(p, s.includes[j].path) => i = j
<1>1. /\ s.includes[i].path \in Seq(U) /\ Repo \in Seq(U)
      /\ \A j \in DOMAIN s.includes : s.includes[j].path \in Seq(U)
  <2>1. \A j \in DOMAIN s.includes : s.includes[j] \in Range(s.includes)
    BY DEF Range
  <2> QED BY <2>1 DEF Typed
<1>2. /\ ~ Within(s.includes[i].path, Repo) /\ ~ Within(Repo, s.includes[i].path)
      /\ \A j \in DOMAIN s.includes : i # j =>
            /\ ~ Within(s.includes[i].path, s.includes[j].path)
            /\ ~ Within(s.includes[j].path, s.includes[i].path)
  BY DEF Separate
<1>3. ~ Within(p, Repo)
  BY <1>1, <1>2, WithinBoth
<1>4. ASSUME NEW j \in DOMAIN s.includes, Within(p, s.includes[j].path), i # j
      PROVE  FALSE
  <2>1. s.includes[j].path \in Seq(U) /\ ~ Within(s.includes[i].path, s.includes[j].path)
        /\ ~ Within(s.includes[j].path, s.includes[i].path)
    BY <1>1, <1>2, <1>4
  <2> QED BY <1>1, <1>4, <2>1, WithinBoth
<1> QED BY <1>3, <1>4

LEMMA InRepo ==
    ASSUME NEW U, NEW n, NEW k, LaunchMounts(U, n, k), NEW m \in Range(Raw(n, k)), Within(m.dst, Repo)
    PROVE  m \in Range(CheckoutMounts(n)) \cup Range(Store(n, k))
<1>1. Instance(Setup) /\ Typed(Setup, U) /\ Separate(Setup) /\ n \in U /\ Repo \in Roots(Setup)
  BY LaunchedIs
<1>2. m \notin Range(CommonMounts(Setup.config))
  BY <1>1, CommonAre
<1>3. m \notin Range(IncludedMounts(n))
  <2>1. SUFFICES ASSUME m \in Range(IncludedMounts(n))
                 PROVE  FALSE
    OBVIOUS
  <2> DEFINE inc == Setup.includes
  <2>2. /\ DOMAIN inc = 1..Len(inc)
        /\ \E i \in 1..Len(inc) : m \in Range(EntryMounts(n, inc[i]))
        /\ \A i \in 1..Len(inc) : inc[i] \in Range(inc)
    BY <1>1, <2>1, IncludedAre
  <2>3. PICK i \in 1..Len(inc) : m \in Range(EntryMounts(n, inc[i]))
    BY <2>2
  <2>4. EntryMounts(n, inc[i]) \in Seq(MountsOver(U)) /\ Within(m.dst, inc[i].path) /\ i \in DOMAIN inc
    BY <1>1, <2>2, <2>3, EntryIs
  <2>5. m \in MountsOver(U)
    BY <2>3, <2>4 DEF Range
  <2>6. m.dst \in Seq(U)
    BY <2>5, MountFacts
  <2> QED BY <1>1, <2>4, <2>6, RootsApart
<1> QED BY <1>2, <1>3, RawIs

LEMMA InIncluded ==
    ASSUME NEW U, NEW n, NEW k, LaunchMounts(U, n, k), NEW m \in Range(Raw(n, k)),
           NEW i \in DOMAIN Setup.includes, Within(m.dst, Setup.includes[i].path)
    PROVE  m \in Range(EntryMounts(n, Setup.includes[i]))
<1> DEFINE inc == Setup.includes
<1>1. /\ Instance(Setup) /\ Typed(Setup, U) /\ Separate(Setup) /\ n \in U
      /\ Repo \in Seq(U) /\ OwnParts \subseteq U /\ Stem(k) \in U
      /\ TaskDir(n, k) = TaskAt(Repo, Stem(k))
  BY LaunchedIs
<1>2. /\ DOMAIN inc = 1..Len(inc)
      /\ \A l : l \in Range(IncludedMounts(n)) <=>
                  \E j \in 1..Len(inc) : l \in Range(EntryMounts(n, inc[j]))
      /\ \A j \in 1..Len(inc) : inc[j] \in Range(inc)
  BY <1>1, IncludedAre
<1>3. m \in MountsOver(U)
  BY RawIs DEF Range
<1>4. m.dst \in Seq(U)
  BY <1>3, MountFacts
<1>5. ~ Within(m.dst, Repo) /\ \A j \in DOMAIN inc : Within(m.dst, inc[j].path) => i = j
  BY <1>1, <1>4, RootsApart
<1>6. m \notin Range(CommonMounts(Setup.config))
  <2>1. Setup.includes[i].path \in Roots(Setup)
    BY <1>1, <1>2, EntryIs
  <2> QED BY <1>1, <2>1, CommonAre
<1>7. m \notin Range(CheckoutMounts(n)) \cup Range(Store(n, k))
  <2>1. SUFFICES ASSUME m \in Range(CheckoutMounts(n)) \cup Range(Store(n, k))
                 PROVE  FALSE
    OBVIOUS
  <2>2. /\ Git(Repo) \in Seq(U) /\ Within(Repo, Repo) /\ Within(Git(Repo), Repo)
        /\ Within(Hatchery(Repo), Repo) /\ Within(TaskDir(n, k), Repo)
        /\ Within(Worktree(Repo, n), Repo)
    BY <1>1, BelowRoot
  <2>3. CASE m \in Range(CheckoutMounts(n))
    <3> DEFINE work == Bind(Worktree(Repo, n), Worktree(Repo, n), "RW", Setup.config.follow)
    <3>1. /\ work.dst = Worktree(Repo, n)
          /\ m.dst = Repo \/ Within(m.dst, Git(Repo)) \/ m = work
      BY <1>1, <2>3, CheckoutAre
    <3> HIDE DEF work
    <3>2. ~ Within(m.dst, Git(Repo))
      BY <1>1, <1>4, <1>5, <2>2, WithinWithin
    <3> QED BY <1>5, <2>2, <3>1, <3>2
  <2>4. CASE m \in Range(Store(n, k))
    <3>1. m.dst = Hatchery(Repo) \/ m.dst = TaskDir(n, k)
      BY <2>4, StoreIs
    <3> QED BY <1>5, <2>2, <3>1
  <2> QED BY <2>1, <2>3, <2>4
<1>8. m \in Range(IncludedMounts(n))
  BY <1>6, <1>7, RawIs
<1>9. PICK j \in 1..Len(inc) : m \in Range(EntryMounts(n, inc[j]))
  BY <1>2, <1>8
<1>10. i = j
  <2>1. inc[j] \in Range(inc) /\ j \in DOMAIN inc
    BY <1>2
  <2>2. Within(m.dst, inc[j].path)
    BY <1>1, <1>9, <2>1, EntryIs
  <2> QED BY <1>5, <2>1, <2>2
<1> QED BY <1>9, <1>10
-----------------------------------------------------------------------------
(* What a container can write.                                             *)

CheckoutOf(n) == Bind(Worktree(Repo, n), Worktree(Repo, n), "RW", Setup.config.follow)
AllTasks == Mirror(Hatchery(Repo), "RO")
OwnTask(n, k) == Mirror(TaskDir(n, k), "RW")

LEMMA MountsForIs ==
    ASSUME NEW n, NEW k
    PROVE  MountsFor(n, k) = Validate(ExpandLinks(Raw(n, k), Setup.links))
BY DEF MountsFor, Assembled, Raw, Store

LEMMA RepoTop ==
    ASSUME NEW U, NEW n, NEW k, LaunchMounts(U, n, k), NEW p \in Seq(U), ~ Within(p, Git(Repo)),
           NEW top \in Range(Raw(n, k)), Within(p, top.dst), Within(top.dst, Repo),
           Len(Repo) < Len(top.dst),
           \A m \in {CheckoutOf(n), AllTasks, OwnTask(n, k)} :
               Within(p, m.dst) => Len(m.dst) < Len(top.dst) \/ m = top
    PROVE  Writable(MountsFor(n, k), p) <=> top.mode = "RW" /\ top.src = top.dst
<1>1. /\ Instance(Setup) /\ Typed(Setup, U) /\ Separate(Setup) /\ n \in U
      /\ Repo \in Seq(U) /\ OwnParts \subseteq U /\ System \subseteq Seq(U)
      /\ Repo \in Roots(Setup) /\ LinksOver(U, Setup.links)
  BY LaunchedIs
<1>2. Raw(n, k) \in Seq(MountsOver(U))
  BY RawIs
<1>3. \A s \in System : ~ Within(s, Repo) /\ ~ Within(Repo, s)
  BY <1>1, SeparateIs
<1>4. ASSUME NEW m \in Range(Raw(n, k)), Within(m.dst, Repo), Within(p, m.dst)
      PROVE  Len(m.dst) < Len(top.dst) \/ SameMount(m, top)
  <2>1. m.dst \in Seq(U)
    <3>1. m \in MountsOver(U)
      BY <1>2 DEF Range
    <3> QED BY <3>1, MountFacts
  <2>2. ~ Within(m.dst, Git(Repo))
    <3>1. Git(Repo) \in Seq(U)
      BY <1>1, BelowRoot
    <3> QED BY <1>4, <2>1, <3>1, WithinWithin
  <2>3. m.dst = Repo \/ m = CheckoutOf(n) \/ m = AllTasks \/ m = OwnTask(n, k)
    <3>1. CASE m \in Range(CheckoutMounts(n))
      <4>1. m.dst = Repo \/ Within(m.dst, Git(Repo)) \/ m = CheckoutOf(n)
        BY <1>1, <3>1, CheckoutAre DEF CheckoutOf
      <4> QED BY <2>2, <4>1
    <3>2. CASE m \in Range(Store(n, k))
      BY <3>2, StoreIs DEF AllTasks, OwnTask
    <3> QED BY <1>4, <3>1, <3>2, InRepo
  <2>4. SameMount(top, top)
    BY DEF SameMount
  <2> QED BY <1>4, <2>3, <2>4
<1> QED BY <1>1, <1>2, <1>3, <1>4, RootServed, MountsForIs

LEMMA RepoServed ==
    ASSUME NEW U, NEW n, NEW k, LaunchMounts(U, n, k)
    PROVE  /\ \A l \in Key : Writable(MountsFor(n, k), TaskDir(n, l)) <=> Stem(l) = Stem(k)
           /\ ~ Setup.bare => \A m \in TaskNames :
                 Writable(MountsFor(n, k), Worktree(Repo, m)) <=> m = n
           /\ ~ Writable(MountsFor(n, k), Append(Hatchery(Repo), "docker.yaml"))
<1>1. /\ Instance(Setup) /\ Typed(Setup, U) /\ n \in U /\ Repo \in Seq(U) /\ OwnParts \subseteq U
      /\ TaskDir(n, k) = TaskAt(Repo, Stem(k)) /\ Stem(k) \in U
  BY LaunchedIs
<1>2. \A l \in Key : TaskDir(n, l) = TaskAt(Repo, Stem(l)) /\ Stem(l) \in U
  BY <1>1 DEF TaskDir, TaskAt, Typed
<1>3. TaskNames \subseteq U
  BY <1>1 DEF Typed
<1>4. /\ AllTasks \in Range(Raw(n, k)) /\ AllTasks.dst = Hatchery(Repo) /\ AllTasks.mode = "RO"
      /\ OwnTask(n, k) \in Range(Raw(n, k)) /\ OwnTask(n, k).dst = TaskAt(Repo, Stem(k))
      /\ OwnTask(n, k).src = TaskAt(Repo, Stem(k)) /\ OwnTask(n, k).mode = "RW"
  BY <1>1, StoreIs, RawIs DEF AllTasks, OwnTask
<1>5. /\ CheckoutOf(n).dst = Worktree(Repo, n) /\ CheckoutOf(n).src = Worktree(Repo, n) /\ CheckoutOf(n).mode = "RW"
      /\ ~ Setup.bare => CheckoutOf(n) \in Range(Raw(n, k))
  BY <1>1, CheckoutAre, RawIs DEF CheckoutOf
<1> HIDE DEF Key
<1>6. /\ Within(Hatchery(Repo), Repo) /\ Len(Repo) < Len(Hatchery(Repo))
  BY <1>1, BelowRoot
<1>7. ASSUME NEW x \in U
      PROVE  /\ \A p \in {Worktree(Repo, x), TaskAt(Repo, x), DockerYaml(Repo)} :
                   /\ p \in Seq(U) /\ ~ Within(p, Git(Repo)) /\ Within(p, Repo) /\ Len(Repo) < Len(p)
                   /\ Within(p, Hatchery(Repo)) /\ Len(Hatchery(Repo)) < Len(p) /\ Within(p, p)
             /\ Within(Worktree(Repo, x), Worktree(Repo, n)) <=> x = n
             /\ Within(TaskAt(Repo, x), TaskAt(Repo, Stem(k))) <=> x = Stem(k)
             /\ ~ Within(Worktree(Repo, x), TaskAt(Repo, Stem(k)))
             /\ ~ Within(TaskAt(Repo, x), Worktree(Repo, n))
             /\ ~ Within(DockerYaml(Repo), TaskAt(Repo, Stem(k)))
             /\ ~ Within(DockerYaml(Repo), Worktree(Repo, n))
  <2>1. /\ {Worktree(Repo, x), TaskAt(Repo, x), DockerYaml(Repo)} \subseteq Seq(U)
        /\ \A p \in {Worktree(Repo, x), TaskAt(Repo, x), DockerYaml(Repo)} :
              /\ ~ Within(p, Git(Repo)) /\ Within(p, Repo) /\ Len(Repo) < Len(p)
              /\ Within(p, Hatchery(Repo)) /\ Len(Hatchery(Repo)) < Len(p)
    BY <1>1, BelowRoot
  <2>2. \A p \in {Worktree(Repo, x), TaskAt(Repo, x), DockerYaml(Repo)} : p \in Seq(U) /\ Within(p, p)
    BY <2>1, WithinSame
  <2>3. /\ Within(Worktree(Repo, x), Worktree(Repo, n)) <=> x = n
        /\ ~ Within(TaskAt(Repo, x), Worktree(Repo, n))
        /\ ~ Within(DockerYaml(Repo), Worktree(Repo, n))
    BY <1>1, BelowRoot
  <2>4. /\ Within(TaskAt(Repo, x), TaskAt(Repo, Stem(k))) <=> x = Stem(k)
        /\ ~ Within(Worktree(Repo, x), TaskAt(Repo, Stem(k)))
        /\ ~ Within(DockerYaml(Repo), TaskAt(Repo, Stem(k)))
    BY <1>1, BelowRoot
  <2> QED BY <2>1, <2>2, <2>3, <2>4
<1>8. ASSUME NEW p \in Seq(U), ~ Within(p, Git(Repo)), Within(p, Hatchery(Repo)),
             ~ Within(p, Worktree(Repo, n)), ~ Within(p, TaskAt(Repo, Stem(k)))
      PROVE  ~ Writable(MountsFor(n, k), p)
  <2>1. \A m \in {CheckoutOf(n), AllTasks, OwnTask(n, k)} :
               Within(p, m.dst) => Len(m.dst) < Len(AllTasks.dst) \/ m = AllTasks
    BY <1>4, <1>5, <1>8
  <2>2. Writable(MountsFor(n, k), p) <=> AllTasks.mode = "RW" /\ AllTasks.src = AllTasks.dst
    BY <1>4, <1>6, <1>8, <2>1, RepoTop
  <2> QED BY <1>4, <2>2
<1>9. ASSUME NEW l \in Key
      PROVE  Writable(MountsFor(n, k), TaskDir(n, l)) <=> Stem(l) = Stem(k)
  <2>1. TaskDir(n, l) = TaskAt(Repo, Stem(l)) /\ Stem(l) \in U
    BY <1>2
  <2> DEFINE p == TaskAt(Repo, Stem(l))
  <2>2. /\ p \in Seq(U) /\ ~ Within(p, Git(Repo)) /\ Within(p, Hatchery(Repo))
        /\ ~ Within(p, Worktree(Repo, n)) /\ Within(p, Repo) /\ Len(Repo) < Len(p) /\ Within(p, p)
        /\ Len(Hatchery(Repo)) < Len(p)
        /\ Within(p, TaskAt(Repo, Stem(k))) <=> Stem(l) = Stem(k)
    BY <1>7, <2>1
  <2>3. CASE Stem(l) = Stem(k)
    <3>1. p = OwnTask(n, k).dst
      BY <1>4, <2>3
    <3> HIDE DEF p
    <3>2. \A m \in {CheckoutOf(n), AllTasks, OwnTask(n, k)} :
               Within(p, m.dst) => Len(m.dst) < Len(OwnTask(n, k).dst) \/ m = OwnTask(n, k)
      BY <1>4, <1>5, <2>2, <3>1
    <3>3. Writable(MountsFor(n, k), p) <=>
             OwnTask(n, k).mode = "RW" /\ OwnTask(n, k).src = OwnTask(n, k).dst
      BY <1>4, <2>2, <3>1, <3>2, RepoTop
    <3> QED BY <1>4, <2>1, <2>3, <3>3 DEF p
  <2>4. CASE Stem(l) # Stem(k)
    <3> HIDE DEF p
    <3>1. ~ Writable(MountsFor(n, k), p)
      BY <1>8, <2>2, <2>4
    <3> QED BY <2>1, <2>4, <3>1 DEF p
  <2> QED BY <2>3, <2>4
<1>10. ASSUME ~ Setup.bare, NEW m \in TaskNames
       PROVE  Writable(MountsFor(n, k), Worktree(Repo, m)) <=> m = n
  <2> DEFINE p == Worktree(Repo, m)
  <2>1. /\ p \in Seq(U) /\ ~ Within(p, Git(Repo)) /\ Within(p, Hatchery(Repo))
        /\ ~ Within(p, TaskAt(Repo, Stem(k))) /\ Within(p, Repo) /\ Len(Repo) < Len(p) /\ Within(p, p)
        /\ Len(Hatchery(Repo)) < Len(p)
        /\ Within(p, Worktree(Repo, n)) <=> m = n
    <3>1. m \in U
      BY <1>3
    <3> QED BY <1>7, <3>1
  <2>2. CASE m = n
    <3>1. p = CheckoutOf(n).dst
      BY <1>5, <2>2
    <3> HIDE DEF p
    <3>2. \A x \in {CheckoutOf(n), AllTasks, OwnTask(n, k)} :
               Within(p, x.dst) => Len(x.dst) < Len(CheckoutOf(n).dst) \/ x = CheckoutOf(n)
      BY <1>4, <1>5, <2>1, <3>1
    <3>3. Writable(MountsFor(n, k), p) <=> CheckoutOf(n).mode = "RW" /\ CheckoutOf(n).src = CheckoutOf(n).dst
      BY <1>5, <1>10, <2>1, <3>1, <3>2, RepoTop
    <3> QED BY <1>5, <2>2, <3>3 DEF p
  <2>3. CASE m # n
    <3> HIDE DEF p
    <3>1. ~ Writable(MountsFor(n, k), p)
      BY <1>8, <2>1, <2>3
    <3> QED BY <2>3, <3>1 DEF p
  <2> QED BY <2>2, <2>3
<1>11. ~ Writable(MountsFor(n, k), Append(Hatchery(Repo), "docker.yaml"))
  <2>1. DockerYaml(Repo) = Append(Hatchery(Repo), "docker.yaml")
    BY DEF DockerYaml
  <2>2. ~ Writable(MountsFor(n, k), DockerYaml(Repo))
    BY <1>1, <1>7, <1>8
  <2> QED BY <2>1, <2>2
<1> QED BY <1>9, <1>10, <1>11

LEMMA EntryTop ==
    ASSUME NEW U, NEW n, NEW k, LaunchMounts(U, n, k), NEW i \in DOMAIN Setup.includes,
           NEW p \in Seq(U), NEW top \in Range(EntryMounts(n, Setup.includes[i])),
           Within(p, top.dst),
           \A m \in Range(EntryMounts(n, Setup.includes[i])) :
               Within(p, m.dst) => Len(m.dst) < Len(top.dst) \/ SameMount(m, top)
    PROVE  Writable(MountsFor(n, k), p) <=> top.mode = "RW" /\ top.src = top.dst
<1> DEFINE e == Setup.includes[i]
<1>1. /\ Instance(Setup) /\ Typed(Setup, U) /\ Separate(Setup) /\ n \in U
      /\ System \subseteq Seq(U) /\ LinksOver(U, Setup.links)
  BY LaunchedIs
<1>2. Raw(n, k) \in Seq(MountsOver(U))
  BY RawIs
<1>3. e \in Range(Setup.includes)
  BY DEF Range
<1>4. /\ e.path \in Seq(U) /\ e.path \in Roots(Setup)
      /\ \A m \in Range(EntryMounts(n, e)) : Within(m.dst, e.path)
  BY <1>1, <1>3, EntryIs
<1>5. \A s \in System : ~ Within(s, e.path) /\ ~ Within(e.path, s)
  BY <1>1, <1>4, SeparateIs
<1>6. top \in Range(Raw(n, k)) /\ Within(top.dst, e.path)
  <2>1. i \in 1..Len(Setup.includes)
    BY <1>1, IncludedAre
  <2>2. top \in Range(IncludedMounts(n))
    BY <1>1, <2>1, IncludedAre
  <2> QED BY <1>4, <2>2, RawIs
<1>7. \A m \in Range(Raw(n, k)) : Within(m.dst, e.path) /\ Within(p, m.dst) =>
               Len(m.dst) < Len(top.dst) \/ SameMount(m, top)
  BY InIncluded
<1> QED BY <1>1, <1>2, <1>4, <1>5, <1>6, <1>7, RootServed, MountsForIs

LEMMA EntryServed ==
    ASSUME NEW U, NEW n, NEW k, LaunchMounts(U, n, k), NEW i \in DOMAIN Setup.includes
    PROVE  LET e == Setup.includes[i]
           IN  /\ Writable(MountsFor(n, k), Append(e.path, "src")) <=>
                     e.mode = "rw" \/ (e.mode = "worktree" /\ ~ Isolated1(e))
               /\ \A m \in TaskNames : Isolated1(e) =>
                     (Writable(MountsFor(n, k), Worktree(e.path, m)) <=> m = n)
<1> DEFINE e == Setup.includes[i]
           whole == Mirror(e.path, "RO")
           work == Mirror(Worktree(e.path, n), "RW")
           sole == Mirror(e.path, IF e.mode = "ro" THEN "RO" ELSE "RW")
<1>1. Instance(Setup) /\ Typed(Setup, U) /\ n \in U /\ OwnParts \subseteq U
  BY LaunchedIs
<1>2. e \in Range(Setup.includes)
  BY DEF Range
<1>3. TaskNames \subseteq U
  BY <1>1 DEF Typed
<1>4. /\ e.path \in Seq(U) /\ e.mode \in {"worktree", "rw", "ro"}
      /\ (Isolated1(e) => e.mode = "worktree")
      /\ Isolated1(e) => /\ whole \in Range(EntryMounts(n, e)) /\ work \in Range(EntryMounts(n, e))
                         /\ \A m \in Range(EntryMounts(n, e)) :
                               m = whole \/ m = work \/ Within(m.dst, Git(e.path))
      /\ ~ Isolated1(e) => Range(EntryMounts(n, e)) = {sole}
  BY <1>1, <1>2, EntryIs
<1>5. /\ e.path \in Seq(U) /\ Worktree(e.path, n) \in Seq(U) /\ Git(e.path) \in Seq(U)
      /\ Within(e.path, e.path)
  BY <1>1, <1>4, BelowRoot
<1>6. /\ whole.dst = e.path /\ whole.src = e.path /\ whole.mode = "RO"
      /\ work.dst = Worktree(e.path, n) /\ work.src = Worktree(e.path, n) /\ work.mode = "RW"
      /\ sole.dst = e.path /\ sole.src = e.path /\ sole.mode = IF e.mode = "ro" THEN "RO" ELSE "RW"
  BY DEF Mirror, Bind
<1>7. \A m : SameMount(m, m)
  BY DEF SameMount
<1>8. \A m \in Range(EntryMounts(n, e)) : m.dst \in Seq(U)
  <2>1. EntryMounts(n, e) \in Seq(MountsOver(U))
    BY <1>1, <1>2, EntryIs
  <2>2. \A m \in Range(EntryMounts(n, e)) : m \in MountsOver(U)
    BY <2>1 DEF Range
  <2> QED BY <2>2, MountFacts
<1> HIDE DEF whole, work, sole
<1>9. ASSUME NEW x \in U
      PROVE  /\ \A p \in {Worktree(e.path, x), Source(e.path)} :
                   p \in Seq(U) /\ Within(p, e.path) /\ ~ Within(p, Git(e.path)) /\ Len(e.path) < Len(p)
             /\ Within(Worktree(e.path, x), Worktree(e.path, n)) <=> x = n
             /\ ~ Within(Source(e.path), Worktree(e.path, n))
  <2> DEFINE r == e.path
  <2>1. r \in Seq(U)
    BY <1>4
  <2> HIDE DEF r
  <2>2. /\ {Worktree(r, x), Source(r)} \subseteq Seq(U)
        /\ \A p \in {Worktree(r, x), Source(r)} :
              Within(p, r) /\ ~ Within(p, Git(r)) /\ Len(r) < Len(p)
    BY <1>1, <2>1, BelowRoot
  <2>3. /\ Within(Worktree(r, x), Worktree(r, n)) <=> x = n
        /\ ~ Within(Source(r), Worktree(r, n))
    BY <1>1, <2>1, BelowRoot
  <2> QED BY <2>2, <2>3 DEF r
<1>10. ASSUME Isolated1(e), NEW p \in Seq(U), Within(p, e.path), ~ Within(p, Git(e.path)),
              ~ Within(p, Worktree(e.path, n))
       PROVE  ~ Writable(MountsFor(n, k), p)
  <2>1. \A m \in Range(EntryMounts(n, e)) :
               Within(p, m.dst) => Len(m.dst) < Len(whole.dst) \/ SameMount(m, whole)
    <3>1. ASSUME NEW m \in Range(EntryMounts(n, e)), Within(p, m.dst)
          PROVE  m = whole
      <4>1. m = whole \/ m = work \/ Within(m.dst, Git(e.path))
        BY <1>4, <1>10
      <4>2. ~ Within(m.dst, Git(e.path))
        BY <1>5, <1>8, <1>10, <3>1, WithinWithin
      <4> QED BY <1>6, <1>10, <3>1, <4>1, <4>2
    <3> QED BY <1>7, <3>1
  <2>2. Writable(MountsFor(n, k), p) <=> whole.mode = "RW" /\ whole.src = whole.dst
    BY <1>4, <1>6, <1>10, <2>1, EntryTop
  <2> QED BY <1>6, <2>2
<1>11. Writable(MountsFor(n, k), Source(e.path)) <=>
           e.mode = "rw" \/ (e.mode = "worktree" /\ ~ Isolated1(e))
  <2>1. /\ Source(e.path) \in Seq(U) /\ Within(Source(e.path), e.path)
        /\ ~ Within(Source(e.path), Git(e.path)) /\ ~ Within(Source(e.path), Worktree(e.path, n))
    BY <1>1, <1>9
  <2>2. CASE Isolated1(e)
    <3>1. ~ Writable(MountsFor(n, k), Source(e.path))
      BY <1>10, <2>1, <2>2
    <3> QED BY <1>4, <2>2, <3>1
  <2>3. CASE ~ Isolated1(e)
    <3>1. \A m \in Range(EntryMounts(n, e)) :
               Within(Source(e.path), m.dst) => Len(m.dst) < Len(sole.dst) \/ SameMount(m, sole)
      BY <1>4, <1>7, <2>3
    <3>2. sole \in Range(EntryMounts(n, e)) /\ Within(Source(e.path), sole.dst)
      BY <1>4, <1>6, <2>1, <2>3
    <3>3. Writable(MountsFor(n, k), Source(e.path)) <=> sole.mode = "RW" /\ sole.src = sole.dst
      BY <2>1, <3>1, <3>2, EntryTop
    <3> QED BY <1>4, <1>6, <2>3, <3>3
  <2> QED BY <2>2, <2>3
<1>12. ASSUME NEW m \in TaskNames, Isolated1(e)
       PROVE  Writable(MountsFor(n, k), Worktree(e.path, m)) <=> m = n
  <2> DEFINE p == Worktree(e.path, m)
  <2>1. /\ p \in Seq(U) /\ Within(p, e.path) /\ ~ Within(p, Git(e.path)) /\ Len(e.path) < Len(p)
        /\ Within(p, Worktree(e.path, n)) <=> m = n
    <3>1. m \in U
      BY <1>3
    <3> QED BY <1>9, <3>1
  <2>2. CASE m = n
    <3>1. p = work.dst /\ Within(p, work.dst)
      BY <1>6, <2>1, <2>2
    <3> HIDE DEF p
    <3>2. \A x \in Range(EntryMounts(n, e)) :
               Within(p, x.dst) => Len(x.dst) < Len(work.dst) \/ SameMount(x, work)
      <4>1. ASSUME NEW x \in Range(EntryMounts(n, e)), Within(p, x.dst)
            PROVE  Len(x.dst) < Len(work.dst) \/ x = work
        <5>1. x = whole \/ x = work \/ Within(x.dst, Git(e.path))
          BY <1>4, <1>12
        <5>2. ~ Within(x.dst, Git(e.path))
          BY <1>5, <1>8, <2>1, <4>1, WithinWithin
        <5>3. Len(whole.dst) < Len(work.dst)
          BY <1>6, <2>1, <3>1
        <5> QED BY <5>1, <5>2, <5>3
      <4> QED BY <1>7, <4>1
    <3>3. Writable(MountsFor(n, k), p) <=> work.mode = "RW" /\ work.src = work.dst
      BY <1>4, <1>12, <2>1, <3>1, <3>2, EntryTop
    <3> QED BY <1>6, <2>2, <3>3 DEF p
  <2>3. CASE m # n
    <3> HIDE DEF p
    <3>1. ~ Writable(MountsFor(n, k), p)
      BY <1>10, <1>12, <2>1, <2>3
    <3> QED BY <2>3, <3>1 DEF p
  <2> QED BY <2>2, <2>3
<1> QED BY <1>11, <1>12 DEF Source

\* In every state of the invariant the files are their own, if the repositories are apart.
LEMMA OwnFilesHold ==
    ASSUME RecordsInv, Separate(Setup)
    PROVE  OwnFiles
<1>1. OwnRecords /\ setup \in DOMAIN Setups /\ DOMAIN records \subseteq Key
  BY InvIs DEF RecordsInv
<1>2. PICK U : Typed(Setup, U)
  BY <1>1, SetupFacts, IsTyped
<1>3. ASSUME NEW n \in TaskNames, task[n] = "running"
      PROVE  /\ \A k \in DOMAIN records :
                k.layout = "dir" /\ Writable(mounts[n], TaskDir(n, k)) =>
                    k.name = n \/ EndsIn(k.name, n)
             /\ (\A m \in Setup.names : ~EndsIn(m, n)) =>
                   \E k \in DOMAIN records : k.name = n /\ Writable(mounts[n], TaskDir(n, k))
             /\ Setup.bare \/ \A m \in TaskNames : Writable(mounts[n], Worktree(Repo, m)) <=> m = n
             /\ ~Writable(mounts[n], Append(Hatchery(Repo), "docker.yaml"))
             /\ \A i \in DOMAIN Setup.includes :
                   LET e == Setup.includes[i]
                   IN  /\ Writable(mounts[n], Append(e.path, "src")) <=>
                             e.mode = "rw" \/ (e.mode = "worktree" /\ ~Isolated1(e))
                       /\ \A m \in TaskNames : Isolated1(e) =>
                             (Writable(mounts[n], Worktree(e.path, m)) <=> m = n)
  <2>1. PICK k \in DOMAIN records : /\ k.layout = "dir" /\ EndsIn(Stem(k), n)
                                    /\ mounts[n] = MountsFor(n, k)
    BY <1>3 DEF RecordsInv
  <2>2. k \in Key /\ LaunchMounts(U, n, k) /\ k.name \in Setup.names
    BY <1>1, <1>2, <2>1 DEF LaunchMounts, RecordsInv
  <2>3. n = k.name \/ EndsIn(k.name, n)
    BY <2>1, <2>2, StemEnds
  <2> DEFINE L == MountsFor(n, k)
  <2>4. /\ \A l \in Key : Writable(L, TaskDir(n, l)) <=> Stem(l) = Stem(k)
        /\ ~ Setup.bare => \A m \in TaskNames : Writable(L, Worktree(Repo, m)) <=> m = n
        /\ ~ Writable(L, Append(Hatchery(Repo), "docker.yaml"))
    BY <2>2, RepoServed
  <2>5. \A i \in DOMAIN Setup.includes :
             LET e == Setup.includes[i]
             IN  /\ Writable(L, Append(e.path, "src")) <=>
                       e.mode = "rw" \/ (e.mode = "worktree" /\ ~Isolated1(e))
                 /\ \A m \in TaskNames : Isolated1(e) =>
                       (Writable(L, Worktree(e.path, m)) <=> m = n)
    BY <2>2, EntryServed
  <2> HIDE DEF L
  <2>6. mounts[n] = L
    BY <2>1 DEF L
  <2>7. ASSUME NEW l \in DOMAIN records, Writable(L, TaskDir(n, l))
        PROVE  l.name = n \/ EndsIn(l.name, n)
    <3>1. l \in Key /\ Stem(l) = Stem(k)
      BY <1>1, <2>4, <2>7
    <3>2. l.name = k.name
      BY <2>2, <3>1, StemDetermines
    <3> QED BY <2>3, <3>2
  <2>8. (\A m \in Setup.names : ~EndsIn(m, n)) =>
            \E l \in DOMAIN records : l.name = n /\ Writable(L, TaskDir(n, l))
    BY <2>2, <2>3, <2>4
  <2> QED BY <2>4, <2>5, <2>6, <2>7, <2>8
<1> QED BY <1>1, <1>3 DEF OwnFiles

LEMMA OwnFilesAlways ==
    ASSUME \A u \in DOMAIN Setups : Separate(Setups[u])
    PROVE  RecordsInv => OwnFiles
<1>1. SUFFICES ASSUME RecordsInv
               PROVE  OwnFiles
  OBVIOUS
<1>2. Separate(Setup)
  BY <1>1, InvIs DEF Setup
<1> QED BY <1>1, <1>2, OwnFilesHold

\* A container can write the worktree of its own task, and its record unless a name
\* ends in its own; of an included repository what the entry's mode says; no other
\* task's worktree, and no other's record but of a name that its own is the end of.
THEOREM FilesAreOwn ==
    ASSUME \A u \in DOMAIN Setups : Separate(Setups[u])
    PROVE  RecordsSpec => []OwnFiles
<1>1. RecordsInv => OwnFiles
  BY OwnFilesAlways
<1> QED BY <1>1, RecordsAlways, PTL
-----------------------------------------------------------------------------
(* The files of the sandbox.                                               *)

Steps == Ended \cup {"seed", "prepare", "editor", "ask", "unlink", "accept",
                     "lookup", "runtime", "build", "revert", "add", "commit"}

\* The steps of the three commands.
PlacedAt(t) ==
    /\ at[t] \in {"seed", "prepare", "ask", "unlink", "accept"} => verb[t] = "edit"
    /\ at[t] = "editor" => verb[t] \in {"edit", "shell"}
    /\ at[t] \in {"lookup", "runtime", "build", "revert"} => verb[t] = "update"
    /\ at[t] = "undone" => verb[t] # "shell"
    /\ at[t] = "add" /\ verb[t] = "edit" => commits[t]

Placed == \A t \in Terms : PlacedAt(t)

\* While a command is alone, the others have ended.
Sole == \A t, u \in Terms : alone[t] /\ u # t => at[u] \in Ended

\* What a command could put back is what it began with.
Undoable(t) ==
    /\ at[t] = "seed" => sandbox = NoFile /\ began[t] = NoFile /\ backup = NoFile
    /\ at[t] \in {"prepare", "editor", "ask"} /\ verb[t] = "edit" => backup = began[t]
    /\ at[t] \in {"lookup", "runtime", "build", "revert"} => old[t] = began[t]
    /\ at[t] \in {"unlink", "undone", "lookup"} => sandbox = began[t]
    /\ at[t] = "undone" /\ verb[t] = "edit" => backup = NoFile

\* What a command has accepted is what is there.
Acceptable(t) ==
    /\ at[t] \in {"lookup", "accept", "add", "commit", "done"} /\ verb[t] # "shell" =>
          sandbox = checked[t]
    /\ at[t] \in {"accept", "add", "commit", "done"} /\ verb[t] = "edit" =>
          (kind \in Validated => sandbox.valid)
    /\ at[t] \in {"add", "commit", "done"} /\ verb[t] = "edit" => backup = NoFile
    /\ at[t] = "commit" => index = sandbox
    /\ at[t] = "done" /\ verb[t] = "edit" /\ commits[t] => head = sandbox

FilesInv == /\ FilesTypeOK /\ Placed /\ Sole
            /\ \A t \in Terms : alone[t] => Undoable(t) /\ Acceptable(t)
-----------------------------------------------------------------------------
LEMMA NoFileType == NoFile \in Contents /\ \A pin \in 0 .. MaxPin : Template(pin) \in Contents
BY SandboxFilesAssumption DEF NoFile, Template, Contents

LEMMA FilesInitInv == FilesInit => FilesInv
BY NoFileType, SandboxFilesAssumption
   DEF FilesInit, FilesInv, FilesTypeOK, Placed, PlacedAt, Sole, Undoable, Acceptable, Ended

\* Every step keeps the types.
LEMMA TypeKeeps ==
    ASSUME FilesTypeOK, [FilesNext]_filesVars
    PROVE  FilesTypeOK'
<1> USE NoFileType, SandboxFilesAssumption
<1>1. CASE Publish
  BY <1>1 DEF Publish, FilesTypeOK, repository, observed
<1>2. CASE FileGone
  BY <1>2 DEF FileGone, FilesTypeOK
<1>3. ASSUME NEW t \in Terms, NEW c \in BOOLEAN,
             EditBegins(t, c) \/ UpdateBegins(t, c) \/ ShellBegins(t, c)
      PROVE  FilesTypeOK'
  <2>1. CASE EditBegins(t, c)
    BY <2>1 DEF EditBegins, Begins, Go, FilesTypeOK
  <2>2. CASE UpdateBegins(t, c)
    BY <2>2 DEF UpdateBegins, Begins, Go, FilesTypeOK
  <2>3. CASE ShellBegins(t, c)
    <3>1. sandbox' \in Contents
      <4>1. sandbox \in Contents /\ 0 \in 0 .. MaxPin /\ published \in 0 .. MaxPin
        BY DEF FilesTypeOK
      <4> QED BY <2>3, <4>1 DEF ShellBegins
    <3> QED BY <2>3, <3>1 DEF ShellBegins, Begins, Go, FilesTypeOK, Ended
  <2> QED BY <1>3, <2>1, <2>2, <2>3
<1>4. ASSUME NEW t \in Terms, Seed(t)
      PROVE  FilesTypeOK'
  <2>1. sandbox' \in Contents
    <3>1. sandbox \in Contents /\ 0 \in 0 .. MaxPin /\ published \in 0 .. MaxPin
      BY DEF FilesTypeOK
    <3> QED BY <1>4, <3>1 DEF Seed
  <2> QED BY <1>4, <2>1 DEF Seed, Go, FilesTypeOK, Ended, repository, observed
<1>5. ASSUME NEW t \in Terms, Prepare(t)
      PROVE  FilesTypeOK'
  <2>1. sandbox' \in Contents
    <3>1. sandbox \in Contents /\ 0 \in 0 .. MaxPin
      BY DEF FilesTypeOK
    <3> QED BY <1>5, <3>1 DEF Prepare
  <2> QED BY <1>5, <2>1, ZenonT(30) DEF Prepare, Go, FilesTypeOK, Ended, repository, observed
<1>6. ASSUME NEW t \in Terms, NEW v \in BOOLEAN, EditorSaves(t, v)
      PROVE  FilesTypeOK'
  <2>1. saves' \in 0 .. MaxEdits
    BY <1>6 DEF EditorSaves, FilesTypeOK
  <2>2. sandbox' \in Contents
    BY <1>6, <2>1 DEF EditorSaves, FilesTypeOK, Contents
  <2> QED BY <1>6, <2>1, <2>2 DEF EditorSaves, FilesTypeOK, repository, observed
<1>7. ASSUME NEW t \in Terms, EditorCloses(t)
      PROVE  FilesTypeOK'
  <2>1. checked' \in [Terms -> Contents]
    BY <1>7 DEF EditorCloses, FilesTypeOK
  <2> QED BY <1>7, <2>1 DEF EditorCloses, Go, FilesTypeOK, Ended, repository
<1>8. ASSUME NEW t \in Terms,
             ContinueEditing(t) \/ GiveUp(t) \/ UnlinkBackup(t) \/ Accept(t)
      PROVE  FilesTypeOK'
  BY <1>8 DEF ContinueEditing, GiveUp, UnlinkBackup, Accept, Go, FilesTypeOK, Ended,
              repository, observed
<1>9. ASSUME NEW t \in Terms, WritePin(t)
      PROVE  FilesTypeOK'
  <2>1. sandbox' \in Contents
    BY <1>9 DEF WritePin, FilesTypeOK, Contents
  <2> QED BY <1>9, <2>1 DEF WritePin, Go, FilesTypeOK, Ended, repository, observed
<1>10. ASSUME NEW t \in Terms, Build(t)
       PROVE  FilesTypeOK'
  <2>1. checked' \in [Terms -> Contents]
    BY <1>10 DEF Build, FilesTypeOK
  <2> QED BY <1>10, <2>1 DEF Build, Go, FilesTypeOK, Ended, repository
<1>11. ASSUME NEW t \in Terms, DetectRuntime(t) \/ Revert(t) \/ GitAdd(t) \/ GitCommit(t)
       PROVE  FilesTypeOK'
  BY <1>11 DEF DetectRuntime, Revert, GitAdd, GitCommit, Go, FilesTypeOK, Ended,
               repository, observed
<1>12. ASSUME NEW t \in Terms, Leave(t)
       PROVE  FilesTypeOK'
  BY <1>12 DEF Leave, Go, FilesTypeOK, Ended, repository
<1>13. CASE UNCHANGED filesVars
  BY <1>13 DEF filesVars, FilesTypeOK, repository, observed
<1> QED BY <1>1, <1>2, <1>3, <1>4, <1>5, <1>6, <1>7, <1>8, <1>9, <1>10, <1>11, <1>12, <1>13
           DEF FilesNext

\* What a step of one terminal's command does for the rest of the invariant: if any
\* other one's command is alone then this one has ended, so only its own part counts.
OwnStep(t) ==
    /\ at[t] \notin Ended
    /\ kind' = kind
    /\ \A u \in Terms \ {t} : /\ at'[u] = at[u] /\ verb'[u] = verb[u]
                              /\ commits'[u] = commits[u] /\ alone'[u] = alone[u]
    /\ PlacedAt(t)'
    /\ alone'[t] => alone[t] /\ Undoable(t)' /\ Acceptable(t)'

LEMMA OwnStepKeeps ==
    ASSUME FilesInv, FilesTypeOK', NEW t \in Terms, OwnStep(t)
    PROVE  FilesInv'
<1>1. \A u \in Terms \ {t} : ~alone'[u]
  BY DEF FilesInv, Sole, OwnStep
<1>2. Sole'
  BY <1>1 DEF FilesInv, Sole, OwnStep
<1>3. Placed'
  BY DEF FilesInv, Placed, PlacedAt, OwnStep
<1> QED BY <1>1, <1>2, <1>3 DEF FilesInv, OwnStep

\* The environment touches no file while a command runs alone.
LEMMA AroundKeeps ==
    ASSUME FilesInv, FilesTypeOK', Publish \/ FileGone
    PROVE  FilesInv'
<1>1. CASE Publish
  <2>1. ASSUME NEW t \in Terms, alone'[t]
        PROVE  Undoable(t)' /\ Acceptable(t)'
    BY <1>1, <2>1 DEF FilesInv, Publish, Undoable, Acceptable, repository, observed
  <2> QED BY <1>1, <2>1 DEF FilesInv, Publish, Placed, PlacedAt, Sole, repository, observed
<1>2. CASE FileGone
  <2>1. \A t \in Terms : ~alone'[t]
    BY <1>2 DEF FileGone
  <2> QED BY <1>2, <2>1 DEF FilesInv, FileGone, Placed, PlacedAt, Sole
<1> QED BY <1>1, <1>2

\* A command begins.
LEMMA BeginsKeeps ==
    ASSUME FilesInv, FilesTypeOK', NEW t \in Terms, NEW commit \in BOOLEAN,
           EditBegins(t, commit) \/ UpdateBegins(t, commit) \/ ShellBegins(t, commit)
    PROVE  FilesInv'
<1>1. /\ \A u \in Terms \ {t} : /\ ~alone'[u] /\ at'[u] = at[u] /\ verb'[u] = verb[u]
                                /\ commits'[u] = commits[u]
      /\ alone'[t] => /\ \A u \in Terms \ {t} : at[u] \in Ended
                      /\ sandbox = NoFile => backup = NoFile
      /\ began'[t] = sandbox /\ checked'[t] = sandbox
  BY DEF EditBegins, UpdateBegins, ShellBegins, Begins, Go, FilesInv, FilesTypeOK
<1>2. Sole'
  BY <1>1 DEF Sole
<1>3. CASE EditBegins(t, commit)
  <2>1. /\ verb'[t] = "edit" /\ sandbox' = sandbox
        /\ \/ sandbox = NoFile /\ at'[t] = "seed" /\ backup' = backup
           \/ sandbox # NoFile /\ at'[t] = "prepare" /\ backup' = sandbox
    BY <1>3 DEF EditBegins, Begins, Go, FilesInv, FilesTypeOK
  <2>2. Placed'
    BY <1>1, <2>1 DEF FilesInv, Placed, PlacedAt
  <2>3. alone'[t] => Undoable(t)' /\ Acceptable(t)'
    BY <1>1, <2>1 DEF Undoable, Acceptable
  <2> QED BY <1>1, <1>2, <2>2, <2>3 DEF FilesInv
<1>4. CASE UpdateBegins(t, commit)
  <2>1. verb'[t] = "update" /\ sandbox' = sandbox /\ at'[t] = "lookup" /\ old'[t] = sandbox
    BY <1>4 DEF UpdateBegins, Begins, Go, FilesInv, FilesTypeOK
  <2>2. Placed'
    BY <1>1, <2>1 DEF FilesInv, Placed, PlacedAt
  <2>3. alone'[t] => Undoable(t)' /\ Acceptable(t)'
    BY <1>1, <2>1 DEF Undoable, Acceptable
  <2> QED BY <1>1, <1>2, <2>2, <2>3 DEF FilesInv
<1>5. CASE ShellBegins(t, commit)
  <2>1. verb'[t] = "shell" /\ at'[t] \in {"editor", "add", "done"}
    BY <1>5 DEF ShellBegins, Begins, Go, FilesInv, FilesTypeOK
  <2>2. Placed'
    BY <1>1, <2>1 DEF FilesInv, Placed, PlacedAt
  <2>3. alone'[t] => Undoable(t)' /\ Acceptable(t)'
    BY <1>1, <2>1 DEF Undoable, Acceptable
  <2> QED BY <1>1, <1>2, <2>2, <2>3 DEF FilesInv
<1> QED BY <1>3, <1>4, <1>5

\* A command ends, or is ended.
LEMMA LeaveKeeps ==
    ASSUME FilesInv, FilesTypeOK', NEW t \in Terms, Leave(t)
    PROVE  FilesInv'
<1>1. /\ at'[t] = "idle" /\ ~alone'[t]
      /\ \A u \in Terms \ {t} : /\ at'[u] = at[u] /\ verb'[u] = verb[u] /\ alone'[u] = alone[u]
                               /\ commits'[u] = commits[u] /\ old'[u] = old[u]
                               /\ began'[u] = began[u] /\ checked'[u] = checked[u]
      /\ UNCHANGED <<kind, sandbox, backup, repository>>
  BY DEF Leave, Go, FilesInv, FilesTypeOK
<1>2. Placed' /\ Sole'
  BY <1>1 DEF FilesInv, Placed, PlacedAt, Sole, Ended
<1>3. ASSUME NEW u \in Terms, alone'[u]
      PROVE  Undoable(u)' /\ Acceptable(u)'
  BY <1>1, <1>3 DEF FilesInv, Undoable, Acceptable, repository
<1> QED BY <1>2, <1>3 DEF FilesInv
-----------------------------------------------------------------------------
\* edit_with_validation, from its seed to its end.
LEMMA EditSteps ==
    ASSUME FilesInv, NEW t \in Terms,
           \/ Seed(t) \/ Prepare(t) \/ EditorCloses(t) \/ ContinueEditing(t) \/ GiveUp(t)
           \/ UnlinkBackup(t) \/ Accept(t)
    PROVE  OwnStep(t)
<1> USE DEF OwnStep, Go, Ended, FilesInv, FilesTypeOK, Placed, PlacedAt, Undoable, Acceptable,
        repository, observed
<1>1. CASE Seed(t)
  BY <1>1 DEF Seed
<1>2. CASE Prepare(t)
  BY <1>2, ZenonT(30) DEF Prepare
<1>3. CASE EditorCloses(t)
  BY <1>3 DEF EditorCloses
<1>4. CASE ContinueEditing(t)
  BY <1>4 DEF ContinueEditing
<1>5. CASE GiveUp(t)
  BY <1>5 DEF GiveUp
<1>6. CASE UnlinkBackup(t)
  BY <1>6 DEF UnlinkBackup
<1>7. CASE Accept(t)
  BY <1>7 DEF Accept
<1> QED BY <1>1, <1>2, <1>3, <1>4, <1>5, <1>6, <1>7

LEMMA SaveSteps ==
    ASSUME FilesInv, NEW t \in Terms, NEW v \in BOOLEAN, EditorSaves(t, v)
    PROVE  OwnStep(t)
BY DEF EditorSaves, OwnStep, Ended, FilesInv, FilesTypeOK, Placed, PlacedAt, Undoable, Acceptable,
       repository, observed

\* update_harness, and add_and_commit at the end of any command.
LEMMA UpdateSteps ==
    ASSUME FilesInv, NEW t \in Terms,
           WritePin(t) \/ DetectRuntime(t) \/ Build(t) \/ Revert(t) \/ GitAdd(t) \/ GitCommit(t)
    PROVE  OwnStep(t)
<1> USE DEF OwnStep, Go, Ended, FilesInv, FilesTypeOK, Placed, PlacedAt, Undoable, Acceptable,
        repository, observed
<1>1. CASE WritePin(t)
  BY <1>1 DEF WritePin
<1>2. CASE DetectRuntime(t)
  BY <1>2 DEF DetectRuntime
<1>3. CASE Build(t)
  BY <1>3 DEF Build
<1>4. CASE Revert(t)
  BY <1>4 DEF Revert
<1>5. CASE GitAdd(t)
  BY <1>5 DEF GitAdd
<1>6. CASE GitCommit(t)
  BY <1>6 DEF GitCommit
<1> QED BY <1>1, <1>2, <1>3, <1>4, <1>5, <1>6

LEMMA NextInv == FilesInv /\ [FilesNext]_filesVars => FilesInv'
<1> SUFFICES ASSUME FilesInv, [FilesNext]_filesVars
             PROVE  FilesInv'
  OBVIOUS
<1>1. FilesTypeOK'
  BY TypeKeeps DEF FilesInv
<1>2. CASE Publish \/ FileGone
  BY <1>1, <1>2, AroundKeeps
<1>3. ASSUME NEW t \in Terms, NEW c \in BOOLEAN,
             EditBegins(t, c) \/ UpdateBegins(t, c) \/ ShellBegins(t, c)
      PROVE  FilesInv'
  BY <1>1, <1>3, BeginsKeeps
<1>4. ASSUME NEW t \in Terms,
             \/ Seed(t) \/ Prepare(t) \/ EditorCloses(t) \/ ContinueEditing(t) \/ GiveUp(t)
             \/ UnlinkBackup(t) \/ Accept(t)
      PROVE  FilesInv'
  BY <1>1, <1>4, EditSteps, OwnStepKeeps
<1>5. ASSUME NEW t \in Terms, NEW v \in BOOLEAN, EditorSaves(t, v)
      PROVE  FilesInv'
  BY <1>1, <1>5, SaveSteps, OwnStepKeeps
<1>6. ASSUME NEW t \in Terms,
             WritePin(t) \/ DetectRuntime(t) \/ Build(t) \/ Revert(t) \/ GitAdd(t) \/ GitCommit(t)
      PROVE  FilesInv'
  BY <1>1, <1>6, UpdateSteps, OwnStepKeeps
<1>7. ASSUME NEW t \in Terms, Leave(t)
      PROVE  FilesInv'
  BY <1>1, <1>7, LeaveKeeps
<1>8. CASE UNCHANGED filesVars
  BY <1>8 DEF filesVars, repository, observed, FilesInv, FilesTypeOK, Placed, PlacedAt, Sole,
              Undoable, Acceptable
<1> QED BY <1>2, <1>3, <1>4, <1>5, <1>6, <1>7, <1>8 DEF FilesNext

LEMMA FilesInvariance == FilesSpec => []FilesInv
BY FilesInitInv, NextInv, PTL DEF FilesSpec
-----------------------------------------------------------------------------
\* The variables of the files, of git and of the commands keep their types.
THEOREM FilesTypeCorrect == FilesSpec => []FilesTypeOK
<1>1. FilesInv => FilesTypeOK
  BY DEF FilesInv
<1> QED BY <1>1, FilesInvariance, PTL

\* A command that ran alone and ends undone has put back the file it began with; one that
\* ends done has accepted what it validated or built; neither leaves a backup of its edit.
THEOREM AllOrNothingHolds == FilesSpec => []AllOrNothing
<1>1. FilesInv => AllOrNothing
  BY DEF FilesInv, Placed, PlacedAt, Undoable, Acceptable, AllOrNothing
<1> QED BY <1>1, FilesInvariance, PTL
-----------------------------------------------------------------------------
(* All parts.  None reads or writes a variable of another.                 *)

LEMMA HostInitIs ==
    HostInit => MigrationInit /\ IncludesInit /\ RecordsInit /\ FilesInit
BY DEF HostInit

LEMMA HostStepIs ==
    [HostNext]_hostVars => /\ [MigrationNext]_migrationVars /\ [IncludesNext]_includesVars
                           /\ [RecordsNext]_recordsVars /\ [FilesNext]_filesVars
<1> SUFFICES ASSUME [HostNext]_hostVars
             PROVE  /\ [MigrationNext]_migrationVars /\ [IncludesNext]_includesVars
                    /\ [RecordsNext]_recordsVars /\ [FilesNext]_filesVars
  OBVIOUS
<1>1. CASE MigrationNext /\ UNCHANGED <<part, includesVars, recordsVars, filesVars>>
  BY <1>1
<1>2. CASE IncludesNext /\ UNCHANGED <<part, migrationVars, recordsVars, filesVars>>
  BY <1>2
<1>3. CASE RecordsNext /\ UNCHANGED <<part, migrationVars, includesVars, filesVars>>
  BY <1>3
<1>4. CASE FilesNext /\ UNCHANGED <<part, migrationVars, includesVars, recordsVars>>
  BY <1>4
<1>5. CASE UNCHANGED hostVars
  BY <1>5 DEF hostVars
<1> QED BY <1>1, <1>2, <1>3, <1>4, <1>5 DEF HostNext

\* A behaviour of the composition is one of each part.
LEMMA HostIsEach ==
    HostFairSpec => MigrationSpec /\ IncludesSpec /\ RecordsSpec /\ FilesSpec
BY HostInitIs, HostStepIs, PTL DEF HostFairSpec, MigrationSpec, IncludesSpec, RecordsSpec, FilesSpec

\* The files of the host keep their types: those of migrations, of includes, of tasks and
\* of the sandbox, whichever of them a behaviour works on.
THEOREM HostTyped == HostFairSpec => []TypeOK
<1>1. MigrationTypeOK /\ IncludesTypeOK /\ RecordsTypeOK /\ FilesTypeOK => TypeOK
  BY DEF TypeOK
<1> QED BY <1>1, HostIsEach, MigrationTyped, IncludesTyped, RecordsTyped, FilesTypeCorrect, PTL
==============================================================================
