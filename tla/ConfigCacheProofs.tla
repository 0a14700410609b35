-------------------------- MODULE ConfigCacheProofs --------------------------
(***************************************************************************)
(* Proofs about loading configuration files and about the cache of them,   *)
(* for every graph of files, every disk that others write to meanwhile,    *)
(* and every sequence of lints.                                            *)
(*                                                                         *)
(* A file object is made before those that it extends.  Everything about   *)
(* trees rests on that: Traversal has a value, an error that is below a    *)
(* file has reached it, and a base file is known from no earlier time than *)
(* the file that extends it.                                               *)
(***************************************************************************)
EXTENDS ConfigCache, FiniteSetTheorems, WellFoundedInduction, TLAPS

-----------------------------------------------------------------------------
\* Induction for a set of numbers, in place of a predicate
LEMMA SetInduction ==
  ASSUME NEW S, 0 \in S, \A n \in Nat : n \in S => n + 1 \in S
  PROVE  Nat \subseteq S
<1> DEFINE R == OpToRel(<, Nat)
           T == Nat \ S
<1>1. IsWellFoundedOn(R, Nat)
  BY NatLessThanWellFounded, Zenon
<1>2. \A x, y \in Nat : x < y => <<x, y>> \in R
  BY DEF OpToRel
<1> HIDE DEF R
<1> SUFFICES ASSUME T # {} PROVE FALSE
  OBVIOUS
<1>3. PICK x \in T : \A y \in T : ~(<<y, x>> \in R)
  BY <1>1, WFMin
<1>4. x \in Nat /\ x # 0 /\ x \notin S
  OBVIOUS
<1>5. x - 1 \in Nat /\ x - 1 < x /\ (x - 1) + 1 = x
  BY <1>4
<1>6. x - 1 \in S
  BY <1>2, <1>3, <1>4, <1>5
<1> QED  BY <1>4, <1>5, <1>6

-----------------------------------------------------------------------------
InRange(x, s) == \E k \in DOMAIN s : s[k] = x

\* What is in the concatenation of two sequences
LEMMA ConcatElements ==
  ASSUME NEW S, NEW s \in Seq(S), NEW t \in Seq(S)
  PROVE  /\ s \o t \in Seq(S)
         /\ \A x : InRange(x, s \o t) <=> InRange(x, s) \/ InRange(x, t)
<1>1. /\ s \o t \in Seq(S) /\ Len(s \o t) = Len(s) + Len(t)
      /\ Len(s) \in Nat /\ Len(t) \in Nat
      /\ DOMAIN s = 1 .. Len(s) /\ DOMAIN t = 1 .. Len(t)
      /\ DOMAIN (s \o t) = 1 .. (Len(s) + Len(t))
  OBVIOUS
<1>2. /\ \A k \in 1 .. Len(s) : (s \o t)[k] = s[k]
      /\ \A k \in 1 .. Len(t) : (s \o t)[Len(s) + k] = t[k]
  OBVIOUS
<1>3. ASSUME NEW x, NEW k \in DOMAIN (s \o t), (s \o t)[k] = x
      PROVE  InRange(x, s) \/ InRange(x, t)
  <2>1. CASE k \in 1 .. Len(s)
    BY <1>1, <1>2, <1>3, <2>1 DEF InRange
  <2>2. CASE k \notin 1 .. Len(s)
    <3>1. k - Len(s) \in 1 .. Len(t) /\ k = Len(s) + (k - Len(s))
      BY <1>1, <2>2
    <3> QED  BY <1>1, <1>2, <1>3, <3>1 DEF InRange
  <2> QED  BY <2>1, <2>2
<1>4. ASSUME NEW x, NEW k \in DOMAIN s, s[k] = x PROVE InRange(x, s \o t)
  BY <1>1, <1>2, <1>4 DEF InRange
<1>5. ASSUME NEW x, NEW k \in DOMAIN t, t[k] = x PROVE InRange(x, s \o t)
  <2>1. Len(s) + k \in DOMAIN (s \o t)
    BY <1>1
  <2> QED  BY <1>1, <1>2, <1>5, <2>1 DEF InRange
<1> QED  BY <1>1, <1>3, <1>4, <1>5 DEF InRange

\* What is in a sequence of sequences that is flattened: the loop of FlattenSeq has a
\* value, and it joins all of them.
LEMMA FlattenElements ==
  ASSUME NEW S, NEW n \in Nat, NEW s, DOMAIN s = 1 .. n, s \in Seq(Seq(S))
  PROVE  /\ FlattenSeq(s) \in Seq(S)
         /\ \A x : InRange(x, FlattenSeq(s)) <=> \E k \in 1 .. n : InRange(x, s[k])
<1> DEFINE Loop(g, m) == [i \in 1 .. m |-> IF i = 1 THEN s[i] ELSE g[i - 1] \o s[i]]
<1>1. Len(s) = n /\ \A k \in 1 .. n : s[k] \in Seq(S)
  OBVIOUS
<1>2. CASE n = 0
  <2>1. FlattenSeq(s) = s /\ s = <<>>
    BY <1>1, <1>2 DEF FlattenSeq
  <2> QED  BY <1>2, <2>1 DEF InRange
<1>3. CASE n # 0
  <2> DEFINE HasValue(m) == \E g : g = Loop(g, m)
             Has == {m \in Nat : HasValue(m)}
  <2>1. 0 \in Has
    <3> DEFINE e == [i \in 1 .. 0 |-> s]
    <3>1. e = Loop(e, 0)
      OBVIOUS
    <3> QED  BY <3>1
  <2>2. ASSUME NEW m \in Nat, m \in Has PROVE m + 1 \in Has
    <3>1. PICK g : g = Loop(g, m)
      BY <2>2
    <3> DEFINE h == Loop(g, m + 1)
    <3>2. DOMAIN h = 1 .. m + 1 /\ DOMAIN g = 1 .. m
      BY <3>1
    <3>3. ASSUME NEW i \in 1 .. m PROVE h[i] = g[i]
      <4>1. g[i] = IF i = 1 THEN s[i] ELSE g[i - 1] \o s[i]
        BY <3>1
      <4>2. i \in 1 .. m + 1
        OBVIOUS
      <4> QED  BY <4>1, <4>2
    <3>4. ASSUME NEW i \in 1 .. m + 1
          PROVE  h[i] = IF i = 1 THEN s[i] ELSE h[i - 1] \o s[i]
      <4>1. i # 1 => i - 1 \in 1 .. m
        OBVIOUS
      <4> QED  BY <3>3, <4>1
    <3>5. h = Loop(h, m + 1)
      <4> HIDE DEF h
      <4>1. h = [i \in 1 .. m + 1 |-> h[i]]
        BY <3>2 DEF h
      <4> QED  BY <4>1, <3>4
    <3>6. HasValue(m + 1)
      <4> HIDE DEF h
      <4> QED  BY <3>5
    <3> HIDE DEF HasValue
    <3> QED  BY <3>6
  <2>3. Nat \subseteq Has
    <3> HIDE DEF Has
    <3> QED  BY <2>1, <2>2, SetInduction
  <2>4. \E g : g = Loop(g, n)
    BY <2>3
  <2> DEFINE flatten == CHOOSE g : g = Loop(g, n)
  <2>5. flatten = Loop(flatten, n)
    BY <2>4
  <2>6. FlattenSeq(s) = flatten[n]
    BY <1>1, <1>3 DEF FlattenSeq
  <2> HIDE DEF flatten
  <2>7. \A i \in 1 .. n : flatten[i] = IF i = 1 THEN s[i] ELSE flatten[i - 1] \o s[i]
    BY <2>5
  <2> DEFINE Joined(m) == /\ flatten[m] \in Seq(S)
                          /\ \A x : InRange(x, flatten[m]) <=> \E k \in 1 .. m : InRange(x, s[k])
             Joins == {m \in Nat : m \in 1 .. n => Joined(m)}
  <2>8. 0 \in Joins
    OBVIOUS
  <2>9. ASSUME NEW m \in Nat, m \in Joins PROVE m + 1 \in Joins
    <3> SUFFICES ASSUME m + 1 \in 1 .. n PROVE Joined(m + 1)
      <4> HIDE DEF Joined
      <4> QED  OBVIOUS
    <3>1. CASE m = 0
      <4>1. flatten[m + 1] = s[1] /\ m + 1 = 1 /\ 1 .. m + 1 = {1}
        BY <2>7, <3>1
      <4> QED  BY <1>1, <4>1
    <3>2. CASE m # 0
      <4>1. m \in 1 .. n /\ m + 1 # 1 /\ (m + 1) - 1 = m
        BY <3>2
      <4>2. flatten[m + 1] = flatten[m] \o s[m + 1] /\ s[m + 1] \in Seq(S)
        BY <1>1, <2>7, <4>1
      <4>3. /\ flatten[m] \in Seq(S)
            /\ \A x : InRange(x, flatten[m]) <=> \E k \in 1 .. m : InRange(x, s[k])
        <5>1. Joined(m)
          <6> HIDE DEF Joined
          <6> QED  BY <2>9, <4>1
        <5> QED  BY <5>1
      <4> DEFINE a == flatten[m]
                 b == s[m + 1]
      <4>5. /\ a \o b \in Seq(S)
            /\ \A x : InRange(x, a \o b) <=> InRange(x, a) \/ InRange(x, b)
        <5> HIDE DEF a, b
        <5>1. a \in Seq(S) /\ b \in Seq(S)
          BY <4>2, <4>3 DEF a, b
        <5> QED  BY <5>1, ConcatElements
      <4>6. \A k : k \in 1 .. m + 1 <=> k \in 1 .. m \/ k = m + 1
        OBVIOUS
      <4> QED  BY <4>2, <4>3, <4>5, <4>6
    <3> QED  BY <3>1, <3>2
  <2>10. Nat \subseteq Joins
    <3> HIDE DEF Joins
    <3> QED  BY <2>8, <2>9, SetInduction
  <2>11. Joined(n)
    <3> HIDE DEF Joined
    <3> QED  BY <1>3, <2>10
  <2> QED  BY <2>6, <2>11
<1> QED  BY <1>2, <1>3

-----------------------------------------------------------------------------
(***************************************************************************)
(* Trees of files: a base file is made after the file that extends it, so  *)
(* that the recursion of Traversal has a value, and Tree(id) is the least  *)
(* set with id in it that has the base files of what is in it.             *)
(***************************************************************************)
BasesFollow(heap) ==
  /\ Len(heap) \in Nat
  /\ \A id \in 1 .. Len(heap) :
       /\ heap[id].extendsFiles \in Seq(Nat)
       /\ \A k \in DOMAIN heap[id].extendsFiles :
            heap[id].extendsFiles[k] \in id + 1 .. Len(heap)

\* Traversal, which is defined by a CHOOSE over functions, follows its own recursion.
LEMMA TraversalUnfolds ==
  ASSUME BasesFollow(files)
  PROVE  \A id \in 1 .. Len(files) :
           Traversal[id] = FlattenSeq([k \in DOMAIN files[id].extendsFiles |->
                                         Traversal[files[id].extendsFiles[k]]]) \o <<id>>
<1> DEFINE n == Len(files)
           Base(id) == files[id].extendsFiles
           Of(g, id) == FlattenSeq([k \in DOMAIN Base(id) |-> g[Base(id)[k]]]) \o <<id>>
           Loop(g, m) == [id \in m .. n |-> Of(g, id)]
           HasValue(m) == \E g : g = Loop(g, n + 1 - m)
           Has == {m \in Nat : m <= n => HasValue(m)}
<1>1. n \in Nat /\ \A id \in 1 .. n : \A k \in DOMAIN Base(id) : Base(id)[k] \in id + 1 .. n
  BY DEF BasesFollow
<1>2. Traversal = CHOOSE g : g = Loop(g, 1)
  BY DEF Traversal
<1> HIDE DEF n, Base
<1>3. 0 \in Has
  <2> DEFINE e == [id \in n + 1 .. n |-> 0]
  <2>1. e = Loop(e, n + 1)
    BY <1>1
  <2>2. n + 1 - 0 = n + 1
    BY <1>1
  <2>3. HasValue(0)
    BY <2>1, <2>2
  <2> HIDE DEF HasValue
  <2> QED  BY <2>3
<1>4. ASSUME NEW m \in Nat, m \in Has PROVE m + 1 \in Has
  <2> SUFFICES ASSUME m + 1 <= n PROVE HasValue(m + 1)
    <3> HIDE DEF HasValue
    <3> QED  OBVIOUS
  <2> DEFINE low == n + 1 - (m + 1)
  <2>1. /\ n + 1 - m = low + 1 /\ low \in 1 .. n /\ m <= n
    BY <1>1
  <2>2. HasValue(m)
    <3> HIDE DEF HasValue
    <3> QED  BY <1>4, <2>1
  <2>3. PICK g : g = Loop(g, low + 1)
    BY <2>1, <2>2
  <2> HIDE DEF low
  <2> DEFINE h == Loop(g, low)
  <2>4. DOMAIN h = low .. n
    OBVIOUS
  <2>5. ASSUME NEW id \in low + 1 .. n PROVE h[id] = g[id]
    <3> HIDE DEF Of
    <3>1. g[id] = Of(g, id)
      BY <2>3
    <3>2. id \in low .. n
      BY <1>1, <2>1
    <3> QED  BY <3>1, <3>2
  <2>6. ASSUME NEW id \in low .. n PROVE h[id] = Of(h, id)
    <3> DEFINE ofG == [k \in DOMAIN Base(id) |-> g[Base(id)[k]]]
               ofH == [k \in DOMAIN Base(id) |-> h[Base(id)[k]]]
    <3>1. ASSUME NEW k \in DOMAIN Base(id) PROVE g[Base(id)[k]] = h[Base(id)[k]]
      <4>1. id \in 1 .. n
        BY <1>1, <2>1
      <4>2. Base(id)[k] \in id + 1 .. n
        BY <1>1, <4>1
      <4>3. Base(id)[k] \in low + 1 .. n
        BY <1>1, <2>1, <4>2
      <4> QED  BY <2>5, <4>3
    <3>2. ofG = ofH
      <4> HIDE DEF h
      <4> QED  BY <3>1
    <3>3. h[id] = Of(g, id)
      <4> HIDE DEF Of
      <4> QED  OBVIOUS
    <3>4. Of(g, id) = FlattenSeq(ofG) \o <<id>> /\ Of(h, id) = FlattenSeq(ofH) \o <<id>>
      OBVIOUS
    <3> HIDE DEF h, Of, ofG, ofH
    <3> QED  BY <3>2, <3>3, <3>4
  <2> HIDE DEF Of
  <2>7. h = [id \in low .. n |-> h[id]]
    BY <2>4
  <2>8. h = Loop(h, low)
    <3> HIDE DEF h
    <3> QED  BY <2>6, <2>7
  <2> HIDE DEF h
  <2> QED  BY <2>8 DEF low
<1>5. Nat \subseteq Has
  <2> HIDE DEF Has
  <2> QED  BY <1>3, <1>4, SetInduction
<1>6. HasValue(n)
  <2> HIDE DEF HasValue
  <2> QED  BY <1>1, <1>5
<1>7. n + 1 - n = 1
  BY <1>1
<1>8. \E g : g = Loop(g, 1)
  BY <1>6, <1>7
<1>9. Traversal = Loop(Traversal, 1)
  BY <1>2, <1>8
<1> HIDE DEF Of
<1>10. ASSUME NEW id \in 1 .. n PROVE Traversal[id] = Of(Traversal, id)
  BY <1>9
<1> QED  BY <1>10 DEF Of, n, Base

\* A file's tree is itself and the trees of its base files.
LEMMA TreeUnfolds ==
  ASSUME BasesFollow(files)
  PROVE  /\ \A id \in 1 .. Len(files) : Traversal[id] \in Seq(1 .. Len(files))
         /\ \A id \in 1 .. Len(files) : \A x :
              x \in Tree(id) <=> x = id \/ \E k \in DOMAIN files[id].extendsFiles :
                                             x \in Tree(files[id].extendsFiles[k])
<1> DEFINE n == Len(files)
           Base(id) == files[id].extendsFiles
           Bases(id) == [k \in DOMAIN Base(id) |-> Traversal[Base(id)[k]]]
           Low(m) == \A id \in n + 1 - m .. n : Traversal[id] \in Seq(1 .. n)
           S == {m \in Nat : m <= n => Low(m)}
<1>1. /\ n \in Nat
      /\ \A id \in 1 .. n : /\ Base(id) \in Seq(Nat)
                            /\ \A k \in DOMAIN Base(id) : Base(id)[k] \in id + 1 .. n
  BY DEF BasesFollow
<1>2. \A id \in 1 .. n : Traversal[id] = FlattenSeq(Bases(id)) \o <<id>>
  BY TraversalUnfolds
<1> HIDE DEF n, Base
<1>3. ASSUME NEW id \in 1 .. n, \A k \in DOMAIN Base(id) : Traversal[Base(id)[k]] \in Seq(1 .. n)
      PROVE  /\ Traversal[id] \in Seq(1 .. n)
             /\ \A x : InRange(x, Traversal[id]) <=>
                         x = id \/ \E k \in DOMAIN Base(id) : InRange(x, Traversal[Base(id)[k]])
  <2> DEFINE b == Bases(id)
             m == Len(Base(id))
  <2>1. m \in Nat /\ DOMAIN Base(id) = 1 .. m
    BY <1>1
  <2>2. DOMAIN b = 1 .. m /\ \A k \in 1 .. m : b[k] = Traversal[Base(id)[k]]
    BY <2>1
  <2>3. b \in Seq(Seq(1 .. n))
    <3>1. b = [k \in 1 .. m |-> b[k]]
      BY <2>2
    <3>2. \A k \in 1 .. m : b[k] \in Seq(1 .. n)
      BY <1>3, <2>1, <2>2
    <3> HIDE DEF b, m
    <3>3. b \in [1 .. m -> Seq(1 .. n)]
      BY <3>1, <3>2
    <3> QED  BY <2>1, <3>3
  <2>4. Traversal[id] = FlattenSeq(b) \o <<id>>
    BY <1>2
  <2> HIDE DEF b, m
  <2>5. /\ FlattenSeq(b) \in Seq(1 .. n)
        /\ \A x : InRange(x, FlattenSeq(b)) <=> \E k \in 1 .. m : InRange(x, b[k])
    BY <2>1, <2>2, <2>3, FlattenElements
  <2>6. <<id>> \in Seq(1 .. n) /\ \A x : InRange(x, <<id>>) <=> x = id
    BY DEF InRange
  <2> DEFINE c == FlattenSeq(b)
             d == <<id>>
  <2>7. /\ c \o d \in Seq(1 .. n)
        /\ \A x : InRange(x, c \o d) <=> InRange(x, c) \/ InRange(x, d)
    <3>1. c \in Seq(1 .. n) /\ d \in Seq(1 .. n)
      BY <2>5, <2>6
    <3> HIDE DEF c, d
    <3> QED  BY <3>1, ConcatElements
  <2> QED  BY <2>1, <2>2, <2>4, <2>5, <2>6, <2>7
<1>4. 0 \in S
  <2>1. Low(0)
    BY <1>1
  <2> HIDE DEF Low
  <2> QED  BY <2>1
<1>5. ASSUME NEW m \in Nat, m \in S PROVE m + 1 \in S
  <2> SUFFICES ASSUME m + 1 <= n PROVE Low(m + 1)
    <3> HIDE DEF Low
    <3> QED  OBVIOUS
  <2>1. Low(m)
    <3>1. m <= n
      BY <1>1
    <3> HIDE DEF Low
    <3> QED  BY <1>5, <3>1
  <2> DEFINE id == n - m
  <2>2. id \in 1 .. n /\ n + 1 - (m + 1) = id /\ n + 1 - m = id + 1
    BY <1>1
  <2>3. \A j \in id .. n : j = id \/ j \in id + 1 .. n
    BY <1>1
  <2> HIDE DEF id
  <2>4. \A j \in id + 1 .. n : Traversal[j] \in Seq(1 .. n)
    BY <2>1, <2>2
  <2>5. Traversal[id] \in Seq(1 .. n)
    BY <1>1, <1>3, <2>2, <2>4
  <2> QED  BY <2>2, <2>3, <2>4, <2>5
<1>6. Nat \subseteq S
  <2> HIDE DEF S
  <2> QED  BY <1>4, <1>5, SetInduction
<1>7. Low(n)
  <2> HIDE DEF Low
  <2> QED  BY <1>1, <1>6
<1>8. \A id \in 1 .. n : Traversal[id] \in Seq(1 .. n)
  <2>1. n + 1 - n = 1
    BY <1>1
  <2> QED  BY <1>7, <2>1
<1>9. ASSUME NEW id \in 1 .. n, NEW k \in DOMAIN Base(id) PROVE Base(id)[k] \in 1 .. n
  BY <1>1
<1>10. \A id : Tree(id) = {Traversal[id][k] : k \in DOMAIN Traversal[id]}
  BY DEF Tree
<1>11. \A id, x : x \in Tree(id) <=> InRange(x, Traversal[id])
  BY <1>10 DEF InRange
<1>12. ASSUME NEW id \in 1 .. n
       PROVE  \A x : x \in Tree(id) <=> x = id \/ \E k \in DOMAIN Base(id) : x \in Tree(Base(id)[k])
  <2>1. \A k \in DOMAIN Base(id) : Traversal[Base(id)[k]] \in Seq(1 .. n)
    BY <1>8, <1>9
  <2>2. \A x : InRange(x, Traversal[id]) <=>
                 x = id \/ \E k \in DOMAIN Base(id) : InRange(x, Traversal[Base(id)[k]])
    BY <1>3, <2>1
  <2> QED  BY <1>11, <2>2
<1> QED  BY <1>8, <1>12 DEF n, Base

\* What is in a tree is a file, with its base files; and nothing more is in it than must be.
LEMMA TreeIsClosed ==
  ASSUME BasesFollow(files), NEW id \in 1 .. Len(files)
  PROVE  /\ id \in Tree(id) /\ Tree(id) \subseteq 1 .. Len(files)
         /\ \A j \in Tree(id) : \A k \in DOMAIN files[j].extendsFiles :
              files[j].extendsFiles[k] \in Tree(id)
         /\ \A S : (/\ id \in S
                    /\ \A j \in S \intersect 1 .. Len(files) : \A k \in DOMAIN files[j].extendsFiles :
                         files[j].extendsFiles[k] \in S)
                   => Tree(id) \subseteq S
<1> DEFINE n == Len(files)
           Base(i) == files[i].extendsFiles
           In(i, S) == i \in S
           Closed(S) == \A j \in S \intersect 1 .. n : \A k \in DOMAIN Base(j) : Base(j)[k] \in S
           Right(i) ==
             /\ \A j \in Tree(i) : \A k \in DOMAIN Base(j) : Base(j)[k] \in Tree(i)
             /\ \A S : i \in S /\ Closed(S) => Tree(i) \subseteq S
           Low(m) == \A i \in n + 1 - m .. n : Right(i)
           D == {m \in Nat : m <= n => Low(m)}
<1>1. /\ n \in Nat
      /\ \A i \in 1 .. n : \A k \in DOMAIN Base(i) : Base(i)[k] \in i + 1 .. n
  BY DEF BasesFollow
<1>2. \A i \in 1 .. n : Traversal[i] \in Seq(1 .. n)
  BY TreeUnfolds
<1>3. \A i \in 1 .. n : \A x :
        x \in Tree(i) <=> x = i \/ \E k \in DOMAIN Base(i) : x \in Tree(Base(i)[k])
  BY TreeUnfolds
<1>4. \A i \in 1 .. n : Tree(i) \subseteq 1 .. n
  <2> SUFFICES ASSUME NEW i \in 1 .. n PROVE Tree(i) \subseteq 1 .. n
    OBVIOUS
  <2> DEFINE t == Traversal[i]
  <2>1. t \in Seq(1 .. n) /\ Tree(i) = {t[k] : k \in DOMAIN t}
    BY <1>2 DEF Tree
  <2> HIDE DEF t
  <2>2. \A k \in DOMAIN t : t[k] \in 1 .. n
    BY <2>1
  <2> QED  BY <2>1, <2>2
<1> HIDE DEF n, Base
<1>5. ASSUME NEW i \in 1 .. n, \A k \in DOMAIN Base(i) : Right(Base(i)[k])
      PROVE  Right(i)
  <2>1. ASSUME NEW j \in Tree(i), NEW k \in DOMAIN Base(j) PROVE Base(j)[k] \in Tree(i)
    <3>1. CASE j = i
      <4>1. Base(j)[k] \in 1 .. n
        BY <1>1, <3>1
      <4>2. Base(j)[k] \in Tree(Base(j)[k])
        BY <1>3, <4>1
      <4> QED  BY <1>3, <3>1, <4>2
    <3>2. ASSUME NEW l \in DOMAIN Base(i), j \in Tree(Base(i)[l]) PROVE Base(j)[k] \in Tree(i)
      BY <1>3, <1>5, <3>2
    <3> QED  BY <1>3, <3>1, <3>2
  <2>2. ASSUME NEW S, i \in S, Closed(S) PROVE Tree(i) \subseteq S
    <3>1. ASSUME NEW k \in DOMAIN Base(i) PROVE Tree(Base(i)[k]) \subseteq S
      <4>1. Base(i)[k] \in S
        BY <2>2
      <4> QED  BY <1>5, <2>2, <4>1
    <3> QED  BY <1>3, <2>2, <3>1
  <2> HIDE DEF Closed
  <2> QED  BY <2>1, <2>2
<1> HIDE DEF Right
<1>6. 0 \in D
  <2>1. Low(0)
    BY <1>1
  <2> HIDE DEF Low
  <2> QED  BY <2>1
<1>7. ASSUME NEW m \in Nat, m \in D PROVE m + 1 \in D
  <2> SUFFICES ASSUME m + 1 <= n PROVE Low(m + 1)
    <3> HIDE DEF Low
    <3> QED  OBVIOUS
  <2>1. Low(m)
    <3>1. m <= n
      BY <1>1
    <3> HIDE DEF Low
    <3> QED  BY <1>7, <3>1
  <2> DEFINE i == n - m
  <2>2. i \in 1 .. n /\ n + 1 - (m + 1) = i /\ n + 1 - m = i + 1
    BY <1>1
  <2>3. \A j \in i .. n : j = i \/ j \in i + 1 .. n
    BY <1>1
  <2> HIDE DEF i
  <2>4. \A j \in i + 1 .. n : Right(j)
    BY <2>1, <2>2
  <2>5. \A k \in DOMAIN Base(i) : Base(i)[k] \in i + 1 .. n
    BY <1>1, <2>2
  <2>6. \A k \in DOMAIN Base(i) : Right(Base(i)[k])
    BY <2>4, <2>5
  <2>7. Right(i)
    BY <1>5, <2>2, <2>6
  <2> QED  BY <2>2, <2>3, <2>4, <2>7
<1>8. Nat \subseteq D
  <2> HIDE DEF D
  <2> QED  BY <1>6, <1>7, SetInduction
<1>9. Low(n)
  <2> HIDE DEF Low
  <2> QED  BY <1>1, <1>8
<1>10. Right(id)
  <2>1. n + 1 - n = 1 /\ id \in 1 .. n
    BY <1>1 DEF n
  <2> QED  BY <1>9, <2>1
<1>11. id \in 1 .. n
  BY DEF n
<1>12. id \in Tree(id) /\ Tree(id) \subseteq 1 .. n
  BY <1>3, <1>4, <1>11
<1> QED  BY <1>10, <1>12 DEF Right, n, Base

-----------------------------------------------------------------------------
(***************************************************************************)
(* One file: an error is never forgotten, a file that was not found says   *)
(* nothing, and what was read has a path.                                  *)
(***************************************************************************)
FileOK(f) ==
  /\ f \in File
  /\ f.log # <<>> => f.hasErrors
  /\ f.fileNotFound => f.version = 0 /\ f.extendsPaths = <<>>
  /\ f.version # 0 => f.filePath \in Paths

\* g is f, but that errors may have been reported
MoreErrors(f, g) ==
  \/ (g.hasErrors <=> f.hasErrors) /\ (g.log = <<>> <=> f.log = <<>>)
  \/ g.hasErrors /\ g.log # <<>>
IsReported(f, g) ==
  /\ g.filePath = f.filePath /\ g.fileNotFound = f.fileNotFound
  /\ g.version = f.version /\ g.fileMTime = f.fileMTime
  /\ g.extendsPaths = f.extendsPaths /\ g.extendsFiles = f.extendsFiles
  /\ MoreErrors(f, g)

\* A new file object: nothing was read, and nothing is wrong.
LEMMA NewFileOK ==
  ASSUME NEW path \in Paths \union {NoPath}
  PROVE  LET f == [NewFile EXCEPT !.filePath = path] IN
         /\ FileOK(f) /\ f.filePath = path /\ f.version = 0 /\ f.log = <<>>
         /\ ~f.fileNotFound /\ ~f.hasErrors /\ f.extendsPaths = <<>> /\ f.extendsFiles = <<>>
<1>1. MaxVersions \in Nat
  BY DisksAssumption
<1>2. 0 \in 0 .. MaxVersions
  BY <1>1
<1>3. <<>> \in Seq(STRING) /\ <<>> \in Seq(MessageIds) /\ <<>> \in Seq(Nat)
  OBVIOUS
<1>4. /\ <<>> \in Seq(TagDefinition) /\ <<>> \in Seq(SupportEntry)
      /\ <<>> \in Seq(SUBSET HtmlElements)
  OBVIOUS
<1>5. [NewFile EXCEPT !.filePath = path] \in File
  BY <1>2, <1>3, <1>4 DEF NewFile, File, Switch
<1> QED  BY <1>5 DEF NewFile, FileOK

\* An error that is reported stays with the file, and changes nothing else.
LEMMA ReportOK ==
  ASSUME NEW f, FileOK(f), NEW ids \in Seq(MessageIds)
  PROVE  LET g == Report(f, ids) IN
         /\ FileOK(g) /\ IsReported(f, g)
         /\ g.hasErrors <=> (f.hasErrors \/ ids # <<>>)
         /\ g.log = f.log \o ids
<1>1. f \in File
  BY DEF FileOK
<1>2. f.log \in Seq(MessageIds) /\ f.hasErrors \in BOOLEAN
  BY <1>1 DEF File
<1>3. /\ f.log \o ids \in Seq(MessageIds)
      /\ f.log \o ids = <<>> <=> f.log = <<>> /\ ids = <<>>
  BY <1>2
<1>4. Report(f, ids) = [f EXCEPT !.log = f.log \o ids, !.hasErrors = f.hasErrors \/ ids # <<>>]
  BY DEF Report
<1>5. Report(f, ids) \in File
  BY <1>1, <1>3, <1>4 DEF File
<1> DEFINE g == Report(f, ids)
<1>6. /\ g.log = f.log \o ids
      /\ g.hasErrors <=> (f.hasErrors \/ ids # <<>>)
      /\ g.filePath = f.filePath /\ g.fileNotFound = f.fileNotFound
      /\ g.version = f.version /\ g.fileMTime = f.fileMTime
      /\ g.extendsPaths = f.extendsPaths /\ g.extendsFiles = f.extendsFiles
  BY <1>1, <1>4 DEF File
<1> HIDE DEF g
<1>7. IsReported(f, g)
  BY <1>3, <1>6 DEF IsReported, MoreErrors
<1>8. FileOK(g)
  BY <1>3, <1>5, <1>6 DEF FileOK, g
<1> QED  BY <1>6, <1>7, <1>8 DEF g

-----------------------------------------------------------------------------
\* The order in which FoldLeft takes a sequence apart
LEMMA LargestNumber ==
  ASSUME NEW m \in Nat, NEW s \in SUBSET (1 .. m + 1), s # {}
  PROVE  Max(s) \in s /\ s \ {Max(s)} \subseteq 1 .. m
<1> DEFINE HasMax(k) == \A t \in SUBSET (1 .. k) : t # {} => \E x \in t : \A y \in t : x >= y
           D == {k \in Nat : HasMax(k)}
<1>1. 0 \in D
  <2>1. 1 .. 0 = {}
    OBVIOUS
  <2>2. HasMax(0)
    BY <2>1
  <2> HIDE DEF HasMax
  <2> QED  BY <2>2
<1>2. ASSUME NEW k \in Nat, k \in D PROVE k + 1 \in D
  <2>1. HasMax(k)
    BY <1>2
  <2>2. ASSUME NEW t \in SUBSET (1 .. k + 1), t # {} PROVE \E x \in t : \A y \in t : x >= y
    <3>1. CASE k + 1 \in t
      BY <3>1
    <3>2. CASE k + 1 \notin t
      <4>1. t \in SUBSET (1 .. k)
        BY <3>2
      <4> QED  BY <2>1, <2>2, <4>1
    <3> QED  BY <3>1, <3>2
  <2>3. HasMax(k + 1)
    BY <2>2
  <2> HIDE DEF HasMax
  <2> QED  BY <2>3
<1>3. Nat \subseteq D
  <2> HIDE DEF D
  <2> QED  BY <1>1, <1>2, SetInduction
<1>4. HasMax(m + 1)
  <2> HIDE DEF HasMax
  <2> QED  BY <1>3
<1>5. \E x \in s : \A y \in s : x >= y
  BY <1>4
<1>6. Max(s) \in s /\ \A y \in s : Max(s) >= y
  BY <1>5 DEF Max
<1>7. ASSUME NEW y \in s \ {Max(s)} PROVE y \in 1 .. m
  <2> DEFINE x == Max(s)
  <2>1. x \in 1 .. m + 1 /\ y \in 1 .. m + 1 /\ x >= y /\ y # x
    BY <1>6
  <2> HIDE DEF x
  <2> QED  BY <2>1
<1> QED  BY <1>6, <1>7

\* _addTagDefinitionForLoad(), and the loop over the tags of the JSON
TagParameters == [tagName : Names, syntaxKind : SyntaxKinds, allowMultiple : BOOLEAN]

\* A tag of the JSON only adds to the definitions and to the log.
LEMMA AddTagOK ==
  ASSUME NEW f, FileOK(f), NEW parameters \in TagParameters
  PROVE  LET g == AddTagDefinitionForLoad(f, parameters) IN FileOK(g) /\ IsReported(f, g)
<1> DEFINE name == UpperCase[parameters.tagName]
           warned == IF name \in f.tagDefinitionNames THEN Report(f, <<"DuplicateTagName">>) ELSE f
<1>1. <<"DuplicateTagName">> \in Seq(MessageIds) /\ <<"InvalidTagName">> \in Seq(MessageIds)
  BY DEF MessageIds
<1>2. FileOK(warned) /\ IsReported(f, warned)
  <2>1. CASE name \in f.tagDefinitionNames
    BY <1>1, <2>1, ReportOK
  <2>2. CASE name \notin f.tagDefinitionNames
    BY <2>2 DEF IsReported, MoreErrors
  <2> QED  BY <2>1, <2>2
<1>3. CASE parameters.tagName \in InvalidNames
  <2>1. AddTagDefinitionForLoad(f, parameters) = Report(f, <<"InvalidTagName">>)
    BY <1>3 DEF AddTagDefinitionForLoad
  <2> QED  BY <1>1, <2>1, ReportOK
<1>4. CASE parameters.tagName \notin InvalidNames
  <2>1. AddTagDefinitionForLoad(f, parameters) = Define(warned, parameters, name)
    BY <1>4 DEF AddTagDefinitionForLoad
  <2>2. parameters.tagName \in Names \ InvalidNames /\ name \in {UpperCase[n] : n \in Names}
    BY <1>4 DEF TagParameters
  <2> HIDE DEF warned, name
  <2> DEFINE h == warned
             d == [tagName |-> parameters.tagName, syntaxKind |-> parameters.syntaxKind,
                   allowMultiple |-> parameters.allowMultiple, serial |-> h.made + 1]
             g == Define(h, parameters, name)
  <2>3. h \in File
    BY <1>2 DEF FileOK
  <2>4. h.made \in Nat /\ h.tagDefinitions \in Seq(TagDefinition)
    BY <2>3 DEF File
  <2>5. d \in TagDefinition
    BY <2>2, <2>4 DEF TagDefinition, TagParameters
  <2>6. Define(h, parameters, name) =
          [h EXCEPT !.tagDefinitionNames = h.tagDefinitionNames \union {name},
                    !.made = h.made + 1,
                    !.tagDefinitions = Append(h.tagDefinitions, d)]
    BY DEF Define
  <2>7. Append(h.tagDefinitions, d) \in Seq(TagDefinition)
    BY <2>4, <2>5
  <2> HIDE DEF h, d
  <2> DEFINE h1 == [h EXCEPT !.tagDefinitionNames = h.tagDefinitionNames \union {name}]
             h2 == [h1 EXCEPT !.made = h.made + 1]
             t == Append(h.tagDefinitions, d)
  <2>11. h1 \in File
    <3>1. h.tagDefinitionNames \union {name} \in SUBSET (Names \union {UpperCase[n] : n \in Names})
      BY <2>2, <2>3 DEF File
    <3> QED  BY <2>3, <3>1 DEF File
  <2>12. h2 \in File
    <3>1. h.made + 1 \in Nat
      BY <2>4
    <3> HIDE DEF h1
    <3> QED  BY <2>11, <3>1 DEF File
  <2>8. g \in File
    <3>1. g = [h2 EXCEPT !.tagDefinitions = t]
      BY <2>6
    <3> HIDE DEF h2, t, g
    <3> QED  BY <2>7, <2>12, <3>1 DEF File, t
  <2>9. IsReported(h, g) /\ g.log = h.log /\ g.hasErrors = h.hasErrors
    BY <2>3, <2>6 DEF File, IsReported, MoreErrors
  <2> HIDE DEF g
  <2>10. FileOK(g) /\ IsReported(h, g)
    BY <1>2, <2>8, <2>9 DEF FileOK, IsReported, MoreErrors, h
  <2> QED  BY <1>2, <2>1, <2>10 DEF IsReported, MoreErrors, g, h
<1> QED  BY <1>3, <1>4

\* All tags of the JSON, one after another
LEMMA LoadTagsOK ==
  ASSUME NEW f, FileOK(f), NEW n \in Nat, NEW tags, DOMAIN tags = 1 .. n,
         \A i \in 1 .. n : tags[i] \in TagParameters
  PROVE  LET g == FoldLeft(AddTagDefinitionForLoad, f, tags) IN FileOK(g) /\ IsReported(f, g)
<1> DEFINE Loop(g, m) == [s \in SUBSET (1 .. m) |->
                            IF s = {} THEN f
                            ELSE AddTagDefinitionForLoad(g[s \ {Max(s)}], tags[Max(s)])]
           Added(m) == \E g : g = Loop(g, m)
           D == {m \in Nat : Added(m)}
<1>1. FoldLeft(AddTagDefinitionForLoad, f, tags)
        = LET iter == CHOOSE iter : iter = Loop(iter, n) IN iter[1 .. n]
  BY DEF FoldLeft, MapThenFoldSet
<1>2. 0 \in D
  <2> DEFINE e == [s \in SUBSET (1 .. 0) |-> f]
  <2>1. 1 .. 0 = {}
    OBVIOUS
  <2>2. \A s \in SUBSET (1 .. 0) : s = {}
    BY <2>1
  <2>3. e = Loop(e, 0)
    BY <2>2
  <2>4. Added(0)
    BY <2>3
  <2> HIDE DEF Added
  <2> QED  BY <2>4
<1>3. ASSUME NEW m \in Nat, m \in D PROVE m + 1 \in D
  <2>1. Added(m)
    BY <1>3
  <2>2. PICK g : g = Loop(g, m)
    BY <2>1
  <2> DEFINE h == Loop(g, m + 1)
  <2>3. ASSUME NEW s \in SUBSET (1 .. m) PROVE h[s] = g[s]
    <3>1. s \in SUBSET (1 .. m + 1)
      OBVIOUS
    <3>2. g[s] = IF s = {} THEN f ELSE AddTagDefinitionForLoad(g[s \ {Max(s)}], tags[Max(s)])
      BY <2>2
    <3>3. h[s] = IF s = {} THEN f ELSE AddTagDefinitionForLoad(g[s \ {Max(s)}], tags[Max(s)])
      BY <3>1
    <3> QED  BY <3>2, <3>3
  <2>4. ASSUME NEW s \in SUBSET (1 .. m + 1)
        PROVE  h[s] = IF s = {} THEN f ELSE AddTagDefinitionForLoad(h[s \ {Max(s)}], tags[Max(s)])
    <3>1. s # {} => s \ {Max(s)} \in SUBSET (1 .. m)
      BY LargestNumber
    <3>2. h[s] = IF s = {} THEN f ELSE AddTagDefinitionForLoad(g[s \ {Max(s)}], tags[Max(s)])
      OBVIOUS
    <3>3. s # {} => h[s \ {Max(s)}] = g[s \ {Max(s)}]
      <4> HIDE DEF h
      <4> QED  BY <2>3, <3>1
    <3> HIDE DEF h
    <3> QED  BY <3>2, <3>3
  <2>5. h = [s \in SUBSET (1 .. m + 1) |-> h[s]]
    OBVIOUS
  <2>6. h = Loop(h, m + 1)
    <3> HIDE DEF h
    <3> QED  BY <2>4, <2>5
  <2>7. Added(m + 1)
    <3> HIDE DEF h
    <3> QED  BY <2>6
  <2> HIDE DEF Added
  <2> QED  BY <2>7
<1>4. Nat \subseteq D
  <2> HIDE DEF D
  <2> QED  BY <1>2, <1>3, SetInduction
<1>5. Added(n)
  <2> HIDE DEF Added
  <2> QED  BY <1>4
<1> DEFINE iter == CHOOSE iter : iter = Loop(iter, n)
<1>6. iter = Loop(iter, n)
  BY <1>5
<1>7. FoldLeft(AddTagDefinitionForLoad, f, tags) = iter[1 .. n]
  BY <1>1
<1> HIDE DEF iter
<1>8. \A s \in SUBSET (1 .. n) :
        iter[s] = IF s = {} THEN f ELSE AddTagDefinitionForLoad(iter[s \ {Max(s)}], tags[Max(s)])
  BY <1>6
<1> DEFINE Good(m) == \A s \in SUBSET (1 .. m) : FileOK(iter[s]) /\ IsReported(f, iter[s])
           G == {m \in Nat : m <= n => Good(m)}
<1>9. 0 \in G
  <2>1. \A s \in SUBSET (1 .. 0) : s = {} /\ s \in SUBSET (1 .. n)
    OBVIOUS
  <2>2. Good(0)
    BY <1>8, <2>1 DEF IsReported, MoreErrors
  <2> HIDE DEF Good
  <2> QED  BY <2>2
<1>10. ASSUME NEW m \in Nat, m \in G PROVE m + 1 \in G
  <2> SUFFICES ASSUME m + 1 <= n PROVE Good(m + 1)
    <3> HIDE DEF Good
    <3> QED  OBVIOUS
  <2>1. Good(m)
    <3> HIDE DEF Good
    <3> QED  BY <1>10
  <2>2. ASSUME NEW s \in SUBSET (1 .. m + 1)
        PROVE  FileOK(iter[s]) /\ IsReported(f, iter[s])
    <3>1. s \in SUBSET (1 .. n)
      OBVIOUS
    <3>2. CASE s = {}
      BY <1>8, <3>1, <3>2 DEF IsReported, MoreErrors
    <3>3. CASE s # {}
      <4> DEFINE x == Max(s)
                 before == iter[s \ {x}]
      <4>1. x \in s /\ s \ {x} \in SUBSET (1 .. m)
        BY <3>3, LargestNumber
      <4>2. FileOK(before) /\ IsReported(f, before)
        BY <2>1, <4>1
      <4>3. tags[x] \in TagParameters
        BY <3>1, <4>1
      <4>4. iter[s] = AddTagDefinitionForLoad(before, tags[x])
        BY <1>8, <3>1, <3>3
      <4> HIDE DEF before, x
      <4>5. FileOK(iter[s]) /\ IsReported(before, iter[s])
        BY <4>2, <4>3, <4>4, AddTagOK
      <4> QED  BY <4>2, <4>5 DEF IsReported, MoreErrors
    <3> QED  BY <3>2, <3>3
  <2> QED  BY <2>2
<1>11. Nat \subseteq G
  <2> HIDE DEF G
  <2> QED  BY <1>9, <1>10, SetInduction
<1>12. Good(n)
  <2> HIDE DEF Good
  <2> QED  BY <1>11
<1> QED  BY <1>7, <1>12

-----------------------------------------------------------------------------
(***************************************************************************)
(* The heap, and what applying files to a parser does to it: references to *)
(* tags that are not defined are reported, and nothing else happens.       *)
(***************************************************************************)
HeapOK(heap) ==
  /\ heap \in Seq(File)
  /\ BasesFollow(heap)
  /\ \A id \in 1 .. Len(heap) : FileOK(heap[id])

OnlyUndefined(log, more) == \A x : InRange(x, more) => InRange(x, log) \/ x = "UndefinedTag"

IsApplied(heap, after) ==
  /\ after \in Seq(File) /\ Len(after) = Len(heap)
  /\ \A id \in 1 .. Len(heap) :
       /\ FileOK(after[id]) /\ IsReported(heap[id], after[id])
       /\ heap[id].hasErrors => after[id].hasErrors
       /\ OnlyUndefined(heap[id].log, after[id].log)

\* A heap to which files were applied is a heap of trees again.
LEMMA AppliedHeap ==
  ASSUME NEW heap, HeapOK(heap), NEW after, IsApplied(heap, after)
  PROVE  HeapOK(after)
<1>1. /\ Len(heap) \in Nat /\ Len(after) = Len(heap)
      /\ \A id \in 1 .. Len(heap) : after[id].extendsFiles = heap[id].extendsFiles
  BY DEF HeapOK, IsApplied, BasesFollow, IsReported, MoreErrors
<1>2. BasesFollow(after)
  BY <1>1 DEF HeapOK, BasesFollow
<1> QED  BY <1>1, <1>2 DEF HeapOK, IsApplied

\* ... and applying nothing is one way to get it.
LEMMA NothingApplied ==
  ASSUME NEW heap, HeapOK(heap)
  PROVE  IsApplied(heap, heap)
BY DEF HeapOK, IsApplied, OnlyUndefined, IsReported, MoreErrors

IsState(s) == s = [configuration |-> s.configuration, files |-> s.files]

\* One entry of supportForTags: its tag is defined, or is reported.
LEMMA ApplySupportOK ==
  ASSUME NEW heap, HeapOK(heap), NEW s, IsState(s), IsApplied(heap, s.files),
         NEW id \in 1 .. Len(heap), NEW entry
  PROVE  LET t == ApplySupport(s, id, entry) IN IsState(t) /\ IsApplied(heap, t.files)
<1> DEFINE t == ApplySupport(s, id, entry)
           f == s.files[id]
           g == Report(f, <<"UndefinedTag">>)
           undefined == <<"UndefinedTag">>
           after == [s.files EXCEPT ![id] = g]
<1>1. CASE HasKey(s.configuration, UpperCase[entry.tagName])
  <2>1. PICK c : t = [s EXCEPT !.configuration = c]
    BY <1>1 DEF ApplySupport
  <2>2. t = [configuration |-> c, files |-> s.files]
    BY <2>1 DEF IsState
  <2> HIDE DEF t
  <2>3. t.configuration = c /\ t.files = s.files
    BY <2>2
  <2>4. IsState(t) /\ IsApplied(heap, t.files)
    BY <2>2, <2>3 DEF IsState
  <2> QED  BY <2>4 DEF t
<1>2. CASE ~HasKey(s.configuration, UpperCase[entry.tagName])
  <2>1. t = [s EXCEPT !.files = after]
    BY <1>2 DEF ApplySupport
  <2>2. t = [configuration |-> s.configuration, files |-> after]
    <3> HIDE DEF after, t
    <3> QED  BY <2>1 DEF IsState
  <2>3. IsState(t) /\ t.files = after
    <3> HIDE DEF after, t
    <3> QED  BY <2>2 DEF IsState
  <2>4. /\ s.files \in Seq(File) /\ Len(s.files) = Len(heap) /\ Len(heap) \in Nat
        /\ FileOK(f) /\ IsReported(heap[id], f) /\ (heap[id].hasErrors => f.hasErrors)
        /\ OnlyUndefined(heap[id].log, f.log)
    BY DEF IsApplied, HeapOK, BasesFollow
  <2>5. undefined \in Seq(MessageIds) /\ \A x : InRange(x, undefined) <=> x = "UndefinedTag"
    BY DEF MessageIds, InRange
  <2>6. /\ FileOK(g) /\ IsReported(f, g) /\ (f.hasErrors => g.hasErrors)
        /\ g.log = f.log \o undefined
    <3> HIDE DEF f
    <3> QED  BY <2>4, <2>5, ReportOK
  <2>7. \A x : InRange(x, g.log) <=> InRange(x, f.log) \/ InRange(x, undefined)
    <3> DEFINE l == f.log
    <3>1. l \in Seq(MessageIds)
      BY <2>4 DEF FileOK, File
    <3> HIDE DEF f, g, undefined, l
    <3>2. \A x : InRange(x, l \o undefined) <=> InRange(x, l) \/ InRange(x, undefined)
      BY <3>1, <2>5, ConcatElements
    <3> QED  BY <2>6, <3>2 DEF l
  <2> HIDE DEF f, g, undefined
  <2>8. OnlyUndefined(heap[id].log, g.log)
    BY <2>4, <2>5, <2>7 DEF OnlyUndefined
  <2>9. IsReported(heap[id], g) /\ (heap[id].hasErrors => g.hasErrors) /\ g \in File
    BY <2>4, <2>6 DEF IsReported, MoreErrors, FileOK
  <2>10. /\ after \in Seq(File) /\ Len(after) = Len(heap)
         /\ \A i \in 1 .. Len(heap) : after[i] = IF i = id THEN g ELSE s.files[i]
    <3> DEFINE l == s.files
    <3>1. l \in Seq(File) /\ Len(l) = Len(heap) /\ g \in File
      BY <2>4, <2>9
    <3>2. after = [l EXCEPT ![id] = g]
      OBVIOUS
    <3> HIDE DEF l, after
    <3>3. /\ after \in Seq(File) /\ Len(after) = Len(heap)
          /\ \A i \in 1 .. Len(heap) : after[i] = IF i = id THEN g ELSE l[i]
      BY <3>1, <3>2
    <3> QED  BY <3>3 DEF l
  <2> HIDE DEF after
  <2>11. IsApplied(heap, after)
    BY <2>6, <2>8, <2>9, <2>10 DEF IsApplied
  <2> QED  BY <2>3, <2>11
<1> QED  BY <1>1, <1>2

\* The loop over supportForTags
Supported(s0, id, entries) ==
  FoldLeft(LAMBDA t, entry : ApplySupport(t, id, entry), s0, entries)

\* All entries of a file; the recursion of FoldLeft has a value.
LEMMA SupportsOK ==
  ASSUME NEW heap, HeapOK(heap), NEW s0, IsState(s0), IsApplied(heap, s0.files),
         NEW id \in 1 .. Len(heap), NEW n \in Nat, NEW entries, DOMAIN entries = 1 .. n
  PROVE  LET t == Supported(s0, id, entries) IN IsState(t) /\ IsApplied(heap, t.files)
<1> DEFINE Loop(g, m) == [s \in SUBSET (1 .. m) |->
                            IF s = {} THEN s0 ELSE ApplySupport(g[s \ {Max(s)}], id, entries[Max(s)])]
           HasValue(m) == \E g : g = Loop(g, m)
           D == {m \in Nat : HasValue(m)}
<1>1. Supported(s0, id, entries)
        = LET iter == CHOOSE iter : iter = Loop(iter, n) IN iter[1 .. n]
  BY DEF Supported, FoldLeft, MapThenFoldSet
<1>2. 0 \in D
  <2> DEFINE e == [s \in SUBSET (1 .. 0) |-> s0]
  <2>1. 1 .. 0 = {}
    OBVIOUS
  <2>2. \A s \in SUBSET (1 .. 0) : s = {}
    BY <2>1
  <2>3. e = Loop(e, 0)
    BY <2>2
  <2>4. HasValue(0)
    BY <2>3
  <2> HIDE DEF HasValue
  <2> QED  BY <2>4
<1>3. ASSUME NEW m \in Nat, m \in D PROVE m + 1 \in D
  <2>1. HasValue(m)
    BY <1>3
  <2>2. PICK g : g = Loop(g, m)
    BY <2>1
  <2> DEFINE h == Loop(g, m + 1)
  <2>3. ASSUME NEW s \in SUBSET (1 .. m) PROVE h[s] = g[s]
    <3>1. s \in SUBSET (1 .. m + 1)
      OBVIOUS
    <3>2. g[s] = IF s = {} THEN s0 ELSE ApplySupport(g[s \ {Max(s)}], id, entries[Max(s)])
      BY <2>2
    <3>3. h[s] = IF s = {} THEN s0 ELSE ApplySupport(g[s \ {Max(s)}], id, entries[Max(s)])
      BY <3>1
    <3> QED  BY <3>2, <3>3
  <2>4. ASSUME NEW s \in SUBSET (1 .. m + 1)
        PROVE  h[s] = IF s = {} THEN s0 ELSE ApplySupport(h[s \ {Max(s)}], id, entries[Max(s)])
    <3>1. s # {} => s \ {Max(s)} \in SUBSET (1 .. m)
      BY LargestNumber
    <3>2. h[s] = IF s = {} THEN s0 ELSE ApplySupport(g[s \ {Max(s)}], id, entries[Max(s)])
      OBVIOUS
    <3>3. s # {} => h[s \ {Max(s)}] = g[s \ {Max(s)}]
      <4> HIDE DEF h
      <4> QED  BY <2>3, <3>1
    <3> HIDE DEF h
    <3> QED  BY <3>2, <3>3
  <2>5. h = [s \in SUBSET (1 .. m + 1) |-> h[s]]
    OBVIOUS
  <2>6. h = Loop(h, m + 1)
    <3> HIDE DEF h
    <3> QED  BY <2>4, <2>5
  <2>7. HasValue(m + 1)
    <3> HIDE DEF h
    <3> QED  BY <2>6
  <2> HIDE DEF HasValue
  <2> QED  BY <2>7
<1>4. Nat \subseteq D
  <2> HIDE DEF D
  <2> QED  BY <1>2, <1>3, SetInduction
<1>5. HasValue(n)
  <2> HIDE DEF HasValue
  <2> QED  BY <1>4
<1> DEFINE iter == CHOOSE iter : iter = Loop(iter, n)
<1>6. iter = Loop(iter, n)
  BY <1>5
<1>7. Supported(s0, id, entries) = iter[1 .. n]
  BY <1>1
<1> HIDE DEF iter
<1>8. \A s \in SUBSET (1 .. n) :
        iter[s] = IF s = {} THEN s0 ELSE ApplySupport(iter[s \ {Max(s)}], id, entries[Max(s)])
  BY <1>6
<1> DEFINE Good(m) == \A s \in SUBSET (1 .. m) : IsState(iter[s]) /\ IsApplied(heap, iter[s].files)
           G == {m \in Nat : m <= n => Good(m)}
<1>9. 0 \in G
  <2>1. \A s \in SUBSET (1 .. 0) : s = {} /\ s \in SUBSET (1 .. n)
    OBVIOUS
  <2>2. Good(0)
    BY <1>8, <2>1
  <2> HIDE DEF Good
  <2> QED  BY <2>2
<1>10. ASSUME NEW m \in Nat, m \in G PROVE m + 1 \in G
  <2> SUFFICES ASSUME m + 1 <= n PROVE Good(m + 1)
    <3> HIDE DEF Good
    <3> QED  OBVIOUS
  <2>1. Good(m)
    <3> HIDE DEF Good
    <3> QED  BY <1>10
  <2>2. ASSUME NEW s \in SUBSET (1 .. m + 1)
        PROVE  IsState(iter[s]) /\ IsApplied(heap, iter[s].files)
    <3>1. s \in SUBSET (1 .. n)
      OBVIOUS
    <3>2. CASE s = {}
      BY <1>8, <3>1, <3>2
    <3>3. CASE s # {}
      <4> DEFINE x == Max(s)
                 before == iter[s \ {x}]
      <4>1. x \in s /\ s \ {x} \in SUBSET (1 .. m)
        BY <3>3, LargestNumber
      <4>2. IsState(before) /\ IsApplied(heap, before.files)
        BY <2>1, <4>1
      <4>3. x \in 1 .. n
        BY <3>1, <4>1
      <4>4. iter[s] = ApplySupport(before, id, entries[x])
        BY <1>8, <3>1, <3>3
      <4> HIDE DEF before, x
      <4> QED  BY <4>2, <4>4, ApplySupportOK
    <3> QED  BY <3>2, <3>3
  <2> QED  BY <2>2
<1>11. Nat \subseteq G
  <2> HIDE DEF G
  <2> QED  BY <1>9, <1>10, SetInduction
<1>12. Good(n)
  <2> HIDE DEF Good
  <2> QED  BY <1>11
<1> QED  BY <1>7, <1>12

\* updateParser() of one file: definitions, support, HTML elements
LEMMA UpdateParserOK ==
  ASSUME NEW heap, HeapOK(heap), NEW s, IsState(s), IsApplied(heap, s.files),
         NEW id \in 1 .. Len(heap)
  PROVE  LET t == UpdateParser(s, id) IN IsState(t) /\ IsApplied(heap, t.files)
<1> DEFINE f == s.files[id]
           c == FoldLeft(AddTagDefinition, s.configuration, DefinitionsOf(f, id))
           tagged == [s EXCEPT !.configuration = FoldLeft(AddTagDefinition, @, DefinitionsOf(f, id))]
           entries == f.supportForTags
           supported == FoldLeft(LAMBDA t, entry : ApplySupport(t, id, entry), tagged, entries)
           t == UpdateParser(s, id)
<1>1. f \in File
  BY DEF IsApplied, HeapOK, BasesFollow
<1>2. Len(entries) \in Nat /\ DOMAIN entries = 1 .. Len(entries)
  <2>1. entries \in Seq(SupportEntry)
    <3> HIDE DEF f
    <3> QED  BY <1>1 DEF File
  <2> HIDE DEF entries
  <2> QED  BY <2>1
<1>3. tagged = [configuration |-> c, files |-> s.files]
  <2>1. tagged = [s EXCEPT !.configuration = c]
    OBVIOUS
  <2> HIDE DEF tagged, c
  <2> QED  BY <2>1 DEF IsState
<1>4. IsState(tagged) /\ tagged.files = s.files
  <2> HIDE DEF tagged, c
  <2> QED  BY <1>3 DEF IsState
<1>5. supported = Supported(tagged, id, entries)
  BY DEF Supported
<1>6. IsState(supported) /\ IsApplied(heap, supported.files)
  <2>1. IsApplied(heap, tagged.files)
    <3> HIDE DEF tagged
    <3> QED  BY <1>4
  <2> HIDE DEF tagged, entries, f, c
  <2> HIDE DEF supported
  <2> QED  BY <1>2, <1>4, <1>5, <2>1, SupportsOK
<1>7. t = tagged \/ t = [supported EXCEPT !.configuration = ApplyHtml(@, f)]
  BY DEF UpdateParser
<1>8. CASE t = tagged
  <2> HIDE DEF tagged, t
  <2>1. IsState(t) /\ IsApplied(heap, t.files)
    BY <1>4, <1>8
  <2> QED  BY <2>1 DEF t
<1>9. CASE t = [supported EXCEPT !.configuration = ApplyHtml(@, f)]
  <2> DEFINE d == ApplyHtml(supported.configuration, f)
  <2>1. t = [supported EXCEPT !.configuration = d]
    BY <1>9
  <2> HIDE DEF d, supported, t
  <2>2. t = [configuration |-> d, files |-> supported.files]
    BY <1>6, <2>1 DEF IsState
  <2>3. t.configuration = d /\ t.files = supported.files
    BY <2>2
  <2>4. IsState(t) /\ IsApplied(heap, t.files)
    BY <1>6, <2>2, <2>3 DEF IsState
  <2> QED  BY <2>4 DEF t
<1> QED  BY <1>7, <1>8, <1>9

\* ... and the recursion of updateParser()
LEMMA UpdatesOK ==
  ASSUME NEW heap, HeapOK(heap), NEW s0, IsState(s0), IsApplied(heap, s0.files),
         NEW n \in Nat, NEW ids, DOMAIN ids = 1 .. n, \A i \in 1 .. n : ids[i] \in 1 .. Len(heap)
  PROVE  LET t == FoldLeft(UpdateParser, s0, ids) IN IsState(t) /\ IsApplied(heap, t.files)
<1> DEFINE Loop(g, m) == [s \in SUBSET (1 .. m) |->
                            IF s = {} THEN s0 ELSE UpdateParser(g[s \ {Max(s)}], ids[Max(s)])]
           HasValue(m) == \E g : g = Loop(g, m)
           D == {m \in Nat : HasValue(m)}
<1>1. FoldLeft(UpdateParser, s0, ids)
        = LET iter == CHOOSE iter : iter = Loop(iter, n) IN iter[1 .. n]
  BY DEF FoldLeft, MapThenFoldSet
<1>2. 0 \in D
  <2> DEFINE e == [s \in SUBSET (1 .. 0) |-> s0]
  <2>1. 1 .. 0 = {}
    OBVIOUS
  <2>2. \A s \in SUBSET (1 .. 0) : s = {}
    BY <2>1
  <2>3. e = Loop(e, 0)
    BY <2>2
  <2>4. HasValue(0)
    BY <2>3
  <2> HIDE DEF HasValue
  <2> QED  BY <2>4
<1>3. ASSUME NEW m \in Nat, m \in D PROVE m + 1 \in D
  <2>1. HasValue(m)
    BY <1>3
  <2>2. PICK g : g = Loop(g, m)
    BY <2>1
  <2> DEFINE h == Loop(g, m + 1)
  <2>3. ASSUME NEW s \in SUBSET (1 .. m) PROVE h[s] = g[s]
    <3>1. s \in SUBSET (1 .. m + 1)
      OBVIOUS
    <3>2. g[s] = IF s = {} THEN s0 ELSE UpdateParser(g[s \ {Max(s)}], ids[Max(s)])
      BY <2>2
    <3>3. h[s] = IF s = {} THEN s0 ELSE UpdateParser(g[s \ {Max(s)}], ids[Max(s)])
      BY <3>1
    <3> QED  BY <3>2, <3>3
  <2>4. ASSUME NEW s \in SUBSET (1 .. m + 1)
        PROVE  h[s] = IF s = {} THEN s0 ELSE UpdateParser(h[s \ {Max(s)}], ids[Max(s)])
    <3>1. s # {} => s \ {Max(s)} \in SUBSET (1 .. m)
      BY LargestNumber
    <3>2. h[s] = IF s = {} THEN s0 ELSE UpdateParser(g[s \ {Max(s)}], ids[Max(s)])
      OBVIOUS
    <3>3. s # {} => h[s \ {Max(s)}] = g[s \ {Max(s)}]
      <4> HIDE DEF h
      <4> QED  BY <2>3, <3>1
    <3> HIDE DEF h
    <3> QED  BY <3>2, <3>3
  <2>5. h = [s \in SUBSET (1 .. m + 1) |-> h[s]]
    OBVIOUS
  <2>6. h = Loop(h, m + 1)
    <3> HIDE DEF h
    <3> QED  BY <2>4, <2>5
  <2>7. HasValue(m + 1)
    <3> HIDE DEF h
    <3> QED  BY <2>6
  <2> HIDE DEF HasValue
  <2> QED  BY <2>7
<1>4. Nat \subseteq D
  <2> HIDE DEF D
  <2> QED  BY <1>2, <1>3, SetInduction
<1>5. HasValue(n)
  <2> HIDE DEF HasValue
  <2> QED  BY <1>4
<1> DEFINE iter == CHOOSE iter : iter = Loop(iter, n)
<1>6. iter = Loop(iter, n)
  BY <1>5
<1>7. FoldLeft(UpdateParser, s0, ids) = iter[1 .. n]
  BY <1>1
<1> HIDE DEF iter
<1>8. \A s \in SUBSET (1 .. n) :
        iter[s] = IF s = {} THEN s0 ELSE UpdateParser(iter[s \ {Max(s)}], ids[Max(s)])
  BY <1>6
<1> DEFINE Good(m) == \A s \in SUBSET (1 .. m) : IsState(iter[s]) /\ IsApplied(heap, iter[s].files)
           G == {m \in Nat : m <= n => Good(m)}
<1>9. 0 \in G
  <2>1. \A s \in SUBSET (1 .. 0) : s = {} /\ s \in SUBSET (1 .. n)
    OBVIOUS
  <2>2. Good(0)
    BY <1>8, <2>1
  <2> HIDE DEF Good
  <2> QED  BY <2>2
<1>10. ASSUME NEW m \in Nat, m \in G PROVE m + 1 \in G
  <2> SUFFICES ASSUME m + 1 <= n PROVE Good(m + 1)
    <3> HIDE DEF Good
    <3> QED  OBVIOUS
  <2>1. Good(m)
    <3> HIDE DEF Good
    <3> QED  BY <1>10
  <2>2. ASSUME NEW s \in SUBSET (1 .. m + 1)
        PROVE  IsState(iter[s]) /\ IsApplied(heap, iter[s].files)
    <3>1. s \in SUBSET (1 .. n)
      OBVIOUS
    <3>2. CASE s = {}
      BY <1>8, <3>1, <3>2
    <3>3. CASE s # {}
      <4> DEFINE x == Max(s)
                 before == iter[s \ {x}]
      <4>1. x \in s /\ s \ {x} \in SUBSET (1 .. m)
        BY <3>3, LargestNumber
      <4>2. IsState(before) /\ IsApplied(heap, before.files)
        BY <2>1, <4>1
      <4>3. x \in 1 .. n
        BY <3>1, <4>1
      <4>4. iter[s] = UpdateParser(before, ids[x])
        BY <1>8, <3>1, <3>3
      <4> HIDE DEF before, x
      <4> QED  BY <4>2, <4>3, <4>4, UpdateParserOK
    <3> QED  BY <3>2, <3>3
  <2> QED  BY <2>2
<1>11. Nat \subseteq G
  <2> HIDE DEF G
  <2> QED  BY <1>9, <1>10, SetInduction
<1>12. Good(n)
  <2> HIDE DEF Good
  <2> QED  BY <1>11
<1> QED  BY <1>7, <1>12

\* Configuring a parser changes the log of files, and hasErrors with it; nothing else.
LEMMA ConfigureReports ==
  ASSUME HeapOK(files), NEW c, NEW id \in 1 .. Len(files)
  PROVE  IsApplied(files, UpdateWith(c, id).files)
<1> DEFINE s0 == [configuration |-> [c EXCEPT !.threw = FALSE], files |-> files]
           ids == Traversal[id]
<1>1. IsState(s0) /\ s0.files = files
  BY DEF IsState
<1>2. IsApplied(files, s0.files)
  BY <1>1, NothingApplied
<1>3. ids \in Seq(1 .. Len(files))
  BY TreeUnfolds DEF HeapOK
<1>4. /\ Len(ids) \in Nat /\ DOMAIN ids = 1 .. Len(ids)
      /\ \A i \in 1 .. Len(ids) : ids[i] \in 1 .. Len(files)
  <2> HIDE DEF ids
  <2> QED  BY <1>3
<1>5. UpdateWith(c, id) = FoldLeft(UpdateParser, s0, ids)
  BY DEF UpdateWith
<1> HIDE DEF s0, ids
<1> QED  BY <1>1, <1>2, <1>4, <1>5, UpdatesOK

\* _loadJsonObject(): the base files are named, and none is loaded yet
LEMMA LoadJsonObjectOK ==
  ASSUME NEW f, FileOK(f), ~f.fileNotFound, NEW json \in ConfigJson,
         json.json \notin {"garbage", "null"}
  PROVE  LET g == LoadJsonObject(f, json) IN
         /\ FileOK(g)
         /\ IsReported([f EXCEPT !.extendsPaths = g.extendsPaths], g)
<1> DEFINE g == LoadJsonObject(f, json)
           t == [i \in DOMAIN json.tagDefinitions |-> FromJson(json.tagDefinitions[i])]
           tagged == FoldLeft(AddTagDefinitionForLoad, f, t)
<1>0. /\ f \in File
      /\ f.extendsPaths \in Seq(STRING)
      /\ f = [f EXCEPT !.extendsPaths = f.extendsPaths]
  BY DEF FileOK, File
<1>1. CASE json.json = "otherSchema"
  <2>1. g = Report(f, <<"UnsupportedSchema">>)
    BY <1>1 DEF LoadJsonObject
  <2>2. <<"UnsupportedSchema">> \in Seq(MessageIds)
    BY DEF MessageIds
  <2>3. FileOK(g) /\ IsReported(f, g)
    BY <2>1, <2>2, ReportOK
  <2> HIDE DEF g
  <2>4. g.extendsPaths = f.extendsPaths
    BY <2>3 DEF IsReported, MoreErrors
  <2> QED  BY <1>0, <2>3, <2>4 DEF g
<1>2. CASE json.json = "invalid"
  <2>1. g = Report(f, <<"SchemaError">>)
    BY <1>2 DEF LoadJsonObject
  <2>2. <<"SchemaError">> \in Seq(MessageIds)
    BY DEF MessageIds
  <2>3. FileOK(g) /\ IsReported(f, g)
    BY <2>1, <2>2, ReportOK
  <2> HIDE DEF g
  <2>4. g.extendsPaths = f.extendsPaths
    BY <2>3 DEF IsReported, MoreErrors
  <2> QED  BY <1>0, <2>3, <2>4 DEF g
<1>3. CASE json.json = "settings"
  <2>1. json \in SettingsJson
    BY <1>3 DEF ConfigJson
  <2>2. /\ json.tagDefinitions \in Seq(JsonTag) /\ json.extends \in Seq(STRING)
        /\ json.noStandardTags \in Switch /\ json.supportForTags \in Seq(SupportEntry)
        /\ json.supportedHtmlElements \in Seq(SUBSET HtmlElements)
        /\ json.reportUnsupportedHtmlElements \in Switch
    BY <2>1 DEF SettingsJson
  <2>3. ASSUME NEW tag \in JsonTag PROVE FromJson(tag) \in TagParameters
    <3>1. DOMAIN JsonKinds = {"inline", "block", "modifier"}
      BY DEF JsonKinds
    <3>2. JsonKinds[tag.syntaxKind] \in SyntaxKinds
      BY <3>1 DEF JsonTag, JsonKinds, SyntaxKinds
    <3>3. tag.tagName \in Names
      BY DEF JsonTag
    <3> DEFINE kind == JsonKinds[tag.syntaxKind]
               many == tag.allowMultiple = "true"
    <3>4. FromJson(tag) = [tagName |-> tag.tagName, syntaxKind |-> kind, allowMultiple |-> many]
      BY DEF FromJson
    <3>5. many \in BOOLEAN
      OBVIOUS
    <3> HIDE DEF kind, many
    <3> QED  BY <3>2, <3>3, <3>4, <3>5 DEF TagParameters, kind
  <2>4. /\ Len(json.tagDefinitions) \in Nat /\ DOMAIN t = 1 .. Len(json.tagDefinitions)
        /\ \A i \in 1 .. Len(json.tagDefinitions) : t[i] \in TagParameters
    BY <2>2, <2>3
  <2>5. FileOK(tagged) /\ IsReported(f, tagged)
    <3> HIDE DEF t
    <3> QED  BY <2>4, LoadTagsOK
  <2> DEFINE h == tagged
             h1 == [h EXCEPT !.extendsPaths = json.extends]
             h2 == [h1 EXCEPT !.noStandardTags = json.noStandardTags]
             h3 == [h2 EXCEPT !.supportForTags = json.supportForTags]
             h4 == [h3 EXCEPT !.supportedHtmlElements = json.supportedHtmlElements]
             h5 == [h4 EXCEPT !.reportUnsupportedHtmlElements = json.reportUnsupportedHtmlElements]
  <2>6. g = h5
    BY <1>3 DEF LoadJsonObject
  <2> HIDE DEF g, tagged
  <2>7. h \in File
    BY <2>5 DEF FileOK
  <2> HIDE DEF h
  <2>8. /\ h1 \in File /\ h1.extendsPaths = json.extends
        /\ h1.log = h.log /\ h1.hasErrors = h.hasErrors
        /\ h1.filePath = h.filePath /\ h1.fileNotFound = h.fileNotFound
        /\ h1.version = h.version /\ h1.fileMTime = h.fileMTime
        /\ h1.extendsFiles = h.extendsFiles
    BY <2>2, <2>7 DEF File
  <2> HIDE DEF h1
  <2>9. h2 \in File
    BY <2>2, <2>8 DEF File
  <2>10. /\ h2.log = h1.log /\ h2.hasErrors = h1.hasErrors /\ IsReported(h1, h2)
    BY <2>8 DEF File, IsReported, MoreErrors
  <2> HIDE DEF h2
  <2>11. h3 \in File
    BY <2>2, <2>9 DEF File
  <2>12. /\ h3.log = h2.log /\ h3.hasErrors = h2.hasErrors /\ IsReported(h2, h3)
    BY <2>9 DEF File, IsReported, MoreErrors
  <2> HIDE DEF h3
  <2>13. h4 \in File
    BY <2>2, <2>11 DEF File
  <2>14. /\ h4.log = h3.log /\ h4.hasErrors = h3.hasErrors /\ IsReported(h3, h4)
    BY <2>11 DEF File, IsReported, MoreErrors
  <2> HIDE DEF h4
  <2>15. h5 \in File
    BY <2>2, <2>13 DEF File
  <2>16. /\ h5.log = h4.log /\ h5.hasErrors = h4.hasErrors /\ IsReported(h4, h5)
    BY <2>13 DEF File, IsReported, MoreErrors
  <2> HIDE DEF h5
  <2>17. /\ g \in File /\ g.log = h.log /\ g.hasErrors = h.hasErrors
         /\ g.filePath = h.filePath /\ g.fileNotFound = h.fileNotFound
         /\ g.version = h.version /\ g.fileMTime = h.fileMTime
         /\ g.extendsFiles = h.extendsFiles
    BY <2>6, <2>8, <2>10, <2>12, <2>14, <2>15, <2>16 DEF IsReported, MoreErrors
  <2>18. ~h.fileNotFound
    BY <2>5 DEF IsReported, MoreErrors, h
  <2>19. FileOK(g)
    BY <2>5, <2>17, <2>18 DEF FileOK, h
  <2> DEFINE e == [f EXCEPT !.extendsPaths = g.extendsPaths]
  <2>20. /\ e.extendsPaths = g.extendsPaths
         /\ e.log = f.log /\ e.hasErrors = f.hasErrors
         /\ e.filePath = f.filePath /\ e.fileNotFound = f.fileNotFound
         /\ e.version = f.version /\ e.fileMTime = f.fileMTime
         /\ e.extendsFiles = f.extendsFiles
    BY <1>0 DEF File
  <2> HIDE DEF e
  <2>21. IsReported(e, g)
    BY <2>5, <2>17, <2>20 DEF IsReported, MoreErrors, h
  <2> QED  BY <2>19, <2>21 DEF g, e
<1>4. json.json \in {"otherSchema", "invalid", "settings"}
  BY DEF ConfigJson, SettingsJson
<1> QED  BY <1>1, <1>2, <1>3, <1>4

-----------------------------------------------------------------------------
\* Steps of the heap: one file is replaced, or a new one is made.
LEMMA HeapSet ==
  ASSUME NEW heap, HeapOK(heap), NEW id \in 1 .. Len(heap), NEW f, FileOK(f),
         \A k \in DOMAIN f.extendsFiles : f.extendsFiles[k] \in id + 1 .. Len(heap)
  PROVE  LET after == [heap EXCEPT ![id] = f] IN
         /\ HeapOK(after) /\ Len(after) = Len(heap)
         /\ \A j \in 1 .. Len(heap) : after[j] = IF j = id THEN f ELSE heap[j]
<1> DEFINE after == [heap EXCEPT ![id] = f]
<1>1. heap \in Seq(File) /\ Len(heap) \in Nat /\ f \in File
  BY DEF HeapOK, FileOK
<1>2. /\ after \in Seq(File) /\ Len(after) = Len(heap)
      /\ \A j \in 1 .. Len(heap) : after[j] = IF j = id THEN f ELSE heap[j]
  BY <1>1
<1> HIDE DEF after
<1>3. f.extendsFiles \in Seq(Nat)
  BY <1>1 DEF File
<1>4. BasesFollow(after)
  BY <1>1, <1>2, <1>3 DEF BasesFollow, HeapOK
<1>5. \A j \in 1 .. Len(after) : FileOK(after[j])
  BY <1>2 DEF HeapOK
<1>6. HeapOK(after)
  BY <1>2, <1>4, <1>5 DEF HeapOK
<1> QED  BY <1>2, <1>6 DEF after

\* ... or a new one is made, without base files.
LEMMA HeapAppend ==
  ASSUME NEW heap, HeapOK(heap), NEW f, FileOK(f), f.extendsFiles = <<>>
  PROVE  LET after == Append(heap, f) IN
         /\ HeapOK(after) /\ Len(after) = Len(heap) + 1 /\ after[Len(heap) + 1] = f
         /\ \A j \in 1 .. Len(heap) : after[j] = heap[j]
<1> DEFINE after == Append(heap, f)
           n == Len(heap)
<1>1. heap \in Seq(File) /\ n \in Nat /\ f \in File
  BY DEF HeapOK, FileOK
<1>2. /\ after \in Seq(File) /\ Len(after) = n + 1 /\ after[n + 1] = f
      /\ \A j \in 1 .. n : after[j] = heap[j]
  BY <1>1
<1> HIDE DEF after
<1>3. \A j \in 1 .. n + 1 : j \in 1 .. n \/ j = n + 1
  BY <1>1
<1>4. ASSUME NEW j \in 1 .. n + 1
      PROVE  /\ after[j].extendsFiles \in Seq(Nat)
             /\ \A k \in DOMAIN after[j].extendsFiles : after[j].extendsFiles[k] \in j + 1 .. n + 1
             /\ FileOK(after[j])
  <2>1. CASE j = n + 1
    <3> DEFINE none == after[j].extendsFiles
    <3>1. after[j] = f /\ none = <<>>
      BY <1>2, <2>1
    <3> HIDE DEF none
    <3>2. none \in Seq(Nat) /\ DOMAIN none = {}
      BY <3>1
    <3> QED  BY <3>1, <3>2 DEF none
  <2>2. CASE j \in 1 .. n
    <3>1. /\ heap[j].extendsFiles \in Seq(Nat) /\ FileOK(heap[j])
          /\ \A k \in DOMAIN heap[j].extendsFiles : heap[j].extendsFiles[k] \in j + 1 .. n
      BY <2>2 DEF HeapOK, BasesFollow
    <3>2. \A i \in j + 1 .. n : i \in j + 1 .. n + 1
      BY <1>1
    <3> QED  BY <1>2, <2>2, <3>1, <3>2
  <2> QED  BY <1>3, <2>1, <2>2
<1>5. BasesFollow(after)
  BY <1>1, <1>2, <1>4 DEF BasesFollow
<1>6. HeapOK(after)
  BY <1>2, <1>4, <1>5 DEF HeapOK
<1> QED  BY <1>2, <1>6 DEF after

-----------------------------------------------------------------------------
(***************************************************************************)
(* Loading: the invariant of the recursion.                                *)
(***************************************************************************)
Stored == ConfigJson \union {Absent}
DiskOK ==
  /\ {RealPath[p] : p \in Paths} \subseteq DOMAIN disk
  /\ \A p \in DOMAIN disk : disk[p] \in Seq(Stored) /\ Len(disk[p]) \in 1 .. MaxVersions

\* What was read is not newer than what is there
VersionsOK ==
  \A id \in 1 .. Len(files) :
    files[id].version # 0 => files[id].version <= Time(files[id].filePath)

IsLoading == pc \in {"Exists", "Read", "Stat", "Visit", "Extends", "Return"}

\* Files come onto the stack in the order in which they are made, and are done when they
\* become a base file of another.
StackOK ==
  /\ stack \in Seq(1 .. Len(files)) /\ visited \subseteq Paths
  /\ \A i, j \in DOMAIN stack : i < j => stack[i] < stack[j]
  /\ pc = "Start" <=> stack = <<>>
  /\ pc = "Loaded" => Len(stack) = 1
  /\ IsLoading => \A id \in 1 .. Len(files) : \A k \in DOMAIN files[id].extendsFiles :
                    ~InRange(files[id].extendsFiles[k], stack)

\* A file of which not all base files were loaded is one with errors.
IsWhole(f) == Len(f.extendsFiles) < Len(f.extendsPaths) => f.hasErrors
PcOK ==
  /\ pc \in {"Start", "Exists", "Read", "Stat", "Visit", "Extends", "Return", "Loaded",
             "Configured", "Thrown"}
  /\ content \in Stored
  /\ pc \in {"Stat", "Visit"} => content # Absent
  /\ pc = "Exists" => thisFile.version = 0 /\ thisFile.extendsPaths = <<>>
  /\ pc \in {"Exists", "Read", "Stat", "Visit"} => ~thisFile.fileNotFound
  /\ pc \in {"Return", "Loaded"} => IsWhole(thisFile)

LoadInv == DiskOK /\ HeapOK(files) /\ VersionsOK /\ StackOK /\ PcOK

\* An error is one of the file itself, or of a base file.
ErrorsOK ==
  pc # "Configured" =>
    \A id \in 1 .. Len(files) :
      files[id].hasErrors <=>
        \/ files[id].log # <<>>
        \/ \E k \in DOMAIN files[id].extendsFiles : files[files[id].extendsFiles[k]].hasErrors

-----------------------------------------------------------------------------
(***************************************************************************)
(* The cache.                                                              *)
(***************************************************************************)
ClockOK ==
  /\ now \in 0 .. Horizon
  /\ DOMAIN changed = DOMAIN disk
  /\ \A p \in DOMAIN disk : changed[p] \in Seq(Nat) /\ Len(changed[p]) = Len(disk[p])

\* Where the lint is, and where its load
RequestOK ==
  /\ request = [key |-> request.key, now |-> request.now, step |-> request.step]
  /\ request.step \in {"none", "loading", "answered", "reported", "linted"}
  /\ request.now \in 0 .. now
  /\ request.step = "none" <=> pc = "Start"
  /\ IsLoading \/ pc = "Thrown" => request.step = "loading"
  /\ request.step \in {"answered", "reported"} => pc = "Loaded"
  /\ request.step = "linted" <=> pc = "Configured"

IsKeyOf(path, key) == path = key \/ (path = NoPath /\ key \in SourceFolders)
CachedOK ==
  /\ IsFiniteSet(DOMAIN cachedConfigs)
  /\ \A k \in DOMAIN cachedConfigs :
       /\ cachedConfigs[k] \in [configFile : 1 .. Len(files), loadTime : 0 .. now,
                                lastCheckTime : 0 .. now]
       /\ IsKeyOf(files[cachedConfigs[k].configFile].filePath, k)
       /\ IsWhole(files[cachedConfigs[k].configFile])
       /\ IsLoading => cachedConfigs[k].configFile < stack[1]
  /\ Cardinality(DOMAIN cachedConfigs) <= MaxSize + 1
  /\ request.step = "loading" =>
       /\ Cardinality(DOMAIN cachedConfigs) <= MaxSize
       /\ request.key \notin DOMAIN cachedConfigs
       /\ IsKeyOf(files[stack[1]].filePath, request.key)

CacheInv == LoadInv /\ ClockOK /\ RequestOK /\ CachedOK

-----------------------------------------------------------------------------
\* The same in the next state
LEMMA HeapOKPrime == HeapOK(files') => HeapOK(files)'
<1>1. BasesFollow(files') => BasesFollow(files)'
  BY DEF BasesFollow
<1>2. \A id : FileOK(files'[id]) => FileOK(files[id])'
  BY DEF FileOK
<1> QED  BY <1>1, <1>2 DEF HeapOK

\* What the invariant says of the stack, while something is loaded
LEMMA StackFacts ==
  ASSUME LoadInv, pc # "Start"
  PROVE  /\ Len(stack) \in Nat \ {0} /\ DOMAIN stack = 1 .. Len(stack)
         /\ this \in 1 .. Len(files) /\ Len(files) \in Nat
         /\ thisFile = files[this] /\ FileOK(thisFile) /\ thisFile \in File
         /\ stack[1] \in 1 .. Len(files) /\ stack[1] <= this
         /\ \A k \in DOMAIN thisFile.extendsFiles : thisFile.extendsFiles[k] \in this + 1 .. Len(files)
<1>1. /\ stack \in Seq(1 .. Len(files)) /\ stack # <<>> /\ HeapOK(files)
      /\ \A i, j \in DOMAIN stack : i < j => stack[i] < stack[j]
  BY DEF LoadInv, StackOK
<1>2. Len(files) \in Nat
  BY <1>1 DEF HeapOK
<1>3. Len(stack) \in Nat \ {0} /\ DOMAIN stack = 1 .. Len(stack)
  BY <1>1
<1>4. this \in 1 .. Len(files) /\ stack[1] \in 1 .. Len(files)
  BY <1>1, <1>3 DEF this
<1>5. stack[1] <= this
  BY <1>1, <1>2, <1>3, <1>4 DEF this
<1>6. thisFile = files[this]
  BY DEF thisFile
<1>7. FileOK(thisFile) /\ thisFile \in File
  BY <1>1, <1>4, <1>6 DEF HeapOK, FileOK
<1>8. \A k \in DOMAIN thisFile.extendsFiles : thisFile.extendsFiles[k] \in this + 1 .. Len(files)
  BY <1>1, <1>4, <1>6 DEF HeapOK, BasesFollow
<1> QED  BY <1>1, <1>2, <1>3, <1>4, <1>5, <1>6, <1>7, <1>8

\* A step of the load that changes the file on top of the stack
LEMMA BecomeKeeps ==
  ASSUME LoadInv, IsLoading, UNCHANGED <<disk, stack>>, visited' \subseteq Paths,
         NEW f, FileOK(f), f.filePath = thisFile.filePath,
         f.extendsFiles = thisFile.extendsFiles,
         f.version # 0 => f.version <= Time(f.filePath),
         NEW next, Become(f, next), next \notin {"Start", "Loaded"}
  PROVE  /\ DiskOK' /\ HeapOK(files') /\ VersionsOK' /\ StackOK'
         /\ Len(files') = Len(files) /\ thisFile' = f /\ pc' = next
         /\ \A j \in 1 .. Len(files) : files'[j] = IF j = this THEN f ELSE files[j]
<1>0. pc # "Start"
  BY DEF IsLoading
<1> USE <1>0, StackFacts
<1>1. files' = [files EXCEPT ![this] = f] /\ pc' = next
  BY DEF Become
<1>2. HeapOK(files) /\ this \in 1 .. Len(files)
  BY DEF LoadInv
<1>3. \A k \in DOMAIN f.extendsFiles : f.extendsFiles[k] \in this + 1 .. Len(files)
  OBVIOUS
<1> HIDE StackFacts
<1>4. /\ HeapOK(files') /\ Len(files') = Len(files)
      /\ \A j \in 1 .. Len(files) : files'[j] = IF j = this THEN f ELSE files[j]
  <2> DEFINE after == [files EXCEPT ![this] = f]
  <2>1. /\ HeapOK(after) /\ Len(after) = Len(files)
        /\ \A j \in 1 .. Len(files) : after[j] = IF j = this THEN f ELSE files[j]
    BY <1>2, <1>3, HeapSet
  <2>2. files' = after
    BY <1>1
  <2> HIDE DEF after
  <2> QED  BY <2>1, <2>2
<1>5. thisFile' = f
  BY <1>2, <1>4, StackFacts DEF thisFile, this
<1>6. DiskOK'
  BY DEF LoadInv, DiskOK
<1>7. VersionsOK'
  <2> SUFFICES ASSUME NEW id \in 1 .. Len(files), files'[id].version # 0
               PROVE  files'[id].version <= Time(files'[id].filePath)
    BY <1>4 DEF VersionsOK, Time
  <2> QED  BY <1>4 DEF LoadInv, VersionsOK
<1>8. StackOK'
  <2>1. \A id \in 1 .. Len(files) : files'[id].extendsFiles = files[id].extendsFiles
    BY <1>4, <1>0, StackFacts
  <2>2. \A id \in 1 .. Len(files) : \A k \in DOMAIN files[id].extendsFiles :
          ~InRange(files[id].extendsFiles[k], stack)
    BY DEF LoadInv, StackOK
  <2>3. \A id \in 1 .. Len(files') : \A k \in DOMAIN files'[id].extendsFiles :
          ~InRange(files'[id].extendsFiles[k], stack')
    BY <1>4, <2>1, <2>2
  <2>4. \A id \in 1 .. Len(files') : \A k \in DOMAIN files'[id].extendsFiles :
          (~InRange(files[id].extendsFiles[k], stack))'
    BY <2>3 DEF InRange
  <2>5. stack \in Seq(1 .. Len(files)) /\ stack # <<>> /\ visited' \subseteq Paths
    BY <1>0 DEF LoadInv, StackOK
  <2>6. \A i, j \in DOMAIN stack : i < j => stack[i] < stack[j]
    BY DEF LoadInv, StackOK
  <2> QED  BY <1>1, <1>4, <2>4, <2>5, <2>6 DEF StackOK
<1> QED  BY <1>1, <1>4, <1>5, <1>6, <1>7, <1>8

-----------------------------------------------------------------------------
(***************************************************************************)
(* The steps of _loadWithExtends().  Most of them change the file on top   *)
(* of the stack.                                                           *)
(***************************************************************************)
TopBecomes(f) ==
  /\ IsLoading /\ UNCHANGED <<disk, stack>> /\ FileOK(f)
  /\ Len(files') = Len(files)
  /\ \A j \in 1 .. Len(files) : files'[j] = IF j = this THEN f ELSE files[j]
  /\ f.filePath = thisFile.filePath /\ f.extendsFiles = thisFile.extendsFiles
  /\ MoreErrors(thisFile, f)

\* What was read, and when, is the same
SameReading(f, g) ==
  g.version = f.version /\ g.fileMTime = f.fileMTime /\ g.fileNotFound = f.fileNotFound

\* g is f after one look at the disk: the file was not there, or was read, or stat-ed
Reads(f, g) ==
  \/ SameReading(f, g)
  \/ g.fileNotFound /\ g.version = 0 /\ ~IsPresent(g.filePath)
  \/ /\ g.fileNotFound = f.fileNotFound /\ g.filePath \in Paths
     /\ \/ g.version = Time(g.filePath)
        \/ g.version = f.version /\ g.fileMTime = Time(g.filePath)

\* existsSync() said no: the file was not there, and nothing was read of it.
LEMMA FileMissingKeeps ==
  ASSUME LoadInv, FileMissing
  PROVE  LoadInv' /\ \E f : TopBecomes(f) /\ Reads(thisFile, f)
<1>0. pc = "Exists" /\ pc # "Start" /\ IsLoading /\ ~IsPresent(thisFile.filePath)
  BY DEF FileMissing, IsLoading
<1> DEFINE e == [thisFile EXCEPT !.fileNotFound = TRUE]
           ids == <<"FileNotFound">>
           f == Report(e, ids)
<1>1. FileOK(thisFile) /\ thisFile \in File
  BY <1>0, StackFacts
<1>2. thisFile.version = 0 /\ thisFile.extendsPaths = <<>>
  BY <1>0 DEF LoadInv, PcOK
<1>3. /\ e \in File /\ e.fileNotFound /\ e.version = 0 /\ e.extendsPaths = <<>>
      /\ e.log = thisFile.log /\ e.hasErrors = thisFile.hasErrors
      /\ e.filePath = thisFile.filePath /\ e.extendsFiles = thisFile.extendsFiles
  BY <1>1, <1>2 DEF File
<1> HIDE DEF e
<1>4. FileOK(e)
  BY <1>1, <1>3 DEF FileOK
<1>5. ids \in Seq(MessageIds) /\ ids # <<>>
  BY DEF MessageIds
<1> HIDE DEF ids
<1>6. /\ FileOK(f) /\ IsReported(e, f) /\ f.hasErrors
  BY <1>4, <1>5, ReportOK
<1>7. Become(f, "Return") /\ UNCHANGED <<disk, stack, visited>> /\ content' = content
  BY DEF FileMissing, e, ids
<1> HIDE DEF f
<1>8. /\ f.filePath = thisFile.filePath /\ f.extendsFiles = thisFile.extendsFiles
      /\ f.version = 0 /\ f.fileNotFound
      /\ MoreErrors(thisFile, f)
  BY <1>3, <1>6 DEF IsReported, MoreErrors
<1>9. /\ DiskOK' /\ HeapOK(files') /\ VersionsOK' /\ StackOK'
      /\ Len(files') = Len(files) /\ thisFile' = f /\ pc' = "Return"
      /\ \A j \in 1 .. Len(files) : files'[j] = IF j = this THEN f ELSE files[j]
  BY <1>0, <1>6, <1>7, <1>8, BecomeKeeps DEF LoadInv, StackOK
<1>10. PcOK'
  BY <1>6, <1>7, <1>9 DEF PcOK, LoadInv, IsWhole
<1>11. LoadInv'
  BY <1>9, <1>10, HeapOKPrime DEF LoadInv
<1>12. TopBecomes(f)
  BY <1>0, <1>6, <1>7, <1>8, <1>9 DEF TopBecomes
<1>13. ~IsPresent(f.filePath)
  BY <1>0, <1>8
<1> QED  BY <1>8, <1>11, <1>12, <1>13 DEF Reads

\* A step that changes no file
LEMMA StillKeeps ==
  ASSUME LoadInv, UNCHANGED <<disk, files, stack, visited>>, PcOK',
         pc' = "Start" <=> pc = "Start", pc' = "Loaded" => Len(stack) = 1,
         IsLoading' => IsLoading
  PROVE  LoadInv'
<1>1. DiskOK'
  BY DEF LoadInv, DiskOK
<1>2. HeapOK(files)'
  <2>1. HeapOK(files')
    BY DEF LoadInv
  <2> QED  BY <2>1, HeapOKPrime
<1>3. VersionsOK'
  BY DEF LoadInv, VersionsOK, Time
<1>4. StackOK'
  <2>1. \A x : InRange(x, stack)' <=> InRange(x, stack)
    BY DEF InRange
  <2> QED  BY <2>1 DEF LoadInv, StackOK
<1> QED  BY <1>1, <1>2, <1>3, <1>4 DEF LoadInv

\* existsSync() said yes: nothing is known yet.
LEMMA FileExistsKeeps ==
  ASSUME LoadInv, FileExists
  PROVE  LoadInv' /\ IsLoading /\ UNCHANGED <<disk, files, stack>>
<1>1. /\ pc = "Exists" /\ pc' = "Read" /\ UNCHANGED <<disk, files, stack, visited, content>>
      /\ IsLoading
  BY DEF FileExists, IsLoading
<1>2. PcOK'
  BY <1>1 DEF LoadInv, PcOK, thisFile, this
<1> QED  BY <1>1, <1>2, StillKeeps

\* A system call throws, and the load with it.
LEMMA FileVanishedKeeps ==
  ASSUME LoadInv, FileVanished
  PROVE  LoadInv' /\ IsLoading /\ UNCHANGED <<disk, files, stack>>
<1>1. /\ pc \in {"Read", "Stat", "Visit"} /\ pc' = "Thrown"
      /\ UNCHANGED <<disk, files, stack, visited, content>>
      /\ IsLoading
  BY DEF FileVanished, IsLoading
<1>2. PcOK'
  BY <1>1 DEF LoadInv, PcOK, thisFile, this
<1> QED  BY <1>1, <1>2, StillKeeps

\* After the last base file, as many are loaded as are named.
LEMMA AllExtendedKeeps ==
  ASSUME LoadInv, AllExtended
  PROVE  LoadInv' /\ IsLoading /\ UNCHANGED <<disk, files, stack>>
<1>1. /\ pc = "Extends" /\ pc' = "Return" /\ ~hasExtendsField /\ IsLoading
      /\ UNCHANGED <<disk, files, stack, visited, content>>
  BY DEF AllExtended, IsLoading
<1>2. PcOK'
  BY <1>1 DEF LoadInv, PcOK, thisFile, this, IsWhole, hasExtendsField
<1> QED  BY <1>1, <1>2, StillKeeps

\* The first file is done, with all its base files or with errors.
LEMMA ReturnFileKeeps ==
  ASSUME LoadInv, ReturnFile
  PROVE  LoadInv' /\ IsLoading /\ UNCHANGED <<disk, files, stack>>
<1>1. /\ pc = "Return" /\ pc' = "Loaded" /\ Len(stack) = 1 /\ IsLoading
      /\ UNCHANGED <<disk, files, stack, visited, content>>
  BY DEF ReturnFile, IsLoading
<1>2. PcOK'
  BY <1>1 DEF LoadInv, PcOK, thisFile, this, IsWhole
<1> QED  BY <1>1, <1>2, StillKeeps

\* What is on the disk
LEMMA DiskFacts ==
  ASSUME LoadInv, NEW p \in Paths
  PROVE  /\ Time(p) \in 1 .. MaxVersions /\ Current(p) \in Stored
         /\ RealPath[p] \in DOMAIN disk /\ RealPath[p] \in Paths
         /\ disk[RealPath[p]] \in Seq(Stored)
         /\ Time(p) = Len(disk[RealPath[p]])
<1>1. RealPath[p] \in DOMAIN disk /\ RealPath[p] \in Paths
  BY PathsAssumption DEF LoadInv, DiskOK
<1>2. disk[RealPath[p]] \in Seq(Stored) /\ Len(disk[RealPath[p]]) \in 1 .. MaxVersions
  BY <1>1 DEF LoadInv, DiskOK
<1>3. MaxVersions \in Nat
  BY DisksAssumption
<1> DEFINE d == disk[RealPath[p]]
<1>4. Len(d) \in 1 .. Len(d) /\ DOMAIN d = 1 .. Len(d)
  BY <1>2, <1>3
<1>5. d[Len(d)] \in Stored
  BY <1>2, <1>4
<1> QED  BY <1>1, <1>2, <1>5 DEF Time, Current

\* readFileSync(): what was read is the newest content there is.
LEMMA ReadFileKeeps ==
  ASSUME LoadInv, ReadFile
  PROVE  LoadInv' /\ \E f : TopBecomes(f) /\ Reads(thisFile, f)
<1>0. pc = "Read" /\ pc # "Start" /\ IsLoading /\ IsPresent(thisFile.filePath)
  BY DEF ReadFile, IsLoading
<1> DEFINE p == thisFile.filePath
           f == [thisFile EXCEPT !.version = Time(p)]
<1>1. FileOK(thisFile) /\ thisFile \in File
  BY <1>0, StackFacts
<1>2. ~thisFile.fileNotFound
  BY <1>0 DEF LoadInv, PcOK
<1>3. p \in Paths /\ Current(p) # Absent /\ Current(p) \in Stored /\ Time(p) \in 1 .. MaxVersions
  BY <1>0, DiskFacts DEF IsPresent
<1>4. Become(f, "Stat") /\ UNCHANGED <<disk, stack, visited>> /\ content' = Current(p)
  BY DEF ReadFile
<1>5. MaxVersions \in Nat
  BY DisksAssumption
<1>6. /\ f \in File /\ f.version = Time(p) /\ f.filePath = p
      /\ f.fileMTime = thisFile.fileMTime /\ f.fileNotFound = thisFile.fileNotFound
      /\ f.log = thisFile.log /\ f.hasErrors = thisFile.hasErrors
      /\ f.extendsFiles = thisFile.extendsFiles /\ f.extendsPaths = thisFile.extendsPaths
  <2> DEFINE t == Time(p)
  <2>1. t \in 0 .. MaxVersions
    BY <1>3, <1>5
  <2> HIDE DEF t
  <2>2. f = [thisFile EXCEPT !.version = t]
    BY DEF t
  <2> HIDE DEF f
  <2> QED  BY <1>1, <2>1, <2>2 DEF File, t
<1> HIDE DEF f
<1>7. FileOK(f)
  BY <1>1, <1>2, <1>3, <1>6 DEF FileOK
<1>8. MoreErrors(thisFile, f)
  BY <1>6 DEF MoreErrors
<1>9. f.version # 0 => f.version <= Time(f.filePath)
  BY <1>3, <1>5, <1>6
<1>10. /\ DiskOK' /\ HeapOK(files') /\ VersionsOK' /\ StackOK'
       /\ Len(files') = Len(files) /\ thisFile' = f /\ pc' = "Stat"
       /\ \A j \in 1 .. Len(files) : files'[j] = IF j = this THEN f ELSE files[j]
  BY <1>0, <1>4, <1>6, <1>7, <1>9, BecomeKeeps DEF LoadInv, StackOK
<1>11. PcOK'
  BY <1>2, <1>3, <1>4, <1>6, <1>10 DEF PcOK, LoadInv
<1>12. LoadInv'
  BY <1>10, <1>11, HeapOKPrime DEF LoadInv
<1>13. TopBecomes(f)
  BY <1>0, <1>4, <1>6, <1>7, <1>8, <1>10 DEF TopBecomes
<1> QED  BY <1>3, <1>6, <1>12, <1>13 DEF Reads

\* statSync(): the time may be newer than what was read.
LEMMA StatFileKeeps ==
  ASSUME LoadInv, StatFile
  PROVE  LoadInv' /\ \E f : TopBecomes(f) /\ Reads(thisFile, f)
<1>0. pc = "Stat" /\ pc # "Start" /\ IsLoading /\ IsPresent(thisFile.filePath)
  BY DEF StatFile, IsLoading
<1> DEFINE p == thisFile.filePath
           f == [thisFile EXCEPT !.fileMTime = Time(p)]
<1>1. /\ FileOK(thisFile) /\ thisFile \in File
      /\ thisFile = files[this] /\ this \in 1 .. Len(files)
  BY <1>0, StackFacts
<1>2. ~thisFile.fileNotFound /\ content # Absent /\ content \in Stored
  BY <1>0 DEF LoadInv, PcOK
<1>3. p \in Paths /\ Time(p) \in 1 .. MaxVersions
  BY <1>0, DiskFacts DEF IsPresent
<1>4. Become(f, "Visit") /\ UNCHANGED <<disk, stack, visited, content>>
  BY DEF StatFile
<1>5. MaxVersions \in Nat
  BY DisksAssumption
<1>6. /\ f \in File /\ f.version = thisFile.version /\ f.filePath = p
      /\ f.fileMTime = Time(p) /\ f.fileNotFound = thisFile.fileNotFound
      /\ f.log = thisFile.log /\ f.hasErrors = thisFile.hasErrors
      /\ f.extendsFiles = thisFile.extendsFiles /\ f.extendsPaths = thisFile.extendsPaths
  <2> DEFINE t == Time(p)
  <2>1. t \in 0 .. MaxVersions
    BY <1>3, <1>5
  <2> HIDE DEF t
  <2>2. f = [thisFile EXCEPT !.fileMTime = t]
    BY DEF t
  <2> HIDE DEF f
  <2> QED  BY <1>1, <2>1, <2>2 DEF File, t
<1> HIDE DEF f
<1>7. FileOK(f)
  BY <1>1, <1>2, <1>3, <1>6 DEF FileOK
<1>8. MoreErrors(thisFile, f)
  BY <1>6 DEF MoreErrors
<1>9. f.version # 0 => f.version <= Time(f.filePath)
  BY <1>1, <1>6 DEF LoadInv, VersionsOK
<1>10. /\ DiskOK' /\ HeapOK(files') /\ VersionsOK' /\ StackOK'
       /\ Len(files') = Len(files) /\ thisFile' = f /\ pc' = "Visit"
       /\ \A j \in 1 .. Len(files) : files'[j] = IF j = this THEN f ELSE files[j]
  BY <1>0, <1>4, <1>6, <1>7, <1>9, BecomeKeeps DEF LoadInv, StackOK
<1>11. PcOK'
  BY <1>2, <1>4, <1>6, <1>10 DEF PcOK, LoadInv
<1>12. LoadInv'
  BY <1>10, <1>11, HeapOKPrime DEF LoadInv
<1>13. TopBecomes(f)
  BY <1>0, <1>4, <1>6, <1>7, <1>8, <1>10 DEF TopBecomes
<1> QED  BY <1>3, <1>6, <1>12, <1>13 DEF Reads

\* An error is reported, and the file is done.
LEMMA ReportKeeps ==
  ASSUME LoadInv, IsLoading, UNCHANGED <<disk, stack>>, visited' \subseteq Paths,
         content' \in Stored,
         NEW ids \in Seq(MessageIds), ids # <<>>, Become(Report(thisFile, ids), "Return")
  PROVE  LoadInv' /\ \E f : TopBecomes(f) /\ Reads(thisFile, f)
<1>0. pc # "Start"
  BY DEF IsLoading
<1> DEFINE f == Report(thisFile, ids)
<1>1. /\ FileOK(thisFile) /\ thisFile \in File
      /\ thisFile = files[this] /\ this \in 1 .. Len(files)
  BY <1>0, StackFacts
<1>2. FileOK(f) /\ IsReported(thisFile, f) /\ f.hasErrors
  BY <1>1, ReportOK
<1>3. Become(f, "Return")
  OBVIOUS
<1> HIDE DEF f
<1>4. /\ f.filePath = thisFile.filePath /\ f.extendsFiles = thisFile.extendsFiles
      /\ f.version = thisFile.version /\ MoreErrors(thisFile, f) /\ SameReading(thisFile, f)
  BY <1>2 DEF IsReported, SameReading
<1>5. f.version # 0 => f.version <= Time(f.filePath)
  BY <1>1, <1>4 DEF LoadInv, VersionsOK
<1>6. /\ DiskOK' /\ HeapOK(files') /\ VersionsOK' /\ StackOK'
      /\ Len(files') = Len(files) /\ thisFile' = f /\ pc' = "Return"
      /\ \A j \in 1 .. Len(files) : files'[j] = IF j = this THEN f ELSE files[j]
  BY <1>2, <1>3, <1>4, <1>5, BecomeKeeps
<1>7. PcOK'
  BY <1>2, <1>6 DEF PcOK, IsWhole
<1>8. LoadInv'
  BY <1>6, <1>7, HeapOKPrime DEF LoadInv
<1>9. TopBecomes(f)
  BY <1>2, <1>4, <1>6 DEF TopBecomes
<1> QED  BY <1>4, <1>8, <1>9 DEF Reads

\* A file that was visited has an error, and is done.
LEMMA RejectCircularKeeps ==
  ASSUME LoadInv, RejectCircular
  PROVE  LoadInv' /\ \E f : TopBecomes(f) /\ Reads(thisFile, f)
<1>1. /\ IsLoading /\ UNCHANGED <<disk, stack, visited, content>>
      /\ Become(Report(thisFile, <<"CyclicExtends">>), "Return") /\ visited \subseteq Paths
  BY DEF RejectCircular, IsLoading, LoadInv, StackOK
<1>2. <<"CyclicExtends">> \in Seq(MessageIds) /\ <<"CyclicExtends">> # <<>>
  BY DEF MessageIds
<1>3. content' \in Stored
  BY <1>1 DEF LoadInv, PcOK
<1> QED  BY <1>1, <1>2, <1>3, ReportKeeps

\* A base file that is not there is an error of the file that names it.
LEMMA UnresolvedExtendsKeeps ==
  ASSUME LoadInv, UnresolvedExtends
  PROVE  LoadInv' /\ \E f : TopBecomes(f) /\ Reads(thisFile, f)
<1>1. /\ IsLoading /\ UNCHANGED <<disk, stack, visited, content>>
      /\ Become(Report(thisFile, <<"UnresolvedExtends">>), "Return") /\ visited \subseteq Paths
  BY DEF UnresolvedExtends, IsLoading, LoadInv, StackOK
<1>2. <<"UnresolvedExtends">> \in Seq(MessageIds) /\ <<"UnresolvedExtends">> # <<>>
  BY DEF MessageIds
<1>3. content' \in Stored
  BY <1>1 DEF LoadInv, PcOK
<1> QED  BY <1>1, <1>2, <1>3, ReportKeeps

\* The JSON is read in one of three ways: with an error, an exception or its settings.
LEMMA ParseFileKeeps ==
  ASSUME LoadInv, ParseFile
  PROVE  LoadInv' /\ \E f : TopBecomes(f) /\ Reads(thisFile, f)
<1>1. /\ IsLoading /\ pc = "Visit" /\ pc # "Start" /\ UNCHANGED <<disk, stack>>
      /\ IsPresent(thisFile.filePath) /\ content' = Absent
      /\ visited' = visited \union {RealPath[thisFile.filePath]}
  BY DEF ParseFile, IsLoading
<1>2. thisFile.filePath \in Paths /\ RealPath[thisFile.filePath] \in Paths
  BY <1>1, DiskFacts DEF IsPresent
<1>3. visited' \subseteq Paths /\ content' \in Stored
  BY <1>1, <1>2 DEF LoadInv, StackOK, Stored
<1>4. content \in ConfigJson /\ ~thisFile.fileNotFound
  BY <1>1 DEF LoadInv, PcOK, Stored
<1>5. /\ FileOK(thisFile) /\ thisFile \in File
      /\ thisFile = files[this] /\ this \in 1 .. Len(files)
  BY <1>1, StackFacts
<1>6. thisFile.version # 0 => thisFile.version <= Time(thisFile.filePath)
  BY <1>5 DEF LoadInv, VersionsOK
<1>7. CASE content.json = "garbage"
  <2>1. Become(Report(thisFile, <<"InvalidJson">>), "Return")
    BY <1>7 DEF ParseFile
  <2>2. <<"InvalidJson">> \in Seq(MessageIds) /\ <<"InvalidJson">> # <<>>
    BY DEF MessageIds
  <2> QED  BY <1>1, <1>3, <2>1, <2>2, ReportKeeps
<1>8. ASSUME NEW f, FileOK(f), f.filePath = thisFile.filePath,
             f.extendsFiles = thisFile.extendsFiles, MoreErrors(thisFile, f),
             SameReading(thisFile, f),
             NEW next \in {"Thrown", "Extends"}, Become(f, next)
      PROVE  LoadInv' /\ TopBecomes(f) /\ Reads(thisFile, f)
  <2>1. f.version # 0 => f.version <= Time(f.filePath)
    BY <1>6, <1>8 DEF SameReading
  <2>2. /\ DiskOK' /\ HeapOK(files') /\ VersionsOK' /\ StackOK'
        /\ Len(files') = Len(files) /\ thisFile' = f /\ pc' = next
        /\ \A j \in 1 .. Len(files) : files'[j] = IF j = this THEN f ELSE files[j]
    BY <1>1, <1>3, <1>8, <2>1, BecomeKeeps
  <2>3. PcOK'
    BY <1>3, <2>2 DEF PcOK
  <2>4. LoadInv'
    BY <2>2, <2>3, HeapOKPrime DEF LoadInv
  <2>5. TopBecomes(f)
    BY <1>1, <1>8, <2>2 DEF TopBecomes
  <2> QED  BY <1>8, <2>4, <2>5 DEF Reads
<1>9. CASE content.json = "null"
  <2>1. Become(thisFile, "Thrown")
    BY <1>9 DEF ParseFile
  <2>2. MoreErrors(thisFile, thisFile) /\ SameReading(thisFile, thisFile)
    BY DEF MoreErrors, SameReading
  <2> QED  BY <1>5, <1>8, <2>1, <2>2
<1>10. CASE content.json \notin {"garbage", "null"}
  <2> DEFINE g == LoadJsonObject(thisFile, content)
             e == [thisFile EXCEPT !.extendsPaths = g.extendsPaths]
  <2>1. Become(g, "Extends")
    BY <1>10 DEF ParseFile
  <2>2. FileOK(g) /\ IsReported(e, g)
    BY <1>4, <1>5, <1>10, LoadJsonObjectOK
  <2> HIDE DEF g
  <2>3. /\ e.filePath = thisFile.filePath /\ e.extendsFiles = thisFile.extendsFiles
        /\ e.log = thisFile.log /\ e.hasErrors = thisFile.hasErrors
        /\ e.version = thisFile.version /\ e.fileMTime = thisFile.fileMTime
        /\ e.fileNotFound = thisFile.fileNotFound
    BY <1>5 DEF File
  <2> HIDE DEF e
  <2>4. /\ g.filePath = thisFile.filePath /\ g.extendsFiles = thisFile.extendsFiles
        /\ MoreErrors(thisFile, g) /\ SameReading(thisFile, g)
    BY <2>2, <2>3 DEF IsReported, MoreErrors, SameReading
  <2> QED  BY <1>8, <2>1, <2>2, <2>4
<1> QED  BY <1>7, <1>9, <1>10

\* A file object is made, and nothing is known of its file
FileAdded(path) ==
  /\ IsLoading' /\ UNCHANGED disk
  /\ Len(files') = Len(files) + 1
  /\ \A j \in 1 .. Len(files) : files'[j] = files[j]
  /\ LET f == files'[Len(files) + 1] IN
     /\ FileOK(f) /\ f.filePath = path /\ f.version = 0 /\ ~f.fileNotFound
     /\ f.log = <<>> /\ ~f.hasErrors /\ f.extendsPaths = <<>> /\ f.extendsFiles = <<>>

\* A file object comes onto the stack, above the one that extends it.
LEMMA PushKeeps ==
  ASSUME LoadInv, NEW path \in Paths \union {NoPath}, pc \in {"Start", "Extends"},
         files' = Append(files, [NewFile EXCEPT !.filePath = path]),
         stack' = Append(stack, Len(files) + 1), visited' \subseteq Paths, pc' = "Exists",
         UNCHANGED <<disk, content>>
  PROVE  LoadInv' /\ FileAdded(path)
<1> DEFINE n == Len(files)
           f == [NewFile EXCEPT !.filePath = path]
           after == Append(files, f)
           pushed == Append(stack, n + 1)
<1>1. /\ FileOK(f) /\ f.filePath = path /\ f.version = 0 /\ f.log = <<>>
      /\ ~f.fileNotFound /\ ~f.hasErrors /\ f.extendsPaths = <<>> /\ f.extendsFiles = <<>>
  BY NewFileOK
<1>2. files' = after /\ stack' = pushed
  OBVIOUS
<1> HIDE DEF f
<1>3. HeapOK(files) /\ n \in Nat
  BY DEF LoadInv, HeapOK, BasesFollow
<1>4. /\ HeapOK(after) /\ Len(after) = n + 1 /\ after[n + 1] = f
      /\ \A j \in 1 .. n : after[j] = files[j]
  BY <1>1, <1>3, HeapAppend
<1> HIDE DEF after
<1>5. HeapOK(files') /\ HeapOK(files)'
  BY <1>2, <1>4, HeapOKPrime
<1>6. /\ stack \in Seq(1 .. n) /\ Len(stack) \in Nat
      /\ \A i, j \in DOMAIN stack : i < j => stack[i] < stack[j]
  BY DEF LoadInv, StackOK
<1> DEFINE m == Len(stack)
<1>7. /\ pushed \in Seq(1 .. n + 1) /\ Len(pushed) = m + 1 /\ pushed[m + 1] = n + 1
      /\ DOMAIN pushed = 1 .. m + 1
      /\ \A i \in 1 .. m : pushed[i] = stack[i] /\ stack[i] \in 1 .. n
  <2>1. stack \in Seq(1 .. n + 1) /\ n + 1 \in 1 .. n + 1
    BY <1>3, <1>6
  <2> QED  BY <1>6, <2>1
<1> HIDE DEF pushed
<1>8. \A i, j \in 1 .. m + 1 : i < j => pushed[i] < pushed[j]
  <2> SUFFICES ASSUME NEW i \in 1 .. m + 1, NEW j \in 1 .. m + 1, i < j
               PROVE  pushed[i] < pushed[j]
    OBVIOUS
  <2>0. m \in Nat
    BY <1>6
  <2>1. i \in 1 .. m /\ (j \in 1 .. m \/ j = m + 1)
    <3> HIDE DEF m
    <3> QED  BY <2>0
  <2>2. pushed[i] = stack[i] /\ stack[i] \in 1 .. n
    BY <1>7, <2>1
  <2>3. CASE j \in 1 .. m
    <3>1. stack[i] < stack[j]
      BY <1>6, <2>1, <2>3
    <3> QED  BY <1>7, <2>1, <2>3, <3>1
  <2>4. CASE j = m + 1
    BY <1>3, <1>7, <2>2, <2>4
  <2> QED  BY <2>1, <2>3, <2>4
<1>9. ASSUME NEW id \in 1 .. n + 1, NEW k \in DOMAIN after[id].extendsFiles
      PROVE  ~InRange(after[id].extendsFiles[k], pushed)
  <2>1. id \in 1 .. n
    <3> SUFFICES ASSUME id = n + 1 PROVE FALSE
      BY <1>3
    <3> DEFINE none == after[id].extendsFiles
    <3>1. none = <<>>
      BY <1>1, <1>4
    <3>2. k \in DOMAIN none
      BY <1>9
    <3> HIDE DEF none
    <3> QED  BY <3>1, <3>2
  <2> DEFINE base == files[id].extendsFiles[k]
  <2>2. k \in DOMAIN files[id].extendsFiles /\ base \in id + 1 .. n /\ after[id].extendsFiles[k] = base
    BY <1>3, <1>4, <1>9, <2>1 DEF HeapOK, BasesFollow
  <2> HIDE DEF base
  <2>3. base \in 1 .. n /\ base # n + 1
    BY <1>3, <2>1, <2>2
  <2>4. \A i \in 1 .. m : stack[i] # base
    <3>1. CASE pc = "Start"
      <4>1. stack = <<>>
        BY <3>1 DEF LoadInv, StackOK
      <4> QED  BY <4>1
    <3>2. CASE pc = "Extends"
      <4>1. ~InRange(base, stack)
        BY <2>1, <2>2, <3>2 DEF LoadInv, StackOK, IsLoading, base
      <4> QED  BY <1>6, <4>1 DEF InRange
    <3> QED  BY <3>1, <3>2
  <2>5. ~InRange(base, pushed)
    <3> SUFFICES ASSUME NEW i \in 1 .. m + 1, pushed[i] = base PROVE FALSE
      BY <1>7 DEF InRange
    <3>1. i \in 1 .. m \/ i = m + 1
      BY <1>6
    <3> QED  BY <1>7, <2>3, <2>4, <3>1
  <2> QED  BY <2>2, <2>5
<1>10. StackOK'
  <2>1. stack' # <<>> /\ pc' # "Start" /\ pc' # "Loaded"
    BY <1>2, <1>6, <1>7
  <2>2. \A id \in 1 .. Len(files') : \A k \in DOMAIN files'[id].extendsFiles :
          ~InRange(files'[id].extendsFiles[k], stack')
    BY <1>2, <1>4, <1>9
  <2>3. \A id \in 1 .. Len(files') : \A k \in DOMAIN files'[id].extendsFiles :
          (~InRange(files[id].extendsFiles[k], stack))'
    BY <2>2 DEF InRange
  <2>4. \A i, j \in DOMAIN stack' : i < j => stack'[i] < stack'[j]
    BY <1>2, <1>7, <1>8
  <2>5. stack' \in Seq(1 .. Len(files'))
    BY <1>2, <1>4, <1>7
  <2> QED  BY <2>1, <2>3, <2>4, <2>5 DEF StackOK
<1>11. VersionsOK'
  <2> SUFFICES ASSUME NEW id \in 1 .. n + 1, files'[id].version # 0
               PROVE  files'[id].version <= Time(files'[id].filePath)
    BY <1>2, <1>4 DEF VersionsOK, Time
  <2>1. id = n + 1 => files'[id] = f
    BY <1>2, <1>4
  <2>2. id # n + 1
    BY <1>1, <2>1
  <2>3. id \in 1 .. n
    <3>1. n \in Nat
      BY <1>3
    <3> HIDE DEF n
    <3> QED  BY <2>2, <3>1
  <2>4. files'[id] = files[id]
    BY <1>2, <1>4, <2>3
  <2> QED  BY <2>3, <2>4 DEF LoadInv, VersionsOK
<1>12. DiskOK'
  BY DEF LoadInv, DiskOK
<1>13. this' = n + 1 /\ thisFile' = f
  BY <1>2, <1>4, <1>6, <1>7 DEF this, thisFile
<1>14. PcOK'
  BY <1>1, <1>13 DEF PcOK, LoadInv
<1>15. LoadInv'
  BY <1>5, <1>10, <1>11, <1>12, <1>14 DEF LoadInv
<1>16. IsLoading'
  BY DEF IsLoading
<1>17. FileAdded(path)
  BY <1>1, <1>2, <1>4, <1>16 DEF FileAdded
<1> QED  BY <1>15, <1>17

\* ... the first of a load
LEMMA LoadFileKeeps ==
  ASSUME LoadInv, NEW path \in Paths \union {NoPath}, LoadFile(path)
  PROVE  LoadInv' /\ FileAdded(path) /\ stack' = <<Len(files) + 1>>
<1>1. /\ pc = "Start" /\ pc' = "Exists" /\ stack' = <<Len(files) + 1>> /\ visited' = {}
      /\ files' = Append(files, [NewFile EXCEPT !.filePath = path])
      /\ UNCHANGED <<disk, content>>
  BY DEF LoadFile
<1>2. stack = <<>>
  BY <1>1 DEF LoadInv, StackOK
<1>3. stack' = Append(stack, Len(files) + 1)
  BY <1>1, <1>2
<1> QED  BY <1>1, <1>3, PushKeeps

\* ... or a base file
LEMMA LoadBaseFileKeeps ==
  ASSUME LoadInv, LoadBaseFile
  PROVE  /\ LoadInv' /\ IsLoading /\ stack' = Append(stack, Len(files) + 1)
         /\ \E path \in Paths : FileAdded(path)
<1>1. /\ pc = "Extends" /\ pc' = "Exists" /\ stack' = Append(stack, Len(files) + 1)
      /\ extendsField \in Paths
      /\ files' = Append(files, [NewFile EXCEPT !.filePath = extendsField])
      /\ UNCHANGED <<disk, content, visited>>
  BY DEF LoadBaseFile, IsPresent
<1>2. visited' \subseteq Paths /\ IsLoading
  BY <1>1 DEF LoadInv, StackOK, IsLoading
<1> DEFINE path == extendsField
<1>3. path \in Paths /\ files' = Append(files, [NewFile EXCEPT !.filePath = path])
  BY <1>1
<1> HIDE DEF path
<1>4. LoadInv' /\ FileAdded(path)
  BY <1>1, <1>2, <1>3, PushKeeps
<1> QED  BY <1>1, <1>2, <1>3, <1>4

\* The base file that is done comes off the stack, and the file below refers to it.
Returned(below, h) ==
  /\ IsLoading /\ UNCHANGED disk
  /\ below \in 1 .. Len(files) /\ below < this
  /\ stack' \in Seq(1 .. Len(files)) /\ Len(stack') = Len(stack) - 1 /\ Len(stack) > 1
  /\ \A i \in 1 .. Len(stack') : stack'[i] = stack[i]
  /\ below = stack[Len(stack) - 1] /\ below = this'
  /\ Len(files') = Len(files)
  /\ \A j \in 1 .. Len(files) : files'[j] = IF j = below THEN h ELSE files[j]
  /\ FileOK(h) /\ h.filePath = files[below].filePath /\ SameReading(files[below], h)
  /\ h.extendsPaths = files[below].extendsPaths
  /\ h.extendsFiles = Append(files[below].extendsFiles, this)
  /\ h.log # <<>> <=> files[below].log # <<>> \/ thisFile.fileNotFound
  /\ h.hasErrors <=> files[below].hasErrors \/ thisFile.fileNotFound \/ thisFile.hasErrors

\* A sequence without its last element
LEMMA FrontElements ==
  ASSUME NEW S, NEW s \in Seq(S), Len(s) > 1
  PROVE  /\ Front(s) \in Seq(S) /\ Len(Front(s)) = Len(s) - 1
         /\ \A i \in 1 .. Len(s) - 1 : Front(s)[i] = s[i]
BY DEF Front

\* The file below is given its base file, and the errors of it.
LEMMA ReturnBaseFileKeeps ==
  ASSUME LoadInv, ReturnBaseFile
  PROVE  LoadInv' /\ \E below, h : Returned(below, h)
<1> DEFINE n == Len(files)
           m == Len(stack)
           below == stack[m - 1]
           unresolved == IF thisFile.fileNotFound THEN <<"UnresolvedExtends">> ELSE <<>>
           e == Report(files[below], unresolved)
           h == [e EXCEPT !.extendsFiles = Append(@, this), !.hasErrors = @ \/ thisFile.hasErrors]
           after == [files EXCEPT ![below] = h]
<1>1. /\ pc = "Return" /\ m > 1 /\ pc' = "Extends" /\ IsLoading /\ pc # "Start"
      /\ stack' = Front(stack) /\ UNCHANGED <<disk, visited, content>>
  BY DEF ReturnBaseFile, IsLoading
<1>2. files' = after
  BY DEF ReturnBaseFile
<1>3. /\ stack \in Seq(1 .. n) /\ m \in Nat /\ n \in Nat /\ HeapOK(files)
      /\ DOMAIN stack = 1 .. m /\ visited \subseteq Paths
      /\ \A i, j \in 1 .. m : i < j => stack[i] < stack[j]
  BY DEF LoadInv, StackOK, HeapOK, BasesFollow
<1>4. /\ this = stack[m] /\ thisFile = files[this] /\ this \in 1 .. n /\ FileOK(thisFile)
  BY <1>1, StackFacts DEF this
<1>5. m - 1 \in 1 .. m /\ m - 1 < m /\ m \in 1 .. m
  BY <1>1, <1>3
<1>6. below \in 1 .. n /\ below < this /\ this \in below + 1 .. n
  BY <1>3, <1>4, <1>5
<1>7. FileOK(files[below])
  BY <1>3, <1>6 DEF HeapOK
<1>8. /\ unresolved \in Seq(MessageIds)
      /\ unresolved # <<>> <=> thisFile.fileNotFound
  <2>1. <<"UnresolvedExtends">> \in Seq(MessageIds) /\ <<"UnresolvedExtends">> # <<>>
    BY DEF MessageIds
  <2>2. <<>> \in Seq(MessageIds)
    OBVIOUS
  <2> QED  BY <2>1, <2>2
<1> HIDE DEF unresolved
<1>9. /\ FileOK(e) /\ IsReported(files[below], e) /\ e.log = files[below].log \o unresolved
      /\ e.hasErrors <=> files[below].hasErrors \/ thisFile.fileNotFound
  BY <1>7, <1>8, ReportOK
<1> HIDE DEF e
<1>10. /\ files[below].extendsFiles \in Seq(Nat)
       /\ \A k \in DOMAIN files[below].extendsFiles : files[below].extendsFiles[k] \in below + 1 .. n
  BY <1>3, <1>6 DEF HeapOK, BasesFollow
<1> DEFINE bases == Append(files[below].extendsFiles, this)
<1>11. /\ bases \in Seq(Nat)
       /\ \A k \in DOMAIN bases : bases[k] \in below + 1 .. n
       /\ \A k \in DOMAIN bases : \/ bases[k] = this
                                  \/ \E l \in DOMAIN files[below].extendsFiles :
                                       bases[k] = files[below].extendsFiles[l]
  <2> DEFINE b == files[below].extendsFiles
  <2>1. b \in Seq(Nat) /\ \A k \in DOMAIN b : b[k] \in below + 1 .. n
    BY <1>10
  <2>2. this \in Nat /\ this \in below + 1 .. n
    BY <1>3, <1>6
  <2>3. bases = Append(b, this)
    OBVIOUS
  <2> HIDE DEF b, bases
  <2>4. /\ bases \in Seq(Nat) /\ DOMAIN bases = 1 .. Len(b) + 1 /\ Len(b) \in Nat
        /\ DOMAIN b = 1 .. Len(b) /\ bases[Len(b) + 1] = this
        /\ \A k \in 1 .. Len(b) : bases[k] = b[k]
    BY <2>1, <2>2, <2>3
  <2>5. \A k \in 1 .. Len(b) + 1 : k = Len(b) + 1 \/ k \in 1 .. Len(b)
    BY <2>4
  <2> QED  BY <2>1, <2>2, <2>4, <2>5 DEF b
<1>12. /\ e.extendsFiles = files[below].extendsFiles /\ e.filePath = files[below].filePath
       /\ e.extendsPaths = files[below].extendsPaths /\ SameReading(files[below], e)
       /\ e.fileNotFound = files[below].fileNotFound
       /\ e.version = files[below].version
  BY <1>9 DEF IsReported, SameReading
<1> DEFINE errors == e.hasErrors \/ thisFile.hasErrors
<1>13. h = [e EXCEPT !.extendsFiles = bases, !.hasErrors = errors]
  BY <1>12
<1> HIDE DEF bases, h
<1>14. e \in File /\ errors \in BOOLEAN
  BY <1>4, <1>9 DEF FileOK, File
<1>15. /\ h \in File /\ h.extendsFiles = bases /\ h.hasErrors = errors
       /\ h.filePath = e.filePath /\ h.extendsPaths = e.extendsPaths /\ h.log = e.log
       /\ h.version = e.version /\ h.fileNotFound = e.fileNotFound /\ h.fileMTime = e.fileMTime
  <2> HIDE DEF errors
  <2> QED  BY <1>11, <1>13, <1>14 DEF File
<1>16. FileOK(h)
  BY <1>9, <1>15 DEF FileOK
<1>17. SameReading(files[below], h)
  BY <1>12, <1>15 DEF SameReading
<1>18. e.log # <<>> <=> files[below].log # <<>> \/ thisFile.fileNotFound
  <2> DEFINE l == files[below].log
  <2>1. l \in Seq(MessageIds)
    BY <1>7 DEF FileOK, File
  <2>2. e.log = l \o unresolved
    BY <1>9
  <2> HIDE DEF l
  <2>3. l \o unresolved = <<>> <=> l = <<>> /\ unresolved = <<>>
    BY <1>8, <2>1
  <2> QED  BY <1>8, <2>2, <2>3 DEF l
<1> HIDE DEF below
<1>19. /\ HeapOK(after) /\ Len(after) = n
       /\ \A j \in 1 .. n : after[j] = IF j = below THEN h ELSE files[j]
  BY <1>3, <1>6, <1>11, <1>15, <1>16, HeapSet
<1> HIDE DEF after
<1>20. /\ stack' \in Seq(1 .. n) /\ Len(stack') = m - 1
       /\ DOMAIN stack' = 1 .. m - 1
       /\ \A i \in 1 .. m - 1 : /\ stack'[i] = stack[i] /\ i \in 1 .. m
                               /\ stack[i] \in 1 .. n /\ stack[i] < this
  <2>1. /\ stack' \in Seq(1 .. n) /\ Len(stack') = m - 1
        /\ \A i \in 1 .. m - 1 : stack'[i] = stack[i]
    BY <1>1, <1>3, FrontElements
  <2>2. \A i \in 1 .. m - 1 : i \in 1 .. m /\ i < m
    BY <1>3
  <2> QED  BY <1>3, <1>4, <1>5, <2>1, <2>2
<1>21. HeapOK(files)'
  BY <1>2, <1>19, HeapOKPrime
<1>22. this' = below
  <2>1. this' = stack'[m - 1]
    BY <1>20 DEF this
  <2>2. m - 1 \in 1 .. m - 1
    BY <1>1, <1>3
  <2> QED  BY <1>20, <2>1, <2>2 DEF below
<1>23. VersionsOK'
  <2> SUFFICES ASSUME NEW id \in 1 .. n, files'[id].version # 0
               PROVE  files'[id].version <= Time(files'[id].filePath)
    BY <1>1, <1>2, <1>19 DEF VersionsOK, Time
  <2>1. files[id].version = files'[id].version /\ files[id].filePath = files'[id].filePath
    BY <1>2, <1>12, <1>15, <1>19
  <2> QED  BY <2>1 DEF LoadInv, VersionsOK
<1>24. ASSUME NEW id \in 1 .. n, NEW k \in DOMAIN after[id].extendsFiles
       PROVE  ~InRange(after[id].extendsFiles[k], stack')
  <2> DEFINE base == after[id].extendsFiles[k]
  <2>1. \/ base = this
        \/ \E j \in 1 .. n : \E l \in DOMAIN files[j].extendsFiles : base = files[j].extendsFiles[l]
    BY <1>6, <1>11, <1>15, <1>19, <1>24
  <2> HIDE DEF base
  <2>2. ASSUME base = this PROVE ~InRange(base, stack')
    <3>1. \A i \in 1 .. m - 1 : stack'[i] # this
      BY <1>3, <1>4, <1>20
    <3> QED  BY <1>20, <2>2, <3>1 DEF InRange
  <2>3. ASSUME NEW j \in 1 .. n, NEW l \in DOMAIN files[j].extendsFiles, base = files[j].extendsFiles[l]
        PROVE  ~InRange(base, stack')
    <3>1. ~InRange(base, stack)
      BY <1>1, <2>3 DEF LoadInv, StackOK
    <3> QED  BY <1>3, <1>20, <3>1 DEF InRange
  <2>4. ~InRange(base, stack')
    BY <2>1, <2>2, <2>3
  <2> QED  BY <2>4 DEF base
<1>25. StackOK'
  <2>1. \A id \in 1 .. Len(files') : \A k \in DOMAIN files'[id].extendsFiles :
          (~InRange(files[id].extendsFiles[k], stack))'
    BY <1>2, <1>19, <1>24 DEF InRange
  <2>2. ASSUME NEW i \in 1 .. m - 1, NEW j \in 1 .. m - 1, i < j
        PROVE  stack'[i] < stack'[j]
    <3>1. i \in 1 .. m /\ j \in 1 .. m /\ stack'[i] = stack[i] /\ stack'[j] = stack[j]
      BY <1>20
    <3> QED  BY <1>3, <2>2, <3>1
  <2>3. stack' # <<>> /\ pc' # "Start" /\ pc' # "Loaded"
    BY <1>1, <1>3, <1>20
  <2>4. stack' \in Seq(1 .. Len(files')) /\ visited' \subseteq Paths
    BY <1>1, <1>2, <1>3, <1>19, <1>20
  <2> QED  BY <1>20, <2>1, <2>2, <2>3, <2>4 DEF StackOK
<1>26. DiskOK'
  BY <1>1 DEF LoadInv, DiskOK
<1>27. PcOK'
  BY <1>1 DEF LoadInv, PcOK
<1>28. LoadInv'
  BY <1>21, <1>23, <1>25, <1>26, <1>27 DEF LoadInv
<1>29. Returned(below, h)
  <2>1. below = stack[m - 1]
    BY DEF below
  <2>2. h.hasErrors <=> files[below].hasErrors \/ thisFile.fileNotFound \/ thisFile.hasErrors
    BY <1>9, <1>15
  <2>3. /\ h.extendsFiles = Append(files[below].extendsFiles, this)
        /\ h.filePath = files[below].filePath
        /\ h.extendsPaths = files[below].extendsPaths
        /\ h.log # <<>> <=> files[below].log # <<>> \/ thisFile.fileNotFound
    BY <1>12, <1>15, <1>18 DEF bases
  <2>4. /\ Len(files') = n /\ \A j \in 1 .. n : files'[j] = IF j = below THEN h ELSE files[j]
    BY <1>2, <1>19
  <2> QED  BY <1>1, <1>6, <1>16, <1>17, <1>20, <1>22, <2>1, <2>2, <2>3, <2>4 DEF Returned
<1> QED  BY <1>28, <1>29

\* Someone writes a file: what was read is as old as before.
EditedAt(p, c) ==
  /\ p \in DOMAIN disk /\ c \in Stored /\ DOMAIN disk' = DOMAIN disk
  /\ disk'[p] = Append(disk[p], c) /\ \A q \in DOMAIN disk : q # p => disk'[q] = disk[q]
  /\ UNCHANGED loader

\* Who writes a file makes the disk newer, and what was read not.
LEMMA EditKeeps ==
  ASSUME LoadInv, NEW p \in DOMAIN disk, NEW c \in Contents \union {Absent}, Edit(p, c)
  PROVE  LoadInv' /\ EditedAt(p, c)
<1>1. c \in Stored
  BY DisksAssumption DEF Stored
<1>2. /\ Len(disk[p]) < MaxVersions /\ disk' = [disk EXCEPT ![p] = Append(@, c)]
      /\ UNCHANGED loader
  BY DEF Edit
<1>3. /\ DOMAIN disk' = DOMAIN disk
      /\ disk'[p] = Append(disk[p], c) /\ \A q \in DOMAIN disk : q # p => disk'[q] = disk[q]
  BY <1>2
<1>4. DiskOK
  BY DEF LoadInv
<1>5. /\ disk'[p] \in Seq(Stored) /\ Len(disk'[p]) = Len(disk[p]) + 1
      /\ Len(disk[p]) \in Nat /\ Len(disk'[p]) \in 1 .. MaxVersions
  <2> DEFINE d == disk[p]
  <2>1. d \in Seq(Stored) /\ Len(d) \in Nat /\ Len(d) < MaxVersions /\ MaxVersions \in Nat
    BY <1>2, <1>4, DisksAssumption DEF DiskOK
  <2> HIDE DEF d
  <2>2. Append(d, c) \in Seq(Stored) /\ Len(Append(d, c)) = Len(d) + 1
    BY <1>1, <2>1
  <2>3. Len(d) + 1 \in 1 .. MaxVersions
    BY <2>1
  <2> QED  BY <1>3, <2>1, <2>2, <2>3 DEF d
<1>6. DiskOK'
  BY <1>3, <1>4, <1>5 DEF DiskOK
<1>7. UNCHANGED <<files, stack, visited, content, pc>>
  BY <1>2 DEF loader
<1>8. VersionsOK'
  <2> SUFFICES ASSUME NEW id \in 1 .. Len(files), files[id].version # 0
               PROVE  files[id].version <= Time(files[id].filePath)'
    BY <1>7 DEF VersionsOK, Time
  <2> DEFINE f == files[id]
             q == RealPath[f.filePath]
  <2>1. f \in File /\ f.filePath \in Paths /\ f.version <= Time(f.filePath)
    BY DEF LoadInv, HeapOK, FileOK, VersionsOK
  <2>2. q \in DOMAIN disk /\ Time(f.filePath) = Len(disk[q]) /\ Len(disk[q]) \in Nat
    BY <2>1, DiskFacts, <1>4 DEF DiskOK, Time
  <2>3. Time(f.filePath)' = Len(disk'[q])
    BY <1>7 DEF Time
  <2>4. f.version \in Nat
    BY <2>1, DisksAssumption DEF File
  <2> HIDE DEF q, f
  <2>5. Len(disk[q]) <= Len(disk'[q]) /\ Len(disk'[q]) \in Nat
    BY <1>3, <1>5, <2>2
  <2> QED  BY <2>1, <2>2, <2>3, <2>4, <2>5 DEF f
<1>9. HeapOK(files)' /\ StackOK' /\ PcOK'
  <2>1. HeapOK(files')
    BY <1>7 DEF LoadInv
  <2>2. \A x : InRange(x, stack)' <=> InRange(x, stack)
    BY <1>7 DEF InRange
  <2>3. StackOK'
    BY <1>7, <2>2 DEF LoadInv, StackOK, IsLoading
  <2>4. PcOK'
    BY <1>7 DEF LoadInv, PcOK, thisFile, this
  <2> QED  BY <2>1, <2>3, <2>4, HeapOKPrime
<1> QED  BY <1>1, <1>2, <1>3, <1>6, <1>8, <1>9 DEF LoadInv, EditedAt

\* A step at which nothing is loaded, before or after it.
LEMMA RestKeeps ==
  ASSUME LoadInv, UNCHANGED disk, HeapOK(files'), Len(files') = Len(files),
         \A id \in 1 .. Len(files) : SameReading(files[id], files'[id])
                                     /\ files'[id].filePath = files[id].filePath,
         stack' \in Seq(1 .. Len(files)), Len(stack') <= 1, visited' \subseteq Paths,
         content' \in Stored, pc' \in {"Start", "Loaded", "Configured", "Thrown"},
         pc' = "Start" <=> stack' = <<>>,
         pc' = "Loaded" => IsWhole(files'[stack'[1]])
  PROVE  LoadInv'
<1>1. DiskOK'
  BY DEF LoadInv, DiskOK
<1>2. HeapOK(files)'
  BY HeapOKPrime
<1>3. VersionsOK'
  <2> SUFFICES ASSUME NEW id \in 1 .. Len(files), files'[id].version # 0
               PROVE  files'[id].version <= Time(files'[id].filePath)
    BY DEF VersionsOK, Time
  <2> QED  BY DEF LoadInv, VersionsOK, SameReading
<1>4. Len(stack') \in {0, 1} /\ DOMAIN stack' = 1 .. Len(stack')
  <2>1. Len(stack') \in Nat /\ DOMAIN stack' = 1 .. Len(stack')
    OBVIOUS
  <2> QED  BY <2>1
<1>5. stack' # <<>> => Len(stack') = 1
  BY <1>4
<1>6. \A i, j \in DOMAIN stack' : i < j => stack'[i] < stack'[j]
  BY <1>4
<1>7. ~IsLoading'
  BY DEF IsLoading
<1>8. StackOK'
  BY <1>5, <1>6, <1>7 DEF StackOK
<1>9. PcOK'
  BY <1>5 DEF PcOK, thisFile, this
<1> QED  BY <1>1, <1>2, <1>3, <1>8, <1>9 DEF LoadInv

\* Configuring a parser with a file that was loaded
LEMMA ConfigureKeeps ==
  ASSUME LoadInv, Configure
  PROVE  /\ LoadInv' /\ IsApplied(files, files') /\ pc = "Loaded" /\ pc' = "Configured"
         /\ UNCHANGED <<disk, stack>>
<1>1. /\ pc = "Loaded" /\ pc' = "Configured" /\ UNCHANGED <<disk, stack, visited, content>>
      /\ ConfigureParser(stack[1]) /\ pc # "Start"
  BY DEF Configure
<1>2. /\ HeapOK(files) /\ stack[1] \in 1 .. Len(files)
      /\ stack \in Seq(1 .. Len(files)) /\ Len(stack) = 1 /\ stack # <<>>
      /\ visited \subseteq Paths /\ content \in Stored
  BY <1>1, StackFacts DEF LoadInv, StackOK, PcOK
<1>3. PICK c : files' = UpdateWith(c, stack[1]).files
  BY <1>1 DEF ConfigureParser
<1>4. IsApplied(files, files')
  BY <1>2, <1>3, ConfigureReports
<1>5. HeapOK(files')
  BY <1>2, <1>4, AppliedHeap
<1>6. /\ Len(files') = Len(files)
      /\ \A id \in 1 .. Len(files) : SameReading(files[id], files'[id])
                                     /\ files'[id].filePath = files[id].filePath
  BY <1>4 DEF IsApplied, IsReported, SameReading
<1>7. LoadInv'
  BY <1>1, <1>2, <1>5, <1>6, RestKeeps
<1> QED  BY <1>1, <1>4, <1>7

\* At first, there are no files.
LEMMA InitKeeps ==
  ASSUME Init
  PROVE  LoadInv /\ files = <<>>
<1>1. /\ disk \in Disks /\ files = <<>> /\ stack = <<>> /\ visited = {} /\ content = Absent
      /\ pc = "Start"
  BY DEF Init
<1>2. DiskOK
  BY <1>1, DisksAssumption DEF DiskOK, Stored
<1>3. /\ Len(files) = 0 /\ files \in Seq(File) /\ 1 .. 0 = {}
  BY <1>1
<1>4. HeapOK(files) /\ VersionsOK
  BY <1>3 DEF HeapOK, BasesFollow, VersionsOK
<1>5. stack \in Seq(1 .. Len(files)) /\ DOMAIN stack = {}
  BY <1>1
<1>6. StackOK
  BY <1>1, <1>5 DEF StackOK, IsLoading
<1>7. PcOK
  BY <1>1 DEF PcOK, Stored
<1> QED  BY <1>1, <1>2, <1>4, <1>6, <1>7 DEF LoadInv

-----------------------------------------------------------------------------
(***************************************************************************)
(* What a step of the load does to the heap.                               *)
(***************************************************************************)
LoadStep ==
  \/ UNCHANGED <<disk, files, stack>> /\ IsLoading
  \/ \E f : TopBecomes(f) /\ Reads(thisFile, f)
  \/ /\ IsLoading /\ stack' = Append(stack, Len(files) + 1)
     /\ \E path \in Paths : FileAdded(path)
  \/ \E below, h : Returned(below, h)

\* A step of the load keeps the invariant of the load.
LEMMA LoadKeeps ==
  ASSUME LoadInv, Load
  PROVE  LoadInv' /\ LoadStep /\ IsLoading /\ pc' \notin {"Start", "Configured"}
<1>1. CASE FileMissing
  BY <1>1, FileMissingKeeps DEF LoadStep, TopBecomes, FileMissing, Become
<1>2. CASE FileExists
  BY <1>2, FileExistsKeeps DEF LoadStep, FileExists
<1>3. CASE ReadFile
  BY <1>3, ReadFileKeeps DEF LoadStep, TopBecomes, ReadFile, Become
<1>4. CASE StatFile
  BY <1>4, StatFileKeeps DEF LoadStep, TopBecomes, StatFile, Become
<1>5. CASE FileVanished
  BY <1>5, FileVanishedKeeps DEF LoadStep, FileVanished
<1>6. CASE RejectCircular
  BY <1>6, RejectCircularKeeps DEF LoadStep, TopBecomes, RejectCircular, Become
<1>7. CASE ParseFile
  <2>1. pc' \in {"Return", "Thrown", "Extends"}
    BY <1>7 DEF ParseFile, Become
  <2> QED  BY <1>7, <2>1, ParseFileKeeps DEF LoadStep, TopBecomes
<1>8. CASE UnresolvedExtends
  BY <1>8, UnresolvedExtendsKeeps DEF LoadStep, TopBecomes, UnresolvedExtends, Become
<1>9. CASE LoadBaseFile
  BY <1>9, LoadBaseFileKeeps DEF LoadStep, LoadBaseFile
<1>10. CASE AllExtended
  BY <1>10, AllExtendedKeeps DEF LoadStep, AllExtended
<1>11. CASE ReturnBaseFile
  BY <1>11, ReturnBaseFileKeeps DEF LoadStep, ReturnBaseFile, Returned
<1>12. CASE ReturnFile
  BY <1>12, ReturnFileKeeps DEF LoadStep, ReturnFile
<1> QED  BY <1>1, <1>2, <1>3, <1>4, <1>5, <1>6, <1>7, <1>8, <1>9, <1>10, <1>11, <1>12 DEF Load

\* What is on the stack is a base file of no file yet.
LEMMA NotYetABase ==
  ASSUME LoadInv, IsLoading
  PROVE  /\ Len(files) \in Nat /\ this \in 1 .. Len(files)
         /\ \A id \in 1 .. Len(files) : \A k \in DOMAIN files[id].extendsFiles :
              /\ files[id].extendsFiles[k] \in id + 1 .. Len(files)
              /\ files[id].extendsFiles[k] \in 1 .. Len(files)
              /\ \A i \in DOMAIN stack : files[id].extendsFiles[k] # stack[i]
              /\ files[id].extendsFiles[k] # this
<1>1. Len(files) \in Nat /\ this \in 1 .. Len(files) /\ Len(stack) \in DOMAIN stack
  BY StackFacts DEF IsLoading
<1>2. \A id \in 1 .. Len(files) : \A k \in DOMAIN files[id].extendsFiles :
        /\ files[id].extendsFiles[k] \in id + 1 .. Len(files)
        /\ ~InRange(files[id].extendsFiles[k], stack)
  BY DEF LoadInv, HeapOK, BasesFollow, StackOK
<1>3. \A id \in 1 .. Len(files) : \A x \in id + 1 .. Len(files) : x \in 1 .. Len(files)
  BY <1>1
<1> QED  BY <1>1, <1>2, <1>3 DEF InRange, this

\* A file object that is new has no errors, and is a base file of none.
LEMMA NewFileKeepsErrors ==
  ASSUME LoadInv, ErrorsOK, pc # "Configured", NEW path, FileAdded(path)
  PROVE  ErrorsOK'
<1> DEFINE n == Len(files)
           Base(id, k) == files[id].extendsFiles[k]
<1>1. /\ Len(files') = n + 1 /\ \A j \in 1 .. n : files'[j] = files[j]
      /\ files'[n + 1].log = <<>> /\ ~files'[n + 1].hasErrors
      /\ files'[n + 1].extendsFiles = <<>>
  BY DEF FileAdded
<1>2. n \in Nat /\ \A id \in 1 .. n : \A k \in DOMAIN files[id].extendsFiles : Base(id, k) \in 1 .. n
  BY DEF LoadInv, HeapOK, BasesFollow
<1>3. \A id \in 1 .. n :
        files[id].hasErrors <=> \/ files[id].log # <<>>
                                \/ \E k \in DOMAIN files[id].extendsFiles : files[Base(id, k)].hasErrors
  BY DEF ErrorsOK
<1> SUFFICES ASSUME NEW id \in 1 .. n + 1
             PROVE  files'[id].hasErrors <=>
                      \/ files'[id].log # <<>>
                      \/ \E k \in DOMAIN files'[id].extendsFiles :
                           files'[files'[id].extendsFiles[k]].hasErrors
  BY <1>1 DEF ErrorsOK
<1>4. id \in 1 .. n \/ id = n + 1
  BY <1>2
<1>5. CASE id \in 1 .. n
  <2>1. files'[id] = files[id]
    BY <1>1, <1>5
  <2>2. \A k \in DOMAIN files[id].extendsFiles : files'[Base(id, k)] = files[Base(id, k)]
    BY <1>1, <1>2, <1>5
  <2> QED  BY <1>3, <1>5, <2>1, <2>2
<1>6. CASE id = n + 1
  <2> DEFINE none == files'[id].extendsFiles
  <2>1. none = <<>>
    BY <1>1, <1>6
  <2> HIDE DEF none
  <2>2. DOMAIN none = {}
    BY <2>1
  <2> QED  BY <1>1, <1>6, <2>2 DEF none
<1> QED  BY <1>4, <1>5, <1>6

\* Errors come to the file below when its base file returns, and stay.
LEMMA LoadKeepsErrors ==
  ASSUME LoadInv, LoadStep, ErrorsOK, IsLoading
  PROVE  ErrorsOK'
<1> DEFINE n == Len(files)
           Base(id, k) == files[id].extendsFiles[k]
<1>1. /\ n \in Nat /\ this \in 1 .. n
      /\ \A id \in 1 .. n : \A k \in DOMAIN files[id].extendsFiles :
           /\ Base(id, k) \in 1 .. n /\ Base(id, k) # this
           /\ \A i \in DOMAIN stack : Base(id, k) # stack[i]
  BY NotYetABase
<1>2. \A id \in 1 .. n :
        files[id].hasErrors <=> \/ files[id].log # <<>>
                                \/ \E k \in DOMAIN files[id].extendsFiles : files[Base(id, k)].hasErrors
  BY DEF ErrorsOK, IsLoading
<1>3. CASE UNCHANGED <<disk, files, stack>>
  BY <1>2, <1>3 DEF ErrorsOK
<1>4. ASSUME NEW f, TopBecomes(f) PROVE ErrorsOK'
  <2>1. /\ Len(files') = n /\ \A j \in 1 .. n : files'[j] = IF j = this THEN f ELSE files[j]
        /\ f.extendsFiles = files[this].extendsFiles /\ MoreErrors(files[this], f)
    BY <1>4 DEF TopBecomes, thisFile
  <2> SUFFICES ASSUME NEW id \in 1 .. n
               PROVE  files'[id].hasErrors <=>
                        \/ files'[id].log # <<>>
                        \/ \E k \in DOMAIN files'[id].extendsFiles :
                             files'[files'[id].extendsFiles[k]].hasErrors
    BY <2>1 DEF ErrorsOK
  <2>2. files'[id].extendsFiles = files[id].extendsFiles
    BY <2>1
  <2>3. \A k \in DOMAIN files[id].extendsFiles : files'[Base(id, k)] = files[Base(id, k)]
    BY <1>1, <2>1
  <2>4. CASE id # this
    BY <1>2, <2>1, <2>2, <2>3, <2>4
  <2>5. CASE id = this
    BY <1>2, <2>1, <2>2, <2>3, <2>5 DEF MoreErrors
  <2> QED  BY <2>4, <2>5
<1>5. ASSUME NEW path, FileAdded(path) PROVE ErrorsOK'
  BY <1>5, NewFileKeepsErrors DEF IsLoading
<1>6. ASSUME NEW below, NEW h, Returned(below, h) PROVE ErrorsOK'
  <2>1. /\ Len(files') = n /\ \A j \in 1 .. n : files'[j] = IF j = below THEN h ELSE files[j]
        /\ below \in 1 .. n /\ h.extendsFiles = Append(files[below].extendsFiles, this)
        /\ h.log # <<>> <=> files[below].log # <<>> \/ thisFile.fileNotFound
        /\ h.hasErrors <=> files[below].hasErrors \/ thisFile.fileNotFound \/ thisFile.hasErrors
        /\ below = stack[Len(stack) - 1] /\ below < this /\ Len(stack) > 1
    BY <1>6 DEF Returned
  <2>2. Len(stack) - 1 \in DOMAIN stack /\ below # this
    <3>1. Len(stack) \in Nat /\ DOMAIN stack = 1 .. Len(stack)
      BY StackFacts DEF IsLoading
    <3> QED  BY <1>1, <2>1, <3>1
  <2>3. \A id \in 1 .. n : \A k \in DOMAIN files[id].extendsFiles :
          files'[Base(id, k)] = files[Base(id, k)]
    BY <1>1, <2>1, <2>2
  <2> SUFFICES ASSUME NEW id \in 1 .. n
               PROVE  files'[id].hasErrors <=>
                        \/ files'[id].log # <<>>
                        \/ \E k \in DOMAIN files'[id].extendsFiles :
                             files'[files'[id].extendsFiles[k]].hasErrors
    BY <2>1 DEF ErrorsOK
  <2>4. CASE id # below
    BY <1>2, <2>1, <2>3, <2>4
  <2>5. CASE id = below
    <3> DEFINE b == files[below].extendsFiles
    <3>1. /\ b \in Seq(Nat) /\ this \in Nat
      BY <1>1, <2>1 DEF LoadInv, HeapOK, BasesFollow
    <3>2. files'[id] = h /\ h.extendsFiles = Append(b, this) /\ files'[this] = files[this]
      BY <1>1, <2>1, <2>2, <2>5
    <3>3. \A k \in DOMAIN b : files'[b[k]] = files[b[k]]
      BY <2>1, <2>3
    <3>4. files[below].hasErrors <=>
            files[below].log # <<>> \/ \E k \in DOMAIN b : files[b[k]].hasErrors
      BY <1>2, <2>1
    <3>5. thisFile.fileNotFound => h.log # <<>>
      BY <2>1
    <3> HIDE DEF b
    <3>6. /\ DOMAIN b = 1 .. Len(b) /\ Len(b) \in Nat
          /\ DOMAIN Append(b, this) = 1 .. Len(b) + 1 /\ Append(b, this)[Len(b) + 1] = this
          /\ \A k \in 1 .. Len(b) : Append(b, this)[k] = b[k]
      BY <3>1
    <3>7. /\ \A k \in 1 .. Len(b) + 1 : k \in 1 .. Len(b) \/ k = Len(b) + 1
          /\ Len(b) + 1 \in 1 .. Len(b) + 1 /\ \A k \in 1 .. Len(b) : k \in 1 .. Len(b) + 1
      BY <3>6
    <3>8. (\E k \in DOMAIN h.extendsFiles : files'[h.extendsFiles[k]].hasErrors)
            <=> (\E k \in DOMAIN b : files[b[k]].hasErrors) \/ thisFile.hasErrors
      BY <3>2, <3>3, <3>6, <3>7 DEF thisFile
    <3> QED  BY <2>1, <3>2, <3>4, <3>5, <3>8
  <2> QED  BY <2>4, <2>5
<1> QED  BY <1>3, <1>4, <1>5, <1>6 DEF LoadStep

\* If an error is in the tree of a file, the file has errors, and the other way round.
LEMMA ErrorsAreBelow ==
  ASSUME LoadInv, ErrorsOK, pc # "Configured", NEW id \in 1 .. Len(files)
  PROVE  files[id].hasErrors <=> \E j \in Tree(id) : files[j].log # <<>>
<1> DEFINE n == Len(files)
           Bases(j) == DOMAIN files[j].extendsFiles
           Base(j, k) == files[j].extendsFiles[k]
           Bad(j) == files[j].hasErrors
           Logs(j) == files[j].log # <<>>
<1>1. /\ BasesFollow(files) /\ n \in Nat
      /\ \A j \in 1 .. n : \A k \in Bases(j) : Base(j, k) \in j + 1 .. n
  BY DEF LoadInv, HeapOK, BasesFollow
<1>2. \A j \in 1 .. n : Bad(j) <=> Logs(j) \/ \E k \in Bases(j) : Bad(Base(j, k))
  BY DEF ErrorsOK
<1>3. /\ id \in Tree(id) /\ Tree(id) \subseteq 1 .. n
      /\ \A j \in Tree(id) : \A k \in Bases(j) : Base(j, k) \in Tree(id)
      /\ \A S : (/\ id \in S
                 /\ \A j \in S \intersect 1 .. n : \A k \in Bases(j) : Base(j, k) \in S)
                => Tree(id) \subseteq S
  BY <1>1, TreeIsClosed
<1>4. id \in 1 .. n
  OBVIOUS
<1> HIDE DEF n, Bases, Base, Bad, Logs
<1>5. ASSUME NEW j \in Tree(id), Logs(j) PROVE Bad(id)
  <2> DEFINE S == {x \in 1 .. n : Bad(x) => Bad(id)}
  <2>1. ASSUME NEW x \in S \intersect 1 .. n, NEW k \in Bases(x) PROVE Base(x, k) \in S
    <3>1. Base(x, k) \in 1 .. n
      BY <1>1
    <3>2. Bad(Base(x, k)) => Bad(x)
      BY <1>2
    <3> QED  BY <3>1, <3>2
  <2>2. id \in S
    BY <1>4
  <2>3. Tree(id) \subseteq S
    <3> HIDE DEF S
    <3> QED  BY <1>3, <2>1, <2>2
  <2>4. Bad(j)
    BY <1>2, <1>3, <1>5
  <2> QED  BY <2>3, <2>4
<1>6. ASSUME \A j \in Tree(id) : ~Logs(j) PROVE ~Bad(id)
  <2> DEFINE Low(m) == \A j \in n + 1 - m .. n : j \in Tree(id) => ~Bad(j)
             D == {m \in Nat : m <= n => Low(m)}
  <2>1. 0 \in D
    <3>1. Low(0)
      BY <1>1
    <3> HIDE DEF Low
    <3> QED  BY <3>1
  <2>2. ASSUME NEW m \in Nat, m \in D PROVE m + 1 \in D
    <3> SUFFICES ASSUME m + 1 <= n PROVE Low(m + 1)
      <4> HIDE DEF Low
      <4> QED  OBVIOUS
    <3>1. Low(m)
      <4>1. m <= n
        BY <1>1
      <4> HIDE DEF Low
      <4> QED  BY <2>2, <4>1
    <3> DEFINE i == n - m
    <3>2. i \in 1 .. n /\ n + 1 - (m + 1) = i /\ n + 1 - m = i + 1
      BY <1>1
    <3>3. \A j \in i .. n : j = i \/ j \in i + 1 .. n
      BY <1>1
    <3> HIDE DEF i
    <3>4. \A j \in i + 1 .. n : j \in Tree(id) => ~Bad(j)
      BY <3>1, <3>2
    <3>5. i \in Tree(id) => ~Bad(i)
      BY <1>1, <1>2, <1>3, <1>6, <3>2, <3>4
    <3> QED  BY <3>2, <3>3, <3>4, <3>5
  <2>3. Nat \subseteq D
    <3> HIDE DEF D
    <3> QED  BY <2>1, <2>2, SetInduction
  <2>4. Low(n)
    <3> HIDE DEF Low
    <3> QED  BY <1>1, <2>3
  <2>5. n + 1 - n = 1
    BY <1>1
  <2> QED  BY <1>3, <1>4, <2>4, <2>5
<1>7. Bad(id) <=> \E j \in Tree(id) : Logs(j)
  BY <1>5, <1>6
<1> QED  BY <1>7 DEF Bad, Logs

\* The property of the load follows from the invariant.
LEMMA ErrorsFollow ==
  ASSUME LoadInv, ErrorsOK
  PROVE  ErrorsReachTheRoot
<1> SUFFICES ASSUME pc = "Loaded", NEW id \in Tree(root)
             PROVE  files[id].hasErrors <=> \E j \in Tree(id) : files[j].log # <<>>
  BY DEF ErrorsReachTheRoot
<1>1. root \in 1 .. Len(files) /\ BasesFollow(files)
  BY StackFacts DEF LoadInv, HeapOK, root
<1>2. Tree(root) \subseteq 1 .. Len(files)
  BY <1>1, TreeIsClosed
<1> QED  BY <1>2, ErrorsAreBelow

(***************************************************************************)
(* Every step of a program that loads one file and configures a parser     *)
(* with it keeps the invariants, whatever the others write meanwhile.      *)
(***************************************************************************)
THEOREM LoadInvariant == Spec => [](LoadInv /\ ErrorsOK)
<1>1. Init => LoadInv /\ ErrorsOK
  <2> SUFFICES ASSUME Init PROVE LoadInv /\ ErrorsOK
    OBVIOUS
  <2>1. LoadInv /\ files = <<>>
    BY InitKeeps
  <2>2. ErrorsOK
    BY <2>1 DEF ErrorsOK
  <2> QED  BY <2>1, <2>2
<1>2. LoadInv /\ ErrorsOK /\ [Next]_vars => LoadInv' /\ ErrorsOK'
  <2> SUFFICES ASSUME LoadInv, ErrorsOK, [Next]_vars PROVE LoadInv' /\ ErrorsOK'
    OBVIOUS
  <2>1. ASSUME NEW p \in DOMAIN disk, NEW c \in Contents \union {Absent}, Edit(p, c)
        PROVE  LoadInv' /\ ErrorsOK'
    <3>1. LoadInv' /\ EditedAt(p, c)
      BY <2>1, EditKeeps
    <3>2. UNCHANGED <<files, pc>>
      BY <3>1 DEF EditedAt, loader
    <3> QED  BY <3>1, <3>2 DEF ErrorsOK
  <2>2. ASSUME NEW p \in Paths \union {NoPath}, LoadFile(p)
        PROVE  LoadInv' /\ ErrorsOK'
    <3>1. LoadInv' /\ FileAdded(p) /\ pc = "Start"
      BY <2>2, LoadFileKeeps DEF LoadFile
    <3> QED  BY <3>1, NewFileKeepsErrors
  <2>3. CASE Load
    BY <2>3, LoadKeeps, LoadKeepsErrors
  <2>4. CASE Configure
    BY <2>4, ConfigureKeeps DEF ErrorsOK
  <2>5. CASE UNCHANGED vars
    <3>1. UNCHANGED <<disk, files, stack, visited, content, pc>>
      BY <2>5 DEF vars, loader
    <3>2. PcOK'
      BY <3>1 DEF LoadInv, PcOK, thisFile, this
    <3>3. LoadInv'
      BY <3>1, <3>2, StillKeeps DEF LoadInv, StackOK, IsLoading
    <3> QED  BY <3>1, <3>3 DEF ErrorsOK
  <2> QED  BY <2>1, <2>2, <2>3, <2>4, <2>5 DEF Next
<1> QED  BY <1>1, <1>2, PTL DEF Spec

(***************************************************************************)
(* After loading, hasErrors of every file of the tree is true exactly when *)
(* a log below it is not empty, whatever the graph of files, and whoever   *)
(* writes them during the load.                                            *)
(***************************************************************************)
THEOREM LoadErrorsReachTheRoot == Spec => []ErrorsReachTheRoot
<1>1. LoadInv /\ ErrorsOK => ErrorsReachTheRoot
  BY ErrorsFollow
<1> QED  BY <1>1, LoadInvariant, PTL

-----------------------------------------------------------------------------
(***************************************************************************)
(* The search for a project ends, with a path or with none.                *)
(***************************************************************************)
LEMMA FindsAPath ==
  \A f \in Folders : FindConfigPathForFolder[f] \in Paths \union {NoPath}
<1> DEFINE Of(g, f) == CASE f \in Projects -> TSDocJson[f]
                         [] Parent[f] = f -> NoPath
                         [] OTHER -> g[Parent[f]]
           Loop(g, D) == [f \in D |-> Of(g, f)]
<1>1. PICK depth \in [Folders -> 0 .. Cardinality(Folders)] :
        \A f \in Folders : Parent[f] = f \/ depth[Parent[f]] < depth[f]
  BY TreeAssumption
<1>2. Cardinality(Folders) \in Nat
  BY TreeAssumption, FS_CardinalityType
<1>3. /\ \A f \in Folders : depth[f] \in Nat /\ depth[f] < Cardinality(Folders) + 1
      /\ \A f \in Folders : Parent[f] \in Folders /\ TSDocJson[f] \in Paths
  BY <1>1, <1>2, FoldersAssumption
<1> DEFINE Low(m) == {f \in Folders : depth[f] < m}
           HasValue(m) == \E g : g = Loop(g, Low(m))
           Has == {m \in Nat : HasValue(m)}
<1>4. FindConfigPathForFolder = CHOOSE g : g = Loop(g, Folders)
  BY DEF FindConfigPathForFolder
<1>5. 0 \in Has
  <2> DEFINE e == [f \in {} |-> NoPath]
  <2>1. Low(0) = {}
    BY <1>3
  <2>2. e = Loop(e, {})
    OBVIOUS
  <2>3. HasValue(0)
    BY <2>1, <2>2
  <2> HIDE DEF HasValue
  <2> QED  BY <2>3
<1>6. ASSUME NEW m \in Nat, m \in Has PROVE m + 1 \in Has
  <2>1. PICK g : g = Loop(g, Low(m))
    BY <1>6
  <2> DEFINE h == Loop(g, Low(m + 1))
  <2>2. \A f \in Folders : f \in Projects \/ Parent[f] = f \/ (f \in Low(m + 1) => Parent[f] \in Low(m))
    <3> SUFFICES ASSUME NEW f \in Folders, Parent[f] # f, depth[f] < m + 1
                 PROVE  Parent[f] \in Folders /\ depth[Parent[f]] < m
      OBVIOUS
    <3>1. depth[f] \in Nat /\ depth[Parent[f]] \in Nat /\ depth[Parent[f]] < depth[f]
      BY <1>1, <1>3
    <3> QED  BY <1>3, <3>1
  <2>3. \A f \in Low(m) : f \in Low(m + 1)
    BY <1>3
  <2>4. \A f \in Low(m + 1) : f \in Folders
    OBVIOUS
  <2> HIDE DEF Low
  <2>5. DOMAIN g = Low(m) /\ \A f \in Low(m) : g[f] = Of(g, f)
    <3> HIDE DEF Of
    <3> QED  BY <2>1
  <2>6. DOMAIN h = Low(m + 1) /\ \A f \in Low(m + 1) : h[f] = Of(g, f)
    <3> HIDE DEF Of
    <3> QED  OBVIOUS
  <2>7. \A f \in Low(m) : h[f] = g[f]
    <3> HIDE DEF Of, h
    <3> QED  BY <2>3, <2>5, <2>6
  <2> HIDE DEF h
  <2>8. \A f \in Low(m + 1) : Of(g, f) = Of(h, f)
    BY <2>2, <2>4, <2>7
  <2>9. h = Loop(h, Low(m + 1))
    <3> HIDE DEF Of
    <3>1. h = [f \in Low(m + 1) |-> h[f]]
      BY <2>6 DEF h
    <3> QED  BY <2>6, <2>8, <3>1
  <2>10. HasValue(m + 1)
    <3> HIDE DEF Loop
    <3> QED  BY <2>9 DEF Low
  <2> HIDE DEF HasValue
  <2> QED  BY <2>10
<1>7. Nat \subseteq Has
  <2> HIDE DEF Has
  <2> QED  BY <1>5, <1>6, SetInduction
<1>8. HasValue(Cardinality(Folders) + 1)
  <2>1. Cardinality(Folders) + 1 \in Has
    <3> HIDE DEF Has
    <3> QED  BY <1>2, <1>7
  <2> HIDE DEF HasValue
  <2> QED  BY <2>1
<1>9. Low(Cardinality(Folders) + 1) = Folders
  BY <1>3
<1> DEFINE F == FindConfigPathForFolder
<1>10. \E g : g = Loop(g, Folders)
  BY <1>8, <1>9
<1>11. F = Loop(F, Folders)
  BY <1>4, <1>10
<1>12. \A f \in Folders : F[f] = Of(F, f)
  <2> HIDE DEF Of, F
  <2> QED  BY <1>11
<1> HIDE DEF F
<1> DEFINE Good(m) == \A f \in Low(m) : F[f] \in Paths \union {NoPath}
           All == {m \in Nat : Good(m)}
<1>13. 0 \in All
  <2>1. Low(0) = {}
    BY <1>3
  <2>2. Good(0)
    BY <2>1
  <2> HIDE DEF Good
  <2> QED  BY <2>2
<1>14. ASSUME NEW m \in Nat, m \in All PROVE m + 1 \in All
  <2> SUFFICES ASSUME NEW f \in Folders, depth[f] < m + 1 PROVE F[f] \in Paths \union {NoPath}
    OBVIOUS
  <2>1. \A e \in Folders : depth[e] < m => F[e] \in Paths \union {NoPath}
    BY <1>14
  <2>2. CASE f \in Projects \/ Parent[f] = f
    BY <1>3, <1>12, <2>2
  <2>3. CASE f \notin Projects /\ Parent[f] # f
    <3>1. /\ depth[f] \in Nat /\ depth[Parent[f]] \in Nat /\ depth[Parent[f]] < depth[f]
          /\ Parent[f] \in Folders
      BY <1>1, <1>3, <2>3
    <3>2. F[f] = F[Parent[f]]
      BY <1>12, <2>3
    <3>3. depth[Parent[f]] < m
      BY <3>1
    <3> QED  BY <2>1, <3>1, <3>2, <3>3
  <2> QED  BY <2>2, <2>3
<1>15. Nat \subseteq All
  <2> HIDE DEF All
  <2> QED  BY <1>13, <1>14, SetInduction
<1>16. Good(Cardinality(Folders) + 1)
  <2>1. Cardinality(Folders) + 1 \in All
    <3> HIDE DEF All
    <3> QED  BY <1>2, <1>15
  <2> HIDE DEF Good
  <2> QED  BY <2>1
<1> QED  BY <1>9, <1>16 DEF F

\* What a source file's configuration is cached under
LEMMA SourceKey ==
  ASSUME NEW f \in SourceFolders, NEW r \in RootDirs
  PROVE  LET source == Source(f, r) IN
         /\ source.path \in Paths \union {NoPath} /\ IsKeyOf(source.path, source.key)
<1> DEFINE path == IF r = NoFolder THEN FindConfigPathForFolder[f] ELSE TSDocJson[r]
<1>1. path \in Paths \union {NoPath}
  BY FindsAPath, FoldersAssumption
<1>2. Source(f, r) = [path |-> path, key |-> IF path = NoPath THEN f ELSE path]
  BY DEF Source
<1> HIDE DEF path
<1> QED  BY <1>1, <1>2 DEF IsKeyOf

-----------------------------------------------------------------------------
(***************************************************************************)
(* The steps of the rule.                                                  *)
(***************************************************************************)
IsEntryOf(entry, k, heap, time) ==
  /\ entry \in [configFile : 1 .. Len(heap), loadTime : 0 .. time, lastCheckTime : 0 .. time]
  /\ IsKeyOf(heap[entry.configFile].filePath, k) /\ IsWhole(heap[entry.configFile])

\* Nothing is stored or evicted, and the files of the entries stay what they are.
LEMMA EntriesStay ==
  ASSUME CacheInv, UNCHANGED cachedConfigs, Len(files') \in Nat, Len(files) <= Len(files'),
         now' \in Nat, now <= now',
         \A k \in DOMAIN cachedConfigs :
           LET id == cachedConfigs[k].configFile IN
           /\ files'[id].filePath = files[id].filePath
           /\ IsWhole(files[id]) => IsWhole(files'[id])
           /\ IsLoading' => IsLoading /\ stack'[1] = stack[1],
         request'.step = "loading" => /\ request.step = "loading" /\ request'.key = request.key
                                      /\ files'[stack'[1]].filePath = files[stack[1]].filePath
  PROVE  CachedOK'
<1>1. Len(files) \in Nat /\ CachedOK /\ now \in Nat
  BY DEF CacheInv, LoadInv, HeapOK, BasesFollow, ClockOK
<1>2. 1 .. Len(files) \subseteq 1 .. Len(files') /\ 0 .. now \subseteq 0 .. now'
  BY <1>1
<1>3. ASSUME NEW k \in DOMAIN cachedConfigs
      PROVE  /\ cachedConfigs[k] \in [configFile : 1 .. Len(files'), loadTime : 0 .. now',
                                      lastCheckTime : 0 .. now']
             /\ IsKeyOf(files'[cachedConfigs[k].configFile].filePath, k)
             /\ IsWhole(files'[cachedConfigs[k].configFile])
             /\ IsLoading' => cachedConfigs[k].configFile < stack'[1]
  <2> DEFINE entry == cachedConfigs[k]
  <2>1. /\ entry \in [configFile : 1 .. Len(files), loadTime : 0 .. now, lastCheckTime : 0 .. now]
        /\ IsKeyOf(files[entry.configFile].filePath, k)
        /\ IsWhole(files[entry.configFile])
        /\ IsLoading => entry.configFile < stack[1]
    BY <1>1 DEF CachedOK
  <2>2. /\ files'[entry.configFile].filePath = files[entry.configFile].filePath
        /\ IsWhole(files[entry.configFile]) => IsWhole(files'[entry.configFile])
        /\ IsLoading' => IsLoading /\ stack'[1] = stack[1]
    OBVIOUS
  <2> HIDE DEF entry
  <2> QED  BY <1>2, <2>1, <2>2 DEF entry
<1>4. /\ IsFiniteSet(DOMAIN cachedConfigs) /\ Cardinality(DOMAIN cachedConfigs) <= MaxSize + 1
      /\ request.step = "loading" =>
           /\ Cardinality(DOMAIN cachedConfigs) <= MaxSize
           /\ request.key \notin DOMAIN cachedConfigs
           /\ IsKeyOf(files[stack[1]].filePath, request.key)
  BY <1>1 DEF CachedOK
<1> QED  BY <1>3, <1>4 DEF CachedOK, IsWhole, IsKeyOf

\* While a file is loaded, what was there before stays.
LEMMA LoadKeepsOld ==
  ASSUME LoadInv, LoadStep, IsLoading
  PROVE  /\ UNCHANGED disk /\ Len(files') \in Nat /\ Len(files) \in Nat /\ Len(files) <= Len(files')
         /\ stack'[1] = stack[1] /\ stack[1] \in 1 .. Len(files) /\ stack[1] <= this
         /\ \A id \in 1 .. Len(files) : /\ id < stack[1] => files'[id] = files[id]
                                        /\ files'[id].filePath = files[id].filePath
<1>1. /\ Len(stack) \in Nat \ {0} /\ this \in 1 .. Len(files) /\ Len(files) \in Nat
      /\ stack[1] \in 1 .. Len(files) /\ stack[1] <= this /\ stack \in Seq(1 .. Len(files))
      /\ \A i, j \in DOMAIN stack : i < j => stack[i] < stack[j]
  BY StackFacts DEF IsLoading, LoadInv, StackOK
<1>2. CASE UNCHANGED <<disk, files, stack>>
  BY <1>1, <1>2
<1>3. ASSUME NEW f, TopBecomes(f)
      PROVE  /\ UNCHANGED <<disk, stack>> /\ Len(files') = Len(files)
             /\ \A id \in 1 .. Len(files) : /\ id < stack[1] => files'[id] = files[id]
                                            /\ files'[id].filePath = files[id].filePath
  <2>1. /\ UNCHANGED <<disk, stack>> /\ Len(files') = Len(files)
        /\ \A j \in 1 .. Len(files) : files'[j] = IF j = this THEN f ELSE files[j]
        /\ f.filePath = files[this].filePath
    BY <1>3 DEF TopBecomes, thisFile
  <2> QED  BY <1>1, <2>1
<1>4. ASSUME NEW path, FileAdded(path), stack' = Append(stack, Len(files) + 1)
      PROVE  /\ UNCHANGED disk /\ Len(files') = Len(files) + 1 /\ stack'[1] = stack[1]
             /\ \A id \in 1 .. Len(files) : files'[id] = files[id]
  BY <1>1, <1>4 DEF FileAdded
<1>5. ASSUME NEW below, NEW h, Returned(below, h)
      PROVE  /\ UNCHANGED disk /\ Len(files') = Len(files) /\ stack'[1] = stack[1]
             /\ \A id \in 1 .. Len(files) : /\ id < stack[1] => files'[id] = files[id]
                                            /\ files'[id].filePath = files[id].filePath
  <2>1. /\ UNCHANGED disk /\ Len(files') = Len(files)
        /\ \A j \in 1 .. Len(files) : files'[j] = IF j = below THEN h ELSE files[j]
        /\ h.filePath = files[below].filePath /\ below = stack[Len(stack) - 1]
        /\ Len(stack) > 1 /\ Len(stack') = Len(stack) - 1
        /\ \A i \in 1 .. Len(stack') : stack'[i] = stack[i]
    BY <1>5 DEF Returned
  <2>2. 1 \in 1 .. Len(stack') /\ 1 \in DOMAIN stack /\ Len(stack) - 1 \in DOMAIN stack
    BY <1>1, <2>1
  <2>3. below \in 1 .. Len(files) /\ stack[1] <= below
    <3> DEFINE j == Len(stack) - 1
    <3>1. j \in DOMAIN stack /\ below = stack[j] /\ (j = 1 \/ 1 < j)
      BY <1>1, <2>1, <2>2
    <3> HIDE DEF j
    <3>2. below \in 1 .. Len(files)
      BY <1>1, <3>1
    <3>3. CASE j = 1
      BY <1>1, <3>1, <3>2, <3>3
    <3>4. CASE 1 < j
      <4>1. stack[1] < stack[j]
        BY <1>1, <2>2, <3>1, <3>4
      <4>2. stack[1] \in Nat /\ below \in Nat /\ stack[1] < below
        BY <1>1, <3>1, <3>2, <4>1
      <4> QED  BY <3>2, <4>2
    <3> QED  BY <3>1, <3>3, <3>4
  <2>4. stack'[1] = stack[1]
    BY <2>1, <2>2
  <2>5. ASSUME NEW id \in 1 .. Len(files)
        PROVE  /\ id < stack[1] => files'[id] = files[id]
               /\ files'[id].filePath = files[id].filePath
    <3>1. id < stack[1] => id # below
      <4> DEFINE first == stack[1]
      <4>1. id \in Nat /\ first \in Nat /\ below \in Nat /\ first <= below
        BY <1>1, <2>3
      <4> HIDE DEF first
      <4>2. id < first => id # below
        BY <4>1
      <4> QED  BY <4>2 DEF first
    <3> QED  BY <2>1, <3>1
  <2> QED  BY <2>1, <2>4, <2>5
<1> QED  BY <1>1, <1>2, <1>3, <1>4, <1>5 DEF LoadStep

\* A step of the load is one of the lint; its files are newer than those of the entries.
LEMMA CacheLoadKeeps ==
  ASSUME CacheInv, Load, UNCHANGED cacheVars
  PROVE  CacheInv'
<1>1. LoadInv' /\ LoadStep /\ IsLoading /\ pc' \notin {"Start", "Configured"}
  BY LoadKeeps DEF CacheInv
<1>2. /\ UNCHANGED disk /\ Len(files') \in Nat /\ Len(files) \in Nat /\ Len(files) <= Len(files')
      /\ stack'[1] = stack[1] /\ stack[1] \in 1 .. Len(files)
      /\ \A id \in 1 .. Len(files) : /\ id < stack[1] => files'[id] = files[id]
                                     /\ files'[id].filePath = files[id].filePath
  BY <1>1, LoadKeepsOld DEF CacheInv
<1>3. UNCHANGED <<now, changed, cachedConfigs, request, reported>>
  BY DEF cacheVars
<1>4. request.step = "loading"
  BY <1>1 DEF CacheInv, RequestOK
<1>5. ClockOK'
  BY <1>2, <1>3 DEF CacheInv, ClockOK
<1>6. RequestOK'
  BY <1>1, <1>3, <1>4 DEF CacheInv, RequestOK
<1>7. \A k \in DOMAIN cachedConfigs :
        cachedConfigs[k].configFile \in 1 .. Len(files) /\ cachedConfigs[k].configFile < stack[1]
  BY <1>1 DEF CacheInv, CachedOK
<1>8. now \in Nat
  BY LimitsAssumption DEF CacheInv, ClockOK
<1>9. CachedOK'
  BY <1>1, <1>2, <1>3, <1>7, <1>8, EntriesStay
<1> QED  BY <1>1, <1>5, <1>6, <1>9 DEF CacheInv

\* A step of the rule that changes no file, no entry and not where the load is
LEMMA QuietKeeps ==
  ASSUME CacheInv, UNCHANGED <<disk, files, stack, visited, cachedConfigs, changed>>,
         PcOK', pc' = "Start" <=> pc = "Start", pc' = "Loaded" => Len(stack) = 1,
         IsLoading' => IsLoading, now' \in 0 .. Horizon, now <= now', RequestOK',
         request'.step = "loading" => request.step = "loading" /\ request'.key = request.key
  PROVE  CacheInv'
<1>1. LoadInv'
  BY StillKeeps DEF CacheInv
<1>2. ClockOK'
  BY DEF CacheInv, ClockOK
<1>3. /\ now' \in Nat /\ Len(files') \in Nat /\ Len(files) <= Len(files')
  BY LimitsAssumption DEF CacheInv, LoadInv, HeapOK, BasesFollow
<1>4. CachedOK'
  BY <1>3, EntriesStay
<1> QED  BY <1>1, <1>2, <1>4 DEF CacheInv

\* Time passes.
LEMMA TickKeeps ==
  ASSUME CacheInv, Tick
  PROVE  CacheInv'
<1>1. /\ now < Horizon /\ now' = now + 1
      /\ UNCHANGED <<disk, files, stack, visited, content, pc, cachedConfigs, changed, request>>
  BY DEF Tick, vars, loader
<1>2. now \in 0 .. Horizon /\ Horizon \in Nat
  BY LimitsAssumption DEF CacheInv, ClockOK
<1>3. now' \in 0 .. Horizon /\ now <= now' /\ 0 .. now \subseteq 0 .. now'
  BY <1>1, <1>2
<1>4. PcOK'
  BY <1>1 DEF CacheInv, LoadInv, PcOK, thisFile, this
<1>5. RequestOK'
  BY <1>1, <1>3 DEF CacheInv, RequestOK, IsLoading
<1> QED  BY <1>1, <1>3, <1>4, <1>5, QuietKeeps DEF CacheInv, LoadInv, StackOK, IsLoading

\* A file is written, and the time at which it was is remembered.
LEMMA EditNowKeeps ==
  ASSUME CacheInv, NEW p \in DOMAIN disk, NEW c \in Contents \union {Absent}, EditNow(p, c)
  PROVE  CacheInv' /\ EditedAt(p, c) /\ changed' = [changed EXCEPT ![p] = Append(@, now)]
<1>1. LoadInv' /\ EditedAt(p, c)
  BY EditKeeps DEF CacheInv, EditNow
<1>2. /\ changed' = [changed EXCEPT ![p] = Append(@, now)]
      /\ UNCHANGED <<now, cachedConfigs, request, reported>>
  BY DEF EditNow
<1>3. UNCHANGED <<files, stack, visited, content, pc>>
  BY <1>1 DEF EditedAt, loader
<1>4. ClockOK'
  <2>1. /\ DOMAIN changed = DOMAIN disk /\ now \in 0 .. Horizon
        /\ \A q \in DOMAIN disk : changed[q] \in Seq(Nat) /\ Len(changed[q]) = Len(disk[q])
    BY DEF CacheInv, ClockOK
  <2>2. /\ DOMAIN disk' = DOMAIN disk /\ disk'[p] = Append(disk[p], c)
        /\ \A q \in DOMAIN disk : q # p => disk'[q] = disk[q]
    BY <1>1 DEF EditedAt
  <2>3. /\ DOMAIN changed' = DOMAIN disk' /\ changed'[p] = Append(changed[p], now)
        /\ \A q \in DOMAIN disk : q # p => changed'[q] = changed[q]
    BY <1>2, <2>1, <2>2
  <2>4. Len(Append(disk[p], c)) = Len(disk[p]) + 1
    <3>1. disk[p] \in Seq(Stored) /\ c \in Stored
      BY <1>1 DEF CacheInv, LoadInv, DiskOK, EditedAt
    <3> QED  BY <3>1
  <2>5. Append(changed[p], now) \in Seq(Nat) /\ Len(Append(changed[p], now)) = Len(changed[p]) + 1
    <3>1. now \in Nat
      BY <2>1, LimitsAssumption
    <3> QED  BY <2>1, <3>1
  <2>6. \A q \in DOMAIN disk : changed'[q] \in Seq(Nat) /\ Len(changed'[q]) = Len(disk'[q])
    BY <2>1, <2>2, <2>3, <2>4, <2>5
  <2> QED  BY <1>2, <2>1, <2>2, <2>3, <2>6 DEF ClockOK
<1>5. RequestOK'
  BY <1>2, <1>3 DEF CacheInv, RequestOK, IsLoading
<1>6. now' \in Nat /\ now <= now' /\ Len(files') \in Nat /\ Len(files) <= Len(files')
  BY <1>2, <1>3, LimitsAssumption DEF CacheInv, ClockOK, LoadInv, HeapOK, BasesFollow
<1>7. CachedOK'
  BY <1>2, <1>3, <1>6, EntriesStay DEF IsLoading
<1> QED  BY <1>1, <1>2, <1>4, <1>5, <1>7 DEF CacheInv

\* A hit: the entry's file is the one that the load would have led to.
LEMMA AnswerKeeps ==
  ASSUME CacheInv, pc = "Start", NEW key \in DOMAIN cachedConfigs, NEW caches, Answer(key, caches),
         \/ caches = cachedConfigs
         \/ caches = [cachedConfigs EXCEPT ![key].lastCheckTime = now]
  PROVE  CacheInv' /\ stack'[1] = cachedConfigs[key].configFile /\ stack'[1] \in 1 .. Len(files)
<1> DEFINE id == cachedConfigs[key].configFile
<1>1. /\ cachedConfigs' = caches /\ stack' = <<id>> /\ pc' = "Loaded"
      /\ request' = [key |-> key, now |-> now, step |-> "answered"]
      /\ UNCHANGED <<disk, files, visited, content, configuration, now, changed, reported>>
  BY DEF Answer, Request
<1>2. /\ LoadInv /\ CachedOK /\ now \in 0 .. now /\ now \in Nat
  BY LimitsAssumption DEF CacheInv, ClockOK
<1>3. id \in 1 .. Len(files) /\ IsWhole(files[id])
  BY <1>2 DEF CachedOK
<1> HIDE DEF id
<1>4. stack' \in Seq(1 .. Len(files)) /\ Len(stack') = 1 /\ stack'[1] = id /\ stack' # <<>>
  BY <1>1, <1>3
<1>5. LoadInv'
  <2>1. /\ HeapOK(files') /\ visited' \subseteq Paths /\ content' \in Stored
        /\ UNCHANGED <<disk, files>>
    BY <1>1, <1>2 DEF LoadInv, StackOK, PcOK
  <2>2. \A j \in 1 .. Len(files) : SameReading(files[j], files'[j])
                                   /\ files'[j].filePath = files[j].filePath
    BY <2>1 DEF SameReading
  <2> QED  BY <1>1, <1>2, <1>3, <1>4, <2>1, <2>2, RestKeeps
<1>6. ClockOK'
  BY <1>1 DEF CacheInv, ClockOK
<1>7. RequestOK'
  BY <1>1, <1>2 DEF RequestOK, IsLoading
<1>8. CachedOK'
  <2>1. /\ DOMAIN caches = DOMAIN cachedConfigs
        /\ \A k \in DOMAIN cachedConfigs :
             \/ caches[k] = cachedConfigs[k]
             \/ caches[k] = [cachedConfigs[k] EXCEPT !.lastCheckTime = now]
    BY <1>2 DEF CachedOK
  <2>2. ASSUME NEW k \in DOMAIN cachedConfigs
        PROVE  /\ caches[k] \in [configFile : 1 .. Len(files), loadTime : 0 .. now,
                                 lastCheckTime : 0 .. now]
               /\ caches[k].configFile = cachedConfigs[k].configFile
    <3> DEFINE entry == cachedConfigs[k]
    <3>1. entry \in [configFile : 1 .. Len(files), loadTime : 0 .. now, lastCheckTime : 0 .. now]
      BY <1>2 DEF CachedOK
    <3>2. caches[k] = entry \/ caches[k] = [entry EXCEPT !.lastCheckTime = now]
      BY <2>1
    <3> HIDE DEF entry
    <3>3. [entry EXCEPT !.lastCheckTime = now].configFile = entry.configFile
      BY <3>1
    <3>4. [entry EXCEPT !.lastCheckTime = now] \in [configFile : 1 .. Len(files), loadTime : 0 .. now,
                                                   lastCheckTime : 0 .. now]
      BY <1>2, <3>1
    <3> QED  BY <3>1, <3>2, <3>3, <3>4 DEF entry
  <2>3. request'.step # "loading" /\ ~IsLoading'
    BY <1>1 DEF IsLoading
  <2>4. \A k \in DOMAIN caches :
          /\ caches[k] \in [configFile : 1 .. Len(files), loadTime : 0 .. now,
                            lastCheckTime : 0 .. now]
          /\ IsKeyOf(files[caches[k].configFile].filePath, k)
          /\ IsWhole(files[caches[k].configFile])
    BY <1>2, <2>1, <2>2 DEF CachedOK
  <2>5. IsFiniteSet(DOMAIN caches) /\ Cardinality(DOMAIN caches) <= MaxSize + 1
    BY <1>2, <2>1 DEF CachedOK
  <2> QED  BY <1>1, <2>3, <2>4, <2>5 DEF CachedOK, IsKeyOf, IsWhole
<1> QED  BY <1>3, <1>4, <1>5, <1>6, <1>7, <1>8 DEF CacheInv, id

\* A miss: the load begins with a cache that has no entry of the key and has room for one.
LEMMA MissKeeps ==
  ASSUME CacheInv, pc = "Start", NEW f \in SourceFolders, NEW r \in RootDirs, NEW caches,
         DOMAIN caches \subseteq DOMAIN cachedConfigs \ {Source(f, r).key},
         \A k \in DOMAIN caches : caches[k] = cachedConfigs[k],
         Miss(Source(f, r), caches)
  PROVE  /\ CacheInv' /\ FileAdded(Source(f, r).path) /\ stack' = <<Len(files) + 1>>
         /\ \A k \in DOMAIN cachedConfigs' : k \in DOMAIN cachedConfigs
                                             /\ cachedConfigs'[k] = cachedConfigs[k]
         /\ request' = [key |-> Source(f, r).key, now |-> now, step |-> "loading"]
         /\ UNCHANGED <<now, changed, reported>>
<1> DEFINE path == Source(f, r).path
           key == Source(f, r).key
           n == Len(files)
<1>1. path \in Paths \union {NoPath} /\ IsKeyOf(path, key)
  BY SourceKey
<1>2. /\ cachedConfigs' = IF Cardinality(DOMAIN caches) > MaxSize THEN <<>> ELSE caches
      /\ LoadFile(path)
      /\ request' = [key |-> key, now |-> now, step |-> "loading"]
      /\ UNCHANGED <<now, changed, reported>>
  BY DEF Miss, Request
<1> HIDE DEF path, key
<1>3. LoadInv' /\ FileAdded(path) /\ stack' = <<n + 1>> /\ pc' = "Exists"
  BY <1>1, <1>2, LoadFileKeeps DEF CacheInv, LoadFile
<1>4. /\ CachedOK /\ now \in Nat /\ now \in 0 .. now /\ n \in Nat
  BY LimitsAssumption DEF CacheInv, ClockOK, LoadInv, HeapOK, BasesFollow
<1>5. /\ IsFiniteSet(DOMAIN caches) /\ Cardinality(DOMAIN caches) \in Nat
      /\ key \notin DOMAIN caches
  <2>1. DOMAIN caches \subseteq DOMAIN cachedConfigs \ {key}
    BY DEF key
  <2>2. IsFiniteSet(DOMAIN caches)
    BY <1>4, <2>1, FS_Subset DEF CachedOK
  <2> QED  BY <2>1, <2>2, FS_CardinalityType
<1> DEFINE kept == cachedConfigs'
<1>6. /\ IsFiniteSet(DOMAIN kept) /\ Cardinality(DOMAIN kept) <= MaxSize
      /\ key \notin DOMAIN kept
      /\ \A k \in DOMAIN kept : k \in DOMAIN cachedConfigs /\ kept[k] = cachedConfigs[k]
  <2>1. CASE Cardinality(DOMAIN caches) > MaxSize
    <3>1. DOMAIN kept = {}
      BY <1>2, <2>1
    <3> QED  BY <3>1, FS_EmptySet, LimitsAssumption
  <2>2. CASE ~(Cardinality(DOMAIN caches) > MaxSize)
    <3>1. kept = caches
      BY <1>2, <2>2
    <3> QED  BY <1>5, <2>2, <3>1, LimitsAssumption DEF key
  <2> QED  BY <2>1, <2>2
<1> HIDE DEF kept
<1>7. /\ UNCHANGED disk /\ Len(files') = n + 1 /\ files'[n + 1].filePath = path
      /\ \A j \in 1 .. n : files'[j] = files[j]
  BY <1>3 DEF FileAdded
<1>8. ClockOK'
  BY <1>2, <1>7 DEF CacheInv, ClockOK
<1>9. RequestOK'
  BY <1>2, <1>3, <1>4 DEF RequestOK, IsLoading
<1>10. ASSUME NEW k \in DOMAIN kept
       PROVE  /\ kept[k] \in [configFile : 1 .. n + 1, loadTime : 0 .. now, lastCheckTime : 0 .. now]
              /\ IsKeyOf(files'[kept[k].configFile].filePath, k)
              /\ IsWhole(files'[kept[k].configFile])
              /\ kept[k].configFile < n + 1
  <2>1. k \in DOMAIN cachedConfigs /\ kept[k] = cachedConfigs[k]
    BY <1>6
  <2> DEFINE entry == kept[k]
  <2>2. /\ entry \in [configFile : 1 .. n, loadTime : 0 .. now, lastCheckTime : 0 .. now]
        /\ IsKeyOf(files[entry.configFile].filePath, k) /\ IsWhole(files[entry.configFile])
    BY <1>4, <2>1 DEF CachedOK
  <2> HIDE DEF entry
  <2>3. 1 .. n \subseteq 1 .. n + 1 /\ \A j \in 1 .. n : j < n + 1
    BY <1>4
  <2>4. files'[entry.configFile] = files[entry.configFile]
    BY <1>7, <2>2
  <2> QED  BY <2>2, <2>3, <2>4 DEF entry
<1>11. stack'[1] = n + 1
  BY <1>3
<1>12. Cardinality(DOMAIN kept) <= MaxSize + 1
  BY <1>6, LimitsAssumption, FS_CardinalityType
<1>13. CachedOK'
  BY <1>1, <1>2, <1>6, <1>7, <1>10, <1>11, <1>12 DEF CachedOK, IsKeyOf, IsWhole, kept
<1> QED  BY <1>2, <1>3, <1>6, <1>8, <1>9, <1>13 DEF CacheInv, kept, path, key

\* The load is over, and becomes the entry of its key: there was room for one.
LEMMA StoreKeeps ==
  ASSUME CacheInv, Store
  PROVE  CacheInv'
<1> DEFINE kept == cachedConfigs'
           entry == Entry
           key == request.key
           n == Len(files)
<1>1. /\ pc = "Loaded" /\ request.step = "loading" /\ pc # "Start"
      /\ kept = [k \in DOMAIN cachedConfigs \union {key} |->
                   IF k = key THEN entry ELSE cachedConfigs[k]]
      /\ request' = [request EXCEPT !.step = "answered"]
      /\ UNCHANGED <<disk, files, stack, visited, content, pc, now, changed, reported>>
  BY DEF Store, Put, vars, loader
<1>2. /\ LoadInv /\ CachedOK /\ RequestOK /\ MaxSize \in Nat
      /\ now \in Nat /\ request.now \in 0 .. now /\ n \in Nat
  BY LimitsAssumption DEF CacheInv, ClockOK, RequestOK, LoadInv, HeapOK, BasesFollow
<1>3. stack[1] \in 1 .. n /\ IsWhole(files[stack[1]])
  <2>1. Len(stack) = 1 /\ IsWhole(thisFile) /\ stack[1] \in 1 .. n
    BY <1>1, <1>2, StackFacts DEF LoadInv, StackOK, PcOK
  <2> QED  BY <2>1 DEF thisFile, this
<1>4. /\ entry \in [configFile : 1 .. n, loadTime : 0 .. now, lastCheckTime : 0 .. now]
      /\ IsKeyOf(files[entry.configFile].filePath, key) /\ IsWhole(files[entry.configFile])
  BY <1>1, <1>2, <1>3 DEF Entry, CachedOK
<1> HIDE DEF entry
<1>5. LoadInv'
  <2>1. PcOK'
    BY <1>1, <1>2 DEF LoadInv, PcOK, thisFile, this
  <2> QED  BY <1>1, <1>2, <2>1, StillKeeps DEF LoadInv, StackOK, IsLoading
<1>6. ClockOK'
  BY <1>1 DEF CacheInv, ClockOK
<1>7. /\ request' = [key |-> key, now |-> request.now, step |-> "answered"]
  BY <1>1, <1>2 DEF RequestOK
<1>8. RequestOK'
  BY <1>1, <1>2, <1>7 DEF RequestOK, IsLoading
<1>9. /\ IsFiniteSet(DOMAIN kept) /\ Cardinality(DOMAIN kept) <= MaxSize + 1
  <2> DEFINE D == DOMAIN cachedConfigs
  <2>1. IsFiniteSet(D) /\ Cardinality(D) <= MaxSize /\ key \notin D /\ Cardinality(D) \in Nat
    BY <1>1, <1>2, FS_CardinalityType DEF CachedOK
  <2>2. DOMAIN kept = D \union {key}
    BY <1>1
  <2>3. IsFiniteSet(D \union {key}) /\ Cardinality(D \union {key}) = Cardinality(D) + 1
    BY <2>1, FS_AddElement
  <2> HIDE DEF kept, D
  <2> QED  BY <1>2, <2>1, <2>2, <2>3
<1>10. ASSUME NEW k \in DOMAIN kept
       PROVE  /\ kept[k] \in [configFile : 1 .. n, loadTime : 0 .. now, lastCheckTime : 0 .. now]
              /\ IsKeyOf(files[kept[k].configFile].filePath, k)
              /\ IsWhole(files[kept[k].configFile])
  <2>1. CASE k = key
    <3>1. kept[k] = entry
      BY <1>1, <2>1
    <3> QED  BY <1>4, <2>1, <3>1
  <2>2. CASE k # key
    <3>1. k \in DOMAIN cachedConfigs /\ kept[k] = cachedConfigs[k]
      BY <1>1, <2>2
    <3> QED  BY <1>2, <3>1 DEF CachedOK
  <2> QED  BY <2>1, <2>2
<1>11. request'.step # "loading" /\ ~IsLoading'
  BY <1>1, <1>7 DEF IsLoading
<1>12. CachedOK'
  BY <1>1, <1>9, <1>10, <1>11 DEF CachedOK, IsKeyOf, IsWhole
<1> QED  BY <1>5, <1>6, <1>8, <1>12 DEF CacheInv

\* The errors of the load are reported.
LEMMA ReportErrorsKeeps ==
  ASSUME CacheInv, ReportErrors
  PROVE  CacheInv'
<1>1. /\ pc = "Loaded" /\ request.step = "answered"
      /\ request' = [request EXCEPT !.step = "reported"]
      /\ UNCHANGED <<disk, files, stack, visited, content, pc, now, changed, cachedConfigs>>
  BY DEF ReportErrors, vars, loader
<1>2. request' = [key |-> request.key, now |-> request.now, step |-> "reported"]
  BY <1>1 DEF CacheInv, RequestOK
<1>3. RequestOK'
  BY <1>1, <1>2 DEF CacheInv, RequestOK, IsLoading
<1>4. PcOK'
  BY <1>1 DEF CacheInv, LoadInv, PcOK, thisFile, this
<1>5. now' \in 0 .. Horizon /\ now <= now'
  BY <1>1, LimitsAssumption DEF CacheInv, ClockOK
<1> QED  BY <1>1, <1>2, <1>3, <1>4, <1>5, QuietKeeps DEF CacheInv, LoadInv, StackOK, IsLoading

\* The parser is configured, or configuring it throws.
LEMMA ConfigureLintKeeps ==
  ASSUME CacheInv, ConfigureLint
  PROVE  CacheInv' /\ IsApplied(files, files') /\ UNCHANGED <<disk, stack>>
<1>1. /\ request' = [request EXCEPT !.step = "linted"] /\ Configure
      /\ UNCHANGED <<now, changed, cachedConfigs>>
  BY DEF ConfigureLint
<1>2. /\ LoadInv' /\ IsApplied(files, files') /\ pc = "Loaded" /\ pc' = "Configured"
      /\ UNCHANGED <<disk, stack>>
  BY <1>1, ConfigureKeeps DEF CacheInv
<1>3. request' = [key |-> request.key, now |-> request.now, step |-> "linted"]
  BY <1>1 DEF CacheInv, RequestOK
<1>4. RequestOK'
  BY <1>1, <1>2, <1>3 DEF CacheInv, RequestOK, IsLoading
<1>5. ClockOK'
  BY <1>1, <1>2 DEF CacheInv, ClockOK
<1>6. /\ Len(files') \in Nat /\ Len(files) <= Len(files') /\ now' \in Nat /\ now <= now'
  BY <1>1, <1>2, LimitsAssumption DEF CacheInv, ClockOK, LoadInv, HeapOK, BasesFollow, IsApplied
<1>7. \A id \in 1 .. Len(files) : /\ files'[id].filePath = files[id].filePath
                                  /\ IsWhole(files[id]) => IsWhole(files'[id])
  BY <1>2 DEF IsApplied, IsReported, IsWhole
<1>8. \A k \in DOMAIN cachedConfigs : cachedConfigs[k].configFile \in 1 .. Len(files)
  BY DEF CacheInv, CachedOK
<1>9. request'.step # "loading" /\ ~IsLoading'
  BY <1>2, <1>3 DEF IsLoading
<1>10. CachedOK'
  BY <1>1, <1>6, <1>7, <1>8, <1>9, EntriesStay
<1> QED  BY <1>2, <1>4, <1>5, <1>10 DEF CacheInv

\* There is no file, or the load threw: the parser keeps its defaults.
LEMMA UnconfiguredKeeps ==
  ASSUME CacheInv, KeepDefaults \/ LoadThrew
  PROVE  CacheInv' /\ UNCHANGED <<files, stack>> /\ request'.step = "linted"
<1>1. /\ pc \in {"Loaded", "Thrown"} /\ pc' = "Configured"
      /\ request' = [request EXCEPT !.step = "linted"]
      /\ UNCHANGED <<disk, files, stack, visited, content, now, changed, cachedConfigs>>
  BY DEF KeepDefaults, LoadThrew
<1>2. request' = [key |-> request.key, now |-> request.now, step |-> "linted"]
  BY <1>1 DEF CacheInv, RequestOK
<1>3. RequestOK'
  BY <1>1, <1>2 DEF CacheInv, RequestOK, IsLoading
<1>4. PcOK'
  BY <1>1 DEF CacheInv, LoadInv, PcOK
<1>5. now' \in 0 .. Horizon /\ now <= now'
  BY <1>1, LimitsAssumption DEF CacheInv, ClockOK
<1>6. ~IsLoading'
  BY <1>1 DEF IsLoading
<1> QED  BY <1>1, <1>2, <1>3, <1>4, <1>5, <1>6, QuietKeeps

\* The lint is over, and its stack with it; the heap and the cache stay.
LEMMA EndLintKeeps ==
  ASSUME CacheInv, EndLint
  PROVE  CacheInv' /\ UNCHANGED files /\ request'.step = "none"
<1>1. /\ pc = "Configured" /\ pc' = "Start" /\ stack' = <<>> /\ visited' = {} /\ content' = Absent
      /\ request' = [key |-> NoPath, now |-> 0, step |-> "none"]
      /\ UNCHANGED <<disk, files, now, changed, cachedConfigs>>
  BY DEF EndLint, NoRequest
<1>2. /\ stack' \in Seq(1 .. Len(files)) /\ Len(stack') = 0 /\ content' \in Stored
      /\ HeapOK(files') /\ ~IsLoading'
  BY <1>1 DEF Stored, CacheInv, LoadInv, IsLoading
<1>3. \A j \in 1 .. Len(files) : SameReading(files[j], files'[j])
                                 /\ files'[j].filePath = files[j].filePath
  BY <1>1 DEF SameReading
<1>4. LoadInv'
  BY <1>1, <1>2, <1>3, RestKeeps DEF CacheInv
<1>5. ClockOK' /\ now \in Nat
  BY <1>1, LimitsAssumption DEF CacheInv, ClockOK
<1>6. RequestOK'
  BY <1>1, <1>5 DEF RequestOK, IsLoading
<1>7. CachedOK'
  BY <1>1, <1>2, <1>5, EntriesStay DEF CacheInv, LoadInv, HeapOK, BasesFollow
<1> QED  BY <1>1, <1>4, <1>5, <1>6, <1>7 DEF CacheInv

\* One source file after another is linted; in between, time passes and files change.
LEMMA GetForSourceFileKeeps ==
  ASSUME CacheInv, NEW f \in SourceFolders, NEW r \in RootDirs, GetForSourceFile(Source(f, r))
  PROVE  CacheInv'
<1> DEFINE source == Source(f, r)
           key == source.key
<1>1. CASE Hit(key)
  <2>1. pc = "Start" /\ key \in DOMAIN cachedConfigs /\ Answer(key, cachedConfigs)
    BY <1>1 DEF Hit, IsCached
  <2> HIDE DEF key
  <2> QED  BY <2>1, AnswerKeeps
<1>2. CASE CheckedHit(key)
  <2>1. /\ pc = "Start" /\ key \in DOMAIN cachedConfigs
        /\ Answer(key, [cachedConfigs EXCEPT ![key].lastCheckTime = now])
    BY <1>2 DEF CheckedHit, IsCached
  <2> HIDE DEF key
  <2> QED  BY <2>1, AnswerKeeps
<1>3. /\ DOMAIN Without(key) \subseteq DOMAIN cachedConfigs \ {key}
      /\ \A k \in DOMAIN Without(key) : Without(key)[k] = cachedConfigs[k]
  BY DEF Without
<1>4. CASE EvictModified(source)
  <2>1. pc = "Start" /\ Miss(source, Without(key))
    BY <1>4 DEF EvictModified
  <2> QED  BY <1>3, <2>1, MissKeeps
<1>5. CASE EvictExpired(source)
  <2>1. pc = "Start" /\ Miss(source, Without(key))
    BY <1>5 DEF EvictExpired
  <2> QED  BY <1>3, <2>1, MissKeeps
<1>6. CASE FirstLoad(source)
  <2>1. pc = "Start" /\ key \notin DOMAIN cachedConfigs /\ Miss(source, cachedConfigs)
    BY <1>6 DEF FirstLoad, IsCached
  <2> QED  BY <2>1, MissKeeps
<1> QED  BY <1>1, <1>2, <1>4, <1>5, <1>6 DEF GetForSourceFile

\* At first the cache is empty, and no lint runs.
LEMMA CacheInitKeeps ==
  ASSUME CacheInit
  PROVE  CacheInv /\ files = <<>> /\ cachedConfigs = <<>> /\ request.step = "none"
<1>1. /\ Init /\ now = 0 /\ cachedConfigs = <<>>
      /\ changed = [p \in DOMAIN disk |-> [v \in DOMAIN disk[p] |-> 0]]
      /\ request = [key |-> NoPath, now |-> 0, step |-> "none"]
  BY DEF CacheInit, NoRequest
<1>2. LoadInv /\ files = <<>> /\ pc = "Start"
  BY <1>1, InitKeeps DEF Init
<1>3. ClockOK
  <2>1. now \in 0 .. Horizon
    BY <1>1, LimitsAssumption
  <2>2. ASSUME NEW p \in DOMAIN disk
        PROVE  changed[p] \in Seq(Nat) /\ Len(changed[p]) = Len(disk[p])
    <3> DEFINE d == disk[p]
               m == Len(d)
    <3>1. d \in Seq(Stored) /\ m \in Nat /\ DOMAIN d = 1 .. m
      BY <1>2 DEF LoadInv, DiskOK
    <3>2. changed[p] = [v \in 1 .. m |-> 0]
      BY <1>1, <3>1
    <3> HIDE DEF m
    <3>3. changed[p] \in Seq(Nat) /\ Len(changed[p]) = m
      BY <3>1, <3>2
    <3> QED  BY <3>3 DEF m
  <2> QED  BY <1>1, <2>1, <2>2 DEF ClockOK
<1>4. RequestOK
  BY <1>1, <1>2 DEF RequestOK, IsLoading
<1>5. CachedOK
  <2>1. DOMAIN cachedConfigs = {}
    BY <1>1
  <2> QED  BY <1>1, <2>1, FS_EmptySet, LimitsAssumption DEF CachedOK
<1> QED  BY <1>1, <1>2, <1>3, <1>4, <1>5 DEF CacheInv

\* Every step of the rule keeps the invariant.
LEMMA CacheNextKeeps ==
  ASSUME CacheInv, [CacheNext]_allVars
  PROVE  CacheInv'
<1>1. CASE Tick
  BY <1>1, TickKeeps
<1>2. ASSUME NEW p \in DOMAIN disk, NEW c \in Contents \union {Absent}, EditNow(p, c)
      PROVE  CacheInv'
  BY <1>2, EditNowKeeps
<1>3. ASSUME NEW f \in SourceFolders, NEW r \in RootDirs, GetForSourceFile(Source(f, r))
      PROVE  CacheInv'
  BY <1>3, GetForSourceFileKeeps
<1>4. CASE Lint
  <2>1. CASE Load /\ UNCHANGED cacheVars
    BY <2>1, CacheLoadKeeps
  <2> QED  BY <1>4, <2>1, StoreKeeps, ReportErrorsKeeps, ConfigureLintKeeps, UnconfiguredKeeps,
              EndLintKeeps DEF Lint
<1>5. CASE UNCHANGED allVars
  <2>1. /\ UNCHANGED <<disk, files, stack, visited, content, pc, now, changed, cachedConfigs, request>>
    BY <1>5 DEF allVars, vars, loader, cacheVars
  <2>2. PcOK'
    BY <2>1 DEF CacheInv, LoadInv, PcOK, thisFile, this
  <2>3. RequestOK' /\ now' \in 0 .. Horizon /\ now <= now'
    BY <2>1, LimitsAssumption DEF CacheInv, RequestOK, IsLoading, ClockOK
  <2> QED  BY <2>1, <2>2, <2>3, QuietKeeps DEF CacheInv, LoadInv, StackOK, IsLoading
<1> QED  BY <1>1, <1>2, <1>3, <1>4, <1>5 DEF CacheNext

(***************************************************************************)
(* Every step of the rule, for whatever source file, keeps the invariants  *)
(* of the load, the clock, the lint and the cache.                         *)
(***************************************************************************)
THEOREM CacheInvariant == CacheSpec => []CacheInv
<1>1. CacheInit => CacheInv
  BY CacheInitKeeps
<1>2. CacheInv /\ [CacheNext]_allVars => CacheInv'
  BY CacheNextKeeps
<1> QED  BY <1>1, <1>2, PTL DEF CacheSpec

\* The property of the cache follows from the invariant.
LEMMA EntriesFollow ==
  ASSUME CacheInv
  PROVE  EntriesAreWholeLoads
<1>1. LoadInv /\ ClockOK /\ RequestOK /\ CachedOK
  BY DEF CacheInv
<1>2. TypeOK
  BY <1>1 DEF LoadInv, DiskOK, HeapOK, StackOK, PcOK, TypeOK
<1>3. 0 .. now \subseteq 0 .. Horizon
  BY <1>1, LimitsAssumption DEF ClockOK
<1>4. CacheTypeOK
  BY <1>1, <1>2, <1>3 DEF CacheTypeOK, ClockOK, RequestOK, CachedOK
<1>5. \A k \in DOMAIN cachedConfigs :
        LET f == files[cachedConfigs[k].configFile] IN
        /\ f.filePath = k \/ (f.filePath = NoPath /\ k \in SourceFolders)
        /\ Len(f.extendsFiles) < Len(f.extendsPaths) => f.hasErrors
  BY <1>1 DEF CachedOK, IsKeyOf, IsWhole
<1>6. pc \notin {"Start", "Loaded", "Configured"} => request.key \notin DOMAIN cachedConfigs
  <2>1. pc \notin {"Start", "Loaded", "Configured"} => IsLoading \/ pc = "Thrown"
    BY <1>1 DEF LoadInv, PcOK, IsLoading
  <2> QED  BY <1>1, <2>1 DEF RequestOK, CachedOK
<1>7. Cardinality(DOMAIN cachedConfigs) <= MaxSize + 1
  BY <1>1 DEF CachedOK
<1> QED  BY <1>4, <1>5, <1>6, <1>7 DEF EntriesAreWholeLoads

(***************************************************************************)
(* The cache never has more than MaxSize + 1 entries, and each is a whole  *)
(* load of the file of its key, for any number of folders.                 *)
(***************************************************************************)
THEOREM CacheHoldsWholeLoads == CacheSpec => []EntriesAreWholeLoads
<1>1. CacheInv => EntriesAreWholeLoads
  BY EntriesFollow
<1> QED  BY <1>1, CacheInvariant, PTL

-----------------------------------------------------------------------------
(***************************************************************************)
(* The errors of a load.  In a heap that lints add to, an error of a base  *)
(* file does not say whether it was there when the file was loaded; so the *)
(* invariant is that some set of files has all those with errors of their  *)
(* load, is closed under "extends", and has files with errors only.        *)
(***************************************************************************)
HasLoadError(f) == \E x : InRange(x, f.log) /\ x # "UndefinedTag"
ErrorsIn(heap, G) ==
  /\ G \subseteq 1 .. Len(heap)
  /\ \A id \in 1 .. Len(heap) :
       /\ id \in G => heap[id].hasErrors
       /\ HasLoadError(heap[id]) => id \in G
       /\ \A k \in DOMAIN heap[id].extendsFiles : heap[id].extendsFiles[k] \in G => id \in G
IsReportedIn(G) ==
  request.step \in {"reported", "linted"} =>
    /\ stack[1] \in G /\ ~files[stack[1]].fileNotFound => reported # {}
    /\ Len(files[stack[1]].extendsFiles) < Len(files[stack[1]].extendsPaths) => reported # {}
ReportsOK == \E G : ErrorsIn(files, G) /\ IsReportedIn(G)

\* The same in the next state
LEMMA ErrorsInPrime == \A G : ErrorsIn(files', G) => ErrorsIn(files, G)'
<1>1. \A f, g : f = g => (HasLoadError(f) => HasLoadError(g))
  OBVIOUS
<1> QED  BY <1>1 DEF ErrorsIn, HasLoadError, InRange

\* A new file has no errors, and is a base file of none.
LEMMA NewFileErrorSet ==
  ASSUME LoadInv, NEW G, ErrorsIn(files, G), NEW path, FileAdded(path)
  PROVE  ErrorsIn(files', G)
<1> DEFINE n == Len(files)
<1>1. /\ Len(files') = n + 1 /\ \A j \in 1 .. n : files'[j] = files[j]
      /\ files'[n + 1].log = <<>> /\ files'[n + 1].extendsFiles = <<>>
  BY DEF FileAdded
<1>2. n \in Nat /\ 1 .. n \subseteq 1 .. n + 1 /\ \A j \in 1 .. n + 1 : j \in 1 .. n \/ j = n + 1
  <2>1. n \in Nat
    BY DEF LoadInv, HeapOK, BasesFollow
  <2> HIDE DEF n
  <2> QED  BY <2>1
<1>3. /\ G \subseteq 1 .. n
      /\ \A id \in 1 .. n :
           /\ id \in G => files[id].hasErrors
           /\ HasLoadError(files[id]) => id \in G
           /\ \A k \in DOMAIN files[id].extendsFiles : files[id].extendsFiles[k] \in G => id \in G
  BY DEF ErrorsIn
<1>4. n + 1 \notin G
  BY <1>2, <1>3
<1>5. ~HasLoadError(files'[n + 1])
  <2> DEFINE l == files'[n + 1].log
  <2>1. l = <<>>
    BY <1>1
  <2> HIDE DEF l
  <2>2. DOMAIN l = {}
    BY <2>1
  <2> QED  BY <2>2 DEF HasLoadError, InRange, l
<1>6. DOMAIN files'[n + 1].extendsFiles = {}
  <2> DEFINE none == files'[n + 1].extendsFiles
  <2>1. none = <<>>
    BY <1>1
  <2> HIDE DEF none
  <2>2. DOMAIN none = {}
    BY <2>1
  <2> QED  BY <2>2 DEF none
<1>7. ASSUME NEW id \in 1 .. n + 1
      PROVE  /\ id \in G => files'[id].hasErrors
             /\ HasLoadError(files'[id]) => id \in G
             /\ \A k \in DOMAIN files'[id].extendsFiles : files'[id].extendsFiles[k] \in G => id \in G
  <2>1. CASE id \in 1 .. n
    <3>1. files'[id] = files[id]
      BY <1>1, <2>1
    <3> QED  BY <1>3, <2>1, <3>1
  <2>2. CASE id = n + 1
    <3> HIDE DEF n
    <3> QED  BY <1>4, <1>5, <1>6, <2>2
  <2>3. id \in 1 .. n \/ id = n + 1
    BY <1>2
  <2> QED  BY <2>1, <2>2, <2>3
<1> QED  BY <1>1, <1>2, <1>3, <1>7 DEF ErrorsIn

\* The file below an erroneous base file, which has errors itself, joins the set.
LEMMA LoadKeepsErrorSet ==
  ASSUME LoadInv, LoadInv', LoadStep, IsLoading, NEW G, ErrorsIn(files, G)
  PROVE  \E H : ErrorsIn(files', H)
<1> DEFINE n == Len(files)
           H == G \union {j \in 1 .. n : files'[j].hasErrors /\ InRange(j, stack)}
           Base(id, k) == files[id].extendsFiles[k]
<1>1. /\ n \in Nat /\ this \in 1 .. n
      /\ \A id \in 1 .. n : \A k \in DOMAIN files[id].extendsFiles :
           Base(id, k) \in 1 .. n /\ \A i \in DOMAIN stack : Base(id, k) # stack[i]
  BY NotYetABase
<1>2. /\ InRange(this, stack)
      /\ \A id \in 1 .. n : \A k \in DOMAIN files[id].extendsFiles : ~InRange(Base(id, k), stack)
  <2>1. Len(stack) \in DOMAIN stack
    BY StackFacts DEF IsLoading
  <2> QED  BY <1>1, <2>1 DEF InRange, this
<1>3. /\ G \subseteq 1 .. n
      /\ \A id \in 1 .. n :
           /\ id \in G => files[id].hasErrors
           /\ HasLoadError(files[id]) => id \in G
           /\ \A k \in DOMAIN files[id].extendsFiles : Base(id, k) \in G => id \in G
  BY DEF ErrorsIn
\* An error of the load is an error, as it is in the log.
<1>4. \A f : FileOK(f) /\ HasLoadError(f) => f.hasErrors
  <2> SUFFICES ASSUME NEW f, FileOK(f), HasLoadError(f) PROVE f.hasErrors
    OBVIOUS
  <2> DEFINE l == f.log
  <2>1. \E k : k \in DOMAIN l
    BY DEF HasLoadError, InRange
  <2>2. l # <<>>
    BY <2>1
  <2> QED  BY <2>2 DEF FileOK
<1>5. \A id \in 1 .. Len(files') : FileOK(files'[id])
  BY DEF LoadInv, HeapOK
\* A step that changes the one file "top", which is on the stack, and gives it
\* no base files, or the one that returns
<1>6. ASSUME NEW top \in 1 .. n, InRange(top, stack), NEW f,
             files[top].hasErrors => f.hasErrors, Len(files') = n,
             \A j \in 1 .. n : files'[j] = IF j = top THEN f ELSE files[j],
             \A k \in DOMAIN f.extendsFiles :
               \/ \E l \in DOMAIN files[top].extendsFiles : f.extendsFiles[k] = Base(top, l)
               \/ f.extendsFiles[k] = this /\ this # top /\ (files[this].hasErrors => f.hasErrors)
      PROVE  ErrorsIn(files', H)
  <2>1. H \subseteq 1 .. n
    BY <1>3
  <2>2. ASSUME NEW id \in H PROVE files'[id].hasErrors
    BY <1>3, <1>6, <2>2
  <2>3. ASSUME NEW id \in 1 .. n, HasLoadError(files'[id]) PROVE id \in H
    <3>1. CASE id = top
      <4>1. files'[id].hasErrors
        BY <1>4, <1>5, <1>6, <2>3
      <4> QED  BY <1>6, <3>1, <4>1
    <3>2. CASE id # top
      BY <1>3, <1>6, <2>3, <3>2
    <3> QED  BY <3>1, <3>2
  <2>4. ASSUME NEW id \in 1 .. n, NEW k \in DOMAIN files'[id].extendsFiles,
               files'[id].extendsFiles[k] \in H
        PROVE  id \in H
    <3>1. ASSUME NEW l \in DOMAIN files[id].extendsFiles,
                 files'[id].extendsFiles[k] = Base(id, l)
          PROVE  id \in H
      <4>1. Base(id, l) \in G
        BY <1>2, <2>4, <3>1
      <4> QED  BY <1>3, <4>1
    <3>2. CASE id # top
      <4>1. files'[id] = files[id]
        BY <1>6, <3>2
      <4> QED  BY <2>4, <3>1, <4>1
    <3>3. CASE id = top
      <4>1. files'[id] = f
        BY <1>6, <3>3
      <4>2. CASE \E l \in DOMAIN files[top].extendsFiles : f.extendsFiles[k] = Base(top, l)
        BY <3>1, <3>3, <4>1, <4>2
      <4>3. CASE f.extendsFiles[k] = this /\ this # top /\ (files[this].hasErrors => f.hasErrors)
        <5>1. files'[this] = files[this] /\ this \in H
          BY <1>1, <1>6, <2>4, <4>1, <4>3
        <5>2. files[this].hasErrors
          BY <2>2, <5>1
        <5> QED  BY <1>6, <3>3, <4>1, <4>3, <5>2
      <4> QED  BY <1>6, <2>4, <4>1, <4>2, <4>3
    <3> QED  BY <3>2, <3>3
  <2> HIDE DEF H
  <2> QED  BY <1>6, <2>1, <2>2, <2>3, <2>4 DEF ErrorsIn
<1>7. CASE UNCHANGED <<disk, files, stack>>
  <2>1. ErrorsIn(files', G)
    BY <1>7
  <2> QED  BY <2>1
<1>8. ASSUME NEW f, TopBecomes(f) PROVE ErrorsIn(files', H)
  <2>1. /\ Len(files') = n /\ \A j \in 1 .. n : files'[j] = IF j = this THEN f ELSE files[j]
        /\ f.extendsFiles = files[this].extendsFiles
        /\ files[this].hasErrors => f.hasErrors
    BY <1>8 DEF TopBecomes, MoreErrors, thisFile
  <2>2. \A k \in DOMAIN f.extendsFiles :
          \E l \in DOMAIN files[this].extendsFiles : f.extendsFiles[k] = Base(this, l)
    BY <2>1
  <2> HIDE DEF H, Base
  <2> QED  BY <1>1, <1>2, <1>6, <2>1, <2>2
<1>9. ASSUME NEW path, FileAdded(path) PROVE ErrorsIn(files', G)
  BY <1>9, NewFileErrorSet
<1>10. ASSUME NEW below, NEW h, Returned(below, h) PROVE ErrorsIn(files', H)
  <2>1. /\ below \in 1 .. n /\ below < this /\ below = stack[Len(stack) - 1] /\ Len(stack) > 1
        /\ Len(files') = n /\ \A j \in 1 .. n : files'[j] = IF j = below THEN h ELSE files[j]
        /\ h.extendsFiles = Append(files[below].extendsFiles, this)
        /\ files[below].hasErrors => h.hasErrors
        /\ files[this].hasErrors => h.hasErrors
    BY <1>10 DEF Returned, thisFile
  <2>2. InRange(below, stack) /\ this # below
    <3>1. Len(stack) \in Nat /\ DOMAIN stack = 1 .. Len(stack)
      BY StackFacts DEF IsLoading
    <3>2. Len(stack) - 1 \in DOMAIN stack
      BY <2>1, <3>1
    <3>3. this # below
      BY <1>1, <2>1
    <3> QED  BY <2>1, <3>2, <3>3 DEF InRange
  <2>3. \A k \in DOMAIN h.extendsFiles :
          \/ \E l \in DOMAIN files[below].extendsFiles : h.extendsFiles[k] = Base(below, l)
          \/ h.extendsFiles[k] = this
    <3> DEFINE b == files[below].extendsFiles
    <3>1. b \in Seq(Nat) /\ this \in Nat /\ h.extendsFiles = Append(b, this)
      BY <1>1, <2>1 DEF LoadInv, HeapOK, BasesFollow
    <3> HIDE DEF b
    <3>2. /\ DOMAIN b = 1 .. Len(b) /\ Len(b) \in Nat
          /\ DOMAIN Append(b, this) = 1 .. Len(b) + 1 /\ Append(b, this)[Len(b) + 1] = this
          /\ \A k \in 1 .. Len(b) : Append(b, this)[k] = b[k]
      BY <3>1
    <3>3. \A k \in 1 .. Len(b) + 1 : k \in 1 .. Len(b) \/ k = Len(b) + 1
      BY <3>2
    <3>4. \A k \in DOMAIN h.extendsFiles :
            (\E l \in DOMAIN b : h.extendsFiles[k] = b[l]) \/ h.extendsFiles[k] = this
      BY <3>1, <3>2, <3>3
    <3> QED  BY <3>4 DEF b
  <2> HIDE DEF H, Base
  <2> QED  BY <1>6, <2>1, <2>2, <2>3
<1> HIDE DEF H
<1> QED  BY <1>7, <1>8, <1>9, <1>10 DEF LoadStep

\* Applying files to a parser adds no errors of the load.
LEMMA AppliedErrorSet ==
  ASSUME NEW heap, HeapOK(heap), NEW after, IsApplied(heap, after), NEW G, ErrorsIn(heap, G)
  PROVE  ErrorsIn(after, G)
<1>1. Len(after) = Len(heap)
  BY DEF IsApplied
<1>2. ASSUME NEW id \in 1 .. Len(heap)
      PROVE  /\ heap[id].hasErrors => after[id].hasErrors
             /\ HasLoadError(after[id]) => HasLoadError(heap[id])
             /\ after[id].extendsFiles = heap[id].extendsFiles
  BY DEF IsApplied, OnlyUndefined, HasLoadError, IsReported
<1> QED  BY <1>1, <1>2 DEF ErrorsIn

\* What was found by the load is in the set until the lint has reported it.
LEMMA ReportsKeep ==
  ASSUME CacheInv, CacheInv', ReportsOK, [CacheNext]_allVars
  PROVE  ReportsOK'
<1>1. PICK G : ErrorsIn(files, G) /\ IsReportedIn(G)
  BY DEF ReportsOK
<1>2. LoadInv /\ LoadInv' /\ RequestOK /\ RequestOK'
  BY DEF CacheInv
\* As long as the heap stays, so does the set; and nothing need be reported yet.
<1>3. ASSUME UNCHANGED files, IsReportedIn(G)' PROVE ReportsOK'
  <2>1. ErrorsIn(files', G)
    BY <1>1, <1>3
  <2>2. ErrorsIn(files, G)'
    BY <2>1, ErrorsInPrime
  <2> QED  BY <1>3, <2>2 DEF ReportsOK
<1>4. ASSUME NEW H, ErrorsIn(files', H), request'.step \notin {"reported", "linted"}
      PROVE  ReportsOK'
  <2>1. ErrorsIn(files, H)'
    BY <1>4, ErrorsInPrime
  <2>2. IsReportedIn(H)'
    BY <1>4 DEF IsReportedIn
  <2> QED  BY <2>1, <2>2 DEF ReportsOK
<1>5. CASE Tick \/ UNCHANGED allVars
  <2>1. UNCHANGED <<files, stack, request, reported>>
    BY <1>5 DEF Tick, allVars, vars, loader, cacheVars
  <2>2. IsReportedIn(G)'
    BY <1>1, <2>1 DEF IsReportedIn
  <2> QED  BY <1>3, <2>1, <2>2
<1>6. ASSUME NEW p \in DOMAIN disk, NEW c \in Contents \union {Absent}, EditNow(p, c)
      PROVE  ReportsOK'
  <2>1. UNCHANGED <<files, stack, request, reported>>
    BY <1>6 DEF EditNow, Edit, loader
  <2>2. IsReportedIn(G)'
    BY <1>1, <2>1 DEF IsReportedIn
  <2> QED  BY <1>3, <2>1, <2>2
<1>7. ASSUME NEW f \in SourceFolders, NEW r \in RootDirs, GetForSourceFile(Source(f, r))
      PROVE  ReportsOK'
  <2> DEFINE source == Source(f, r)
  <2>1. ASSUME NEW caches, Answer(source.key, caches) PROVE ReportsOK'
    <3>1. UNCHANGED files /\ request'.step = "answered"
      BY <2>1 DEF Answer, Request
    <3> QED  BY <1>3, <3>1 DEF IsReportedIn
  <2>2. ASSUME NEW caches, Miss(source, caches) PROVE ReportsOK'
    <3> DEFINE path == source.path
    <3>1. LoadFile(path) /\ request'.step = "loading" /\ path \in Paths \union {NoPath}
      BY <2>2, SourceKey DEF Miss, Request
    <3> HIDE DEF path
    <3>2. FileAdded(path)
      BY <1>2, <3>1, LoadFileKeeps
    <3>3. ErrorsIn(files', G)
      BY <1>1, <1>2, <3>2, NewFileErrorSet
    <3> QED  BY <1>4, <3>1, <3>3
  <2> QED  BY <1>7, <2>1, <2>2
           DEF GetForSourceFile, Hit, CheckedHit, EvictModified, EvictExpired, FirstLoad
<1>8. CASE Load /\ UNCHANGED cacheVars
  <2>1. LoadStep /\ IsLoading
    BY <1>2, <1>8, LoadKeeps
  <2>2. request'.step = "loading"
    BY <1>2, <1>8, <2>1 DEF RequestOK, cacheVars
  <2>3. \E H : ErrorsIn(files', H)
    BY <1>1, <1>2, <2>1, LoadKeepsErrorSet
  <2> QED  BY <1>4, <2>2, <2>3
<1>9. CASE Store
  <2>1. UNCHANGED files /\ request'.step = "answered"
    BY <1>2, <1>9 DEF Store, vars, loader, RequestOK
  <2> QED  BY <1>3, <2>1 DEF IsReportedIn
\* What has errors is reported; what was not found extends nothing.
<1>10. CASE ReportErrors
  <2>1. /\ UNCHANGED <<files, stack>> /\ pc = "Loaded" /\ pc # "Start"
        /\ ~files[stack[1]].fileNotFound /\ files[stack[1]].hasErrors => reported' # {}
    BY <1>10 DEF ReportErrors, vars, loader
  <2>2. stack[1] \in 1 .. Len(files) /\ FileOK(files[stack[1]]) /\ IsWhole(files[stack[1]])
    <3>1. stack[1] \in 1 .. Len(files) /\ this = stack[1] /\ FileOK(thisFile) /\ IsWhole(thisFile)
      BY <1>2, <2>1, StackFacts DEF LoadInv, StackOK, PcOK, this
    <3> QED  BY <3>1 DEF thisFile
  <2>3. stack[1] \in G => files[stack[1]].hasErrors
    BY <1>1, <2>2 DEF ErrorsIn
  <2>4. Len(files[stack[1]].extendsFiles) < Len(files[stack[1]].extendsPaths)
          => files[stack[1]].hasErrors /\ ~files[stack[1]].fileNotFound
    <3> DEFINE f == files[stack[1]]
    <3>1. f \in File /\ FileOK(f) /\ IsWhole(f)
      BY <2>2 DEF FileOK
    <3>2. Len(f.extendsFiles) \in Nat
      BY <3>1 DEF File
    <3>3. f.fileNotFound => Len(f.extendsPaths) = 0
      BY <3>1 DEF FileOK
    <3> HIDE DEF f
    <3> QED  BY <3>1, <3>2, <3>3 DEF IsWhole, f
  <2>5. IsReportedIn(G)'
    BY <2>1, <2>3, <2>4 DEF IsReportedIn
  <2> QED  BY <1>3, <2>1, <2>5
<1>11. CASE ConfigureLint
  <2>1. /\ IsApplied(files, files') /\ UNCHANGED stack /\ request.step = "reported"
        /\ reported \subseteq reported' /\ stack[1] \in 1 .. Len(files)
    <3>1. IsApplied(files, files') /\ UNCHANGED stack
      BY <1>11, ConfigureLintKeeps
    <3>2. request.step = "reported" /\ reported \subseteq reported' /\ pc # "Start"
      BY <1>11 DEF ConfigureLint, Configure
    <3>3. stack[1] \in 1 .. Len(files)
      BY <1>2, <3>2, StackFacts
    <3> QED  BY <3>1, <3>2, <3>3
  <2>2. ErrorsIn(files', G)
    BY <1>1, <1>2, <2>1, AppliedErrorSet DEF LoadInv
  <2>3. ErrorsIn(files, G)'
    BY <2>2, ErrorsInPrime
  <2>4. /\ files'[stack[1]].fileNotFound = files[stack[1]].fileNotFound
        /\ files'[stack[1]].extendsFiles = files[stack[1]].extendsFiles
        /\ files'[stack[1]].extendsPaths = files[stack[1]].extendsPaths
    BY <2>1 DEF IsApplied, IsReported
  <2>5. IsReportedIn(G)'
    BY <1>1, <2>1, <2>4 DEF IsReportedIn
  <2> QED  BY <2>3, <2>5 DEF ReportsOK
<1>12. CASE KeepDefaults
  <2>1. UNCHANGED <<files, stack, reported>> /\ request.step = "reported"
    BY <1>12 DEF KeepDefaults
  <2>2. IsReportedIn(G)'
    BY <1>1, <2>1 DEF IsReportedIn
  <2> QED  BY <1>3, <2>1, <2>2
<1>13. CASE LoadThrew
  <2>1. UNCHANGED files /\ reported' = {"ErrorLoading"}
    BY <1>13 DEF LoadThrew
  <2> QED  BY <1>3, <2>1 DEF IsReportedIn
<1>14. CASE EndLint
  <2>1. UNCHANGED files /\ request'.step = "none"
    BY <1>14 DEF EndLint, NoRequest
  <2> QED  BY <1>3, <2>1 DEF IsReportedIn
<1> QED  BY <1>5, <1>6, <1>7, <1>8, <1>9, <1>10, <1>11, <1>12, <1>13, <1>14 DEF CacheNext, Lint

\* An error of any file of the tree is one of the file that the lint asked for.
LEMMA ReportsFollow ==
  ASSUME CacheInv, ReportsOK
  PROVE  LintReportsErrors
<1> SUFFICES ASSUME pc = "Configured" PROVE LintReportsErrors
  BY DEF LintReportsErrors
<1>1. PICK G : ErrorsIn(files, G) /\ IsReportedIn(G)
  BY DEF ReportsOK
<1>2. /\ request.step = "linted" /\ stack[1] \in 1 .. Len(files) /\ BasesFollow(files)
      /\ root = stack[1]
  BY StackFacts DEF CacheInv, LoadInv, RequestOK, HeapOK, root
<1> DEFINE n == Len(files)
<1>3. n \in Nat /\ \A x \in 1 .. n : \A k \in DOMAIN files[x].extendsFiles :
                     files[x].extendsFiles[k] \in 1 .. n
  BY <1>2 DEF BasesFollow
<1>4. ASSUME NEW id \in Tree(root), ToSet(files[id].log) \ {"UndefinedTag"} # {}
      PROVE  root \in G
  <2> DEFINE S == {x \in 1 .. n : x \in G => root \in G}
  <2>1. ASSUME NEW x \in S \intersect 1 .. n, NEW k \in DOMAIN files[x].extendsFiles
        PROVE  files[x].extendsFiles[k] \in S
    BY <1>1, <1>3, <2>1 DEF ErrorsIn
  <2>2. root \in S
    BY <1>2
  <2>3. Tree(root) \subseteq S
    <3> HIDE DEF S
    <3> QED  BY <1>2, <2>1, <2>2, TreeIsClosed
  <2>4. HasLoadError(files[id])
    BY <1>4 DEF HasLoadError, ToSet, InRange
  <2>5. id \in G
    BY <1>1, <2>3, <2>4 DEF ErrorsIn
  <2> QED  BY <2>3, <2>5
<1>5. /\ stack[1] \in G /\ ~files[stack[1]].fileNotFound => reported # {}
      /\ Len(files[stack[1]].extendsFiles) < Len(files[stack[1]].extendsPaths) => reported # {}
  BY <1>1, <1>2 DEF IsReportedIn
<1> QED  BY <1>2, <1>4, <1>5 DEF LintReportsErrors

(***************************************************************************)
(* Every lint reports when there was an error in any file of the load that *)
(* it was answered with, however long ago that was.                        *)
(***************************************************************************)
THEOREM LintsReportLoadErrors == CacheSpec => []LintReportsErrors
<1>1. CacheInit => CacheInv /\ ReportsOK
  <2> SUFFICES ASSUME CacheInit PROVE CacheInv /\ ReportsOK
    OBVIOUS
  <2>1. CacheInv /\ files = <<>> /\ request.step = "none"
    BY CacheInitKeeps
  <2>2. ErrorsIn(files, {}) /\ IsReportedIn({})
    <3>1. 1 .. Len(files) = {}
      BY <2>1
    <3> QED  BY <2>1, <3>1 DEF ErrorsIn, IsReportedIn
  <2> QED  BY <2>1, <2>2 DEF ReportsOK
<1>2. CacheInv /\ ReportsOK /\ [CacheNext]_allVars => CacheInv' /\ ReportsOK'
  BY CacheNextKeeps, ReportsKeep
<1>3. CacheInv /\ ReportsOK => LintReportsErrors
  BY ReportsFollow
<1> QED  BY <1>1, <1>2, <1>3, PTL DEF CacheSpec

-----------------------------------------------------------------------------
(***************************************************************************)
(* How old what is known of a file can be.  The invariant is that each     *)
(* file object has two times: since[id], at which or later what it says    *)
(* was true, and checked[id], the same for what was not written between    *)
(* being read and being stat-ed.  A base file is known from no earlier     *)
(* time than the files that extend it.                                     *)
(***************************************************************************)
ThereOn(d, ch, p, v, from) ==
  v = Len(d[RealPath[p]]) \/ ch[RealPath[p]][v + 1] >= from
FreshOn(d, ch, f, s, c) ==
  /\ f.version # 0 => ThereOn(d, ch, f.filePath, f.version, s)
  /\ f.version # 0 /\ ~Raced(f) => ThereOn(d, ch, f.filePath, f.version, c)
  /\ f.fileNotFound /\ f.filePath # NoPath =>
       \E v \in DOMAIN d[RealPath[f.filePath]] :
         d[RealPath[f.filePath]][v] = Absent /\ ThereOn(d, ch, f.filePath, v, s)
FreshHeap(d, ch, time, heap, since, checked) ==
  /\ since \in [1 .. Len(heap) -> Int] /\ checked \in [1 .. Len(heap) -> Int]
  /\ \A id \in 1 .. Len(heap) :
       /\ since[id] <= time /\ checked[id] <= time
       /\ FreshOn(d, ch, heap[id], since[id], checked[id])
       /\ \A k \in DOMAIN heap[id].extendsFiles :
            /\ since[id] <= since[heap[id].extendsFiles[k]]
            /\ checked[id] <= checked[heap[id].extendsFiles[k]]
FreshEntries(since, checked) ==
  /\ \A k \in DOMAIN cachedConfigs :
       LET entry == cachedConfigs[k] IN
       /\ entry.loadTime <= since[entry.configFile]
       /\ entry.lastCheckTime <= checked[entry.configFile]
  /\ request.step = "loading" =>
       \A i \in DOMAIN stack : since[stack[i]] = request.now /\ checked[stack[i]] = request.now
  /\ request.step = "answered" => /\ request.now - Expire <= since[stack[1]]
                                  /\ request.now - CheckInterval <= checked[stack[1]]
FreshOK ==
  \E since, checked :
    FreshHeap(disk, changed, now, files, since, checked) /\ FreshEntries(since, checked)

\* The same in the next state
LEMMA FreshHeapPrime ==
  \A since, checked : FreshHeap(disk', changed', now', files', since, checked)
                        => FreshHeap(disk, changed, now, files, since, checked)'
BY DEF FreshHeap, FreshOn, ThereOn, Raced

\* The versions of a path that there are
LEMMA VersionFacts ==
  ASSUME CacheInv, NEW id \in 1 .. Len(files)
  PROVE  LET f == files[id]
             p == RealPath[f.filePath]
         IN /\ FileOK(f) /\ f \in File
            /\ f.version # 0 => /\ f.filePath \in Paths
                                /\ f.version \in 1 .. Len(disk[p])
            /\ f.filePath \in Paths => /\ p \in DOMAIN disk /\ Len(disk[p]) \in Nat
                                       /\ DOMAIN disk[p] = 1 .. Len(disk[p])
                                       /\ Len(changed[p]) = Len(disk[p])
                                       /\ changed[p] \in Seq(Nat)
<1> DEFINE f == files[id]
           p == RealPath[f.filePath]
<1>1. LoadInv /\ FileOK(f) /\ f \in File /\ VersionsOK
  BY DEF CacheInv, LoadInv, HeapOK, FileOK
<1>2. f.version \in Nat /\ (f.version # 0 => f.filePath \in Paths /\ f.version <= Time(f.filePath))
  BY <1>1, DisksAssumption DEF File, FileOK, VersionsOK
<1>3. f.filePath \in Paths => /\ p \in DOMAIN disk /\ Time(f.filePath) = Len(disk[p])
                              /\ disk[p] \in Seq(Stored)
                              /\ Len(changed[p]) = Len(disk[p])
                              /\ changed[p] \in Seq(Nat)
  BY <1>1, DiskFacts DEF CacheInv, ClockOK
<1> DEFINE d == disk[p]
<1>4. f.filePath \in Paths => Len(d) \in Nat /\ DOMAIN d = 1 .. Len(d)
  BY <1>3
<1>5. f.version # 0 => f.version \in 1 .. Len(d)
  BY <1>2, <1>3, <1>4
<1>6. f.version # 0 => f.filePath \in Paths
  BY <1>2
<1>7. f.filePath \in Paths => p \in DOMAIN disk
  BY <1>3
<1> HIDE DEF d
<1>8. /\ FileOK(f) /\ f \in File
      /\ f.version # 0 => f.filePath \in Paths /\ f.version \in 1 .. Len(d)
      /\ f.filePath \in Paths => /\ p \in DOMAIN disk /\ Len(d) \in Nat /\ DOMAIN d = 1 .. Len(d)
                                 /\ Len(changed[p]) = Len(d) /\ changed[p] \in Seq(Nat)
  BY <1>1, <1>3, <1>4, <1>5, <1>6, <1>7 DEF d
<1> QED  BY <1>8 DEF d

\* What was there at a time or later was there at any earlier time or later.
LEMMA ThereEarlier ==
  ASSUME NEW d, NEW ch, NEW p, NEW v \in 1 .. Len(d[RealPath[p]]),
         ch[RealPath[p]] \in Seq(Nat), Len(ch[RealPath[p]]) = Len(d[RealPath[p]]),
         NEW from \in Int, NEW before \in Int, before <= from,
         ThereOn(d, ch, p, v, from)
  PROVE  ThereOn(d, ch, p, v, before)
<1> DEFINE c == ch[RealPath[p]]
           n == Len(d[RealPath[p]])
<1>1. c \in Seq(Nat) /\ Len(c) \in Nat /\ Len(c) = n /\ v \in 1 .. n /\ n \in Nat
  OBVIOUS
<1>2. v = n \/ c[v + 1] >= from
  BY DEF ThereOn
<1> HIDE DEF c, n
<1>3. v # n => c[v + 1] \in Nat
  <2> SUFFICES ASSUME v # n PROVE c[v + 1] \in Nat
    OBVIOUS
  <2>1. v + 1 \in 1 .. Len(c)
    BY <1>1
  <2> QED  BY <1>1, <2>1
<1>4. v = n \/ c[v + 1] >= before
  BY <1>1, <1>2, <1>3
<1> QED  BY <1>4 DEF ThereOn, c, n

\* ... and it still is when someone writes a file.
LEMMA ThereStays ==
  ASSUME CacheInv, NEW p \in DOMAIN disk, NEW c, EditedAt(p, c),
         changed' = [changed EXCEPT ![p] = Append(@, now)],
         NEW q, NEW r, r = RealPath[q], r \in DOMAIN disk, NEW v \in 1 .. Len(disk[r]),
         NEW from \in Int, from <= now, ThereOn(disk, changed, q, v, from)
  PROVE  /\ ThereOn(disk', changed', q, v, from)
         /\ v \in DOMAIN disk'[r] /\ disk'[r][v] = disk[r][v]
<1> DEFINE n == Len(disk[r])
           d == disk[r]
           ch == changed[r]
<1>1. /\ DOMAIN changed = DOMAIN disk /\ d \in Seq(Stored) /\ ch \in Seq(Nat)
      /\ Len(ch) = n /\ n \in Nat /\ now \in Nat /\ c \in Stored
  BY LimitsAssumption DEF CacheInv, ClockOK, LoadInv, DiskOK, EditedAt
<1>2. v = n \/ ch[v + 1] >= from
  BY DEF ThereOn
<1>3. CASE r # p
  <2>1. disk'[r] = d /\ changed'[r] = ch
    BY <1>1, <1>3 DEF EditedAt
  <2>2. DOMAIN d = 1 .. n
    BY <1>1
  <2> QED  BY <1>2, <2>1, <2>2 DEF ThereOn
<1>4. CASE r = p
  <2>1. disk'[r] = Append(d, c) /\ changed'[r] = Append(ch, now)
    BY <1>1, <1>4 DEF EditedAt
  <2> HIDE DEF d, ch
  <2>2. n = Len(d)
    BY DEF d
  <2> HIDE DEF n
  <2>3. /\ Len(Append(d, c)) = n + 1 /\ DOMAIN Append(d, c) = 1 .. n + 1 /\ Append(d, c)[v] = d[v]
        /\ Append(ch, now)[n + 1] = now
        /\ \A i \in 1 .. n : Append(ch, now)[i] = ch[i]
    <3>1. v \in 1 .. n
      BY DEF n
    <3>2. /\ Len(Append(d, c)) = Len(d) + 1 /\ DOMAIN Append(d, c) = 1 .. Len(d) + 1
          /\ \A i \in 1 .. Len(d) : Append(d, c)[i] = d[i]
      BY <1>1
    <3>3. /\ Append(ch, now)[Len(ch) + 1] = now
          /\ \A i \in 1 .. Len(ch) : Append(ch, now)[i] = ch[i]
      BY <1>1
    <3> QED  BY <1>1, <2>2, <3>1, <3>2, <3>3
  <2>4. v \in 1 .. n + 1 /\ (v = n \/ v + 1 \in 1 .. n)
    <3>1. v \in 1 .. n
      BY DEF n
    <3> QED  BY <1>1, <3>1
  <2>5. Append(ch, now)[v + 1] >= from
    <3>1. CASE v = n
      BY <1>1, <2>3, <3>1
    <3>2. CASE v # n
      BY <1>2, <2>3, <2>4, <3>2
    <3> QED  BY <3>1, <3>2
  <2> QED  BY <2>1, <2>3, <2>4, <2>5 DEF ThereOn, d
<1> QED  BY <1>3, <1>4

\* One look at the disk tells what is there now.
LEMMA ReadsAreFresh ==
  ASSUME LoadInv, NEW f, NEW g, FileOK(g), g.filePath = f.filePath, Reads(f, g),
         g.version # 0 => g.version <= Time(g.filePath),
         NEW s, NEW c, FreshOn(disk, changed, f, s, c)
  PROVE  FreshOn(disk, changed, g, s, c)
<1> DEFINE p == RealPath[g.filePath]
           d == disk[p]
<1>1. g \in File /\ g.filePath \in Paths \union {NoPath} /\ (g.fileNotFound => g.version = 0)
  BY DEF FileOK, File
<1>2. g.filePath \in Paths => /\ Time(g.filePath) \in 1 .. MaxVersions /\ d \in Seq(Stored)
                              /\ Time(g.filePath) = Len(d)
  BY DiskFacts
<1>3. CASE SameReading(f, g)
  BY <1>3 DEF FreshOn, SameReading, Raced
<1>4. CASE g.fileNotFound /\ g.version = 0 /\ ~IsPresent(g.filePath)
  <2> SUFFICES ASSUME g.filePath # NoPath
               PROVE  \E v \in DOMAIN d : d[v] = Absent /\ ThereOn(disk, changed, g.filePath, v, s)
    BY <1>4 DEF FreshOn
  <2>1. g.filePath \in Paths /\ Current(g.filePath) = Absent
    BY <1>1, <1>4 DEF IsPresent
  <2>2. d[Len(d)] = Absent /\ ThereOn(disk, changed, g.filePath, Len(d), s)
    BY <2>1 DEF Current, ThereOn
  <2>3. MaxVersions \in Nat
    BY DisksAssumption
  <2>4. Len(d) \in DOMAIN d
    BY <1>2, <2>1, <2>3
  <2> QED  BY <2>2, <2>4
<1>5. CASE /\ g.fileNotFound = f.fileNotFound /\ g.filePath \in Paths
           /\ \/ g.version = Time(g.filePath)
              \/ g.version = f.version /\ g.fileMTime = Time(g.filePath)
  <2>1. g.version = Time(g.filePath) => \A from : ThereOn(disk, changed, g.filePath, g.version, from)
    BY <1>2, <1>5 DEF ThereOn
  <2>2. /\ g.version \in Nat /\ g.fileMTime \in Nat /\ Time(g.filePath) \in Nat
    BY <1>1, <1>2, <1>5, DisksAssumption DEF File
  <2>3. g.version # 0 /\ ~Raced(g) /\ g.fileMTime = Time(g.filePath) => g.version = Time(g.filePath)
    BY <2>2 DEF Raced
  <2>4. g.version # 0 => ThereOn(disk, changed, g.filePath, g.version, s)
    BY <1>5, <2>1 DEF FreshOn
  <2>5. g.version # 0 /\ ~Raced(g) => ThereOn(disk, changed, g.filePath, g.version, c)
    BY <1>5, <2>1, <2>3
  <2>6. g.fileNotFound /\ g.filePath # NoPath =>
          \E v \in DOMAIN d : d[v] = Absent /\ ThereOn(disk, changed, g.filePath, v, s)
    BY <1>5 DEF FreshOn
  <2> QED  BY <2>4, <2>5, <2>6 DEF FreshOn
<1> QED  BY <1>3, <1>4, <1>5 DEF Reads

\* The steps that look at no file of the disk: what is known of each stays as old as it was.
LEMMA FreshStays ==
  ASSUME CacheInv, NEW since, NEW checked,
         FreshHeap(disk, changed, now, files, since, checked),
         UNCHANGED <<disk, changed>>, now' \in Nat, now <= now', Len(files') = Len(files),
         \A id \in 1 .. Len(files) : /\ SameReading(files[id], files'[id])
                                     /\ files'[id].filePath = files[id].filePath
                                     /\ files'[id].extendsFiles = files[id].extendsFiles,
         FreshEntries(since, checked)'
  PROVE  FreshOK'
<1>1. now \in Nat
  BY LimitsAssumption DEF CacheInv, ClockOK
<1>2. ASSUME NEW id \in 1 .. Len(files)
      PROVE  /\ since[id] <= now' /\ checked[id] <= now'
             /\ FreshOn(disk, changed, files'[id], since[id], checked[id])
             /\ \A k \in DOMAIN files'[id].extendsFiles :
                  /\ since[id] <= since[files'[id].extendsFiles[k]]
                  /\ checked[id] <= checked[files'[id].extendsFiles[k]]
  <2>1. since[id] \in Int /\ checked[id] \in Int /\ since[id] <= now /\ checked[id] <= now
    BY DEF FreshHeap
  <2>2. since[id] <= now' /\ checked[id] <= now'
    BY <1>1, <2>1
  <2>3. FreshOn(disk, changed, files'[id], since[id], checked[id])
    BY DEF FreshHeap, FreshOn, SameReading, Raced
  <2> QED  BY <2>2, <2>3 DEF FreshHeap
<1>3. FreshHeap(disk', changed', now', files', since, checked)
  BY <1>2 DEF FreshHeap
<1> QED  BY <1>3, FreshHeapPrime DEF FreshOK

\* When someone writes a file, what was known of it was true until now.
LEMMA EditKeepsFresh ==
  ASSUME CacheInv, CacheInv', FreshOK, NEW p \in DOMAIN disk, NEW c \in Contents \union {Absent},
         EditNow(p, c)
  PROVE  FreshOK'
<1>1. PICK since, checked :
        FreshHeap(disk, changed, now, files, since, checked) /\ FreshEntries(since, checked)
  BY DEF FreshOK
<1>2. EditedAt(p, c) /\ changed' = [changed EXCEPT ![p] = Append(@, now)]
  BY EditNowKeeps
<1>3. UNCHANGED <<now, files, stack, cachedConfigs, request>>
  BY DEF EditNow, Edit, loader
<1>4. ASSUME NEW g, NEW r \in DOMAIN disk, r = RealPath[g], NEW v \in 1 .. Len(disk[r]),
             NEW from \in Int, from <= now, ThereOn(disk, changed, g, v, from)
      PROVE  /\ ThereOn(disk', changed', g, v, from)
             /\ v \in DOMAIN disk'[r] /\ disk'[r][v] = disk[r][v]
  BY <1>2, <1>4, ThereStays
<1>5. ASSUME NEW id \in 1 .. Len(files)
      PROVE  FreshOn(disk', changed', files[id], since[id], checked[id])
  <2> DEFINE f == files[id]
             s == since[id]
             t == checked[id]
             q == RealPath[f.filePath]
  <2>1. s \in Int /\ t \in Int /\ s <= now /\ t <= now /\ FreshOn(disk, changed, f, s, t)
    BY <1>1 DEF FreshHeap
  <2>2. /\ FileOK(f) /\ f \in File
        /\ f.version # 0 => f.filePath \in Paths /\ f.version \in 1 .. Len(disk[q])
        /\ f.filePath \in Paths => q \in DOMAIN disk /\ DOMAIN disk[q] = 1 .. Len(disk[q])
    BY VersionFacts
  <2>3. f.filePath # NoPath => f.filePath \in Paths
    BY <2>2 DEF File
  <2> HIDE DEF f, s, t
  <2>4. f.version # 0 => ThereOn(disk', changed', f.filePath, f.version, s)
    BY <1>4, <2>1, <2>2 DEF FreshOn
  <2>5. f.version # 0 /\ ~Raced(f) => ThereOn(disk', changed', f.filePath, f.version, t)
    BY <1>4, <2>1, <2>2 DEF FreshOn
  <2>6. ASSUME f.fileNotFound, f.filePath # NoPath
        PROVE  \E v \in DOMAIN disk'[q] :
                 disk'[q][v] = Absent /\ ThereOn(disk', changed', f.filePath, v, s)
    <3>1. PICK v \in DOMAIN disk[q] : disk[q][v] = Absent /\ ThereOn(disk, changed, f.filePath, v, s)
      BY <2>1, <2>6 DEF FreshOn
    <3>2. v \in 1 .. Len(disk[q]) /\ q \in DOMAIN disk
      BY <2>2, <2>3, <2>6, <3>1
    <3>3. /\ ThereOn(disk', changed', f.filePath, v, s)
          /\ v \in DOMAIN disk'[q] /\ disk'[q][v] = disk[q][v]
      <4> HIDE DEF q
      <4>1. q = RealPath[f.filePath]
        BY DEF q
      <4> QED  BY <1>4, <2>1, <3>1, <3>2, <4>1
    <3> QED  BY <3>1, <3>3
  <2>7. FreshOn(disk', changed', f, s, t)
    BY <2>4, <2>5, <2>6 DEF FreshOn
  <2> QED  BY <2>7 DEF f, s, t
<1>6. FreshHeap(disk', changed', now', files', since, checked)
  BY <1>1, <1>3, <1>5 DEF FreshHeap
<1>7. FreshEntries(since, checked)'
  BY <1>1, <1>3 DEF FreshEntries
<1> QED  BY <1>6, <1>7, FreshHeapPrime DEF FreshOK

\* Nothing is known of a new file object, so that it counts as known from any time.
LEMMA NewFileIsFresh ==
  ASSUME CacheInv, NEW path, FileAdded(path), UNCHANGED <<changed, now>>,
         NEW since, NEW checked, FreshHeap(disk, changed, now, files, since, checked),
         NEW time \in 0 .. now
  PROVE  \E since2, checked2 :
           /\ FreshHeap(disk', changed', now', files', since2, checked2)
           /\ \A id \in 1 .. Len(files) : since2[id] = since[id] /\ checked2[id] = checked[id]
           /\ since2[Len(files) + 1] = time /\ checked2[Len(files) + 1] = time
<1> DEFINE n == Len(files)
           more(times) == [id \in 1 .. n + 1 |-> IF id = n + 1 THEN time ELSE times[id]]
           since2 == more(since)
           checked2 == more(checked)
<1>1. /\ n \in Nat /\ now \in Nat /\ time \in Int /\ time <= now
      /\ \A id \in 1 .. n : \A k \in DOMAIN files[id].extendsFiles :
           files[id].extendsFiles[k] \in id + 1 .. n
  BY LimitsAssumption DEF CacheInv, ClockOK, LoadInv, HeapOK, BasesFollow
<1>2. /\ Len(files') = n + 1 /\ \A id \in 1 .. n : files'[id] = files[id]
      /\ files'[n + 1].version = 0 /\ ~files'[n + 1].fileNotFound
      /\ files'[n + 1].extendsFiles = <<>> /\ UNCHANGED <<disk, changed, now>>
  BY DEF FileAdded
<1>3. \A id \in 1 .. n : id \in 1 .. n + 1 /\ id # n + 1
  <2>1. n \in Nat
    BY <1>1
  <2> HIDE DEF n
  <2> QED  BY <2>1
<1>4. /\ \A id \in 1 .. n : since2[id] = since[id] /\ checked2[id] = checked[id]
      /\ since2[n + 1] = time /\ checked2[n + 1] = time
  <2>1. n + 1 \in 1 .. n + 1
    BY <1>1
  <2> QED  BY <1>3, <2>1
<1>5. /\ since \in [1 .. n -> Int] /\ checked \in [1 .. n -> Int]
      /\ \A id \in 1 .. n :
           /\ since[id] <= now /\ checked[id] <= now
           /\ FreshOn(disk, changed, files[id], since[id], checked[id])
           /\ \A k \in DOMAIN files[id].extendsFiles :
                /\ since[id] <= since[files[id].extendsFiles[k]]
                /\ checked[id] <= checked[files[id].extendsFiles[k]]
  BY DEF FreshHeap
<1>6. \A id \in 1 .. n + 1 : id \in 1 .. n \/ id = n + 1
  <2>1. n \in Nat
    BY <1>1
  <2> HIDE DEF n
  <2> QED  BY <2>1
<1>7. since2 \in [1 .. n + 1 -> Int] /\ checked2 \in [1 .. n + 1 -> Int]
  <2>1. \A id \in 1 .. n + 1 : /\ (IF id = n + 1 THEN time ELSE since[id]) \in Int
                               /\ (IF id = n + 1 THEN time ELSE checked[id]) \in Int
    BY <1>1, <1>5, <1>6
  <2> QED  BY <2>1
<1> HIDE DEF n, since2, checked2
<1>8. ASSUME NEW id \in 1 .. n
      PROVE  /\ since2[id] <= now /\ checked2[id] <= now
             /\ FreshOn(disk, changed, files'[id], since2[id], checked2[id])
             /\ \A k \in DOMAIN files'[id].extendsFiles :
                  /\ since2[id] <= since2[files'[id].extendsFiles[k]]
                  /\ checked2[id] <= checked2[files'[id].extendsFiles[k]]
  <2>1. ASSUME NEW k \in DOMAIN files[id].extendsFiles PROVE files[id].extendsFiles[k] \in 1 .. n
    <3>1. files[id].extendsFiles[k] \in id + 1 .. n
      BY <1>1
    <3> QED  BY <1>1, <3>1
  <2> QED  BY <1>2, <1>4, <1>5, <2>1
<1>9. /\ since2[n + 1] <= now /\ checked2[n + 1] <= now
      /\ FreshOn(disk, changed, files'[n + 1], since2[n + 1], checked2[n + 1])
      /\ DOMAIN files'[n + 1].extendsFiles = {}
  <2>1. FreshOn(disk, changed, files'[n + 1], since2[n + 1], checked2[n + 1])
    BY <1>2 DEF FreshOn
  <2> DEFINE none == files'[n + 1].extendsFiles
  <2>2. none = <<>>
    BY <1>2
  <2> HIDE DEF none
  <2>3. DOMAIN none = {}
    BY <2>2
  <2> QED  BY <1>1, <1>4, <2>1, <2>3 DEF none
<1>10. FreshHeap(disk', changed', now', files', since2, checked2)
  BY <1>2, <1>6, <1>7, <1>8, <1>9 DEF FreshHeap
<1> QED  BY <1>4, <1>10 DEF n

\* A step of the load: a look at the disk tells what is there now, and the files on the
\* stack have all been known from the time at which the lint began.
LEMMA LoadKeepsFresh ==
  ASSUME CacheInv, CacheInv', FreshOK, LoadStep, IsLoading, UNCHANGED cacheVars
  PROVE  FreshOK'
<1> DEFINE n == Len(files)
<1>1. PICK since, checked :
        FreshHeap(disk, changed, now, files, since, checked) /\ FreshEntries(since, checked)
  BY DEF FreshOK
<1>2. /\ UNCHANGED <<now, changed, cachedConfigs, request>>
      /\ LoadInv /\ request.step = "loading" /\ request.now \in 0 .. now
      /\ n \in Nat /\ now \in Nat
  BY LimitsAssumption
     DEF CacheInv, RequestOK, ClockOK, cacheVars, LoadInv, HeapOK, BasesFollow
<1>3. /\ \A i \in DOMAIN stack : /\ since[stack[i]] = request.now
                                 /\ checked[stack[i]] = request.now
      /\ \A k \in DOMAIN cachedConfigs :
           /\ cachedConfigs[k].loadTime <= since[cachedConfigs[k].configFile]
           /\ cachedConfigs[k].lastCheckTime <= checked[cachedConfigs[k].configFile]
  BY <1>1, <1>2 DEF FreshEntries
<1>4. /\ since \in [1 .. n -> Int] /\ checked \in [1 .. n -> Int]
      /\ \A id \in 1 .. n :
           /\ since[id] <= now /\ checked[id] <= now
           /\ FreshOn(disk, changed, files[id], since[id], checked[id])
           /\ \A k \in DOMAIN files[id].extendsFiles :
                /\ since[id] <= since[files[id].extendsFiles[k]]
                /\ checked[id] <= checked[files[id].extendsFiles[k]]
  BY <1>1 DEF FreshHeap
<1>5. /\ stack \in Seq(1 .. n) /\ Len(stack) \in Nat /\ DOMAIN stack = 1 .. Len(stack)
      /\ this = stack[Len(stack)] /\ this \in 1 .. n /\ thisFile = files[this]
      /\ Len(stack) \in 1 .. Len(stack)
  <2>1. pc # "Start"
    BY DEF IsLoading
  <2> QED  BY <1>2, <2>1, StackFacts DEF LoadInv, StackOK, this
\* A heap of the same size, of which the times are the same
<1>6. ASSUME UNCHANGED disk, Len(files') = n,
             \A i \in DOMAIN stack' : i \in DOMAIN stack /\ stack'[i] = stack[i],
             \A id \in 1 .. n :
               /\ FreshOn(disk, changed, files'[id], since[id], checked[id])
               /\ \A k \in DOMAIN files'[id].extendsFiles :
                    /\ since[id] <= since[files'[id].extendsFiles[k]]
                    /\ checked[id] <= checked[files'[id].extendsFiles[k]]
      PROVE  FreshOK'
  <2>1. FreshHeap(disk', changed', now', files', since, checked)
    BY <1>2, <1>4, <1>6 DEF FreshHeap
  <2>2. FreshEntries(since, checked)'
    BY <1>2, <1>3, <1>6 DEF FreshEntries
  <2> QED  BY <2>1, <2>2, FreshHeapPrime DEF FreshOK
<1>7. CASE UNCHANGED <<disk, files, stack>>
  BY <1>4, <1>6, <1>7
<1>8. ASSUME NEW f, TopBecomes(f), Reads(thisFile, f) PROVE FreshOK'
  <2>1. /\ UNCHANGED <<disk, stack>> /\ FileOK(f) /\ Len(files') = n
        /\ \A j \in 1 .. n : files'[j] = IF j = this THEN f ELSE files[j]
        /\ f.filePath = thisFile.filePath /\ f.extendsFiles = thisFile.extendsFiles
    BY <1>8 DEF TopBecomes
  <2>2. f.version # 0 => f.version <= Time(f.filePath)
    <3>1. VersionsOK' /\ files'[this] = f
      BY <1>5, <2>1 DEF CacheInv, LoadInv
    <3>2. files'[this].version # 0 =>
            files'[this].version <= Len(disk'[RealPath[files'[this].filePath]])
      BY <1>5, <2>1, <3>1 DEF VersionsOK, Time
    <3> QED  BY <2>1, <3>1, <3>2 DEF Time
  <2>3. FreshOn(disk, changed, f, since[this], checked[this])
    BY <1>2, <1>4, <1>5, <1>8, <2>1, <2>2, ReadsAreFresh
  <2>4. ASSUME NEW id \in 1 .. n
        PROVE  /\ FreshOn(disk, changed, files'[id], since[id], checked[id])
               /\ files'[id].extendsFiles = files[id].extendsFiles
    BY <1>4, <1>5, <2>1, <2>3
  <2> QED  BY <1>4, <1>6, <2>1, <2>4
<1>9. ASSUME stack' = Append(stack, n + 1), NEW path, FileAdded(path) PROVE FreshOK'
  <2>1. PICK since2, checked2 :
        /\ FreshHeap(disk', changed', now', files', since2, checked2)
        /\ \A id \in 1 .. n : since2[id] = since[id] /\ checked2[id] = checked[id]
        /\ since2[n + 1] = request.now /\ checked2[n + 1] = request.now
    BY <1>1, <1>2, <1>9, NewFileIsFresh
  <2>2. \A k \in DOMAIN cachedConfigs : cachedConfigs[k].configFile \in 1 .. n
    BY DEF CacheInv, CachedOK
  <2>3. ASSUME NEW i \in DOMAIN stack'
        PROVE  \/ stack'[i] = n + 1
               \/ i \in DOMAIN stack /\ stack'[i] = stack[i] /\ stack[i] \in 1 .. n
    <3> DEFINE m == Len(stack)
    <3>1. DOMAIN stack' = 1 .. m + 1 /\ stack'[m + 1] = n + 1 /\ \A j \in 1 .. m : stack'[j] = stack[j]
      BY <1>5, <1>9
    <3>2. i = m + 1 \/ i \in 1 .. m
      <4>1. m \in Nat /\ i \in 1 .. m + 1
        BY <1>5, <3>1
      <4> HIDE DEF m
      <4> QED  BY <4>1
    <3> QED  BY <1>5, <3>1, <3>2
  <2>4. FreshEntries(since2, checked2)'
    BY <1>2, <1>3, <2>1, <2>2, <2>3 DEF FreshEntries
  <2> QED  BY <2>1, <2>4, FreshHeapPrime DEF FreshOK
<1>10. ASSUME NEW below, NEW h, Returned(below, h) PROVE FreshOK'
  <2>1. /\ UNCHANGED disk /\ Len(files') = n /\ below \in 1 .. n
        /\ \A j \in 1 .. n : files'[j] = IF j = below THEN h ELSE files[j]
        /\ h.filePath = files[below].filePath /\ SameReading(files[below], h)
        /\ h.extendsFiles = Append(files[below].extendsFiles, this)
        /\ Len(stack) > 1 /\ below = stack[Len(stack) - 1]
        /\ stack' \in Seq(1 .. n) /\ Len(stack') = Len(stack) - 1
        /\ \A i \in 1 .. Len(stack') : stack'[i] = stack[i]
    BY <1>10 DEF Returned
  <2>2. /\ since[below] = request.now /\ checked[below] = request.now
        /\ since[this] = request.now /\ checked[this] = request.now
    <3>1. Len(stack) - 1 \in DOMAIN stack
      BY <1>5, <2>1
    <3> QED  BY <1>3, <1>5, <2>1, <3>1
  <2>3. \A i \in DOMAIN stack' : i \in DOMAIN stack /\ stack'[i] = stack[i]
    <3> DEFINE m == Len(stack)
    <3>1. DOMAIN stack' = 1 .. m - 1
      BY <2>1
    <3>2. \A i \in 1 .. m - 1 : i \in 1 .. m
      BY <1>5
    <3> QED  BY <1>5, <2>1, <3>1, <3>2
  <2>4. FreshOn(disk, changed, h, since[below], checked[below])
    <3>1. FreshOn(disk, changed, files[below], since[below], checked[below])
      BY <1>4, <2>1
    <3> QED  BY <2>1, <3>1 DEF FreshOn, SameReading, Raced
  <2>5. ASSUME NEW k \in DOMAIN h.extendsFiles
        PROVE  /\ since[below] <= since[h.extendsFiles[k]]
               /\ checked[below] <= checked[h.extendsFiles[k]]
    <3> DEFINE b == files[below].extendsFiles
    <3>1. b \in Seq(Nat)
      BY <1>2, <2>1 DEF LoadInv, HeapOK, BasesFollow
    <3>2. h.extendsFiles[k] = this \/ (k \in DOMAIN b /\ h.extendsFiles[k] = b[k])
      <4> DEFINE grown == h.extendsFiles
      <4>1. grown = Append(b, this) /\ k \in DOMAIN grown
        BY <2>1, <2>5
      <4> HIDE DEF b, grown
      <4>2. /\ Len(b) \in Nat /\ DOMAIN b = 1 .. Len(b) /\ DOMAIN grown = 1 .. Len(b) + 1
            /\ grown[Len(b) + 1] = this /\ \A j \in 1 .. Len(b) : grown[j] = b[j]
        BY <3>1, <4>1
      <4>3. k = Len(b) + 1 \/ k \in 1 .. Len(b)
        BY <4>1, <4>2
      <4>4. grown[k] = this \/ (k \in DOMAIN b /\ grown[k] = b[k])
        BY <4>2, <4>3
      <4> QED  BY <4>4 DEF grown
    <3>3. request.now <= request.now
      BY <1>2
    <3> QED  BY <1>4, <2>1, <2>2, <3>2, <3>3
  <2>6. ASSUME NEW id \in 1 .. n
        PROVE  /\ FreshOn(disk, changed, files'[id], since[id], checked[id])
               /\ \A k \in DOMAIN files'[id].extendsFiles :
                    /\ since[id] <= since[files'[id].extendsFiles[k]]
                    /\ checked[id] <= checked[files'[id].extendsFiles[k]]
    <3>1. CASE id = below
      <4>1. files'[id] = h
        BY <2>1, <3>1
      <4> QED  BY <2>4, <2>5, <3>1, <4>1
    <3>2. CASE id # below
      <4>1. files'[id] = files[id]
        BY <2>1, <3>2
      <4> QED  BY <1>4, <4>1
    <3> QED  BY <3>1, <3>2
  <2> QED  BY <1>6, <2>1, <2>3, <2>6
<1> QED  BY <1>7, <1>8, <1>9, <1>10 DEF LoadStep

\* A miss: what the lint will know begins with now.
LEMMA MissKeepsFresh ==
  ASSUME CacheInv, FreshOK, pc = "Start", NEW f \in SourceFolders, NEW r \in RootDirs, NEW caches,
         DOMAIN caches \subseteq DOMAIN cachedConfigs \ {Source(f, r).key},
         \A k \in DOMAIN caches : caches[k] = cachedConfigs[k],
         Miss(Source(f, r), caches)
  PROVE  FreshOK'
<1> DEFINE n == Len(files)
           path == Source(f, r).path
<1>1. PICK since, checked :
        FreshHeap(disk, changed, now, files, since, checked) /\ FreshEntries(since, checked)
  BY DEF FreshOK
<1>2. /\ FileAdded(path) /\ stack' = <<n + 1>> /\ request'.now = now /\ request'.step = "loading"
      /\ \A k \in DOMAIN cachedConfigs' : k \in DOMAIN cachedConfigs
                                          /\ cachedConfigs'[k] = cachedConfigs[k]
      /\ UNCHANGED <<now, changed>>
  BY MissKeeps
<1> HIDE DEF path
<1>3. now \in 0 .. now
  BY LimitsAssumption DEF CacheInv, ClockOK
<1>4. PICK since2, checked2 :
      /\ FreshHeap(disk', changed', now', files', since2, checked2)
      /\ \A id \in 1 .. n : since2[id] = since[id] /\ checked2[id] = checked[id]
      /\ since2[n + 1] = now /\ checked2[n + 1] = now
  BY <1>1, <1>2, <1>3, NewFileIsFresh
<1>5. \A k \in DOMAIN cachedConfigs : cachedConfigs[k].configFile \in 1 .. n
  BY DEF CacheInv, CachedOK
<1>6. \A i \in DOMAIN stack' : stack'[i] = n + 1
  BY <1>2
<1>7. FreshEntries(since2, checked2)'
  BY <1>1, <1>2, <1>4, <1>5, <1>6 DEF FreshEntries
<1> QED  BY <1>4, <1>7, FreshHeapPrime DEF FreshOK

\* A hit: neither the entry nor its last check is older than it may be.
LEMMA HitKeepsFresh ==
  ASSUME CacheInv, FreshOK, NEW key, Hit(key)
  PROVE  FreshOK'
<1>1. PICK since, checked :
        FreshHeap(disk, changed, now, files, since, checked) /\ FreshEntries(since, checked)
  BY DEF FreshOK
<1> DEFINE entry == cachedConfigs[key]
           id == entry.configFile
<1>2. /\ key \in DOMAIN cachedConfigs
      /\ ~(now - entry.loadTime > Expire) /\ ~(now - entry.lastCheckTime > CheckInterval)
      /\ stack' = <<id>> /\ request'.now = now /\ request'.step = "answered"
      /\ UNCHANGED <<disk, files, now, changed, cachedConfigs>>
  BY DEF Hit, IsCached, IsExpired, IsDue, Answer, Request
<1>3. /\ entry \in [configFile : 1 .. Len(files), loadTime : 0 .. now, lastCheckTime : 0 .. now]
      /\ now \in Nat /\ Expire \in Nat /\ CheckInterval \in Nat
  BY <1>2, LimitsAssumption, TimesAssumption DEF CacheInv, CachedOK, ClockOK
<1>4. entry.loadTime <= since[id] /\ entry.lastCheckTime <= checked[id]
  BY <1>1, <1>2 DEF FreshEntries
<1>5. since[id] \in Int /\ checked[id] \in Int
  BY <1>1, <1>3 DEF FreshHeap
<1> HIDE DEF entry
<1>6. now - Expire <= since[id] /\ now - CheckInterval <= checked[id]
  BY <1>2, <1>3, <1>4, <1>5
<1>7. stack'[1] = id
  BY <1>2
<1>8. FreshEntries(since, checked)'
  BY <1>1, <1>2, <1>6, <1>7 DEF FreshEntries
<1>9. \A j \in 1 .. Len(files) : SameReading(files[j], files'[j])
  BY <1>2 DEF SameReading
<1> QED  BY <1>1, <1>2, <1>3, <1>8, <1>9, FreshStays

\* ... and when its files were just checked, what was said of them holds now, except of those that
\* were written between being read and being stat-ed.
LEMMA CheckedHitKeepsFresh ==
  ASSUME CacheInv, FreshOK, NEW key, CheckedHit(key)
  PROVE  FreshOK'
<1> DEFINE n == Len(files)
<1>1. PICK since, checked :
        FreshHeap(disk, changed, now, files, since, checked) /\ FreshEntries(since, checked)
  BY DEF FreshOK
<1> DEFINE entry == cachedConfigs[key]
           top == entry.configFile
<1>2. /\ key \in DOMAIN cachedConfigs /\ ~(now - entry.loadTime > Expire)
      /\ \A j \in Tree(top) : ~IsModified(files[j])
      /\ cachedConfigs' = [cachedConfigs EXCEPT ![key].lastCheckTime = now]
      /\ stack' = <<top>> /\ request'.now = now /\ request'.step = "answered"
      /\ UNCHANGED <<disk, files, now, changed>>
  BY DEF CheckedHit, IsCached, IsExpired, CheckForModifiedFiles, Answer, Request
<1>3. /\ entry \in [configFile : 1 .. n, loadTime : 0 .. now, lastCheckTime : 0 .. now]
      /\ now \in Nat /\ Expire \in Nat /\ CheckInterval \in Nat /\ n \in Nat
  BY <1>2, LimitsAssumption, TimesAssumption
     DEF CacheInv, CachedOK, ClockOK, LoadInv, HeapOK, BasesFollow
<1>4. top \in 1 .. n
  BY <1>3
<1>5. /\ top \in Tree(top) /\ Tree(top) \subseteq 1 .. n
      /\ \A j \in Tree(top) : \A k \in DOMAIN files[j].extendsFiles :
           files[j].extendsFiles[k] \in Tree(top)
  <2>1. BasesFollow(files)
    BY DEF CacheInv, LoadInv, HeapOK
  <2> HIDE DEF top
  <2> QED  BY <1>4, <2>1, TreeIsClosed
<1> DEFINE T == Tree(top)
<1>6. /\ since \in [1 .. n -> Int] /\ checked \in [1 .. n -> Int]
      /\ \A id \in 1 .. n :
           /\ since[id] <= now /\ checked[id] <= now
           /\ FreshOn(disk, changed, files[id], since[id], checked[id])
           /\ \A k \in DOMAIN files[id].extendsFiles :
                /\ since[id] <= since[files[id].extendsFiles[k]]
                /\ checked[id] <= checked[files[id].extendsFiles[k]]
  BY <1>1 DEF FreshHeap
<1>7. PICK checked2 : checked2 = [id \in 1 .. n |-> IF id \in T THEN now ELSE checked[id]]
  OBVIOUS
<1> HIDE DEF T, top, entry
<1>8. checked2 \in [1 .. n -> Int]
  BY <1>3, <1>6, <1>7
<1>9. \A id \in 1 .. n : /\ id \in T => checked2[id] = now
                         /\ id \notin T => checked2[id] = checked[id]
                         /\ checked[id] <= checked2[id] /\ checked2[id] <= now
  <2> TAKE id \in 1 .. n
  <2>1. checked2[id] = IF id \in T THEN now ELSE checked[id]
    BY <1>7
  <2>2. checked[id] \in Int /\ checked[id] <= now
    BY <1>6
  <2> QED  BY <1>3, <2>1, <2>2
<1>10. ASSUME NEW id \in 1 .. n
       PROVE  FreshOn(disk, changed, files[id], since[id], checked2[id])
  <2>1. CASE id \notin T
    BY <1>6, <1>9, <2>1
  <2>2. CASE id \in T
    <3> DEFINE f == files[id]
    <3>1. /\ FileOK(f) /\ f \in File
          /\ f.version # 0 => f.filePath \in Paths /\ f.version <= Time(f.filePath)
      <4>1. VersionsOK /\ f \in File /\ FileOK(f)
        BY DEF CacheInv, LoadInv, HeapOK, FileOK
      <4> QED  BY <4>1 DEF VersionsOK, FileOK
    <3>2. ~IsModified(f)
      BY <1>2, <2>2 DEF T
    <3> HIDE DEF f
    <3>3. f.version # 0 => Time(f.filePath) = f.fileMTime
      BY <3>1, <3>2, PathsAssumption DEF IsModified, FileOK
    <3>4. f.version \in Nat /\ f.fileMTime \in Nat
      BY <3>1, DisksAssumption DEF File
    <3>5. f.version # 0 /\ ~Raced(f) => f.version = Len(disk[RealPath[f.filePath]])
      BY <3>1, <3>3, <3>4 DEF Raced, Time
    <3>6. FreshOn(disk, changed, f, since[id], checked[id])
      BY <1>6 DEF f
    <3>7. FreshOn(disk, changed, f, since[id], checked2[id])
      BY <3>5, <3>6 DEF FreshOn, ThereOn
    <3> QED  BY <3>7 DEF f
  <2> QED  BY <2>1, <2>2
<1>11. ASSUME NEW id \in 1 .. n, NEW k \in DOMAIN files[id].extendsFiles
       PROVE  checked2[id] <= checked2[files[id].extendsFiles[k]]
  <2> DEFINE b == files[id].extendsFiles[k]
  <2>1. b \in 1 .. n
    <3>1. b \in id + 1 .. n
      BY DEF CacheInv, LoadInv, HeapOK, BasesFollow
    <3> QED  BY <1>3, <3>1
  <2>2. checked[id] <= checked[b] /\ (id \in T => b \in T)
    BY <1>5, <1>6 DEF T
  <2> HIDE DEF b
  <2>3. /\ checked[id] \in Int /\ checked[b] \in Int /\ checked2[id] \in Int /\ checked2[b] \in Int
    BY <1>6, <1>8, <2>1
  <2>4. checked2[id] <= checked2[b]
    BY <1>9, <2>1, <2>2, <2>3
  <2> QED  BY <2>4 DEF b
<1>12. FreshHeap(disk, changed, now, files, since, checked2)
  BY <1>6, <1>8, <1>9, <1>10, <1>11 DEF FreshHeap
<1>13. ASSUME NEW k \in DOMAIN cachedConfigs'
       PROVE  /\ cachedConfigs'[k].loadTime <= since[cachedConfigs'[k].configFile]
              /\ cachedConfigs'[k].lastCheckTime <= checked2[cachedConfigs'[k].configFile]
  <2>1. k \in DOMAIN cachedConfigs
    BY <1>2
  <2> DEFINE old == cachedConfigs[k]
  <2>2. /\ old \in [configFile : 1 .. n, loadTime : 0 .. now, lastCheckTime : 0 .. now]
        /\ old.loadTime <= since[old.configFile] /\ old.lastCheckTime <= checked[old.configFile]
    BY <1>1, <2>1 DEF FreshEntries, CacheInv, CachedOK
  <2>3. IF k = key THEN cachedConfigs'[k] = [old EXCEPT !.lastCheckTime = now]
                   ELSE cachedConfigs'[k] = old
    BY <1>2, <2>1
  <2>4. k = key => old = entry
    BY DEF entry
  <2> HIDE DEF old
  <2>5. CASE k = key
    <3>1. /\ cachedConfigs'[k].loadTime = old.loadTime
          /\ cachedConfigs'[k].configFile = old.configFile
          /\ cachedConfigs'[k].lastCheckTime = now
      BY <2>2, <2>3, <2>5
    <3>2. old.configFile = top
      BY <2>4, <2>5 DEF top
    <3>3. checked2[top] = now
      BY <1>4, <1>5, <1>9 DEF T
    <3> QED  BY <1>3, <2>2, <3>1, <3>2, <3>3
  <2>6. CASE k # key
    <3>1. old.configFile \in 1 .. n /\ old.lastCheckTime \in Int
      BY <2>2
    <3>2. /\ checked[old.configFile] <= checked2[old.configFile]
          /\ checked[old.configFile] \in Int /\ checked2[old.configFile] \in Int
      BY <1>6, <1>8, <1>9, <3>1
    <3>3. old.lastCheckTime <= checked2[old.configFile]
      BY <2>2, <3>1, <3>2
    <3> QED  BY <2>2, <2>3, <2>6, <3>3
  <2> QED  BY <2>5, <2>6
<1>14. now - Expire <= since[top] /\ now - CheckInterval <= checked2[top]
  <2>1. entry.loadTime <= since[top] /\ entry.loadTime \in Int /\ since[top] \in Int
    BY <1>1, <1>2, <1>3, <1>4, <1>6 DEF FreshEntries, entry, top
  <2>2. checked2[top] = now
    BY <1>4, <1>5, <1>9 DEF T
  <2> QED  BY <1>2, <1>3, <2>1, <2>2
<1>15. stack'[1] = top
  BY <1>2
<1>16. FreshEntries(since, checked2)'
  BY <1>2, <1>13, <1>14, <1>15 DEF FreshEntries
<1>17. \A j \in 1 .. n : SameReading(files[j], files'[j])
  BY <1>2 DEF SameReading
<1> QED  BY <1>2, <1>3, <1>12, <1>16, <1>17, FreshStays

\* A load that is over is stored with the time at which it began, and is the answer.
LEMMA StoreKeepsFresh ==
  ASSUME CacheInv, FreshOK, Store
  PROVE  FreshOK'
<1>1. PICK since, checked :
        FreshHeap(disk, changed, now, files, since, checked) /\ FreshEntries(since, checked)
  BY DEF FreshOK
<1>2. /\ pc = "Loaded" /\ pc # "Start" /\ request.step = "loading"
      /\ cachedConfigs' = Put(cachedConfigs, request.key, Entry)
      /\ request' = [request EXCEPT !.step = "answered"]
      /\ UNCHANGED <<disk, files, stack, now, changed>>
  BY DEF Store, vars, loader
<1>3. /\ 1 \in DOMAIN stack /\ stack[1] \in 1 .. Len(files) /\ request.now \in Int
      /\ request = [key |-> request.key, now |-> request.now, step |-> request.step]
      /\ request.now \in 0 .. now /\ now \in Nat /\ Expire \in Nat /\ CheckInterval \in Nat
  <2>1. Len(stack) \in Nat \ {0} /\ DOMAIN stack = 1 .. Len(stack) /\ stack[1] \in 1 .. Len(files)
    BY <1>2, StackFacts DEF CacheInv
  <2>2. 1 \in DOMAIN stack
    BY <2>1
  <2> QED  BY <2>1, <2>2, LimitsAssumption, TimesAssumption DEF CacheInv, RequestOK, ClockOK
<1>4. request'.now = request.now /\ request'.step = "answered"
  BY <1>2, <1>3
<1>5. since[stack[1]] = request.now /\ checked[stack[1]] = request.now
  BY <1>1, <1>2, <1>3 DEF FreshEntries
<1>6. \A k \in DOMAIN cachedConfigs' :
        \/ cachedConfigs'[k] = [configFile |-> stack[1], loadTime |-> request.now,
                                lastCheckTime |-> request.now]
        \/ k \in DOMAIN cachedConfigs /\ cachedConfigs'[k] = cachedConfigs[k]
  BY <1>2 DEF Put, Entry
<1>7. FreshEntries(since, checked)'
  BY <1>1, <1>2, <1>3, <1>4, <1>5, <1>6 DEF FreshEntries
<1>8. \A j \in 1 .. Len(files) : SameReading(files[j], files'[j])
  BY <1>2 DEF SameReading
<1> QED  BY <1>1, <1>2, <1>3, <1>7, <1>8, FreshStays

\* Every step keeps the times.
LEMMA FreshKeeps ==
  ASSUME CacheInv, CacheInv', FreshOK, [CacheNext]_allVars
  PROVE  FreshOK'
<1>1. PICK since, checked :
        FreshHeap(disk, changed, now, files, since, checked) /\ FreshEntries(since, checked)
  BY DEF FreshOK
<1>2. LoadInv /\ LoadInv' /\ RequestOK /\ now \in Nat
  BY LimitsAssumption DEF CacheInv, ClockOK
<1>3. \A j \in 1 .. Len(files) : SameReading(files[j], files[j])
  BY DEF SameReading
<1>4. ASSUME UNCHANGED <<disk, files, changed, cachedConfigs>>, now' \in Nat, now <= now',
             \/ UNCHANGED <<stack, request>>
             \/ request'.step \notin {"loading", "answered"}
      PROVE  FreshOK'
  <2>1. FreshEntries(since, checked)'
    BY <1>1, <1>4 DEF FreshEntries
  <2> QED  BY <1>1, <1>3, <1>4, <2>1, FreshStays
<1>5. CASE Tick
  BY <1>2, <1>4, <1>5 DEF Tick, vars, loader
<1>6. CASE UNCHANGED allVars
  BY <1>2, <1>4, <1>6 DEF allVars, vars, loader, cacheVars
<1>7. ASSUME NEW p \in DOMAIN disk, NEW c \in Contents \union {Absent}, EditNow(p, c)
      PROVE  FreshOK'
  BY <1>7, EditKeepsFresh
<1>8. ASSUME NEW f \in SourceFolders, NEW r \in RootDirs, GetForSourceFile(Source(f, r))
      PROVE  FreshOK'
  <2> DEFINE source == Source(f, r)
             key == source.key
  <2>1. CASE Hit(key)
    BY <2>1, HitKeepsFresh
  <2>2. CASE CheckedHit(key)
    BY <2>2, CheckedHitKeepsFresh
  <2>3. ASSUME NEW caches, DOMAIN caches \subseteq DOMAIN cachedConfigs \ {key},
               \A k \in DOMAIN caches : caches[k] = cachedConfigs[k],
               Miss(source, caches), pc = "Start"
        PROVE  FreshOK'
    BY <2>3, MissKeepsFresh
  <2>4. /\ DOMAIN Without(key) \subseteq DOMAIN cachedConfigs \ {key}
        /\ \A k \in DOMAIN Without(key) : Without(key)[k] = cachedConfigs[k]
    BY DEF Without
  <2>5. CASE EvictModified(source) \/ EvictExpired(source)
    BY <2>3, <2>4, <2>5 DEF EvictModified, EvictExpired
  <2>6. CASE FirstLoad(source)
    BY <2>3, <2>6 DEF FirstLoad, IsCached
  <2> HIDE DEF source
  <2> QED  BY <1>8, <2>1, <2>2, <2>5, <2>6 DEF GetForSourceFile, source
<1>9. CASE Load /\ UNCHANGED cacheVars
  <2>1. LoadStep /\ IsLoading
    BY <1>2, <1>9, LoadKeeps
  <2> QED  BY <1>9, <2>1, LoadKeepsFresh
<1>10. CASE Store
  BY <1>10, StoreKeepsFresh
<1>11. request = [key |-> request.key, now |-> request.now, step |-> request.step]
  BY <1>2 DEF RequestOK
<1>12. CASE ReportErrors
  <2>1. /\ UNCHANGED <<disk, files, changed, cachedConfigs, now>>
        /\ request' = [request EXCEPT !.step = "reported"]
    BY <1>12 DEF ReportErrors, vars, loader
  <2>2. request'.step = "reported"
    BY <1>11, <2>1
  <2> QED  BY <1>2, <1>4, <2>1, <2>2
<1>13. CASE ConfigureLint
  <2>1. IsApplied(files, files') /\ UNCHANGED disk
    BY <1>13, ConfigureLintKeeps
  <2>2. /\ UNCHANGED <<changed, cachedConfigs, now>>
        /\ request' = [request EXCEPT !.step = "linted"]
    BY <1>13 DEF ConfigureLint
  <2>3. request'.step = "linted"
    BY <1>11, <2>2
  <2>4. Len(files') = Len(files)
    BY <2>1 DEF IsApplied
  <2>5. \A id \in 1 .. Len(files) : /\ SameReading(files[id], files'[id])
                                    /\ files'[id].filePath = files[id].filePath
                                    /\ files'[id].extendsFiles = files[id].extendsFiles
    BY <2>1 DEF IsApplied, IsReported, SameReading
  <2>6. FreshEntries(since, checked)'
    <3>1. \A k \in DOMAIN cachedConfigs :
            /\ cachedConfigs[k].loadTime <= since[cachedConfigs[k].configFile]
            /\ cachedConfigs[k].lastCheckTime <= checked[cachedConfigs[k].configFile]
      BY <1>1 DEF FreshEntries
    <3> QED  BY <2>2, <2>3, <3>1 DEF FreshEntries
  <2>7. now' \in Nat /\ now <= now'
    BY <1>2, <2>2
  <2> QED  BY <1>1, <2>1, <2>2, <2>4, <2>5, <2>6, <2>7, FreshStays
<1>14. CASE KeepDefaults \/ LoadThrew
  <2>1. UNCHANGED <<disk, files, changed, cachedConfigs, now>> /\ request'.step = "linted"
    <3>1. request'.step = "linted"
      BY <1>14, UnconfiguredKeeps
    <3> QED  BY <1>14, <3>1 DEF KeepDefaults, LoadThrew
  <2> QED  BY <1>2, <1>4, <2>1
<1>15. CASE EndLint
  <2>1. UNCHANGED <<disk, files, changed, cachedConfigs, now>> /\ request'.step = "none"
    BY <1>15 DEF EndLint, NoRequest
  <2> QED  BY <1>2, <1>4, <2>1
<1> QED  BY <1>5, <1>6, <1>7, <1>8, <1>9, <1>10, <1>12, <1>13, <1>14, <1>15 DEF CacheNext, Lint

\* In the tree of the answer, nothing is known from an earlier time than of its root.
LEMMA AnswersFollow ==
  ASSUME CacheInv, FreshOK
  PROVE  AnswersAreFresh
<1> SUFFICES ASSUME pc = "Loaded", request.step = "answered", NEW id \in Tree(root)
             PROVE  LET f == files[id] IN
                    /\ f.version # 0 => WasThere(f.filePath, f.version, request.now - Expire)
                    /\ f.version # 0 /\ ~Raced(f) =>
                         WasThere(f.filePath, f.version, request.now - CheckInterval)
                    /\ f.fileNotFound /\ f.filePath # NoPath =>
                         \E v \in DOMAIN disk[RealPath[f.filePath]] :
                           /\ disk[RealPath[f.filePath]][v] = Absent
                           /\ WasThere(f.filePath, v, request.now - Expire)
  BY DEF AnswersAreFresh
<1> DEFINE n == Len(files)
           f == files[id]
           old == request.now - Expire
           due == request.now - CheckInterval
<1>1. PICK since, checked :
        FreshHeap(disk, changed, now, files, since, checked) /\ FreshEntries(since, checked)
  BY DEF FreshOK
<1>2. /\ root = stack[1] /\ root \in 1 .. n /\ BasesFollow(files) /\ n \in Nat
      /\ old \in Int /\ due \in Int
  <2>1. pc # "Start"
    OBVIOUS
  <2>2. stack[1] \in 1 .. n /\ BasesFollow(files) /\ n \in Nat /\ request.now \in 0 .. now
    BY <2>1, StackFacts DEF CacheInv, LoadInv, HeapOK, BasesFollow, RequestOK
  <2> QED  BY <2>2, TimesAssumption DEF root
<1>3. old <= since[root] /\ due <= checked[root]
  BY <1>1, <1>2 DEF FreshEntries
<1>4. /\ since \in [1 .. n -> Int] /\ checked \in [1 .. n -> Int]
      /\ \A x \in 1 .. n : \A k \in DOMAIN files[x].extendsFiles :
           /\ since[x] <= since[files[x].extendsFiles[k]]
           /\ checked[x] <= checked[files[x].extendsFiles[k]]
           /\ files[x].extendsFiles[k] \in 1 .. n
  <2>1. ASSUME NEW x \in 1 .. n, NEW k \in DOMAIN files[x].extendsFiles
        PROVE  files[x].extendsFiles[k] \in 1 .. n
    <3>1. files[x].extendsFiles[k] \in x + 1 .. n
      BY <1>2 DEF BasesFollow
    <3> QED  BY <1>2, <3>1
  <2> QED  BY <1>1, <2>1 DEF FreshHeap
<1> HIDE DEF old, due
<1> DEFINE S == {x \in 1 .. n : old <= since[x] /\ due <= checked[x]}
<1>5. ASSUME NEW x \in S \intersect 1 .. n, NEW k \in DOMAIN files[x].extendsFiles
      PROVE  files[x].extendsFiles[k] \in S
  <2> DEFINE b == files[x].extendsFiles[k]
  <2>1. /\ b \in 1 .. n /\ since[x] <= since[b] /\ checked[x] <= checked[b]
        /\ old <= since[x] /\ due <= checked[x]
    BY <1>4, <1>5
  <2> HIDE DEF b
  <2>2. since[x] \in Int /\ since[b] \in Int /\ checked[x] \in Int /\ checked[b] \in Int
    BY <1>4, <2>1
  <2>3. b \in S
    BY <1>2, <2>1, <2>2
  <2> QED  BY <2>3 DEF b
<1>6. root \in S
  BY <1>2, <1>3
<1>7. Tree(root) \subseteq S
  <2> HIDE DEF S
  <2> QED  BY <1>2, <1>5, <1>6, TreeIsClosed
<1>8. id \in 1 .. n /\ old <= since[id] /\ due <= checked[id]
  BY <1>7
<1>9. /\ since[id] \in Int /\ checked[id] \in Int
      /\ FreshOn(disk, changed, f, since[id], checked[id])
  BY <1>1, <1>4, <1>8 DEF FreshHeap
<1> DEFINE q == RealPath[f.filePath]
<1>10. /\ f \in File
       /\ f.version # 0 => f.filePath \in Paths /\ f.version \in 1 .. Len(disk[q])
       /\ f.filePath \in Paths => /\ DOMAIN disk[q] = 1 .. Len(disk[q])
                                  /\ Len(changed[q]) = Len(disk[q])
                                  /\ changed[q] \in Seq(Nat)
  BY <1>8, VersionFacts
<1>11. f.filePath # NoPath => f.filePath \in Paths
  BY <1>10 DEF File
<1> HIDE DEF f
\* Whatever was there from a later time on was there from an earlier one on.
<1>12. ASSUME NEW v \in 1 .. Len(disk[q]), f.filePath \in Paths, NEW from \in Int,
              NEW before \in Int, before <= from, ThereOn(disk, changed, f.filePath, v, from)
       PROVE  WasThere(f.filePath, v, before)
  <2>1. changed[RealPath[f.filePath]] \in Seq(Nat)
    BY <1>10, <1>12
  <2>2. ThereOn(disk, changed, f.filePath, v, before)
    BY <1>10, <1>12, <2>1, ThereEarlier
  <2> QED  BY <2>2 DEF ThereOn, WasThere
<1>13. f.version # 0 => WasThere(f.filePath, f.version, old)
  BY <1>2, <1>8, <1>9, <1>10, <1>12 DEF FreshOn
<1>14. f.version # 0 /\ ~Raced(f) => WasThere(f.filePath, f.version, due)
  BY <1>2, <1>8, <1>9, <1>10, <1>12 DEF FreshOn
<1>15. ASSUME f.fileNotFound, f.filePath # NoPath
       PROVE  \E v \in DOMAIN disk[q] : disk[q][v] = Absent /\ WasThere(f.filePath, v, old)
  <2>1. PICK v \in DOMAIN disk[q] :
          disk[q][v] = Absent /\ ThereOn(disk, changed, f.filePath, v, since[id])
    BY <1>9, <1>15 DEF FreshOn
  <2>2. WasThere(f.filePath, v, old)
    BY <1>2, <1>8, <1>9, <1>10, <1>11, <1>12, <1>15, <2>1
  <2> QED  BY <2>1, <2>2
<1> QED  BY <1>13, <1>14, <1>15 DEF f, old, due

\* What a lint is told of a file was true when it began, or Expire earlier; or CheckInterval
\* earlier, if the file is there and was not written between being read and being stat-ed:
\* whatever the entries, the files that they refer to and those who write them.
THEOREM AnswersStayFresh == CacheSpec => []AnswersAreFresh
<1>1. CacheInit => CacheInv /\ FreshOK
  <2> SUFFICES ASSUME CacheInit PROVE CacheInv /\ FreshOK
    OBVIOUS
  <2>1. CacheInv /\ files = <<>> /\ cachedConfigs = <<>> /\ request.step = "none"
    BY CacheInitKeeps
  <2>2. PICK since : since = [id \in 1 .. 0 |-> 0]
    OBVIOUS
  <2>3. 1 .. Len(files) = {} /\ DOMAIN cachedConfigs = {}
    BY <2>1
  <2>4. since \in [1 .. Len(files) -> Int]
    BY <2>1, <2>2
  <2>5. FreshHeap(disk, changed, now, files, since, since) /\ FreshEntries(since, since)
    BY <2>1, <2>3, <2>4 DEF FreshHeap, FreshEntries
  <2> QED  BY <2>1, <2>5 DEF FreshOK
<1>2. CacheInv /\ FreshOK /\ [CacheNext]_allVars => CacheInv' /\ FreshOK'
  BY CacheNextKeeps, FreshKeeps
<1>3. CacheInv /\ FreshOK => AnswersAreFresh
  BY AnswersFollow
<1> QED  BY <1>1, <1>2, <1>3, PTL DEF CacheSpec
=============================================================================
