--------------------------- MODULE NodeListsProofs ---------------------------
(***************************************************************************)
(* What the operators of NodeLists return.                                 *)
(***************************************************************************)
EXTENDS NodeLists, Integers, TLAPS, WellFoundedInduction

\* A set of natural numbers that is not empty has a least element: induction,
\* in the form the proofs below use it.
LEMMA LeastNat ==
  ASSUME NEW T, T \subseteq Nat, T # {}
  PROVE  \E x \in T : \A y \in T : x <= y
<1> DEFINE Smaller == OpToRel(<, Nat)
<1>1. IsWellFoundedOn(Smaller, Nat)
  BY NatLessThanWellFounded
<1>2. \A x, y \in Nat : y < x => <<y, x>> \in Smaller
  BY DEF OpToRel
<1> HIDE DEF Smaller
<1>3. PICK x \in T : \A y \in T : ~ (<<y, x>> \in Smaller)
  BY <1>1, WFMin
<1>4. ASSUME NEW y \in T PROVE x <= y
  <2>1. x \in Nat /\ y \in Nat /\ ~ (y < x)
    BY <1>2, <1>3
  <2> QED BY <2>1
<1> QED BY <1>4

-----------------------------------------------------------------------------
\* One step of the recursion of Kept, and what it makes of the first n of s.
KeepOrDrop(t, x, S) == IF x \in S THEN t ELSE Append(t, x)

Computes(g, s, S, n) ==
  /\ g[0] = <<>>
  /\ \A i \in 1..n : g[i] = KeepOrDrop(g[i-1], s[i], S)

\* The recursion of Kept can be carried out along all of s.
LEMMA KeptIsPossible ==
  ASSUME NEW T, NEW s \in Seq(T), NEW S
  PROVE  \E g \in [0..Len(s) -> Seq(T)] : Computes(g, s, S, Len(s))
<1> DEFINE Possible(n) == \E g \in [0..n -> Seq(T)] : Computes(g, s, S, n)
           Bad == {n \in 0..Len(s) : ~ Possible(n)}
<1>1. Bad = {}
  <2> SUFFICES ASSUME Bad # {} PROVE FALSE
    OBVIOUS
  <2>1. PICK n \in Bad : \A m \in Bad : n <= m
    <3>1. Bad \subseteq Nat
      OBVIOUS
    <3> HIDE DEF Bad
    <3> QED BY <3>1, LeastNat
  <2>2. n \in 0..Len(s) /\ ~ Possible(n)
    OBVIOUS
  <2>3. n # 0
    <3>1. [i \in 0..0 |-> <<>>] \in [0..0 -> Seq(T)]
      OBVIOUS
    <3>2. Computes([i \in 0..0 |-> <<>>], s, S, 0)
      BY DEF Computes
    <3> QED BY <2>2, <3>1, <3>2
  <2>4. n \in 1..Len(s) /\ n - 1 \in 0..Len(s)
    BY <2>2, <2>3
  <2>5. Possible(n - 1)
    <3> HIDE DEF Possible
    <3> QED BY <2>1, <2>4
  <2>6. PICK g \in [0..(n-1) -> Seq(T)] : Computes(g, s, S, n - 1)
    BY <2>5
  <2> DEFINE last == KeepOrDrop(g[n-1], s[n], S)
             h == [i \in 0..n |-> IF i = n THEN last ELSE g[i]]
  <2>7. last \in Seq(T)
    BY <2>4 DEF KeepOrDrop
  <2>8. h \in [0..n -> Seq(T)]
    BY <2>4, <2>7
  <2>9. Computes(h, s, S, n)
    <3>1. h[0] = <<>>
      BY <2>4, <2>6 DEF Computes
    <3>2. ASSUME NEW i \in 1..n PROVE h[i] = KeepOrDrop(h[i-1], s[i], S)
      <4>1. i - 1 \in 0..(n-1) /\ h[i-1] = g[i-1]
        BY <2>4
      <4>2. CASE i = n
        BY <2>4, <4>1, <4>2
      <4>3. CASE i # n
        <5>1. i \in 1..(n-1) /\ h[i] = g[i]
          BY <2>4, <4>3
        <5> QED BY <2>6, <4>1, <5>1 DEF Computes
      <4> QED BY <4>2, <4>3
    <3> QED BY <3>1, <3>2 DEF Computes
  <2> QED BY <2>2, <2>8, <2>9
<1>2. Len(s) \in 0..Len(s)
  OBVIOUS
<1>3. Possible(Len(s))
  <2> HIDE DEF Possible
  <2> QED BY <1>1, <1>2
<1> QED BY <1>3

\* So Kept is a function that satisfies its definition.
LEMMA KeptRecursion ==
  ASSUME NEW T, NEW s \in Seq(T), NEW S
  PROVE  /\ DOMAIN Kept(s, S) = 0..Len(s)
         /\ Kept(s, S) = [i \in 0..Len(s) |-> Kept(s, S)[i]]
         /\ Computes(Kept(s, S), s, S, Len(s))
<1> DEFINE F(g) == [i \in 0..Len(s) |-> IF i = 0 THEN <<>>
                      ELSE IF s[i] \in S THEN g[i-1] ELSE Append(g[i-1], s[i])]
<1>1. PICK g \in [0..Len(s) -> Seq(T)] : Computes(g, s, S, Len(s))
  BY KeptIsPossible
<1>2. g = F(g)
  <2>1. g[0] = <<>>
    BY <1>1 DEF Computes
  <2>2. \A i \in 1..Len(s) : g[i] = IF s[i] \in S THEN g[i-1] ELSE Append(g[i-1], s[i])
    BY <1>1 DEF Computes, KeepOrDrop
  <2>3. \A i \in 0..Len(s) : i = 0 \/ i \in 1..Len(s)
    OBVIOUS
  <2>4. g = [i \in 0..Len(s) |-> g[i]]
    OBVIOUS
  <2> QED BY <2>1, <2>2, <2>3, <2>4
<1>3. Kept(s, S) = F(Kept(s, S))
  <2>1. Kept(s, S) = CHOOSE f : f = F(f)
    BY DEF Kept
  <2> HIDE DEF F
  <2> QED BY <1>2, <2>1
<1> DEFINE f == Kept(s, S)
<1> HIDE DEF f
<1>4. f = F(f)
  BY <1>3 DEF f
<1>5. DOMAIN f = 0..Len(s) /\ f = [i \in 0..Len(s) |-> f[i]]
  BY <1>4
<1>6. Computes(f, s, S, Len(s))
  <2>0. Len(s) \in Nat
    OBVIOUS
  <2>1. \A i \in 0..Len(s) : f[i] = F(f)[i]
    BY <1>4
  <2>2. f[0] = <<>>
    BY <2>0, <2>1
  <2>3. ASSUME NEW i \in 1..Len(s) PROVE f[i] = KeepOrDrop(f[i-1], s[i], S)
    BY <2>0, <2>1 DEF KeepOrDrop
  <2> QED BY <2>2, <2>3 DEF Computes
<1> QED BY <1>5, <1>6 DEF f

-----------------------------------------------------------------------------
\* What is left of every prefix, and so of the list, is a list of its elements.
LEMMA KeptType ==
  ASSUME NEW T, NEW s \in Seq(T), NEW S
  PROVE  Kept(s, S) \in [0..Len(s) -> Seq(T)]
<1> DEFINE f == Kept(s, S)
           Bad == {n \in 0..Len(s) : f[n] \notin Seq(T)}
<1>1. Computes(f, s, S, Len(s)) /\ Len(s) \in Nat
  BY KeptRecursion
<1> HIDE DEF f
<1>2. Bad = {}
  <2> SUFFICES ASSUME Bad # {} PROVE FALSE
    OBVIOUS
  <2>1. PICK n \in Bad : \A m \in Bad : n <= m
    <3>1. Bad \subseteq Nat
      OBVIOUS
    <3> HIDE DEF Bad
    <3> QED BY <3>1, LeastNat
  <2>2. n # 0
    <3>1. f[0] = <<>> /\ <<>> \in Seq(T)
      BY <1>1 DEF Computes
    <3>2. f[n] \notin Seq(T)
      OBVIOUS
    <3> QED BY <3>1, <3>2
  <2>3. n \in 1..Len(s) /\ n - 1 \in 0..Len(s) /\ n - 1 \notin Bad
    BY <1>1, <2>1, <2>2
  <2>4. f[n-1] \in Seq(T) /\ s[n] \in T
    BY <2>3
  <2>5. f[n] = KeepOrDrop(f[n-1], s[n], S)
    BY <1>1, <2>3 DEF Computes
  <2>6. f[n] \in Seq(T)
    BY <2>4, <2>5 DEF KeepOrDrop
  <2> QED BY <2>6
<1>3. f = [i \in 0..Len(s) |-> f[i]]
  BY KeptRecursion DEF f
<1>4. \A i \in 0..Len(s) : f[i] \in Seq(T)
  BY <1>2
<1>5. f \in [0..Len(s) -> Seq(T)]
  BY <1>3, <1>4
<1> QED BY <1>5 DEF f

\* So what is left is a list of them.
LEMMA WithoutType ==
  ASSUME NEW T, NEW s \in Seq(T), NEW S
  PROVE  Without(s, S) \in Seq(T)
<1>1. Kept(s, S) \in [0..Len(s) -> Seq(T)] /\ Len(s) \in 0..Len(s)
  BY KeptType
<1> QED BY <1>1 DEF Without

\* Appending adds the element and loses none.
LEMMA AppendElements ==
  ASSUME NEW T, NEW s \in Seq(T), NEW x \in T
  PROVE  Elements(Append(s, x)) = Elements(s) \cup {x}
<1>1. Append(s, x) \in Seq(T) /\ Len(Append(s, x)) = Len(s) + 1
  OBVIOUS
<1>2. \A i \in 1..Len(s) : Append(s, x)[i] = s[i]
  OBVIOUS
<1>3. Append(s, x)[Len(s) + 1] = x
  OBVIOUS
<1>4. 1..(Len(s) + 1) = 1..Len(s) \cup {Len(s) + 1}
  OBVIOUS
<1> QED BY <1>1, <1>2, <1>3, <1>4 DEF Elements

\* No element is lost but those that are removed.
LEMMA WithoutKeeps ==
  ASSUME NEW T, NEW s \in Seq(T), NEW S, NEW x \in Elements(s), x \notin S
  PROVE  x \in Elements(Without(s, S))
<1> DEFINE f == Kept(s, S)
           Bad == {n \in 0..Len(s) : \E j \in 1..n : s[j] = x /\ x \notin Elements(f[n])}
<1>1. Computes(f, s, S, Len(s)) /\ Len(s) \in Nat /\ f \in [0..Len(s) -> Seq(T)]
  BY KeptRecursion, KeptType
<1> HIDE DEF f
<1>2. Bad = {}
  <2> SUFFICES ASSUME Bad # {} PROVE FALSE
    OBVIOUS
  <2>1. PICK n \in Bad : \A m \in Bad : n <= m
    <3>1. Bad \subseteq Nat
      OBVIOUS
    <3> HIDE DEF Bad
    <3> QED BY <3>1, LeastNat
  <2>2. n \in 1..Len(s) /\ n - 1 \in 0..Len(s) /\ n - 1 \notin Bad
    <3>1. n \in 0..Len(s) /\ n # 0
      BY <2>1
    <3>2. n - 1 \in 0..Len(s) /\ n \in 1..Len(s) /\ ~(n <= n - 1)
      BY <1>1, <3>1
    <3> HIDE DEF Bad
    <3> QED BY <2>1, <3>2
  <2>3. PICK i \in 1..n : s[i] = x /\ x \notin Elements(f[n])
    BY <2>1
  <2>4. f[n] = KeepOrDrop(f[n-1], s[n], S)
    BY <1>1, <2>2 DEF Computes
  <2>5. f[n-1] \in Seq(T) /\ s[n] \in T
    <3>1. \A j \in 0..Len(s) : f[j] \in Seq(T)
      BY <1>1
    <3> QED BY <2>2, <3>1
  <2>6. CASE i = n
    <3>1. f[n] = Append(f[n-1], x)
      BY <2>3, <2>4, <2>6 DEF KeepOrDrop
    <3>2. x \in T
      BY <2>3, <2>5, <2>6
    <3>3. x \in Elements(f[n])
      BY <2>5, <3>1, <3>2, AppendElements
    <3> QED BY <2>3, <3>3
  <2>7. CASE i # n
    <3>1. i \in 1..(n-1) /\ x \in Elements(f[n-1])
      BY <2>2, <2>3, <2>7
    <3>2. Elements(f[n-1]) \subseteq Elements(f[n])
      BY <2>4, <2>5, AppendElements DEF KeepOrDrop
    <3> QED BY <2>3, <3>1, <3>2
  <2> QED BY <2>6, <2>7
<1>3. \E j \in 1..Len(s) : s[j] = x
  BY DEF Elements
<1>4. x \in Elements(f[Len(s)])
  BY <1>1, <1>2, <1>3
<1> QED BY <1>4 DEF f, Without

\* What is left of a list has none of the elements that are removed and no other
\* than the list had, and it has each as often.
LEMMA WithoutOnly ==
  ASSUME NEW T, NEW s \in Seq(T), NEW S
  PROVE  /\ Elements(Without(s, S)) \subseteq Elements(s) \ S
         /\ NoRepeats(s) => NoRepeats(Without(s, S))
<1> DEFINE f == Kept(s, S)
           First(n) == {s[j] : j \in 1..n}
           Fine(n) == /\ Elements(f[n]) \subseteq First(n) \ S
                      /\ NoRepeats(s) => NoRepeats(f[n])
           Bad == {n \in 0..Len(s) : ~ Fine(n)}
<1>1. Computes(f, s, S, Len(s)) /\ Len(s) \in Nat /\ f \in [0..Len(s) -> Seq(T)]
  BY KeptRecursion, KeptType
<1> HIDE DEF f
<1>2. Bad = {}
  <2> SUFFICES ASSUME Bad # {} PROVE FALSE
    OBVIOUS
  <2>1. PICK n \in Bad : \A m \in Bad : n <= m
    <3>1. Bad \subseteq Nat
      OBVIOUS
    <3> HIDE DEF Bad
    <3> QED BY <3>1, LeastNat
  <2>2. n \in 0..Len(s) /\ ~ Fine(n)
    BY <2>1
  <2>3. n # 0
    <3>1. f[0] = <<>>
      BY <1>1 DEF Computes
    <3>2. Fine(0)
      BY <3>1 DEF Elements, NoRepeats
    <3> QED BY <2>2, <3>2
  <2>4. n \in 1..Len(s) /\ n - 1 \in 0..Len(s) /\ ~ (n <= n - 1)
    BY <1>1, <2>2, <2>3
  <2>5. Fine(n - 1)
    <3> HIDE DEF Fine
    <3> QED BY <2>1, <2>4
  <2>6. f[n] = KeepOrDrop(f[n-1], s[n], S) /\ f[n-1] \in Seq(T) /\ s[n] \in T
    <3>1. \A j \in 0..Len(s) : f[j] \in Seq(T)
      BY <1>1
    <3> QED BY <1>1, <2>4, <3>1 DEF Computes
  <2>7. First(n) = First(n - 1) \cup {s[n]}
    <3>1. 1..n = 1..(n - 1) \cup {n}
      BY <2>4
    <3> QED BY <3>1
  <2>8. CASE s[n] \in S
    BY <2>2, <2>5, <2>6, <2>7, <2>8 DEF KeepOrDrop
  <2>9. CASE s[n] \notin S
    <3>1. f[n] = Append(f[n-1], s[n]) /\ Elements(f[n]) = Elements(f[n-1]) \cup {s[n]}
      BY <2>6, <2>9, AppendElements DEF KeepOrDrop
    <3>2. Elements(f[n]) \subseteq First(n) \ S
      BY <2>5, <2>7, <2>9, <3>1
    <3>3. ASSUME NoRepeats(s) PROVE NoRepeats(f[n])
      <4>1. s[n] \notin First(n - 1)
        BY <2>4, <3>3 DEF NoRepeats
      <4>2. NoRepeats(f[n-1]) /\ s[n] \notin Elements(f[n-1])
        BY <2>5, <3>3, <4>1
      <4> HIDE DEF Fine, First
      <4> QED BY <2>6, <3>1, <4>2 DEF NoRepeats, Elements
    <3> QED BY <2>2, <3>2, <3>3
  <2> QED BY <2>8, <2>9
<1>3. Fine(Len(s))
  <2> HIDE DEF Fine
  <2> QED BY <1>1, <1>2
<1>4. First(Len(s)) = Elements(s)
  BY DEF Elements
<1> QED BY <1>3, <1>4 DEF f, Without

\* So the elements are exactly the others,
LEMMA WithoutElements ==
  ASSUME NEW T, NEW s \in Seq(T), NEW S
  PROVE  Elements(Without(s, S)) = Elements(s) \ S
BY WithoutOnly, WithoutKeeps

\* and a list without any of those that are removed is left as it is.
LEMMA WithoutNone ==
  ASSUME NEW T, NEW s \in Seq(T), NEW S, Elements(s) \cap S = {}
  PROVE  Without(s, S) = s
<1> DEFINE f == Kept(s, S)
           Fine(n) == f[n] = SubSeq(s, 1, n)
           Bad == {n \in 0..Len(s) : ~ Fine(n)}
<1>1. Computes(f, s, S, Len(s)) /\ Len(s) \in Nat
  BY KeptRecursion
<1> HIDE DEF f
<1>2. Bad = {}
  <2> SUFFICES ASSUME Bad # {} PROVE FALSE
    OBVIOUS
  <2>1. PICK n \in Bad : \A m \in Bad : n <= m
    <3>1. Bad \subseteq Nat
      OBVIOUS
    <3> HIDE DEF Bad
    <3> QED BY <3>1, LeastNat
  <2>2. n \in 0..Len(s) /\ ~ Fine(n)
    BY <2>1
  <2>3. n # 0
    <3>1. f[0] = <<>> /\ SubSeq(s, 1, 0) = <<>>
      BY <1>1 DEF Computes
    <3> QED BY <2>2, <3>1
  <2>4. n \in 1..Len(s) /\ n - 1 \in 0..Len(s) /\ ~ (n <= n - 1)
    BY <1>1, <2>2, <2>3
  <2>5. Fine(n - 1)
    <3> HIDE DEF Fine
    <3> QED BY <2>1, <2>4
  <2>6. f[n] = Append(f[n-1], s[n])
    <3>1. s[n] \notin S
      BY <2>4 DEF Elements
    <3> QED BY <1>1, <2>4, <3>1 DEF Computes, KeepOrDrop
  <2>7. Append(SubSeq(s, 1, n - 1), s[n]) = SubSeq(s, 1, n)
    BY <2>4
  <2> QED BY <2>2, <2>5, <2>6, <2>7
<1>3. Fine(Len(s))
  <2> HIDE DEF Fine
  <2> QED BY <1>1, <1>2
<1>4. SubSeq(s, 1, Len(s)) = s
  OBVIOUS
<1> QED BY <1>3, <1>4 DEF f, Without

\* What is in a list once is in what is left of it at most once.
LEMMA WithoutOnce ==
  ASSUME NEW T, NEW s \in Seq(T), NEW S, NEW U, Once(s, U)
  PROVE  Once(Without(s, S), U)
<1> DEFINE f == Kept(s, S)
           First(n) == {s[j] : j \in 1..n}
           Fine(n) == Elements(f[n]) \subseteq First(n) /\ Once(f[n], U)
           Bad == {n \in 0..Len(s) : ~ Fine(n)}
<1>1. Computes(f, s, S, Len(s)) /\ Len(s) \in Nat /\ f \in [0..Len(s) -> Seq(T)]
  BY KeptRecursion, KeptType
<1> HIDE DEF f
<1>2. Bad = {}
  <2> SUFFICES ASSUME Bad # {} PROVE FALSE
    OBVIOUS
  <2>1. PICK n \in Bad : \A m \in Bad : n <= m
    <3>1. Bad \subseteq Nat
      OBVIOUS
    <3> HIDE DEF Bad
    <3> QED BY <3>1, LeastNat
  <2>2. n \in 0..Len(s) /\ ~ Fine(n)
    BY <2>1
  <2>3. n # 0
    <3>1. f[0] = <<>>
      BY <1>1 DEF Computes
    <3>2. Fine(0)
      BY <3>1 DEF Elements, Once
    <3> QED BY <2>2, <3>2
  <2>4. n \in 1..Len(s) /\ n - 1 \in 0..Len(s) /\ ~ (n <= n - 1)
    BY <1>1, <2>2, <2>3
  <2>5. Fine(n - 1)
    <3> HIDE DEF Fine
    <3> QED BY <2>1, <2>4
  <2>6. f[n] = KeepOrDrop(f[n-1], s[n], S) /\ f[n-1] \in Seq(T) /\ s[n] \in T
    <3>1. \A j \in 0..Len(s) : f[j] \in Seq(T)
      BY <1>1
    <3> QED BY <1>1, <2>4, <3>1 DEF Computes
  <2>7. First(n) = First(n - 1) \cup {s[n]}
    <3>1. 1..n = 1..(n - 1) \cup {n}
      BY <2>4
    <3> QED BY <3>1
  <2>8. CASE s[n] \in S
    BY <2>2, <2>5, <2>6, <2>7, <2>8 DEF KeepOrDrop
  <2>9. CASE s[n] \notin S
    <3>1. f[n] = Append(f[n-1], s[n]) /\ Elements(f[n]) = Elements(f[n-1]) \cup {s[n]}
      BY <2>6, <2>9, AppendElements DEF KeepOrDrop
    <3>2. s[n] \in U => s[n] \notin First(n - 1)
      BY <2>4 DEF Once
    <3>3. s[n] \in U => s[n] \notin Elements(f[n-1])
      BY <2>5, <3>2
    <3>4. Once(f[n-1], U)
      BY <2>5
    <3>5. Once(f[n], U)
      <4> HIDE DEF Fine, First
      <4> QED BY <2>6, <3>1, <3>3, <3>4 DEF Once, Elements
    <3> QED BY <2>2, <2>5, <2>7, <3>1, <3>5
  <2> QED BY <2>8, <2>9
<1>3. Fine(Len(s))
  <2> HIDE DEF Fine
  <2> QED BY <1>1, <1>2
<1> QED BY <1>3 DEF f, Without

\* The same of a list with a node more,
LEMMA AppendOnce ==
  ASSUME NEW T, NEW s \in Seq(T), NEW x \in T, NEW U, Once(s, U), x \in U => x \notin Elements(s)
  PROVE  Once(Append(s, x), U)
BY DEF Once, Elements

\* and of one without its head, which is then gone.
LEMMA TailOnce ==
  ASSUME NEW T, NEW s \in Seq(T), s # <<>>, NEW U, Once(s, U)
  PROVE  Once(Tail(s), U) /\ (Head(s) \in U => Head(s) \notin Elements(Tail(s)))
<1>1. Len(s) \in Nat \ {0} /\ Head(s) = s[1] /\ s[1] \in T
  OBVIOUS
<1>2. Len(Tail(s)) = Len(s) - 1 /\ \A i \in 1..(Len(s) - 1) : Tail(s)[i] = s[i + 1]
  OBVIOUS
<1>3. \A i \in 1..(Len(s) - 1) : i + 1 \in 1..Len(s) /\ i + 1 # 1
  BY <1>1
<1>4. 1 \in 1..Len(s) /\ \A i, j \in 1..(Len(s) - 1) : i + 1 = j + 1 => i = j
  BY <1>1
<1>5. Once(Tail(s), U)
  BY <1>2, <1>3, <1>4 DEF Once
<1>6. Head(s) \in U => Head(s) \notin Elements(Tail(s))
  BY <1>1, <1>2, <1>3, <1>4 DEF Once, Elements
<1> QED BY <1>5, <1>6

\* A list that an element is appended to that it does not have.
LEMMA AppendNoRepeats ==
  ASSUME NEW T, NEW s \in Seq(T), NEW x \in T, NoRepeats(s), x \notin Elements(s)
  PROVE  NoRepeats(Append(s, x))
BY DEF NoRepeats, Elements

\* Taking the first node off a list.
LEMMA TailElements ==
  ASSUME NEW T, NEW s \in Seq(T), s # <<>>
  PROVE  /\ Head(s) \in T /\ Head(s) \in Elements(s) /\ Tail(s) \in Seq(T)
         /\ Elements(s) = Elements(Tail(s)) \cup {Head(s)}
         /\ NoRepeats(s) => NoRepeats(Tail(s)) /\ Head(s) \notin Elements(Tail(s))
<1>1. Len(s) \in Nat \ {0} /\ Head(s) = s[1] /\ s[1] \in T
  OBVIOUS
<1>2. Len(Tail(s)) = Len(s) - 1 /\ \A i \in 1..(Len(s) - 1) : Tail(s)[i] = s[i + 1]
  OBVIOUS
<1>3. Elements(Tail(s)) = {s[i + 1] : i \in 1..(Len(s) - 1)}
  BY <1>2 DEF Elements
<1>4. Elements(s) = Elements(Tail(s)) \cup {Head(s)}
  <2>1. \A i \in 1..Len(s) : i = 1 \/ (i - 1 \in 1..(Len(s) - 1) /\ (i - 1) + 1 = i)
    BY <1>1
  <2>2. \A i \in 1..(Len(s) - 1) : i + 1 \in 1..Len(s)
    BY <1>1
  <2>3. 1 \in 1..Len(s)
    BY <1>1
  <2> QED BY <1>1, <1>3, <2>1, <2>2, <2>3 DEF Elements
<1>5. ASSUME NoRepeats(s) PROVE NoRepeats(Tail(s)) /\ Head(s) \notin Elements(Tail(s))
  <2>1. \A i \in 1..(Len(s) - 1) : i + 1 \in 1..Len(s) /\ i + 1 # 1
    BY <1>1
  <2>2. 1 \in 1..Len(s)
    BY <1>1
  <2>3. Head(s) \notin Elements(Tail(s))
    BY <1>1, <1>3, <1>5, <2>1, <2>2 DEF NoRepeats
  <2>4. \A i, j \in 1..(Len(s) - 1) : i + 1 = j + 1 => i = j
    BY <1>1
  <2> QED BY <1>2, <1>5, <2>1, <2>3, <2>4 DEF NoRepeats
<1>6. Tail(s) \in Seq(T) /\ Head(s) \in Elements(s)
  BY <1>1, <1>4
<1> QED BY <1>1, <1>4, <1>5, <1>6

\* The other list operators on a list of nodes.
LEMMA ElementsType ==
  ASSUME NEW T, NEW s \in Seq(T)
  PROVE  Elements(s) \subseteq T
BY DEF Elements

\* A list reversed is a list of the same nodes,
LEMMA ReversedType ==
  ASSUME NEW T, NEW s \in Seq(T)
  PROVE  Reversed(s) \in Seq(T)
<1>1. \A i \in 1..Len(s) : Len(s) - i + 1 \in 1..Len(s)
  OBVIOUS
<1> QED BY <1>1 DEF Reversed

\* and so is a list without its last node.
LEMMA FrontType ==
  ASSUME NEW T, NEW s \in Seq(T), s # <<>>
  PROVE  Front(s) \in Seq(T)
BY DEF Front

\* the others are where they were.
LEMMA FrontParts ==
  ASSUME NEW T, NEW s \in Seq(T), s # <<>>
  PROVE  /\ Front(s) \in Seq(T) /\ Len(Front(s)) = Len(s) - 1 /\ Len(s) \in Nat \ {0}
         /\ DOMAIN Front(s) = 1..(Len(s) - 1) /\ DOMAIN s = 1..Len(s)
         /\ \A i \in 1..(Len(s) - 1) : Front(s)[i] = s[i]
<1>1. Len(s) \in Nat \ {0} /\ DOMAIN s = 1..Len(s)
  OBVIOUS
<1>2. Front(s) \in Seq(T) /\ Len(Front(s)) = Len(s) - 1
  BY <1>1 DEF Front
<1>3. \A i \in 1..(Len(s) - 1) : Front(s)[i] = s[i]
  BY <1>1 DEF Front
<1>4. DOMAIN Front(s) = 1..(Len(s) - 1)
  BY <1>2
<1> QED BY <1>1, <1>2, <1>3, <1>4

\* So nodes in a list once are in it at most once without its last node.
LEMMA FrontOnce ==
  ASSUME NEW T, NEW s \in Seq(T), s # <<>>, NEW U, Once(s, U)
  PROVE  /\ Once(Front(s), U) /\ (Last(s) \in U => Last(s) \notin Elements(Front(s)))
         /\ Elements(s) = Elements(Front(s)) \cup {Last(s)}
<1>1. /\ Front(s) \in Seq(T) /\ Len(Front(s)) = Len(s) - 1 /\ Len(s) \in Nat \ {0}
      /\ \A i \in 1..(Len(s) - 1) : Front(s)[i] = s[i]
  BY FrontParts
<1>2. Len(s) \in 1..Len(s) /\ \A i \in 1..(Len(s) - 1) : i \in 1..Len(s) /\ i # Len(s)
  BY <1>1
<1>3. \A i \in 1..Len(s) : i = Len(s) \/ i \in 1..(Len(s) - 1)
  BY <1>1
<1>4. Once(Front(s), U)
  BY <1>1, <1>2 DEF Once
<1>5. Last(s) \in U => Last(s) \notin Elements(Front(s))
  BY <1>1, <1>2 DEF Once, Elements, Last
<1>6. Elements(Front(s)) = {s[i] : i \in 1..(Len(s) - 1)}
  BY <1>1 DEF Elements
<1>7. Elements(s) = Elements(Front(s)) \cup {Last(s)}
  BY <1>2, <1>3, <1>6 DEF Elements, Last
<1> QED BY <1>4, <1>5, <1>7

\* The last one replaced by another.
LEMMA LastReplaced ==
  ASSUME NEW T, NEW s \in Seq(T), s # <<>>, NEW x \in T
  PROVE  LET t == Append(Front(s), x)
         IN  /\ t \in Seq(T) /\ Len(t) = Len(s) /\ DOMAIN t = DOMAIN s
             /\ Len(s) \in DOMAIN s /\ t[Len(s)] = x
             /\ \A i \in DOMAIN s : i # Len(s) => t[i] = s[i]
<1>1. /\ Front(s) \in Seq(T) /\ Len(Front(s)) = Len(s) - 1 /\ Len(s) \in Nat \ {0}
      /\ \A i \in 1..(Len(s) - 1) : Front(s)[i] = s[i]
  BY FrontParts
<1> DEFINE r == Front(s)
<1> HIDE DEF r
<1>2. LET t == Append(r, x)
      IN  t \in Seq(T) /\ Len(t) = Len(r) + 1 /\ t[Len(r) + 1] = x /\ \A i \in 1..Len(r) : t[i] = r[i]
  BY <1>1 DEF r
<1>3. DOMAIN s = 1..Len(s) /\ DOMAIN Append(r, x) = 1..(Len(r) + 1)
  BY <1>2
<1> QED BY <1>1, <1>2, <1>3 DEF r

\* Joined lists hold the nodes of both.
LEMMA ConcatElements ==
  ASSUME NEW T, NEW s \in Seq(T), NEW t \in Seq(T)
  PROVE  s \o t \in Seq(T) /\ Elements(s \o t) = Elements(s) \cup Elements(t)
<1>1. s \o t \in Seq(T) /\ Len(s \o t) = Len(s) + Len(t)
  OBVIOUS
<1>2. \A i \in 1..Len(s) : (s \o t)[i] = s[i]
  OBVIOUS
<1>3. \A i \in 1..Len(t) : (s \o t)[Len(s) + i] = t[i]
  OBVIOUS
<1>4. \A i \in 1..(Len(s) + Len(t)) : i \in 1..Len(s) \/ i - Len(s) \in 1..Len(t)
  OBVIOUS
<1>5. \A i \in 1..Len(s) : i \in 1..(Len(s) + Len(t))
  OBVIOUS
<1>6. \A i \in 1..Len(t) : Len(s) + i \in 1..(Len(s) + Len(t))
  OBVIOUS
<1>7. Elements(s) \cup Elements(t) \subseteq Elements(s \o t)
  BY <1>1, <1>2, <1>3, <1>5, <1>6 DEF Elements
<1>8. ASSUME NEW i \in 1..(Len(s) + Len(t)) PROVE (s \o t)[i] \in Elements(s) \cup Elements(t)
  <2>1. CASE i \in 1..Len(s)
    BY <1>2, <2>1 DEF Elements
  <2>2. CASE i - Len(s) \in 1..Len(t)
    <3>1. (s \o t)[i] = t[i - Len(s)]
      BY <2>2
    <3> QED BY <2>2, <3>1 DEF Elements
  <2> QED BY <1>4, <2>1, <2>2
<1>9. Elements(s \o t) \subseteq Elements(s) \cup Elements(t)
  BY <1>1, <1>8 DEF Elements
<1> QED BY <1>1, <1>7, <1>9

\* Reversing a list loses no node.
LEMMA ReversedElements ==
  ASSUME NEW T, NEW s \in Seq(T)
  PROVE  Elements(s) \subseteq Elements(Reversed(s))
<1>1. Len(Reversed(s)) = Len(s)
  BY DEF Reversed
<1>2. ASSUME NEW i \in 1..Len(s) PROVE s[i] \in Elements(Reversed(s))
  <2>1. Len(s) - i + 1 \in 1..Len(s) /\ Len(s) - (Len(s) - i + 1) + 1 = i
    OBVIOUS
  <2>2. Reversed(s)[Len(s) - i + 1] = s[i]
    BY <2>1 DEF Reversed
  <2> QED BY <1>1, <2>1, <2>2 DEF Elements
<1> QED BY <1>2 DEF Elements

\* It has the same nodes then.
LEMMA ReversedSame ==
  ASSUME NEW T, NEW s \in Seq(T)
  PROVE  Elements(Reversed(s)) = Elements(s)
<1>1. Len(Reversed(s)) = Len(s) /\ \A i \in 1..Len(s) : Len(s) - i + 1 \in 1..Len(s)
  BY DEF Reversed
<1>2. \A i \in 1..Len(s) : Reversed(s)[i] = s[Len(s) - i + 1]
  BY DEF Reversed
<1>3. Elements(Reversed(s)) \subseteq Elements(s)
  BY <1>1, <1>2 DEF Elements
<1> QED BY <1>3, ReversedElements

\* A list is a list of any set that has all its nodes,
LEMMA SeqOf ==
  ASSUME NEW T, NEW s \in Seq(T), NEW U, \A i \in 1..Len(s) : s[i] \in U
  PROVE  s \in Seq(U)
OBVIOUS

\* so of any larger set.
LEMMA SeqSubset ==
  ASSUME NEW T, NEW U, T \subseteq U, NEW s \in Seq(T)
  PROVE  s \in Seq(U)
<1>1. \A i \in 1..Len(s) : s[i] \in U
  OBVIOUS
<1> QED BY <1>1, SeqOf

\* Popping a node loses no other.
LEMMA FrontKeeps ==
  ASSUME NEW T, NEW s \in Seq(T), NEW x \in Elements(s), x # Last(s)
  PROVE  x \in Elements(Front(s))
<1>1. PICK i \in 1..Len(s) : s[i] = x
  BY DEF Elements
<1>2. i \in 1..(Len(s) - 1)
  BY <1>1 DEF Last
<1>3. Len(Front(s)) = Len(s) - 1 /\ \A j \in 1..(Len(s) - 1) : Front(s)[j] = s[j]
  BY <1>2 DEF Front
<1> QED BY <1>1, <1>2, <1>3 DEF Elements

\* The top of a stack is one of its nodes.
LEMMA LastType ==
  ASSUME NEW T, NEW s \in Seq(T), s # <<>>
  PROVE  Last(s) \in T /\ Last(s) \in Elements(s)
BY DEF Last, Elements

\* The first occurrences of s are its elements, each once.
LEMMA FirstsParts ==
  ASSUME NEW T, NEW s \in Seq(T)
  PROVE  Firsts(s) \in Seq(T) /\ Elements(Firsts(s)) = Elements(s) /\ NoRepeats(Firsts(s))
<1> DEFINE I == 1..Len(s)
           again == {i \in I : \E j \in I : j < i /\ s[j] = s[i]}
           all == [i \in I |-> i]
           first == Without(all, again)
           f == [j \in 1..Len(first) |-> s[first[j]]]
<1>1. Len(s) \in Nat /\ all \in Seq(I) /\ Len(all) = Len(s) /\ \A i \in I : all[i] = i /\ s[i] \in T
  OBVIOUS
<1>2. Elements(all) = I /\ NoRepeats(all)
  BY <1>1 DEF Elements, NoRepeats
<1>3. first \in Seq(I) /\ Elements(first) = I \ again /\ NoRepeats(first)
  <2> HIDE DEF I, again, all
  <2> QED BY <1>1, <1>2, WithoutType, WithoutElements, WithoutOnly
<1>4. Firsts(s) = f
  BY DEF Firsts
<1> HIDE DEF first, all
<1>5. Len(first) \in Nat /\ \A j \in 1..Len(first) : first[j] \in I /\ first[j] \in Elements(first)
  BY <1>3 DEF Elements
<1>6. f \in Seq(T) /\ Len(f) = Len(first) /\ \A j \in 1..Len(first) : f[j] = s[first[j]]
  BY <1>1, <1>5
<1> HIDE DEF f
<1>7. ASSUME NEW i \in 1..Len(f), NEW j \in 1..Len(f), f[i] = f[j]
      PROVE  i = j
  <2>1. s[first[i]] = s[first[j]] /\ first[i] \in I \ again /\ first[j] \in I \ again
    BY <1>3, <1>5, <1>6, <1>7
  <2>2. ~ (first[i] < first[j]) /\ ~ (first[j] < first[i])
    BY <2>1
  <2>3. first[i] = first[j]
    BY <2>1, <2>2
  <2> QED BY <1>3, <1>6, <2>3 DEF NoRepeats
<1>8. Elements(f) \subseteq Elements(s)
  <2>1. ASSUME NEW j \in 1..Len(f) PROVE f[j] \in Elements(s)
    <3>1. first[j] \in I /\ f[j] = s[first[j]]
      BY <1>5, <1>6
    <3> QED BY <3>1 DEF Elements
  <2> QED BY <2>1 DEF Elements
<1>9. ASSUME NEW x \in Elements(s) PROVE x \in Elements(f)
  <2> DEFINE X == {i \in I : s[i] = x}
  <2>1. X \subseteq Nat /\ X # {}
    BY <1>9 DEF Elements
  <2>2. PICK i \in X : \A j \in X : i <= j
    BY <2>1, LeastNat
  <2>3. i \in I \ again
    BY <1>1, <2>2
  <2>4. PICK j \in 1..Len(first) : first[j] = i
    BY <1>3, <2>3 DEF Elements
  <2> QED BY <1>6, <2>2, <2>4 DEF Elements
<1> QED BY <1>4, <1>6, <1>7, <1>8, <1>9 DEF NoRepeats

\* The last element stays last if it stays.
LEMMA WithoutLast ==
  ASSUME NEW T, NEW s \in Seq(T), NEW S, s # <<>>, Last(s) \notin S
  PROVE  Without(s, S) # <<>> /\ Last(Without(s, S)) = Last(s)
<1> DEFINE f == Kept(s, S)
<1>1. Len(s) \in Nat \ {0}
  OBVIOUS
<1>2. f \in [0..Len(s) -> Seq(T)] /\ Computes(f, s, S, Len(s))
  BY KeptType, KeptRecursion
<1> HIDE DEF f
<1>3. Len(s) \in 1..Len(s) /\ Len(s) - 1 \in 0..Len(s) /\ s[Len(s)] \in T
  BY <1>1
<1>4. f[Len(s)] = Append(f[Len(s) - 1], Last(s)) /\ f[Len(s) - 1] \in Seq(T)
  BY <1>2, <1>3 DEF Computes, KeepOrDrop, Last
<1> QED BY <1>3, <1>4 DEF f, Without, Last

\* A list without repeats has none when it is reversed,
LEMMA ReversedNoRepeats ==
  ASSUME NEW T, NEW s \in Seq(T), NoRepeats(s)
  PROVE  NoRepeats(Reversed(s))
<1>1. Len(Reversed(s)) = Len(s) /\ Len(s) \in Nat
  BY DEF Reversed
<1>2. ASSUME NEW i \in 1..Len(s), NEW j \in 1..Len(s), Reversed(s)[i] = Reversed(s)[j] PROVE i = j
  <2>1. Len(s) - i + 1 \in 1..Len(s) /\ Len(s) - j + 1 \in 1..Len(s)
    BY <1>1
  <2>2. s[Len(s) - i + 1] = s[Len(s) - j + 1]
    BY <1>2 DEF Reversed
  <2>3. Len(s) - i + 1 = Len(s) - j + 1
    BY <2>1, <2>2 DEF NoRepeats
  <2> QED BY <1>1, <2>3
<1> QED BY <1>1, <1>2 DEF NoRepeats

\* and none when a list of others follows it.
LEMMA ConcatNoRepeats ==
  ASSUME NEW T, NEW s \in Seq(T), NEW t \in Seq(T), NoRepeats(s), NoRepeats(t),
         Elements(s) \cap Elements(t) = {}
  PROVE  NoRepeats(s \o t)
<1> DEFINE a == Len(s)
           b == Len(t)
           u == s \o t
<1>1. a \in Nat /\ b \in Nat /\ Len(u) = a + b
  OBVIOUS
<1>2. /\ \A i \in 1..a : u[i] = s[i] /\ s[i] \in Elements(s)
      /\ \A i \in (a + 1)..(a + b) : u[i] = t[i - a] /\ t[i - a] \in Elements(t) /\ i - a \in 1..b
  <2>1. \A i \in 1..a : u[i] = s[i] /\ s[i] \in Elements(s)
    BY <1>1 DEF Elements
  <2>2. \A i \in (a + 1)..(a + b) : u[i] = t[i - a] /\ i - a \in 1..b
    BY <1>1
  <2> QED BY <2>1, <2>2 DEF Elements
<1>3. (\A i, j \in 1..a : s[i] = s[j] => i = j) /\ (\A i, j \in 1..b : t[i] = t[j] => i = j)
  BY DEF NoRepeats
<1> HIDE DEF a, b, u
<1>4. ASSUME NEW i \in 1..(a + b), NEW j \in 1..(a + b), u[i] = u[j] PROVE i = j
  <2>1. i \in 1..a \/ i \in (a + 1)..(a + b)
    BY <1>1
  <2>2. j \in 1..a \/ j \in (a + 1)..(a + b)
    BY <1>1
  <2>3. CASE i \in 1..a /\ j \in 1..a
    BY <1>2, <1>3, <1>4, <2>3
  <2>4. CASE i \in (a + 1)..(a + b) /\ j \in (a + 1)..(a + b)
    <3>1. i - a = j - a
      BY <1>2, <1>3, <1>4, <2>4
    <3> QED BY <1>1, <3>1
  <2>5. ~(i \in 1..a /\ j \in (a + 1)..(a + b)) /\ ~(j \in 1..a /\ i \in (a + 1)..(a + b))
    BY <1>2, <1>4
  <2> QED BY <2>1, <2>2, <2>3, <2>4, <2>5
<1> QED BY <1>1, <1>4 DEF NoRepeats, u
=============================================================================
