----------------------------- MODULE DataProofs -----------------------------
(***************************************************************************)
(* What MCData checks of the reader, the writer, the buffers and the types *)
(* of the descriptors, for any number of buffers, sizes of packets and     *)
(* transfers, and bounds.                                                  *)
(*                                                                         *)
(* The reader and the writer move numbered items from one sequence to the  *)
(* next.  Their invariants say that the sequences together are the history *)
(* of the other side; each step moves a part from the end of one to the    *)
(* beginning of the next, and the lemmas about Selected and FlattenSeq say *)
(* what that leaves of the whole.  Both are recursive functions.  That     *)
(* they exist, and what they are of a longer sequence, is proved by        *)
(* induction over sets of numbers (Numbers) and of sequences (Sequential), *)
(* from which the other lemmas follow.                                     *)
(*                                                                         *)
(* The memory of buffers is followed from owner to owner (OwnersInv), and  *)
(* its initialised part with it (LengthsInv).                              *)
(***************************************************************************)
EXTENDS MCData, Selection, SequenceTheorems, FiniteSetTheorems, WellFoundedInduction, TLAPS

-----------------------------------------------------------------------------
(* Induction                                                               *)

\* A set that has 0, and with a number the next one, has every number.
LEMMA Numbers ==
  ASSUME NEW A, 0 \in A, \A n \in Nat : n \in A => n + 1 \in A
  PROVE  \A n \in Nat : n \in A
<1> SUFFICES ASSUME Nat \ A # {} PROVE FALSE
  OBVIOUS
<1>1. \E m \in Nat \ A : \A k \in Nat \ A : ~(<<k, m>> \in OpToRel(<, Nat))
  BY NatLessThanWellFounded, WFMin
<1>2. \A m, k \in Nat : <<k, m>> \notin OpToRel(<, Nat) => ~(k < m)
  BY DEF OpToRel
<1>3. PICK m \in Nat \ A : \A k \in Nat : k < m => k \in A
  BY <1>1, <1>2
<1>4. m # 0 /\ m - 1 \in Nat /\ m - 1 < m
  BY <1>3
<1>5. m - 1 \in A
  BY <1>3, <1>4
<1>6. (m - 1) + 1 \in A
  BY <1>4, <1>5
<1> QED
  BY <1>3, <1>6

\* A set that has the empty sequence, and with a sequence all that are longer by one, has
\* every sequence.
LEMMA Sequential ==
  ASSUME NEW X, NEW A, <<>> \in A, \A s \in Seq(X), x \in X : s \in A => Append(s, x) \in A
  PROVE  \A s \in Seq(X) : s \in A
<1> DEFINE M == {n \in Nat : \A s \in Seq(X) : Len(s) = n => s \in A}
<1>1. 0 \in M
  <2>1. \A s \in Seq(X) : Len(s) = 0 => s = <<>>
    OBVIOUS
  <2> QED
    BY <2>1
<1>2. ASSUME NEW n \in Nat, n \in M PROVE n + 1 \in M
  <2>1. ASSUME NEW s \in Seq(X), Len(s) = n + 1 PROVE s \in A
    <3>1. s # <<>>
      BY <2>1
    <3>2. PICK t \in Seq(X), x \in X : s = Append(t, x)
      BY <3>1, SequenceEmptyOrAppend
    <3>3. Len(s) = Len(t) + 1 /\ Len(t) \in Nat
      BY <3>2, AppendProperties, LenProperties
    <3>4. t \in A
      BY <1>2, <2>1, <3>3
    <3> QED
      BY <3>2, <3>4
  <2> QED
    BY <2>1
<1> HIDE DEF M
<1>3. \A n \in Nat : n \in M
  BY <1>1, <1>2, Numbers
<1>4. \A s \in Seq(X) : Len(s) \in M
  BY <1>3
<1> QED
  BY <1>4 DEF M

\* f begins with first, and next gives each value from the one before it.
Recursive(f, first, next, n, T) ==
  f \in [0..n -> T] /\ f[0] = first /\ \A i \in 1..n : f[i] = next[<<i, f[i - 1]>>]
StepsOf(n, T) == [(1..n) \X T -> T]

\* A function may be defined by its first value and by what each value is after another.
LEMMA Recursion ==
  ASSUME NEW T, NEW first \in T, NEW n \in Nat, NEW next \in StepsOf(n, T)
  PROVE  \E f : Recursive(f, first, next, n, T)
<1> USE DEF StepsOf
<1> DEFINE Good(m, f) == f \in [0..m -> T] /\ f[0] = first /\ \A i \in 1..m : f[i] = next[<<i, f[i - 1]>>]
           A == {m \in Nat : m <= n => \E f : Good(m, f)}
<1>1. 0 \in A
  <2>1. Good(0, [i \in 0..0 |-> first])
    OBVIOUS
  <2> QED
    BY <2>1
<1>2. ASSUME NEW m \in Nat, m \in A PROVE m + 1 \in A
  <2> SUFFICES ASSUME m + 1 <= n PROVE \E f : Good(m + 1, f)
    OBVIOUS
  <2>1. PICK f : Good(m, f)
    BY <1>2
  <2> DEFINE g == [i \in 0..(m + 1) |-> IF i = m + 1 THEN next[<<m + 1, f[m]>>] ELSE f[i]]
  <2>2. f[m] \in T /\ m + 1 \in 1..n
    BY <2>1
  <2>3. next[<<m + 1, f[m]>>] \in T
    BY <2>2
  <2>4. \A i \in 0..m : g[i] = f[i] /\ f[i] \in T
    BY <2>1
  <2>9. g[m + 1] = next[<<m + 1, f[m]>>] /\ m \in 0..m
    OBVIOUS
  <2>5. g \in [0..(m + 1) -> T]
    <3>1. \A i \in 0..(m + 1) : i = m + 1 \/ i \in 0..m
      OBVIOUS
    <3>2. \A i \in 0..(m + 1) : g[i] \in T
      <4> HIDE DEF g
      <4> QED
        BY <2>3, <2>4, <2>9, <3>1
    <3> QED
      BY <3>2
  <2>6. ASSUME NEW i \in 1..(m + 1) PROVE g[i] = next[<<i, g[i - 1]>>]
    <3>1. CASE i = m + 1
      <4>1. i - 1 = m
        BY <3>1
      <4>2. g[i - 1] = f[m] /\ g[i] = next[<<m + 1, f[m]>>]
        BY <2>4, <2>9, <3>1, <4>1
      <4> QED
        BY <3>1, <4>1, <4>2
    <3>2. CASE i # m + 1
      <4>1. i \in 1..m /\ i - 1 \in 0..m /\ i \in 0..m
        BY <3>2
      <4>2. g[i] = f[i] /\ g[i - 1] = f[i - 1] /\ f[i] = next[<<i, f[i - 1]>>]
        BY <2>1, <2>4, <4>1
      <4> QED
        BY <4>2
    <3> QED
      BY <3>1, <3>2
  <2>7. g[0] = first
    BY <2>1, <2>4
  <2> HIDE DEF g
  <2>8. Good(m + 1, g)
    BY <2>5, <2>6, <2>7
  <2> QED
    BY <2>8
<1> HIDE DEF A
<1>3. n \in A
  BY <1>1, <1>2, Numbers
<1> QED
  BY <1>3 DEF A, Recursive

-----------------------------------------------------------------------------
(* Selected                                                                *)

\* What Selected is the last value of.
IsSelection(f, s, S) ==
  /\ DOMAIN f = 0..Len(s)
  /\ f[0] = <<>>
  /\ \A i \in 1..Len(s) : f[i] = IF s[i] \in S THEN Append(f[i - 1], s[i]) ELSE f[i - 1]

\* The function that Selected chooses exists.
LEMMA SelectedIs ==
  ASSUME NEW X, NEW s \in Seq(X), NEW S
  PROVE  \E f \in [0..Len(s) -> Seq(X)] : IsSelection(f, s, S) /\ Selected(s, S) = f[Len(s)]
<1> DEFINE e(f, i) == IF i = 0 THEN <<>> ELSE IF s[i] \in S THEN Append(f[i - 1], s[i]) ELSE f[i - 1]
           n == Len(s)
           next == [p \in (1..n) \X Seq(X) |-> IF s[p[1]] \in S THEN Append(p[2], s[p[1]]) ELSE p[2]]
           F == CHOOSE f : f = [i \in 0..n |-> e(f, i)]
<1>1. n \in Nat /\ \A i \in 1..n : s[i] \in X
  OBVIOUS
<1>2. next \in [(1..n) \X Seq(X) -> Seq(X)]
  <2>1. \A p \in (1..n) \X Seq(X) : p[2] \in Seq(X) /\ s[p[1]] \in X
    BY <1>1
  <2>2. \A p \in (1..n) \X Seq(X) : Append(p[2], s[p[1]]) \in Seq(X)
    BY <2>1, AppendProperties
  <2> QED
    BY <2>1, <2>2
<1>3. <<>> \in Seq(X)
  OBVIOUS
<1>4. \A i \in 1..n, t \in Seq(X) : next[<<i, t>>] = IF s[i] \in S THEN Append(t, s[i]) ELSE t
  OBVIOUS
<1> HIDE DEF next, n
<1>5. PICK f \in [0..n -> Seq(X)] : f[0] = <<>> /\ \A i \in 1..n : f[i] = next[<<i, f[i - 1]>>]
  <2>1. \E f : Recursive(f, <<>>, next, n, Seq(X))
    BY <1>1, <1>2, <1>3, Recursion DEF StepsOf
  <2> QED
    BY <2>1 DEF Recursive
<1>6. \A i \in 1..n : i - 1 \in 0..n /\ f[i - 1] \in Seq(X)
  BY <1>1, <1>5
<1>7. \A i \in 1..n : f[i] = IF s[i] \in S THEN Append(f[i - 1], s[i]) ELSE f[i - 1]
  BY <1>4, <1>5, <1>6
<1>8. \A i \in 0..n : f[i] = e(f, i)
  <2>1. \A i \in 0..n : i = 0 \/ i \in 1..n
    BY <1>1
  <2> QED
    BY <1>5, <1>7, <2>1
<1>9. f = [i \in 0..n |-> e(f, i)]
  <2> HIDE DEF e
  <2> QED
    BY <1>5, <1>8
<1>10. F = [i \in 0..n |-> e(F, i)]
  <2> HIDE DEF e
  <2> QED
    BY <1>9
<1>11. Selected(s, S) = F[n]
  BY DEF Selected, n
<1> HIDE DEF F
<1>12. \A i \in 0..n : F[i] = e(F, i)
  <2> HIDE DEF e
  <2> QED
    BY <1>10
<1>13. F[0] = <<>> /\ \A i \in 1..n : F[i] = IF s[i] \in S THEN Append(F[i - 1], s[i]) ELSE F[i - 1]
  <2>1. 0 \in 0..n /\ \A i \in 1..n : i # 0 /\ i \in 0..n
    BY <1>1
  <2> QED
    BY <1>12, <2>1
<1>14. \A i \in 0..n : F[i] = f[i]
  <2> DEFINE A == {i \in Nat : i \in 0..n => F[i] = f[i]}
  <2>1. 0 \in A
    BY <1>5, <1>13
  <2>2. ASSUME NEW i \in Nat, i \in A PROVE i + 1 \in A
    <3> SUFFICES ASSUME i + 1 \in 0..n PROVE F[i + 1] = f[i + 1]
      OBVIOUS
    <3>1. i \in 0..n /\ i + 1 \in 1..n /\ (i + 1) - 1 = i
      BY <1>1
    <3>2. F[i] = f[i]
      BY <2>2, <3>1
    <3>3. F[i + 1] = IF s[i + 1] \in S THEN Append(F[i], s[i + 1]) ELSE F[i]
      BY <1>13, <3>1
    <3>4. f[i + 1] = IF s[i + 1] \in S THEN Append(f[i], s[i + 1]) ELSE f[i]
      BY <1>7, <3>1
    <3> QED
      BY <3>2, <3>3, <3>4
  <2> HIDE DEF A
  <2>3. \A i \in Nat : i \in A
    BY <2>1, <2>2, Numbers
  <2> QED
    BY <2>3 DEF A
<1>15. Selected(s, S) = f[n]
  BY <1>1, <1>11, <1>14
<1> QED
  BY <1>5, <1>7, <1>15 DEF IsSelection, n

\* Selected, from one sequence to the next.
LEMMA SelectedNext ==
  ASSUME NEW X, NEW s \in Seq(X), NEW x \in X, NEW S
  PROVE  Selected(Append(s, x), S) = IF x \in S THEN Append(Selected(s, S), x) ELSE Selected(s, S)
<1> DEFINE t == Append(s, x)
<1>1. /\ t \in Seq(X) /\ Len(t) = Len(s) + 1 /\ Len(s) \in Nat
      /\ \A i \in 1..Len(s) : t[i] = s[i]
      /\ t[Len(s) + 1] = x
  BY AppendProperties
<1> HIDE DEF t
<1>2. PICK f \in [0..Len(s) -> Seq(X)] : IsSelection(f, s, S) /\ Selected(s, S) = f[Len(s)]
  BY SelectedIs
<1>3. PICK g \in [0..Len(t) -> Seq(X)] : IsSelection(g, t, S) /\ Selected(t, S) = g[Len(t)]
  BY <1>1, SelectedIs
<1>4. \A i \in 0..Len(s) : f[i] = g[i]
  <2> DEFINE A == {i \in Nat : i \in 0..Len(s) => f[i] = g[i]}
  <2>1. 0 \in A
    BY <1>2, <1>3 DEF IsSelection
  <2>2. ASSUME NEW i \in Nat, i \in A PROVE i + 1 \in A
    <3> SUFFICES ASSUME i + 1 \in 0..Len(s) PROVE f[i + 1] = g[i + 1]
      OBVIOUS
    <3>1. i \in 0..Len(s) /\ i + 1 \in 1..Len(s) /\ i + 1 \in 1..Len(t) /\ (i + 1) - 1 = i
      BY <1>1
    <3>2. f[i] = g[i]
      BY <2>2, <3>1
    <3>3. f[i + 1] = IF s[i + 1] \in S THEN Append(f[i], s[i + 1]) ELSE f[i]
      BY <1>2, <3>1 DEF IsSelection
    <3>4. g[i + 1] = IF t[i + 1] \in S THEN Append(g[i], t[i + 1]) ELSE g[i]
      BY <1>3, <3>1 DEF IsSelection
    <3> QED
      BY <1>1, <3>1, <3>2, <3>3, <3>4
  <2> HIDE DEF A
  <2>3. \A i \in Nat : i \in A
    BY <2>1, <2>2, Numbers
  <2> QED
    BY <2>3 DEF A
<1>5. Len(s) \in 0..Len(s) /\ Len(t) \in 1..Len(t) /\ Len(t) - 1 = Len(s)
  BY <1>1
<1>6. g[Len(t)] = IF t[Len(t)] \in S THEN Append(g[Len(s)], t[Len(t)]) ELSE g[Len(s)]
  BY <1>3, <1>5 DEF IsSelection
<1>7. Selected(t, S) = IF x \in S THEN Append(Selected(s, S), x) ELSE Selected(s, S)
  BY <1>1, <1>2, <1>3, <1>4, <1>5, <1>6
<1> QED
  BY <1>7 DEF t

\* Nothing is selected from nothing.
LEMMA SelectedEmpty == ASSUME NEW S PROVE Selected(<<>>, S) = <<>>
<1>1. <<>> \in Seq({}) /\ Len(<<>>) = 0
  OBVIOUS
<1>2. PICK f \in [0..Len(<<>>) -> Seq({})] : IsSelection(f, <<>>, S) /\ Selected(<<>>, S) = f[Len(<<>>)]
  BY <1>1, SelectedIs
<1> QED
  BY <1>1, <1>2 DEF IsSelection

\* What is selected is in both sets, and not more than there was.
LEMMA SelectedType ==
  ASSUME NEW X, NEW S
  PROVE  \A s \in Seq(X) : Selected(s, S) \in Seq(X \intersect S) /\ Len(Selected(s, S)) \in 0..Len(s)
<1> DEFINE A == {s \in Seq(X) : Selected(s, S) \in Seq(X \intersect S) /\ Len(Selected(s, S)) \in 0..Len(s)}
<1>1. <<>> \in A
  <2>1. Selected(<<>>, S) = <<>>
    BY SelectedEmpty
  <2>2. <<>> \in Seq(X) /\ <<>> \in Seq(X \intersect S) /\ Len(<<>>) \in 0..Len(<<>>)
    OBVIOUS
  <2> QED
    BY <2>1, <2>2
<1>2. ASSUME NEW s \in Seq(X), NEW x \in X, s \in A PROVE Append(s, x) \in A
  <2>1. Append(s, x) \in Seq(X) /\ Len(Append(s, x)) = Len(s) + 1 /\ Len(s) \in Nat
    BY AppendProperties
  <2>2. CASE x \in S
    <3>1. Selected(Append(s, x), S) = Append(Selected(s, S), x) /\ x \in X \intersect S
      BY <2>2, SelectedNext
    <3>2. /\ Append(Selected(s, S), x) \in Seq(X \intersect S)
          /\ Len(Append(Selected(s, S), x)) = Len(Selected(s, S)) + 1
      BY <1>2, <3>1, AppendProperties
    <3>3. Len(Selected(s, S)) \in 0..Len(s)
      BY <1>2
    <3>4. Len(Selected(s, S)) + 1 \in 0..(Len(s) + 1)
      BY <2>1, <3>3
    <3> QED
      BY <2>1, <3>1, <3>2, <3>4
  <2>3. CASE x \notin S
    <3>1. Selected(Append(s, x), S) = Selected(s, S)
      BY <2>3, SelectedNext
    <3>2. Len(Selected(s, S)) \in 0..(Len(s) + 1)
      BY <1>2, <2>1
    <3> QED
      BY <1>2, <2>1, <3>1, <3>2
  <2> QED
    BY <2>2, <2>3
<1> HIDE DEF A
<1>3. \A s \in Seq(X) : s \in A
  BY <1>1, <1>2, Sequential
<1> QED
  BY <1>3 DEF A

\* Selection is from each part.
LEMMA SelectedConcat ==
  ASSUME NEW X, NEW S, NEW s \in Seq(X)
  PROVE  \A t \in Seq(X) : Selected(s \o t, S) = Selected(s, S) \o Selected(t, S)
<1> DEFINE A == {t \in Seq(X) : Selected(s \o t, S) = Selected(s, S) \o Selected(t, S)}
<1>0. \A t \in Seq(X) : Selected(t, S) \in Seq(X \intersect S)
  BY SelectedType
<1>1. <<>> \in A
  <2>1. s \o <<>> = s /\ Selected(s, S) \o <<>> = Selected(s, S)
    BY <1>0, ConcatEmptySeq
  <2>2. Selected(<<>>, S) = <<>> /\ <<>> \in Seq(X)
    BY SelectedEmpty
  <2> QED
    BY <2>1, <2>2
<1>2. ASSUME NEW t \in Seq(X), NEW x \in X, t \in A PROVE Append(t, x) \in A
  <2>1. s \o Append(t, x) = Append(s \o t, x) /\ s \o t \in Seq(X) /\ Append(t, x) \in Seq(X)
    OBVIOUS
  <2>2. Selected(s \o t, S) = Selected(s, S) \o Selected(t, S)
    BY <1>2
  <2>3. CASE x \in S
    <3>0. Selected(Append(s \o t, x), S) = Append(Selected(s \o t, S), x)
      BY ONLY <2>1, <2>3, x \in X, SelectedNext
    <3>1. Selected(s \o Append(t, x), S) = Append(Selected(s, S) \o Selected(t, S), x)
      BY ONLY <2>1, <2>2, <3>0
    <3>2. Selected(Append(t, x), S) = Append(Selected(t, S), x)
      BY <2>3, SelectedNext
    <3>3. \A a, b \in Seq(X \intersect S) : a \o Append(b, x) = Append(a \o b, x)
      BY <2>3
    <3> QED
      BY <1>0, <2>1, <3>1, <3>2, <3>3
  <2>4. CASE x \notin S
    <3>0. Selected(Append(s \o t, x), S) = Selected(s \o t, S)
      BY ONLY <2>1, <2>4, x \in X, SelectedNext
    <3>1. Selected(s \o Append(t, x), S) = Selected(s, S) \o Selected(t, S)
      BY ONLY <2>1, <2>2, <3>0
    <3>2. Selected(Append(t, x), S) = Selected(t, S)
      BY <2>4, SelectedNext
    <3> QED
      BY <2>1, <3>1, <3>2
  <2> QED
    BY <2>3, <2>4
<1> HIDE DEF A
<1>3. \A t \in Seq(X) : t \in A
  BY <1>1, <1>2, Sequential
<1> QED
  BY <1>3 DEF A

\* All is selected from a sequence over the set.
LEMMA SelectedAll ==
  ASSUME NEW X, NEW S, X \subseteq S
  PROVE  \A s \in Seq(X) : Selected(s, S) = s
<1> DEFINE A == {s \in Seq(X) : Selected(s, S) = s}
<1>1. <<>> \in A
  BY SelectedEmpty
<1>2. ASSUME NEW s \in Seq(X), NEW x \in X, s \in A PROVE Append(s, x) \in A
  <2>1. Append(s, x) \in Seq(X)
    OBVIOUS
  <2> QED
    BY <1>2, <2>1, SelectedNext
<1> HIDE DEF A
<1>3. \A s \in Seq(X) : s \in A
  BY <1>1, <1>2, Sequential
<1> QED
  BY <1>3 DEF A

\* Selecting twice is selecting from both sets.
LEMMA SelectedTwice ==
  ASSUME NEW X, NEW S, NEW T
  PROVE  \A s \in Seq(X) : Selected(Selected(s, S), T) = Selected(s, S \intersect T)
<1> DEFINE A == {s \in Seq(X) : Selected(Selected(s, S), T) = Selected(s, S \intersect T)}
<1>1. <<>> \in A
  BY SelectedEmpty
<1>2. ASSUME NEW s \in Seq(X), NEW x \in X, s \in A PROVE Append(s, x) \in A
  <2>1. Append(s, x) \in Seq(X) /\ Selected(s, S) \in Seq(X \intersect S)
    BY SelectedType
  <2>2. Selected(Append(s, x), S \intersect T)
          = IF x \in S \intersect T THEN Append(Selected(s, S \intersect T), x) ELSE Selected(s, S \intersect T)
    BY SelectedNext
  <2>3. CASE x \in S
    <3>1. Selected(Append(s, x), S) = Append(Selected(s, S), x) /\ x \in X \intersect S
      BY <2>3, SelectedNext
    <3>2. \A u \in Seq(X \intersect S) :
            Selected(Append(u, x), T) = IF x \in T THEN Append(Selected(u, T), x) ELSE Selected(u, T)
      BY ONLY <3>1, SelectedNext
    <3>3. Selected(Append(Selected(s, S), x), T)
            = IF x \in T THEN Append(Selected(Selected(s, S), T), x) ELSE Selected(Selected(s, S), T)
      BY ONLY <2>1, <3>2
    <3>4. Selected(Selected(s, S), T) = Selected(s, S \intersect T)
      BY <1>2
    <3>5. Selected(Selected(Append(s, x), S), T) = Selected(Append(s, x), S \intersect T)
      BY ONLY <2>2, <2>3, <3>1, <3>3, <3>4
    <3> QED
      BY <2>1, <3>5
  <2>4. CASE x \notin S
    <3>1. Selected(Append(s, x), S) = Selected(s, S)
      BY <2>4, SelectedNext
    <3> QED
      BY <1>2, <2>1, <2>2, <2>4, <3>1
  <2> QED
    BY <2>3, <2>4
<1> HIDE DEF A
<1>3. \A s \in Seq(X) : s \in A
  BY <1>1, <1>2, Sequential
<1> QED
  BY <1>3 DEF A

\* x is an element of s.
Among(x, s) == \E i \in DOMAIN s : s[i] = x

\* What is in the sequence and in the set is selected.
LEMMA SelectedHas ==
  ASSUME NEW X, NEW S, NEW x \in S
  PROVE  \A s \in Seq(X) : Among(x, s) => Among(x, Selected(s, S))
<1> DEFINE Has(s) == \E i \in DOMAIN s : s[i] = x
           A == {s \in Seq(X) : Has(s) => Has(Selected(s, S))}
<1>1. <<>> \in A
  OBVIOUS
<1>2. ASSUME NEW s \in Seq(X), NEW y \in X, s \in A PROVE Append(s, y) \in A
  <2>1. /\ Append(s, y) \in Seq(X) /\ Has(Append(s, y)) => Has(s) \/ x = y
    OBVIOUS
  <2>2. Selected(s, S) \in Seq(X \intersect S)
    BY SelectedType
  <2>3. CASE y \in S
    <3>1. \A t \in Seq(X \intersect S) : Has(Append(t, y)) <=> Has(t) \/ x = y
      <4> TAKE t \in Seq(X \intersect S)
      <4>1. /\ Len(Append(t, y)) = Len(t) + 1 /\ Len(t) \in Nat
            /\ DOMAIN t = 1..Len(t) /\ DOMAIN Append(t, y) = 1..Len(Append(t, y))
            /\ Append(t, y)[Len(t) + 1] = y /\ \A i \in 1..Len(t) : Append(t, y)[i] = t[i]
        BY <2>3
      <4>2. \A i \in DOMAIN Append(t, y) : i \in DOMAIN t \/ i = Len(t) + 1
        BY <4>1
      <4>3. Len(t) + 1 \in DOMAIN Append(t, y) /\ \A i \in DOMAIN t : i \in DOMAIN Append(t, y)
        BY <4>1
      <4> QED
        BY <4>1, <4>2, <4>3
    <3>2. Selected(Append(s, y), S) = Append(Selected(s, S), y)
      BY <2>3, SelectedNext
    <3> HIDE DEF Has
    <3>3. Has(Append(s, y)) => Has(Append(Selected(s, S), y))
      BY <1>2, <2>1, <2>2, <3>1
    <3>4. Has(Append(s, y)) => Has(Selected(Append(s, y), S))
      BY ONLY <3>2, <3>3
    <3> QED
      BY <2>1, <3>4
  <2>4. CASE y \notin S
    <3>1. Selected(Append(s, y), S) = Selected(s, S) /\ x # y
      BY <2>4, SelectedNext
    <3> HIDE DEF Has
    <3> QED
      BY <1>2, <2>1, <3>1
  <2> QED
    BY <2>3, <2>4
<1> HIDE DEF A
<1>3. \A s \in Seq(X) : s \in A
  BY <1>1, <1>2, Sequential
<1> QED
  BY <1>3 DEF A, Among

-----------------------------------------------------------------------------
(* FlattenSeq                                                              *)

\* What FlattenSeq is the last value of.
IsFlat(f, q) ==
  /\ DOMAIN f = 0..Len(q)
  /\ f[0] = <<>>
  /\ \A i \in 1..Len(q) : f[i] = f[i - 1] \o q[i]

\* The function that FlattenSeq chooses exists.
LEMMA FlattenIs ==
  ASSUME NEW X, NEW q \in Seq(Seq(X))
  PROVE  \E f \in [0..Len(q) -> Seq(X)] : IsFlat(f, q) /\ FlattenSeq(q) = f[Len(q)]
<1> DEFINE e(f, i) == IF i = 1 THEN q[i] ELSE f[i - 1] \o q[i]
           n == Len(q)
           next == [p \in (1..n) \X Seq(X) |-> p[2] \o q[p[1]]]
           F == CHOOSE f : f = [i \in 1..n |-> e(f, i)]
<1>1. n \in Nat /\ \A i \in 1..n : q[i] \in Seq(X)
  OBVIOUS
<1>2. next \in [(1..n) \X Seq(X) -> Seq(X)]
  <2>1. \A p \in (1..n) \X Seq(X) : p[2] \in Seq(X) /\ q[p[1]] \in Seq(X)
    BY <1>1
  <2>2. \A p \in (1..n) \X Seq(X) : p[2] \o q[p[1]] \in Seq(X)
    BY <2>1, ConcatProperties
  <2> QED
    BY <2>1, <2>2
<1>3. <<>> \in Seq(X)
  OBVIOUS
<1>4. \A i \in 1..n, t \in Seq(X) : next[<<i, t>>] = t \o q[i]
  OBVIOUS
<1> HIDE DEF next, n
<1>5. PICK f \in [0..n -> Seq(X)] : f[0] = <<>> /\ \A i \in 1..n : f[i] = next[<<i, f[i - 1]>>]
  <2>1. \E f : Recursive(f, <<>>, next, n, Seq(X))
    BY <1>1, <1>2, <1>3, Recursion DEF StepsOf
  <2> QED
    BY <2>1 DEF Recursive
<1>6. \A i \in 1..n : i - 1 \in 0..n /\ f[i - 1] \in Seq(X)
  BY <1>1, <1>5
<1>7. \A i \in 1..n : f[i] = f[i - 1] \o q[i]
  BY <1>4, <1>5, <1>6
<1>16. CASE n = 0
  <2>1. FlattenSeq(q) = q
    BY <1>16 DEF FlattenSeq, n
  <2>2. q = <<>>
    BY <1>16 DEF n
  <2>3. 0 \in 0..0 /\ f[n] = <<>>
    BY <1>5, <1>16
  <2> QED
    BY <1>5, <1>7, <2>1, <2>2, <2>3 DEF IsFlat, n
<1>17. CASE n # 0
  <2> DEFINE h == [i \in 1..n |-> f[i]]
  <2>0. \A i \in 1..n : h[i] = f[i]
    OBVIOUS
  <2>1. \A t \in Seq(X) : <<>> \o t = t
    OBVIOUS
  <2>2. \A i \in 1..n : h[i] = e(h, i)
    <3>1. \A i \in 1..n : i = 1 \/ i - 1 \in 1..n
      BY <1>1
    <3>2. ASSUME NEW i \in 1..n, i = 1 PROVE h[i] = q[i]
      <4>2. f[i] = f[i - 1] \o q[i]
        BY <1>7
      <4>3. i - 1 = 0
        BY <3>2
      <4>0. f[i] = f[0] \o q[i]
        BY <4>2, <4>3
      <4>1. h[i] = f[0] \o q[i] /\ q[i] \in Seq(X) /\ f[0] = <<>>
        BY <1>1, <1>5, <2>0, <4>0
      <4> QED
        BY ONLY <4>1, <2>1
    <3>3. ASSUME NEW i \in 1..n, i # 1 PROVE h[i] = h[i - 1] \o q[i]
      <4>1. i - 1 \in 1..n
        BY <3>1, <3>3
      <4>2. h[i] = f[i] /\ h[i - 1] = f[i - 1]
        BY <2>0, <4>1
      <4> QED
        BY <1>7, <4>2
    <3> HIDE DEF h
    <3> QED
      BY <3>2, <3>3
  <2>3. h = [i \in 1..n |-> e(h, i)]
    <3> HIDE DEF e
    <3> QED
      BY <2>2
  <2>4. F = [i \in 1..n |-> e(F, i)]
    <3> HIDE DEF e
    <3> QED
      BY <2>3
  <2>5. FlattenSeq(q) = F[n]
    BY <1>17 DEF FlattenSeq, n
  <2> HIDE DEF F, h
  <2>6. \A i \in 1..n : F[i] = e(F, i)
    <3> HIDE DEF e
    <3> QED
      BY <2>4
  <2>7. \A i \in 1..n : F[i] = f[i]
    <3> DEFINE A == {i \in Nat : i \in 1..n => F[i] = f[i]}
    <3>1. 0 \in A
      BY <1>1
    <3>2. ASSUME NEW i \in Nat, i \in A PROVE i + 1 \in A
      <4> SUFFICES ASSUME i + 1 \in 1..n PROVE F[i + 1] = f[i + 1]
        OBVIOUS
      <4>1. F[i + 1] = h[i + 1] \/ i \in 1..n
        <5>1. CASE i = 0
          <6>1. F[i + 1] = q[i + 1] /\ h[i + 1] = q[i + 1]
            BY <2>2, <2>6, <5>1
          <6> QED
            BY <6>1
        <5>2. CASE i # 0
          BY <1>1, <5>2
        <5> QED
          BY <5>1, <5>2
      <4>2. CASE F[i + 1] = h[i + 1]
        BY <2>0, <4>2
      <4>3. CASE i \in 1..n
        <5>1. F[i] = f[i] /\ (i + 1) - 1 = i /\ i + 1 # 1
          BY <3>2, <4>3
        <5>2. F[i + 1] = F[i] \o q[i + 1]
          BY <2>6, <5>1
        <5>3. f[i + 1] = f[i] \o q[i + 1]
          BY <1>7, <5>1
        <5> QED
          BY <5>1, <5>2, <5>3
      <4> QED
        BY <4>1, <4>2, <4>3
    <3> HIDE DEF A
    <3>3. \A i \in Nat : i \in A
      BY <3>1, <3>2, Numbers
    <3>4. \A i \in 1..n : i \in Nat
      BY <1>1
    <3> QED
      BY <3>3, <3>4 DEF A
  <2>8. n \in 1..n /\ n \in 0..n
    BY <1>1, <1>17
  <2>9. FlattenSeq(q) = f[n]
    BY <2>5, <2>7, <2>8
  <2> QED
    BY <1>5, <1>7, <2>9 DEF IsFlat, n
<1> QED
  BY <1>16, <1>17

\* Nothing is nothing, flattened.
LEMMA FlattenEmpty == FlattenSeq(<<>>) = <<>>
BY DEF FlattenSeq

\* FlattenSeq, from one sequence to the next.
LEMMA FlattenNext ==
  ASSUME NEW X, NEW q \in Seq(Seq(X)), NEW x \in Seq(X)
  PROVE  FlattenSeq(Append(q, x)) = FlattenSeq(q) \o x
<1> DEFINE t == Append(q, x)
<1>1. /\ t \in Seq(Seq(X)) /\ Len(t) = Len(q) + 1 /\ Len(q) \in Nat
      /\ \A i \in 1..Len(q) : t[i] = q[i]
      /\ t[Len(q) + 1] = x
  BY AppendProperties
<1> HIDE DEF t
<1>2. PICK f \in [0..Len(q) -> Seq(X)] : IsFlat(f, q) /\ FlattenSeq(q) = f[Len(q)]
  BY FlattenIs
<1>3. PICK g \in [0..Len(t) -> Seq(X)] : IsFlat(g, t) /\ FlattenSeq(t) = g[Len(t)]
  BY <1>1, FlattenIs
<1>4. \A i \in 0..Len(q) : f[i] = g[i]
  <2> DEFINE A == {i \in Nat : i \in 0..Len(q) => f[i] = g[i]}
  <2>1. 0 \in A
    BY <1>2, <1>3 DEF IsFlat
  <2>2. ASSUME NEW i \in Nat, i \in A PROVE i + 1 \in A
    <3> SUFFICES ASSUME i + 1 \in 0..Len(q) PROVE f[i + 1] = g[i + 1]
      OBVIOUS
    <3>1. i \in 0..Len(q) /\ i + 1 \in 1..Len(q) /\ i + 1 \in 1..Len(t) /\ (i + 1) - 1 = i
      BY <1>1
    <3>2. f[i] = g[i]
      BY <2>2, <3>1
    <3>3. f[i + 1] = f[i] \o q[i + 1]
      BY <1>2, <3>1 DEF IsFlat
    <3>4. g[i + 1] = g[i] \o t[i + 1]
      BY <1>3, <3>1 DEF IsFlat
    <3> QED
      BY <1>1, <3>1, <3>2, <3>3, <3>4
  <2> HIDE DEF A
  <2>3. \A i \in Nat : i \in A
    BY <2>1, <2>2, Numbers
  <2> QED
    BY <2>3 DEF A
<1>5. Len(q) \in 0..Len(q) /\ Len(t) \in 1..Len(t) /\ Len(t) - 1 = Len(q)
  BY <1>1
<1>6. g[Len(t)] = g[Len(q)] \o t[Len(t)]
  BY <1>3, <1>5 DEF IsFlat
<1>7. FlattenSeq(t) = FlattenSeq(q) \o x
  BY <1>1, <1>2, <1>3, <1>4, <1>5, <1>6
<1> QED
  BY <1>7 DEF t

\* What is flattened is a sequence over the same set.
LEMMA FlattenType ==
  ASSUME NEW X
  PROVE  \A q \in Seq(Seq(X)) : FlattenSeq(q) \in Seq(X)
<1> TAKE q \in Seq(Seq(X))
<1>1. PICK f \in [0..Len(q) -> Seq(X)] : IsFlat(f, q) /\ FlattenSeq(q) = f[Len(q)]
  BY FlattenIs
<1>2. Len(q) \in 0..Len(q)
  OBVIOUS
<1> QED
  BY <1>1, <1>2

\* Each part is flattened.
LEMMA FlattenConcat ==
  ASSUME NEW X, NEW p \in Seq(Seq(X))
  PROVE  \A q \in Seq(Seq(X)) : FlattenSeq(p \o q) = FlattenSeq(p) \o FlattenSeq(q)
<1> DEFINE A == {q \in Seq(Seq(X)) : FlattenSeq(p \o q) = FlattenSeq(p) \o FlattenSeq(q)}
<1>0. \A q \in Seq(Seq(X)) : FlattenSeq(q) \in Seq(X)
  BY FlattenType
<1>1. <<>> \in A
  <2>1. p \o <<>> = p /\ FlattenSeq(p) \o <<>> = FlattenSeq(p)
    BY <1>0, ConcatEmptySeq
  <2>2. FlattenSeq(<<>>) = <<>> /\ <<>> \in Seq(Seq(X))
    BY FlattenEmpty
  <2> QED
    BY <2>1, <2>2
<1>2. ASSUME NEW q \in Seq(Seq(X)), NEW x \in Seq(X), q \in A PROVE Append(q, x) \in A
  <2>1. p \o Append(q, x) = Append(p \o q, x) /\ p \o q \in Seq(Seq(X)) /\ Append(q, x) \in Seq(Seq(X))
    OBVIOUS
  <2>2. FlattenSeq(p \o q) = FlattenSeq(p) \o FlattenSeq(q)
    BY <1>2
  <2>3. FlattenSeq(Append(p \o q, x)) = FlattenSeq(p \o q) \o x
    BY ONLY <2>1, x \in Seq(X), FlattenNext
  <2>4. FlattenSeq(Append(q, x)) = FlattenSeq(q) \o x
    BY FlattenNext
  <2>5. (FlattenSeq(p) \o FlattenSeq(q)) \o x = FlattenSeq(p) \o (FlattenSeq(q) \o x)
    BY <1>0, ConcatAssociative
  <2>6. FlattenSeq(p \o Append(q, x)) = FlattenSeq(p) \o FlattenSeq(Append(q, x))
    BY ONLY <2>1, <2>2, <2>3, <2>4, <2>5
  <2> QED
    BY <2>1, <2>6
<1> HIDE DEF A
<1>3. \A q \in Seq(Seq(X)) : q \in A
  BY <1>1, <1>2, Sequential
<1> QED
  BY <1>3 DEF A

-----------------------------------------------------------------------------
(* What the members of a queue hold                                        *)

\* What each member of q has in g, and all of it.
Held(q, g) == [i \in DOMAIN q |-> g[q[i]]]
Gathered(q, g) == FlattenSeq(Held(q, g))

\* What the members of M may hold.
Contents(M, X) == [M -> Seq(X)]

\* Held is a sequence as long as the queue.
LEMMA HeldType ==
  ASSUME NEW M, NEW X, NEW q \in Seq(M), NEW g \in [M -> X]
  PROVE  Held(q, g) \in Seq(X) /\ Len(Held(q, g)) = Len(q) /\ DOMAIN Held(q, g) = 1..Len(q)
<1>1. DOMAIN q = 1..Len(q) /\ Len(q) \in Nat /\ \A i \in 1..Len(q) : q[i] \in M
  OBVIOUS
<1>2. \A i \in 1..Len(q) : g[q[i]] \in X
  BY <1>1
<1>3. Held(q, g) \in [1..Len(q) -> X]
  BY <1>1, <1>2 DEF Held
<1>4. Held(q, g) \in Seq(X)
  BY <1>1, <1>3
<1> QED
  BY <1>1, <1>3, <1>4

\* What is gathered is a sequence over the same set.
LEMMA GatheredType ==
  ASSUME NEW M, NEW X, NEW q \in Seq(M), NEW g \in Contents(M, X)
  PROVE  Gathered(q, g) \in Seq(X)
<1>1. Held(q, g) \in Seq(Seq(X))
  BY HeldType DEF Contents
<1> QED
  BY <1>1, FlattenType DEF Gathered

\* Nothing is held by nothing.
LEMMA GatheredEmpty == ASSUME NEW g PROVE Gathered(<<>>, g) = <<>>
<1>1. Held(<<>>, g) = <<>>
  BY DEF Held
<1> QED
  BY <1>1, FlattenEmpty DEF Gathered

\* What the queue holds after another member has been added.
LEMMA GatheredNext ==
  ASSUME NEW M, NEW X, NEW q \in Seq(M), NEW b \in M, NEW g \in Contents(M, X)
  PROVE  Gathered(Append(q, b), g) = Gathered(q, g) \o g[b]
<1>1. /\ Append(q, b) \in Seq(M) /\ Len(Append(q, b)) = Len(q) + 1 /\ Len(q) \in Nat
      /\ \A i \in 1..Len(q) : Append(q, b)[i] = q[i]
      /\ Append(q, b)[Len(q) + 1] = b
  BY AppendProperties
<1>0. \A r \in Seq(M) : Held(r, g) \in Seq(Seq(X)) /\ Len(Held(r, g)) = Len(r)
  <2> DEFINE Y == Seq(X)
  <2>1. g \in [M -> Y]
    BY DEF Contents
  <2> HIDE DEF Y
  <2>2. \A r \in Seq(M) : Held(r, g) \in Seq(Y) /\ Len(Held(r, g)) = Len(r)
    BY <2>1, HeldType
  <2> QED
    BY <2>2 DEF Y
<1>2. Held(q, g) \in Seq(Seq(X)) /\ Len(Held(q, g)) = Len(q) /\ g[b] \in Seq(X)
  BY <1>0 DEF Contents
<1>3. Held(Append(q, b), g) \in Seq(Seq(X)) /\ Len(Held(Append(q, b), g)) = Len(q) + 1
  BY <1>0, <1>1
<1>4. /\ \A i \in 1..Len(q) : Held(q, g)[i] = g[q[i]]
      /\ \A i \in 1..(Len(q) + 1) : Held(Append(q, b), g)[i] = g[Append(q, b)[i]]
  <2>1. DOMAIN q = 1..Len(q) /\ DOMAIN Append(q, b) = 1..(Len(q) + 1)
    BY <1>1
  <2> QED
    BY <2>1 DEF Held
<1>5. Append(Held(q, g), g[b]) \in Seq(Seq(X)) /\ Len(Append(Held(q, g), g[b])) = Len(q) + 1
  BY <1>2, AppendProperties
<1>6. ASSUME NEW i \in 1..(Len(q) + 1)
      PROVE  Held(Append(q, b), g)[i] = Append(Held(q, g), g[b])[i]
  <2>1. CASE i = Len(q) + 1
    BY <1>1, <1>2, <1>4, <2>1, AppendProperties
  <2>2. CASE i # Len(q) + 1
    <3>1. i \in 1..Len(q)
      BY <1>1, <2>2
    <3>2. Append(Held(q, g), g[b])[i] = Held(q, g)[i]
      BY <1>2, <3>1, AppendProperties
    <3> QED
      BY <1>1, <1>4, <3>1, <3>2
  <2> QED
    BY <2>1, <2>2
<1>7. Held(Append(q, b), g) = Append(Held(q, g), g[b])
  BY <1>3, <1>5, <1>6, SeqEqual
<1> QED
  BY <1>2, <1>7, FlattenNext DEF Gathered

\* Members that hold the same make no difference.
LEMMA GatheredSame ==
  ASSUME NEW q, NEW g, NEW h, \A i \in DOMAIN q : g[q[i]] = h[q[i]]
  PROVE  Gathered(q, g) = Gathered(q, h)
BY DEF Gathered, Held

\* What the first holds comes first.
LEMMA GatheredHead ==
  ASSUME NEW M, NEW X, NEW g \in Contents(M, X)
  PROVE  \A q \in Seq(M) : q # <<>> => Gathered(q, g) = g[Head(q)] \o Gathered(Tail(q), g)
<1> DEFINE A == {q \in Seq(M) : q # <<>> => Gathered(q, g) = g[Head(q)] \o Gathered(Tail(q), g)}
<1>1. <<>> \in A
  OBVIOUS
<1>2. ASSUME NEW q \in Seq(M), NEW b \in M, q \in A PROVE Append(q, b) \in A
  <2>0. Append(q, b) \in Seq(M)
    OBVIOUS
  <2>1. Gathered(Append(q, b), g) = Gathered(q, g) \o g[b]
    BY GatheredNext
  <2>2. CASE q = <<>>
    <3>1. Head(Append(q, b)) = b /\ Tail(Append(q, b)) = <<>>
      BY <2>2
    <3>2. Gathered(q, g) = <<>> /\ Gathered(Tail(Append(q, b)), g) = <<>>
      BY <2>2, <3>1, GatheredEmpty
    <3>3. \A t \in Seq(X) : <<>> \o t = t /\ t \o <<>> = t
      OBVIOUS
    <3>4. Gathered(Append(q, b), g) = g[Head(Append(q, b))] \o Gathered(Tail(Append(q, b)), g)
      <4>1. g[b] \in Seq(X)
        BY DEF Contents
      <4> QED
        BY ONLY <2>1, <3>1, <3>2, <3>3, <4>1
    <3> QED
      BY <2>0, <3>4
  <2>3. CASE q # <<>>
    <3>1. /\ Head(Append(q, b)) = Head(q) /\ Tail(Append(q, b)) = Append(Tail(q), b)
          /\ Tail(q) \in Seq(M) /\ Head(q) \in M
      BY <2>3
    <3>2. Gathered(Tail(Append(q, b)), g) = Gathered(Tail(q), g) \o g[b]
      <4>1. \A r \in Seq(M) : Gathered(Append(r, b), g) = Gathered(r, g) \o g[b]
        BY GatheredNext
      <4> QED
        BY <3>1, <4>1
    <3>3. Gathered(q, g) = g[Head(q)] \o Gathered(Tail(q), g)
      BY <1>2, <2>3
    <3>5. Gathered(Tail(q), g) \in Seq(X)
      BY <3>1, GatheredType
    <3>4. Gathered(Tail(q), g) \in Seq(X) /\ g[Head(q)] \in Seq(X) /\ g[b] \in Seq(X)
      BY <3>1, <3>5 DEF Contents
    <3>6. Gathered(Append(q, b), g) = g[Head(Append(q, b))] \o Gathered(Tail(Append(q, b)), g)
      <4>3. \A u, v, w \in Seq(X) : (u \o v) \o w = u \o (v \o w)
        BY ConcatAssociative
      <4>1. (g[Head(q)] \o Gathered(Tail(q), g)) \o g[b] = g[Head(q)] \o (Gathered(Tail(q), g) \o g[b])
        BY ONLY <3>4, <4>3
      <4>2. Head(Append(q, b)) = Head(q)
        BY <3>1
      <4> QED
        BY ONLY <2>1, <3>2, <3>3, <4>1, <4>2
    <3> QED
      BY <2>0, <3>6
  <2> QED
    BY <2>2, <2>3
<1> HIDE DEF A
<1>3. \A q \in Seq(M) : q \in A
  BY <1>1, <1>2, Sequential
<1> QED
  BY <1>3 DEF A

\* From g to h the k-th member is given what it holds, and those behind it hold nothing.
Filling(q, k, g, h) ==
  /\ k \in DOMAIN q /\ g[q[k]] = <<>>
  /\ \A i \in DOMAIN q : i # k => h[q[i]] = g[q[i]] /\ (i > k => g[q[i]] = <<>>)

\* What is received behind all the rest comes last.
LEMMA GatheredFilling ==
  ASSUME NEW M, NEW X, NEW g \in Contents(M, X), NEW h \in Contents(M, X), NEW k \in Nat
  PROVE  \A q \in Seq(M) : Filling(q, k, g, h) => Gathered(q, h) = Gathered(q, g) \o h[q[k]]
<1> DEFINE A == {q \in Seq(M) : Filling(q, k, g, h) => Gathered(q, h) = Gathered(q, g) \o h[q[k]]}
<1>1. <<>> \in A
  BY DEF Filling
<1>2. ASSUME NEW q \in Seq(M), NEW b \in M, q \in A PROVE Append(q, b) \in A
  <2>0. /\ Append(q, b) \in Seq(M) /\ Len(q) \in Nat
        /\ DOMAIN q = 1..Len(q) /\ DOMAIN Append(q, b) = 1..(Len(q) + 1)
        /\ Append(q, b)[Len(q) + 1] = b
        /\ \A i \in 1..Len(q) : Append(q, b)[i] = q[i] /\ q[i] \in M
    OBVIOUS
  <2>1. /\ Gathered(Append(q, b), g) = Gathered(q, g) \o g[b]
        /\ Gathered(Append(q, b), h) = Gathered(q, h) \o h[b]
    BY GatheredNext
  <2>2. \A t \in Seq(X) : t \o <<>> = t
    OBVIOUS
  <2>6. Gathered(q, g) \in Seq(X) /\ Gathered(q, h) \in Seq(X)
    BY GatheredType
  <2>3. Gathered(q, g) \in Seq(X) /\ Gathered(q, h) \in Seq(X) /\ \A a \in M : g[a] \in Seq(X) /\ h[a] \in Seq(X)
    BY <2>6 DEF Contents
  <2> SUFFICES ASSUME Filling(Append(q, b), k, g, h)
               PROVE  Gathered(Append(q, b), h) = Gathered(Append(q, b), g) \o h[Append(q, b)[k]]
    BY <2>0
  <2>4. CASE k = Len(q) + 1
    <3>1. g[b] = <<>> /\ Append(q, b)[k] = b
      BY <2>0, <2>4 DEF Filling
    <3>2. ASSUME NEW i \in DOMAIN q PROVE g[q[i]] = h[q[i]]
      <4>1. i \in DOMAIN Append(q, b) /\ i # k /\ Append(q, b)[i] = q[i]
        BY <2>0, <2>4
      <4> QED
        BY <4>1 DEF Filling
    <3>3. Gathered(q, g) = Gathered(q, h)
      BY <3>2, GatheredSame
    <3> QED
      BY ONLY <2>1, <2>2, <2>3, <3>1, <3>3
  <2>5. CASE k # Len(q) + 1
    <3>1. k \in DOMAIN q /\ Append(q, b)[k] = q[k] /\ q[k] \in M
      BY <2>0, <2>5 DEF Filling
    <3>2. Len(q) + 1 \in DOMAIN Append(q, b) /\ Len(q) + 1 > k
      BY <2>0, <3>1
    <3>3. g[b] = <<>> /\ h[b] = <<>>
      BY <2>0, <2>5, <3>2 DEF Filling
    <3>4. Filling(q, k, g, h)
      <4>1. \A i \in DOMAIN q : i \in DOMAIN Append(q, b) /\ Append(q, b)[i] = q[i]
        BY <2>0
      <4> QED
        BY <3>1, <4>1 DEF Filling
    <3>5. Gathered(q, h) = Gathered(q, g) \o h[q[k]]
      BY <1>2, <3>4
    <3>6. Gathered(Append(q, b), h) = Gathered(q, h) /\ Gathered(Append(q, b), g) = Gathered(q, g)
      BY ONLY <2>1, <2>2, <2>3, <3>3
    <3> QED
      BY ONLY <3>1, <3>5, <3>6
  <2> QED
    BY <2>4, <2>5
<1> HIDE DEF A
<1>3. \A q \in Seq(M) : q \in A
  BY <1>1, <1>2, Sequential
<1> QED
  BY <1>3 DEF A

-----------------------------------------------------------------------------
(* Queues of buffers                                                       *)

\* No member is queued twice.
Distinct(q) == \A i, j \in DOMAIN q : q[i] = q[j] => i = j

\* Another member may be added.
LEMMA DistinctAppend ==
  ASSUME NEW M, NEW q \in Seq(M), NEW b \in M, Distinct(q), \A i \in DOMAIN q : q[i] # b
  PROVE  Distinct(Append(q, b))
<1>1. /\ Len(q) \in Nat /\ DOMAIN q = 1..Len(q) /\ DOMAIN Append(q, b) = 1..(Len(q) + 1)
      /\ Append(q, b)[Len(q) + 1] = b /\ \A i \in 1..Len(q) : Append(q, b)[i] = q[i]
  OBVIOUS
<1>2. \A i \in DOMAIN Append(q, b) : i = Len(q) + 1 \/ i \in DOMAIN q
  BY <1>1
<1>3. ASSUME NEW i \in DOMAIN Append(q, b), NEW j \in DOMAIN Append(q, b), Append(q, b)[i] = Append(q, b)[j]
      PROVE  i = j
  BY <1>1, <1>2, <1>3 DEF Distinct
<1> QED
  BY <1>3 DEF Distinct

\* The first may be removed.
LEMMA DistinctTail ==
  ASSUME NEW M, NEW q \in Seq(M), Distinct(q), q # <<>>
  PROVE  /\ Tail(q) \in Seq(M) /\ Head(q) \in M /\ Head(q) = q[1] /\ 1 \in DOMAIN q
         /\ Len(Tail(q)) = Len(q) - 1 /\ Len(q) \in Nat
         /\ Distinct(Tail(q))
         /\ \A i \in DOMAIN Tail(q) : i \in Nat /\ i + 1 \in DOMAIN q /\ Tail(q)[i] = q[i + 1] /\ Tail(q)[i] # Head(q)
<1>1. /\ Len(q) \in Nat /\ DOMAIN q = 1..Len(q) /\ Len(q) # 0
      /\ Head(q) = q[1] /\ Head(q) \in M
  OBVIOUS
<1>2. Tail(q) \in Seq(M) /\ Len(Tail(q)) = Len(q) - 1 /\ DOMAIN Tail(q) = 1..(Len(q) - 1)
  BY <1>1
<1>3. \A i \in 1..(Len(q) - 1) : Tail(q)[i] = q[i + 1]
  BY <1>1
<1>4. \A i \in 1..(Len(q) - 1) : i \in Nat /\ i + 1 \in 1..Len(q) /\ i + 1 # 1
  BY <1>1
<1>5. 1 \in DOMAIN q
  BY <1>1
<1>6. \A i \in DOMAIN Tail(q) : Tail(q)[i] # Head(q)
  BY <1>1, <1>2, <1>3, <1>4, <1>5 DEF Distinct
<1>7. ASSUME NEW i \in DOMAIN Tail(q), NEW j \in DOMAIN Tail(q), Tail(q)[i] = Tail(q)[j]
      PROVE  i = j
  <2>1. i + 1 = j + 1
    BY <1>1, <1>2, <1>3, <1>4, <1>7 DEF Distinct
  <2> QED
    BY <1>2, <2>1
<1> QED
  BY <1>1, <1>2, <1>3, <1>4, <1>5, <1>6, <1>7 DEF Distinct

\* What the queue holds when a member is submitted with what it holds.
LEMMA GatheredSubmit ==
  ASSUME NEW M, NEW X, NEW q \in Seq(M), NEW b \in M, \A i \in DOMAIN q : q[i] # b,
         NEW g \in Contents(M, X), NEW h \in Contents(M, X), \A a \in M : a # b => h[a] = g[a]
  PROVE  Gathered(Append(q, b), h) = Gathered(q, g) \o h[b]
<1>1. \A i \in DOMAIN q : q[i] \in M
  OBVIOUS
<1>2. Gathered(q, h) = Gathered(q, g)
  BY <1>1, GatheredSame
<1>3. Gathered(Append(q, b), h) = Gathered(q, h) \o h[b]
  BY GatheredNext
<1> QED
  BY ONLY <1>2, <1>3

\* What it held when the first has been returned.
LEMMA GatheredReturn ==
  ASSUME NEW M, NEW X, NEW q \in Seq(M), Distinct(q), q # <<>>,
         NEW g \in Contents(M, X), NEW h \in Contents(M, X),
         \A i \in DOMAIN q : q[i] # Head(q) => h[q[i]] = g[q[i]]
  PROVE  Gathered(q, g) = g[Head(q)] \o Gathered(Tail(q), h)
<1>1. \A i \in DOMAIN Tail(q) : i + 1 \in DOMAIN q /\ Tail(q)[i] = q[i + 1] /\ Tail(q)[i] # Head(q)
  BY DistinctTail
<1>3. \A i \in DOMAIN Tail(q) : g[Tail(q)[i]] = h[Tail(q)[i]]
  BY <1>1
<1>2. Gathered(Tail(q), g) = Gathered(Tail(q), h)
  BY ONLY <1>3, GatheredSame
<1> QED
  BY <1>2, GatheredHead

\* What it holds when a member that held nothing receives, and those behind it hold nothing.
LEMMA GatheredReceive ==
  ASSUME NEW M, NEW X, NEW q \in Seq(M), Distinct(q), NEW k \in Nat, k \in DOMAIN q,
         NEW g \in Contents(M, X), NEW h \in Contents(M, X),
         \A a \in M : a # q[k] => h[a] = g[a],
         g[q[k]] = <<>>, \A i \in DOMAIN q : i > k => g[q[i]] = <<>>
  PROVE  Gathered(q, h) = Gathered(q, g) \o h[q[k]]
<1>1. k \in Nat /\ \A i \in DOMAIN q : q[i] \in M /\ (i # k => q[i] # q[k])
  BY DEF Distinct
<1>2. Filling(q, k, g, h)
  BY <1>1 DEF Filling
<1>3. \A r \in Seq(M) : Filling(r, k, g, h) => Gathered(r, h) = Gathered(r, g) \o h[r[k]]
  BY GatheredFilling
<1> QED
  BY <1>2, <1>3

\* Parts may be put together in any order.
LEMMA Regrouped ==
  ASSUME NEW X
  PROVE  /\ \A u, v, w \in Seq(X) : (u \o v) \o w = u \o (v \o w)
         /\ \A u, v \in Seq(X) : u \o v \in Seq(X)
         /\ \A u \in Seq(X) : <<>> \o u = u /\ u \o <<>> = u
         /\ <<>> \in Seq(X)
<1>1. \A u, v, w \in Seq(X) : (u \o v) \o w = u \o (v \o w)
  BY ConcatAssociative
<1>2. \A u, v \in Seq(X) : u \o v \in Seq(X)
  OBVIOUS
<1>3. \A u \in Seq(X) : <<>> \o u = u /\ u \o <<>> = u
  BY ConcatEmptySeq
<1> QED
  BY <1>1, <1>2, <1>3

\* A part of a sequence may be taken in two.
LEMMA Split ==
  ASSUME NEW X, NEW s \in Seq(X), NEW p \in 0..Len(s), NEW k \in Nat, k <= Len(s) - p
  PROVE  LET r == SubSeq(s, p + 1, Len(s)) IN
         /\ r \in Seq(X) /\ Len(r) = Len(s) - p
         /\ SubSeq(r, 1, k) \in Seq(X)
         /\ SubSeq(s, p + k + 1, Len(s)) \in Seq(X)
         /\ SubSeq(r, 1, k) \o SubSeq(s, p + k + 1, Len(s)) = r
<1> DEFINE r == SubSeq(s, p + 1, Len(s))
           t == SubSeq(s, p + k + 1, Len(s))
           c == SubSeq(r, 1, k)
<1>0. Len(s) \in Nat /\ p \in Nat
  OBVIOUS
<1>1. r \in Seq(X) /\ Len(r) = Len(s) - p /\ \A i \in 1..(Len(s) - p) : r[i] = s[p + i]
  BY <1>0
<1>2. t \in Seq(X) /\ Len(t) = Len(s) - p - k /\ \A i \in 1..(Len(s) - p - k) : t[i] = s[p + k + i]
  BY <1>0
<1> HIDE DEF r, t
<1>3. c \in Seq(X) /\ Len(c) = k /\ \A i \in 1..k : c[i] = r[i]
  BY <1>0, <1>1
<1> HIDE DEF c
<1>4. c \o t \in Seq(X) /\ Len(c \o t) = Len(r)
  BY <1>0, <1>1, <1>2, <1>3, ConcatProperties
<1>7. \A i \in 1..(Len(c) + Len(t)) : (c \o t)[i] = IF i <= Len(c) THEN c[i] ELSE t[i - Len(c)]
  BY <1>2, <1>3, ConcatProperties
<1>8. Len(c) + Len(t) = Len(r)
  BY <1>0, <1>1, <1>2, <1>3
<1>5. ASSUME NEW i \in 1..Len(r) PROVE (c \o t)[i] = r[i]
  <2>1. CASE i <= k
    <3>1. (c \o t)[i] = c[i]
      BY <1>3, <1>7, <1>8, <2>1
    <3> QED
      BY <1>0, <1>1, <1>3, <2>1, <3>1
  <2>2. CASE ~(i <= k)
    <3>1. i - k \in 1..(Len(s) - p - k) /\ i \in 1..(Len(s) - p) /\ p + k + (i - k) = p + i
      BY <1>0, <1>1, <2>2
    <3>2. (c \o t)[i] = t[i - k]
      BY <1>0, <1>3, <1>7, <1>8, <2>2
    <3> QED
      BY <1>1, <1>2, <3>1, <3>2
  <2> QED
    BY <2>1, <2>2
<1>6. c \o t = r
  BY <1>1, <1>4, <1>5, SeqEqual
<1> QED
  BY <1>1, <1>2, <1>3, <1>6 DEF r, t, c

\* A sequence over a set is one over a larger set.
LEMMA SeqOver == ASSUME NEW X, NEW Y, X \subseteq Y, NEW s \in Seq(X) PROVE s \in Seq(Y)
<1>1. Len(s) \in Nat /\ s \in [1..Len(s) -> X]
  OBVIOUS
<1>2. s \in [1..Len(s) -> Y]
  BY <1>1
<1> QED
  BY <1>1, <1>2

\* Selection, of sequences of integers.
LEMMA Selecting ==
  ASSUME NEW S
  PROVE  /\ Selected(<<>>, S) = <<>>
         /\ \A s \in Seq(Int) : Selected(s, S) \in Seq(Int)
         /\ \A s, t \in Seq(Int) : Selected(s \o t, S) = Selected(s, S) \o Selected(t, S)
<1>1. \A s \in Seq(Int) : Selected(s, S) \in Seq(Int \intersect S)
  BY SelectedType
<1>2. Seq(Int \intersect S) \subseteq Seq(Int)
  BY SeqOver
<1>3. \A s, t \in Seq(Int) : Selected(s \o t, S) = Selected(s, S) \o Selected(t, S)
  BY SelectedConcat
<1> QED
  BY <1>1, <1>2, <1>3, SelectedEmpty

\* A single item, selected.
LEMMA SelectedOne ==
  ASSUME NEW x \in Int, NEW S
  PROVE  /\ <<x>> \in Seq(Int)
         /\ x \in S => Selected(<<x>>, S) = <<x>>
         /\ x \notin S => Selected(<<x>>, S) = <<>>
<1>1. <<x>> = Append(<<>>, x) /\ <<>> \in Seq(Int) /\ <<x>> \in Seq(Int)
  OBVIOUS
<1>2. Selected(<<>>, S) = <<>>
  BY SelectedEmpty
<1>3. Selected(Append(<<>>, x), S) = IF x \in S THEN Append(Selected(<<>>, S), x) ELSE Selected(<<>>, S)
  BY ONLY <1>1, x \in Int, SelectedNext
<1> QED
  BY ONLY <1>1, <1>2, <1>3

\* A sequence is one over its own elements.
LEMMA SeqOfElements ==
  ASSUME NEW X, NEW s \in Seq(X), NEW Y, \A i \in DOMAIN s : s[i] \in Y
  PROVE  s \in Seq(Y)
<1>1. Len(s) \in Nat /\ DOMAIN s = 1..Len(s) /\ s \in [1..Len(s) -> X]
  OBVIOUS
<1>2. s \in [1..Len(s) -> Y]
  BY <1>1
<1> QED
  BY <1>1, <1>2

\* What is selected was there.
LEMMA SelectedFrom ==
  ASSUME NEW X, NEW s \in Seq(X), NEW S
  PROVE  \A j \in DOMAIN Selected(s, S) : Selected(s, S)[j] \in S /\ \E i \in DOMAIN s : s[i] = Selected(s, S)[j]
<1> DEFINE Y == {s[i] : i \in DOMAIN s}
<1>1. s \in Seq(Y)
  BY SeqOfElements
<1>2. \A y \in Y : \E i \in DOMAIN s : s[i] = y
  OBVIOUS
<1> HIDE DEF Y
<1>3. Selected(s, S) \in Seq(Y \intersect S)
  BY <1>1, SelectedType
<1> DEFINE t == Selected(s, S)
<1> HIDE DEF t
<1>4. \A j \in DOMAIN t : t[j] \in Y \intersect S
  BY <1>3 DEF t
<1> QED
  BY <1>2, <1>4 DEF t

\* Selection leaves what is distinct so.
LEMMA SelectedDistinct ==
  ASSUME NEW X, NEW S
  PROVE  \A s \in Seq(X) : Distinct(s) => Distinct(Selected(s, S))
<1> DEFINE A == {s \in Seq(X) : Distinct(s) => Distinct(Selected(s, S))}
<1>1. <<>> \in A
  <2>1. Selected(<<>>, S) = <<>> /\ Distinct(<<>>) /\ <<>> \in Seq(X)
    BY SelectedEmpty DEF Distinct
  <2> QED
    BY <2>1
<1>2. ASSUME NEW s \in Seq(X), NEW x \in X, s \in A PROVE Append(s, x) \in A
  <2>1. Append(s, x) \in Seq(X)
    OBVIOUS
  <2> SUFFICES ASSUME Distinct(Append(s, x)) PROVE Distinct(Selected(Append(s, x), S))
    BY <2>1
  <2>2. /\ Len(s) \in Nat /\ DOMAIN s = 1..Len(s) /\ DOMAIN Append(s, x) = 1..(Len(s) + 1)
        /\ Append(s, x)[Len(s) + 1] = x /\ \A i \in 1..Len(s) : Append(s, x)[i] = s[i]
    OBVIOUS
  <2>3. /\ \A i \in DOMAIN s : i \in DOMAIN Append(s, x) /\ i # Len(s) + 1
        /\ Len(s) + 1 \in DOMAIN Append(s, x)
    BY <2>2
  <2>4. Distinct(s) /\ \A i \in DOMAIN s : s[i] # x
    BY <2>2, <2>3 DEF Distinct
  <2>5. Distinct(Selected(s, S)) /\ Selected(s, S) \in Seq(X \intersect S)
    BY <1>2, <2>4, SelectedType
  <2>6. \A j \in DOMAIN Selected(s, S) : Selected(s, S)[j] # x
    BY <2>4, SelectedFrom
  <2>7. CASE x \in S
    <3>1. Selected(Append(s, x), S) = Append(Selected(s, S), x) /\ x \in X \intersect S
      BY <2>7, SelectedNext
    <3> DEFINE t == Selected(s, S)
               Y == X \intersect S
    <3>2. t \in Seq(Y) /\ Distinct(t) /\ x \in Y /\ \A j \in DOMAIN t : t[j] # x
      BY <2>5, <2>6, <3>1
    <3> HIDE DEF t, Y
    <3>3. Distinct(Append(t, x))
      BY ONLY <3>2, DistinctAppend
    <3> QED
      BY <3>1, <3>3 DEF t
  <2>8. CASE x \notin S
    BY <2>5, <2>8, SelectedNext
  <2> QED
    BY <2>7, <2>8
<1> HIDE DEF A
<1>3. \A s \in Seq(X) : s \in A
  BY <1>1, <1>2, Sequential
<1> QED
  BY <1>3 DEF A

\* Nothing is selected of what is elsewhere.
LEMMA SelectedNone ==
  ASSUME NEW X, NEW S, X \intersect S = {}
  PROVE  \A s \in Seq(X) : Selected(s, S) = <<>>
<1> TAKE s \in Seq(X)
<1>1. Selected(s, S) \in Seq({})
  BY SelectedType
<1>2. \A t \in Seq({}) : t = <<>>
  OBVIOUS
<1> QED
  BY <1>1, <1>2

\* R has the elements of v and, but for 0, no others; no element of s is 0.
Covers(R, v) == (\A x \in R : x # 0 => Among(x, v)) /\ (\A i \in DOMAIN v : v[i] \in R)
NonZero(s) == \A i \in DOMAIN s : s[i] # 0

\* Three sequences in a row.
Middle(u, v, w) == u \o (v \o w)

\* The three have no element in common, and R has those of the second.
TellsApart(R, u, v, w) ==
  /\ u \in Seq(Nat) /\ v \in Seq(Nat) /\ w \in Seq(Nat) /\ Distinct(Middle(u, v, w))
  /\ Covers(R, v) /\ NonZero(u) /\ NonZero(w)

\* Without R, what remains is the first and the last.
LeavesOut(R, u, v, w) == Selected(Middle(u, v, w), Nat \ R) = u \o w

\* Of distinct elements, those in the middle are left out by leaving out their values.
LEMMA MiddleLeftOut ==
  ASSUME NEW R, NEW u, NEW v, NEW w, TellsApart(R, u, v, w)
  PROVE  LeavesOut(R, u, v, w)
<1> DEFINE y == v \o w
           a == Len(u)
           b == Len(v)
           c == Len(w)
<1>1. /\ a \in Nat /\ b \in Nat /\ c \in Nat /\ DOMAIN u = 1..a /\ DOMAIN v = 1..b /\ DOMAIN w = 1..c
      /\ u \in Seq(Nat) /\ v \in Seq(Nat) /\ w \in Seq(Nat)
  BY DEF TellsApart
<1>0. /\ (\A x \in R : x # 0 => \E i \in 1..b : v[i] = x) /\ (\A i \in DOMAIN v : v[i] \in R)
      /\ (\A i \in 1..a : i \in DOMAIN u /\ u[i] \in Nat /\ u[i] # 0)
      /\ (\A i \in 1..c : i \in DOMAIN w /\ w[i] \in Nat /\ w[i] # 0)
      /\ Distinct(u \o y)
  <2>1. u \in [1..a -> Nat] /\ w \in [1..c -> Nat]
    BY <1>1
  <2>2. /\ u \in Seq(Nat) /\ v \in Seq(Nat) /\ w \in Seq(Nat) /\ Distinct(u \o y)
        /\ Covers(R, v) /\ NonZero(u) /\ NonZero(w)
    BY DEF TellsApart, Middle
  <2> HIDE DEF y, a, b, c
  <2>3. (\A x \in R : x # 0 => \E i \in 1..b : v[i] = x) /\ (\A i \in DOMAIN v : v[i] \in R)
    BY <1>1, <2>2 DEF Covers, Among
  <2>4. \A i \in 1..a : i \in DOMAIN u /\ u[i] \in Nat /\ u[i] # 0
    BY <1>1, <2>1, <2>2 DEF NonZero
  <2>5. \A i \in 1..c : i \in DOMAIN w /\ w[i] \in Nat /\ w[i] # 0
    BY <1>1, <2>1, <2>2 DEF NonZero
  <2> QED
    BY <2>2, <2>3, <2>4, <2>5
<1>2. y \in Seq(Nat) /\ Len(y) = b + c /\ \A i \in 1..(b + c) : y[i] = IF i <= b THEN v[i] ELSE w[i - b]
  BY <1>1, ConcatProperties
<1> HIDE DEF y, a, b, c
<1>3. /\ u \o y \in Seq(Nat) /\ Len(u \o y) = a + (b + c)
      /\ \A i \in 1..(a + (b + c)) : (u \o y)[i] = IF i <= a THEN u[i] ELSE y[i - a]
  <2>1. /\ u \o y \in Seq(Nat) /\ Len(u \o y) = Len(u) + Len(y)
        /\ \A i \in 1..(Len(u) + Len(y)) : (u \o y)[i] = IF i <= Len(u) THEN u[i] ELSE y[i - Len(u)]
    BY <1>1, <1>2, ConcatProperties
  <2> QED
    BY <1>2, <2>1 DEF a
<1>4. \A i \in 1..a : i \in 1..(a + (b + c)) /\ (u \o y)[i] = u[i]
  BY <1>1, <1>3
<1>5. ASSUME NEW i \in 1..b PROVE a + i \in 1..(a + (b + c)) /\ (u \o y)[a + i] = v[i]
  <2>1. a + i \in 1..(a + (b + c)) /\ ~(a + i <= a) /\ (a + i) - a = i /\ i \in 1..(b + c) /\ i <= b
    BY <1>1
  <2> QED
    BY <1>2, <1>3, <2>1
<1>6. ASSUME NEW i \in 1..c PROVE a + (b + i) \in 1..(a + (b + c)) /\ (u \o y)[a + (b + i)] = w[i]
  <2> DEFINE q == b + i
             p == a + q
  <2>1. q \in 1..(b + c) /\ ~(q <= b) /\ q - b = i
    BY <1>1
  <2>2. b + c \in Nat /\ q \in Nat
    BY <1>1
  <2> HIDE DEF q
  <2>3. p \in 1..(a + (b + c)) /\ ~(p <= a) /\ p - a = q
    BY <1>1, <2>1, <2>2
  <2> HIDE DEF p
  <2>4. (u \o y)[p] = y[q]
    BY <1>3, <2>3
  <2>5. y[q] = w[i]
    BY <1>2, <2>1
  <2> QED
    BY <2>3, <2>4, <2>5 DEF p, q
<1>7. \A i, j \in 1..(a + (b + c)) : (u \o y)[i] = (u \o y)[j] => i = j
  <2>1. DOMAIN (u \o y) = 1..(a + (b + c)) /\ Distinct(u \o y)
    BY <1>0, <1>1, <1>3
  <2> QED
    BY <2>1 DEF Distinct
<1>8. ASSUME NEW i \in 1..a PROVE u[i] \in Nat \ R
  <2>1. \A k \in 1..b : u[i] # v[k]
    <3> TAKE k \in 1..b
    <3>1. i # a + k
      BY <1>1
    <3> QED
      BY <1>4, <1>5, <1>7, <3>1
  <2> QED
    BY <1>0, <2>1
<1>9. ASSUME NEW i \in 1..c PROVE w[i] \in Nat \ R
  <2> DEFINE p == a + (b + i)
  <2>1. p \in 1..(a + (b + c)) /\ (u \o y)[p] = w[i]
    BY <1>6
  <2>2. \A k \in 1..b : p # a + k
    BY <1>1
  <2> HIDE DEF p
  <2>3. \A k \in 1..b : w[i] # v[k]
    <3> TAKE k \in 1..b
    <3>1. a + k \in 1..(a + (b + c)) /\ (u \o y)[a + k] = v[k]
      BY <1>5
    <3>2. p # a + k
      BY <2>2
    <3> QED
      BY ONLY <1>7, <2>1, <3>1, <3>2
  <2> QED
    BY <1>0, <2>3
<1> DEFINE S == Nat \ R
<1>10. u \in Seq(S) /\ w \in Seq(S)
  BY <1>1, <1>8, <1>9, SeqOfElements
<1>11. v \in Seq(R) /\ R \intersect S = {}
  BY <1>0, <1>1, SeqOfElements
<1> HIDE DEF S
<1>12. Selected(u, S) = u /\ Selected(w, S) = w
  BY <1>10, SelectedAll
<1>13. Selected(v, S) = <<>>
  BY <1>11, SelectedNone
<1>14. \A s, t \in Seq(Nat) : Selected(s \o t, S) = Selected(s, S) \o Selected(t, S)
  BY SelectedConcat
<1>15. Selected(y, S) = <<>> \o w
  <2>1. Selected(v \o w, S) = Selected(v, S) \o Selected(w, S)
    BY <1>1, <1>14
  <2> QED
    BY ONLY <1>12, <1>13, <2>1 DEF y
<1>16. <<>> \o w = w
  BY <1>1, Regrouped
<1>17. Selected(u \o y, S) = Selected(u, S) \o Selected(y, S)
  BY <1>1, <1>2, <1>14
<1>18. Selected(u \o y, S) = u \o w
  BY ONLY <1>12, <1>15, <1>16, <1>17
<1> QED
  BY <1>18 DEF y, S, Middle, LeavesOut

-----------------------------------------------------------------------------
(* The reader                                                              *)

\* What the types of the reader do not say of single variables.
ReaderTypes ==
  /\ queue \in Seq(Buffers) /\ Distinct(queue) /\ Len(queue) <= MaxTransfers
  /\ result \in [Buffers -> Q!Results]
  /\ content \in [Buffers -> Seq(1..MaxSent)]
  /\ \A b \in Buffers : Len(content[b]) <= TransferSize
  /\ num_transfers \in 0..MaxTransfers
  /\ call \in (Ways \intersect Way) \union {"none"}
  /\ sent \in Seq(0..MaxSent) /\ got \in Seq(Items)

\* The position is in the buffer, or far behind the end the program was told of.
ReadingInv ==
  /\ reading \in [buf : Buffers \union {NoBuffer}, pos : Nat, status : Q!Results]
  /\ ~Q!Queued(reading.buf)
  /\ reading.buf = NoBuffer => reading = NoReading
  /\ reading.pos \in 0..Len(Data) \/ (reading.pos = FarEnd /\ ~HasError)

\* A pending transfer has received nothing, and those behind it neither.
PendingInv ==
  \A i \in DOMAIN queue : result[queue[i]] = "pending" =>
    /\ content[queue[i]] = <<>>
    /\ \A j \in DOMAIN queue : j > i => content[queue[j]] = <<>> /\ result[queue[j]] # "ok"

\* The end of the short packet that a transfer received, and of the one being read.
ShortEnd(b) == IF result[b] = "ok" /\ Len(content[b]) < TransferSize THEN <<End>> ELSE <<>>
EndAhead ==
  IF reading.buf # NoBuffer /\ reading.status = "ok" /\ reading.pos < TransferSize /\ Len(Data) < TransferSize
  THEN <<End>> ELSE <<>>

\* The items of S that are ahead in what is read, and those in each buffer.
Ahead(S) == Selected(Remaining \o EndAhead, S)
Within(S) == [b \in Buffers |-> Selected(content[b] \o ShortEnd(b), S)]

\* The items of S that the program has been given, those ahead and those in the queue are
\* those the device has sent.
Conserved(S) ==
  Selected(got, S) \o (Ahead(S) \o Gathered(queue, Within(S))) = Selected(sent, S)

\* The bytes, and the ends of messages if none is dropped by AsyncBufRead.
Kinds(S) == S = Nat \ {End} \/ (S = Nat /\ "messageAsyncBuf" \notin Ways)

ReaderInv == ReaderTypes /\ ReadingInv /\ PendingInv

\* The sizes are positive, and the end of a message is no byte.
LEMMA Sizes ==
  /\ TransferSize \in Nat /\ TransferSize > 0 /\ PacketSize \in Nat /\ MaxSent \in Nat
  /\ FarEnd \in Nat /\ FarEnd > TransferSize
  /\ Seq(1..MaxSent) \subseteq Seq(Int) /\ Seq(Items) \subseteq Seq(Int) /\ Seq(0..MaxSent) \subseteq Seq(Int)
  /\ NoBuffer \notin Buffers
<1>1. TransferSize \in Nat /\ TransferSize > 0 /\ PacketSize \in Nat /\ MaxSent \in Nat
  BY SizeAssumption, BoundAssumption
<1>2. 1..MaxSent \subseteq Int /\ Items \subseteq Int /\ 0..MaxSent \subseteq Int
  BY <1>1 DEF Items, Cut
<1>3. Seq(1..MaxSent) \subseteq Seq(Int) /\ Seq(Items) \subseteq Seq(Int) /\ Seq(0..MaxSent) \subseteq Seq(Int)
  BY <1>2, SeqOver
<1> QED
  BY <1>1, <1>3, BufferAssumption DEF FarEnd

\* What the reader holds is within the buffer.
LEMMA ReadingFacts ==
  ASSUME ReaderTypes, ReadingInv
  PROVE  /\ Data \in Seq(Int) /\ Len(Data) \in 0..TransferSize
         /\ Remaining \in Seq(Int) /\ EndAhead \in Seq(Int)
         /\ reading.pos \in Nat /\ Len(Data) \in Nat
         /\ reading.pos >= Len(Data) => Remaining = <<>>
<1> USE Sizes
<1>1. Data \in Seq(1..MaxSent) /\ Len(Data) <= TransferSize
  <2>1. CASE reading.buf = NoBuffer
    BY <2>1 DEF Data
  <2>2. CASE reading.buf # NoBuffer
    <3>1. reading.buf \in Buffers
      BY <2>2 DEF ReadingInv
    <3> QED
      BY <2>2, <3>1 DEF Data, ReaderTypes
  <2> QED
    BY <2>1, <2>2
<1>2. Data \in Seq(Int) /\ Len(Data) \in Nat
  BY <1>1
<1>3. reading.pos \in Nat
  BY DEF ReadingInv
<1>4. Remaining \in Seq(Int) /\ (reading.pos >= Len(Data) => Remaining = <<>>)
  <2> HIDE DEF Data
  <2> QED
    BY <1>2, <1>3 DEF Remaining
<1>5. EndAhead \in Seq(Int)
  BY DEF EndAhead, End
<1> QED
  BY <1>1, <1>2, <1>3, <1>4, <1>5

\* Within is a function from buffers to sequences.
LEMMA WithinType == ASSUME ReaderTypes, NEW S PROVE Within(S) \in Contents(Buffers, Int)
<1>1. ASSUME NEW b \in Buffers PROVE Selected(content[b] \o ShortEnd(b), S) \in Seq(Int)
  <2>1. content[b] \in Seq(Int) /\ ShortEnd(b) \in Seq(Int)
    BY Sizes DEF ReaderTypes, ShortEnd, End
  <2>2. content[b] \o ShortEnd(b) \in Seq(Int)
    BY <2>1, Regrouped
  <2> QED
    BY <2>2, Selecting
<1> QED
  BY <1>1 DEF Within, Contents

\* When the reader waits, nothing is left to read, and the end of the message is passed
\* over or was read.
LEMMA WaitingFacts ==
  ASSUME ReaderTypes, ReadingInv, Waiting, NEW S, Kinds(S)
  PROVE  /\ Remaining = <<>>
         /\ PassedOver \in Seq(Int)
         /\ Selected(PassedOver, S) = Ahead(S)
<1> USE Sizes
<1>1. Len(Data) \in 0..TransferSize /\ reading.pos \in Nat
  BY ReadingFacts
<1>2. reading.buf = NoBuffer \/ reading.pos >= Len(Data)
  <2>1. ~HasRemainingOrShortEnd \/ ~HasRemaining
    BY DEF Waiting, Filled
  <2> QED
    BY <1>1, <2>1 DEF HasRemaining, HasRemainingOrShortEnd
<1>3. reading.buf = NoBuffer => Len(Data) = 0
  BY DEF Data
<1>4. Remaining = <<>>
  BY <1>1, <1>2, <1>3, ReadingFacts
<1>5. PassedOver \in Seq(Int) /\ EndAhead \in Seq(Int)
  BY DEF PassedOver, EndAhead, End
<1>6. Ahead(S) = Selected(EndAhead, S)
  <2>1. Remaining \o EndAhead = EndAhead
    BY <1>4, <1>5, Regrouped
  <2> QED
    BY <2>1 DEF Ahead
<1>7. ASSUME S = Nat \ {End} PROVE Selected(PassedOver, S) = Ahead(S)
  <2>1. Selected(<<End>>, S) = <<>>
    <3>1. <<End>> = Append(<<>>, End) /\ <<>> \in Seq(Int) /\ End \in Int /\ End \notin S
      BY <1>7 DEF End
    <3>2. Selected(Append(<<>>, End), S) = Selected(<<>>, S)
      BY ONLY <3>1, SelectedNext
    <3> QED
      BY <3>1, <3>2, SelectedEmpty
  <2>2. PassedOver \in {<<>>, <<End>>} /\ EndAhead \in {<<>>, <<End>>}
    BY DEF PassedOver, EndAhead
  <2>3. Selected(<<>>, S) = <<>>
    BY SelectedEmpty
  <2> QED
    BY ONLY <1>6, <2>1, <2>2, <2>3
<1>8. ASSUME "messageAsyncBuf" \notin Ways PROVE Selected(PassedOver, S) = Ahead(S)
  <2>1. call \in {"plain", "message", "messageBuf"}
    BY <1>8 DEF Waiting, ReaderTypes, Way
  <2>2. CASE call = "plain"
    <3>1. ~HasRemaining
      BY <2>2 DEF Waiting, Filled
    <3>2. reading.buf # NoBuffer => reading.pos >= Len(Data)
      BY <1>1, <3>1 DEF HasRemaining
    <3>3. PassedOver = EndAhead
      BY <1>1, <2>2, <3>2 DEF PassedOver, EndAhead
    <3> QED
      BY <1>6, <3>3
  <2>3. CASE call # "plain"
    <3>1. ~HasRemainingOrShortEnd
      BY <2>1, <2>3 DEF Waiting, Filled
    <3>2. PassedOver = <<>> /\ EndAhead = <<>>
      BY <1>1, <2>3, <3>1 DEF PassedOver, EndAhead, HasRemainingOrShortEnd
    <3> QED
      BY <1>6, <3>2
  <2> QED
    BY <2>2, <2>3
<1> QED
  BY <1>4, <1>5, <1>7, <1>8 DEF Kinds

\* The contents, and what they are within S.
LEMMA WithinIs ==
  ASSUME NEW S
  PROVE  /\ \A b \in Buffers : Within(S)[b] = Selected(content[b] \o ShortEnd(b), S)
         /\ \A b \in Buffers : Within(S)'[b] = Selected(content'[b] \o ShortEnd(b)', S)
BY DEF Within

\* Within is a function after a step, too.
LEMMA WithinNext == ASSUME ReaderTypes', NEW S PROVE Within(S)' \in Contents(Buffers, Int)
<1>1. (ReaderTypes => Within(S) \in Contents(Buffers, Int))'
  BY WithinType, PTL
<1> QED
  BY <1>1

\* What submitting a buffer changes, and what it does not.
LEMMA Submitted ==
  ASSUME ReaderTypes, PendingInv, NEW b \in Buffers, Q!Submit(b), content' = [content EXCEPT ![b] = <<>>]
  PROVE  /\ queue' = Append(queue, b) /\ queue' \in Seq(Buffers) /\ Distinct(queue')
         /\ Len(queue') = Len(queue) + 1
         /\ result' \in [Buffers -> Q!Results] /\ result'[b] # "ok"
         /\ \A a \in Buffers : a # b => result'[a] = result[a] /\ content'[a] = content[a]
         /\ content' \in [Buffers -> Seq(1..MaxSent)] /\ content'[b] = <<>>
         /\ \A a \in Buffers : Len(content'[a]) <= TransferSize
         /\ PendingInv'
<1> USE Sizes
<1>1. /\ queue \in Seq(Buffers) /\ Distinct(queue) /\ \A i \in DOMAIN queue : queue[i] # b
      /\ queue' = Append(queue, b)
  BY DEF ReaderTypes, Q!Submit, Q!Queued
<1>2. queue' \in Seq(Buffers) /\ Distinct(queue') /\ Len(queue') = Len(queue) + 1
  BY <1>1, DistinctAppend
<1>3. /\ result' \in [Buffers -> Q!Results] /\ result'[b] # "ok"
      /\ \A a \in Buffers : a # b => result'[a] = result[a]
  <2>1. PICK r \in {"pending", "error", "invalid"} : result' = [result EXCEPT ![b] = r]
    BY DEF Q!Submit
  <2> QED
    BY <2>1 DEF ReaderTypes, Q!Results
<1>4. /\ content' \in [Buffers -> Seq(1..MaxSent)] /\ content'[b] = <<>>
      /\ \A a \in Buffers : a # b => content'[a] = content[a]
  BY DEF ReaderTypes
<1>5. \A a \in Buffers : Len(content'[a]) <= TransferSize
  BY <1>4 DEF ReaderTypes
<1>6. /\ Len(queue) \in Nat /\ DOMAIN queue = 1..Len(queue) /\ DOMAIN queue' = 1..(Len(queue) + 1)
      /\ queue'[Len(queue) + 1] = b
      /\ \A i \in 1..Len(queue) : queue'[i] = queue[i] /\ queue[i] \in Buffers
  BY <1>1
<1>7. ASSUME NEW i \in DOMAIN queue', result'[queue'[i]] = "pending",
             NEW j \in DOMAIN queue', j > i
      PROVE  content'[queue'[i]] = <<>> /\ content'[queue'[j]] = <<>> /\ result'[queue'[j]] # "ok"
  <2>1. i \in DOMAIN queue /\ (j = Len(queue) + 1 \/ j \in DOMAIN queue)
    BY <1>6, <1>7
  <2>2. /\ queue'[i] = queue[i] /\ queue[i] \in Buffers /\ queue[i] # b
        /\ result[queue[i]] = "pending" /\ content'[queue[i]] = content[queue[i]]
    BY <1>1, <1>3, <1>4, <1>6, <1>7, <2>1
  <2>3. content[queue[i]] = <<>>
    BY <2>1, <2>2 DEF PendingInv
  <2>4. CASE j = Len(queue) + 1
    BY <1>3, <1>4, <1>6, <2>2, <2>3, <2>4
  <2>5. CASE j \in DOMAIN queue
    <3>1. content[queue[j]] = <<>> /\ result[queue[j]] # "ok"
      BY <1>7, <2>1, <2>2, <2>5 DEF PendingInv
    <3>2. queue'[j] = queue[j] /\ queue[j] \in Buffers /\ queue[j] # b
      BY <1>1, <1>6, <2>5
    <3> QED
      BY <1>3, <1>4, <2>2, <2>3, <3>1, <3>2
  <2> QED
    BY <2>1, <2>4, <2>5
<1>8. ASSUME NEW i \in DOMAIN queue', result'[queue'[i]] = "pending"
      PROVE  content'[queue'[i]] = <<>>
  <2>1. i = Len(queue) + 1 \/ i \in DOMAIN queue
    BY <1>6
  <2>2. CASE i = Len(queue) + 1
    BY <1>4, <1>6, <2>2
  <2>3. CASE i \in DOMAIN queue
    <3>1. /\ queue'[i] = queue[i] /\ queue[i] \in Buffers /\ queue[i] # b
          /\ result[queue[i]] = "pending" /\ content'[queue[i]] = content[queue[i]]
      BY <1>1, <1>3, <1>4, <1>6, <1>8, <2>3
    <3> QED
      BY <2>3, <3>1 DEF PendingInv
  <2> QED
    BY <2>1, <2>2, <2>3
<1>9. PendingInv'
  BY <1>7, <1>8 DEF PendingInv
<1> QED
  BY <1>1, <1>2, <1>3, <1>4, <1>5, <1>9

\* Nothing is gained or lost by it.
LEMMA SubmittedHolds ==
  ASSUME ReaderTypes, ReaderTypes', NEW b \in Buffers, \A i \in DOMAIN queue : queue[i] # b,
         queue' = Append(queue, b), result'[b] # "ok", content'[b] = <<>>,
         \A a \in Buffers : a # b => result'[a] = result[a] /\ content'[a] = content[a],
         NEW S
  PROVE  Gathered(queue', Within(S)') = Gathered(queue, Within(S))
<1>1. Within(S) \in Contents(Buffers, Int)
  BY WithinType
<1>3. Within(S)' \in Contents(Buffers, Int)
  BY WithinNext
<1>4. \A a \in Buffers : a # b => Within(S)'[a] = Within(S)[a]
  BY WithinIs DEF ShortEnd
<1>5. Within(S)'[b] = <<>>
  <2>1. ShortEnd(b)' = <<>> /\ content'[b] \o <<>> = <<>>
    BY DEF ShortEnd
  <2> QED
    BY <2>1, WithinIs, SelectedEmpty
<1>6. queue \in Seq(Buffers)
  BY DEF ReaderTypes
<1>7. Gathered(queue', Within(S)') = Gathered(queue, Within(S)) \o Within(S)'[b]
  <2> DEFINE g == Within(S)
             h == Within(S)'
  <2>1. g \in Contents(Buffers, Int) /\ h \in Contents(Buffers, Int) /\ \A a \in Buffers : a # b => h[a] = g[a]
    BY <1>1, <1>3, <1>4
  <2> HIDE DEF g, h
  <2>2. Gathered(Append(queue, b), h) = Gathered(queue, g) \o h[b]
    BY <1>6, <2>1, GatheredSubmit
  <2> QED
    BY <2>2 DEF g, h
<1>8. Gathered(queue, Within(S)) \in Seq(Int)
  BY <1>1, <1>6, GatheredType
<1> QED
  BY <1>5, <1>7, <1>8, Regrouped

\* A buffer is submitted to read into.
LEMMA StartReadStep ==
  ASSUME ReaderInv, NEW b \in Buffers, StartRead(b), NEW S, Kinds(S), Conserved(S)
  PROVE  ReaderInv' /\ Conserved(S)'
<1> USE Sizes DEF ReaderInv
<1>1. Q!Submit(b) /\ content' = [content EXCEPT ![b] = <<>>] /\ ~Q!Queued(b)
  BY DEF StartRead, Q!Submit
<1>2. /\ queue' = Append(queue, b) /\ queue' \in Seq(Buffers) /\ Distinct(queue')
      /\ Len(queue') = Len(queue) + 1
      /\ result' \in [Buffers -> Q!Results] /\ result'[b] # "ok"
      /\ \A a \in Buffers : a # b => result'[a] = result[a] /\ content'[a] = content[a]
      /\ content' \in [Buffers -> Seq(1..MaxSent)] /\ content'[b] = <<>>
      /\ \A a \in Buffers : Len(content'[a]) <= TransferSize
      /\ PendingInv'
  BY <1>1, Submitted
<1>3. Remaining = <<>> /\ PassedOver \in Seq(Int) /\ Selected(PassedOver, S) = Ahead(S)
  BY WaitingFacts DEF StartRead
<1>4. ReaderTypes'
  <2>1. Len(queue') <= MaxTransfers
    BY <1>2, BoundAssumption DEF StartRead, Enough, ReaderTypes
  <2>2. got' \in Seq(Items)
    <3>2. End \in Items
      BY DEF Items, Cut, End
    <3>1. PassedOver \in Seq(Items)
      <4> HIDE DEF Items
      <4>1. <<End>> \in Seq(Items) /\ <<>> \in Seq(Items)
        BY <3>2
      <4> QED
        BY <4>1 DEF PassedOver
    <3> QED
      BY <3>1, Regrouped DEF StartRead, ReaderTypes
  <2> QED
    BY <1>2, <2>1, <2>2 DEF StartRead, ReaderTypes
<1>5. reading' = NoReading
  BY DEF StartRead
<1>6. ReadingInv'
  <2>1. ~Q!Queued(NoBuffer)'
    BY <1>2 DEF Q!Queued
  <2>2. reading' \in [buf : Buffers \union {NoBuffer}, pos : Nat, status : Q!Results]
    BY <1>5 DEF NoReading, Q!Results
  <2>3. Data' = <<>> /\ reading'.pos = 0 /\ reading'.buf = NoBuffer
    BY <1>5 DEF Data, NoReading
  <2> QED
    BY <1>5, <2>1, <2>2, <2>3 DEF ReadingInv, Q!Queued
<1>7. Ahead(S)' = <<>>
  <2>1. Remaining' = <<>> /\ EndAhead' = <<>>
    BY <1>5 DEF Remaining, Data, EndAhead, NoReading
  <2> QED
    BY <2>1, SelectedEmpty DEF Ahead
<1>8. Gathered(queue', Within(S)') = Gathered(queue, Within(S))
  <2>1. \A i \in DOMAIN queue : queue[i] # b
    BY <1>1 DEF Q!Queued
  <2> QED
    BY <1>2, <1>4, <2>1, SubmittedHolds
<1>9. Conserved(S)'
  <2>1. got \in Seq(Int) /\ Gathered(queue, Within(S)) \in Seq(Int)
    BY WithinType, GatheredType DEF ReaderTypes
  <2>2. got' = got \o PassedOver /\ sent' = sent
    BY DEF StartRead
  <2>3. Selected(got', S) = Selected(got, S) \o Selected(PassedOver, S)
    BY <1>3, <2>1, <2>2, Selecting
  <2>4. Selected(got, S) \in Seq(Int) /\ Selected(PassedOver, S) \in Seq(Int)
    BY <1>3, <2>1, Selecting
  <2> DEFINE h == Gathered(queue, Within(S))
  <2>7. h \in Seq(Int)
    BY <2>1
  <2> HIDE DEF h
  <2>8. \A u, v, w \in Seq(Int) : (u \o v) \o w = u \o (v \o w)
    BY Regrouped
  <2>5. (Selected(got, S) \o Selected(PassedOver, S)) \o h
           = Selected(got, S) \o (Selected(PassedOver, S) \o h)
    BY ONLY <2>4, <2>7, <2>8
  <2>6. <<>> \o h = h
    BY <2>7, Regrouped
  <2> QED
    BY <1>3, <1>7, <1>8, <2>2, <2>3, <2>5, <2>6 DEF Conserved, h
<1> QED
  BY <1>2, <1>4, <1>6, <1>9

\* A buffer is submitted ahead.
LEMMA SubmitAheadStep ==
  ASSUME ReaderInv, NEW b \in Buffers, SubmitAhead(b), NEW S, Conserved(S)
  PROVE  ReaderInv' /\ Conserved(S)'
<1> USE Sizes DEF ReaderInv
<1>1. Q!Submit(b) /\ content' = [content EXCEPT ![b] = <<>>] /\ ~Q!Queued(b) /\ b # reading.buf
  BY DEF SubmitAhead, Q!Submit
<1>2. /\ queue' = Append(queue, b) /\ queue' \in Seq(Buffers) /\ Distinct(queue')
      /\ Len(queue') = Len(queue) + 1
      /\ result' \in [Buffers -> Q!Results] /\ result'[b] # "ok"
      /\ \A a \in Buffers : a # b => result'[a] = result[a] /\ content'[a] = content[a]
      /\ content' \in [Buffers -> Seq(1..MaxSent)] /\ content'[b] = <<>>
      /\ \A a \in Buffers : Len(content'[a]) <= TransferSize
      /\ PendingInv'
  BY <1>1, Submitted
<1>4. ReaderTypes'
  <2>1. Len(queue') <= MaxTransfers
    BY <1>2, BoundAssumption DEF SubmitAhead, Submitting, ReaderTypes
  <2> QED
    BY <1>2, <2>1 DEF SubmitAhead, ReaderTypes
<1>5. reading' = reading /\ got' = got /\ sent' = sent
  BY DEF SubmitAhead
<1>6. Data' = Data
  BY <1>1, <1>2, <1>5 DEF Data, ReadingInv
<1>7. ReadingInv'
  <2>1. ~Q!Queued(reading.buf)'
    <3>1. /\ Len(queue) \in Nat /\ DOMAIN queue = 1..Len(queue) /\ DOMAIN queue' = 1..(Len(queue) + 1)
          /\ queue'[Len(queue) + 1] = b /\ \A i \in 1..Len(queue) : queue'[i] = queue[i]
      BY <1>2 DEF ReaderTypes
    <3>2. \A i \in DOMAIN queue' : i = Len(queue) + 1 \/ i \in DOMAIN queue
      BY <3>1
    <3> QED
      BY <1>1, <1>5, <3>1, <3>2 DEF Q!Queued, ReadingInv
  <2> QED
    BY <1>5, <1>6, <2>1 DEF ReadingInv, HasError, Q!Queued
<1>8. Ahead(S)' = Ahead(S)
  BY <1>5, <1>6 DEF Ahead, Remaining, EndAhead
<1>9. Gathered(queue', Within(S)') = Gathered(queue, Within(S))
  <2>1. \A i \in DOMAIN queue : queue[i] # b
    BY <1>1 DEF Q!Queued
  <2> QED
    BY <1>2, <1>4, <2>1, SubmittedHolds
<1>10. Conserved(S)'
  BY <1>5, <1>8, <1>9 DEF Conserved
<1> QED
  BY <1>2, <1>4, <1>7, <1>10

\* The oldest transfer completes and is read from.
LEMMA CompleteStep ==
  ASSUME ReaderInv, Complete, NEW S, Kinds(S), Conserved(S)
  PROVE  ReaderInv' /\ Conserved(S)'
<1> USE Sizes DEF ReaderInv
<1> DEFINE h == Head(queue)
<1>1. /\ queue \in Seq(Buffers) /\ Distinct(queue) /\ queue # <<>> /\ queue' = Tail(queue)
      /\ result' = [result EXCEPT ![h] = "pending"]
  BY DEF Complete, Q!Return, Q!Pop, ReaderTypes
<1>2. /\ queue' \in Seq(Buffers) /\ h \in Buffers /\ h = queue[1] /\ 1 \in DOMAIN queue
      /\ Len(queue') = Len(queue) - 1 /\ Len(queue) \in Nat
      /\ Distinct(queue')
      /\ \A i \in DOMAIN queue' : i \in Nat /\ i + 1 \in DOMAIN queue /\ queue'[i] = queue[i + 1] /\ queue'[i] # h
  BY <1>1, DistinctTail
<1>3. /\ reading' = [buf |-> h, pos |-> 0, status |-> result[h]]
      /\ content' = [b \in Buffers |-> IF b = reading.buf THEN <<>> ELSE content[b]]
      /\ got' = got \o PassedOver /\ sent' = sent
  BY DEF Complete
<1> HIDE DEF h
<1>4. \A i \in DOMAIN queue : queue[i] \in Buffers /\ queue[i] # reading.buf
  BY <1>1 DEF ReadingInv, Q!Queued
<1>5. /\ \A i \in DOMAIN queue : content'[queue[i]] = content[queue[i]]
      /\ \A i \in DOMAIN queue : queue[i] # h => result'[queue[i]] = result[queue[i]]
  BY <1>1, <1>3, <1>4 DEF ReaderTypes
<1>6. Remaining = <<>> /\ PassedOver \in Seq(Int) /\ Selected(PassedOver, S) = Ahead(S)
  BY WaitingFacts DEF Complete
<1>7. content[h] \in Seq(1..MaxSent) /\ Len(content[h]) <= TransferSize /\ Len(content[h]) \in Nat
  BY <1>2 DEF ReaderTypes
<1>8. ReaderTypes'
  <2>1. Len(queue') <= MaxTransfers
    BY <1>2, BoundAssumption DEF ReaderTypes
  <2>2. got' \in Seq(Items)
    <3>2. End \in Items
      BY DEF Items, Cut, End
    <3>1. PassedOver \in Seq(Items)
      <4> HIDE DEF Items
      <4>1. <<End>> \in Seq(Items) /\ <<>> \in Seq(Items)
        BY <3>2
      <4> QED
        BY <4>1 DEF PassedOver
    <3> QED
      BY <1>3, <3>1, Regrouped DEF ReaderTypes
  <2>3. content' \in [Buffers -> Seq(1..MaxSent)] /\ \A b \in Buffers : Len(content'[b]) <= TransferSize
    <3>1. \A b \in Buffers : content'[b] = <<>> \/ content'[b] = content[b]
      BY <1>3
    <3>2. \A b \in Buffers : content'[b] \in Seq(1..MaxSent) /\ Len(content'[b]) <= TransferSize
      <4> TAKE b \in Buffers
      <4>1. content[b] \in Seq(1..MaxSent) /\ Len(content[b]) <= TransferSize
        BY DEF ReaderTypes
      <4>2. <<>> \in Seq(1..MaxSent) /\ Len(<<>>) <= TransferSize
        OBVIOUS
      <4> QED
        BY <3>1, <4>1, <4>2
    <3> QED
      BY <1>3, <3>2
  <2>4. result' \in [Buffers -> Q!Results]
    BY <1>1 DEF ReaderTypes, Q!Results
  <2> QED
    BY <1>2, <1>3, <2>1, <2>2, <2>3, <2>4 DEF Complete, ReaderTypes
<1>9. Data' = content[h]
  BY <1>2, <1>3, <1>5 DEF Data
<1>10. ReadingInv'
  <2>1. ~Q!Queued(reading.buf)'
    BY <1>2, <1>3 DEF Q!Queued
  <2>2. reading' \in [buf : Buffers \union {NoBuffer}, pos : Nat, status : Q!Results]
    BY <1>2, <1>3 DEF ReaderTypes
  <2>3. reading'.pos \in 0..Len(Data') /\ reading'.buf # NoBuffer
    BY <1>2, <1>3, <1>7, <1>9
  <2> QED
    BY <2>1, <2>2, <2>3 DEF ReadingInv, Q!Queued
<1>11. PendingInv'
  <2>1. ASSUME NEW i \in DOMAIN queue', result'[queue'[i]] = "pending"
        PROVE  /\ content'[queue'[i]] = <<>>
               /\ \A j \in DOMAIN queue' : j > i => content'[queue'[j]] = <<>> /\ result'[queue'[j]] # "ok"
    <3>1. i \in Nat /\ i + 1 \in DOMAIN queue /\ queue'[i] = queue[i + 1] /\ queue[i + 1] # h
      BY <1>2
    <3>2. result[queue[i + 1]] = "pending" /\ content'[queue'[i]] = content[queue[i + 1]]
      BY <1>5, <2>1, <3>1
    <3>3. ASSUME NEW j \in DOMAIN queue', j > i
          PROVE  content'[queue'[j]] = <<>> /\ result'[queue'[j]] # "ok"
      <4>1. j \in Nat /\ j + 1 \in DOMAIN queue /\ queue'[j] = queue[j + 1] /\ queue[j + 1] # h
        BY <1>2
      <4>2. j + 1 > i + 1
        BY <3>1, <3>3, <4>1
      <4>3. content[queue[j + 1]] = <<>> /\ result[queue[j + 1]] # "ok"
        BY <3>1, <3>2, <4>1, <4>2 DEF PendingInv
      <4> QED
        BY <1>5, <4>1, <4>3
    <3> QED
      BY <3>1, <3>2, <3>3 DEF PendingInv
  <2> QED
    BY <2>1 DEF PendingInv
<1>12. Ahead(S)' = Within(S)[h]
  <2>1. Remaining' = content[h]
    <3>1. \A s \in Seq(Int) : SubSeq(s, 0 + 1, Len(s)) = s
      BY SubSeqFull
    <3>2. Remaining' = SubSeq(content[h], 0 + 1, Len(content[h])) /\ content[h] \in Seq(Int)
      BY <1>3, <1>7, <1>9 DEF Remaining
    <3> QED
      BY ONLY <3>1, <3>2
  <2>2. EndAhead' = ShortEnd(h)
    BY <1>2, <1>3, <1>9 DEF EndAhead, ShortEnd
  <2>3. Ahead(S)' = Selected(content[h] \o ShortEnd(h), S)
    BY <2>1, <2>2 DEF Ahead
  <2> QED
    BY <1>2, <2>3, WithinIs
<1>13. Gathered(queue, Within(S)) = Within(S)[h] \o Gathered(queue', Within(S)')
  <2> DEFINE g == Within(S)
             k == Within(S)'
  <2>1. g \in Contents(Buffers, Int) /\ k \in Contents(Buffers, Int)
    BY <1>8, WithinType, WithinNext
  <2>2. \A i \in DOMAIN queue : queue[i] # Head(queue) => k[queue[i]] = g[queue[i]]
    BY <1>4, <1>5, WithinIs DEF ShortEnd, h
  <2> HIDE DEF g, k
  <2>3. Gathered(queue, g) = g[Head(queue)] \o Gathered(Tail(queue), k)
    BY <1>1, <2>1, <2>2, GatheredReturn
  <2> QED
    BY <1>1, <2>3 DEF g, k, h
<1>14. Conserved(S)'
  <2>1. got \in Seq(Int) /\ Gathered(queue', Within(S)') \in Seq(Int)
    BY <1>2, <1>8, WithinNext, GatheredType DEF ReaderTypes
  <2>2. Selected(got', S) = Selected(got, S) \o Selected(PassedOver, S)
    BY <1>3, <1>6, <2>1, Selecting
  <2>3. Selected(got, S) \in Seq(Int) /\ Selected(PassedOver, S) \in Seq(Int)
    BY <1>6, <2>1, Selecting
  <2>4. Within(S)[h] \in Seq(Int)
    BY <1>2, WithinType DEF Contents
  <2> DEFINE u == Selected(got, S)
             v == Selected(PassedOver, S)
             w == Within(S)[h]
             z == Gathered(queue', Within(S)')
  <2>5. u \in Seq(Int) /\ v \in Seq(Int) /\ w \in Seq(Int) /\ z \in Seq(Int)
    BY <2>1, <2>3, <2>4
  <2>6. Selected(sent, S) = u \o (v \o (w \o z))
    BY <1>6, <1>13 DEF Conserved
  <2>7. Conserved(S)' <=> (u \o v) \o (w \o z) = Selected(sent, S)
    BY <1>3, <1>12, <2>2 DEF Conserved
  <2> HIDE DEF u, v, w, z
  <2>8. (u \o v) \o (w \o z) = u \o (v \o (w \o z))
    <3> DEFINE y == w \o z
    <3>1. y \in Seq(Int)
      BY <2>5, Regrouped
    <3> HIDE DEF y
    <3>2. \A a, b, c \in Seq(Int) : (a \o b) \o c = a \o (b \o c)
      BY Regrouped
    <3>3. (u \o v) \o y = u \o (v \o y)
      BY ONLY <2>5, <3>1, <3>2, ZenonT(60)
    <3> QED
      BY <3>3 DEF y
  <2> QED
    BY <2>6, <2>7, <2>8
<1> QED
  BY <1>8, <1>10, <1>11, <1>14

\* The program takes from within the buffer: what is far behind its end is not filled.
LEMMA TakeBounds ==
  ASSUME ReaderInv, NEW k \in 0..TransferSize, Take(k)
  PROVE  reading.buf # NoBuffer /\ reading.pos \in 0..Len(Data) /\ SliceInBounds
<1> USE Sizes DEF ReaderInv
<1>1. Len(Data) \in 0..TransferSize /\ reading.pos \in Nat /\ Len(Data) \in Nat
  BY ReadingFacts
<1>3. reading.buf # NoBuffer /\ reading.pos \in 0..Len(Data)
  <2>1. HasRemaining \/ HasRemainingOrShortEnd
    BY DEF Take, Filled
  <2>2. reading.buf # NoBuffer /\ (reading.pos < TransferSize \/ HasError)
    BY <1>1, <2>1 DEF HasRemaining, HasRemainingOrShortEnd
  <2>3. reading.pos # FarEnd \/ HasError
    BY <2>2
  <2> QED
    BY <2>2, <2>3 DEF ReadingInv
<1>4. SliceInBounds
  BY <1>1, <1>3 DEF SliceInBounds
<1> QED
  BY <1>3, <1>4

\* fill_buf returns and the program takes a part of what there is.
LEMMA TakeStep ==
  ASSUME ReaderInv, NEW k \in 0..TransferSize, Take(k), NEW S, Conserved(S)
  PROVE  ReaderInv' /\ Conserved(S)'
<1> USE Sizes DEF ReaderInv
<1>1. /\ Data \in Seq(Int) /\ Len(Data) \in 0..TransferSize /\ reading.pos \in Nat /\ Len(Data) \in Nat
      /\ Remaining \in Seq(Int) /\ EndAhead \in Seq(Int)
  BY ReadingFacts
<1>2. /\ UNCHANGED <<queue, result, content, num_transfers, sent>>
      /\ call' = "none" /\ k \in Nat /\ k <= Len(Remaining)
  BY DEF Take, endpoint
<1>3. reading.buf # NoBuffer /\ reading.pos \in 0..Len(Data)
  BY TakeBounds
<1>5. PendingInv'
  BY <1>2 DEF PendingInv
<1>6. Within(S)' = Within(S)
  BY <1>2 DEF Within, ShortEnd
<1>7. CASE UNCHANGED <<reading, got>>
  <2>1. ReaderTypes'
    BY <1>2, <1>7 DEF ReaderTypes
  <2>2. ReadingInv'
    BY <1>2, <1>7 DEF ReadingInv, Q!Queued, Data, HasError
  <2>3. Conserved(S)'
    BY <1>2, <1>6, <1>7 DEF Conserved, Ahead, Remaining, EndAhead, Data
  <2> QED
    BY <1>5, <2>1, <2>2, <2>3
<1>8. CASE reading' = [reading EXCEPT !.pos = @ + k] /\ got' = got \o SubSeq(Remaining, 1, k)
  <2>1. /\ reading'.buf = reading.buf /\ reading'.status = reading.status /\ reading'.pos = reading.pos + k
        /\ reading' \in [buf : Buffers \union {NoBuffer}, pos : Nat, status : Q!Results]
    <3>1. reading \in [buf : Buffers \union {NoBuffer}, pos : Nat, status : Q!Results]
      BY DEF ReadingInv
    <3>2. reading.pos + k \in Nat
      BY <1>1, <1>2
    <3> QED
      BY <1>8, <3>1, <3>2
  <2>2. Data' = Data
    BY <1>2, <2>1 DEF Data
  <2> DEFINE p == reading.pos
             s == Data
             c == SubSeq(Remaining, 1, k)
             t == SubSeq(s, p + k + 1, Len(s))
  <2>3. Remaining = SubSeq(s, p + 1, Len(s)) /\ Remaining' = t
    BY <2>1, <2>2 DEF Remaining
  <2>4. Len(Remaining) = Len(s) - p /\ c \in Seq(Int) /\ t \in Seq(Int) /\ c \o t = Remaining
    <3>1. s \in Seq(Int) /\ p \in 0..Len(s)
      BY <1>1, <1>3
    <3>2. Len(SubSeq(s, p + 1, Len(s))) = Len(s) - p
      BY <1>1, <3>1
    <3> HIDE DEF s, p
    <3>3. k <= Len(s) - p
      BY <1>2, <2>3, <3>2
    <3>4. LET r == SubSeq(s, p + 1, Len(s)) IN
         /\ r \in Seq(Int) /\ Len(r) = Len(s) - p
         /\ SubSeq(r, 1, k) \in Seq(Int)
         /\ SubSeq(s, p + k + 1, Len(s)) \in Seq(Int)
         /\ SubSeq(r, 1, k) \o SubSeq(s, p + k + 1, Len(s)) = r
      BY <1>2, <3>1, <3>3, Split
    <3> QED
      BY <2>3, <3>4
  <2>5. p + k \in 0..Len(s)
    <3>1. p \in Nat /\ p <= Len(s) /\ Len(s) \in Nat /\ k \in Nat /\ k <= Len(s) - p
      BY <1>1, <1>2, <1>3, <2>4
    <3> HIDE DEF p, s
    <3> QED
      BY <3>1
  <2>6. ReadingInv'
    <3>1. ~Q!Queued(reading.buf)'
      BY <1>2, <2>1 DEF ReadingInv, Q!Queued
    <3>2. reading'.buf # NoBuffer /\ reading'.pos \in 0..Len(Data')
      BY <1>3, <2>1, <2>2, <2>5
    <3> QED
      BY <2>1, <3>1, <3>2 DEF ReadingInv, Q!Queued
  <2>7. EndAhead' = EndAhead
    <3>1. Len(Data) < TransferSize => p < TransferSize /\ p + k < TransferSize
      BY <1>1, <1>2, <1>3, <2>5
    <3> QED
      BY <2>1, <2>2, <3>1 DEF EndAhead
  <2>8. got' \in Seq(Items)
    <3>1. Data \in Seq(1..MaxSent)
      BY <1>3 DEF Data, ReaderTypes, ReadingInv
    <3>2. Remaining \in Seq(1..MaxSent) /\ Len(Remaining) \in Nat
      <4> HIDE DEF Data
      <4> QED
        BY <1>1, <3>1, SMTT(20) DEF Remaining
    <3>3. SubSeq(Remaining, 1, k) \in Seq(1..MaxSent)
      <4> HIDE DEF Remaining
      <4> QED
        BY <1>2, <3>2
    <3>4. 1..MaxSent \subseteq Items
      BY DEF Items, Cut
    <3>5. c \in Seq(Items)
      BY <3>3, <3>4, SeqOver
    <3> QED
      BY <1>8, <3>5, Regrouped DEF ReaderTypes
  <2>9. ReaderTypes'
    BY <1>2, <2>8 DEF ReaderTypes
  <2>10. Conserved(S)'
    <3>1. got \in Seq(Int) /\ Gathered(queue, Within(S)) \in Seq(Int)
      BY WithinType, GatheredType DEF ReaderTypes
    <3> DEFINE u == Selected(got, S)
               v == Selected(c, S)
               a == Selected(t \o EndAhead, S)
               z == Gathered(queue, Within(S))
    <3> HIDE DEF c, t
    <3>2. u \in Seq(Int) /\ v \in Seq(Int) /\ a \in Seq(Int) /\ t \o EndAhead \in Seq(Int)
      BY <1>1, <2>4, <3>1, Selecting, Regrouped
    <3>3. Selected(got', S) = u \o v
      BY <1>8, <2>4, <3>1, Selecting DEF c
    <3>4. Remaining \o EndAhead = c \o (t \o EndAhead)
      <4>1. \A w1, w2, w3 \in Seq(Int) : (w1 \o w2) \o w3 = w1 \o (w2 \o w3)
        BY Regrouped
      <4>2. (c \o t) \o EndAhead = c \o (t \o EndAhead)
        <5>1. c \in Seq(Int) /\ t \in Seq(Int) /\ EndAhead \in Seq(Int)
          BY <1>1, <2>4
        <5> QED
          BY ONLY <4>1, <5>1
      <4> QED
        BY ONLY <2>4, <4>2
    <3>5. Ahead(S) = v \o a
      <4> DEFINE r == t \o EndAhead
      <4>1. r \in Seq(Int)
        BY <3>2
      <4> HIDE DEF r
      <4>2. Selected(c \o r, S) = Selected(c, S) \o Selected(r, S)
        BY <2>4, <4>1, Selecting
      <4> QED
        BY <3>4, <4>2 DEF Ahead, r
    <3>6. Ahead(S)' = a
      BY <2>3, <2>7 DEF Ahead
    <3>7. Gathered(queue', Within(S)') = z
      BY <1>2, <1>6
    <3>8. Selected(sent, S) = u \o ((v \o a) \o z)
      BY <3>5 DEF Conserved
    <3>9. Conserved(S)' <=> (u \o v) \o (a \o z) = Selected(sent, S)
      BY <1>2, <3>3, <3>6, <3>7 DEF Conserved
    <3>10. u \in Seq(Int) /\ v \in Seq(Int) /\ a \in Seq(Int) /\ z \in Seq(Int)
      BY <3>1, <3>2
    <3> HIDE DEF u, v, a, z
    <3>12. (u \o v) \o (a \o z) = u \o ((v \o a) \o z)
      <4> DEFINE y == a \o z
      <4>1. y \in Seq(Int)
        BY <3>10, Regrouped
      <4>2. \A w1, w2, w3 \in Seq(Int) : (w1 \o w2) \o w3 = w1 \o (w2 \o w3)
        BY Regrouped
      <4>3. (v \o a) \o z = v \o y
        BY ONLY <3>10, <4>2, ZenonT(60)
      <4> HIDE DEF y
      <4>4. (u \o v) \o y = u \o (v \o y)
        BY ONLY <3>10, <4>1, <4>2, ZenonT(60)
      <4> QED
        BY <4>3, <4>4 DEF y
    <3> QED
      BY <3>8, <3>9, <3>12
  <2> QED
    BY <1>5, <2>6, <2>9, <2>10
<1> QED
  BY <1>7, <1>8 DEF Take

\* Steps that move nothing.
LEMMA StillStep ==
  ASSUME ReaderInv, UNCHANGED <<queue, result, content, reading, sent, got>>,
         num_transfers' \in 0..MaxTransfers, call' \in (Ways \intersect Way) \union {"none"},
         NEW S, Conserved(S)
  PROVE  ReaderInv' /\ Conserved(S)'
<1>1. ReaderTypes'
  BY DEF ReaderInv, ReaderTypes
<1>2. ReadingInv'
  BY DEF ReaderInv, ReadingInv, Q!Queued, Data, HasError
<1>3. PendingInv'
  BY DEF ReaderInv, PendingInv
<1>4. Conserved(S)'
  BY DEF Conserved, Ahead, Remaining, EndAhead, Data, Within, ShortEnd
<1> QED
  BY <1>1, <1>2, <1>3, <1>4 DEF ReaderInv

\* The program goes on to the next message.
LEMMA ConsumeEndStep ==
  ASSUME ReaderInv, ConsumeEnd, NEW S, Kinds(S), Conserved(S)
  PROVE  ReaderInv' /\ Conserved(S)'
<1> USE Sizes DEF ReaderInv
<1> DEFINE e == IF reading.status = "cancelled" THEN Cut ELSE End
<1>1. /\ UNCHANGED <<queue, result, content, num_transfers, call, sent>>
      /\ reading' = [reading EXCEPT !.pos = FarEnd] /\ got' = Append(got, e)
  BY DEF ConsumeEnd, endpoint
<1>2. /\ Data \in Seq(Int) /\ Len(Data) \in 0..TransferSize /\ reading.pos \in Nat /\ Len(Data) \in Nat
      /\ Remaining \in Seq(Int) /\ EndAhead \in Seq(Int) /\ (reading.pos >= Len(Data) => Remaining = <<>>)
  BY ReadingFacts
<1>3. ~HasRemaining /\ HasRemainingOrShortEnd
  BY DEF ConsumeEnd, IsEnd
<1>4. /\ reading.buf # NoBuffer /\ reading.pos >= Len(Data) /\ ~HasError
      /\ reading.pos < TransferSize /\ reading.status \in {"ok", "cancelled"}
  BY <1>2, <1>3 DEF HasRemaining, HasRemainingOrShortEnd, HasError
<1>5. reading \in [buf : Buffers \union {NoBuffer}, pos : Nat, status : Q!Results]
  BY DEF ReadingInv
<1>6. /\ reading'.buf = reading.buf /\ reading'.status = reading.status /\ reading'.pos = FarEnd
      /\ reading' \in [buf : Buffers \union {NoBuffer}, pos : Nat, status : Q!Results]
  BY <1>1, <1>5
<1>7. Data' = Data
  BY <1>1, <1>6 DEF Data
<1>8. ReadingInv'
  <2>1. ~Q!Queued(reading.buf)'
    BY <1>1, <1>6 DEF ReadingInv, Q!Queued
  <2>2. FarEnd' = FarEnd /\ ~HasError'
    BY <1>4, <1>6 DEF HasError, FarEnd
  <2> QED
    BY <1>4, <1>6, <2>1, <2>2 DEF ReadingInv, Q!Queued
<1>9. ReaderTypes'
  <2>1. Cut \in Items /\ End \in Items
    BY DEF Items, Cut, End
  <2>2. got' \in Seq(Items)
    <3> HIDE DEF Items
    <3> QED
      BY <1>1, <2>1 DEF ReaderTypes
  <2> QED
    BY <1>1, <2>2 DEF ReaderTypes
<1>10. PendingInv' /\ Within(S)' = Within(S)
  BY <1>1 DEF PendingInv, Within, ShortEnd
<1>11. Ahead(S) = Selected(<<e>>, S) /\ Ahead(S)' = <<>>
  <2>1. Remaining = <<>> /\ Len(Data) < TransferSize
    BY <1>2, <1>4
  <2>2. Ahead(S) = Selected(EndAhead, S)
    BY <1>2, <2>1, Regrouped DEF Ahead
  <2>3. Selected(EndAhead, S) = Selected(<<e>>, S)
    <3>1. CASE reading.status = "ok"
      BY <1>4, <2>1, <3>1 DEF EndAhead
    <3>2. CASE reading.status = "cancelled"
      <4>1. EndAhead = <<>> /\ e = Cut
        BY <3>2 DEF EndAhead
      <4>2. Cut \in Int /\ Cut \notin S
        BY DEF Kinds, Cut
      <4>3. Selected(<<Cut>>, S) = <<>> /\ Selected(<<>>, S) = <<>>
        BY <4>2, SelectedOne, SelectedEmpty
      <4> QED
        BY <4>1, <4>3
    <3> QED
      BY <1>4, <3>1, <3>2
  <2>4. Remaining' = <<>>
    <3>1. Remaining' = SubSeq(Data, FarEnd + 1, Len(Data))
      BY <1>6, <1>7 DEF Remaining
    <3> HIDE DEF Data, FarEnd
    <3> QED
      BY <1>2, <3>1
  <2>5. EndAhead' = <<>>
    BY <1>6 DEF EndAhead
  <2>6. Ahead(S)' = <<>>
    BY <2>4, <2>5, SelectedEmpty DEF Ahead
  <2> QED
    BY <2>2, <2>3, <2>6
<1>12. Conserved(S)'
  <2>1. got \in Seq(Int) /\ Gathered(queue, Within(S)) \in Seq(Int)
    BY WithinType, GatheredType DEF ReaderTypes
  <2>2. <<e>> \in Seq(Int) /\ got' = got \o <<e>>
    <3>1. e \in Int
      BY DEF Cut, End
    <3> HIDE DEF e
    <3> QED
      BY <1>1, <2>1, <3>1
  <2> DEFINE u == Selected(got, S)
             v == Selected(<<e>>, S)
             z == Gathered(queue, Within(S))
  <2>3. u \in Seq(Int) /\ v \in Seq(Int) /\ z \in Seq(Int) /\ Selected(got', S) = u \o v
    BY <2>1, <2>2, Selecting
  <2>4. Conserved(S)' <=> (u \o v) \o (<<>> \o z) = Selected(sent, S)
    BY <1>1, <1>10, <1>11, <2>3 DEF Conserved
  <2>5. u \o (v \o z) = Selected(sent, S)
    BY <1>11 DEF Conserved
  <2> HIDE DEF u, v, z
  <2>6. <<>> \o z = z
    BY <2>3, Regrouped
  <2>7. \A a, b, c \in Seq(Int) : (a \o b) \o c = a \o (b \o c)
    BY Regrouped
  <2>8. (u \o v) \o z = u \o (v \o z)
    BY ONLY <2>3, <2>7
  <2> QED
    BY <2>4, <2>5, <2>6, <2>8
<1> QED
  BY <1>8, <1>9, <1>10, <1>12

\* What a transfer receives when it ends, and what the device has sent then.
Receipt(b, n, r, e) ==
  /\ Q!Finish(b, r) /\ r \in {"ok", "error", "cancelled"}
  /\ e = IF r = "ok" /\ n < TransferSize THEN <<End>> ELSE <<>>
  /\ n > 0 \/ r = "ok" => \A c \in Buffers : Q!Before(c, b) => result[c] # "pending"
  /\ content' = [content EXCEPT ![b] = NextBytes(n)]
  /\ sent' = sent \o (NextBytes(n) \o e)
  /\ Len(sent) + n < MaxSent
  /\ UNCHANGED <<reading, num_transfers, call, panicked, got>>

\* The next bytes are numbers that the histories may have.
LEMMA NextBytesType ==
  ASSUME ReaderTypes, NEW n \in Nat, Len(sent) + n < MaxSent
  PROVE  NextBytes(n) \in Seq(1..MaxSent) /\ Len(NextBytes(n)) = n
<1> USE Sizes
<1>1. sent \in Seq(Int)
  BY DEF ReaderTypes
<1>2. Len(Bytes(sent)) \in 0..Len(sent)
  BY <1>1, SelectedType DEF Bytes
<1>3. Len(sent) \in Nat
  BY <1>1
<1> DEFINE m == Len(Bytes(sent))
<1> HIDE DEF m
<1>4. m \in Nat /\ m + n <= MaxSent
  BY <1>2, <1>3 DEF m
<1>5. \A i \in 1..n : m + i \in 1..MaxSent
  BY <1>4
<1>6. NextBytes(n) = [i \in 1..n |-> m + i]
  BY DEF NextBytes, m
<1>7. NextBytes(n) \in [1..n -> 1..MaxSent]
  BY <1>5, <1>6
<1> QED
  BY <1>7

\* A transfer ends with what it received.
LEMMA ReceiptStep ==
  ASSUME ReaderInv, NEW b \in Buffers, NEW n \in 0..TransferSize, NEW r, NEW e, Receipt(b, n, r, e),
         NEW S, Conserved(S)
  PROVE  ReaderInv' /\ Conserved(S)'
<1> USE Sizes DEF ReaderInv
<1>1. /\ Q!Queued(b) /\ result[b] = "pending" /\ r \in {"ok", "error", "cancelled"}
      /\ result' = [result EXCEPT ![b] = r] /\ UNCHANGED <<queue, reading, num_transfers, call, got>>
  BY DEF Receipt, Q!Finish
<1>2. NextBytes(n) \in Seq(1..MaxSent) /\ Len(NextBytes(n)) = n /\ n \in Nat /\ n <= TransferSize
  <2>1. n \in Nat /\ n <= TransferSize
    OBVIOUS
  <2> QED
    BY <2>1, NextBytesType DEF Receipt
<1>3. /\ \A a \in Buffers : a # b => result'[a] = result[a] /\ content'[a] = content[a]
      /\ result'[b] = r /\ content'[b] = NextBytes(n)
      /\ result' \in [Buffers -> Q!Results]
      /\ content' \in [Buffers -> Seq(1..MaxSent)]
  BY <1>1, <1>2 DEF ReaderTypes, Receipt, Q!Results
<1>4. PICK k \in Nat : k \in DOMAIN queue /\ queue[k] = b
  <2>1. DOMAIN queue \subseteq Nat
    BY DEF ReaderTypes
  <2> QED
    BY <1>1, <2>1 DEF Q!Queued
<1>5. /\ k \in Nat /\ queue \in Seq(Buffers) /\ Distinct(queue)
      /\ \A i \in DOMAIN queue : i \in Nat /\ queue[i] \in Buffers /\ (i # k => queue[i] # b)
  BY <1>4 DEF ReaderTypes, Distinct
<1>6. content[b] = <<>> /\ \A i \in DOMAIN queue : i > k => content[queue[i]] = <<>> /\ result[queue[i]] # "ok"
  BY <1>1, <1>4 DEF PendingInv
<1>7. e \in {<<>>, <<End>>} /\ e \in Seq(Int) /\ e \in Seq(0..MaxSent) /\ NextBytes(n) \in Seq(0..MaxSent)
  <2>1. e \in {<<>>, <<End>>}
    BY DEF Receipt
  <2> DEFINE I == 0..MaxSent
  <2>2. End \in I /\ 1..MaxSent \subseteq I
    BY DEF End
  <2> HIDE DEF I
  <2>3. NextBytes(n) \in Seq(I)
    BY <1>2, <2>2, SeqOver
  <2>4. e \in Seq(I)
    <3>1. <<End>> \in Seq(I) /\ <<>> \in Seq(I)
      BY <2>2
    <3> QED
      BY <2>1, <3>1
  <2>5. I \subseteq Int
    BY DEF I
  <2>6. e \in Seq(Int)
    BY <2>4, <2>5, SeqOver
  <2> QED
    BY <2>1, <2>3, <2>4, <2>6 DEF I
<1>8. ReaderTypes'
  <2>1. sent' \in Seq(0..MaxSent)
    BY <1>7, Regrouped DEF Receipt, ReaderTypes
  <2>2. ASSUME NEW a \in Buffers PROVE Len(content'[a]) <= TransferSize
    <3>1. CASE a = b
      BY <1>2, <1>3, <3>1
    <3>2. CASE a # b
      BY <1>3, <3>2 DEF ReaderTypes
    <3> QED
      BY <3>1, <3>2
  <2> QED
    BY <1>1, <1>3, <2>1, <2>2 DEF ReaderTypes
<1>9. Data' = Data
  BY <1>1, <1>3 DEF Data, ReadingInv
<1>10. ReadingInv'
  BY <1>1, <1>9 DEF ReadingInv, HasError, Q!Queued
<1>11. Ahead(S)' = Ahead(S)
  BY <1>1, <1>9 DEF Ahead, Remaining, EndAhead
<1>12. PendingInv'
  <2> SUFFICES ASSUME NEW i \in DOMAIN queue, result'[queue[i]] = "pending"
               PROVE  /\ content'[queue[i]] = <<>>
                      /\ \A j \in DOMAIN queue : j > i => content'[queue[j]] = <<>> /\ result'[queue[j]] # "ok"
    BY <1>1 DEF PendingInv
  <2>1. queue[i] # b /\ i # k /\ i \in Nat
    BY <1>1, <1>3, <1>4, <1>5
  <2>2. /\ content[queue[i]] = <<>> /\ result[queue[i]] = "pending"
        /\ content'[queue[i]] = <<>>
        /\ \A j \in DOMAIN queue : j > i => content[queue[j]] = <<>> /\ result[queue[j]] # "ok"
    <3>1. result[queue[i]] = "pending"
      BY <1>3, <1>5, <2>1
    <3>2. /\ content[queue[i]] = <<>>
          /\ \A j \in DOMAIN queue : j > i => content[queue[j]] = <<>> /\ result[queue[j]] # "ok"
      BY <3>1 DEF PendingInv
    <3> QED
      BY <1>3, <1>5, <2>1, <3>1, <3>2
  <2>3. ASSUME NEW j \in DOMAIN queue, j > i
        PROVE  content'[queue[j]] = <<>> /\ result'[queue[j]] # "ok"
    <3>1. CASE j # k
      <4>1. queue[j] \in Buffers /\ queue[j] # b
        BY <1>5, <3>1
      <4> QED
        BY <1>3, <2>2, <2>3, <4>1
    <3>2. CASE j = k
      <4>1. Q!Before(queue[i], b)
        BY <1>4, <2>3, <3>2 DEF Q!Before
      <4>2. ~(n > 0) /\ r # "ok"
        BY <1>5, <2>2, <4>1 DEF Receipt
      <4>3. NextBytes(n) = <<>>
        BY <1>2, <4>2
      <4> QED
        BY <1>3, <1>4, <3>2, <4>2, <4>3
    <3> QED
      BY <3>1, <3>2
  <2> QED
    BY <2>2, <2>3
<1>13. Within(S)'[b] = Selected(NextBytes(n) \o e, S)
  <2>1. ShortEnd(b)' = e
    BY <1>2, <1>3 DEF ShortEnd, Receipt
  <2> QED
    BY <1>3, <2>1, WithinIs
<1>14. Gathered(queue', Within(S)') = Gathered(queue, Within(S)) \o Within(S)'[b]
  <2> DEFINE g == Within(S)
             h == Within(S)'
  <2>1. g \in Contents(Buffers, Int) /\ h \in Contents(Buffers, Int)
    BY <1>8, WithinType, WithinNext
  <2>2. \A a \in Buffers : a # queue[k] => h[a] = g[a]
    <3> SUFFICES ASSUME NEW a \in Buffers, a # b PROVE h[a] = g[a]
      BY <1>4
    <3>1. content'[a] = content[a] /\ ShortEnd(a)' = ShortEnd(a)
      BY <1>3 DEF ShortEnd
    <3>2. g[a] = Selected(content[a] \o ShortEnd(a), S) /\ h[a] = Selected(content'[a] \o ShortEnd(a)', S)
      BY WithinIs
    <3> QED
      BY <3>1, <3>2
  <2>3. ASSUME NEW i \in DOMAIN queue, i >= k PROVE g[queue[i]] = <<>>
    <3>1. queue[i] \in Buffers /\ content[queue[i]] = <<>> /\ result[queue[i]] # "ok"
      <4>1. i = k \/ i > k
        BY <1>5, <2>3
      <4> QED
        BY <1>1, <1>4, <1>5, <1>6, <4>1
    <3>2. ShortEnd(queue[i]) = <<>> /\ content[queue[i]] \o <<>> = <<>>
      BY <3>1 DEF ShortEnd
    <3>3. g[queue[i]] = Selected(content[queue[i]] \o ShortEnd(queue[i]), S)
      BY <3>1, WithinIs
    <3>4. Selected(<<>>, S) = <<>>
      BY SelectedEmpty
    <3> QED
      BY <3>1, <3>2, <3>3, <3>4
  <2>4. g[queue[k]] = <<>> /\ \A i \in DOMAIN queue : i > k => g[queue[i]] = <<>>
    BY <1>4, <1>5, <2>3
  <2>6. queue \in Seq(Buffers) /\ Distinct(queue) /\ k \in DOMAIN queue
    BY <1>4, <1>5
  <2> HIDE DEF g, h
  <2>5. Gathered(queue, h) = Gathered(queue, g) \o h[queue[k]]
    BY <2>1, <2>2, <2>4, <2>6, GatheredReceive
  <2> QED
    BY <1>1, <1>4, <2>5 DEF g, h
<1>15. Conserved(S)'
  <2>1. got \in Seq(Int) /\ sent \in Seq(Int) /\ Gathered(queue, Within(S)) \in Seq(Int)
    BY WithinType, GatheredType DEF ReaderTypes
  <2>2. Ahead(S) \in Seq(Int)
    <3>1. Remaining \in Seq(Int) /\ EndAhead \in Seq(Int)
      BY ReadingFacts
    <3>2. Remaining \o EndAhead \in Seq(Int)
      BY <3>1, Regrouped
    <3> QED
      BY <3>2, Selecting DEF Ahead
  <2>3. NextBytes(n) \o e \in Seq(Int)
    BY <1>2, <1>7, Regrouped
  <2> DEFINE u == Selected(got, S)
             a == Ahead(S)
             z == Gathered(queue, Within(S))
             x == Selected(NextBytes(n) \o e, S)
             y == a \o z
  <2>4. u \in Seq(Int) /\ a \in Seq(Int) /\ z \in Seq(Int) /\ x \in Seq(Int)
    BY <2>1, <2>2, <2>3, Selecting
  <2>5. Selected(sent', S) = Selected(sent, S) \o x
    <3> DEFINE t == NextBytes(n) \o e
    <3>1. sent' = sent \o t /\ t \in Seq(Int)
      BY <2>3 DEF Receipt
    <3> HIDE DEF t
    <3>2. Selected(sent \o t, S) = Selected(sent, S) \o Selected(t, S)
      BY <2>1, <3>1, Selecting
    <3> QED
      BY <3>1, <3>2 DEF t
  <2>6. Selected(sent, S) = u \o y
    BY DEF Conserved
  <2>7. Conserved(S)' <=> u \o (a \o (z \o x)) = Selected(sent', S)
    BY <1>1, <1>11, <1>13, <1>14 DEF Conserved
  <2>8. y \in Seq(Int)
    BY <2>4, Regrouped
  <2>9. \A w1, w2, w3 \in Seq(Int) : (w1 \o w2) \o w3 = w1 \o (w2 \o w3)
    BY Regrouped
  <2> HIDE DEF u, a, z, x
  <2>10. a \o (z \o x) = y \o x
    BY ONLY <2>4, <2>9, ZenonT(60)
  <2> HIDE DEF y
  <2>11. (u \o y) \o x = u \o (y \o x)
    BY ONLY <2>4, <2>8, <2>9, ZenonT(60)
  <2> QED
    BY <2>5, <2>6, <2>7, <2>10, <2>11
<1> QED
  BY <1>8, <1>10, <1>12, <1>15

\* Every step of the reader and of the device.
LEMMA ReaderStep ==
  ASSUME ReaderInv, [Next]_vars, NEW S, Kinds(S), Conserved(S)
  PROVE  ReaderInv' /\ Conserved(S)'
<1> USE DEF ReaderInv
<1>0. ReaderTypes
  OBVIOUS
<1>1. ASSUME NEW way \in Ways \intersect Way, FillBuf(way) PROVE ReaderInv' /\ Conserved(S)'
  <2>1. UNCHANGED <<queue, result, content, reading, sent, got, num_transfers>> /\ call' = way
    BY <1>1 DEF FillBuf, endpoint
  <2> QED
    BY <1>0, <2>1, StillStep DEF ReaderTypes
<1>2. ASSUME NEW b \in Buffers, StartRead(b) \/ SubmitAhead(b) PROVE ReaderInv' /\ Conserved(S)'
  BY <1>2, StartReadStep, SubmitAheadStep
<1>3. CASE Complete
  BY <1>3, CompleteStep
<1>4. CASE GiveUp \/ NoTransfers
  <2>1. UNCHANGED <<queue, result, content, reading, sent, got, num_transfers>> /\ call' = "none"
    BY <1>4 DEF GiveUp, NoTransfers, endpoint
  <2> QED
    BY <1>0, <2>1, StillStep DEF ReaderTypes
<1>5. ASSUME NEW k \in 0..TransferSize, Take(k) PROVE ReaderInv' /\ Conserved(S)'
  BY <1>5, TakeStep
<1>6. CASE ConsumeEnd
  BY <1>6, ConsumeEndStep
<1>7. ASSUME NEW n \in 0..MaxTransfers, SetNumTransfers(n) PROVE ReaderInv' /\ Conserved(S)'
  <2>1. UNCHANGED <<queue, result, content, reading, sent, got, call>> /\ num_transfers' = n
    BY <1>7 DEF SetNumTransfers, endpoint
  <2> QED
    BY <1>0, <2>1, StillStep DEF ReaderTypes
<1>8. CASE CancelAll
  <2>1. UNCHANGED <<queue, result, content, reading, sent, got, call>> /\ num_transfers' = 0
    BY <1>8 DEF CancelAll, Q!CancelAll
  <2>2. 0 \in 0..MaxTransfers
    BY BoundAssumption
  <2> QED
    BY <1>0, <2>1, <2>2, StillStep DEF ReaderTypes
<1>9. ASSUME NEW b \in Buffers, NEW n \in 0..TransferSize, Len(sent) + n < MaxSent,
             Receive(b, n) \/ Stop(b, "error", n) \/ Stop(b, "cancelled", n)
      PROVE  ReaderInv' /\ Conserved(S)'
  <2>0. n \in Nat
    BY Sizes
  <2>1. NextBytes(n) \in Seq(Int) /\ sent \in Seq(Int)
    BY <1>0, <1>9, <2>0, NextBytesType, Sizes DEF ReaderTypes
  <2>2. \A u, v, w \in Seq(Int) : (u \o v) \o w = u \o (v \o w)
    BY Regrouped
  <2>5. \A u \in Seq(Int) : u \o <<>> = u
    BY Regrouped
  <2>3. CASE Receive(b, n)
    <3> DEFINE e == IF n < TransferSize THEN <<End>> ELSE <<>>
    <3>1. e \in Seq(Int)
      BY DEF End
    <3>2. (sent \o NextBytes(n)) \o e = sent \o (NextBytes(n) \o e)
      <4> HIDE DEF e
      <4> QED
        BY ONLY <2>1, <2>2, <3>1
    <3>3. sent' = sent \o (NextBytes(n) \o e)
      BY <2>3, <3>2 DEF Receive
    <3>4. Receipt(b, n, "ok", e)
      BY <1>9, <2>3, <3>3 DEF Receipt, Receive, Q!Finish
    <3> QED
      BY <3>4, ReceiptStep
  <2>4. ASSUME NEW r \in {"error", "cancelled"}, Stop(b, r, n) PROVE ReaderInv' /\ Conserved(S)'
    <3>1. sent' = sent \o (NextBytes(n) \o <<>>)
      BY <2>1, <2>4, <2>5 DEF Stop
    <3>2. Receipt(b, n, r, <<>>)
      BY <1>9, <2>4, <3>1 DEF Receipt, Stop
    <3> QED
      BY <3>2, ReceiptStep
  <2> QED
    BY <1>9, <2>3, <2>4
<1>10. CASE UNCHANGED vars
  <2>1. UNCHANGED <<queue, result, content, reading, sent, got, num_transfers, call>>
    BY <1>10 DEF vars, endpoint
  <2> QED
    BY <1>0, <2>1, StillStep DEF ReaderTypes
<1> QED
  BY <1>1, <1>2, <1>3, <1>4, <1>5, <1>6, <1>7, <1>8, <1>9, <1>10 DEF Next, Calls, Device

\* Nothing has been sent.
LEMMA ReaderStart == ASSUME Init, NEW S PROVE ReaderInv /\ Conserved(S)
<1> USE Sizes DEF Init, Q!Init
<1>1. ReaderTypes
  BY BoundAssumption DEF ReaderTypes, Distinct, Q!Results, Items
<1>2. ReadingInv
  BY DEF ReadingInv, NoReading, Q!Queued, Q!Results, Data
<1>3. PendingInv
  BY DEF PendingInv
<1>4. Conserved(S)
  <2>1. Remaining = <<>> /\ EndAhead = <<>>
    BY DEF Remaining, Data, NoReading, EndAhead
  <2>2. Gathered(queue, Within(S)) = <<>>
    BY GatheredEmpty
  <2>3. Selected(<<>>, S) = <<>>
    BY SelectedEmpty
  <2>4. <<>> \o <<>> = <<>> /\ got = <<>> /\ sent = <<>>
    OBVIOUS
  <2> QED
    BY ONLY <2>1, <2>2, <2>3, <2>4 DEF Conserved, Ahead
<1> QED
  BY <1>1, <1>2, <1>3, <1>4 DEF ReaderInv

\* What the invariant says of the types.
LEMMA ReaderTypesHold == ReaderInv => TypeOK
<1> SUFFICES ASSUME ReaderInv PROVE TypeOK
  OBVIOUS
<1> USE Sizes DEF ReaderInv
<1>1. ReaderTypes /\ ReadingInv
  OBVIOUS
<1>2. Len(Data) \in 0..TransferSize
  BY <1>1, ReadingFacts
<1>3. reading.pos \in 0..TransferSize \union {FarEnd}
  <2> HIDE DEF FarEnd, Data
  <2>1. \A p \in 0..Len(Data) : p \in 0..TransferSize
    BY <1>2
  <2> QED
    BY <2>1 DEF ReadingInv
<1>4. reading.buf \in Buffers \union {NoBuffer} /\ ~Q!Queued(reading.buf)
  BY DEF ReadingInv
<1>5. call \in Way \union {"none"}
  BY DEF ReaderTypes
<1>6. \A b \in Buffers : content[b] \in Seq(Items)
  <2>1. 1..MaxSent \subseteq Items
    BY DEF Items, Cut
  <2>2. Seq(1..MaxSent) \subseteq Seq(Items)
    BY <2>1, SeqOver
  <2> QED
    BY <2>2 DEF ReaderTypes
<1>7. sent \in Seq(Items)
  <2>1. 0..MaxSent \subseteq Items
    BY DEF Items, Cut
  <2> QED
    BY <2>1, SeqOver DEF ReaderTypes
<1> QED
  BY <1>3, <1>4, <1>5, <1>6, <1>7 DEF ReaderTypes, TypeOK

\* What is conserved of the bytes.
LEMMA BytesConserved == ReaderInv /\ Conserved(Nat \ {End}) => NothingLostOrRepeated
<1> SUFFICES ASSUME ReaderInv, Conserved(Nat \ {End}) PROVE NothingLostOrRepeated
  OBVIOUS
<1> USE Sizes DEF ReaderInv
<1> DEFINE S == Nat \ {End}
<1>1. Remaining \in Seq(1..MaxSent)
  <2>2. reading.buf = NoBuffer \/ reading.buf \in Buffers
    BY DEF ReadingInv
  <2>3. \A b \in Buffers : content[b] \in Seq(1..MaxSent)
    BY DEF ReaderTypes
  <2>1. Data \in Seq(1..MaxSent) /\ reading.pos \in Nat
    <3>1. Data \in Seq(1..MaxSent)
      <4>1. CASE reading.buf = NoBuffer
        BY <4>1 DEF Data
      <4>2. CASE reading.buf # NoBuffer
        BY <2>2, <2>3, <4>2 DEF Data
      <4> QED
        BY <4>1, <4>2
    <3> QED
      BY <3>1 DEF ReadingInv
  <2> HIDE DEF Data
  <2> QED
    BY <2>1 DEF Remaining
<1>2. 1..MaxSent \subseteq S
  BY DEF End
<1>3. ASSUME NEW e \in {<<>>, <<End>>}, NEW s \in Seq(1..MaxSent) PROVE Selected(s \o e, S) = s
  <2>1. Selected(e, S) = <<>>
    <3>1. End \in Int /\ End \notin S
      BY DEF End
    <3> QED
      BY <3>1, SelectedOne, SelectedEmpty
  <2>2. Selected(s, S) = s
    BY <1>2, SelectedAll
  <2>3. s \in Seq(Int) /\ e \in Seq(Int)
    <3>1. End \in Int
      BY DEF End
    <3>4. <<End>> \in Seq(Int) /\ <<>> \in Seq(Int)
      BY <3>1, SelectedOne
    <3>2. e \in Seq(Int)
      BY <3>4
    <3>3. s \in Seq(Int)
      BY Sizes
    <3> QED
      BY <3>2, <3>3
  <2> HIDE DEF S
  <2>4. Selected(s \o e, S) = Selected(s, S) \o Selected(e, S)
    BY <2>3, Selecting
  <2> QED
    BY <2>1, <2>2, <2>3, <2>4, Regrouped
<1>4. Ahead(S) = Remaining
  <2>1. EndAhead \in {<<>>, <<End>>}
    BY DEF EndAhead
  <2> QED
    BY <1>1, <1>3, <2>1 DEF Ahead
<1>5. \A b \in Buffers : Within(S)[b] = content[b]
  <2> TAKE b \in Buffers
  <2>1. ShortEnd(b) \in {<<>>, <<End>>} /\ content[b] \in Seq(1..MaxSent)
    BY DEF ShortEnd, ReaderTypes
  <2>2. Within(S)[b] = Selected(content[b] \o ShortEnd(b), S)
    BY WithinIs
  <2> QED
    BY <1>3, <2>1, <2>2
<1>6. Gathered(queue, Within(S)) = Received
  <2>3. \A i \in DOMAIN queue : queue[i] \in Buffers
    BY DEF ReaderTypes
  <2>1. \A i \in DOMAIN queue : Within(S)[queue[i]] = content[queue[i]]
    BY <1>5, <2>3
  <2>2. Gathered(queue, Within(S)) = Gathered(queue, content)
    BY <2>1, GatheredSame
  <2> QED
    BY <2>2 DEF Received, Gathered, Held
<1>7. Bytes(got) \o (Remaining \o Received) = Bytes(sent)
  BY <1>4, <1>6 DEF Conserved, Bytes
<1>8. Bytes(got) \in Seq(Int) /\ Received \in Seq(Int) /\ Remaining \in Seq(Int)
  <2>1. got \in Seq(Int) /\ queue \in Seq(Buffers)
    BY DEF ReaderTypes
  <2>2. Bytes(got) \in Seq(Int)
    BY <2>1, Selecting DEF Bytes
  <2>3. Received \in Seq(Int)
    BY <1>6, <2>1, WithinType, GatheredType
  <2> QED
    BY <1>1, <2>2, <2>3
<1>9. \A u, v, w \in Seq(Int) : (u \o v) \o w = u \o (v \o w)
  BY Regrouped
<1>10. (Bytes(got) \o Remaining) \o Received = Bytes(got) \o (Remaining \o Received)
  BY ONLY <1>8, <1>9
<1> QED
  BY <1>7, <1>10 DEF NothingLostOrRepeated

\* What is conserved of the bytes and the ends of messages.
LEMMA MessagesConserved == ReaderInv /\ Conserved(Nat) => MessagesPreserved
<1> SUFFICES ASSUME ReaderInv, Conserved(Nat) PROVE MessagesPreserved
  OBVIOUS
<1> USE Sizes DEF ReaderInv
<1> DEFINE u == Selected(got, Nat)
           z == Gathered(queue, Within(Nat))
           y == Ahead(Nat) \o z
<1>1. sent \in Seq(Nat) /\ sent \in Seq(Int) /\ got \in Seq(Int)
  <2>1. 0..MaxSent \subseteq Nat
    OBVIOUS
  <2>2. Seq(0..MaxSent) \subseteq Seq(Nat)
    BY <2>1, SeqOver
  <2> QED
    BY <2>2 DEF ReaderTypes
<1>2. Selected(sent, Nat) = sent
  BY <1>1, SelectedAll
<1>3. u \in Seq(Int)
  BY <1>1, Selecting
<1>4. y \in Seq(Int)
  <2>1. z \in Seq(Int)
    BY WithinType, GatheredType DEF ReaderTypes
  <2>2. Remaining \o EndAhead \in Seq(Int)
    BY ReadingFacts, Regrouped
  <2>3. Ahead(Nat) \in Seq(Int)
    BY <2>2, Selecting DEF Ahead
  <2> HIDE DEF z
  <2> QED
    BY <2>1, <2>3, Regrouped
<1>5. u \o y = sent
  BY <1>2 DEF Conserved
<1> HIDE DEF u, y
<1>6. Len(u) \in 0..Len(sent) /\ u = SubSeq(sent, 1, Len(u))
  <2>1. Len(u) \in Nat /\ Len(y) \in Nat /\ Len(sent) = Len(u) + Len(y)
    BY <1>3, <1>4, <1>5, ConcatProperties
  <2>2. \A i \in 1..(Len(u) + Len(y)) : sent[i] = IF i <= Len(u) THEN u[i] ELSE y[i - Len(u)]
    BY <1>3, <1>4, <1>5, ConcatProperties
  <2>3. \A i \in 1..Len(u) : sent[i] = u[i]
    BY <2>1, <2>2
  <2>4. /\ SubSeq(sent, 1, Len(u)) \in Seq(Int) /\ Len(SubSeq(sent, 1, Len(u))) = Len(u)
        /\ \A i \in 1..Len(u) : SubSeq(sent, 1, Len(u))[i] = sent[i]
    BY <1>1, <2>1
  <2>5. \A i \in 1..Len(u) : u[i] = SubSeq(sent, 1, Len(u))[i]
    BY <2>3, <2>4
  <2>6. u = SubSeq(sent, 1, Len(u))
    BY <1>3, <2>4, <2>5, SeqEqual
  <2> QED
    BY <2>1, <2>6
<1> QED
  BY <1>6 DEF MessagesPreserved, u

\* No assertion fails unless the program uses BufRead through the adapter.
LEMMA PanicStep == ReaderInv /\ NeverPanics /\ "messageBuf" \notin Ways /\ [Next]_vars => NeverPanics'
<1> SUFFICES ASSUME ReaderInv, NeverPanics, "messageBuf" \notin Ways, [Next]_vars PROVE NeverPanics'
  OBVIOUS
<1>1. ASSUME NEW k \in 0..TransferSize, Take(k) PROVE NeverPanics'
  <2>1. SliceInBounds
    BY <1>1, TakeBounds
  <2>2. ConsumeAllowed(k)
    BY DEF ConsumeAllowed, ReaderInv, ReaderTypes
  <2> QED
    BY <1>1, <2>1, <2>2 DEF Take, NeverPanics
<1>2. CASE UNCHANGED panicked
  BY <1>2 DEF NeverPanics
<1>3. ASSUME NEW way \in Way, FillBuf(way) PROVE UNCHANGED panicked
  BY <1>3 DEF FillBuf
<1>4. ASSUME NEW b \in Buffers, StartRead(b) \/ SubmitAhead(b) PROVE UNCHANGED panicked
  BY <1>4 DEF StartRead, SubmitAhead
<1>5. ASSUME Complete \/ GiveUp \/ NoTransfers \/ ConsumeEnd \/ CancelAll PROVE UNCHANGED panicked
  BY <1>5 DEF Complete, GiveUp, NoTransfers, ConsumeEnd, CancelAll
<1>6. ASSUME NEW n \in 0..MaxTransfers, SetNumTransfers(n) PROVE UNCHANGED panicked
  BY <1>6 DEF SetNumTransfers
<1>7. ASSUME Device PROVE UNCHANGED panicked
  BY <1>7 DEF Device, Receive, Stop
<1>8. ASSUME UNCHANGED vars PROVE UNCHANGED panicked
  BY <1>8 DEF vars
<1> QED
  BY <1>1, <1>2, <1>3, <1>4, <1>5, <1>6, <1>7, <1>8 DEF Next, Calls

-----------------------------------------------------------------------------
(* The writer                                                              *)

\* What the types of the writer do not say of single variables.
WriterTypes ==
  /\ queue \in Seq(Buffers) /\ Distinct(queue)
  /\ result \in [Buffers -> Q!Results]
  /\ content \in [Buffers -> Seq(Nat \ {End})]
  /\ capacity \in [Buffers -> {0, WriteTransferSize}]
  /\ \A b \in Buffers : Len(content[b]) <= capacity[b]
  /\ num_transfers \in 1..MaxTransfers
  /\ call \in {"none", "write", "flush", "zlp", "zlp and flush"}
  /\ src \in 0..WriteTransferSize
  /\ answer \in {"ok", "error", "timeout"}
  /\ written \in Seq(Nat) /\ out \in Seq(Nat) /\ lost \subseteq Nat

\* The writing buffer is not queued and has room, and there is none left when the ends of
\* messages are seen to.
WritingInv ==
  /\ writing \in Buffers \union {NoBuffer} /\ ~Q!Queued(writing)
  /\ writing # NoBuffer => Len(content[writing]) < capacity[writing]
  /\ call = "flush" => W!Buffered = <<>>
  /\ call \in {"zlp", "zlp and flush"} => writing = NoBuffer

\* The bytes are numbered as they are written, and none is lost before.
NumberedInv ==
  /\ \A i \in DOMAIN Bytes(written) : Bytes(written)[i] = i
  /\ \A x \in lost : x <= Len(Bytes(written))

\* All that has been carried, is pending or buffered.
Underway == out \o (W!Pending \o W!Buffered)

\* What is missing of what was written has been returned as lost.
AccountedInv == Bytes(Underway) = Selected(Bytes(written), Nat \ lost)

\* The ends of messages are underway, or about to be.
DelimitedInv ==
  lost = {} => (IF call \in {"zlp", "zlp and flush"} THEN Append(Underway, End) ELSE Underway) = written

WriterInv == WriterTypes /\ WritingInv /\ NumberedInv /\ AccountedInv /\ DelimitedInv

\* The bytes each buffer is to carry, with the end of the message.
Wires == [b \in Buffers |-> W!OnWire(content[b])]

\* The operators of the writer are those of the reader.
LEMMA Shared ==
  /\ \A s, S : W!Selected(s, S) = Selected(s, S)
  /\ \A s : W!Bytes(s) = Bytes(s)
  /\ \A s : W!FlattenSeq(s) = FlattenSeq(s)
<1>1. ASSUME NEW s, NEW S PROVE W!Selected(s, S) = Selected(s, S)
  BY DEF W!Selected, Selected
<1>2. ASSUME NEW s PROVE W!Bytes(s) = Bytes(s)
  BY <1>1 DEF W!Bytes, Bytes, W!End, End
<1>3. ASSUME NEW s PROVE W!FlattenSeq(s) = FlattenSeq(s)
  BY DEF W!FlattenSeq, FlattenSeq
<1> QED
  BY <1>1, <1>2, <1>3

\* What is numbered is distinct, and natural.
LEMMA WriterSizes ==
  /\ WriteTransferSize \in Nat /\ WriteTransferSize > 0 /\ WritePacketSize \in Nat /\ WritePacketSize > 0
  /\ WriteTransferSize % WritePacketSize = 0
  /\ NoBuffer \notin Buffers /\ End \in Nat /\ End = 0 /\ W!End = End
BY WriteSizeAssumption, BufferAssumption DEF End, W!End

\* What a buffer is to carry is never nothing.
LEMMA WiresType ==
  WriterTypes => /\ Wires \in Contents(Buffers, Nat)
                 /\ \A b \in Buffers : Wires[b] = W!OnWire(content[b]) /\ Wires[b] # <<>>
<1> SUFFICES ASSUME WriterTypes
             PROVE  /\ Wires \in Contents(Buffers, Nat)
                    /\ \A b \in Buffers : Wires[b] = W!OnWire(content[b]) /\ Wires[b] # <<>>
  OBVIOUS
<1>1. \A b \in Buffers : Wires[b] = W!OnWire(content[b])
  BY DEF Wires
<1>2. ASSUME NEW b \in Buffers PROVE W!OnWire(content[b]) \in Seq(Nat) /\ W!OnWire(content[b]) # <<>>
  <2>1. content[b] \in Seq(Nat)
    BY SeqOver DEF WriterTypes
  <2>2. Append(content[b], W!End) \in Seq(Nat) /\ Append(content[b], W!End) # <<>>
    BY <2>1, WriterSizes
  <2> QED
    BY <2>1, <2>2 DEF W!OnWire
<1>3. Wires \in Contents(Buffers, Nat)
  BY <1>2 DEF Wires, Contents
<1> QED
  BY <1>1, <1>2, <1>3

\* What is pending is a sequence of numbers, gathered from the queue.
LEMMA PendingFacts == WriterTypes => W!Pending = Gathered(queue, Wires) /\ W!Pending \in Seq(Nat)
<1> SUFFICES ASSUME WriterTypes PROVE W!Pending = Gathered(queue, Wires) /\ W!Pending \in Seq(Nat)
  OBVIOUS
<1>1. \A b \in Buffers : Wires[b] = W!OnWire(content[b])
  BY WiresType
<1>3. Wires \in Contents(Buffers, Nat)
  BY WiresType
<1>4. W!Pending = Gathered(queue, Wires)
  <2>1. \A i \in DOMAIN queue : queue[i] \in Buffers
    <3>1. queue \in Seq(Buffers)
      BY DEF WriterTypes
    <3> QED
      BY <3>1
  <2>2. [i \in DOMAIN queue |-> W!OnWire(content[queue[i]])] = Held(queue, Wires)
    BY <1>1, <2>1 DEF Held
  <2> QED
    BY <2>2, Shared DEF W!Pending, Gathered
<1>5. Gathered(queue, Wires) \in Seq(Nat)
  BY <1>3, GatheredType DEF WriterTypes
<1> QED
  BY <1>4, <1>5

\* What is buffered is a sequence of numbers, and so is all that is underway.
LEMMA UnderwayFacts ==
  ASSUME WriterTypes, WritingInv
  PROVE  /\ W!Buffered \in Seq(Nat \ {End}) /\ W!Buffered \in Seq(Nat)
         /\ Underway \in Seq(Nat) /\ out \in Seq(Nat) /\ written \in Seq(Nat)
         /\ Underway = out \o (Gathered(queue, Wires) \o W!Buffered)
         /\ Gathered(queue, Wires) \in Seq(Nat)
<1>1. W!Buffered \in Seq(Nat \ {End})
  <2>1. CASE writing = NoBuffer
    BY <2>1 DEF W!Buffered
  <2>2. CASE writing # NoBuffer
    <3>1. writing \in Buffers
      BY <2>2 DEF WritingInv
    <3> QED
      BY <2>2, <3>1 DEF W!Buffered, WriterTypes
  <2> QED
    BY <2>1, <2>2
<1>2. W!Buffered \in Seq(Nat)
  BY <1>1, SeqOver
<1>3. out \in Seq(Nat) /\ written \in Seq(Nat)
  BY DEF WriterTypes
<1>4. W!Pending \in Seq(Nat) /\ W!Pending = Gathered(queue, Wires)
  BY PendingFacts
<1>5. Underway \in Seq(Nat)
  <2>1. W!Pending \o W!Buffered \in Seq(Nat)
    BY <1>2, <1>4, Regrouped
  <2> QED
    BY <1>3, <2>1, Regrouped DEF Underway
<1>6. Underway = out \o (Gathered(queue, Wires) \o W!Buffered)
  BY <1>4 DEF Underway
<1> QED
  BY <1>1, <1>2, <1>3, <1>4, <1>5, <1>6

\* The n numbers after m.
NumbersAfter(m, n) == [i \in 1..n |-> m + i]

\* What is underway is what was written, in its numbers, but for what was lost.
Tallied(w, u, L) ==
  /\ \A i \in DOMAIN Bytes(w) : Bytes(w)[i] = i
  /\ \A z \in L : z <= Len(Bytes(w))
  /\ Bytes(u) = Selected(Bytes(w), Nat \ L)

\* Numbers that follow, added to what is underway and to what was written, keep the account.
LEMMA Numbered ==
  ASSUME NEW w \in Seq(Nat), NEW u \in Seq(Nat), NEW L, L \subseteq Nat, NEW x \in Seq(Nat), NEW y \in Seq(Nat),
         NEW n \in Nat, Bytes(x) = Bytes(y), Bytes(y) = NumbersAfter(Len(Bytes(w)), n),
         Tallied(w, u, L)
  PROVE  Tallied(w \o y, u \o x, L)
<1>1. /\ Bytes(w \o y) = Bytes(w) \o Bytes(y) /\ Bytes(u \o x) = Bytes(u) \o Bytes(x)
  <2> DEFINE S == Nat \ {End}
  <2>1. \A s, t \in Seq(Nat) : Selected(s \o t, S) = Selected(s, S) \o Selected(t, S)
    BY SelectedConcat
  <2> QED
    BY <2>1 DEF Bytes
<1> DEFINE p == Bytes(w)
           q == Bytes(y)
           m == Len(p)
           K == Nat \ L
<1>2. p \in Seq(Nat) /\ q \in Seq(Nat)
  <2> DEFINE N == Nat \intersect (Nat \ {End})
  <2>1. p \in Seq(N) /\ q \in Seq(N)
    BY SelectedType DEF Bytes
  <2>2. N \subseteq Nat
    OBVIOUS
  <2> HIDE DEF N, p, q
  <2> QED
    BY <2>1, <2>2, SeqOver
<1>3. Bytes(w \o y) = p \o q /\ Bytes(u \o x) = Selected(p, K) \o q
  BY <1>1 DEF Tallied
<1>4. q = [i \in 1..n |-> m + i]
  BY DEF NumbersAfter
<1>5. (\A i \in DOMAIN p : p[i] = i) /\ (\A z \in L : z <= m) /\ L \subseteq Nat
  BY DEF Tallied
<1> HIDE DEF p, q
<1>6. m \in Nat /\ DOMAIN p = 1..m /\ Len(q) = n /\ DOMAIN q = 1..n
  BY <1>2, <1>4
<1>7. \A i \in 1..n : m + i \in K
  BY <1>5, <1>6
<1> HIDE DEF K
<1>8. Selected(q, K) = q
  <2>1. \A i \in DOMAIN q : q[i] \in K
    BY <1>4, <1>6, <1>7
  <2>2. q \in Seq(K)
    BY <1>2, <2>1, SeqOfElements
  <2> QED
    BY <2>2, SelectedAll
<1>9. Selected(p \o q, K) = Selected(p, K) \o q
  <2>1. \A s, t \in Seq(Nat) : Selected(s \o t, K) = Selected(s, K) \o Selected(t, K)
    BY SelectedConcat
  <2>2. Selected(p \o q, K) = Selected(p, K) \o Selected(q, K)
    BY ONLY <1>2, <2>1
  <2> QED
    BY <1>8, <2>2
<1>10. Len(p \o q) = m + n /\ DOMAIN (p \o q) = 1..(m + n) /\ \A i \in 1..(m + n) : (p \o q)[i] = IF i <= m THEN p[i] ELSE q[i - m]
  <2>1. /\ p \o q \in Seq(Nat) /\ Len(p \o q) = m + n
        /\ \A i \in 1..(m + n) : (p \o q)[i] = IF i <= m THEN p[i] ELSE q[i - m]
    BY <1>2, <1>6, ConcatProperties
  <2> QED
    BY <2>1
<1> HIDE DEF m
<1>11. \A i \in 1..(m + n) : (p \o q)[i] = i
  <2> TAKE i \in 1..(m + n)
  <2>1. CASE i <= m
    <3>1. i \in DOMAIN p
      BY <1>6, <2>1
    <3>2. p[i] = i
      BY <1>5, <3>1
    <3> QED
      BY <1>10, <2>1, <3>2
  <2>2. CASE ~(i <= m)
    <3>1. i - m \in 1..n /\ m + (i - m) = i
      BY <1>6, <2>2
    <3> QED
      BY <1>4, <1>10, <2>2, <3>1
  <2> QED
    BY <2>1, <2>2
<1>12. \A z \in L : z <= Len(p \o q)
  BY <1>5, <1>6, <1>10
<1> QED
  BY <1>3, <1>9, <1>10, <1>11, <1>12 DEF K, Tallied

\* What a step adds at the end, the program has added.
LEMMA Added ==
  ASSUME WriterInv, NEW x \in Seq(Nat), NEW y \in Seq(Nat), NEW n \in Nat,
         Underway' = Underway \o x, written' = written \o y, lost' = lost,
         Bytes(x) = Bytes(y), Bytes(y) = NumbersAfter(Len(Bytes(written)), n)
  PROVE  NumberedInv' /\ AccountedInv'
<1>1. Underway \in Seq(Nat) /\ written \in Seq(Nat) /\ lost \subseteq Nat
  BY UnderwayFacts DEF WriterInv, WriterTypes
<1>2. Tallied(written, Underway, lost)
  BY DEF WriterInv, NumberedInv, AccountedInv, Tallied
<1> DEFINE u == Underway
<1> HIDE DEF u
<1>3. Tallied(written \o y, u \o x, lost)
  BY <1>1, <1>2, Numbered DEF u
<1> QED
  BY <1>3 DEF NumberedInv, AccountedInv, Tallied, u

\* An end of a message is no byte.
LEMMA EndIsNoByte ==
  /\ Bytes(<<>>) = <<>> /\ Bytes(<<End>>) = <<>> /\ <<End>> \in Seq(Nat) /\ <<>> \in Seq(Nat)
  /\ \A m \in Nat : NumbersAfter(m, 0) = <<>>
  /\ \A s \in Seq(Nat) : s \o <<End>> = Append(s, End)
<1>1. End \in Int /\ End \notin Nat \ {End} /\ End \in Nat
  BY DEF End
<1>2. Bytes(<<>>) = <<>> /\ Bytes(<<End>>) = <<>>
  BY <1>1, SelectedOne, Selecting DEF Bytes
<1>3. \A m \in Nat : NumbersAfter(m, 0) = <<>>
  BY DEF NumbersAfter
<1>4. \A s \in Seq(Nat) : s \o <<End>> = Append(s, End)
  BY <1>1
<1> QED
  BY <1>1, <1>2, <1>3, <1>4

\* Submitting a buffer puts it behind the others.
LEMMA SubmitFacts ==
  ASSUME WriterTypes, NEW b \in Buffers, W!SubmitBuffer(b)
  PROVE  /\ queue' = Append(queue, b) /\ queue' \in Seq(Buffers) /\ Distinct(queue')
         /\ result' \in [Buffers -> Q!Results] /\ ~Q!Queued(b)
         /\ \A a : a # b /\ ~Q!Queued(a) => ~Q!Queued(a)'
<1>1. queue \in Seq(Buffers) /\ Distinct(queue) /\ result \in [Buffers -> Q!Results]
  BY DEF WriterTypes
<1>2. queue' = Append(queue, b) /\ ~Q!Queued(b)
  BY DEF W!SubmitBuffer, W!Q!Submit, W!Q!Queued, Q!Queued
<1>3. result' \in [Buffers -> Q!Results]
  BY <1>1 DEF W!SubmitBuffer, W!Q!Submit, Q!Results
<1>4. Distinct(queue')
  BY <1>1, <1>2, DistinctAppend DEF Q!Queued
<1>5. queue' \in Seq(Buffers)
  BY <1>1, <1>2
<1>6. ASSUME NEW a, a # b, ~Q!Queued(a) PROVE ~Q!Queued(a)'
  <2>1. \A i \in DOMAIN queue' : queue'[i] = b \/ \E j \in DOMAIN queue : queue'[i] = queue[j]
    BY <1>1, <1>2
  <2> QED
    BY <1>6, <2>1 DEF Q!Queued
<1> QED
  BY <1>2, <1>3, <1>4, <1>5, <1>6

\* The same of the next state.
LEMMA WiresNext ==
  ASSUME WriterTypes'
  PROVE  /\ Wires' \in Contents(Buffers, Nat)
         /\ \A b \in Buffers : Wires'[b] = W!OnWire(content'[b]) /\ Wires'[b] # <<>>
<1>1. (WriterTypes => /\ Wires \in Contents(Buffers, Nat)
                      /\ \A b \in Buffers : Wires[b] = W!OnWire(content[b]) /\ Wires[b] # <<>>)'
  BY WiresType, PTL
<1> QED
  BY <1>1

\* What is pending in the next state.
LEMMA PendingNext ==
  ASSUME WriterTypes'
  PROVE  W!Pending' = Gathered(queue', Wires') /\ Gathered(queue', Wires') \in Seq(Nat)
<1>1. (WriterTypes => W!Pending = Gathered(queue, Wires) /\ W!Pending \in Seq(Nat))'
  BY PendingFacts, PTL
<1> QED
  BY <1>1

\* A submitted buffer carries, behind all that is pending, what it is to carry.
LEMMA SubmitGathers ==
  ASSUME WriterTypes, WriterTypes', NEW b \in Buffers, W!SubmitBuffer(b),
         \A a \in Buffers : a # b => content'[a] = content[a]
  PROVE  Gathered(queue', Wires') = Gathered(queue, Wires) \o W!OnWire(content'[b])
<1> DEFINE g == Wires
           h == Wires'
<1>1. g \in Contents(Buffers, Nat) /\ \A a \in Buffers : g[a] = W!OnWire(content[a])
  BY WiresType
<1>2. h \in Contents(Buffers, Nat) /\ \A a \in Buffers : h[a] = W!OnWire(content'[a])
  BY WiresNext
<1>3. \A a \in Buffers : a # b => h[a] = g[a]
  BY <1>1, <1>2
<1> HIDE DEF g, h
<1>4. queue \in Seq(Buffers) /\ queue' = Append(queue, b) /\ \A i \in DOMAIN queue : queue[i] # b
  BY SubmitFacts DEF Q!Queued, WriterTypes
<1>5. Gathered(Append(queue, b), h) = Gathered(queue, g) \o h[b]
  BY <1>1, <1>2, <1>3, <1>4, GatheredSubmit
<1> QED
  BY <1>2, <1>4, <1>5 DEF g, h

\* What the writing buffer carries was buffered.
LEMMA WritingSubmitted ==
  ASSUME WriterTypes, WritingInv, WriterTypes', writing # NoBuffer, W!SubmitWriting, out' = out,
         \A a \in Buffers : a # writing => content'[a] = content[a],
         NEW x \in Seq(Nat), W!OnWire(content'[writing]) = W!Buffered \o x
  PROVE  /\ Underway' = Underway \o x
         /\ W!Buffered' = <<>> /\ writing' = NoBuffer
<1>1. writing \in Buffers /\ W!SubmitBuffer(writing) /\ writing' = NoBuffer
  BY DEF WritingInv, W!SubmitWriting
<1>2. W!Buffered' = <<>>
  BY <1>1 DEF W!Buffered
<1>3. Gathered(queue', Wires') = Gathered(queue, Wires) \o (W!Buffered \o x)
  BY <1>1, SubmitGathers
<1>4. /\ W!Buffered \in Seq(Nat) /\ out \in Seq(Nat) /\ Gathered(queue, Wires) \in Seq(Nat)
      /\ Underway = out \o (Gathered(queue, Wires) \o W!Buffered)
  BY UnderwayFacts
<1>5. Underway' = out' \o (Gathered(queue', Wires') \o W!Buffered')
  BY PendingNext DEF Underway
<1> DEFINE g == Gathered(queue, Wires)
           v == W!Buffered
           y == g \o v
           z == Gathered(queue', Wires')
<1>6. \A a, b, c \in Seq(Nat) : (a \o b) \o c = a \o (b \o c)
  BY Regrouped
<1>7. y \in Seq(Nat) /\ z \in Seq(Nat)
  BY <1>4, PendingNext, Regrouped
<1> HIDE DEF g, v, z
<1>8. z = y \o x
  BY ONLY <1>3, <1>4, <1>6, x \in Seq(Nat), ZenonT(60) DEF g, v, z
<1> HIDE DEF y
<1>9. z \o <<>> = z
  BY <1>7, Regrouped
<1>10. (out \o y) \o x = out \o (y \o x)
  BY ONLY <1>4, <1>6, <1>7, x \in Seq(Nat), ZenonT(60)
<1>11. Underway' = out \o z /\ Underway = out \o y
  BY <1>2, <1>4, <1>5, <1>9 DEF z, y, g, v
<1> QED
  BY <1>1, <1>2, <1>8, <1>10, <1>11

\* A step that moves no data keeps the account.
LEMMA QuietStep ==
  ASSUME WriterInv, UNCHANGED <<queue, content, capacity, writing, written, out, lost>>,
         result' \in [Buffers -> Q!Results], num_transfers' \in 1..MaxTransfers,
         call' \in {"none", "write", "flush", "zlp", "zlp and flush"}, src' \in 0..WriteTransferSize,
         answer' \in {"ok", "error", "timeout"},
         call' = "flush" => W!Buffered = <<>>,
         call' \in {"zlp", "zlp and flush"} <=> call \in {"zlp", "zlp and flush"}
  PROVE  WriterInv'
<1>1. WriterTypes'
  BY DEF WriterInv, WriterTypes
<1>2. W!Buffered' = W!Buffered /\ W!Pending' = W!Pending
  <2>1. W!Buffered' = W!Buffered
    BY DEF W!Buffered
  <2>2. Wires' = Wires
    BY DEF Wires
  <2>3. W!Pending = Gathered(queue, Wires) /\ W!Pending' = Gathered(queue', Wires')
    BY <1>1, PendingFacts, PendingNext DEF WriterInv
  <2> QED
    BY <2>1, <2>2, <2>3
<1>3. Underway' = Underway
  BY <1>2 DEF Underway
<1>4. WritingInv'
  BY <1>2 DEF WriterInv, WritingInv, Q!Queued
<1>5. NumberedInv' /\ AccountedInv'
  BY <1>3 DEF WriterInv, NumberedInv, AccountedInv
<1>6. DelimitedInv'
  BY <1>3 DEF WriterInv, DelimitedInv
<1> QED
  BY <1>1, <1>4, <1>5, <1>6 DEF WriterInv

\* A call begins, gives up or ends, a transfer ends, or the program changes their number.
LEMMA QuietSteps ==
  ASSUME WriterInv,
         \/ \E n \in 1..WriteTransferSize : W!Write(n)
         \/ W!GiveUp \/ W!Flushed
         \/ \E n \in 1..MaxTransfers : W!SetNumTransfers(n)
         \/ \E b \in Buffers : W!Finish(b)
  PROVE  WriterInv'
<1>1. /\ result \in [Buffers -> Q!Results] /\ num_transfers \in 1..MaxTransfers
      /\ call \in {"none", "write", "flush", "zlp", "zlp and flush"} /\ src \in 0..WriteTransferSize
      /\ answer \in {"ok", "error", "timeout"} /\ (call = "flush" => W!Buffered = <<>>)
  BY DEF WriterInv, WriterTypes, WritingInv
<1>2. CASE \E n \in 1..WriteTransferSize : W!Write(n)
  BY <1>1, <1>2, QuietStep, WriterSizes DEF W!Write, W!endpoint
<1>3. CASE W!GiveUp
  BY <1>1, <1>3, QuietStep DEF W!GiveUp, W!Return, W!Waiting, W!endpoint
<1>4. CASE W!Flushed
  BY <1>1, <1>4, QuietStep DEF W!Flushed, W!Return, W!endpoint
<1>5. CASE \E n \in 1..MaxTransfers : W!SetNumTransfers(n)
  BY <1>1, <1>5, QuietStep DEF W!SetNumTransfers, W!endpoint
<1>6. CASE \E b \in Buffers : W!Finish(b)
  <2>1. PICK b \in Buffers, r \in {"ok", "error"} : W!Q!Finish(b, r)
    BY <1>6 DEF W!Finish
  <2>2. result' = [result EXCEPT ![b] = r] /\ queue' = queue
    BY <2>1 DEF W!Q!Finish
  <2>3. result' \in [Buffers -> Q!Results]
    BY <1>1, <2>2 DEF Q!Results
  <2> QED
    BY <1>1, <1>6, <2>2, <2>3, QuietStep DEF W!Finish
<1> QED
  BY <1>2, <1>3, <1>4, <1>5, <1>6

\* A buffer is allocated, empty.
LEMMA AllocateStep ==
  ASSUME WriterInv, NEW b \in Buffers, W!Allocate(b)
  PROVE  WriterInv'
<1>1. /\ writing = NoBuffer /\ writing' = b /\ ~Q!Queued(b) /\ call = "write"
      /\ content' = [content EXCEPT ![b] = <<>>] /\ capacity' = [capacity EXCEPT ![b] = WriteTransferSize]
      /\ UNCHANGED <<queue, result, num_transfers, call, src, answer, written, out, lost>>
  BY DEF W!Allocate, W!Free, W!Q!Queued, Q!Queued, W!endpoint
<1>2. /\ content \in [Buffers -> Seq(Nat \ {End})] /\ capacity \in [Buffers -> {0, WriteTransferSize}]
      /\ \A a \in Buffers : Len(content[a]) <= capacity[a]
  BY DEF WriterInv, WriterTypes
<1>3. content' \in [Buffers -> Seq(Nat \ {End})] /\ content'[b] = <<>> /\ \A a \in Buffers : a # b => content'[a] = content[a]
  BY <1>1, <1>2
<1>4. capacity' \in [Buffers -> {0, WriteTransferSize}] /\ capacity'[b] = WriteTransferSize /\ \A a \in Buffers : a # b => capacity'[a] = capacity[a]
  BY <1>1, <1>2
<1>5. \A a \in Buffers : Len(content'[a]) <= capacity'[a]
  <2> TAKE a \in Buffers
  <2>1. CASE a = b
    BY <1>3, <1>4, <2>1, WriterSizes
  <2>2. CASE a # b
    BY <1>2, <1>3, <1>4, <2>2
  <2> QED
    BY <2>1, <2>2
<1>6. WriterTypes'
  BY <1>1, <1>3, <1>4, <1>5 DEF WriterInv, WriterTypes
<1>7. W!Buffered = <<>> /\ W!Buffered' = <<>>
  BY <1>1, <1>3, WriterSizes DEF W!Buffered
<1>8. W!Pending' = W!Pending
  <2>1. W!Pending = Gathered(queue, Wires) /\ W!Pending' = Gathered(queue', Wires')
    BY <1>6, PendingFacts, PendingNext DEF WriterInv
  <2>2. \A i \in DOMAIN queue : queue[i] \in Buffers /\ queue[i] # b
    <3>1. queue \in Seq(Buffers)
      BY DEF WriterInv, WriterTypes
    <3> QED
      BY <1>1, <3>1 DEF Q!Queued
  <2>3. \A i \in DOMAIN queue : Wires[queue[i]] = Wires'[queue[i]]
    BY <1>3, <1>6, <2>2, WiresType, WiresNext DEF WriterInv
  <2>4. Gathered(queue, Wires) = Gathered(queue, Wires')
    BY <2>3, GatheredSame
  <2> QED
    BY <1>1, <2>1, <2>4
<1>9. Underway' = Underway
  BY <1>1, <1>7, <1>8 DEF Underway
<1>10. WritingInv'
  <2>1. Len(content'[b]) < capacity'[b]
    BY <1>3, <1>4, WriterSizes
  <2> QED
    BY <1>1, <1>7, <2>1 DEF WritingInv, Q!Queued
<1>11. NumberedInv' /\ AccountedInv' /\ DelimitedInv'
  BY <1>1, <1>9 DEF WriterInv, NumberedInv, AccountedInv, DelimitedInv
<1> QED
  BY <1>6, <1>10, <1>11 DEF WriterInv

\* Nothing but buffers is queued.
LEMMA NoneQueued ==
  ASSUME WriterTypes
  PROVE  ~Q!Queued(NoBuffer) /\ \A i \in DOMAIN queue : queue[i] \in Buffers
<1>1. queue \in Seq(Buffers)
  BY DEF WriterTypes
<1> QED
  BY <1>1, WriterSizes DEF Q!Queued

\* What a submission that keeps the contents leaves of the types.
LEMMA SubmitTypes ==
  ASSUME WriterTypes, WritingInv, writing # NoBuffer, W!SubmitWriting
  PROVE  /\ writing \in Buffers /\ W!SubmitBuffer(writing) /\ writing' = NoBuffer
         /\ queue' \in Seq(Buffers) /\ Distinct(queue') /\ result' \in [Buffers -> Q!Results]
         /\ ~Q!Queued(writing)' /\ W!Buffered' = <<>>
<1>1. writing \in Buffers /\ W!SubmitBuffer(writing) /\ writing' = NoBuffer
  BY DEF WritingInv, W!SubmitWriting
<1>2. /\ queue' \in Seq(Buffers) /\ Distinct(queue') /\ result' \in [Buffers -> Q!Results]
      /\ ~Q!Queued(NoBuffer)'
  BY <1>1, SubmitFacts, NoneQueued, WriterSizes DEF Q!Queued
<1>3. ~Q!Queued(writing)'
  BY <1>1, <1>2 DEF Q!Queued
<1>4. W!Buffered' = <<>>
  BY <1>1 DEF W!Buffered
<1> QED
  BY <1>1, <1>2, <1>3, <1>4

\* The next bytes are numbers after those written.
LEMMA NextBytesFacts ==
  ASSUME WriterTypes, NEW n \in 0..WriteTransferSize
  PROVE  /\ W!NextBytes(n) \in Seq(Nat \ {End}) /\ W!NextBytes(n) \in Seq(Nat) /\ Len(W!NextBytes(n)) = n
         /\ W!NextBytes(n) = NumbersAfter(Len(Bytes(written)), n)
         /\ Bytes(W!NextBytes(n)) = W!NextBytes(n)
<1>1. n \in Nat
  BY WriterSizes
<1>2. W!NextBytes(n) = NumbersAfter(Len(Bytes(written)), n)
  BY Shared DEF W!NextBytes, NumbersAfter
<1> DEFINE m == Len(Bytes(written))
           N == Nat \ {End}
<1>3. m \in Nat
  <2>1. written \in Seq(Nat)
    BY DEF WriterTypes
  <2>2. Len(Bytes(written)) \in 0..Len(written)
    BY <2>1, SelectedType DEF Bytes
  <2> QED
    BY <2>1, <2>2
<1> HIDE DEF m
<1>4. \A i \in 1..n : m + i \in N
  BY <1>1, <1>3, WriterSizes
<1> HIDE DEF N
<1>5. NumbersAfter(m, n) \in Seq(N) /\ Len(NumbersAfter(m, n)) = n
  <2>1. NumbersAfter(m, n) \in [1..n -> N]
    BY <1>4 DEF NumbersAfter
  <2> QED
    BY <1>1, <2>1
<1>6. NumbersAfter(m, n) \in Seq(Nat)
  <2>1. N \subseteq Nat
    BY DEF N
  <2> QED
    BY <1>5, <2>1, SeqOver
<1>7. Selected(NumbersAfter(m, n), N) = NumbersAfter(m, n)
  BY <1>5, SelectedAll
<1> QED
  BY <1>2, <1>5, <1>6, <1>7 DEF m, N, Bytes

\* As much as fits is copied, and the buffer submitted when it is full.
LEMMA CopyStep ==
  ASSUME WriterInv, NEW n \in 0..WriteTransferSize, W!Copy(n)
  PROVE  WriterInv'
<1> DEFINE x == W!NextBytes(n)
           c == content[writing]
           t == content'[writing]
<1>1. /\ writing # NoBuffer /\ writing \in Buffers /\ ~Q!Queued(writing) /\ call = "write"
      /\ W!Buffered = c
  BY DEF W!Copy, WriterInv, WritingInv, W!Buffered
<1>2. /\ content' = [content EXCEPT ![writing] = @ \o x]
      /\ Len(c) + n <= capacity[writing]
      /\ written' = written \o x
      /\ call' = "none" /\ answer' = "ok" /\ src' = 0
      /\ UNCHANGED <<capacity, num_transfers, out, lost>>
  BY <1>1 DEF W!Copy, W!Return
<1>3. /\ x \in Seq(Nat \ {End}) /\ x \in Seq(Nat) /\ Len(x) = n
      /\ x = NumbersAfter(Len(Bytes(written)), n) /\ Bytes(x) = x
  BY NextBytesFacts DEF WriterInv
<1> HIDE DEF x
<1>4. /\ content \in [Buffers -> Seq(Nat \ {End})] /\ capacity \in [Buffers -> {0, WriteTransferSize}]
      /\ \A a \in Buffers : Len(content[a]) <= capacity[a]
      /\ Len(c) < capacity[writing]
  BY <1>1 DEF WriterInv, WriterTypes, WritingInv
<1>5. c \in Seq(Nat \ {End}) /\ c \in Seq(Nat) /\ Len(c) \in Nat
  <2>1. c \in Seq(Nat \ {End})
    BY <1>1, <1>4
  <2> QED
    BY <2>1, SeqOver
<1>6. t = c \o x /\ \A a \in Buffers : a # writing => content'[a] = content[a]
  BY <1>1, <1>2, <1>4
<1>7. capacity[writing] = WriteTransferSize
  <2>1. capacity[writing] \in {0, WriteTransferSize}
    BY <1>1, <1>4
  <2> QED
    BY <1>4, <1>5, <2>1
<1>8. t \in Seq(Nat \ {End}) /\ Len(t) = Len(c) + n
  <2>1. t = c \o x
    BY <1>6
  <2> DEFINE N == Nat \ {End}
  <2>2. c \in Seq(N) /\ x \in Seq(N)
    BY <1>3, <1>5
  <2> HIDE DEF c, t, N
  <2>3. c \o x \in Seq(N) /\ Len(c \o x) = Len(c) + Len(x)
    BY <2>2, ConcatProperties
  <2> QED
    BY <1>3, <2>1, <2>3 DEF N
<1>9. content' \in [Buffers -> Seq(Nat \ {End})] /\ \A a \in Buffers : Len(content'[a]) <= capacity'[a]
  <2>1. content' \in [Buffers -> Seq(Nat \ {End})]
    BY <1>1, <1>2, <1>4, <1>6, <1>8
  <2>2. ASSUME NEW a \in Buffers PROVE Len(content'[a]) <= capacity'[a]
    <3>1. CASE a = writing
      BY <1>2, <1>8, <3>1
    <3>2. CASE a # writing
      BY <1>2, <1>4, <1>6, <3>2
    <3> QED
      BY <3>1, <3>2
  <2> QED
    BY <2>1, <2>2
<1>10. written' \in Seq(Nat)
  BY <1>2, <1>3, Regrouped DEF WriterInv, WriterTypes
<1>11. /\ num_transfers' \in 1..MaxTransfers /\ call' \in {"none", "write", "flush", "zlp", "zlp and flush"}
       /\ src' \in 0..WriteTransferSize /\ answer' \in {"ok", "error", "timeout"}
       /\ out' \in Seq(Nat) /\ lost' \subseteq Nat /\ capacity' \in [Buffers -> {0, WriteTransferSize}]
  <2>1. 0 \in 0..WriteTransferSize
    BY WriterSizes
  <2>2. num_transfers \in 1..MaxTransfers /\ out \in Seq(Nat) /\ lost \subseteq Nat
    BY DEF WriterInv, WriterTypes
  <2> QED
    BY <1>2, <1>4, <2>1, <2>2
<1>12. ASSUME Underway' = Underway \o x, WriterTypes', WritingInv' PROVE WriterInv'
  <2>1. n \in Nat
    BY WriterSizes
  <2>2. NumberedInv' /\ AccountedInv'
    BY <1>2, <1>3, <1>12, <2>1, Added
  <2>3. DelimitedInv'
    BY <1>1, <1>2, <1>12 DEF WriterInv, DelimitedInv
  <2> QED
    BY <1>12, <2>2, <2>3 DEF WriterInv
<1>13. CASE W!Full(n)
  <2>1. W!SubmitWriting
    BY <1>13 DEF W!Copy
  <2>2. /\ queue' \in Seq(Buffers) /\ Distinct(queue') /\ result' \in [Buffers -> Q!Results]
        /\ ~Q!Queued(writing)' /\ writing' = NoBuffer /\ W!Buffered' = <<>>
    BY <1>1, <2>1, SubmitTypes DEF WriterInv
  <2>3. WriterTypes'
    BY <1>9, <1>10, <1>11, <2>2 DEF WriterTypes
  <2>4. W!OnWire(t) = c \o x
    <3>1. Len(t) = WriteTransferSize
      BY <1>1, <1>7, <1>8, <1>13 DEF W!Full
    <3>2. t # <<>>
      <4> HIDE DEF t
      <4> QED
        BY <3>1, WriterSizes
    <3>3. Len(t) % WritePacketSize = 0
      BY <3>1, WriterSizes
    <3> QED
      BY <1>6, <3>2, <3>3 DEF W!OnWire
  <2>5. Underway' = Underway \o x
    BY <1>1, <1>2, <1>3, <1>6, <2>1, <2>3, <2>4, WritingSubmitted DEF WriterInv
  <2>6. WritingInv'
    BY <1>2, <2>2 DEF WritingInv
  <2> QED
    BY <1>12, <2>3, <2>5, <2>6
<1>14. CASE ~W!Full(n)
  <2>1. UNCHANGED <<queue, result, writing>>
    BY <1>14 DEF W!Copy, W!endpoint
  <2>2. WriterTypes'
    <3>1. queue' \in Seq(Buffers) /\ Distinct(queue') /\ result' \in [Buffers -> Q!Results]
      BY <2>1 DEF WriterInv, WriterTypes
    <3> QED
      BY <1>9, <1>10, <1>11, <3>1 DEF WriterTypes
  <2>3. Len(t) < capacity[writing]
    BY <1>1, <1>2, <1>5, <1>7, <1>8, <1>14, WriterSizes DEF W!Full
  <2>4. W!Buffered' = c \o x
    BY <1>1, <1>6, <2>1 DEF W!Buffered
  <2>5. WritingInv'
    BY <1>1, <1>2, <2>1, <2>3 DEF WritingInv, Q!Queued
  <2>6. Gathered(queue', Wires') = Gathered(queue, Wires)
    <3>1. \A i \in DOMAIN queue : queue[i] \in Buffers /\ queue[i] # writing
      BY <1>1, NoneQueued DEF Q!Queued, WriterInv
    <3>2. \A i \in DOMAIN queue : Wires'[queue[i]] = Wires[queue[i]]
      BY <1>6, <2>2, <3>1, WiresType, WiresNext DEF WriterInv
    <3> QED
      BY <2>1, <3>2, GatheredSame
  <2>7. Underway' = Underway \o x
    <3>1. /\ out \in Seq(Nat) /\ Gathered(queue, Wires) \in Seq(Nat)
          /\ Underway = out \o (Gathered(queue, Wires) \o c)
      BY <1>1, UnderwayFacts DEF WriterInv
    <3>2. Underway' = out \o (Gathered(queue, Wires) \o (c \o x))
      BY <1>2, <2>2, <2>4, <2>6, PendingNext DEF Underway
    <3> DEFINE g == Gathered(queue, Wires)
               y == g \o c
    <3>3. \A u, v, w \in Seq(Nat) : (u \o v) \o w = u \o (v \o w)
      BY Regrouped
    <3>4. y \in Seq(Nat)
      BY <1>5, <3>1, Regrouped
    <3> HIDE DEF g, c
    <3>5. g \o (c \o x) = y \o x
      BY ONLY <1>3, <1>5, <3>1, <3>3 DEF g
    <3> HIDE DEF y
    <3>6. (out \o y) \o x = out \o (y \o x)
      BY ONLY <1>3, <3>1, <3>3, <3>4
    <3> QED
      BY <3>1, <3>2, <3>5, <3>6 DEF y, g
  <2> QED
    BY <1>12, <2>2, <2>5, <2>7
<1> QED
  BY <1>13, <1>14

\* Ends of messages keep the account of the bytes.
LEMMA EndStep ==
  ASSUME WriterInv, NEW x \in {<<>>, <<End>>}, NEW y \in {<<>>, <<End>>},
         Underway' = Underway \o x, written' = written \o y, lost' = lost
  PROVE  NumberedInv' /\ AccountedInv'
<1>1. x \in Seq(Nat) /\ y \in Seq(Nat) /\ Bytes(x) = <<>> /\ Bytes(y) = <<>>
  BY EndIsNoByte
<1>2. NumbersAfter(Len(Bytes(written)), 0) = <<>>
  BY DEF NumbersAfter
<1>3. Bytes(x) = Bytes(y) /\ Bytes(y) = NumbersAfter(Len(Bytes(written)), 0) /\ 0 \in Nat
  BY <1>1, <1>2
<1> QED
  BY <1>1, <1>3, Added

\* What the device sees of a transfer is what it carries and perhaps an end.
LEMMA OnWireIs ==
  ASSUME NEW c \in Seq(Nat)
  PROVE  W!OnWire(c) = c \o (IF c = <<>> \/ Len(c) % WritePacketSize # 0 THEN <<End>> ELSE <<>>)
<1>1. c \o <<End>> = Append(c, End) /\ c \o <<>> = c
  BY EndIsNoByte, Regrouped
<1> QED
  BY <1>1, WriterSizes DEF W!OnWire

\* submit, from the program or flush.
LEMMA SubmitStepKeeps ==
  ASSUME WriterInv, NEW next \in {"none", "flush"}, W!SubmitStep(next)
  PROVE  WriterInv'
<1>1. /\ call = "none" /\ call' = next
      /\ written' = IF Len(W!Buffered) % WritePacketSize = 0 THEN written ELSE Append(written, End)
      /\ UNCHANGED <<content, capacity, num_transfers, src, answer, out, lost>>
  BY WriterSizes DEF W!SubmitStep
<1>2. CASE W!Buffered = <<>>
  <2>1. UNCHANGED <<queue, result, writing>>
    BY <1>2 DEF W!SubmitStep, W!endpoint
  <2>2. written' = written
    BY <1>1, <1>2, WriterSizes
  <2>3. /\ result' \in [Buffers -> Q!Results] /\ num_transfers' \in 1..MaxTransfers
        /\ src' \in 0..WriteTransferSize /\ answer' \in {"ok", "error", "timeout"}
    BY <1>1, <2>1 DEF WriterInv, WriterTypes
  <2> QED
    BY <1>1, <1>2, <2>1, <2>2, <2>3, QuietStep
<1>3. CASE W!Buffered # <<>>
  <2> DEFINE x == IF W!Buffered = <<>> \/ Len(W!Buffered) % WritePacketSize # 0 THEN <<End>> ELSE <<>>
  <2>1. writing # NoBuffer /\ W!SubmitWriting
    BY <1>3 DEF W!SubmitStep, W!Buffered
  <2>2. /\ queue' \in Seq(Buffers) /\ Distinct(queue') /\ result' \in [Buffers -> Q!Results]
        /\ ~Q!Queued(writing)' /\ writing' = NoBuffer /\ W!Buffered' = <<>>
    BY <2>1, SubmitTypes DEF WriterInv
  <2>3. written \in Seq(Nat) /\ W!Buffered \in Seq(Nat)
    BY UnderwayFacts DEF WriterInv
  <2>4. x \in {<<>>, <<End>>} /\ x \in Seq(Nat)
    BY EndIsNoByte
  <2>5. written' = written \o x
    <3>1. written \o <<>> = written /\ written \o <<End>> = Append(written, End)
      BY <2>3, EndIsNoByte, Regrouped
    <3> QED
      BY <1>1, <1>3, <3>1
  <2>6. W!OnWire(content'[writing]) = W!Buffered \o x
    <3>1. content'[writing] = W!Buffered
      BY <1>1, <2>1 DEF W!Buffered
    <3> QED
      BY <2>3, <3>1, OnWireIs
  <2> HIDE DEF x
  <2>7. WriterTypes'
    <3>1. written' \in Seq(Nat)
      BY <2>3, <2>4, <2>5, Regrouped
    <3> QED
      BY <1>1, <2>2, <3>1 DEF WriterInv, WriterTypes
  <2>8. Underway' = Underway \o x
    BY <1>1, <2>1, <2>4, <2>6, <2>7, WritingSubmitted DEF WriterInv
  <2>9. NumberedInv' /\ AccountedInv'
    BY <1>1, <2>4, <2>5, <2>8, EndStep
  <2>10. WritingInv'
    BY <1>1, <2>2 DEF WritingInv
  <2>11. DelimitedInv'
    BY <1>1, <2>5, <2>8 DEF WriterInv, DelimitedInv
  <2> QED
    BY <2>7, <2>9, <2>10, <2>11 DEF WriterInv
<1> QED
  BY <1>2, <1>3

\* submit_end submits the buffer, even an empty one, or leaves the end to a packet of its own.
LEMMA SubmitEndStep ==
  ASSUME WriterInv, NEW next \in {"none", "flush"}, W!SubmitEnd(next)
  PROVE  WriterInv'
<1> DEFINE Zlp == W!NeedsZlp
           x == IF Zlp THEN <<>> ELSE <<End>>
<1>1. /\ call = "none" /\ written' = Append(written, End)
      /\ UNCHANGED <<content, capacity, num_transfers, src, answer, out, lost>>
  BY WriterSizes DEF W!SubmitEnd
<1>2. IF Zlp THEN call' \in {"zlp", "zlp and flush"} ELSE call' = next
  BY DEF W!SubmitEnd
<1>3. written \in Seq(Nat) /\ W!Buffered \in Seq(Nat) /\ Underway \in Seq(Nat)
  BY UnderwayFacts DEF WriterInv
<1>4. x \in {<<>>, <<End>>} /\ x \in Seq(Nat) /\ <<End>> \in {<<>>, <<End>>}
  BY EndIsNoByte
<1>5. written' = written \o <<End>> /\ written' \in Seq(Nat)
  BY <1>1, <1>3, EndIsNoByte, Regrouped
<1>6. /\ queue' \in Seq(Buffers) /\ Distinct(queue') /\ result' \in [Buffers -> Q!Results]
      /\ ~Q!Queued(writing)' /\ writing' = NoBuffer /\ W!Buffered' = <<>>
  <2>1. CASE writing # NoBuffer
    BY <2>1, SubmitTypes DEF WriterInv, W!SubmitEnd
  <2>2. CASE writing = NoBuffer
    <3>1. UNCHANGED <<queue, result, writing>>
      BY <2>2 DEF W!SubmitEnd, W!endpoint
    <3> QED
      BY <2>2, <3>1 DEF WriterInv, WriterTypes, WritingInv, W!Buffered, Q!Queued
  <2> QED
    BY <2>1, <2>2
<1>7. WriterTypes'
  <2>1. call' \in {"none", "write", "flush", "zlp", "zlp and flush"}
    BY <1>2
  <2> QED
    BY <1>1, <1>5, <1>6, <2>1 DEF WriterInv, WriterTypes
<1>8. Underway' = Underway \o x
  <2>1. CASE writing # NoBuffer
    <3>1. W!OnWire(content'[writing]) = W!Buffered \o x
      <4>1. content'[writing] = W!Buffered
        BY <1>1, <2>1 DEF W!Buffered
      <4>2. ~(W!Buffered = <<>> \/ Len(W!Buffered) % WritePacketSize # 0) <=> Zlp
        BY <2>1 DEF W!NeedsZlp
      <4>3. W!OnWire(W!Buffered) = W!Buffered \o (IF W!Buffered = <<>> \/ Len(W!Buffered) % WritePacketSize # 0 THEN <<End>> ELSE <<>>)
        BY <1>3, OnWireIs
      <4> QED
        BY <4>1, <4>2, <4>3
    <3> HIDE DEF x
    <3> QED
      BY <1>1, <1>4, <1>7, <2>1, <3>1, WritingSubmitted DEF WriterInv, W!SubmitEnd
  <2>2. CASE writing = NoBuffer
    <3>1. UNCHANGED <<queue, result, writing>>
      BY <2>2 DEF W!SubmitEnd, W!endpoint
    <3>2. x = <<>>
      BY <2>2 DEF W!NeedsZlp
    <3>3. Wires' = Wires
      BY <1>1 DEF Wires
    <3>4. Underway' = Underway
      BY <1>1, <1>7, <3>1, <3>3, PendingFacts, PendingNext DEF Underway, W!Buffered, WriterInv
    <3> QED
      BY <1>3, <3>2, <3>4, Regrouped
  <2> QED
    BY <2>1, <2>2
<1>9. NumberedInv' /\ AccountedInv'
  <2> HIDE DEF x
  <2> QED
    BY <1>1, <1>4, <1>5, <1>8, EndStep
<1>10. WritingInv'
  BY <1>6 DEF WritingInv
<1>11. DelimitedInv'
  <2> SUFFICES ASSUME lost = {}
               PROVE  (IF call' \in {"zlp", "zlp and flush"} THEN Append(Underway', End) ELSE Underway') = written'
    BY <1>1 DEF DelimitedInv
  <2>1. Underway = written
    BY <1>1 DEF WriterInv, DelimitedInv
  <2>2. CASE Zlp
    <3>1. Underway' = Underway
      BY <1>3, <1>8, <2>2, Regrouped
    <3> QED
      BY <1>1, <1>2, <2>1, <2>2, <3>1
  <2>3. CASE ~Zlp
    <3>1. Underway' = Underway \o <<End>> /\ call' \notin {"zlp", "zlp and flush"}
      BY <1>2, <1>8, <2>3
    <3> QED
      BY <1>5, <2>1, <3>1
  <2> QED
    BY <2>2, <2>3
<1> QED
  BY <1>7, <1>9, <1>10, <1>11 DEF WriterInv

\* The zero-length packet ends the message.
LEMMA SubmitZlpStep ==
  ASSUME WriterInv, NEW b \in Buffers, W!SubmitZlp(b)
  PROVE  WriterInv'
<1>1. /\ call \in {"zlp", "zlp and flush"} /\ call' \in {"none", "flush"} /\ W!SubmitBuffer(b)
      /\ content' = [content EXCEPT ![b] = <<>>] /\ capacity' = [capacity EXCEPT ![b] = 0]
      /\ UNCHANGED <<writing, num_transfers, src, answer, written, out, lost>>
  BY DEF W!SubmitZlp
<1>2. writing = NoBuffer /\ W!Buffered = <<>> /\ W!Buffered' = <<>>
  BY <1>1 DEF WriterInv, WritingInv, W!Buffered
<1>3. /\ queue' \in Seq(Buffers) /\ Distinct(queue') /\ result' \in [Buffers -> Q!Results]
      /\ ~Q!Queued(writing)'
  <2>1. ~Q!Queued(NoBuffer)'
    BY <1>1, SubmitFacts, NoneQueued, WriterSizes DEF WriterInv
  <2> QED
    BY <1>1, <1>2, <2>1, SubmitFacts DEF WriterInv, Q!Queued
<1>4. /\ content \in [Buffers -> Seq(Nat \ {End})] /\ capacity \in [Buffers -> {0, WriteTransferSize}]
      /\ \A a \in Buffers : Len(content[a]) <= capacity[a]
  BY DEF WriterInv, WriterTypes
<1>5. content' \in [Buffers -> Seq(Nat \ {End})] /\ content'[b] = <<>> /\ \A a \in Buffers : a # b => content'[a] = content[a]
  <2> DEFINE T == Seq(Nat \ {End})
  <2>1. <<>> \in T /\ content \in [Buffers -> T]
    BY <1>4
  <2> HIDE DEF T
  <2> QED
    BY <1>1, <2>1 DEF T
<1>6. capacity' \in [Buffers -> {0, WriteTransferSize}] /\ capacity'[b] = 0 /\ \A a \in Buffers : a # b => capacity'[a] = capacity[a]
  BY <1>1, <1>4
<1>7. \A a \in Buffers : Len(content'[a]) <= capacity'[a]
  <2> TAKE a \in Buffers
  <2>1. CASE a = b
    BY <1>5, <1>6, <2>1
  <2>2. CASE a # b
    BY <1>4, <1>5, <1>6, <2>2
  <2> QED
    BY <2>1, <2>2
<1>8. WriterTypes'
  BY <1>1, <1>3, <1>5, <1>6, <1>7 DEF WriterInv, WriterTypes
<1>9. Gathered(queue', Wires') = Gathered(queue, Wires) \o <<End>>
  <2>1. W!OnWire(<<>>) = <<End>>
    <3>1. <<>> \in Seq(Nat) /\ <<>> \o <<End>> = <<End>>
      BY EndIsNoByte, Regrouped
    <3> QED
      BY <3>1, OnWireIs
  <2> QED
    BY <1>1, <1>5, <1>8, <2>1, SubmitGathers DEF WriterInv
<1>10. Underway' = Underway \o <<End>>
  <2> DEFINE g == Gathered(queue, Wires)
             h == Gathered(queue', Wires')
  <2>1. out \in Seq(Nat) /\ g \in Seq(Nat) /\ Underway = out \o (g \o <<>>)
    BY <1>2, UnderwayFacts DEF WriterInv
  <2>2. Underway' = out \o (h \o <<>>) /\ h \in Seq(Nat)
    BY <1>1, <1>2, <1>8, PendingNext DEF Underway
  <2>3. h = g \o <<End>>
    BY <1>9
  <2> HIDE DEF g, h
  <2>4. g \o <<>> = g /\ h \o <<>> = h
    BY <2>1, <2>2, Regrouped
  <2>5. \A u, v, w \in Seq(Nat) : (u \o v) \o w = u \o (v \o w)
    BY Regrouped
  <2>6. <<End>> \in Seq(Nat)
    BY EndIsNoByte
  <2>7. (out \o g) \o <<End>> = out \o (g \o <<End>>)
    BY ONLY <2>1, <2>5, <2>6
  <2> QED
    BY <2>1, <2>2, <2>3, <2>4, <2>7
<1>11. Underway \in Seq(Nat) /\ written \in Seq(Nat)
  BY UnderwayFacts DEF WriterInv
<1>12. NumberedInv' /\ AccountedInv'
  <2>1. written' = written \o <<>>
    BY <1>1, <1>11, Regrouped
  <2>2. <<>> \in {<<>>, <<End>>} /\ <<End>> \in {<<>>, <<End>>}
    OBVIOUS
  <2> QED
    BY <1>1, <1>10, <2>1, <2>2, EndStep
<1>13. WritingInv'
  BY <1>1, <1>2, <1>3 DEF WritingInv
<1>14. DelimitedInv'
  <2>1. Underway' = Append(Underway, End)
    BY <1>10, <1>11, EndIsNoByte
  <2> QED
    BY <1>1, <2>1 DEF WriterInv, DelimitedInv
<1> QED
  BY <1>8, <1>12, <1>13, <1>14 DEF WriterInv

\* What is waited for comes back.
LEMMA WaitFacts ==
  ASSUME WriterInv, W!WaitOne
  PROVE  LET h == Head(queue) IN
         /\ h \in Buffers /\ queue # <<>> /\ queue' = Tail(queue) /\ queue' \in Seq(Buffers) /\ Distinct(queue')
         /\ result' \in [Buffers -> Q!Results]
         /\ content' = [content EXCEPT ![h] = <<>>] /\ h # writing
         /\ (\A i \in DOMAIN queue' : queue'[i] # h)
         /\ \A a : ~Q!Queued(a) => \A i \in DOMAIN queue' : queue'[i] # a
         /\ W!Buffered = <<>> /\ W!Buffered' = <<>>
         /\ writing' = (IF W!Kept(h) THEN h ELSE writing)
         /\ call \in {"write", "flush"}
<1> DEFINE h == Head(queue)
<1>1. queue \in Seq(Buffers) /\ Distinct(queue) /\ result \in [Buffers -> Q!Results]
  BY DEF WriterInv, WriterTypes
<1>2. queue # <<>> /\ queue' = Tail(queue) /\ result' = [result EXCEPT ![h] = "pending"]
  BY DEF W!WaitOne, W!Q!Return, W!Q!Pop
<1>3. /\ h \in Buffers /\ h = queue[1] /\ 1 \in DOMAIN queue /\ queue' \in Seq(Buffers) /\ Distinct(queue')
      /\ \A i \in DOMAIN queue' : i \in Nat /\ i + 1 \in DOMAIN queue /\ queue'[i] = queue[i + 1] /\ queue'[i] # h
  BY <1>1, <1>2, DistinctTail
<1>4. /\ content' = [content EXCEPT ![h] = <<>>] /\ writing' = IF W!Kept(h) THEN h ELSE writing
      /\ W!Waiting
  BY DEF W!WaitOne
<1>5. call \in {"write", "flush"} /\ W!Buffered = <<>>
  BY <1>4 DEF W!Waiting, WriterInv, WritingInv, W!Buffered
<1> HIDE DEF h
<1>6. h # writing
  BY <1>3 DEF WriterInv, WritingInv, Q!Queued
<1>7. /\ (\A i \in DOMAIN queue' : queue'[i] # h)
      /\ \A a : ~Q!Queued(a) => \A i \in DOMAIN queue' : queue'[i] # a
  BY <1>3 DEF Q!Queued
<1>8. content \in [Buffers -> Seq(Nat \ {End})] /\ writing \in Buffers \union {NoBuffer}
  BY DEF WriterInv, WriterTypes, WritingInv
<1>9. W!Buffered' = <<>>
  <2>1. CASE writing' = NoBuffer
    BY <2>1 DEF W!Buffered
  <2>2. CASE writing' = h
    BY <1>3, <1>4, <1>8, <2>2, WriterSizes DEF W!Buffered
  <2>3. CASE writing' = writing /\ writing # NoBuffer
    <3>1. content'[writing] = content[writing]
      BY <1>4, <1>6, <1>8, <2>3
    <3> QED
      BY <1>5, <2>3, <3>1 DEF W!Buffered
  <2> QED
    BY <1>4, <2>1, <2>2, <2>3
<1>10. result' \in [Buffers -> Q!Results]
  BY <1>1, <1>2 DEF Q!Results
<1> QED
  BY <1>2, <1>3, <1>4, <1>5, <1>6, <1>7, <1>9, <1>10 DEF h

\* What came back had carried the first of what was pending.
LEMMA WaitTypes ==
  ASSUME WriterInv, W!WaitOne
  PROVE  /\ WriterTypes' /\ WritingInv'
         /\ W!OnWire(content[Head(queue)]) \in Seq(Nat) /\ W!OnWire(content[Head(queue)]) # <<>>
         /\ Gathered(queue, Wires) = W!OnWire(content[Head(queue)]) \o Gathered(queue', Wires')
<1> DEFINE h == Head(queue)
<1>1. /\ h \in Buffers /\ queue # <<>> /\ queue' = Tail(queue) /\ queue' \in Seq(Buffers) /\ Distinct(queue')
      /\ result' \in [Buffers -> Q!Results]
      /\ content' = [content EXCEPT ![h] = <<>>] /\ h # writing
      /\ (\A i \in DOMAIN queue' : queue'[i] # h)
      /\ (\A a : ~Q!Queued(a) => \A i \in DOMAIN queue' : queue'[i] # a)
      /\ W!Buffered = <<>> /\ W!Buffered' = <<>>
      /\ writing' = (IF W!Kept(h) THEN h ELSE writing)
      /\ call \in {"write", "flush"}
  BY WaitFacts
<1>2. /\ content \in [Buffers -> Seq(Nat \ {End})] /\ capacity \in [Buffers -> {0, WriteTransferSize}]
      /\ (\A a \in Buffers : Len(content[a]) <= capacity[a])
      /\ queue \in Seq(Buffers) /\ Distinct(queue) /\ out \in Seq(Nat) /\ lost \subseteq Nat
  BY DEF WriterInv, WriterTypes
<1>3. UNCHANGED <<capacity, num_transfers, src, written>>
  BY DEF W!WaitOne
<1>4. W!OnWire(content[h]) \in Seq(Nat) /\ W!OnWire(content[h]) # <<>>
  <2>1. Wires \in [Buffers -> Seq(Nat)] /\ Wires[h] = W!OnWire(content[h]) /\ Wires[h] # <<>>
    BY <1>1, WiresType DEF WriterInv, Contents
  <2>2. Wires[h] \in Seq(Nat)
    BY <1>1, <2>1
  <2> QED
    BY <2>1, <2>2
<1> DEFINE x == W!OnWire(content[h])
<1>5. call' \in {call, "none"} /\ answer' \in {answer, "error"}
  BY DEF W!WaitOne, W!Return
<1>6. (out' = out \/ out' = out \o x) /\ (lost' = lost \/ lost' = lost \union W!Range(x))
  BY DEF W!WaitOne
<1> HIDE DEF h
<1>7. /\ content' \in [Buffers -> Seq(Nat \ {End})] /\ content'[h] = <<>>
      /\ \A a \in Buffers : a # h => content'[a] = content[a]
  <2> DEFINE T == Seq(Nat \ {End})
  <2>1. <<>> \in T /\ content \in [Buffers -> T]
    BY <1>2
  <2> HIDE DEF T
  <2> QED
    BY <1>1, <2>1 DEF T
<1>8. \A a \in Buffers : Len(content'[a]) <= capacity'[a]
  <2> TAKE a \in Buffers
  <2>1. CASE a = h
    <3>1. capacity[h] \in {0, WriteTransferSize}
      BY <1>1, <1>2
    <3>2. Len(<<>>) = 0 /\ 0 <= capacity[h]
      BY <3>1, WriterSizes
    <3> QED
      BY <1>3, <1>7, <2>1, <3>2
  <2>2. CASE a # h
    BY <1>2, <1>3, <1>7, <2>2
  <2> QED
    BY <2>1, <2>2
<1> HIDE DEF x
<1>9. x \in Seq(Nat)
  BY <1>4 DEF x
<1>10. out' \in Seq(Nat)
  <2>1. out \in Seq(Nat) /\ out \o x \in Seq(Nat)
    BY <1>2, <1>9, Regrouped
  <2> QED
    BY <1>6, <2>1
<1>11. lost' \subseteq Nat
  <2>1. W!Range(x) \subseteq Nat
    BY <1>9 DEF W!Range
  <2> QED
    BY <1>2, <1>6, <2>1
<1>12. /\ num_transfers' \in 1..MaxTransfers /\ call' \in {"none", "write", "flush", "zlp", "zlp and flush"}
       /\ src' \in 0..WriteTransferSize /\ answer' \in {"ok", "error", "timeout"}
       /\ written' \in Seq(Nat)
  BY <1>3, <1>5 DEF WriterInv, WriterTypes
<1>13. WriterTypes'
  BY <1>1, <1>2, <1>3, <1>7, <1>8, <1>10, <1>11, <1>12 DEF WriterTypes
<1>14. WritingInv'
  <2>1. writing \in Buffers \union {NoBuffer} /\ ~Q!Queued(writing)
    BY DEF WriterInv, WritingInv
  <2>2. writing' \in Buffers \union {NoBuffer} /\ ~Q!Queued(writing)'
    <3>1. \A i \in DOMAIN queue' : queue'[i] # writing'
      BY <1>1, <2>1
    <3> QED
      BY <1>1, <2>1, <3>1 DEF Q!Queued
  <2>3. ASSUME writing' # NoBuffer PROVE Len(content'[writing']) < capacity'[writing']
    <3>1. CASE writing' = h
      <4>1. W!Kept(h) \/ writing = h
        BY <1>1, <3>1
      <4>2. capacity[h] > 0
        BY <1>1, <4>1 DEF W!Kept
      <4> QED
        BY <1>3, <1>7, <3>1, <4>2
    <3>2. CASE writing' = writing /\ writing' # h
      <4>1. writing \in Buffers /\ content'[writing] = content[writing]
        BY <1>7, <2>1, <2>3, <3>2
      <4> QED
        BY <1>3, <2>3, <3>2, <4>1 DEF WriterInv, WritingInv
    <3> QED
      BY <1>1, <3>1, <3>2
  <2> QED
    BY <1>1, <1>5, <2>2, <2>3 DEF WritingInv
<1>15. Gathered(queue, Wires) = x \o Gathered(queue', Wires')
  <2> DEFINE g == Wires
             k == Wires'
  <2>1. g \in Contents(Buffers, Nat) /\ \A a \in Buffers : g[a] = W!OnWire(content[a])
    BY WiresType DEF WriterInv
  <2>2. k \in Contents(Buffers, Nat) /\ \A a \in Buffers : k[a] = W!OnWire(content'[a])
    BY <1>13, WiresNext
  <2>3. \A i \in DOMAIN queue : queue[i] # Head(queue) => k[queue[i]] = g[queue[i]]
    <3>1. \A i \in DOMAIN queue : queue[i] \in Buffers
      BY NoneQueued DEF WriterInv
    <3> QED
      BY <1>7, <2>1, <2>2, <3>1 DEF h
  <2> HIDE DEF g, k
  <2>4. Gathered(queue, g) = g[Head(queue)] \o Gathered(Tail(queue), k)
    BY <1>1, <1>2, <2>1, <2>2, <2>3, GatheredReturn
  <2>5. g[Head(queue)] = x
    BY <1>1, <1>2, <2>1 DEF h, x
  <2>6. Gathered(Tail(queue), k) = Gathered(queue', k)
    BY <1>1
  <2> QED
    BY <2>4, <2>5, <2>6 DEF g, k
<1> QED
  BY <1>4, <1>13, <1>14, <1>15 DEF h, x

\* A transfer that succeeded has carried what was pending.
LEMMA CarriedStep ==
  ASSUME WriterInv, W!WaitOne, ~W!Failed(Head(queue))
  PROVE  WriterInv'
<1> DEFINE x == W!OnWire(content[Head(queue)])
           g == Gathered(queue, Wires)
           h == Gathered(queue', Wires')
<1>1. WriterTypes' /\ WritingInv' /\ x \in Seq(Nat) /\ g = x \o h
  BY WaitTypes
<1>2. /\ out' = out \o x
      /\ UNCHANGED <<call, lost, written>>
  BY DEF W!WaitOne, W!Failed
<1>3. W!Buffered = <<>> /\ W!Buffered' = <<>>
  BY WaitFacts
<1>4. out \in Seq(Nat) /\ g \in Seq(Nat) /\ Underway = out \o (g \o <<>>)
  BY <1>3, UnderwayFacts DEF WriterInv
<1>5. Underway' = out' \o (h \o <<>>) /\ h \in Seq(Nat)
  BY <1>1, <1>3, PendingNext DEF Underway
<1> HIDE DEF x, g, h
<1>6. g \o <<>> = g /\ h \o <<>> = h
  BY <1>4, <1>5, Regrouped
<1>7. \A u, v, w \in Seq(Nat) : (u \o v) \o w = u \o (v \o w)
  BY Regrouped
<1>8. (out \o x) \o h = out \o (x \o h)
  BY ONLY <1>1, <1>4, <1>5, <1>7, ZenonT(60)
<1>9. Underway' = Underway
  BY <1>1, <1>2, <1>4, <1>5, <1>6, <1>8
<1>10. NumberedInv' /\ AccountedInv' /\ DelimitedInv'
  BY <1>2, <1>9 DEF WriterInv, NumberedInv, AccountedInv, DelimitedInv
<1> QED
  BY <1>1, <1>10 DEF WriterInv

\* Leaving out the bytes of the first transfer leaves those of the others.
LEMMA LeftOut ==
  ASSUME NEW w \in Seq(Nat), NEW L, L \subseteq Nat, NEW o \in Seq(Nat), NEW x \in Seq(Nat), NEW h \in Seq(Nat),
         NEW R, R \subseteq Nat, \A z \in R : \E i \in DOMAIN x : x[i] = z, \A i \in DOMAIN x : x[i] \in R,
         Tallied(w, o \o (x \o h), L)
  PROVE  Tallied(w, o \o h, L \union R)
<1> DEFINE N == Nat \ {End}
           u == Selected(o, N)
           v == Selected(x, N)
           t == Selected(h, N)
           p == Bytes(w)
           K == Nat \ L
<1>1. N \subseteq Nat
  OBVIOUS
<1>2. u \in Seq(N) /\ v \in Seq(N) /\ t \in Seq(N) /\ p \in Seq(N)
  <2>1. Nat \intersect N = N
    BY <1>1
  <2> HIDE DEF N
  <2> QED
    BY <2>1, SelectedType DEF Bytes, N
<1>3. u \in Seq(Nat) /\ v \in Seq(Nat) /\ t \in Seq(Nat) /\ p \in Seq(Nat)
  <2> HIDE DEF u, v, t, p, N
  <2> QED
    BY <1>1, <1>2, SeqOver
<1>4. Bytes(o \o h) = u \o t /\ Bytes(o \o (x \o h)) = u \o (v \o t)
  <2>1. \A a, b \in Seq(Nat) : Selected(a \o b, N) = Selected(a, N) \o Selected(b, N)
    BY SelectedConcat, ZenonT(60)
  <2>2. x \o h \in Seq(Nat)
    BY Regrouped, ZenonT(60)
  <2>3. Bytes(o \o h) = u \o t
    BY <2>1 DEF Bytes
  <2>4. Bytes(o \o (x \o h)) = u \o Selected(x \o h, N)
    BY <2>1, <2>2 DEF Bytes
  <2>5. Selected(x \o h, N) = v \o t
    BY <2>1
  <2> QED
    BY <2>3, <2>4, <2>5
<1>5. /\ (\A i \in DOMAIN p : p[i] = i) /\ (\A z \in L : z <= Len(p))
      /\ u \o (v \o t) = Selected(p, K)
  BY <1>4 DEF Tallied
<1>6. \A z \in R : z # 0 => Among(z, v)
  <2> TAKE z \in R
  <2> HAVE z # 0
  <2>1. z \in N /\ Among(z, x)
    BY DEF End, Among
  <2> HIDE DEF N
  <2>2. \A s \in Seq(Nat) : Among(z, s) => Among(z, Selected(s, N))
    BY <2>1, SelectedHas
  <2> QED
    BY <2>1, <2>2
<1>7. \A i \in DOMAIN v : v[i] \in R
  <2> HIDE DEF N
  <2> QED
    BY SelectedFrom
<1>8. (\A i \in DOMAIN u : u[i] # 0) /\ (\A i \in DOMAIN t : t[i] # 0)
  <2> HIDE DEF u, t
  <2> QED
    BY <1>2 DEF End
<1> HIDE DEF u, v, t, p, N
<1>9. Covers(R, v) /\ NonZero(u) /\ NonZero(t)
  BY <1>6, <1>7, <1>8 DEF Covers, NonZero
<1>10. Distinct(Middle(u, v, t))
  <2>1. Distinct(p)
    BY <1>5 DEF Distinct
  <2>2. Distinct(Selected(p, K))
    BY <1>3, <2>1, SelectedDistinct
  <2> QED
    BY <1>5, <2>2 DEF Middle
<1>11. Selected(Middle(u, v, t), Nat \ R) = u \o t
  <2>1. TellsApart(R, u, v, t)
    BY <1>3, <1>9, <1>10 DEF TellsApart
  <2>2. LeavesOut(R, u, v, t)
    BY <2>1, MiddleLeftOut
  <2> QED
    BY <2>2 DEF LeavesOut
<1>12. Selected(Selected(p, K), Nat \ R) = Selected(p, Nat \ (L \union R))
  <2> DEFINE M == Nat \ R
  <2>1. K \intersect M = Nat \ (L \union R)
    OBVIOUS
  <2> HIDE DEF K, M
  <2>2. \A s \in Seq(Nat) : Selected(Selected(s, K), M) = Selected(s, K \intersect M)
    BY SelectedTwice
  <2> QED
    BY <1>3, <2>1, <2>2 DEF M
<1>13. \A z \in R : z <= Len(p)
  <2> TAKE z \in R
  <2>1. CASE z = 0
    BY <1>3, <2>1
  <2>2. CASE z # 0
    <3>1. PICK i \in DOMAIN v : v[i] = z
      BY <1>6, <2>2 DEF Among
    <3> DEFINE q == u \o (v \o t)
    <3>2. \E j \in DOMAIN q : q[j] = z
      <4> DEFINE y == v \o t
      <4>1. /\ y \in Seq(Nat) /\ Len(y) = Len(v) + Len(t)
            /\ \A k \in 1..(Len(v) + Len(t)) : y[k] = IF k <= Len(v) THEN v[k] ELSE t[k - Len(v)]
        BY <1>3, ConcatProperties
      <4>2. i \in 1..Len(y) /\ y[i] = z
        BY <1>3, <3>1, <4>1, SMTT(20)
      <4> HIDE DEF y
      <4>3. /\ Len(u \o y) = Len(u) + Len(y) /\ u \o y \in Seq(Nat)
            /\ \A k \in 1..(Len(u) + Len(y)) : (u \o y)[k] = IF k <= Len(u) THEN u[k] ELSE y[k - Len(u)]
        BY <1>3, <4>1, ConcatProperties, ZenonT(60)
      <4>4. Len(u) \in Nat /\ Len(y) \in Nat
        BY <1>3, <4>1
      <4>5. Len(u) + i \in 1..(Len(u) + Len(y)) /\ ~(Len(u) + i <= Len(u)) /\ (Len(u) + i) - Len(u) = i
        BY <4>2, <4>4
      <4> DEFINE uy == u \o y
                 at == Len(u) + i
      <4>7. /\ at \in 1..(Len(u) + Len(y)) /\ ~(at <= Len(u)) /\ at - Len(u) = i
            /\ uy \in Seq(Nat) /\ Len(uy) = Len(u) + Len(y)
            /\ \A k \in 1..(Len(u) + Len(y)) : uy[k] = IF k <= Len(u) THEN u[k] ELSE y[k - Len(u)]
        BY <4>3, <4>5
      <4> HIDE DEF uy, at
      <4>8. at \in DOMAIN uy /\ uy[at] = y[at - Len(u)]
        BY <4>7, SMTT(20)
      <4>6. uy[at] = z /\ at \in DOMAIN uy
        BY <4>2, <4>7, <4>8
      <4> QED
        BY <4>6 DEF uy, y
    <3> HIDE DEF q
    <3>3. q = Selected(p, K)
      BY <1>5 DEF q
    <3>4. \A j \in DOMAIN Selected(p, K) : \E k \in DOMAIN p : p[k] = Selected(p, K)[j]
      BY <1>3, SelectedFrom
    <3>5. PICK k \in DOMAIN p : p[k] = z
      BY <3>2, <3>3, <3>4
    <3>6. z = k /\ k \in 1..Len(p)
      <4>1. DOMAIN p = 1..Len(p)
        BY <1>3
      <4>2. p[k] = k
        BY <1>5
      <4> QED
        BY <3>5, <4>1, <4>2
    <3> QED
      BY <3>6
  <2> QED
    BY <2>1, <2>2
<1> QED
  BY <1>4, <1>5, <1>11, <1>12, <1>13 DEF Tallied, p, Middle

\* What a transfer that failed was to carry is lost, and the call says so.
LEMMA LostStep ==
  ASSUME WriterInv, W!WaitOne, W!Failed(Head(queue))
  PROVE  WriterInv'
<1> DEFINE x == W!OnWire(content[Head(queue)])
           g == Gathered(queue, Wires)
           h == Gathered(queue', Wires')
           R == W!Range(x)
<1>1. WriterTypes' /\ WritingInv' /\ x \in Seq(Nat) /\ x # <<>> /\ g = x \o h
  BY WaitTypes
<1>2. out' = out /\ lost' = lost \union R /\ written' = written
  BY DEF W!WaitOne, W!Failed
<1>3. W!Buffered = <<>> /\ W!Buffered' = <<>>
  BY WaitFacts
<1>4. out \in Seq(Nat) /\ g \in Seq(Nat) /\ Underway = out \o (g \o <<>>) /\ written \in Seq(Nat) /\ lost \subseteq Nat
  BY <1>3, UnderwayFacts DEF WriterInv, WriterTypes
<1>5. Underway' = out' \o (h \o <<>>) /\ h \in Seq(Nat)
  BY <1>1, <1>3, PendingNext DEF Underway
<1> HIDE DEF g, h, x
<1>6. g \o <<>> = g /\ h \o <<>> = h
  BY <1>4, <1>5, Regrouped
<1>7. /\ R \subseteq Nat /\ \A z \in R : \E i \in DOMAIN x : x[i] = z
      /\ \A i \in DOMAIN x : x[i] \in R
  BY <1>1 DEF W!Range
<1>8. R # {}
  BY <1>1 DEF W!Range
<1> HIDE DEF R
<1>9. Tallied(written, out \o (x \o h), lost)
  BY <1>1, <1>4, <1>6 DEF WriterInv, NumberedInv, AccountedInv, Tallied
<1>10. Tallied(written, out \o h, lost \union R)
  BY <1>1, <1>4, <1>5, <1>7, <1>9, LeftOut
<1>11. Underway' = out \o h
  BY <1>2, <1>5, <1>6
<1>12. NumberedInv' /\ AccountedInv'
  BY <1>2, <1>10, <1>11 DEF Tallied, NumberedInv, AccountedInv
<1>13. DelimitedInv'
  BY <1>2, <1>8 DEF DelimitedInv
<1> QED
  BY <1>1, <1>12, <1>13 DEF WriterInv

\* Every step of the writer, or of something else, preserves the invariant.
LEMMA WriterStep == ASSUME WriterInv, [W!Next]_(W!vars) PROVE WriterInv'
<1>1. CASE UNCHANGED W!vars
  <2>1. UNCHANGED <<queue, content, capacity, writing, written, out, lost, result, num_transfers, call, src, answer>>
    BY <1>1 DEF W!vars, W!endpoint
  <2>2. /\ result' \in [Buffers -> Q!Results] /\ num_transfers' \in 1..MaxTransfers
        /\ call' \in {"none", "write", "flush", "zlp", "zlp and flush"} /\ src' \in 0..WriteTransferSize
        /\ answer' \in {"ok", "error", "timeout"} /\ (call' = "flush" => W!Buffered = <<>>)
    BY <2>1 DEF WriterInv, WriterTypes, WritingInv
  <2> QED
    BY <2>1, <2>2, QuietStep
<1>2. CASE \/ \E n \in 1..WriteTransferSize : W!Write(n)
           \/ W!GiveUp \/ W!Flushed
           \/ \E n \in 1..MaxTransfers : W!SetNumTransfers(n)
           \/ \E b \in Buffers : W!Finish(b)
  BY <1>2, QuietSteps
<1>3. CASE \E n \in 0..WriteTransferSize : W!Copy(n)
  BY <1>3, CopyStep
<1>4. CASE \E b \in Buffers : W!Allocate(b)
  BY <1>4, AllocateStep
<1>5. CASE \E b \in Buffers : W!SubmitZlp(b)
  BY <1>5, SubmitZlpStep
<1>6. CASE W!WaitOne
  BY <1>6, CarriedStep, LostStep
<1>7. CASE \E next \in {"none", "flush"} : W!SubmitStep(next)
  BY <1>7, SubmitStepKeeps
<1>8. CASE \E next \in {"none", "flush"} : W!SubmitEnd(next)
  BY <1>8, SubmitEndStep
<1> QED
  BY <1>1, <1>2, <1>3, <1>4, <1>5, <1>6, <1>7, <1>8 DEF W!Next

\* At first nothing is written, and nothing is underway.
LEMMA WriterStart == ASSUME W!Init PROVE WriterInv
<1>1. /\ queue = <<>> /\ result = [b \in Buffers |-> "pending"]
      /\ content = [b \in Buffers |-> <<>>] /\ capacity = [b \in Buffers |-> WriteTransferSize]
      /\ writing = NoBuffer /\ num_transfers = 1 /\ call = "none" /\ src = 0 /\ answer = "ok"
      /\ written = <<>> /\ out = <<>> /\ lost = {}
  BY DEF W!Init, W!Q!Init
<1>2. content \in [Buffers -> Seq(Nat \ {End})] /\ \A b \in Buffers : Len(content[b]) <= capacity[b]
  BY <1>1, WriterSizes
<1>3. WriterTypes
  <2>1. queue \in Seq(Buffers) /\ Distinct(queue) /\ written \in Seq(Nat) /\ out \in Seq(Nat)
    BY <1>1 DEF Distinct
  <2>2. 1 \in 1..MaxTransfers /\ 0 \in 0..WriteTransferSize
    BY BoundAssumption, WriterSizes
  <2> QED
    BY <1>1, <1>2, <2>1, <2>2 DEF WriterTypes, Q!Results
<1>4. WritingInv
  BY <1>1, <1>3, NoneQueued DEF WritingInv
<1>5. Underway = <<>>
  <2>1. Gathered(queue, Wires) = <<>> /\ W!Buffered = <<>>
    BY <1>1, GatheredEmpty DEF W!Buffered
  <2>2. <<>> \o <<>> = <<>>
    BY EndIsNoByte, Regrouped
  <2> QED
    BY <1>1, <1>3, <1>4, <2>1, <2>2, UnderwayFacts
<1>6. Bytes(<<>>) = <<>> /\ \A S : Selected(<<>>, S) = <<>>
  BY EndIsNoByte, SelectedEmpty
<1>7. NumberedInv /\ AccountedInv
  BY <1>1, <1>5, <1>6 DEF NumberedInv, AccountedInv
<1>8. DelimitedInv
  BY <1>1, <1>5 DEF DelimitedInv
<1> QED
  BY <1>3, <1>4, <1>7, <1>8 DEF WriterInv

\* The writer is as its types say.
LEMMA WriterTypesHold == WriterInv => W!TypeOK
<1> SUFFICES ASSUME WriterInv PROVE W!TypeOK
  OBVIOUS
<1>1. \A b \in Buffers : content[b] \in Seq(Nat)
  BY SeqOver DEF WriterInv, WriterTypes
<1>2. capacity \in [Buffers -> Nat]
  <2>1. {0, WriteTransferSize} \subseteq Nat
    BY WriterSizes
  <2> QED
    BY <2>1 DEF WriterInv, WriterTypes
<1>3. writing # NoBuffer => ~W!Q!Queued(writing) /\ Len(W!Buffered) < capacity[writing]
  BY DEF WriterInv, WritingInv, W!Q!Queued, Q!Queued, W!Buffered
<1>4. result \in [Buffers -> W!Q!Results]
  BY DEF WriterInv, WriterTypes, W!Q!Results, Q!Results
<1> QED
  BY <1>1, <1>2, <1>3, <1>4 DEF W!TypeOK, WriterInv, WriterTypes, WritingInv

\* What W!Pending and W!Buffered follow may be grouped either way.
LEMMA UnderwayIs == ASSUME WriterInv PROVE Underway = out \o W!Pending \o W!Buffered
<1>1. out \in Seq(Nat) /\ W!Pending \in Seq(Nat) /\ W!Buffered \in Seq(Nat)
  BY UnderwayFacts, PendingFacts DEF WriterInv
<1> DEFINE p == W!Pending
           b == W!Buffered
<1> HIDE DEF p, b
<1>2. \A u, v, w \in Seq(Nat) : (u \o v) \o w = u \o (v \o w)
  BY Regrouped
<1>3. (out \o p) \o b = out \o (p \o b)
  BY ONLY <1>1, <1>2 DEF p, b
<1> QED
  BY <1>3 DEF Underway, p, b

\* No byte is lost but those the program was told of, and none goes out twice or out of order.
LEMMA NoneLost == WriterInv => W!NothingLostOrRepeated
BY UnderwayIs, Shared DEF WriterInv, AccountedInv, W!NothingLostOrRepeated

\* Messages end where the program ended them.
LEMMA EndedAsAsked == WriterInv => W!DelimitersAsRequested
BY UnderwayIs DEF WriterInv, DelimitedInv, W!DelimitersAsRequested

\* flush that returns Ok has left nothing behind.
LEMMA FlushStep ==
  ASSUME WriterInv, W!Next, call = "flush", call' = "none", answer' = "ok"
  PROVE  \A i \in 1..Len(W!Bytes(written)) : i \in lost' \/ \E j \in DOMAIN out' : out'[j] = i
<1>1. queue = <<>> /\ UNCHANGED <<out, lost>>
  BY DEF W!Next, W!Write, W!Copy, W!Allocate, W!SubmitZlp, W!Finish, W!WaitOne, W!GiveUp, W!Flushed, W!SubmitStep,
         W!SubmitEnd, W!SetNumTransfers, W!Return
<1>2. Underway = out /\ out \in Seq(Nat)
  <2>1. Gathered(queue, Wires) = <<>> /\ W!Buffered = <<>>
    BY <1>1, GatheredEmpty DEF WriterInv, WritingInv
  <2>2. out \in Seq(Nat) /\ Underway = out \o (Gathered(queue, Wires) \o W!Buffered)
    BY UnderwayFacts DEF WriterInv
  <2>3. <<>> \o <<>> = <<>> /\ out \o <<>> = out
    BY <2>2, EndIsNoByte, Regrouped
  <2> QED
    BY <2>1, <2>2, <2>3
<1>3. /\ Bytes(out) = Selected(Bytes(written), Nat \ lost)
      /\ \A i \in DOMAIN Bytes(written) : Bytes(written)[i] = i
  BY <1>2 DEF WriterInv, AccountedInv, NumberedInv
<1> DEFINE p == Bytes(written)
           K == Nat \ lost
<1>4. p \in Seq(Nat) /\ DOMAIN p = 1..Len(p)
  <2> DEFINE N == Nat \ {End}
  <2>1. Nat \intersect N \subseteq Nat /\ written \in Seq(Nat)
    BY DEF WriterInv, WriterTypes
  <2> HIDE DEF N
  <2>2. Selected(written, N) \in Seq(Nat \intersect N)
    BY <2>1, SelectedType
  <2>3. Selected(written, N) \in Seq(Nat)
    BY <2>1, <2>2, SeqOver
  <2>4. p = Selected(written, N)
    BY DEF Bytes, N
  <2> HIDE DEF p
  <2> QED
    BY <2>3, <2>4
<1>5. \A j \in DOMAIN Bytes(out) : \E i \in DOMAIN out : out[i] = Bytes(out)[j]
  BY <1>2, SelectedFrom DEF Bytes
<1> SUFFICES ASSUME NEW i \in 1..Len(p), i \notin lost PROVE \E j \in DOMAIN out : out[j] = i
  BY <1>1, Shared
<1> HIDE DEF p
<1>6. i \in K /\ Among(i, p)
  BY <1>3, <1>4 DEF p, Among
<1> HIDE DEF K
<1>7. \A s \in Seq(Nat) : Among(i, s) => Among(i, Selected(s, K))
  BY <1>6, SelectedHas
<1>8. Among(i, Bytes(out))
  BY <1>3, <1>4, <1>6, <1>7 DEF p, K
<1> QED
  BY <1>5, <1>8 DEF Among

-----------------------------------------------------------------------------
(* Buffers                                                                 *)

Allocators == {"default", "mmap"}
Buf == [ptr : {0, 1, 2}, len : Nat, requested_len : Nat, capacity : Nat, allocator : Allocators]

BufferTypes ==
  /\ platform \in Platforms /\ direction \in B!Directions
  /\ stage \in {"idle", "flying", "complete"} /\ received \in -1..MaxLen
  /\ memory \in [B!Addresses -> [allocator : Allocators \union {"none"}, capacity : Nat, init : Nat]]
  /\ buffer \in Buf \union {B!NoBuf}
  /\ transfer \in [ptr : {0, 1, 2}, capacity : Nat, allocator : Allocators, length : Nat,
                   actual : 0..MaxLen, data : BOOLEAN, kept : Buf \union {B!NoBuf}]
  /\ platform # "linux" => buffer.allocator = "default" /\ transfer.allocator = "default"
  /\ stage = "idle" => transfer = B!Empty

\* Whose memory there is.
HandHas(a) == B!InHand /\ buffer.capacity > 0 /\ buffer.ptr = a
TransferHas(a) == transfer.capacity > 0 /\ transfer.ptr = a

\* Each address is free, or has one owner.
OwnersInv ==
  /\ \A a \in B!Addresses :
       /\ memory[a] # B!Free <=> HandHas(a) \/ TransferHas(a)
       /\ ~(HandHas(a) /\ TransferHas(a))
       /\ HandHas(a) => memory[a].allocator = buffer.allocator /\ memory[a].capacity = buffer.capacity
       /\ TransferHas(a) => memory[a].allocator = transfer.allocator /\ memory[a].capacity = transfer.capacity
  /\ B!InHand => (buffer.capacity = 0 <=> buffer.ptr = 0)
  /\ transfer.capacity = 0 <=> transfer.ptr = 0

InitOf(ptr) == IF ptr \in B!Addresses THEN memory[ptr].init ELSE 0

\* The lengths of the buffer and of the transfer are within what there is and what is
\* initialised.
LengthsInv ==
  /\ B!InHand => /\ buffer.len <= InitOf(buffer.ptr) /\ buffer.len <= buffer.capacity
                 /\ buffer.requested_len <= buffer.capacity
  /\ stage # "idle" =>
       /\ transfer.length <= transfer.capacity /\ transfer.actual <= transfer.length
       /\ direction = "out" => transfer.length <= InitOf(transfer.ptr)
       /\ platform = "webusb" => /\ transfer.kept.len <= InitOf(transfer.ptr)
                                 /\ transfer.kept.len <= transfer.capacity
                                 /\ transfer.kept.requested_len <= transfer.capacity
       /\ platform # "webusb" /\ direction = "in" => transfer.actual <= InitOf(transfer.ptr)
  /\ platform # "webusb" => B!LenIsReceived

BuffersInv == BufferTypes /\ OwnersInv /\ LengthsInv

\* Of some of two addresses one is the least, and of two numbers one the greatest.
LEMMA LeastAndGreatest ==
  /\ \A S : S \subseteq {1, 2} /\ S # {} => B!Min(S) \in S
  /\ \A m, n \in Nat : B!Max({m, n}) \in Nat /\ B!Max({m, n}) >= m /\ B!Max({m, n}) >= n
<1>1. ASSUME NEW S, S \subseteq {1, 2}, S # {} PROVE B!Min(S) \in S
  <2>1. \E x \in S : \A y \in S : x <= y
    <3>1. CASE 1 \in S
      BY <1>1, <3>1
    <3>2. CASE 1 \notin S
      <4>1. 2 \in S /\ \A y \in S : y = 2
        BY <1>1, <3>2
      <4> QED
        BY <4>1
    <3> QED
      BY <3>1, <3>2
  <2> QED
    BY <2>1 DEF B!Min
<1>2. ASSUME NEW m \in Nat, NEW n \in Nat
      PROVE  B!Max({m, n}) \in Nat /\ B!Max({m, n}) >= m /\ B!Max({m, n}) >= n
  <2>1. \E x \in {m, n} : \A y \in {m, n} : x >= y
    OBVIOUS
  <2>2. B!Max({m, n}) \in {m, n} /\ \A y \in {m, n} : B!Max({m, n}) >= y
    BY <2>1 DEF B!Max
  <2> QED
    BY <2>2
<1> QED
  BY <1>1, <1>2

\* What the types say of single fields.
LEMMA BufferFields ==
  ASSUME BufferTypes
  PROVE  /\ B!InHand <=> buffer \in Buf
         /\ buffer.allocator \in Allocators /\ buffer.capacity \in Nat /\ buffer.len \in Nat /\ buffer.requested_len \in Nat
         /\ B!InHand => buffer.ptr \in {0, 1, 2}
         /\ transfer.ptr \in {0, 1, 2} /\ transfer.capacity \in Nat /\ transfer.allocator \in Allocators
         /\ transfer.length \in Nat /\ transfer.actual \in 0..MaxLen /\ transfer.actual \in Nat
         /\ transfer.kept.len \in Nat /\ transfer.kept.requested_len \in Nat
         /\ \A a \in B!Addresses : /\ memory[a].allocator \in Allocators \union {"none"} /\ memory[a].capacity \in Nat
                                   /\ memory[a].init \in Nat
         /\ B!Addresses = {1, 2} /\ MaxLen \in Nat
<1>1. B!Addresses = {1, 2} /\ MaxLen \in Nat
  BY LenAssumption DEF B!Addresses
<1>2. buffer \in Buf \union {B!NoBuf} /\ transfer.kept \in Buf \union {B!NoBuf}
  BY DEF BufferTypes
<1>3. \A b \in Buf : /\ b.ptr \in {0, 1, 2} /\ b.len \in Nat /\ b.requested_len \in Nat /\ b.capacity \in Nat
                     /\ b.allocator \in Allocators /\ b # B!NoBuf
  BY DEF Buf, B!NoBuf
<1>4. B!NoBuf.len = 0 /\ B!NoBuf.requested_len = 0 /\ B!NoBuf.capacity = 0 /\ B!NoBuf.allocator = "default"
  BY DEF B!NoBuf
<1>5. B!InHand <=> buffer \in Buf
  BY <1>2, <1>3 DEF B!InHand
<1>6. /\ buffer.allocator \in Allocators /\ buffer.capacity \in Nat /\ buffer.len \in Nat /\ buffer.requested_len \in Nat
      /\ B!InHand => buffer.ptr \in {0, 1, 2}
  BY <1>2, <1>3, <1>4, <1>5 DEF Allocators
<1>7. transfer.kept.len \in Nat /\ transfer.kept.requested_len \in Nat
  BY <1>2, <1>3, <1>4
<1>8. /\ transfer.ptr \in {0, 1, 2} /\ transfer.capacity \in Nat /\ transfer.allocator \in Allocators
      /\ transfer.length \in Nat /\ transfer.actual \in 0..MaxLen
  BY DEF BufferTypes
<1>9. \A a \in B!Addresses : /\ memory[a].allocator \in Allocators \union {"none"} /\ memory[a].capacity \in Nat
                             /\ memory[a].init \in Nat
  BY DEF BufferTypes
<1> QED
  BY <1>1, <1>5, <1>6, <1>7, <1>8, <1>9

\* Memory that has been allocated for someone.
Allocated(a) == memory[a].allocator # "none"

\* What is free is not allocated.
LEMMA FreeIsNone ==
  ASSUME BufferTypes, OwnersInv, NEW a \in B!Addresses
  PROVE  /\ memory[a] = B!Free <=> ~Allocated(a)
         /\ Allocated(a) <=> HandHas(a) \/ TransferHas(a)
<1>1. B!Free.allocator = "none"
  BY DEF B!Free
<1>2. memory[a] = B!Free => ~Allocated(a)
  BY <1>1 DEF Allocated
<1>3. HandHas(a) \/ TransferHas(a) => Allocated(a)
  BY BufferFields DEF OwnersInv, Allocated, Allocators
<1>4. memory[a] # B!Free <=> HandHas(a) \/ TransferHas(a)
  BY DEF OwnersInv
<1> QED
  BY <1>2, <1>3, <1>4

\* Initialising memory that is allocated changes nothing but how much of it is initialised.
LEMMA InitialisedFacts ==
  ASSUME BufferTypes, NEW ptr \in {0, 1, 2}, NEW n \in Nat, ptr # 0 => Allocated(ptr), memory' = B!Initialised(ptr, n)
  PROVE  /\ memory' \in [B!Addresses -> [allocator : Allocators \union {"none"}, capacity : Nat, init : Nat]]
         /\ \A a \in B!Addresses :
              /\ memory'[a].allocator = memory[a].allocator /\ memory'[a].capacity = memory[a].capacity
              /\ memory'[a].init >= memory[a].init /\ (a = ptr => memory'[a].init >= n)
              /\ memory'[a] # B!Free <=> memory[a] # B!Free
<1> DEFINE Cell == [allocator : Allocators \union {"none"}, capacity : Nat, init : Nat]
<1>1. memory \in [B!Addresses -> Cell] /\ B!Addresses = {1, 2}
  BY BufferFields DEF BufferTypes
<1>2. memory' = [b \in B!Addresses |-> IF b = ptr THEN [memory[b] EXCEPT !.init = B!Max({@, n})] ELSE memory[b]]
  BY DEF B!Initialised
<1>3. ASSUME NEW a \in B!Addresses, a = ptr
      PROVE  /\ memory'[a] \in Cell
             /\ memory'[a].allocator = memory[a].allocator /\ memory'[a].capacity = memory[a].capacity
             /\ memory'[a].init >= memory[a].init /\ memory'[a].init >= n
             /\ memory'[a] # B!Free /\ memory[a] # B!Free
  <2> DEFINE c == memory[a]
             m == B!Max({c.init, n})
  <2>1. c \in Cell
    BY <1>1
  <2>2. m \in Nat /\ m >= c.init /\ m >= n
    BY <2>1, LeastAndGreatest
  <2>3. memory'[a] = [c EXCEPT !.init = m]
    BY <1>2, <1>3
  <2> HIDE DEF m
  <2>4. memory'[a] \in Cell /\ memory'[a].init = m /\ memory'[a].allocator = c.allocator /\ memory'[a].capacity = c.capacity
    BY <2>1, <2>2, <2>3
  <2>5. c.allocator # "none" /\ B!Free.allocator = "none"
    BY <1>1, <1>3 DEF Allocated, B!Free
  <2> QED
    BY <2>2, <2>4, <2>5
<1>4. ASSUME NEW a \in B!Addresses, a # ptr
      PROVE  memory'[a] = memory[a] /\ memory[a].init >= memory[a].init /\ memory[a] \in Cell
  BY <1>1, <1>2, <1>4
<1>5. memory' \in [B!Addresses -> Cell]
  BY <1>2, <1>3, <1>4
<1> QED
  BY <1>3, <1>4, <1>5

\* A buffer is made of free memory, or of none.
LEMMA MakeStep ==
  ASSUME BuffersInv, NEW len \in Nat, NEW requested \in Nat, NEW capacity_ \in Nat, NEW allocator \in Allocators,
         NEW init \in Nat, B!Make(len, requested, capacity_, allocator, init),
         len <= init, init <= capacity_, requested <= capacity_, platform # "linux" => allocator = "default"
  PROVE  BuffersInv'
<1> DEFINE p == IF capacity_ = 0 THEN 0 ELSE B!Min({b \in B!Addresses : memory[b] = B!Free})
           Cell == [allocator : Allocators \union {"none"}, capacity : Nat, init : Nat]
           c == [allocator |-> allocator, capacity |-> capacity_, init |-> init]
<1> USE DEF BuffersInv
<1>1. /\ ~B!InHand /\ received' = -1 /\ UNCHANGED <<platform, direction, transfer, stage>>
      /\ buffer' = [ptr |-> p, len |-> len, requested_len |-> requested, capacity |-> capacity_, allocator |-> allocator]
      /\ memory' = [b \in B!Addresses |-> IF b = p THEN c ELSE memory[b]]
  BY DEF B!Make
<1>2. B!Addresses = {1, 2} /\ transfer.ptr \in {0, 1, 2} /\ MaxLen \in Nat
  BY BufferFields
<1>3. \A a \in B!Addresses : ~HandHas(a)
  BY <1>1 DEF HandHas
<1>4. /\ capacity_ = 0 <=> p = 0
      /\ p \in {0, 1, 2} /\ (p # 0 => p \in B!Addresses /\ memory[p] = B!Free)
  <2>1. CASE capacity_ = 0
    BY <2>1
  <2>2. CASE capacity_ # 0
    <3> DEFINE S == {b \in B!Addresses : memory[b] = B!Free}
    <3>1. S # {}
      <4>1. memory[1] # B!Free /\ memory[2] # B!Free => TransferHas(1) /\ TransferHas(2)
        BY <1>2, <1>3 DEF OwnersInv
      <4>2. ~(TransferHas(1) /\ TransferHas(2))
        BY DEF TransferHas
      <4> QED
        BY <1>2, <4>1, <4>2
    <3>2. S \subseteq {1, 2}
      BY <1>2
    <3>3. B!Min(S) \in S
      BY <3>1, <3>2, LeastAndGreatest
    <3> QED
      BY <1>2, <2>2, <3>3
  <2> QED
    BY <2>1, <2>2
<1> HIDE DEF p
<1>5. c \in Cell /\ c # B!Free /\ c.allocator = allocator /\ c.capacity = capacity_ /\ c.init = init
  BY DEF Allocators, B!Free
<1>6. memory \in [B!Addresses -> Cell]
  BY DEF BufferTypes
<1> HIDE DEF c
<1>7. /\ memory' \in [B!Addresses -> Cell]
      /\ \A a \in B!Addresses : (a = p => memory'[a] = c) /\ (a # p => memory'[a] = memory[a])
  BY <1>1, <1>5, <1>6
<1>8. /\ buffer' \in Buf /\ buffer'.ptr = p /\ buffer'.len = len /\ buffer'.requested_len = requested
      /\ buffer'.capacity = capacity_ /\ buffer'.allocator = allocator
  BY <1>1, <1>4 DEF Buf
<1>9. B!InHand'
  BY <1>8 DEF B!InHand, B!NoBuf, Buf
<1>10. BufferTypes'
  BY <1>1, <1>2, <1>7, <1>8 DEF BufferTypes
<1>11. \A a \in B!Addresses : (HandHas(a)' <=> a = p) /\ (TransferHas(a)' <=> TransferHas(a))
  BY <1>1, <1>2, <1>4, <1>8, <1>9 DEF HandHas, TransferHas
<1>12. p # 0 => ~TransferHas(p)
  BY <1>4 DEF OwnersInv
<1>13. OwnersInv'
  <2>1. ASSUME NEW a \in B!Addresses
        PROVE  /\ memory'[a] # B!Free <=> HandHas(a)' \/ TransferHas(a)'
               /\ ~(HandHas(a)' /\ TransferHas(a)')
               /\ HandHas(a)' => memory'[a].allocator = buffer'.allocator /\ memory'[a].capacity = buffer'.capacity
               /\ TransferHas(a)' => memory'[a].allocator = transfer.allocator /\ memory'[a].capacity = transfer.capacity
    <3>1. CASE a = p
      BY <1>2, <1>5, <1>7, <1>8, <1>11, <1>12, <3>1
    <3>2. CASE a # p
      BY <1>3, <1>7, <1>11, <3>2 DEF OwnersInv
    <3> QED
      BY <3>1, <3>2
  <2>2. (buffer'.capacity = 0 <=> buffer'.ptr = 0) /\ (transfer'.capacity = 0 <=> transfer'.ptr = 0)
    BY <1>1, <1>4, <1>8 DEF OwnersInv
  <2> QED
    BY <1>1, <2>1, <2>2 DEF OwnersInv
<1>14. LengthsInv'
  <2>1. buffer'.len <= InitOf(buffer.ptr)' /\ buffer'.len <= buffer'.capacity /\ buffer'.requested_len <= buffer'.capacity
    <3>1. CASE p = 0
      BY <1>2, <1>4, <1>8, <3>1 DEF InitOf
    <3>2. CASE p # 0
      BY <1>4, <1>5, <1>7, <1>8, <3>2 DEF InitOf
    <3> QED
      BY <3>1, <3>2
  <2>2. ASSUME stage # "idle" PROVE InitOf(transfer.ptr)' = InitOf(transfer.ptr)
    <3>1. CASE transfer.ptr = 0
      BY <1>1, <1>2, <3>1 DEF InitOf
    <3>2. CASE transfer.ptr # 0
      <4>1. TransferHas(transfer.ptr) /\ transfer.ptr \in B!Addresses
        BY <1>2, <3>2, BufferFields DEF TransferHas, OwnersInv
      <4>2. transfer.ptr # p
        BY <1>12, <3>2, <4>1
      <4> QED
        BY <1>1, <1>7, <4>1, <4>2 DEF InitOf
    <3> QED
      BY <3>1, <3>2
  <2>3. B!LenIsReceived'
    BY <1>1 DEF B!LenIsReceived
  <2> QED
    BY <1>1, <2>1, <2>2, <2>3 DEF LengthsInv
<1> QED
  BY <1>10, <1>13, <1>14

\* Who has what address, when it has one.
LEMMA OwnerFacts ==
  ASSUME BuffersInv
  PROVE  /\ B!InHand /\ buffer.ptr # 0 => HandHas(buffer.ptr) /\ Allocated(buffer.ptr) /\ buffer.ptr \in B!Addresses
         /\ transfer.ptr # 0 => TransferHas(transfer.ptr) /\ Allocated(transfer.ptr) /\ transfer.ptr \in B!Addresses
         /\ B!InHand /\ buffer.ptr # 0 => buffer.ptr # transfer.ptr
<1> USE DEF BuffersInv
<1>1. /\ B!Addresses = {1, 2} /\ (B!InHand => buffer.ptr \in {0, 1, 2}) /\ buffer.capacity \in Nat
      /\ transfer.ptr \in {0, 1, 2} /\ transfer.capacity \in Nat
  BY BufferFields
<1>2. B!InHand /\ buffer.ptr # 0 => HandHas(buffer.ptr) /\ buffer.ptr \in B!Addresses
  BY <1>1 DEF HandHas, OwnersInv
<1>3. transfer.ptr # 0 => TransferHas(transfer.ptr) /\ transfer.ptr \in B!Addresses
  BY <1>1 DEF TransferHas, OwnersInv
<1>4. \A a \in B!Addresses : HandHas(a) \/ TransferHas(a) => Allocated(a)
  BY FreeIsNone
<1>5. \A a \in B!Addresses : ~(HandHas(a) /\ TransferHas(a))
  BY DEF OwnersInv
<1>6. B!InHand /\ buffer.ptr # 0 => buffer.ptr # transfer.ptr
  BY <1>2, <1>3, <1>5
<1> QED
  BY <1>2, <1>3, <1>4, <1>6

\* The buffer in hand is freed.
LEMMA DropBufferStep == ASSUME BuffersInv, B!DropBuffer PROVE BuffersInv'
<1> DEFINE Cell == [allocator : Allocators \union {"none"}, capacity : Nat, init : Nat]
<1> USE DEF BuffersInv
<1>1. /\ B!InHand /\ buffer' = B!NoBuf /\ received' = -1 /\ UNCHANGED <<platform, direction, transfer, stage>>
      /\ memory' = [b \in B!Addresses |-> IF b = buffer.ptr THEN B!Free ELSE memory[b]]
  BY DEF B!DropBuffer, B!Freed
<1>2. B!Addresses = {1, 2} /\ transfer.ptr \in {0, 1, 2} /\ MaxLen \in Nat /\ buffer.ptr \in {0, 1, 2}
  BY <1>1, BufferFields
<1>3. memory \in [B!Addresses -> Cell] /\ B!Free \in Cell
  BY DEF BufferTypes, B!Free
<1>4. /\ memory' \in [B!Addresses -> Cell]
      /\ \A a \in B!Addresses : memory'[a] = IF a = buffer.ptr THEN B!Free ELSE memory[a]
  BY <1>1, <1>3
<1>5. ~B!InHand' /\ buffer'.allocator = "default"
  BY <1>1 DEF B!InHand, B!NoBuf
<1>6. BufferTypes'
  BY <1>1, <1>2, <1>4, <1>5 DEF BufferTypes
<1>7. \A a \in B!Addresses : ~HandHas(a)' /\ (TransferHas(a)' <=> TransferHas(a))
  BY <1>1, <1>5 DEF HandHas, TransferHas
<1>8. buffer.ptr # 0 => HandHas(buffer.ptr) /\ ~TransferHas(buffer.ptr)
  BY <1>1, OwnerFacts DEF OwnersInv
<1>9. OwnersInv'
  <2>1. ASSUME NEW a \in B!Addresses
        PROVE  /\ memory'[a] # B!Free <=> HandHas(a)' \/ TransferHas(a)'
               /\ TransferHas(a)' => memory'[a].allocator = transfer.allocator /\ memory'[a].capacity = transfer.capacity
    <3>1. CASE a = buffer.ptr
      BY <1>2, <1>4, <1>7, <1>8, <3>1
    <3>2. CASE a # buffer.ptr
      <4>1. ~HandHas(a) /\ memory'[a] = memory[a]
        BY <1>4, <3>2 DEF HandHas
      <4> QED
        BY <1>7, <4>1 DEF OwnersInv
    <3> QED
      BY <3>1, <3>2
  <2>2. transfer'.capacity = 0 <=> transfer'.ptr = 0
    BY <1>1 DEF OwnersInv
  <2> QED
    BY <1>1, <1>5, <1>7, <2>1, <2>2 DEF OwnersInv
<1>10. LengthsInv'
  <2>1. InitOf(transfer.ptr)' = InitOf(transfer.ptr)
    <3>1. CASE transfer.ptr = 0
      BY <1>1, <1>2, <3>1 DEF InitOf
    <3>2. CASE transfer.ptr # 0
      <4>1. transfer.ptr \in B!Addresses /\ transfer.ptr # buffer.ptr
        BY <1>1, <3>2, OwnerFacts
      <4> QED
        BY <1>1, <1>4, <4>1 DEF InitOf
    <3> QED
      BY <3>1, <3>2
  <2>2. B!LenIsReceived'
    BY <1>1 DEF B!LenIsReceived
  <2> QED
    BY <1>1, <1>5, <2>1, <2>2 DEF LengthsInv
<1> QED
  BY <1>6, <1>9, <1>10

\* The buffer in hand is changed within what it has.
LEMMA ChangeStep ==
  ASSUME BuffersInv, NEW b \in Buf, B!Change(b),
         b.ptr = buffer.ptr, b.capacity = buffer.capacity, b.allocator = buffer.allocator,
         b.len <= b.capacity, b.requested_len <= b.capacity,
         NEW n \in Nat, b.len <= n \/ b.len <= InitOf(buffer.ptr), buffer.ptr = 0 => b.len = 0,
         (memory' = memory /\ b.len <= InitOf(buffer.ptr)) \/ memory' = B!Initialised(buffer.ptr, n)
  PROVE  BuffersInv'
<1> USE DEF BuffersInv
<1>1. B!InHand /\ buffer' = b /\ received' = -1 /\ UNCHANGED <<platform, direction, transfer, stage>>
  BY DEF B!Change
<1>2. /\ B!Addresses = {1, 2} /\ transfer.ptr \in {0, 1, 2} /\ MaxLen \in Nat /\ buffer.ptr \in {0, 1, 2}
      /\ \A a \in B!Addresses : memory[a].init \in Nat
  BY <1>1, BufferFields
<1>3. B!InHand'
  BY <1>1 DEF B!InHand, B!NoBuf, Buf
<1>4. /\ memory' \in [B!Addresses -> [allocator : Allocators \union {"none"}, capacity : Nat, init : Nat]]
      /\ \A a \in B!Addresses :
           /\ memory'[a].allocator = memory[a].allocator /\ memory'[a].capacity = memory[a].capacity
           /\ memory'[a].init >= memory[a].init
           /\ memory'[a] # B!Free <=> memory[a] # B!Free
      /\ buffer.ptr \in B!Addresses => b.len <= memory'[buffer.ptr].init
  <2>1. CASE memory' = memory /\ b.len <= InitOf(buffer.ptr)
    BY <1>2, <2>1 DEF BufferTypes, InitOf
  <2>2. CASE memory' = B!Initialised(buffer.ptr, n)
    <3>1. buffer.ptr # 0 => Allocated(buffer.ptr)
      BY <1>1, OwnerFacts
    <3>2. /\ memory' \in [B!Addresses -> [allocator : Allocators \union {"none"}, capacity : Nat, init : Nat]]
          /\ \A a \in B!Addresses :
               /\ memory'[a].allocator = memory[a].allocator /\ memory'[a].capacity = memory[a].capacity
               /\ memory'[a].init >= memory[a].init /\ (a = buffer.ptr => memory'[a].init >= n)
               /\ memory'[a] # B!Free <=> memory[a] # B!Free
      BY <1>2, <2>2, <3>1, InitialisedFacts
    <3>3. ASSUME buffer.ptr \in B!Addresses PROVE b.len <= memory'[buffer.ptr].init
      <4>1. /\ memory'[buffer.ptr].init >= n /\ memory'[buffer.ptr].init >= memory[buffer.ptr].init
            /\ memory'[buffer.ptr].init \in Nat /\ memory[buffer.ptr].init \in Nat /\ b.len \in Nat
        BY <1>2, <3>2, <3>3 DEF Buf
      <4> QED
        BY <3>3, <4>1 DEF InitOf
    <3> QED
      BY <3>2, <3>3
  <2> QED
    BY <2>1, <2>2
<1>5. BufferTypes'
  BY <1>1, <1>2, <1>4 DEF BufferTypes
<1>6. \A a \in B!Addresses : (HandHas(a)' <=> HandHas(a)) /\ (TransferHas(a)' <=> TransferHas(a))
  BY <1>1, <1>3 DEF HandHas, TransferHas
<1>7. OwnersInv'
  <2>1. ASSUME NEW a \in B!Addresses
        PROVE  /\ memory'[a] # B!Free <=> HandHas(a)' \/ TransferHas(a)'
               /\ ~(HandHas(a)' /\ TransferHas(a)')
               /\ HandHas(a)' => memory'[a].allocator = buffer'.allocator /\ memory'[a].capacity = buffer'.capacity
               /\ TransferHas(a)' => memory'[a].allocator = transfer.allocator /\ memory'[a].capacity = transfer.capacity
    BY <1>1, <1>4, <1>6 DEF OwnersInv
  <2>2. (buffer'.capacity = 0 <=> buffer'.ptr = 0) /\ (transfer'.capacity = 0 <=> transfer'.ptr = 0)
    BY <1>1 DEF OwnersInv
  <2> QED
    BY <1>1, <2>1, <2>2 DEF OwnersInv
<1>8. LengthsInv'
  <2>1. b.len <= InitOf(buffer.ptr)'
    <3>1. CASE buffer.ptr = 0
      BY <1>1, <1>2, <3>1 DEF InitOf
    <3>2. CASE buffer.ptr # 0
      BY <1>1, <1>2, <1>4, <3>2 DEF InitOf
    <3> QED
      BY <3>1, <3>2
  <2>2. InitOf(transfer.ptr)' >= InitOf(transfer.ptr) /\ InitOf(transfer.ptr)' \in Nat /\ InitOf(transfer.ptr) \in Nat
    <3>1. CASE transfer.ptr = 0
      BY <1>1, <1>2, <3>1 DEF InitOf
    <3>2. CASE transfer.ptr # 0
      BY <1>1, <1>2, <1>4, <3>2 DEF InitOf
    <3> QED
      BY <3>1, <3>2
  <2>3. B!LenIsReceived'
    BY <1>1 DEF B!LenIsReceived
  <2>4. transfer.length \in Nat /\ transfer.actual \in Nat /\ transfer.kept.len \in Nat
    BY BufferFields
  <2>5. stage' # "idle" =>
         /\ transfer'.length <= transfer'.capacity /\ transfer'.actual <= transfer'.length
         /\ direction' = "out" => transfer'.length <= InitOf(transfer.ptr)'
         /\ platform' = "webusb" => /\ transfer'.kept.len <= InitOf(transfer.ptr)'
                                    /\ transfer'.kept.len <= transfer'.capacity
                                    /\ transfer'.kept.requested_len <= transfer'.capacity
         /\ platform' # "webusb" /\ direction' = "in" => transfer'.actual <= InitOf(transfer.ptr)'
    <3> DEFINE i == InitOf(transfer.ptr)
               j == InitOf(transfer.ptr)'
    <3>1. i \in Nat /\ j \in Nat /\ j >= i
      BY <2>2
    <3>2. stage # "idle" =>
           /\ transfer.length <= transfer.capacity /\ transfer.actual <= transfer.length
           /\ direction = "out" => transfer.length <= i
           /\ platform = "webusb" => /\ transfer.kept.len <= i /\ transfer.kept.len <= transfer.capacity
                                     /\ transfer.kept.requested_len <= transfer.capacity
           /\ platform # "webusb" /\ direction = "in" => transfer.actual <= i
      BY DEF LengthsInv
    <3> HIDE DEF i, j
    <3>3. stage # "idle" =>
           /\ transfer.length <= transfer.capacity /\ transfer.actual <= transfer.length
           /\ direction = "out" => transfer.length <= j
           /\ platform = "webusb" => /\ transfer.kept.len <= j /\ transfer.kept.len <= transfer.capacity
                                     /\ transfer.kept.requested_len <= transfer.capacity
           /\ platform # "webusb" /\ direction = "in" => transfer.actual <= j
      BY <2>4, <3>1, <3>2
    <3> QED
      BY <1>1, <3>3 DEF j
  <2> QED
    BY <1>1, <2>1, <2>3, <2>5 DEF LengthsInv
<1> QED
  BY <1>5, <1>7, <1>8

\* The program asks for another length, clears the buffer or adds to it.
LEMMA FillSteps ==
  ASSUME BuffersInv, \/ \E n \in B!Lengths : B!set_requested_len(n) \/ B!Extend(n)
                     \/ B!clear
  PROVE  BuffersInv'
<1> USE DEF BuffersInv
<1>1. /\ \A n \in B!Lengths : n \in Nat
      /\ buffer.capacity \in Nat /\ buffer.len \in Nat /\ buffer.requested_len \in Nat
  <2>1. \A n \in B!Lengths : n \in Nat
    BY LenAssumption DEF B!Lengths
  <2> QED
    BY <2>1, BufferFields
<1>2. B!InHand
  BY DEF B!set_requested_len, B!Extend, B!clear, B!Change
<1>3. /\ buffer \in Buf /\ buffer.len <= InitOf(buffer.ptr) /\ buffer.len <= buffer.capacity
      /\ buffer.requested_len <= buffer.capacity /\ (buffer.ptr = 0 <=> buffer.capacity = 0)
  BY <1>2, BufferFields DEF LengthsInv, OwnersInv
<1>4. InitOf(buffer.ptr) \in Nat
  BY <1>2, BufferFields DEF InitOf
<1>5. CASE \E n \in B!Lengths : B!set_requested_len(n)
  <2>1. PICK n \in B!Lengths : B!set_requested_len(n)
    BY <1>5
  <2> DEFINE b == [buffer EXCEPT !.requested_len = n]
  <2>2. n \in Nat /\ n <= buffer.capacity /\ B!Change(b) /\ memory' = memory
    BY <1>1, <2>1 DEF B!set_requested_len
  <2>3. /\ b \in Buf /\ b.ptr = buffer.ptr /\ b.capacity = buffer.capacity /\ b.allocator = buffer.allocator
        /\ b.len = buffer.len /\ b.requested_len = n
    BY <1>3, <2>2 DEF Buf
  <2> HIDE DEF b
  <2>4. b.len <= b.capacity /\ b.requested_len <= b.capacity /\ b.len <= InitOf(buffer.ptr) /\ (buffer.ptr = 0 => b.len = 0)
    BY <1>1, <1>3, <2>2, <2>3
  <2> QED
    BY <2>2, <2>3, <2>4, ChangeStep
<1>6. CASE B!clear
  <2> DEFINE b == [buffer EXCEPT !.len = 0]
  <2>2. B!Change(b) /\ memory' = memory
    BY <1>6 DEF B!clear
  <2>3. /\ b \in Buf /\ b.ptr = buffer.ptr /\ b.capacity = buffer.capacity /\ b.allocator = buffer.allocator
        /\ b.len = 0 /\ b.requested_len = buffer.requested_len
    BY <1>3 DEF Buf
  <2> HIDE DEF b
  <2>4. b.len <= b.capacity /\ b.requested_len <= b.capacity /\ b.len <= InitOf(buffer.ptr) /\ 0 \in Nat
    BY <1>1, <1>3, <1>4, <2>3
  <2> QED
    BY <2>2, <2>3, <2>4, ChangeStep
<1>7. CASE \E n \in B!Lengths : B!Extend(n)
  <2>1. PICK n \in B!Lengths : B!Extend(n)
    BY <1>7
  <2> DEFINE b == [buffer EXCEPT !.len = @ + n]
             m == buffer.len + n
  <2>2. n \in Nat /\ n <= buffer.capacity - buffer.len /\ B!Change(b) /\ memory' = B!Initialised(buffer.ptr, m)
    BY <1>1, <2>1 DEF B!Extend, B!RemainingCapacity
  <2>3. m \in Nat /\ m <= buffer.capacity
    BY <1>1, <2>2
  <2>4. /\ b \in Buf /\ b.ptr = buffer.ptr /\ b.capacity = buffer.capacity /\ b.allocator = buffer.allocator
        /\ b.len = m /\ b.requested_len = buffer.requested_len
    BY <1>3, <2>3 DEF Buf
  <2> HIDE DEF b, m
  <2>5. b.len <= b.capacity /\ b.requested_len <= b.capacity /\ b.len <= m /\ (buffer.ptr = 0 => b.len = 0)
    BY <1>1, <1>3, <2>3, <2>4
  <2> QED
    BY <2>2, <2>3, <2>4, <2>5, ChangeStep
<1> QED
  BY <1>5, <1>6, <1>7

\* Any way to make a buffer.
LEMMA MakeSteps ==
  ASSUME BuffersInv, \/ \E n \in B!Lengths : B!New(n) \/ B!Allocate(n)
                     \/ \E len \in B!Lengths, capacity_ \in B!Lengths : B!FromVec(len, capacity_) \/ B!FromUninit(len, capacity_)
  PROVE  BuffersInv'
<1>1. \A n \in B!Lengths : n \in Nat
  BY LenAssumption DEF B!Lengths
<1>2. "default" \in Allocators /\ "mmap" \in Allocators
  BY DEF Allocators
<1>3. ASSUME NEW n \in B!Lengths, B!New(n) PROVE BuffersInv'
  <2>1. PICK more \in IF n = 0 THEN {0} ELSE {0, 1} : B!Make(0, n, n + more, "default", 0)
    BY <1>3 DEF B!New
  <2>2. more \in {0, 1}
    OBVIOUS
  <2> DEFINE c == n + more
  <2>3. n \in Nat /\ c \in Nat /\ n <= c /\ 0 <= c /\ 0 \in Nat /\ 0 <= 0
    BY <1>1, <2>2
  <2> HIDE DEF c
  <2> QED
    BY <1>2, <2>1, <2>3, MakeStep DEF c
<1>4. ASSUME NEW n \in B!Lengths, B!Allocate(n) PROVE BuffersInv'
  <2>1. CASE B!New(n)
    BY <1>3, <2>1
  <2>2. CASE platform = "linux" /\ B!Make(0, n, n, "mmap", n)
    <3>1. n \in Nat /\ 0 <= n /\ n <= n /\ 0 \in Nat
      BY <1>1
    <3> QED
      BY <1>2, <2>2, <3>1, MakeStep
  <2> QED
    BY <1>4, <2>1, <2>2 DEF B!Allocate, B!Mmap
<1>5. ASSUME NEW len \in B!Lengths, NEW c \in B!Lengths, B!FromVec(len, c) PROVE BuffersInv'
  <2>1. len <= c /\ B!Make(len, len, c, "default", len) /\ len \in Nat /\ c \in Nat
    BY <1>1, <1>5 DEF B!FromVec
  <2>2. len <= len
    BY <2>1
  <2> QED
    BY <1>2, <2>1, <2>2, MakeStep
<1>6. ASSUME NEW len \in B!Lengths, NEW c \in B!Lengths, B!FromUninit(len, c) PROVE BuffersInv'
  <2>1. len <= c /\ B!Make(0, len, c, "default", 0) /\ len \in Nat /\ c \in Nat
    BY <1>1, <1>6 DEF B!FromUninit
  <2>2. 0 \in Nat /\ 0 <= 0 /\ 0 <= c
    BY <2>1
  <2> QED
    BY <1>2, <2>1, <2>2, MakeStep
<1> QED
  BY <1>3, <1>4, <1>5, <1>6

\* The transfer takes what the buffer has.
LEMMA submitStep == ASSUME BuffersInv, B!submit PROVE BuffersInv'
<1> USE DEF BuffersInv
<1>1. /\ B!InHand /\ stage = "idle" /\ transfer' = B!SetBuffer(buffer) /\ stage' \in {"complete", "flying"}
      /\ buffer' = B!NoBuf /\ received' = -1 /\ UNCHANGED <<platform, direction, memory>>
  BY DEF B!submit
<1>2. /\ buffer \in Buf /\ buffer.ptr \in {0, 1, 2} /\ MaxLen \in Nat
      /\ buffer.len \in Nat /\ buffer.capacity \in Nat /\ buffer.requested_len \in Nat /\ buffer.allocator \in Allocators
  BY <1>1, BufferFields
<1>3. /\ buffer.len <= InitOf(buffer.ptr) /\ buffer.len <= buffer.capacity /\ buffer.requested_len <= buffer.capacity
      /\ (buffer.capacity = 0 <=> buffer.ptr = 0)
  BY <1>1 DEF LengthsInv, OwnersInv
<1>4. transfer = B!Empty
  BY <1>1 DEF BufferTypes
<1>5. transfer.capacity = 0
  BY <1>4 DEF B!Empty
<1> DEFINE len == IF direction = "out" THEN buffer.len ELSE buffer.requested_len
           who == IF platform = "linux" THEN buffer.allocator ELSE "default"
           all == IF platform = "webusb" THEN buffer ELSE B!NoBuf
<1>6. transfer' = [ptr |-> buffer.ptr, capacity |-> buffer.capacity, allocator |-> who,
                   length |-> len, actual |-> 0, data |-> FALSE, kept |-> all]
  BY <1>1 DEF B!SetBuffer, B!Empty
<1>7. /\ len \in Nat /\ len <= buffer.capacity /\ (direction = "out" => len <= InitOf(buffer.ptr))
      /\ who = buffer.allocator /\ who \in Allocators /\ (platform # "linux" => who = "default")
      /\ all \in Buf \union {B!NoBuf}
  BY <1>2, <1>3 DEF BufferTypes, Allocators
<1>8. platform = "webusb" => all = buffer
  OBVIOUS
<1> HIDE DEF len, who, all
<1>9. transfer' \in [ptr : {0, 1, 2}, capacity : Nat, allocator : Allocators, length : Nat,
                     actual : 0..MaxLen, data : BOOLEAN, kept : Buf \union {B!NoBuf}]
  <2>1. 0 \in 0..MaxLen
    BY <1>2
  <2> QED
    BY <1>2, <1>6, <1>7, <2>1
<1>10. /\ transfer'.ptr = buffer.ptr /\ transfer'.capacity = buffer.capacity /\ transfer'.allocator = buffer.allocator
       /\ transfer'.length = len /\ transfer'.actual = 0 /\ transfer'.kept = all
  BY <1>6, <1>7
<1>11. ~B!InHand' /\ buffer'.allocator = "default"
  BY <1>1 DEF B!InHand, B!NoBuf
<1>12. BufferTypes'
  <2>1. -1 \in -1..MaxLen
    BY <1>2
  <2>2. buffer' \in Buf \union {B!NoBuf} /\ stage' \in {"idle", "flying", "complete"} /\ stage' # "idle"
    BY <1>1
  <2>3. platform # "linux" => transfer'.allocator = "default"
    BY <1>7, <1>10
  <2> QED
    BY <1>1, <1>9, <1>11, <2>1, <2>2, <2>3 DEF BufferTypes
<1>13. \A a \in B!Addresses : ~HandHas(a)' /\ ~TransferHas(a) /\ (TransferHas(a)' <=> HandHas(a))
  BY <1>1, <1>5, <1>10, <1>11 DEF HandHas, TransferHas
<1>14. OwnersInv'
  <2>1. ASSUME NEW a \in B!Addresses
        PROVE  /\ memory'[a] # B!Free <=> HandHas(a)' \/ TransferHas(a)'
               /\ TransferHas(a)' => memory'[a].allocator = transfer'.allocator /\ memory'[a].capacity = transfer'.capacity
    BY <1>1, <1>10, <1>13 DEF OwnersInv
  <2> QED
    BY <1>3, <1>10, <1>11, <1>13, <2>1 DEF OwnersInv
<1>15. LengthsInv'
  <2>1. InitOf(transfer.ptr)' = InitOf(buffer.ptr) /\ InitOf(buffer.ptr) \in Nat
    BY <1>1, <1>2, <1>10, BufferFields DEF InitOf
  <2>2. B!LenIsReceived'
    BY <1>1 DEF B!LenIsReceived
  <2> DEFINE i == InitOf(buffer.ptr)
  <2>4. i \in Nat /\ InitOf(transfer.ptr)' = i /\ buffer.len <= i /\ (direction = "out" => len <= i)
    BY <1>3, <1>7, <2>1
  <2> HIDE DEF i
  <2>3. /\ transfer'.length <= transfer'.capacity /\ transfer'.actual <= transfer'.length
        /\ direction' = "out" => transfer'.length <= i
        /\ platform' = "webusb" => /\ transfer'.kept.len <= i /\ transfer'.kept.len <= transfer'.capacity
                                   /\ transfer'.kept.requested_len <= transfer'.capacity
        /\ transfer'.actual <= i
    BY <1>1, <1>2, <1>3, <1>7, <1>8, <1>10, <2>4
  <2> QED
    BY <1>11, <2>2, <2>3, <2>4 DEF LengthsInv
<1> QED
  BY <1>12, <1>14, <1>15

\* Memory of the transfer may be initialised; nothing else is touched.
LEMMA ReceiveKeeps ==
  ASSUME BuffersInv, NEW n \in Nat, memory' = memory \/ memory' = B!Initialised(transfer.ptr, n)
  PROVE  /\ memory' \in [B!Addresses -> [allocator : Allocators \union {"none"}, capacity : Nat, init : Nat]]
         /\ \A a \in B!Addresses :
              /\ memory'[a].allocator = memory[a].allocator /\ memory'[a].capacity = memory[a].capacity
              /\ memory'[a].init >= memory[a].init /\ memory'[a].init \in Nat /\ memory[a].init \in Nat
              /\ memory'[a] # B!Free <=> memory[a] # B!Free
         /\ memory' # memory /\ transfer.ptr # 0 => memory'[transfer.ptr].init >= n
<1> USE DEF BuffersInv
<1> DEFINE Cell == [allocator : Allocators \union {"none"}, capacity : Nat, init : Nat]
<1>1. B!Addresses = {1, 2} /\ transfer.ptr \in {0, 1, 2} /\ \A a \in B!Addresses : memory[a].init \in Nat
  BY BufferFields
<1>2. CASE memory' = memory
  BY <1>1, <1>2 DEF BufferTypes
<1>3. CASE memory' = B!Initialised(transfer.ptr, n)
  <2>1. transfer.ptr # 0 => Allocated(transfer.ptr)
    BY OwnerFacts
  <2>2. /\ memory' \in [B!Addresses -> Cell]
        /\ \A a \in B!Addresses :
             /\ memory'[a].allocator = memory[a].allocator /\ memory'[a].capacity = memory[a].capacity
             /\ memory'[a].init >= memory[a].init /\ (a = transfer.ptr => memory'[a].init >= n)
             /\ memory'[a] # B!Free <=> memory[a] # B!Free
    BY <1>1, <1>3, <2>1, InitialisedFacts
  <2>3. \A a \in B!Addresses : memory'[a].init \in Nat
    BY <2>2
  <2> QED
    BY <1>1, <2>2, <2>3
<1> QED
  BY <1>2, <1>3

\* The host is done with the transfer.
LEMMA CompletionStep ==
  ASSUME BuffersInv, NEW n \in B!Lengths, NEW data \in BOOLEAN, B!Complete(n, data)
  PROVE  BuffersInv'
<1> USE DEF BuffersInv
<1>1. /\ stage = "flying" /\ n \in 0..transfer.length /\ stage' = "complete"
      /\ transfer' = [transfer EXCEPT !.actual = n, !.data = data]
      /\ memory' = (IF direction = "in" /\ platform # "webusb" THEN B!Initialised(transfer.ptr, n) ELSE memory)
      /\ UNCHANGED <<platform, direction, buffer, received>>
  BY DEF B!Complete
<1>2. /\ n \in 0..MaxLen /\ n \in Nat /\ MaxLen \in Nat /\ B!Addresses = {1, 2}
      /\ transfer.length \in Nat /\ transfer.ptr \in {0, 1, 2} /\ transfer.capacity \in Nat
      /\ buffer.len \in Nat /\ transfer.kept.len \in Nat /\ (B!InHand => buffer.ptr \in {0, 1, 2})
  BY LenAssumption, BufferFields DEF B!Lengths
<1>3. /\ memory' \in [B!Addresses -> [allocator : Allocators \union {"none"}, capacity : Nat, init : Nat]]
      /\ \A a \in B!Addresses :
           /\ memory'[a].allocator = memory[a].allocator /\ memory'[a].capacity = memory[a].capacity
           /\ memory'[a].init >= memory[a].init /\ memory'[a].init \in Nat /\ memory[a].init \in Nat
           /\ memory'[a] # B!Free <=> memory[a] # B!Free
      /\ memory' # memory /\ transfer.ptr # 0 => memory'[transfer.ptr].init >= n
  BY <1>1, <1>2, ReceiveKeeps
<1>4. /\ transfer' \in [ptr : {0, 1, 2}, capacity : Nat, allocator : Allocators, length : Nat,
                        actual : 0..MaxLen, data : BOOLEAN, kept : Buf \union {B!NoBuf}]
      /\ transfer'.ptr = transfer.ptr /\ transfer'.capacity = transfer.capacity
      /\ transfer'.allocator = transfer.allocator /\ transfer'.length = transfer.length
      /\ transfer'.actual = n /\ transfer'.kept = transfer.kept
  BY <1>1, <1>2 DEF BufferTypes
<1>5. BufferTypes'
  BY <1>1, <1>3, <1>4 DEF BufferTypes
<1>6. \A a \in B!Addresses : (HandHas(a)' <=> HandHas(a)) /\ (TransferHas(a)' <=> TransferHas(a))
  BY <1>1, <1>4 DEF HandHas, TransferHas, B!InHand
<1>7. OwnersInv'
  <2>1. ASSUME NEW a \in B!Addresses
        PROVE  /\ memory'[a] # B!Free <=> HandHas(a)' \/ TransferHas(a)'
               /\ ~(HandHas(a)' /\ TransferHas(a)')
               /\ HandHas(a)' => memory'[a].allocator = buffer'.allocator /\ memory'[a].capacity = buffer'.capacity
               /\ TransferHas(a)' => memory'[a].allocator = transfer'.allocator /\ memory'[a].capacity = transfer'.capacity
    BY <1>1, <1>3, <1>4, <1>6 DEF OwnersInv
  <2>2. /\ B!InHand' => (buffer'.capacity = 0 <=> buffer'.ptr = 0)
        /\ transfer'.capacity = 0 <=> transfer'.ptr = 0
    BY <1>1, <1>4 DEF OwnersInv, B!InHand
  <2> QED
    BY <2>1, <2>2 DEF OwnersInv
<1>8. ASSUME NEW p \in {0, 1, 2}
      PROVE  InitOf(p)' >= InitOf(p) /\ InitOf(p)' \in Nat /\ InitOf(p) \in Nat
  BY <1>2, <1>3 DEF InitOf
<1>9. B!InHand' => buffer'.len <= InitOf(buffer.ptr)' /\ buffer'.len <= buffer'.capacity /\ buffer'.requested_len <= buffer'.capacity
  <2> SUFFICES ASSUME B!InHand
               PROVE  buffer'.len <= InitOf(buffer.ptr)' /\ buffer'.len <= buffer'.capacity /\ buffer'.requested_len <= buffer'.capacity
    BY <1>1 DEF B!InHand
  <2>1. buffer.len <= InitOf(buffer.ptr) /\ buffer.len <= buffer.capacity /\ buffer.requested_len <= buffer.capacity
    BY DEF LengthsInv
  <2> DEFINE i == InitOf(buffer.ptr)
             j == InitOf(buffer.ptr)'
  <2>2. j >= i /\ j \in Nat /\ i \in Nat /\ buffer.len <= i
    <3>1. PICK p \in {0, 1, 2} : p = buffer.ptr
      BY <1>2
    <3>2. InitOf(p)' = InitOf(buffer.ptr)' /\ InitOf(p) = InitOf(buffer.ptr)
      BY <1>1, <3>1 DEF InitOf
    <3> QED
      BY <1>8, <2>1, <3>2
  <2> HIDE DEF i, j
  <2>3. buffer.len <= j
    BY <1>2, <2>2
  <2> QED
    BY <1>1, <2>1, <2>3 DEF j
<1>10. /\ transfer'.length <= transfer'.capacity /\ transfer'.actual <= transfer'.length
       /\ direction' = "out" => transfer'.length <= InitOf(transfer.ptr)'
       /\ platform' = "webusb" => /\ transfer'.kept.len <= InitOf(transfer.ptr)'
                                  /\ transfer'.kept.len <= transfer'.capacity
                                  /\ transfer'.kept.requested_len <= transfer'.capacity
       /\ platform' # "webusb" /\ direction' = "in" => transfer'.actual <= InitOf(transfer.ptr)'
  <2> DEFINE i == InitOf(transfer.ptr)
             j == InitOf(transfer.ptr)'
  <2>1. j >= i /\ j \in Nat /\ i \in Nat
    <3>1. PICK p \in {0, 1, 2} : p = transfer.ptr
      BY <1>2
    <3>2. InitOf(p)' = InitOf(transfer.ptr)' /\ InitOf(p) = InitOf(transfer.ptr)
      BY <1>4, <3>1 DEF InitOf
    <3> QED
      BY <1>8, <3>2
  <2>2. /\ transfer.length <= transfer.capacity
        /\ direction = "out" => transfer.length <= i
        /\ platform = "webusb" => /\ transfer.kept.len <= i /\ transfer.kept.len <= transfer.capacity
                                  /\ transfer.kept.requested_len <= transfer.capacity
    BY <1>1 DEF LengthsInv
  <2>3. ASSUME platform # "webusb", direction = "in" PROVE n <= j
    <3>1. memory' = B!Initialised(transfer.ptr, n)
      BY <1>1, <2>3
    <3>2. CASE transfer.ptr = 0
      <4>1. n = 0
        BY <1>1, <1>2, <2>2, <3>2 DEF OwnersInv
      <4> HIDE DEF j
      <4> QED
        BY <2>1, <4>1
    <3>3. CASE transfer.ptr # 0
      <4>1. transfer.ptr \in B!Addresses /\ Allocated(transfer.ptr)
        BY <3>3, OwnerFacts
      <4>2. memory'[transfer.ptr].init >= n /\ memory'[transfer.ptr].init \in Nat
        BY <1>2, <3>1, <4>1, InitialisedFacts, <1>3
      <4>3. j = memory'[transfer.ptr].init
        BY <1>4, <4>1 DEF InitOf
      <4> HIDE DEF j
      <4> QED
        BY <1>2, <4>2, <4>3
    <3> QED
      BY <3>2, <3>3
  <2> HIDE DEF i, j
  <2>4. /\ transfer.length <= transfer.capacity /\ n <= transfer.length
        /\ direction = "out" => transfer.length <= j
        /\ platform = "webusb" => /\ transfer.kept.len <= j /\ transfer.kept.len <= transfer.capacity
                                  /\ transfer.kept.requested_len <= transfer.capacity
        /\ platform # "webusb" /\ direction = "in" => n <= j
    BY <1>1, <1>2, <2>1, <2>2, <2>3
  <2> QED
    BY <1>1, <1>4, <2>4 DEF j
<1>11. platform' # "webusb" => B!LenIsReceived'
  BY <1>1 DEF LengthsInv, B!LenIsReceived
<1>12. LengthsInv'
  BY <1>9, <1>10, <1>11 DEF LengthsInv
<1> QED
  BY <1>5, <1>7, <1>12

\* A transfer is dropped with its buffer.
LEMMA DropTransferStep == ASSUME BuffersInv, B!DropTransfer PROVE BuffersInv'
<1> USE DEF BuffersInv
<1> DEFINE Cell == [allocator : Allocators \union {"none"}, capacity : Nat, init : Nat]
<1>1. /\ memory' = (IF transfer.capacity = 0 THEN memory ELSE B!Freed(transfer.ptr))
      /\ transfer' = B!Empty /\ stage' = "idle"
      /\ UNCHANGED <<platform, direction, buffer, received>>
  BY DEF B!DropTransfer
<1>2. B!Addresses = {1, 2} /\ transfer.ptr \in {0, 1, 2} /\ (B!InHand => buffer.ptr \in {0, 1, 2})
  BY BufferFields
<1>3. memory \in [B!Addresses -> Cell] /\ B!Free \in Cell /\ (transfer.capacity = 0 <=> transfer.ptr = 0)
  BY DEF BufferTypes, B!Free, OwnersInv
<1>4. /\ memory' \in [B!Addresses -> Cell]
      /\ \A a \in B!Addresses : memory'[a] = IF a = transfer.ptr THEN B!Free ELSE memory[a]
  BY <1>1, <1>2, <1>3 DEF B!Freed
<1>5. /\ transfer' \in [ptr : {0, 1, 2}, capacity : Nat, allocator : Allocators, length : Nat,
                        actual : 0..MaxLen, data : BOOLEAN, kept : Buf \union {B!NoBuf}]
      /\ transfer'.capacity = 0 /\ transfer'.ptr = 0 /\ transfer'.allocator = "default"
  <2>1. 0 \in 0..MaxLen
    BY LenAssumption
  <2> QED
    BY <1>1, <2>1 DEF B!Empty, Allocators
<1>6. BufferTypes'
  BY <1>1, <1>4, <1>5 DEF BufferTypes
<1>7. \A a \in B!Addresses : (HandHas(a)' <=> HandHas(a)) /\ ~TransferHas(a)'
  BY <1>1, <1>5 DEF HandHas, TransferHas, B!InHand
<1>8. OwnersInv'
  <2>1. ASSUME NEW a \in B!Addresses
        PROVE  /\ memory'[a] # B!Free <=> HandHas(a)' \/ TransferHas(a)'
               /\ HandHas(a)' => memory'[a].allocator = buffer'.allocator /\ memory'[a].capacity = buffer'.capacity
    <3>1. CASE a = transfer.ptr
      <4>1. TransferHas(a) /\ ~HandHas(a)
        BY <1>2, <3>1, OwnerFacts DEF OwnersInv
      <4> QED
        BY <1>4, <1>7, <3>1, <4>1
    <3>2. CASE a # transfer.ptr
      <4>1. ~TransferHas(a) /\ memory'[a] = memory[a]
        BY <1>4, <3>2 DEF TransferHas
      <4> QED
        BY <1>1, <1>7, <4>1 DEF OwnersInv
    <3> QED
      BY <3>1, <3>2
  <2>2. B!InHand' => (buffer'.capacity = 0 <=> buffer'.ptr = 0)
    BY <1>1 DEF OwnersInv, B!InHand
  <2> QED
    BY <1>5, <1>7, <2>1, <2>2 DEF OwnersInv
<1>9. LengthsInv'
  <2>1. B!InHand => InitOf(buffer.ptr)' = InitOf(buffer.ptr)
    <3> SUFFICES ASSUME B!InHand PROVE InitOf(buffer.ptr)' = InitOf(buffer.ptr)
      OBVIOUS
    <3>1. CASE buffer.ptr = 0
      BY <1>1, <1>2, <3>1 DEF InitOf
    <3>2. CASE buffer.ptr # 0
      <4>1. buffer.ptr \in B!Addresses /\ buffer.ptr # transfer.ptr
        BY <3>2, OwnerFacts
      <4> QED
        BY <1>1, <1>4, <4>1 DEF InitOf
    <3> QED
      BY <3>1, <3>2
  <2>2. platform' # "webusb" => B!LenIsReceived'
    BY <1>1 DEF LengthsInv, B!LenIsReceived
  <2>3. B!InHand' => buffer'.len <= InitOf(buffer.ptr)' /\ buffer'.len <= buffer'.capacity /\ buffer'.requested_len <= buffer'.capacity
    BY <1>1, <2>1 DEF LengthsInv, B!InHand
  <2> QED
    BY <1>1, <2>2, <2>3 DEF LengthsInv
<1> QED
  BY <1>6, <1>8, <1>9

\* The buffer comes back with what was received.
LEMMA TakeCompletionStep == ASSUME BuffersInv, B!TakeCompletion PROVE BuffersInv'
<1> USE DEF BuffersInv
<1> DEFINE len == B!LenOf(transfer)
           requested == IF platform = "webusb" THEN transfer.kept.requested_len ELSE transfer.length
<1>1. /\ stage = "complete" /\ ~B!InHand /\ stage' = "idle" /\ transfer' = B!Empty /\ received' = transfer.actual
      /\ buffer' = [ptr |-> transfer.ptr, len |-> len, capacity |-> transfer.capacity,
                    requested_len |-> requested, allocator |-> transfer.allocator]
      /\ memory' = (IF direction = "in" /\ platform = "webusb" THEN B!Initialised(transfer.ptr, transfer.actual) ELSE memory)
      /\ UNCHANGED <<platform, direction>>
  BY DEF B!TakeCompletion, B!Left
<1>2. /\ MaxLen \in Nat /\ B!Addresses = {1, 2}
      /\ transfer.length \in Nat /\ transfer.ptr \in {0, 1, 2} /\ transfer.capacity \in Nat /\ transfer.allocator \in Allocators
      /\ transfer.actual \in 0..MaxLen /\ transfer.actual \in Nat
      /\ transfer.kept.len \in Nat /\ transfer.kept.requested_len \in Nat
  BY BufferFields
<1>3. /\ memory' \in [B!Addresses -> [allocator : Allocators \union {"none"}, capacity : Nat, init : Nat]]
      /\ \A a \in B!Addresses :
           /\ memory'[a].allocator = memory[a].allocator /\ memory'[a].capacity = memory[a].capacity
           /\ memory'[a].init >= memory[a].init /\ memory'[a].init \in Nat /\ memory[a].init \in Nat
           /\ memory'[a] # B!Free <=> memory[a] # B!Free
  BY <1>1, <1>2, ReceiveKeeps
<1>4. /\ transfer.length <= transfer.capacity /\ transfer.actual <= transfer.length
      /\ direction = "out" => transfer.length <= InitOf(transfer.ptr)
      /\ platform = "webusb" => /\ transfer.kept.len <= InitOf(transfer.ptr)
                                /\ transfer.kept.len <= transfer.capacity
                                /\ transfer.kept.requested_len <= transfer.capacity
      /\ platform # "webusb" /\ direction = "in" => transfer.actual <= InitOf(transfer.ptr)
      /\ transfer.capacity = 0 <=> transfer.ptr = 0
  BY <1>1 DEF LengthsInv, OwnersInv
<1>5. direction = "in" \/ direction = "out"
  BY DEF BufferTypes, B!Directions
<1>6. \/ platform = "webusb" /\ direction = "in" /\ transfer.data /\ len = transfer.actual
      \/ platform = "webusb" /\ ~(direction = "in" /\ transfer.data) /\ len = transfer.kept.len
      \/ platform # "webusb" /\ direction = "in" /\ len = transfer.actual
      \/ platform # "webusb" /\ direction = "out" /\ len = transfer.length
  BY <1>5 DEF B!LenOf
<1>7. /\ requested \in Nat /\ requested <= transfer.capacity
      /\ platform = "webusb" \/ requested = transfer.length
  BY <1>2, <1>4
<1> HIDE DEF len, requested
<1>8. len \in Nat /\ len <= transfer.capacity
  BY <1>2, <1>4, <1>6
<1> DEFINE i == InitOf(transfer.ptr)
           j == IF transfer.ptr = 0 THEN 0 ELSE memory'[transfer.ptr].init
<1>9. i \in Nat /\ j \in Nat /\ j >= i
  <2>1. CASE transfer.ptr = 0
    BY <1>2, <2>1 DEF InitOf
  <2>2. CASE transfer.ptr # 0
    BY <1>2, <1>3, <2>2 DEF InitOf
  <2> QED
    BY <2>1, <2>2
<1>10. platform = "webusb" /\ direction = "in" => transfer.actual <= j
  <2> SUFFICES ASSUME platform = "webusb", direction = "in" PROVE transfer.actual <= j
    OBVIOUS
  <2>1. CASE transfer.ptr = 0
    BY <1>2, <1>4, <2>1
  <2>2. CASE transfer.ptr # 0
    <3>1. memory' = B!Initialised(transfer.ptr, transfer.actual) /\ transfer.ptr \in B!Addresses /\ Allocated(transfer.ptr)
      BY <1>1, <2>2, OwnerFacts
    <3>2. memory'[transfer.ptr].init >= transfer.actual
      BY <1>2, <3>1, InitialisedFacts
    <3>3. j = memory'[transfer.ptr].init
      BY <2>2
    <3> HIDE DEF j
    <3> QED
      BY <1>2, <1>9, <3>2, <3>3
  <2> QED
    BY <2>1, <2>2
<1>11. len <= j
  <2>1. (direction = "out" => transfer.length <= i) /\ (platform = "webusb" => transfer.kept.len <= i)
    BY <1>4
  <2>2. platform # "webusb" /\ direction = "in" => transfer.actual <= i
    BY <1>4
  <2> HIDE DEF i, j
  <2> QED
    BY <1>2, <1>6, <1>8, <1>9, <1>10, <2>1, <2>2
<1>12. /\ buffer' \in Buf /\ buffer'.ptr = transfer.ptr /\ buffer'.len = len /\ buffer'.capacity = transfer.capacity
       /\ buffer'.requested_len = requested /\ buffer'.allocator = transfer.allocator
  BY <1>1, <1>2, <1>7, <1>8 DEF Buf
<1>13. B!InHand'
  BY <1>12 DEF B!InHand, B!NoBuf, Buf
<1>14. /\ transfer' \in [ptr : {0, 1, 2}, capacity : Nat, allocator : Allocators, length : Nat,
                         actual : 0..MaxLen, data : BOOLEAN, kept : Buf \union {B!NoBuf}]
       /\ transfer'.capacity = 0 /\ transfer'.ptr = 0 /\ transfer'.allocator = "default"
  <2>1. 0 \in 0..MaxLen
    BY <1>2
  <2> QED
    BY <1>1, <2>1 DEF B!Empty, Allocators
<1>15. BufferTypes'
  <2>1. received' \in -1..MaxLen
    BY <1>1, <1>2
  <2>2. platform # "linux" => buffer'.allocator = "default"
    BY <1>12 DEF BufferTypes
  <2> QED
    BY <1>1, <1>3, <1>12, <1>14, <2>1, <2>2 DEF BufferTypes
<1>16. \A a \in B!Addresses : ~HandHas(a) /\ ~TransferHas(a)' /\ (HandHas(a)' <=> TransferHas(a))
  BY <1>1, <1>12, <1>13, <1>14 DEF HandHas, TransferHas
<1>17. OwnersInv'
  <2>1. ASSUME NEW a \in B!Addresses
        PROVE  /\ memory'[a] # B!Free <=> HandHas(a)' \/ TransferHas(a)'
               /\ HandHas(a)' => memory'[a].allocator = buffer'.allocator /\ memory'[a].capacity = buffer'.capacity
    BY <1>3, <1>12, <1>16 DEF OwnersInv
  <2>2. buffer'.capacity = 0 <=> buffer'.ptr = 0
    BY <1>4, <1>12
  <2> QED
    BY <1>14, <1>16, <2>1, <2>2 DEF OwnersInv
<1>18. LengthsInv'
  <2>1. InitOf(buffer.ptr)' = j
    BY <1>2, <1>12 DEF InitOf
  <2>2. buffer'.len <= InitOf(buffer.ptr)' /\ buffer'.len <= buffer'.capacity /\ buffer'.requested_len <= buffer'.capacity
    BY <1>7, <1>8, <1>11, <1>12, <2>1
  <2>3. platform' # "webusb" => B!LenIsReceived'
    BY <1>1, <1>6, <1>12 DEF B!LenIsReceived
  <2> QED
    BY <1>1, <2>2, <2>3 DEF LengthsInv
<1> QED
  BY <1>15, <1>17, <1>18

\* Every step of the buffers, or of something else, preserves the invariant.
LEMMA BuffersStep == ASSUME BuffersInv, [B!Next]_(B!vars) PROVE BuffersInv'
<1>1. CASE UNCHANGED B!vars
  BY <1>1 DEF BuffersInv, BufferTypes, OwnersInv, LengthsInv, InitOf, HandHas, TransferHas, B!InHand, B!LenIsReceived, B!vars
<1>2. CASE B!Next
  <2>1. CASE \/ \E n \in B!Lengths : B!New(n) \/ B!Allocate(n)
             \/ \E len \in B!Lengths, c \in B!Lengths : B!FromVec(len, c) \/ B!FromUninit(len, c)
    BY <2>1, MakeSteps
  <2>2. CASE (\E n \in B!Lengths : B!set_requested_len(n) \/ B!Extend(n)) \/ B!clear
    BY <2>2, FillSteps
  <2>3. CASE \E n \in B!Lengths, data \in BOOLEAN : B!Complete(n, data)
    BY <2>3, CompletionStep
  <2>4. CASE B!DropBuffer \/ B!submit \/ B!TakeCompletion \/ B!DropTransfer
    BY <2>4, DropBufferStep, submitStep, TakeCompletionStep, DropTransferStep
  <2> QED
    BY <1>2, <2>1, <2>2, <2>3, <2>4 DEF B!Next
<1> QED
  BY <1>1, <1>2

\* At first all memory is free.
LEMMA BuffersStart == ASSUME B!Init PROVE BuffersInv
<1>1. /\ platform \in Platforms /\ direction \in B!Directions
      /\ memory = [a \in B!Addresses |-> B!Free]
      /\ buffer = B!NoBuf /\ transfer = B!Empty /\ stage = "idle" /\ received = -1
  BY DEF B!Init
<1>2. ~B!InHand /\ buffer.allocator = "default"
  BY <1>1 DEF B!InHand, B!NoBuf
<1>3. transfer.capacity = 0 /\ transfer.ptr = 0 /\ transfer.allocator = "default"
  BY <1>1 DEF B!Empty
<1>4. BufferTypes
  <2>1. MaxLen \in Nat
    BY LenAssumption
  <2>2. memory \in [B!Addresses -> [allocator : Allocators \union {"none"}, capacity : Nat, init : Nat]]
    BY <1>1 DEF B!Free
  <2>3. transfer \in [ptr : {0, 1, 2}, capacity : Nat, allocator : Allocators, length : Nat,
                      actual : 0..MaxLen, data : BOOLEAN, kept : Buf \union {B!NoBuf}]
    BY <1>1, <2>1 DEF B!Empty, Allocators
  <2> QED
    BY <1>1, <1>2, <1>3, <2>1, <2>2, <2>3 DEF BufferTypes
<1>5. OwnersInv
  BY <1>1, <1>2, <1>3 DEF OwnersInv, HandHas, TransferHas
<1>6. LengthsInv
  BY <1>1, <1>2 DEF LengthsInv, B!LenIsReceived
<1> QED
  BY <1>4, <1>5, <1>6 DEF BuffersInv

\* The buffers are as their types say.
LEMMA BufferTypesHold == BuffersInv => B!BuffersTypeOK
BY BufferFields DEF BuffersInv, BufferTypes, B!BuffersTypeOK, Allocators

\* Cardinalities of sets of at most two.
LEMMA AtMostTwo ==
  /\ \A S : B!Cardinality(S) = Cardinality(S)
  /\ Cardinality({}) = 0
  /\ \A a : Cardinality({a}) = 1
  /\ \A a, b : a # b => Cardinality({a, b}) = 2
<1>1. ASSUME NEW S PROVE B!Cardinality(S) = Cardinality(S)
  BY DEF B!Cardinality, Cardinality
<1>2. ASSUME NEW a, NEW b, a # b PROVE Cardinality({a, b}) = 2
  <2>1. IsFiniteSet({a}) /\ Cardinality({a}) = 1
    BY FS_Singleton
  <2>2. Cardinality({a} \union {b}) = Cardinality({a}) + 1
    BY <1>2, <2>1, FS_AddElement
  <2>3. {a} \union {b} = {a, b}
    OBVIOUS
  <2> QED
    BY <2>1, <2>2, <2>3
<1> QED
  BY <1>1, <1>2, FS_EmptySet, FS_Singleton

\* Every allocation has one owner.
LEMMA OneOwner == ASSUME BuffersInv PROVE B!OwnedOnce
<1> USE DEF BuffersInv
<1>1. /\ B!Addresses = {1, 2} /\ transfer.ptr \in {0, 1, 2} /\ (B!InHand => buffer.ptr \in {0, 1, 2})
      /\ transfer.capacity \in Nat /\ buffer.capacity \in Nat
  BY BufferFields
<1>2. B!InHand => B!Owns(buffer)
  BY <1>1, OwnerFacts DEF B!Owns, OwnersInv
<1>3. B!Owns(transfer)
  BY <1>1, OwnerFacts DEF B!Owns, OwnersInv
<1> DEFINE h == B!InHand /\ buffer.capacity > 0
           t == transfer.capacity > 0
           A == {a \in B!Addresses : memory[a] # B!Free}
           O == {o \in {"hand", "transfer"} : IF o = "hand" THEN B!InHand /\ buffer.capacity > 0 ELSE transfer.capacity > 0}
<1>4. /\ h => buffer.ptr \in B!Addresses
      /\ t => transfer.ptr \in B!Addresses
      /\ h /\ t => buffer.ptr # transfer.ptr
  BY <1>1, OwnerFacts DEF OwnersInv
<1>5. \A a \in B!Addresses : a \in A <=> (h /\ a = buffer.ptr) \/ (t /\ a = transfer.ptr)
  BY DEF OwnersInv, HandHas, TransferHas
<1>6. A \subseteq B!Addresses
  OBVIOUS
<1>7. \A o : o \in O <=> (o = "hand" /\ h) \/ (o = "transfer" /\ t)
  OBVIOUS
<1> HIDE DEF h, t, A, O
<1>8. Cardinality(A) = Cardinality(O)
  <2>1. CASE ~h /\ ~t
    <3>1. A = {} /\ O = {}
      BY <1>5, <1>6, <1>7, <2>1
    <3> QED
      BY <3>1
  <2>2. CASE h /\ ~t
    <3>1. A = {buffer.ptr} /\ O = {"hand"}
      BY <1>4, <1>5, <1>6, <1>7, <2>2
    <3> QED
      BY <3>1, AtMostTwo
  <2>3. CASE ~h /\ t
    <3>1. A = {transfer.ptr} /\ O = {"transfer"}
      BY <1>4, <1>5, <1>6, <1>7, <2>3
    <3> QED
      BY <3>1, AtMostTwo
  <2>4. CASE h /\ t
    <3>1. A = {buffer.ptr, transfer.ptr} /\ O = {"hand", "transfer"} /\ "hand" # "transfer"
      BY <1>4, <1>5, <1>6, <1>7, <2>4
    <3>2. buffer.ptr # transfer.ptr
      BY <1>4, <2>4
    <3>3. Cardinality({buffer.ptr, transfer.ptr}) = 2
      BY <3>2, AtMostTwo
    <3>4. Cardinality({"hand", "transfer"}) = 2
      BY <3>1, AtMostTwo
    <3> QED
      BY <3>1, <3>3, <3>4
  <2> QED
    BY <2>1, <2>2, <2>3, <2>4
<1> QED
  BY <1>2, <1>3, <1>8, AtMostTwo DEF B!OwnedOnce, A, O

\* Buffers are as sound as they should be.
LEMMA SoundBuffers == BuffersInv => B!BuffersAreSound
<1> SUFFICES ASSUME BuffersInv PROVE B!BuffersAreSound
  OBVIOUS
<1>1. B!NothingUninitialised
  BY DEF BuffersInv, LengthsInv, InitOf, B!NothingUninitialised
<1>2. platform # "webusb" => B!LenIsReceived
  BY DEF BuffersInv, LengthsInv
<1> QED
  BY <1>1, <1>2, OneOwner DEF B!BuffersAreSound

-----------------------------------------------------------------------------
(* A program that reads, writes or transfers buffers, or a device that     *)
(* describes itself                                                        *)

\* The invariant of what the program does; the buffers and the description are as they
\* were at first if it does something else.
DataInv ==
  /\ program \in {"read", "write", "buffers", "descriptors"}
  /\ program = "read" =>
       ReaderInv /\ Conserved(Nat \ {End}) /\ ("messageAsyncBuf" \notin Ways => Conserved(Nat))
  /\ program = "write" => WriterInv
  /\ BuffersInv
  /\ D!DescriptorsTypeOK

\* What MCSpec leaves alone when nothing happens.
dataVars == <<program, vars, writeOnly, buffers, description>>

\* A device adds descriptors up to the bound.
LEMMA DescriptorsStep == ASSUME D!DescriptorsTypeOK, [D!DescriptorsNext]_description PROVE D!DescriptorsTypeOK'
<1> DEFINE M == D!Menu
<1>1. parts \in Seq(M) /\ Len(parts) <= MaxParts /\ error \in Errors
  BY DEF D!DescriptorsTypeOK
<1>2. CASE D!StartAgain
  <2>1. parts' = <<>> /\ error' = error
    BY <1>2 DEF D!StartAgain
  <2> HIDE DEF M
  <2>2. parts' \in Seq(M) /\ Len(parts') <= MaxParts
    BY <2>1, PartsAssumption
  <2> QED
    BY <1>1, <2>1, <2>2 DEF D!DescriptorsTypeOK, M, D!Menu
<1>3. ASSUME NEW p \in D!Menu, D!AddPart(p) PROVE D!DescriptorsTypeOK'
  <2>1. Len(parts) < MaxParts /\ parts' = Append(parts, p) /\ error' = error
    BY <1>3 DEF D!AddPart
  <2> HIDE DEF M
  <2>2. parts' \in Seq(M) /\ Len(parts') <= MaxParts
    <3>1. p \in M
      BY DEF M
    <3> QED
      BY <1>1, <2>1, <3>1, PartsAssumption
  <2> QED
    BY <1>1, <2>1, <2>2 DEF D!DescriptorsTypeOK, M, D!Menu
<1>4. CASE UNCHANGED description
  BY <1>1, <1>4 DEF description, D!DescriptorsTypeOK, D!Menu
<1> QED
  BY <1>2, <1>3, <1>4 DEF D!DescriptorsNext

\* The invariant holds at first.
LEMMA DataStart == MCInit => DataInv /\ NeverPanics
<1> SUFFICES ASSUME MCInit PROVE DataInv /\ NeverPanics
  OBVIOUS
<1>1. program # "write" => Init
  BY DEF MCInit, ReadInit
<1>2. program = "write" => W!Init
  BY DEF MCInit, WriteInit
<1>3. program = "read" => ReaderInv /\ Conserved(Nat \ {End}) /\ Conserved(Nat)
  BY <1>1, ReaderStart
<1>4. program = "write" => WriterInv
  BY <1>2, WriterStart
<1>5. BuffersInv
  BY BuffersStart DEF MCInit
<1>6. D!DescriptorsTypeOK
  <2> DEFINE M == D!Menu
  <2>1. parts = <<>> /\ error \in Errors
    BY DEF MCInit, D!DescriptorsInit
  <2> HIDE DEF M
  <2>2. parts \in Seq(M) /\ Len(parts) <= MaxParts
    BY <2>1, PartsAssumption
  <2> QED
    BY <2>1, <2>2 DEF D!DescriptorsTypeOK, M
<1>7. ~panicked
  BY DEF MCInit, ReadInit, Init, WriteInit
<1> QED
  BY <1>3, <1>4, <1>5, <1>6, <1>7 DEF MCInit, DataInv, NeverPanics

\* What a step of one program leaves to the others.
LEMMA DataStepCases ==
  ASSUME [MCNext]_dataVars
  PROVE  /\ program' = program
         /\ program = "read" => [Next]_vars
         /\ program = "write" => [W!Next]_(W!vars) /\ UNCHANGED panicked
         /\ program \notin {"read", "write"} => UNCHANGED W!vars /\ UNCHANGED panicked
         /\ [B!Next]_(B!vars) /\ [D!DescriptorsNext]_description
<1>1. CASE program = "read" /\ Next /\ UNCHANGED <<program, writeOnly, buffers, description>>
  BY <1>1 DEF buffers, B!vars
<1>2. CASE program = "write" /\ W!Next /\ UNCHANGED <<program, readOnly, buffers, description>>
  BY <1>2 DEF buffers, B!vars, readOnly
<1>3. CASE program = "buffers" /\ B!Next /\ UNCHANGED <<program, vars, writeOnly, description>>
  BY <1>3 DEF vars, endpoint, writeOnly, W!vars, W!endpoint
<1>4. CASE program = "descriptors" /\ D!DescriptorsNext /\ UNCHANGED <<program, vars, writeOnly, buffers>>
  BY <1>4 DEF vars, endpoint, writeOnly, buffers, B!vars, W!vars, W!endpoint
<1>5. CASE UNCHANGED dataVars
  <2>1. UNCHANGED <<program, vars, writeOnly, buffers, description>>
    BY <1>5 DEF dataVars
  <2> QED
    BY <2>1 DEF vars, endpoint, writeOnly, buffers, B!vars, W!vars, W!endpoint
<1> QED
  BY <1>1, <1>2, <1>3, <1>4, <1>5 DEF MCNext

\* Every step of MCSpec preserves the invariant.
LEMMA DataStep == DataInv /\ [MCNext]_dataVars => DataInv'
<1> SUFFICES ASSUME DataInv, [MCNext]_dataVars PROVE DataInv'
  OBVIOUS
<1>1. program \in {"read", "write", "buffers", "descriptors"} /\ program' = program
  BY DataStepCases DEF DataInv
<1>2. program = "read" => ReaderInv' /\ Conserved(Nat \ {End})' /\ ("messageAsyncBuf" \notin Ways => Conserved(Nat)')
  <2> SUFFICES ASSUME program = "read"
               PROVE  ReaderInv' /\ Conserved(Nat \ {End})' /\ ("messageAsyncBuf" \notin Ways => Conserved(Nat)')
    OBVIOUS
  <2>1. /\ ReaderInv /\ Conserved(Nat \ {End}) /\ ("messageAsyncBuf" \notin Ways => Conserved(Nat))
        /\ [Next]_vars
    BY DataStepCases DEF DataInv
  <2>2. Kinds(Nat \ {End}) /\ ("messageAsyncBuf" \notin Ways => Kinds(Nat))
    BY DEF Kinds
  <2>3. ReaderInv' /\ Conserved(Nat \ {End})'
    BY <2>1, <2>2, ReaderStep
  <2>4. ASSUME "messageAsyncBuf" \notin Ways PROVE Conserved(Nat)'
    BY <2>1, <2>2, <2>4, ReaderStep
  <2> QED
    BY <2>3, <2>4
<1>3. program = "write" => WriterInv'
  BY DataStepCases, WriterStep DEF DataInv
<1>4. BuffersInv'
  BY DataStepCases, BuffersStep DEF DataInv
<1>5. D!DescriptorsTypeOK'
  BY DataStepCases, DescriptorsStep DEF DataInv
<1> QED
  BY <1>1, <1>2, <1>3, <1>4, <1>5 DEF DataInv

\* The inductive invariant of a program that reads, writes or transfers buffers, or of a
\* device that describes itself: for any buffers, sizes and bounds.
THEOREM DataInvariant == MCSpec => []DataInv
<1>1. MCInit => DataInv
  BY DataStart
<1> QED
  BY <1>1, DataStep, PTL DEF MCSpec, dataVars

\* The queues, buffers and positions of the reader and the writer, the memory of
\* buffers and the descriptors a device adds have their types, whatever the program does.
THEOREM DataTyped == MCSpec => []DataTypeOK
<1>1. DataInv => DataTypeOK
  <2> SUFFICES ASSUME DataInv PROVE DataTypeOK
    OBVIOUS
  <2>1. program \in {"read", "write", "buffers", "descriptors"}
    BY DEF DataInv
  <2>2. program = "read" => TypeOK
    BY ReaderTypesHold DEF DataInv
  <2>3. program = "write" => W!TypeOK
    BY WriterTypesHold DEF DataInv
  <2>4. B!BuffersTypeOK /\ D!DescriptorsTypeOK
    BY BufferTypesHold DEF DataInv
  <2> HIDE DEF DataInv
  <2> QED
    BY <2>1, <2>2, <2>3, <2>4 DEF DataTypeOK, Each
<1> QED
  BY <1>1, DataInvariant, PTL

\* EndpointRead gives the program what the device sent, and what EndpointWrite is given
\* is carried, or returned as lost: in order, without gaps or repetitions.
THEOREM BytesDelivered == MCSpec => []BytesInOrder
<1>1. DataInv => BytesInOrder
  <2> SUFFICES ASSUME DataInv PROVE BytesInOrder
    OBVIOUS
  <2>1. program \in {"read", "write", "buffers", "descriptors"}
    BY DEF DataInv
  <2>2. program = "read" => NothingLostOrRepeated
    BY BytesConserved DEF DataInv
  <2>3. program = "write" => W!NothingLostOrRepeated
    BY NoneLost DEF DataInv
  <2> QED
    BY <2>1, <2>2, <2>3 DEF BytesInOrder, Each
<1> QED
  BY <1>1, DataInvariant, PTL

\* Without AsyncBufRead through EndpointReadUntilShortPacket, which drops the end of a
\* message, messages end exactly where the other side ended them.
THEOREM MessagesKept ==
  ASSUME "messageAsyncBuf" \notin Ways
  PROVE  MCSpec => []MessageBoundaries
<1>1. DataInv => MessageBoundaries
  <2> SUFFICES ASSUME DataInv PROVE MessageBoundaries
    OBVIOUS
  <2>1. program \in {"read", "write", "buffers", "descriptors"}
    BY DEF DataInv
  <2>2. program = "read" => MessagesPreserved
    BY MessagesConserved DEF DataInv
  <2>3. program = "write" => W!DelimitersAsRequested
    BY EndedAsAsked DEF DataInv
  <2> QED
    BY <2>1, <2>2, <2>3 DEF MessageBoundaries, Each
<1> QED
  BY <1>1, DataInvariant, PTL

\* Without BufRead through EndpointReadUntilShortPacket, whose consume asserts too much,
\* the slices and the assertions of the reader never fail.
THEOREM ReaderNeverPanics ==
  ASSUME "messageBuf" \notin Ways
  PROVE  MCSpec => []NeverPanics
<1>1. MCInit => NeverPanics
  BY DataStart
<1>2. DataInv /\ NeverPanics /\ [MCNext]_dataVars => NeverPanics'
  <2> SUFFICES ASSUME DataInv, NeverPanics, [MCNext]_dataVars PROVE NeverPanics'
    OBVIOUS
  <2>1. CASE program = "read"
    <3>1. ReaderInv /\ [Next]_vars
      BY <2>1, DataStepCases DEF DataInv
    <3> QED
      BY <3>1, PanicStep
  <2>2. CASE program # "read"
    <3>1. UNCHANGED panicked
      BY <2>2, DataStepCases DEF DataInv
    <3> QED
      BY <3>1 DEF NeverPanics
  <2> QED
    BY <2>1, <2>2
<1> QED
  BY <1>1, <1>2, DataInvariant, PTL DEF MCSpec, dataVars

\* Every allocation has one owner, the Buffer in hand or the TransferData, with the
\* allocator and the capacity it was made with, and no byte is in a Buffer's length that
\* has not been initialised.
THEOREM BuffersOwned == MCSpec => []BuffersAreSound
<1>1. DataInv => BuffersAreSound
  BY SoundBuffers DEF DataInv, BuffersAreSound
<1> QED
  BY <1>1, DataInvariant, PTL

\* flush of EndpointWrite that returns Ok leaves no byte that has been neither carried
\* nor returned as lost.
THEOREM FlushSendsAll == MCSpec => FlushMeansSent
<1> DEFINE Sent == call = "flush" /\ call' = "none" /\ answer' = "ok"
             => \A i \in 1..Len(W!Bytes(written)) : i \in lost' \/ \E j \in DOMAIN out' : out'[j] = i
<1>1. DataInv /\ [MCNext]_dataVars => [Sent]_(W!vars)
  <2> SUFFICES ASSUME DataInv, [MCNext]_dataVars,
                      call = "flush", call' = "none", answer' = "ok", ~UNCHANGED W!vars
               PROVE  \A i \in 1..Len(W!Bytes(written)) : i \in lost' \/ \E j \in DOMAIN out' : out'[j] = i
    OBVIOUS
  <2>1. program # "read"
    BY DEF DataInv, ReaderInv, ReaderTypes, Way
  <2>2. program = "write"
    BY <2>1, DataStepCases
  <2>3. WriterInv /\ W!Next
    BY <2>2, DataStepCases DEF DataInv
  <2> QED
    BY <2>3, FlushStep
<1>2. MCSpec => [][Sent]_(W!vars)
  BY <1>1, DataInvariant, PTL DEF MCSpec, dataVars
<1> QED
  BY <1>2 DEF FlushMeansSent, W!FlushMeansSent
=============================================================================
