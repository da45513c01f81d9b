---------------------------- MODULE BulkOpsProofs ----------------------------
(***************************************************************************)
(* Calls of BulkOps on arrays of any shape, with lists of any length.      *)
(*                                                                         *)
(* First positions: the elements of an array without gaps lie at their     *)
(* numbers, and every index of a shape is that of an element.  The lemmas  *)
(* on numbers are those of LayoutProofs.                                   *)
(*                                                                         *)
(* Then the invariant.  While a call works, every element of the target is *)
(* what the tasks that have run leave there if they read the memory as it  *)
(* was: a task reads memory that the call does not write, or the element   *)
(* it is about to write, and no two write the same element, but those of   *)
(* scatter, which run in order.                                            *)
(***************************************************************************)
EXTENDS BulkOps, LayoutProofs

---------------------------------------------------------------------------
\* Positions.

\* What Below and the sum in IndexPos are: solutions of their equations.
Products(s, n) ==
  /\ n = [k \in 0..Len(s) |-> IF k = Len(s) THEN 1 ELSE s[k + 1] * n[k + 1]]
  /\ \A k \in 0..Len(s) : n[k] \in Nat

\* There are as many elements to an index of the first axes as the product of
\* the others says.
LEMMA BelowIs ==
  ASSUME NEW s \in Seq(Nat)
  PROVE  Products(s, Below(s))
<1> DEFINE len == Len(s)
           Equation(n) == n = [k \in 0..len |-> IF k = len THEN 1 ELSE s[k + 1] * n[k + 1]]
           Solves(n, m) == /\ n \in [m..len -> Nat]
                           /\ \A k \in m..len : n[k] = IF k = len THEN 1 ELSE s[k + 1] * n[k + 1]
           G == {m \in 0..len : \E n : Solves(n, m)}
<1>0. len \in Nat /\ \A k \in 1..len : s[k] \in Nat
  OBVIOUS
<1> HIDE DEF len
<1>1. len \in G
  <2>1. Solves([k \in len..len |-> 1], len)
    BY <1>0
  <2> HIDE DEF Solves
  <2> QED BY <2>1, <1>0
<1>2. ASSUME NEW m \in 1..len, m \in G PROVE m - 1 \in G
  <2>1. PICK n : Solves(n, m)
    BY <1>2
  <2> DEFINE h == [k \in (m - 1)..len |-> IF k = m - 1 THEN s[m] * n[m] ELSE n[k]]
  <2>2. h \in [(m - 1)..len -> Nat]
    <3>1. n[m] \in Nat /\ s[m] \in Nat
      BY <2>1, <1>0
    <3>2. s[m] * n[m] \in Nat
      BY <3>1
    <3> QED BY <3>2, <2>1
  <2>3. ASSUME NEW k \in (m - 1)..len
        PROVE  h[k] = IF k = len THEN 1 ELSE s[k + 1] * h[k + 1]
    <3>1. CASE k = m - 1
      <4>1. h[k] = s[m] * n[m] /\ h[m] = n[m] /\ k + 1 = m /\ k # len
        BY <3>1, <1>0
      <4> HIDE DEF h
      <4> QED BY <4>1, <3>1
    <3>2. CASE k # m - 1
      <4>1. k \in m..len /\ h[k] = n[k]
        BY <3>2, <1>0
      <4>2. k # len => h[k + 1] = n[k + 1]
        BY <3>2, <1>0
      <4>3. n[k] = IF k = len THEN 1 ELSE s[k + 1] * n[k + 1]
        BY <4>1, <2>1
      <4> HIDE DEF h
      <4> QED BY <4>1, <4>2, <4>3
    <3> QED BY <3>1, <3>2
  <2>4. Solves(h, m - 1)
    BY <2>2, <2>3
  <2> HIDE DEF Solves, h
  <2> QED BY <2>4, <1>0
<1>3. PICK n : Solves(n, 0)
  <2>1. 0 \in G
    <3> HIDE DEF G
    <3>1. \A k \in 1..len : k \in G => k - 1 \in G
      BY <1>2
    <3>2. \A k \in 0..len : k \in G
      BY <1>0, <1>1, <3>1, DownInduction
    <3> QED BY <3>2, <1>0
  <2> QED BY <2>1
<1>4. Equation(n)
  BY <1>3
<1>5. Below(s) = CHOOSE h : Equation(h)
  BY DEF Below, len
<1>6. Equation(Below(s))
  BY <1>4, <1>5
<1>7. \A k \in 0..len : Below(s)[k] = n[k]
  <2> DEFINE h == Below(s)
             H == {k \in 0..len : h[k] = n[k]}
  <2>0. \A k \in 0..len : /\ n[k] = IF k = len THEN 1 ELSE s[k + 1] * n[k + 1]
                          /\ h[k] = IF k = len THEN 1 ELSE s[k + 1] * h[k + 1]
    BY <1>3, <1>6
  <2> HIDE DEF h
  <2>1. len \in H
    BY <2>0, <1>0
  <2>2. ASSUME NEW k \in 1..len, k \in H PROVE k - 1 \in H
    <3>1. k - 1 \in 0..len /\ k - 1 # len /\ (k - 1) + 1 = k
      BY <1>0
    <3>2. h[k - 1] = s[k] * h[k] /\ n[k - 1] = s[k] * n[k]
      BY <2>0, <3>1
    <3> QED BY <3>1, <3>2, <2>2
  <2>3. \A k \in 0..len : k \in H
    <3> HIDE DEF H
    <3> QED BY <1>0, <2>1, <2>2, DownInduction
  <2> QED BY <2>3 DEF h
<1>8. \A k \in 0..len : Below(s)[k] \in Nat
  BY <1>3, <1>7
<1> QED BY <1>6, <1>8 DEF Products, len

\* A number below s * w has a digit below s in front of one below w.
LEMMA Digit ==
  ASSUME NEW v \in Nat, NEW s \in Nat, NEW w \in Nat, s > 0, w > 0
  PROVE  /\ (v \div w) \in Nat /\ (v \div (s * w)) \in Nat
         /\ (v \div w) % s \in 0..(s - 1)
         /\ w * (v \div w) = (s * w) * (v \div (s * w)) + w * ((v \div w) % s)
<1> DEFINE q == v \div w
           d == q % s
           e == q \div s
           r == v % w
<1>1. q \in Nat /\ r \in Nat /\ r < w /\ w * q + r = v
  BY DivMod
<1>2. e \in Nat /\ d \in Nat /\ d < s /\ s * e + d = q
  <2> HIDE DEF q
  <2> QED BY <1>1, DivMod
<1>3. s * w \in Nat /\ s * w > 0 /\ w * d \in Nat /\ w * d + r < s * w
  <2> HIDE DEF q, d, e, r
  <2>1. s * w \in Nat /\ d * w \in Nat /\ d * w + w <= s * w /\ s * w > 0
    BY <1>2, Multiples
  <2>2. w * d = d * w
    BY <1>2
  <2> QED BY <2>1, <2>2, <1>1
<1>4. (s * w) * e + (w * d + r) = v
  <2> HIDE DEF q, d, e, r
  <2>1. w * (s * e + d) + r = v
    BY <1>1, <1>2
  <2>2. w * (s * e + d) = w * (s * e) + w * d /\ w * (s * e) = (s * w) * e
    BY <1>2
  <2>3. (s * w) * e \in Nat
    BY <1>2, <1>3
  <2> QED BY <2>1, <2>2, <2>3, <1>1, <1>3
<1>5. v \div (s * w) = e
  <2> DEFINE b == s * w
             c == w * d + r
  <2>1. b \in Nat /\ c \in Nat /\ c < b /\ e \in Nat /\ b * e + c = v
    BY <1>1, <1>2, <1>3, <1>4
  <2> HIDE DEF b, c, e
  <2>2. (b * e + c) \div b = e
    BY <2>1, DivUnique
  <2> QED BY <2>1, <2>2 DEF b
<1>6. w * q = (s * w) * e + w * d
  <2> HIDE DEF q, d, e, r
  <2>1. (s * w) * e \in Nat /\ w * q \in Nat
    BY <1>1, <1>2, <1>3
  <2> QED BY <2>1, <1>1, <1>3, <1>4
<1>7. (v \div w) % s \in 0..(s - 1)
  <2>1. d \in 0..(s - 1)
    <3> HIDE DEF d
    <3> QED BY <1>2
  <2> QED BY <2>1
<1>8. w * (v \div w) = (s * w) * (v \div (s * w)) + w * ((v \div w) % s)
  <2> HIDE DEF e
  <2> QED BY <1>5, <1>6, Zenon
<1>9. (v \div (s * w)) \in Nat
  <2> HIDE DEF e
  <2> QED BY <1>2, <1>5
<1>10. (v \div w) \in Nat
  BY <1>1
<1> QED BY <1>7, <1>8, <1>9, <1>10, Zenon

\* The sum in IndexPos.
LEMMA IndexPosIs ==
  ASSUME NEW w \in Seq(Nat), NEW x, \A k \in 1..Len(w) : x[k] \in Nat
  PROVE  \E sum \in [0..Len(w) -> Nat] :
           /\ sum[0] = 0
           /\ \A k \in 1..Len(w) : sum[k] = sum[k - 1] + w[k] * x[k]
           /\ IndexPos(w, x) = sum[Len(w)]
<1> DEFINE len == Len(w)
           Equation(n) == n = [k \in 0..len |-> IF k = 0 THEN 0 ELSE n[k - 1] + w[k] * x[k]]
           Solves(n, m) == /\ n \in [0..m -> Nat]
                           /\ \A k \in 0..m : n[k] = IF k = 0 THEN 0 ELSE n[k - 1] + w[k] * x[k]
           G == {m \in Nat : m <= len => \E n : Solves(n, m)}
<1>0. len \in Nat /\ \A k \in 1..len : w[k] \in Nat /\ x[k] \in Nat /\ w[k] * x[k] \in Nat
  OBVIOUS
<1> HIDE DEF len
<1>1. 0 \in G
  <2>1. Solves([k \in 0..0 |-> 0], 0)
    OBVIOUS
  <2> HIDE DEF Solves
  <2> QED BY <2>1
<1>2. ASSUME NEW m \in G PROVE m + 1 \in G
  <2> HIDE DEF Solves
  <2> SUFFICES ASSUME m + 1 <= len PROVE \E n : Solves(n, m + 1)
    OBVIOUS
  <2> USE DEF Solves
  <2>0. m \in Nat /\ m <= len /\ m + 1 \in 1..len
    BY <1>0
  <2>1. PICK n : Solves(n, m)
    BY <2>0
  <2> DEFINE h == [k \in 0..(m + 1) |-> IF k = m + 1 THEN n[m] + w[m + 1] * x[m + 1] ELSE n[k]]
  <2>2. h \in [0..(m + 1) -> Nat]
    <3>1. n[m] \in Nat /\ w[m + 1] * x[m + 1] \in Nat
      BY <2>0, <2>1, <1>0
    <3>2. n[m] + w[m + 1] * x[m + 1] \in Nat
      BY <3>1
    <3> QED BY <3>2, <2>0, <2>1
  <2>3. ASSUME NEW k \in 0..(m + 1)
        PROVE  h[k] = IF k = 0 THEN 0 ELSE h[k - 1] + w[k] * x[k]
    <3>1. CASE k = m + 1
      <4>1. h[k] = n[m] + w[m + 1] * x[m + 1] /\ h[m] = n[m] /\ k - 1 = m /\ k # 0
        BY <3>1, <2>0
      <4> HIDE DEF h
      <4> QED BY <4>1, <3>1
    <3>2. CASE k # m + 1
      <4>1. k \in 0..m /\ h[k] = n[k]
        BY <3>2, <2>0
      <4>2. k # 0 => h[k - 1] = n[k - 1]
        BY <3>2, <2>0
      <4>3. n[k] = IF k = 0 THEN 0 ELSE n[k - 1] + w[k] * x[k]
        BY <4>1, <2>1
      <4> HIDE DEF h
      <4> QED BY <4>1, <4>2, <4>3
    <3> QED BY <3>1, <3>2
  <2>4. Solves(h, m + 1)
    BY <2>2, <2>3
  <2> HIDE DEF Solves, h
  <2> QED BY <2>4
<1>3. PICK n : Solves(n, len)
  <2> HIDE DEF Solves
  <2>1. Nat \subseteq G
    <3>1. G \in SUBSET Nat
      OBVIOUS
    <3> HIDE DEF G
    <3> QED BY <3>1, <1>1, <1>2, Induction
  <2> QED BY <2>1, <1>0
<1>4. Equation(n)
  BY <1>3
<1>5. IndexPos(w, x) = (CHOOSE h : Equation(h))[len]
  BY DEF IndexPos, len
<1> DEFINE sum == CHOOSE h : Equation(h)
<1>6. Equation(sum)
  BY <1>4
<1> HIDE DEF sum
<1>7. \A k \in 0..len : sum[k] = n[k]
  <2> DEFINE H == {k \in Nat : k <= len => sum[k] = n[k]}
  <2>0. \A k \in 0..len : /\ n[k] = IF k = 0 THEN 0 ELSE n[k - 1] + w[k] * x[k]
                          /\ sum[k] = IF k = 0 THEN 0 ELSE sum[k - 1] + w[k] * x[k]
    BY <1>3, <1>6
  <2>1. 0 \in H
    BY <2>0, <1>0
  <2>2. ASSUME NEW k \in H PROVE k + 1 \in H
    <3> SUFFICES ASSUME k + 1 <= len PROVE sum[k + 1] = n[k + 1]
      OBVIOUS
    <3>1. k + 1 \in 0..len /\ k + 1 # 0 /\ (k + 1) - 1 = k /\ sum[k] = n[k]
      BY <1>0
    <3> QED BY <2>0, <3>1
  <2>3. Nat \subseteq H
    <3>1. H \in SUBSET Nat
      OBVIOUS
    <3> HIDE DEF H
    <3> QED BY <3>1, <2>1, <2>2, Induction
  <2> QED BY <2>3, <1>0
<1>8. sum \in [0..len -> Nat]
  <2>1. DOMAIN sum = 0..len /\ \A k \in 0..len : sum[k] \in Nat
    BY <1>3, <1>6, <1>7
  <2>2. sum = [k \in 0..len |-> sum[k]]
    BY <1>6
  <2> QED BY <2>1, <2>2
<1>9. sum[0] = 0 /\ \A k \in 1..len : sum[k] = sum[k - 1] + w[k] * x[k]
  BY <1>6, <1>0
<1>10. IndexPos(w, x) = sum[len]
  BY <1>5 DEF sum
<1> QED BY <1>8, <1>9, <1>10 DEF len

\* The equations of Below, axis by axis.
LEMMA BelowSteps ==
  ASSUME NEW s \in Seq(Nat)
  PROVE  /\ Below(s)[Len(s)] = 1
         /\ \A k \in 0..Len(s) : Below(s)[k] \in Nat
         /\ \A k \in 1..Len(s) : s[k] \in Nat /\ Below(s)[k - 1] = s[k] * Below(s)[k]
<1> DEFINE n == Below(s)
           len == Len(s)
<1>1. len \in Nat /\ \A k \in 1..len : s[k] \in Nat
  OBVIOUS
<1>2. /\ n = [k \in 0..len |-> IF k = len THEN 1 ELSE s[k + 1] * n[k + 1]]
      /\ \A k \in 0..len : n[k] \in Nat
  BY BelowIs DEF Products
<1> HIDE DEF n, len
<1>3. n[len] = 1
  BY <1>1, <1>2
<1>4. \A k \in 1..len : n[k - 1] = s[k] * n[k]
  <2> TAKE k \in 1..len
  <2>1. k - 1 \in 0..len /\ k - 1 # len /\ (k - 1) + 1 = k
    BY <1>1
  <2> QED BY <1>2, <2>1
<1> QED BY <1>1, <1>2, <1>3, <1>4 DEF n, len

\* If there are elements, no axis is empty.
LEMMA NoneEmpty ==
  ASSUME NEW s \in Seq(Nat), Below(s)[0] > 0
  PROVE  /\ \A k \in 0..Len(s) : Below(s)[k] > 0
         /\ \A k \in 1..Len(s) : s[k] > 0
<1> DEFINE n == Below(s)
           len == Len(s)
           G == {k \in Nat : k <= len => n[k] > 0}
<1>0. /\ len \in Nat /\ n[0] > 0
      /\ \A k \in 0..len : n[k] \in Nat
      /\ \A k \in 1..len : s[k] \in Nat /\ n[k - 1] = s[k] * n[k]
  BY BelowSteps
<1> HIDE DEF n, len
<1>1. ASSUME NEW k \in 1..len, n[k - 1] > 0 PROVE n[k] > 0 /\ s[k] > 0
  <2>1. n[k] \in Nat /\ s[k] \in Nat /\ s[k] * n[k] > 0
    BY <1>0, <1>1
  <2>2. \A a, b \in Nat : a * b > 0 => a > 0 /\ b > 0
    OBVIOUS
  <2> QED BY <2>1, <2>2
<1>2. 0 \in G
  BY <1>0
<1>3. ASSUME NEW k \in G PROVE k + 1 \in G
  <2> SUFFICES ASSUME k + 1 <= len PROVE n[k + 1] > 0
    OBVIOUS
  <2>1. k + 1 \in 1..len /\ (k + 1) - 1 = k /\ n[k] > 0
    BY <1>0
  <2> QED BY <1>1, <2>1
<1>4. \A k \in 0..len : n[k] > 0
  <2>1. Nat \subseteq G
    <3>1. G \in SUBSET Nat
      OBVIOUS
    <3> HIDE DEF G
    <3> QED BY <3>1, <1>2, <1>3, Induction
  <2> QED BY <2>1, <1>0
<1>5. \A k \in 1..len : s[k] > 0
  <2> TAKE k \in 1..len
  <2>1. k - 1 \in 0..len
    BY <1>0
  <2> QED BY <2>1, <1>1, <1>4
<1> QED BY <1>4, <1>5 DEF n, len

\* The index of an element is in range on every axis.
LEMMA IndexIs ==
  ASSUME NEW s \in Seq(Nat), NEW i \in 0..(Below(s)[0] - 1)
  PROVE  /\ IndexOf(s, i) = [k \in 1..Len(s) |-> (i \div Below(s)[k]) % s[k]]
         /\ \A k \in 1..Len(s) : IndexOf(s, i)[k] \in 0..(s[k] - 1) /\ IndexOf(s, i)[k] \in Nat
<1>1. IndexOf(s, i) = [k \in 1..Len(s) |-> (i \div Below(s)[k]) % s[k]]
  BY DEF IndexOf
<1>2. Below(s)[0] > 0 /\ i \in Nat
  BY BelowSteps
<1>3. ASSUME NEW k \in 1..Len(s)
      PROVE  IndexOf(s, i)[k] \in 0..(s[k] - 1) /\ IndexOf(s, i)[k] \in Nat
  <2> DEFINE n == Below(s)[k]
             t == s[k]
  <2>1. n \in Nat /\ t \in Nat /\ n > 0 /\ t > 0
    BY <1>2, BelowSteps, NoneEmpty
  <2>2. IndexOf(s, i)[k] = (i \div n) % t
    BY <1>1
  <2> HIDE DEF n, t
  <2>3. (i \div n) % t \in 0..(t - 1)
    BY <2>1, <1>2, Digit
  <2> QED BY <2>1, <2>2, <2>3 DEF t
<1> QED BY <1>1, <1>3

\* Without gaps element i lies at position i.
LEMMA RowPos ==
  ASSUME NEW s \in Seq(Nat), NEW i \in 0..(Below(s)[0] - 1)
  PROVE  IndexPos(ElementStrides(s), IndexOf(s, i)) = i
<1> DEFINE n == Below(s)
           len == Len(s)
           w == ElementStrides(s)
           x == IndexOf(s, i)
<1>0. /\ len \in Nat /\ n[0] > 0 /\ i \in Nat /\ i < n[0] /\ n[len] = 1
      /\ \A k \in 0..len : n[k] \in Nat /\ n[k] > 0
      /\ \A k \in 1..len : s[k] \in Nat /\ s[k] > 0 /\ n[k - 1] = s[k] * n[k]
  <2>1. n[0] > 0 /\ i \in Nat /\ i < n[0]
    BY BelowSteps
  <2> QED BY <2>1, BelowSteps, NoneEmpty
<1>1. w = [k \in 1..len |-> n[k]]
  BY DEF ElementStrides
<1>2. w \in Seq(Nat) /\ Len(w) = len
  BY <1>0, <1>1
<1>3. \A k \in 1..len : x[k] = (i \div n[k]) % s[k] /\ x[k] \in Nat
  BY IndexIs
<1>4. \A k \in 1..Len(w) : x[k] \in Nat
  BY <1>2, <1>3
<1>5. PICK sum \in [0..len -> Nat] :
        /\ sum[0] = 0
        /\ \A k \in 1..len : sum[k] = sum[k - 1] + w[k] * x[k]
        /\ IndexPos(w, x) = sum[len]
  <2> HIDE DEF w, x, len
  <2> QED BY <1>2, <1>4, IndexPosIs
<1> HIDE DEF n, len, w, x
<1> DEFINE G == {k \in Nat : k <= len => sum[k] = n[k] * (i \div n[k])}
<1>6. 0 \in G
  <2> DEFINE b == n[0]
  <2>1. b \in Nat /\ i < b /\ b > 0
    BY <1>0
  <2> HIDE DEF b
  <2>2. (b * 0 + i) \div b = 0
    BY <2>1, <1>0, DivUnique
  <2>3. i \div b = 0 /\ b * 0 = 0
    BY <2>1, <2>2, <1>0
  <2>4. n[0] * (i \div n[0]) = 0
    BY <2>3 DEF b
  <2> QED BY <2>4, <1>5
<1>7. ASSUME NEW k \in G PROVE k + 1 \in G
  <2> SUFFICES ASSUME k + 1 <= len PROVE sum[k + 1] = n[k + 1] * (i \div n[k + 1])
    OBVIOUS
  <2> DEFINE b == n[k + 1]
             t == s[k + 1]
             d == (i \div b) % t
             e == i \div (t * b)
             q == i \div b
  <2>1. k + 1 \in 1..len /\ (k + 1) - 1 = k /\ k \in 0..len /\ sum[k] = n[k] * (i \div n[k])
    BY <1>0
  <2>2. b \in Nat /\ t \in Nat /\ b > 0 /\ t > 0 /\ n[k] = t * b
    BY <1>0, <2>1
  <2>3. sum[k + 1] = sum[k] + b * d
    <3>1. w[k + 1] = b /\ x[k + 1] = d
      BY <1>1, <1>3, <2>1
    <3> HIDE DEF b, d
    <3> QED BY <3>1, <2>1, <1>5
  <2>4. b * q = (t * b) * e + b * d
    <3> HIDE DEF b, t
    <3> QED BY <1>0, <2>2, Digit
  <2>5. sum[k] = (t * b) * e
    BY <2>1, <2>2
  <2> HIDE DEF b, d, e, t, q
  <2>6. sum[k + 1] = b * q
    BY <2>3, <2>4, <2>5
  <2> QED BY <2>6 DEF b, q
<1>8. Nat \subseteq G
  <2>1. G \in SUBSET Nat
    OBVIOUS
  <2> HIDE DEF G
  <2> QED BY <2>1, <1>6, <1>7, Induction
<1>9. sum[len] = 1 * (i \div 1)
  BY <1>8, <1>0
<1>10. i \div 1 = i
  BY <1>0
<1> QED BY <1>5, <1>9, <1>10, <1>0 DEF w, x

\* A digit in front of others: it is read where it was put.
Regrouped(a, t, d, b, j) ==
  /\ a * t + d \in Nat
  /\ a * (t * b) + (d * b + j) = (a * t + d) * b + j
  /\ (((a * t + d) * b + j) \div b) % t = d

\* Adding a digit and the digits behind it to a number regroups them.
LEMMA Regroup ==
  ASSUME NEW a \in Nat, NEW t \in Nat, NEW d \in Nat, NEW b \in Nat, NEW j \in Nat, d < t, j < b
  PROVE  Regrouped(a, t, d, b, j)
<1> DEFINE c == a * t + d
<1>1. a * t \in Nat /\ a * t = t * a
  OBVIOUS
<1>2. c \in Nat
  BY <1>1
<1>3. a * (t * b) = (a * t) * b
  OBVIOUS
<1>4. c * b = (a * t) * b + d * b
  <2> DEFINE e == a * t
  <2>1. e \in Nat
    BY <1>1
  <2> HIDE DEF e
  <2>2. (e + d) * b = e * b + d * b
    BY <2>1
  <2> QED BY <2>2 DEF e
<1>5. (a * t) * b \in Nat /\ d * b \in Nat
  <2> DEFINE e == a * t
  <2>1. e \in Nat
    BY <1>1
  <2> HIDE DEF e
  <2>2. e * b \in Nat /\ d * b \in Nat
    BY <2>1
  <2> QED BY <2>2 DEF e
<1>6. a * (t * b) + (d * b + j) = c * b + j
  <2> DEFINE p == (a * t) * b
             q == d * b
  <2>1. p \in Nat /\ q \in Nat /\ a * (t * b) = p /\ c * b = p + q
    BY <1>3, <1>4, <1>5
  <2> HIDE DEF p, q, c
  <2>2. p + (q + j) = (p + q) + j
    BY <2>1
  <2> QED BY <2>1, <2>2 DEF q
<1>7. (c * b + j) \div b = c
  <2> HIDE DEF c
  <2>1. (b * c + j) \div b = c
    BY <1>2, DivUnique
  <2>2. b * c = c * b
    BY <1>2
  <2> QED BY <2>1, <2>2
<1>8. c % t = d
  <2>1. (t * a + d) % t = d
    BY DivUnique
  <2> QED BY <2>1, <1>1
<1> QED BY <1>2, <1>6, <1>7, <1>8 DEF Regrouped

\* Every index of a shape is that of an element.
LEMMA IndexExists ==
  ASSUME NEW s \in Seq(Nat), NEW x \in [1..Len(s) -> Nat], \A k \in 1..Len(s) : x[k] < s[k]
  PROVE  \E j \in 0..(Below(s)[0] - 1) : IndexOf(s, j) = x
<1> DEFINE n == Below(s)
           len == Len(s)
           Gives(j, k) == \A a \in Nat : \A m \in (k + 1)..len :
                            ((a * n[k] + j) \div n[m]) % s[m] = x[m]
           G == {k \in 0..len : \E j \in Nat : j < n[k] /\ Gives(j, k)}
<1>0. /\ len \in Nat /\ n[len] = 1
      /\ \A k \in 0..len : n[k] \in Nat
      /\ \A k \in 1..len : s[k] \in Nat /\ n[k - 1] = s[k] * n[k] /\ x[k] \in Nat /\ x[k] < s[k]
  <2>1. \A k \in 1..len : x[k] \in Nat /\ x[k] < s[k]
    OBVIOUS
  <2>2. /\ len \in Nat /\ n[len] = 1
        /\ \A k \in 0..len : n[k] \in Nat
        /\ \A k \in 1..len : s[k] \in Nat /\ n[k - 1] = s[k] * n[k]
    BY BelowSteps
  <2> HIDE DEF n, len
  <2> QED BY <2>1, <2>2
<1>z. IndexOf(s, 0) = [k \in 1..len |-> (0 \div n[k]) % s[k]] /\ x = [k \in 1..len |-> x[k]]
  BY DEF IndexOf
<1>y. \A j : IndexOf(s, j) = [k \in 1..len |-> (j \div n[k]) % s[k]]
  BY DEF IndexOf
<1> HIDE DEF n, len
<1>1. len \in G
  <2>1. 0 < n[len] /\ Gives(0, len)
    BY <1>0
  <2> HIDE DEF Gives
  <2> QED BY <2>1, <1>0
<1>2. ASSUME NEW k \in 1..len, k \in G PROVE k - 1 \in G
  <2>1. PICK j \in Nat : j < n[k] /\ Gives(j, k)
    BY <1>2
  <2> DEFINE b == n[k]
             t == s[k]
             d == x[k]
             h == d * b + j
  <2>2. b \in Nat /\ t \in Nat /\ d \in Nat /\ d < t /\ j < b /\ n[k - 1] = t * b /\ b > 0 /\ t > 0
    <3>1. k \in 0..len
      BY <1>0
    <3>2. b \in Nat /\ t \in Nat /\ d \in Nat /\ d < t /\ n[k - 1] = t * b
      BY <1>0, <3>1
    <3>3. j < b
      BY <2>1
    <3> HIDE DEF b, t, d
    <3> QED BY <3>2, <3>3
  <2> HIDE DEF b, t, d
  <2>3. h \in Nat /\ h < t * b
    <3>1. d * b + b <= t * b /\ d * b \in Nat /\ t * b \in Nat
      BY <2>2, Multiples
    <3> DEFINE p == d * b
               q == t * b
    <3>2. p \in Nat /\ q \in Nat /\ p + b <= q
      BY <3>1
    <3> HIDE DEF p, q
    <3>3. p + j \in Nat /\ p + j < q
      BY <3>2, <2>2
    <3> QED BY <3>3 DEF p, q
  <2>4. ASSUME NEW a \in Nat
        PROVE  /\ a * t + d \in Nat
               /\ a * (t * b) + h = (a * t + d) * b + j
               /\ (((a * t + d) * b + j) \div b) % t = d
    <3>1. t \in Nat /\ d \in Nat /\ b \in Nat /\ j \in Nat /\ d < t /\ j < b
      BY <2>1, <2>2
    <3> HIDE DEF G, Gives
    <3>2. Regrouped(a, t, d, b, j)
      BY <3>1, Regroup
    <3> QED BY <3>2, Zenon DEF Regrouped
  <2>5. Gives(h, k - 1)
    <3> SUFFICES ASSUME NEW a \in Nat, NEW m \in k..len
                 PROVE  ((a * (t * b) + h) \div n[m]) % s[m] = x[m]
      BY <2>2, <1>0
    <3>1. a * t + d \in Nat /\ a * (t * b) + h = (a * t + d) * b + j
      BY <2>4
    <3>2. CASE m = k
      BY <2>4, <3>1, <3>2 DEF b, t, d
    <3>3. CASE m # k
      <4> DEFINE c == a * t + d
      <4>1. m \in (k + 1)..len
        BY <3>3, <1>0
      <4>2. ((c * n[k] + j) \div n[m]) % s[m] = x[m]
        <5>1. c \in Nat
          BY <3>1
        <5> HIDE DEF c
        <5> QED BY <2>1, <4>1, <5>1
      <4> QED BY <4>2, <3>1 DEF b
    <3> QED BY <3>2, <3>3
  <2>6. k - 1 \in 0..len
    BY <1>0
  <2> HIDE DEF Gives, h
  <2> QED BY <2>2, <2>3, <2>5, <2>6
<1>3. 0 \in G
  <2> HIDE DEF G
  <2>1. \A k \in 1..len : k \in G => k - 1 \in G
    BY <1>2
  <2>2. \A k \in 0..len : k \in G
    BY <1>0, <1>1, <2>1, DownInduction
  <2> QED BY <2>2, <1>0
<1>4. PICK j \in Nat : j < n[0] /\ Gives(j, 0)
  BY <1>3
<1>5. \A m \in 1..len : (j \div n[m]) % s[m] = x[m]
  <2> TAKE m \in 1..len
  <2>1. m \in (0 + 1)..len /\ n[0] \in Nat
    BY <1>0
  <2>2. ((0 * n[0] + j) \div n[m]) % s[m] = x[m]
    BY <1>4, <2>1
  <2>3. 0 * n[0] + j = j
    BY <2>1
  <2> QED BY <2>2, <2>3
<1>6. IndexOf(s, j) = x
  BY <1>5, <1>y, <1>z
<1>7. j \in 0..(n[0] - 1)
  BY <1>4, <1>0
<1> QED BY <1>6, <1>7 DEF n

\* A position is a number.
LEMMA PosNat ==
  ASSUME NEW s \in Seq(Nat), NEW w \in Seq(Nat), Len(w) = Len(s),
         NEW i \in 0..(Below(s)[0] - 1)
  PROVE  IndexPos(w, IndexOf(s, i)) \in Nat
<1> DEFINE x == IndexOf(s, i)
<1>1. \A k \in 1..Len(w) : x[k] \in Nat
  BY IndexIs
<1>2. PICK sum \in [0..Len(w) -> Nat] : IndexPos(w, x) = sum[Len(w)]
  <2> HIDE DEF x
  <2> QED BY <1>1, IndexPosIs
<1> QED BY <1>2

\* The three loops of nontemporal write every element.
LEMMA NontemporalAll ==
  ASSUME NEW n \in Nat, NEW align \in Nat
  PROVE  Nontemporal(n, align) = 0..(n - 1)
<1> DEFINE prefix == Min({align, n})
           q == (n - prefix) \div Lanes
           whole == q * Lanes
<1>1. prefix \in Nat /\ prefix <= n
  BY DEF Min
<1>2. whole \in Nat /\ prefix + whole <= n
  <2>1. n - prefix \in Nat /\ Lanes \in Nat /\ Lanes > 0
    BY <1>1, BulkAssumption
  <2> DEFINE v == n - prefix
             r == v % Lanes
  <2>2. q \in Nat /\ r \in Nat /\ Lanes * q + r = v
    <3> HIDE DEF v
    <3>1. (v \div Lanes) \in Nat /\ v % Lanes \in Nat /\ Lanes * (v \div Lanes) + (v % Lanes) = v
      BY <2>1, DivMod DEF v
    <3> QED BY <3>1 DEF v
  <2> HIDE DEF q, r, prefix
  <2>3. q * Lanes = Lanes * q /\ Lanes * q \in Nat
    BY <2>1, <2>2
  <2> QED BY <2>2, <2>3, <1>1, <2>1
<1>3. Nontemporal(n, align) = (0..(prefix - 1)) \cup (prefix..(prefix + whole - 1))
                                \cup ((prefix + whole)..(n - 1))
  BY DEF Nontemporal
<1> HIDE DEF prefix, whole
<1> QED BY <1>1, <1>2, <1>3

---------------------------------------------------------------------------
\* Calls.

\* An array of a layout that is given, in memory of its own or in part of it.
OfLayout(x) ==
  /\ x.shape \in Seq(Nat) /\ x.strides \in Seq(Nat) /\ Len(x.strides) = Len(x.shape)
  /\ \A i \in Elements(x) : Pos(x, i) \in Cells

OneSource == Ops2 \cup OpsIndexed \cup {"zip", "where"}
TwoSources == {"zip", "where"}
Indexed == OpsIndexed \cup {"where"}

IsCall(c) ==
  /\ c.op \in Ops1 \cup OneSource
  /\ c.dst = [blk |-> "d", shape |-> c.dst.shape, strides |-> c.dst.strides,
              dtype |-> c.dst.dtype, writeable |-> c.dst.writeable]
  /\ OfLayout(c.dst)
  /\ IF c.op \in OneSource THEN c.a.blk \in {"a", "d"} /\ OfLayout(c.a) ELSE c.a = NoArray
  /\ IF c.op \in TwoSources THEN c.b.blk \in {"b", "d"} ELSE c.b = NoArray
  /\ c.op \in Indexed => /\ c.m.blk = "m" /\ c.m.shape = <<Len(c.list)>>
                         /\ c.list \in Seq(Int)
  /\ c.op \in {"flip", "nontemporal"} => c.arg \in Nat
  /\ Trusted(c)

\* The target once a call works: a copy, or what it was.
IsTarget(c, x) ==
  x = IF Copies(c) THEN CopyOf(c.dst) ELSE [c.dst EXCEPT !.writeable = TRUE]

\* What an element of the target is when the tasks S have run.
Hits(c, S, i) == {j \in S : c.list[j + 1] \in {i, i - SizeOf(c.dst)}}

Sofar(c, S, i) ==
  IF c.op = "scatter"
    THEN IF Hits(c, S, i) = {} THEN At(Initially(c), c.dst, i)
         ELSE At(Initially(c), c.a, Max(Hits(c, S, i)))
    ELSE IF i \in S THEN Kernel(c, c.dst, Initially(c), i) ELSE At(Initially(c), c.dst, i)

Blocks == {"d", "a", "b", "m", "new"}

\* Nothing else has changed.
RestKept(c, x, m) ==
  /\ DOMAIN m = Blocks
  /\ \A blk \in Blocks \ {x.blk} : m[blk] = Initially(c)[blk]
  /\ DOMAIN m[x.blk] = IF Copies(c) THEN Elements(c.dst) ELSE Cells
  /\ ~Copies(c) => \A p \in Cells \ {Pos(c.dst, i) : i \in Elements(c.dst)} :
                     m["d"][p] = Initially(c)["d"][p]

Written(c, x, m, S) == \A i \in Elements(c.dst) : At(m, x, i) = Sofar(c, S, i)

Working ==
  /\ Failing(call) = {}
  /\ IsTarget(call, dst)
  /\ todo \subseteq Tasks(call)
  /\ RestKept(call, dst, mem)
  /\ Written(call, dst, mem, Tasks(call) \ todo)
  /\ call.op = "scatter" => \A i \in Tasks(call) \ todo, j \in todo : i < j

Begins ==
  /\ stage \in {"idle", "called", "working", "returned"}
  /\ stage # "idle" => IsCall(call)
  /\ stage = "called" => dst = call.dst /\ mem = Initially(call)

Goes ==
  /\ stage = "working" => Working
  /\ CallIsExact

BulkInv == Begins /\ (Gapless(call) => Goes)

\* The number of elements is a natural number.
LEMMA SizeIs ==
  ASSUME NEW x, x.shape \in Seq(Nat)
  PROVE  SizeOf(x) = Below(x.shape)[0] /\ SizeOf(x) \in Nat /\ Elements(x) \subseteq Nat
<1>1. SizeOf(x) = Below(x.shape)[0]
  BY DEF SizeOf
<1>2. SizeOf(x) \in Nat
  BY <1>1, BelowSteps
<1> QED BY <1>1, <1>2 DEF Elements

\* The elements of an array of Layouts have a cell each.
LEMMA LayoutHasCells ==
  ASSUME NEW l \in Layouts, NEW x, x.shape = l.shape, x.strides = l.strides
  PROVE  OfLayout(x)
<1>1. l.shape \in Seq(Nat) /\ l.strides \in Seq(Nat) /\ Len(l.strides) = Len(l.shape)
  BY BulkAssumption
<1>2. Elements(x) = Elements(l) /\ \A i : Pos(x, i) = Pos(l, i)
  BY DEF Elements, SizeOf, Pos
<1>3. ASSUME NEW i \in Elements(l) PROVE Pos(l, i) \in Cells
  <2>1. i \in 0..(Below(l.shape)[0] - 1)
    BY <1>1, SizeIs DEF Elements
  <2>2. Pos(l, i) \in Nat
    BY <1>1, <2>1, PosNat DEF Pos
  <2>3. Pos(l, i) \in 0..Pos(l, i)
    BY <2>2
  <2> QED BY <2>3 DEF Cells
<1> QED BY <1>1, <1>2, <1>3 DEF OfLayout

\* The elements of an array without gaps lie at their numbers.
LEMMA RowMajorPos ==
  ASSUME NEW x, x.shape \in Seq(Nat), IsRowMajor(x), NEW i \in Elements(x)
  PROVE  Pos(x, i) = i
<1>1. i \in 0..(Below(x.shape)[0] - 1) /\ SizeOf(x) # 0
  <2>1. SizeOf(x) = Below(x.shape)[0] /\ SizeOf(x) \in Nat
    BY SizeIs
  <2> QED BY <2>1 DEF Elements
<1>2. x.strides = ElementStrides(x.shape)
  BY <1>1 DEF IsRowMajor
<1> QED BY <1>1, <1>2, RowPos DEF Pos

\* What a call that passed its checks knows.
LEMMA Passed ==
  ASSUME NEW c, Failing(c) = {}, NEW k \in DOMAIN Checks(c)
  PROVE  ~Checks(c)[k].bad
BY DEF Failing

\* The target a call writes: its elements are where they were, or at their
\* numbers, and no two in one place.
LEMMA TargetIs ==
  ASSUME NEW c, IsCall(c), NEW x, IsTarget(c, x)
  PROVE  /\ x.shape = c.dst.shape /\ Elements(x) = Elements(c.dst) /\ SizeOf(x) = SizeOf(c.dst)
         /\ x.blk = IF Copies(c) THEN "new" ELSE "d"
         /\ ~Copies(c) => x.strides = c.dst.strides /\ \A i \in Elements(c.dst) : Pos(x, i) = Pos(c.dst, i)
         /\ Copies(c) \/ IsRowMajor(c.dst) => \A i \in Elements(c.dst) : Pos(x, i) = i
         /\ \A i \in Elements(c.dst) : Pos(x, i) \in IF Copies(c) THEN Elements(c.dst) ELSE Cells
         /\ \A i, j \in Elements(c.dst) : Pos(x, i) = Pos(x, j) => i = j
<1>1. CASE Copies(c)
  <2>1. x = CopyOf(c.dst)
    BY <1>1 DEF IsTarget
  <2>2. /\ x.shape = c.dst.shape /\ x.blk = "new"
        /\ x.strides = ElementStrides(c.dst.shape)
    BY <2>1 DEF CopyOf, Array
  <2>3. Elements(x) = Elements(c.dst) /\ SizeOf(x) = SizeOf(c.dst)
    BY <2>2 DEF Elements, SizeOf
  <2>4. IsRowMajor(x) /\ x.shape \in Seq(Nat)
    BY <2>2 DEF IsRowMajor, IsCall, OfLayout
  <2>5. \A i \in Elements(c.dst) : Pos(x, i) = i
    BY <2>3, <2>4, RowMajorPos
  <2> QED BY <1>1, <2>2, <2>3, <2>5
<1>2. CASE ~Copies(c)
  <2>1. x = [c.dst EXCEPT !.writeable = TRUE]
    BY <1>2 DEF IsTarget
  <2>2. /\ x.shape = c.dst.shape /\ x.strides = c.dst.strides /\ x.blk = "d"
    BY <2>1 DEF IsCall
  <2>3. /\ Elements(x) = Elements(c.dst) /\ SizeOf(x) = SizeOf(c.dst)
        /\ \A i : Pos(x, i) = Pos(c.dst, i)
    BY <2>2 DEF Elements, SizeOf, Pos
  <2>4. \A i \in Elements(c.dst) : Pos(x, i) \in Cells
    BY <2>3 DEF IsCall, OfLayout
  <2>5. \A i, j \in Elements(c.dst) : Pos(x, i) = Pos(x, j) => i = j
    BY <1>2, <2>3 DEF IsCall, Trusted
  <2>6. IsRowMajor(c.dst) => \A i \in Elements(c.dst) : Pos(x, i) = i
    BY <2>3, RowMajorPos DEF IsCall, OfLayout
  <2> QED BY <1>2, <2>2, <2>3, <2>4, <2>5, <2>6
<1> QED BY <1>1, <1>2

\* A call writes no memory it reads, but the target itself.
LEMMA NotRead ==
  ASSUME NEW c, IsCall(c), NEW x, IsTarget(c, x)
  PROVE  /\ x.blk \in Blocks /\ x.blk \notin {"a", "b", "m"}
         /\ c.op \in OneSource => c.a.blk \in Blocks \ {x.blk}
         /\ c.op \in TwoSources => c.b.blk \in Blocks \ {x.blk}
         /\ c.op \in Indexed => c.m.blk \in Blocks \ {x.blk}
<1>1. x.blk = IF Copies(c) THEN "new" ELSE "d"
  BY TargetIs
<1>2. ~Copies(c) => "d" \notin {c.a.blk, c.b.blk}
  BY DEF Copies, Shared
<1> QED BY <1>1, <1>2 DEF IsCall, Blocks

\* What a task computes of memory that is as it was.
LEMMA KernelSame ==
  ASSUME NEW c, IsCall(c), NEW x, NEW m, NEW i,
         c.op \in OneSource => m[c.a.blk] = Initially(c)[c.a.blk],
         c.op \in TwoSources => m[c.b.blk] = Initially(c)[c.b.blk],
         c.op \in Indexed => m[c.m.blk] = Initially(c)[c.m.blk],
         c.op \in {"inplace", "add_scalar", "mul_scalar"} => At(m, x, i) = At(Initially(c), c.dst, i)
  PROVE  Kernel(c, x, m, i) = Kernel(c, c.dst, Initially(c), i)
<1> DEFINE w == Initially(c)
<1>1. c.op \in OneSource => \A j : At(m, c.a, j) = At(w, c.a, j)
  BY DEF At
<1>2. c.op \in TwoSources => \A j : At(m, c.b, j) = At(w, c.b, j)
  BY DEF At
<1>3. c.op \in Indexed => \A j : At(m, c.m, j) = At(w, c.m, j)
  BY DEF At
<1>4. c.op \in {"inplace", "add_scalar", "mul_scalar"} => At(m, x, i) = At(w, c.dst, i)
  OBVIOUS
<1>5. c.op \in OneSource => m[c.a.blk] = w[c.a.blk]
  OBVIOUS
<1>6. c.op \in Ops1 \cup OneSource
  BY DEF IsCall
<1> HIDE DEF w
<1>7. CASE c.op \in Ops1
  BY <1>4, <1>7 DEF Kernel, IsCopy, Ops1, w
<1>8. CASE c.op \in Ops2 \ {"scan", "flip"}
  <2>1. At(m, c.a, i) = At(w, c.a, i)
    BY <1>1, <1>8 DEF OneSource
  <2>2. CASE IsCopy(c)
    BY <2>1, <2>2 DEF Kernel, w
  <2>3. CASE ~IsCopy(c)
    <3>1. c.op \in {"cast", "map", "abs", "neg", "sqrt", "clip"}
      BY <1>8, <2>3 DEF Ops2, IsCopy
    <3>2. CASE c.op = "cast"
      BY <2>1, <2>3, <3>2 DEF Kernel, w
    <3>3. CASE c.op # "cast"
      BY <2>1, <2>3, <3>1, <3>3 DEF Kernel, w
    <3> QED BY <3>2, <3>3
  <2> QED BY <2>2, <2>3
<1>9. CASE c.op = "scan"
  BY <1>1, <1>9 DEF Kernel, IsCopy, Ops2, OneSource, w
<1>10. CASE c.op = "flip"
  BY <1>5, <1>10 DEF Kernel, IsCopy, Ops2, OneSource, w
<1>11. CASE c.op = "zip"
  BY <1>1, <1>2, <1>11 DEF Kernel, IsCopy, OneSource, TwoSources, w
<1>12. CASE c.op = "where"
  BY <1>1, <1>2, <1>3, <1>12 DEF Kernel, IsCopy, OneSource, TwoSources, Indexed, w
<1>13. CASE c.op \in OpsIndexed
  BY <1>1, <1>3, <1>13 DEF Kernel, IsCopy, OneSource, OpsIndexed, Indexed, w
<1> QED BY <1>6, <1>7, <1>8, <1>9, <1>10, <1>11, <1>12, <1>13 DEF OneSource, Ops2

\* The tasks of a call are about elements of its target, those of scatter about
\* elements of its source.
LEMMA TasksAre ==
  ASSUME NEW c, IsCall(c)
  PROVE  /\ c.op # "scatter" => Tasks(c) \subseteq Elements(c.dst)
         /\ c.op = "scatter" => Tasks(c) = Elements(c.a)
         /\ c.op = "nontemporal" => Tasks(c) = Elements(c.dst)
         /\ c.op \notin {"scatter", "tril", "triu", "fill_diagonal"} => Tasks(c) = Elements(c.dst)
<1>1. SizeOf(c.dst) \in Nat
  BY SizeIs DEF IsCall, OfLayout
<1>2. CASE c.op = "nontemporal"
  <2>1. c.arg \in Nat
    BY <1>2 DEF IsCall
  <2>2. Nontemporal(SizeOf(c.dst), c.arg) = 0..(SizeOf(c.dst) - 1)
    BY <1>1, <2>1, NontemporalAll
  <2> QED BY <1>2, <2>2 DEF Tasks, Elements
<1>3. CASE c.op = "tril"
  BY <1>3 DEF Tasks, Tri
<1>4. CASE c.op = "triu"
  BY <1>4 DEF Tasks, Triu
<1>5. CASE c.op = "fill_diagonal"
  BY <1>5 DEF Tasks, OnDiagonal
<1>6. CASE c.op \notin {"nontemporal", "tril", "triu", "fill_diagonal"}
  BY <1>6 DEF Tasks
<1> QED BY <1>2, <1>3, <1>4, <1>5, <1>6

\* scatter reads the list it is given.
LEMMA ScatterList ==
  ASSUME NEW c, IsCall(c), c.op = "scatter", Failing(c) = {}, NEW j \in Elements(c.a)
  PROVE  /\ At(Initially(c), c.m, j) = c.list[j + 1]
         /\ c.list[j + 1] \in Int
<1>1. /\ ~Contiguous(c.m).bad /\ ~SameLen(c.m, c.a).bad
  <2>1. Checks(c) = <<SameType(c.m, "I64"), SameType(c.dst, c.a.dtype), Contiguous(c.a),
                      Contiguous(c.m), Contiguous(c.dst), SameLen(c.m, c.a), Writeable(c.dst)>>
    BY DEF Checks, ScatterChecks, IndexChecks
  <2>2. 4 \in DOMAIN Checks(c) /\ 6 \in DOMAIN Checks(c)
    BY <2>1
  <2>3. ~Checks(c)[4].bad /\ ~Checks(c)[6].bad
    BY <2>2, Passed
  <2> QED BY <2>1, <2>3
<1>2. IsRowMajor(c.m) /\ SizeOf(c.m) = SizeOf(c.a)
  BY <1>1 DEF Contiguous, SameLen, Check
<1>3. c.m.blk = "m" /\ c.m.shape = <<Len(c.list)>> /\ c.list \in Seq(Int)
  BY DEF IsCall, Indexed, OpsIndexed
<1>4. c.m.shape \in Seq(Nat)
  BY <1>3
<1>5. SizeOf(c.m) = Len(c.list)
  <2> DEFINE s == <<Len(c.list)>>
             n == Below(s)
  <2>1. s \in Seq(Nat) /\ Len(s) = 1 /\ s[1] = Len(c.list) /\ Len(c.list) \in Nat
    BY <1>3
  <2> HIDE DEF s
  <2>2. n[1] = 1 /\ n[0] = s[1] * n[1]
    <3>1. n[Len(s)] = 1 /\ \A k \in 1..Len(s) : n[k - 1] = s[k] * n[k]
      BY <2>1, BelowSteps
    <3> HIDE DEF n
    <3> QED BY <2>1, <3>1
  <2>3. SizeOf(c.m) = n[0]
    BY <1>3 DEF SizeOf, s
  <2> HIDE DEF n
  <2> QED BY <2>1, <2>2, <2>3
<1>6. j \in Elements(c.m) /\ j \in 0..(Len(c.list) - 1)
  BY <1>2, <1>5 DEF Elements
<1>7. Pos(c.m, j) = j
  BY <1>2, <1>4, <1>6, RowMajorPos
<1>8. Initially(c)["m"] = [p \in 0..(Len(c.list) - 1) |-> c.list[p + 1]]
  BY DEF Initially
<1>9. At(Initially(c), c.m, j) = c.list[j + 1]
  BY <1>3, <1>6, <1>7, <1>8 DEF At
<1> QED BY <1>3, <1>6, <1>9

\* What flip writes is what was at the mirrored index.
LEMMA FlipMirrors ==
  ASSUME NEW c, IsCall(c), c.op = "flip", Failing(c) = {}, NEW i \in Elements(c.dst)
  PROVE  Mirrored(c, i) = Initially(c)[c.a.blk][FlippedPos(c, i)]
<1> DEFINE s == c.a.shape
           axis == c.arg + 1
           index == IndexOf(s, i)
           y == [index EXCEPT ![axis] = s[axis] - 1 - @]
           same == {j \in Elements(c.a) :
                      \A k \in DOMAIN c.a.shape :
                        LET u == IndexOf(c.a.shape, j)[k]
                            v == IndexOf(c.dst.shape, i)[k]
                        IN IF k = c.arg + 1 THEN u + v = c.a.shape[k] - 1 ELSE u = v}
<1>1. ~SameShape(c.a, c.dst).bad /\ ~MustHold(c.arg < Len(c.a.shape)).bad
  <2>1. Checks(c) = <<SameType(c.dst, c.a.dtype), SameShape(c.a, c.dst),
                      MustHold(c.arg < Len(c.a.shape)), Contiguous(c.dst), Writeable(c.dst)>>
    BY DEF Checks, FlipChecks
  <2>2. 2 \in DOMAIN Checks(c) /\ 3 \in DOMAIN Checks(c)
    BY <2>1
  <2>3. ~Checks(c)[2].bad /\ ~Checks(c)[3].bad
    BY <2>2, Passed
  <2> QED BY <2>1, <2>3
<1>2. c.dst.shape = s /\ c.arg < Len(s)
  BY <1>1 DEF SameShape, MustHold, Check
<1>3. s \in Seq(Nat) /\ c.arg \in Nat /\ axis \in 1..Len(s) /\ DOMAIN s = 1..Len(s)
  <2>1. s \in Seq(Nat) /\ c.arg \in Nat
    BY DEF IsCall, OfLayout, OneSource, Ops2
  <2> QED BY <1>2, <2>1
<1>4. Elements(c.a) = 0..(Below(s)[0] - 1) /\ i \in 0..(Below(s)[0] - 1)
  BY <1>2, <1>3, SizeIs DEF Elements, SizeOf
<1>5. /\ index = [k \in 1..Len(s) |-> index[k]]
      /\ \A k \in 1..Len(s) : index[k] \in 0..(s[k] - 1) /\ s[k] \in Nat
  <2> HIDE DEF s, axis, y, same
  <2>1. s \in Seq(Nat)
    BY <1>3
  <2>2. \A k \in 1..Len(s) : s[k] \in Nat
    BY ONLY <2>1
  <2> QED BY <1>3, <1>4, <2>2, IndexIs
<1> HIDE DEF index
<1>6. y = [k \in 1..Len(s) |-> IF k = axis THEN s[k] - 1 - index[k] ELSE index[k]]
  BY <1>3, <1>5
<1>7. y \in [1..Len(s) -> Nat] /\ \A k \in 1..Len(s) : y[k] < s[k]
  <2> HIDE DEF s, axis, y
  <2>1. ASSUME NEW k \in 1..Len(s)
        PROVE  y[k] \in Nat /\ y[k] < s[k]
    <3>1. index[k] \in 0..(s[k] - 1) /\ s[k] \in Nat
      BY <1>5
    <3>2. y[k] = IF k = axis THEN s[k] - 1 - index[k] ELSE index[k]
      BY <1>6
    <3> QED BY <3>1, <3>2
  <2> QED BY <1>6, <2>1
<1> HIDE DEF y
<1>8. \A j \in same : IndexOf(s, j) = y
  <2> TAKE j \in same
  <2> DEFINE z == IndexOf(s, j)
  <2>1. j \in 0..(Below(s)[0] - 1)
    BY <1>4
  <2>2. z = [k \in 1..Len(s) |-> z[k]] /\ \A k \in 1..Len(s) : z[k] \in Nat
    <3> HIDE DEF s
    <3> QED BY <1>3, <2>1, IndexIs
  <2>3. ASSUME NEW k \in 1..Len(s) PROVE z[k] = y[k]
    <3>1. IF k = axis THEN z[k] + index[k] = s[k] - 1 ELSE z[k] = index[k]
      BY <1>2, <1>3 DEF index
    <3>2. z[k] \in Nat /\ index[k] \in Nat /\ s[k] \in Nat
      <4> HIDE DEF z, s
      <4> QED BY <1>5, <2>2
    <3>3. y[k] = IF k = axis THEN s[k] - 1 - index[k] ELSE index[k]
      BY <1>6
    <3> HIDE DEF z, s, axis
    <3> QED BY <3>1, <3>2, <3>3
  <2> QED BY <1>6, <2>2, <2>3
<1>9. PICK j \in 0..(Below(s)[0] - 1) : IndexOf(s, j) = y
  BY <1>3, <1>7, IndexExists
<1>10. j \in same
  <2>1. ASSUME NEW k \in 1..Len(s)
        PROVE  IF k = axis THEN IndexOf(s, j)[k] + index[k] = s[k] - 1
                           ELSE IndexOf(s, j)[k] = index[k]
    <3>1. y[k] = IF k = axis THEN s[k] - 1 - index[k] ELSE index[k]
      BY <1>6
    <3>2. index[k] \in Nat /\ s[k] \in Nat
      <4> HIDE DEF s
      <4> QED BY <1>5
    <3> HIDE DEF s, axis
    <3> QED BY <1>9, <3>1, <3>2
  <2> QED BY <1>2, <1>3, <1>4, <2>1 DEF index
<1> DEFINE picked == CHOOSE h \in same : TRUE
<1>11. picked \in same
  BY <1>10
<1>12. IndexOf(s, picked) = y
  <2> HIDE DEF picked, same
  <2> QED BY <1>8, <1>11
<1>13. Mirrored(c, i) = Initially(c)[c.a.blk][IndexPos(c.a.strides, IndexOf(s, picked))]
  BY DEF Mirrored, At, Pos
<1>14. FlippedPos(c, i) = IndexPos(c.a.strides, y)
  BY <1>2 DEF FlippedPos, y, index
<1> QED BY <1>12, <1>13, <1>14

\* When all tasks have run every element is what is expected.
LEMMA AllWritten ==
  ASSUME NEW c, IsCall(c), Failing(c) = {}, NEW i \in Elements(c.dst)
  PROVE  Sofar(c, Tasks(c), i) = Expected(c, i)
<1>1. CASE c.op = "scatter"
  <2>1. Hits(c, Tasks(c), i) = {j \in Elements(c.a) : c.list[j + 1] \in {i, i - SizeOf(c.dst)}}
    BY <1>1, TasksAre DEF Hits
  <2>2. Expected(c, i) = Scattered(c, i)
    BY <1>1 DEF Expected
  <2> QED BY <1>1, <2>1, <2>2 DEF Sofar, Scattered
<1>2. CASE c.op = "flip"
  <2>1. Tasks(c) = Elements(c.dst)
    BY <1>2, TasksAre
  <2>2. Expected(c, i) = Mirrored(c, i)
    BY <1>2 DEF Expected
  <2>3. Kernel(c, c.dst, Initially(c), i) = Initially(c)[c.a.blk][FlippedPos(c, i)]
    BY <1>2 DEF Kernel, IsCopy
  <2> QED BY <1>2, <2>1, <2>2, <2>3, FlipMirrors DEF Sofar
<1>3. CASE c.op \notin {"scatter", "flip"}
  <2>1. c.op = "nontemporal" => i \in Tasks(c)
    BY TasksAre
  <2>2. CASE i \in Tasks(c)
    BY <1>3, <2>2 DEF Sofar, Expected
  <2>3. CASE i \notin Tasks(c)
    BY <1>3, <2>1, <2>3 DEF Sofar, Expected
  <2> QED BY <2>2, <2>3
<1> QED BY <1>1, <1>2, <1>3

\* The elements of the target that an index of scatter names.
Named(c, i) == {e \in Elements(c.dst) : c.list[i + 1] \in {e, e - SizeOf(c.dst)}}

WritesTo(c, x, i) ==
  IF c.op = "scatter" THEN {Pos(x, e) : e \in Named(c, i)} ELSE {Pos(x, i)}

\* Where a task writes: the place of its element, or of that its index names.
LEMMA TargetOf ==
  ASSUME NEW c, IsCall(c), Failing(c) = {}, Gapless(c), NEW x, IsTarget(c, x),
         NEW m, RestKept(c, x, m), NEW i \in Tasks(c)
  PROVE  /\ Target(c, x, m, i) = WritesTo(c, x, i)
         /\ c.op # "scatter" => i \in Elements(c.dst)
<1>1. ASSUME c.op # "scatter"
      PROVE  Target(c, x, m, i) = {Pos(x, i)} /\ i \in Elements(c.dst)
  <2>1. i \in Elements(c.dst)
    BY <1>1, TasksAre
  <2>2. CASE FromBase(c)
    <3>1. IsRowMajor(c.dst) \/ Shared(c)
      BY <2>2 DEF Gapless
    <3>2. Pos(x, i) = i
      BY <2>1, <3>1, TargetIs DEF Copies
    <3> QED BY <1>1, <2>1, <2>2, <3>2 DEF Target
  <2>3. CASE ~FromBase(c)
    BY <1>1, <2>1, <2>3 DEF Target
  <2> QED BY <2>2, <2>3
<1>2. ASSUME c.op = "scatter"
      PROVE  Target(c, x, m, i) = {Pos(x, e) : e \in Named(c, i)}
  <2>1. i \in Elements(c.a)
    BY <1>2, TasksAre
  <2>2. At(m, c.m, i) = c.list[i + 1] /\ c.list[i + 1] \in Int
    <3>1. m[c.m.blk] = Initially(c)[c.m.blk]
      BY <1>2, NotRead DEF RestKept, Indexed, OpsIndexed
    <3>2. At(m, c.m, i) = At(Initially(c), c.m, i)
      BY <3>1 DEF At
    <3> QED BY <1>2, <2>1, <3>2, ScatterList
  <2>3. IsRowMajor(c.dst)
    <3>1. Checks(c) = <<SameType(c.m, "I64"), SameType(c.dst, c.a.dtype), Contiguous(c.a),
                        Contiguous(c.m), Contiguous(c.dst), SameLen(c.m, c.a), Writeable(c.dst)>>
      BY <1>2 DEF Checks, ScatterChecks, IndexChecks
    <3>2. 5 \in DOMAIN Checks(c)
      BY <3>1
    <3>3. ~Checks(c)[5].bad
      BY <3>2, Passed
    <3>4. ~Contiguous(c.dst).bad
      BY <3>1, <3>3
    <3> QED BY <3>4 DEF Contiguous, Check
  <2>4. \A e \in Elements(c.dst) : Pos(x, e) = e
    BY <2>3, TargetIs
  <2> DEFINE n == SizeOf(c.dst)
             v == c.list[i + 1]
             j == FromFront(v, n)
  <2>5. SizeOf(x) = n /\ Elements(x) = Elements(c.dst) /\ Elements(c.dst) = 0..(n - 1) /\ n \in Nat
    <3>1. n \in Nat
      BY SizeIs DEF IsCall, OfLayout
    <3>2. SizeOf(x) = n /\ Elements(x) = Elements(c.dst)
      BY TargetIs
    <3> QED BY <3>1, <3>2 DEF Elements
  <2>6. Target(c, x, m, i) = {j} \cap Elements(x)
    <3>1. ~FromBase(c)
      BY <1>2 DEF FromBase, IsCopy
    <3> QED BY <1>2, <2>2, <2>5, <3>1 DEF Target
  <2>7. \A e \in 0..(n - 1) : v \in {e, e - n} <=> e = j
    <3>1. v \in Int /\ n \in Nat
      BY <2>2, <2>5
    <3> HIDE DEF v, n
    <3> QED BY <3>1 DEF FromFront
  <2>8. Named(c, i) = {e \in Elements(c.dst) : v \in {e, e - n}}
    BY DEF Named
  <2> HIDE DEF n, v, j
  <2>9. {Pos(x, e) : e \in Named(c, i)} = {j} \cap Elements(x)
    BY <2>4, <2>5, <2>7, <2>8
  <2> QED BY <2>6, <2>9
<1> QED BY <1>1, <1>2 DEF WritesTo

\* A task leaves in its element what it would write first, and nothing else.
LEMMA TaskRuns ==
  ASSUME NEW c, IsCall(c), Failing(c) = {}, Gapless(c), NEW x, IsTarget(c, x),
         NEW m, RestKept(c, x, m), NEW S, S \subseteq Tasks(c), Written(c, x, m, S),
         NEW i \in Tasks(c) \ S, c.op = "scatter" => \A j \in S : j < i,
         NEW n, n = [m EXCEPT ![x.blk] =
                       [p \in DOMAIN @ |-> IF p \in Target(c, x, m, i)
                                            THEN Kernel(c, x, m, i) ELSE @[p]]]
  PROVE  RestKept(c, x, n) /\ Written(c, x, n, S \cup {i})
<1> DEFINE w == Initially(c)
           v == Kernel(c, c.dst, w, i)
           at == Target(c, x, m, i)
<1>1. x.blk \in Blocks /\ DOMAIN m = Blocks
  BY NotRead DEF RestKept
<1>2. Kernel(c, x, m, i) = v
  <2>1. \A blk \in Blocks \ {x.blk} : m[blk] = w[blk]
    BY DEF RestKept
  <2>2. ASSUME c.op \in {"inplace", "add_scalar", "mul_scalar"}
        PROVE  At(m, x, i) = At(w, c.dst, i)
    <3>1. i \in Elements(c.dst)
      BY <2>2, TasksAre
    <3>2. At(m, x, i) = Sofar(c, S, i)
      BY <3>1 DEF Written
    <3> QED BY <2>2, <3>2 DEF Sofar
  <2> HIDE DEF w
  <2>3. /\ c.op \in OneSource => m[c.a.blk] = w[c.a.blk]
        /\ c.op \in TwoSources => m[c.b.blk] = w[c.b.blk]
        /\ c.op \in Indexed => m[c.m.blk] = w[c.m.blk]
    BY <2>1, NotRead
  <2> QED BY <2>2, <2>3, KernelSame DEF w
<1> HIDE DEF v
<1>3. /\ DOMAIN n = Blocks
      /\ \A blk \in Blocks \ {x.blk} : n[blk] = m[blk]
      /\ n[x.blk] = [p \in DOMAIN m[x.blk] |-> IF p \in at THEN v ELSE m[x.blk][p]]
  BY <1>1, <1>2
<1> HIDE DEF at
<1>4. \A e \in Elements(c.dst) : Pos(x, e) \in DOMAIN m[x.blk]
  BY TargetIs DEF RestKept
<1>5. \A e \in Elements(c.dst) : At(n, x, e) = IF Pos(x, e) \in at THEN v ELSE At(m, x, e)
  BY <1>3, <1>4 DEF At
<1>6. /\ c.op # "scatter" => at = {Pos(x, i)} /\ i \in Elements(c.dst)
      /\ c.op = "scatter" => at = {Pos(x, e) : e \in Named(c, i)}
  <2>1. i \in Tasks(c)
    OBVIOUS
  <2>2. at = WritesTo(c, x, i) /\ (c.op # "scatter" => i \in Elements(c.dst))
    BY <2>1, TargetOf DEF at
  <2> QED BY <2>2 DEF WritesTo
<1>7. \A e, f \in Elements(c.dst) : Pos(x, e) = Pos(x, f) => e = f
  BY TargetIs
<1>8. at \subseteq {Pos(x, e) : e \in Elements(c.dst)}
  <2>1. Named(c, i) \subseteq Elements(c.dst)
    BY DEF Named
  <2> QED BY <1>6, <2>1
<1>9. RestKept(c, x, n)
  <2>1. DOMAIN n[x.blk] = DOMAIN m[x.blk]
    BY <1>3
  <2>2. ASSUME ~Copies(c), NEW p \in Cells \ {Pos(c.dst, e) : e \in Elements(c.dst)}
        PROVE  n["d"][p] = w["d"][p]
    <3>1. x.blk = "d" /\ \A e \in Elements(c.dst) : Pos(x, e) = Pos(c.dst, e)
      BY <2>2, TargetIs
    <3>2. p \notin at
      BY <1>8, <3>1
    <3>3. DOMAIN m["d"] = Cells /\ m["d"][p] = w["d"][p]
      BY <2>2, <3>1 DEF RestKept
    <3> QED BY <1>3, <3>1, <3>2, <3>3
  <2> QED BY <1>3, <2>1, <2>2 DEF RestKept
<1>10. ASSUME NEW e \in Elements(c.dst) PROVE At(n, x, e) = Sofar(c, S \cup {i}, e)
  <2>1. At(m, x, e) = Sofar(c, S, e)
    BY DEF Written
  <2>2. CASE c.op # "scatter"
    <3>1. Pos(x, e) \in at <=> e = i
      BY <1>6, <1>7, <2>2
    <3>2. Sofar(c, S \cup {i}, e) = IF e = i THEN v ELSE Sofar(c, S, e)
      BY <2>2 DEF Sofar, v
    <3> QED BY <1>5, <2>1, <3>1, <3>2
  <2>3. CASE c.op = "scatter"
    <3>1. Pos(x, e) \in at <=> e \in Named(c, i)
      <4>1. Named(c, i) \subseteq Elements(c.dst)
        BY DEF Named
      <4> QED BY <1>6, <1>7, <2>3, <4>1
    <3>2. v = At(w, c.a, i)
      BY <2>3 DEF v, Kernel, IsCopy
    <3>3. CASE e \in Named(c, i)
      <4> DEFINE H == Hits(c, S \cup {i}, e)
      <4>1. i \in H
        BY <3>3 DEF Hits, Named
      <4>2. \A j \in H : j <= i /\ j \in Nat
        <5>1. Tasks(c) = Elements(c.a) /\ Elements(c.a) \subseteq Nat
          BY <2>3, TasksAre, SizeIs DEF IsCall, OfLayout, OneSource, OpsIndexed
        <5>2. H \subseteq S \cup {i}
          BY DEF Hits
        <5>3. S \cup {i} \subseteq Nat
          BY <5>1
        <5>4. \A j \in S : j < i
          BY <2>3
        <5> HIDE DEF H
        <5> QED BY <5>2, <5>3, <5>4
      <4> HIDE DEF H
      <4>3. Max(H) = i
        BY <4>1, <4>2 DEF Max
      <4>4. Sofar(c, S \cup {i}, e) = At(w, c.a, Max(H))
        BY <2>3, <4>1 DEF Sofar, H
      <4> QED BY <1>5, <3>1, <3>2, <3>3, <4>3, <4>4
    <3>4. CASE e \notin Named(c, i)
      <4>1. Hits(c, S \cup {i}, e) = Hits(c, S, e)
        BY <3>4 DEF Hits, Named
      <4>2. Sofar(c, S \cup {i}, e) = Sofar(c, S, e)
        BY <2>3, <4>1 DEF Sofar
      <4> QED BY <1>5, <2>1, <3>1, <3>4, <4>2
    <3> QED BY <3>3, <3>4
  <2> QED BY <2>2, <2>3
<1> QED BY <1>9, <1>10 DEF Written

\* Before the first task every element of the target is as it was, copied or not.
LEMMA Begun ==
  ASSUME NEW c, IsCall(c), NEW x, IsTarget(c, x), NEW m,
         m = IF Copies(c)
               THEN [Initially(c) EXCEPT !["new"] =
                       [i \in Elements(c.dst) |-> At(Initially(c), c.dst, i)]]
               ELSE Initially(c)
  PROVE  RestKept(c, x, m) /\ Written(c, x, m, {})
<1> DEFINE w == Initially(c)
<1>1. DOMAIN w = Blocks /\ DOMAIN w["d"] = Cells
  BY DEF Initially, Blocks
<1> HIDE DEF w
<1>2. \A i : Sofar(c, {}, i) = At(w, c.dst, i)
  BY DEF Sofar, Hits, w
<1>3. CASE Copies(c)
  <2>1. m = [w EXCEPT !["new"] = [i \in Elements(c.dst) |-> At(w, c.dst, i)]]
    BY <1>3 DEF w
  <2>2. x.blk = "new" /\ \A i \in Elements(c.dst) : Pos(x, i) = i
    BY <1>3, TargetIs
  <2>3. /\ DOMAIN m = Blocks
        /\ \A blk \in Blocks \ {"new"} : m[blk] = w[blk]
        /\ m["new"] = [i \in Elements(c.dst) |-> At(w, c.dst, i)]
    BY <1>1, <2>1 DEF Blocks
  <2>4. RestKept(c, x, m)
    BY <1>3, <2>2, <2>3 DEF RestKept, w
  <2>5. \A i \in Elements(c.dst) : At(m, x, i) = At(w, c.dst, i)
    <3> TAKE i \in Elements(c.dst)
    <3>1. At(m, x, i) = m["new"][i]
      BY <2>2 DEF At
    <3> QED BY <2>3, <3>1
  <2> QED BY <1>2, <2>4, <2>5 DEF Written
<1>4. CASE ~Copies(c)
  <2>1. m = w /\ x.blk = "d" /\ \A i \in Elements(c.dst) : Pos(x, i) = Pos(c.dst, i)
    BY <1>4, TargetIs DEF w
  <2>2. RestKept(c, x, m)
    BY <1>1, <1>4, <2>1 DEF RestKept, w
  <2>3. c.dst.blk = "d"
    BY DEF IsCall
  <2>4. \A i \in Elements(c.dst) : At(m, x, i) = At(w, c.dst, i)
    BY <2>1, <2>3 DEF At
  <2> QED BY <1>2, <2>2, <2>4 DEF Written
<1> QED BY <1>3, <1>4

\* What a call that succeeded leaves.
LEMMA Done ==
  ASSUME NEW c, IsCall(c), Failing(c) = {}, NEW x, IsTarget(c, x), NEW m, RestKept(c, x, m),
         Written(c, x, m, Tasks(c))
  PROVE  /\ \A i \in Elements(x) : At(m, x, i) = Expected(c, i)
         /\ \A blk \in {"a", "b", "m"} : m[blk] = Initially(c)[blk]
         /\ \A p \in Cells :
              \/ m["d"][p] = Initially(c)["d"][p]
              \/ ~Shared(c) /\ ~OnCopy(c) /\ p \in {Pos(c.dst, i) : i \in Elements(x)}
<1>1. /\ Elements(x) = Elements(c.dst)
      /\ x.blk = IF Copies(c) THEN "new" ELSE "d"
  BY TargetIs
<1>2. \A i \in Elements(x) : At(m, x, i) = Expected(c, i)
  BY <1>1, AllWritten DEF Written
<1>3. \A blk \in {"a", "b", "m"} : m[blk] = Initially(c)[blk]
  BY <1>1 DEF RestKept, Blocks
<1>4. CASE Copies(c)
  <2>1. m["d"] = Initially(c)["d"]
    BY <1>1, <1>4 DEF RestKept, Blocks
  <2> QED BY <1>2, <1>3, <2>1
<1>5. CASE ~Copies(c)
  <2>1. \A p \in Cells \ {Pos(c.dst, i) : i \in Elements(x)} : m["d"][p] = Initially(c)["d"][p]
    BY <1>1, <1>5 DEF RestKept
  <2> QED BY <1>2, <1>3, <1>5, <2>1 DEF Copies
<1> QED BY <1>4, <1>5

---------------------------------------------------------------------------
\* The calls that are made.

\* Arrays of Layouts, as targets,
LEMMA TargetArrayIs ==
  ASSUME NEW op, NEW d \in TargetArrays(op)
  PROVE  /\ d = [blk |-> "d", shape |-> d.shape, strides |-> d.strides,
                 dtype |-> d.dtype, writeable |-> d.writeable]
         /\ OfLayout(d)
<1>1. PICK l \in Layouts, t \in ElementTypes(op), w \in BOOLEAN : d = Array("d", l, t, w)
  BY DEF TargetArrays
<1> QED BY <1>1, LayoutHasCells DEF Array

\* as sources, in memory of their own or in that of the target,
LEMMA SourceArrayIs ==
  ASSUME NEW op, NEW a \in SourceArrays(op)
  PROVE  /\ a = [blk |-> a.blk, shape |-> a.shape, strides |-> a.strides,
                 dtype |-> a.dtype, writeable |-> a.writeable]
         /\ a.blk \in {"a", "d"}
         /\ OfLayout(a)
<1>1. PICK blk \in {"a", "d"}, l \in Layouts, t \in ElementTypes(op) : a = Input(blk, l, t)
  BY DEF SourceArrays
<1> QED BY <1>1, LayoutHasCells DEF Input, Array

\* as second sources,
LEMMA SecondIs ==
  ASSUME NEW op, NEW a \in SourceArrays(op), NEW b \in Seconds(a)
  PROVE  b.blk \in {"b", "d"}
<1>1. a = [blk |-> a.blk, shape |-> a.shape, strides |-> a.strides,
           dtype |-> a.dtype, writeable |-> a.writeable]
  BY SourceArrayIs
<1>2. CASE \E blk \in {"b", "d"} : b = [a EXCEPT !.blk = blk]
  BY <1>1, <1>2
<1>3. CASE b = [a EXCEPT !.blk = "b", !.dtype = "I64"]
  BY <1>1, <1>3
<1>4. CASE \E l \in Layouts : b = Input("b", l, a.dtype)
  BY <1>4 DEF Input, Array
<1> QED BY <1>2, <1>3, <1>4 DEF Seconds

\* and lists.
LEMMA NumbersAre ==
  ASSUME NEW list \in Lists, NEW m \in Numbers(list)
  PROVE  m.blk = "m" /\ m.shape = <<Len(list)>> /\ list \in Seq(Int)
<1>1. PICK step \in {1, 2}, t \in {"U8", "I64"} :
        m = Input("m", [shape |-> <<Len(list)>>, strides |-> <<step>>], t)
  BY DEF Numbers
<1>2. m.blk = "m" /\ m.shape = <<Len(list)>>
  BY <1>1 DEF Input, Array
<1>3. list \in Seq(Int)
  <2>1. Lists \subseteq Seq(Int)
    BY BulkAssumption
  <2> QED BY <2>1
<1> QED BY <1>2, <1>3

\* A call is what IsCall says.
LEMMA InvokeIsCall ==
  ASSUME Invoke
  PROVE  stage' = "called" /\ IsCall(call') /\ dst' = call'.dst /\ mem' = Initially(call')
<1> DEFINE Goal == stage' = "called" /\ IsCall(call') /\ dst' = call'.dst /\ mem' = Initially(call')
<1>0. ASSUME NEW c, Call(c), Trusted(c) => IsCall(c) PROVE Goal
  BY <1>0 DEF Call
<1>1. ASSUME NEW op \in Ops1, NEW d \in TargetArrays(op), NEW y \in Args(op), NEW held \in BOOLEAN,
             Call(Arguments(op, d, NoArray, NoArray, NoArray, <<>>, y, held))
      PROVE  Goal
  <2> DEFINE c == Arguments(op, d, NoArray, NoArray, NoArray, <<>>, y, held)
  <2>1. /\ c.op = op /\ c.dst = d /\ c.a = NoArray /\ c.b = NoArray /\ c.arg = y
    BY DEF Arguments
  <2> HIDE DEF c
  <2>2. op \notin OneSource \cup TwoSources \cup Indexed \cup {"flip"}
    BY DEF Ops1, OneSource, TwoSources, Indexed, Ops2, OpsIndexed
  <2>3. op = "nontemporal" => y \in Nat
    BY BulkAssumption DEF Args
  <2>4. Trusted(c) => IsCall(c)
    BY <2>1, <2>2, <2>3, TargetArrayIs DEF IsCall, OneSource
  <2> QED BY <1>0, <1>1, <2>4 DEF c
<1>2. ASSUME NEW op \in Ops2, NEW d \in TargetArrays(op), NEW a \in SourceArrays(op),
             NEW y \in Args(op), NEW held \in BOOLEAN,
             Call(Arguments(op, d, a, NoArray, NoArray, <<>>, y, held))
      PROVE  Goal
  <2> DEFINE c == Arguments(op, d, a, NoArray, NoArray, <<>>, y, held)
  <2>1. /\ c.op = op /\ c.dst = d /\ c.a = a /\ c.b = NoArray /\ c.arg = y
    BY DEF Arguments
  <2> HIDE DEF c
  <2>2. op \in OneSource /\ op \notin TwoSources \cup Indexed \cup {"nontemporal"}
    BY DEF OneSource, TwoSources, Indexed, Ops2, OpsIndexed
  <2>3. op = "flip" => y \in Nat
    BY DEF Args
  <2>4. Trusted(c) => IsCall(c)
    BY <2>1, <2>2, <2>3, TargetArrayIs, SourceArrayIs DEF IsCall
  <2> QED BY <1>0, <1>2, <2>4 DEF c
<1>3. ASSUME NEW d \in TargetArrays("zip"), NEW a \in SourceArrays("zip"), NEW held \in BOOLEAN,
             NEW b \in Seconds(a),
             Call(Arguments("zip", d, a, b, NoArray, <<>>, 0, held))
      PROVE  Goal
  <2> DEFINE c == Arguments("zip", d, a, b, NoArray, <<>>, 0, held)
  <2>1. /\ c.op = "zip" /\ c.dst = d /\ c.a = a /\ c.b = b
    BY DEF Arguments
  <2> HIDE DEF c
  <2>2. "zip" \in OneSource /\ "zip" \in TwoSources /\ "zip" \notin Indexed
    BY DEF OneSource, TwoSources, Indexed, OpsIndexed
  <2>3. Trusted(c) => IsCall(c)
    BY <2>1, <2>2, TargetArrayIs, SourceArrayIs, SecondIs DEF IsCall
  <2> QED BY <1>0, <1>3, <2>3 DEF c
<1>4. ASSUME NEW d \in TargetArrays("where"), NEW a \in SourceArrays("where"), NEW list \in Lists,
             NEW b \in Seconds(a), NEW m \in Numbers(list),
             Call(Arguments("where", d, a, b, m, list, 0, FALSE))
      PROVE  Goal
  <2> DEFINE c == Arguments("where", d, a, b, m, list, 0, FALSE)
  <2>1. /\ c.op = "where" /\ c.dst = d /\ c.a = a /\ c.b = b /\ c.m = m /\ c.list = list
    BY DEF Arguments
  <2> HIDE DEF c
  <2>2. "where" \in OneSource /\ "where" \in TwoSources
    BY DEF OneSource, TwoSources
  <2>3. Trusted(c) => IsCall(c)
    BY <2>1, <2>2, TargetArrayIs, SourceArrayIs, SecondIs, NumbersAre DEF IsCall
  <2> QED BY <1>0, <1>4, <2>3 DEF c
<1>5. ASSUME NEW op \in OpsIndexed, NEW list \in Lists, NEW d \in TargetArrays(op),
             NEW a \in SourceArrays(op), NEW m \in Numbers(list), NEW held \in BOOLEAN,
             Call(Arguments(op, d, a, NoArray, m, list, 0, held))
      PROVE  Goal
  <2> DEFINE c == Arguments(op, d, a, NoArray, m, list, 0, held)
  <2>1. /\ c.op = op /\ c.dst = d /\ c.a = a /\ c.b = NoArray /\ c.m = m /\ c.list = list
    BY DEF Arguments
  <2> HIDE DEF c
  <2>2. op \in OneSource /\ op \notin TwoSources \cup {"flip", "nontemporal"}
    BY DEF OneSource, TwoSources, OpsIndexed
  <2>3. Trusted(c) => IsCall(c)
    BY <2>1, <2>2, TargetArrayIs, SourceArrayIs, NumbersAre DEF IsCall
  <2> QED BY <1>0, <1>5, <2>3 DEF c
<1> HIDE DEF Goal
<1>6. Goal
  <2>1. CASE \E op \in Ops1 : \E d \in TargetArrays(op), y \in Args(op), held \in BOOLEAN :
               Call(Arguments(op, d, NoArray, NoArray, NoArray, <<>>, y, held))
    BY <1>1, <2>1
  <2>2. CASE \E op \in Ops2 : \E d \in TargetArrays(op), a \in SourceArrays(op),
                               y \in Args(op), held \in BOOLEAN :
               Call(Arguments(op, d, a, NoArray, NoArray, <<>>, y, held))
    BY <1>2, <2>2
  <2>3. CASE \E d \in TargetArrays("zip"), a \in SourceArrays("zip"), held \in BOOLEAN :
               \E b \in Seconds(a) : Call(Arguments("zip", d, a, b, NoArray, <<>>, 0, held))
    BY <1>3, <2>3
  <2>4. CASE \E d \in TargetArrays("where"), a \in SourceArrays("where"), list \in Lists :
               \E b \in Seconds(a), m \in Numbers(list) :
                 Call(Arguments("where", d, a, b, m, list, 0, FALSE))
    BY <1>4, <2>4
  <2>5. CASE \E op \in OpsIndexed, list \in Lists :
               \E d \in TargetArrays(op), a \in SourceArrays(op), m \in Numbers(list),
                  held \in BOOLEAN : Call(Arguments(op, d, a, NoArray, m, list, 0, held))
    BY <1>5, <2>5
  <2> QED BY <2>1, <2>2, <2>3, <2>4, <2>5, Zenon DEF Invoke
<1> QED BY <1>6 DEF Goal

---------------------------------------------------------------------------
\* The checks are a sequence whose errors are errors.
Errors ==
  {"DTypeMismatch", "ShapeMismatch", "NonContiguous", "ReadOnly", "Internal", "InvalidCast"}
OneCheck == [bad : BOOLEAN, error : Errors]

\* Each check is one: a condition and an error.
LEMMA EachIs ==
  /\ \A x, t : SameType(x, t) \in OneCheck
  /\ \A x, y : SameLen(x, y) \in OneCheck /\ SameShape(x, y) \in OneCheck
  /\ \A x : Contiguous(x) \in OneCheck /\ Writeable(x) \in OneCheck
  /\ \A p : MustHold(p) \in OneCheck
  /\ \A c : Check(~DT!CanCast(c.a.dtype, c.dst.dtype, CastMode(c)), "InvalidCast") \in OneCheck
  /\ \A c : Check(c.a.dtype \notin {"F32", "F64"}, "DTypeMismatch") \in OneCheck
BY DEF Check, SameType, SameLen, SameShape, Contiguous, Writeable, MustHold, Errors, OneCheck

\* Checks after checks.
LEMMA Joined ==
  ASSUME NEW s \in Seq(OneCheck), NEW t \in Seq(OneCheck)
  PROVE  s \o t \in Seq(OneCheck)
OBVIOUS

\* The checks of an operation are a sequence of such.
LEMMA ChecksAre ==
  ASSUME NEW c
  PROVE  Checks(c) \in Seq(OneCheck)
<1>1. CopyChecks(c) \in Seq(OneCheck) /\ MapChecks(c) \in Seq(OneCheck)
  BY EachIs DEF CopyChecks, MapChecks
<1>2. /\ FillRawChecks(c) \in Seq(OneCheck)
      /\ FillChecks(c) \in Seq(OneCheck)
      /\ FillZeroChecks(c) \in Seq(OneCheck)
      /\ FillOneChecks(c) \in Seq(OneCheck)
      /\ InplaceChecks(c) \in Seq(OneCheck)
      /\ NontemporalChecks(c) \in Seq(OneCheck)
  BY EachIs DEF FillRawChecks, FillChecks, FillZeroChecks, FillOneChecks, InplaceChecks,
                NontemporalChecks
<1>3. ClipChecks(c) \in Seq(OneCheck) /\ ZipChecks(c) \in Seq(OneCheck)
  BY EachIs DEF ClipChecks, ZipChecks
<1>4. /\ FlipChecks(c) \in Seq(OneCheck)
      /\ TriChecks(c) \in Seq(OneCheck)
      /\ DiagonalChecks(c) \in Seq(OneCheck)
  BY EachIs DEF FlipChecks, TriChecks, DiagonalChecks
<1>5. GatherChecks(c) \in Seq(OneCheck) /\ ScatterChecks(c) \in Seq(OneCheck)
  BY EachIs DEF GatherChecks, ScatterChecks, IndexChecks
<1>6. AbsChecks(c) \in Seq(OneCheck) /\ NegChecks(c) \in Seq(OneCheck)
  BY <1>1 DEF AbsChecks, NegChecks
<1>7. SqrtChecks(c) \in Seq(OneCheck)
  <2>1. <<Check(c.a.dtype \notin {"F32", "F64"}, "DTypeMismatch")>> \in Seq(OneCheck)
    BY EachIs
  <2> QED BY <1>1, <2>1, Joined DEF SqrtChecks
<1>8. CastChecks(c) \in Seq(OneCheck)
  <2> DEFINE rest == IF c.a.dtype = c.dst.dtype THEN CopyChecks(c)
                     ELSE <<Check(~DT!CanCast(c.a.dtype, c.dst.dtype, CastMode(c)), "InvalidCast"),
                            Writeable(c.dst)>>
  <2>1. <<SameLen(c.a, c.dst)>> \in Seq(OneCheck)
    BY EachIs
  <2>2. <<Check(~DT!CanCast(c.a.dtype, c.dst.dtype, CastMode(c)), "InvalidCast"), Writeable(c.dst)>>
          \in Seq(OneCheck)
    BY EachIs
  <2>3. rest \in Seq(OneCheck)
    BY <1>1, <2>2
  <2>4. CastChecks(c) = <<SameLen(c.a, c.dst)>> \o rest
    BY DEF CastChecks
  <2> HIDE DEF rest
  <2> QED BY <2>1, <2>3, <2>4, Joined
<1>9. WhereChecks(c) \in Seq(OneCheck)
  <2> DEFINE first == <<SameType(c.m, "U8")>>
             second == <<SameType(c.a, T), SameShape(c.a, c.m), Contiguous(c.a)>>
             third == <<SameType(c.b, T), SameShape(c.b, c.m), Contiguous(c.b)>>
             fourth == <<Writeable(c.dst), SameShape(c.dst, c.m)>>
  <2>1. /\ first \in Seq(OneCheck) /\ second \in Seq(OneCheck)
        /\ third \in Seq(OneCheck) /\ fourth \in Seq(OneCheck)
    BY EachIs
  <2>2. WhereChecks(c) = first \o second \o third \o fourth
    BY DEF WhereChecks
  <2> HIDE DEF first, second, third, fourth
  <2>3. first \o second \in Seq(OneCheck)
    BY <2>1, Joined
  <2>4. first \o second \o third \in Seq(OneCheck)
    BY <2>1, <2>3, Joined
  <2>5. (first \o second \o third) \o fourth \in Seq(OneCheck)
    BY <2>1, <2>4, Joined
  <2> QED BY <2>2, <2>5
<1>10. <<>> \in Seq(OneCheck)
  OBVIOUS
<1> QED BY <1>1, <1>2, <1>3, <1>4, <1>5, <1>6, <1>7, <1>8, <1>9, <1>10 DEF Checks

\* What a call that fails returns is an error.
LEMMA RefusedWithError ==
  ASSUME NEW c, Failing(c) # {}
  PROVE  Checks(c)[Min(Failing(c))].error \in Errors
<1>1. Failing(c) \in SUBSET Nat /\ Failing(c) \subseteq DOMAIN Checks(c)
  BY ChecksAre DEF Failing
<1>2. PICK e \in Failing(c) : \A j \in Failing(c) : e <= j
  BY <1>1, Least
<1>3. Min(Failing(c)) \in Failing(c)
  BY <1>2 DEF Min
<1> DEFINE s == Checks(c)
           k == Min(Failing(c))
<1>4. s \in Seq(OneCheck) /\ k \in DOMAIN s
  BY <1>1, <1>3, ChecksAre
<1> HIDE DEF s, k
<1>5. s[k] \in OneCheck
  BY <1>4
<1> QED BY <1>5 DEF OneCheck, s, k

---------------------------------------------------------------------------
\* A call begins with arguments of Layouts, whatever its target.
LEMMA BeginsStep ==
  ASSUME Begins, [BulkNext]_bulkVars
  PROVE  Begins'
<1> USE DEF Begins
<1>1. CASE Invoke
  BY <1>1, InvokeIsCall
<1>2. CASE Refuse
  BY <1>2 DEF Refuse
<1>3. CASE StartInPlace \/ StartOnCopy
  BY <1>3 DEF StartInPlace, StartOnCopy, Start
<1>4. CASE StartFails
  BY <1>4 DEF StartFails
<1>5. ASSUME NEW i \in todo, Write(i) PROVE Begins'
  <2>1. stage = "working" /\ stage' = stage /\ call' = call
    BY <1>5 DEF Write
  <2> QED BY <2>1
<1>6. CASE Finish
  BY <1>6 DEF Finish
<1>7. CASE Return
  BY <1>7 DEF Return
<1>8. CASE UNCHANGED bulkVars
  BY <1>8 DEF bulkVars
<1> QED BY <1>1, <1>2, <1>3, <1>4, <1>5, <1>6, <1>7, <1>8 DEF BulkNext

\* Every step of BulkOps keeps BulkInv.
LEMMA BulkStep ==
  ASSUME BulkInv, [BulkNext]_bulkVars
  PROVE  BulkInv'
<1>0. Begins /\ Begins'
  BY BeginsStep DEF BulkInv
<1> SUFFICES ASSUME Gapless(call') PROVE Goes'
  BY <1>0 DEF BulkInv
<1>a. call' = call => Begins /\ Goes /\ Gapless(call)
  BY <1>0 DEF BulkInv
<1> USE DEF Goes, Begins
<1>1. CASE Invoke
  BY <1>1, InvokeIsCall DEF CallIsExact
<1>2. CASE Refuse
  <2>1. stage = "called" /\ stage' = "returned" /\ UNCHANGED <<call, dst, mem, todo>>
    BY <1>2 DEF Refuse
  <2>2. result' \in Errors
    BY <1>2, RefusedWithError DEF Refuse
  <2>3. result' # "Ok"
    BY <2>2 DEF Errors
  <2> QED BY <1>0, <2>1, <2>3 DEF CallIsExact
<1>3. ASSUME Start, stage' = "working", todo' = Tasks(call), UNCHANGED <<call, result>>,
             stage = "called", Failing(call) = {}, IsTarget(call, dst'),
             mem' = IF Copies(call)
                      THEN [Initially(call) EXCEPT !["new"] =
                              [i \in Elements(call.dst) |-> At(Initially(call), call.dst, i)]]
                      ELSE Initially(call)
      PROVE  Goes'
  <2>1. IsCall(call)
    BY <1>0, <1>3
  <2>2. RestKept(call, dst', mem') /\ Written(call, dst', mem', {})
    BY <1>3, <2>1, Begun
  <2>3. Tasks(call) \ todo' = {} /\ todo' \subseteq Tasks(call)
    BY <1>3
  <2>4. Working'
    BY <1>3, <2>2, <2>3 DEF Working
  <2> QED BY <1>3, <2>1, <2>4 DEF CallIsExact
<1>4. CASE StartInPlace
  BY <1>0, <1>3, <1>4 DEF StartInPlace, Start, IsTarget
<1>5. CASE StartOnCopy
  BY <1>0, <1>3, <1>5 DEF StartOnCopy, Start, IsTarget
<1>6. CASE StartFails
  BY <1>0, <1>6 DEF StartFails, CallIsExact
<1>7. ASSUME NEW i \in todo, Write(i) PROVE Goes'
  <2>1. /\ stage = "working" /\ UNCHANGED <<stage, call, dst, result>>
        /\ todo' = todo \ {i}
        /\ IsLoop(call, dst) => \A j \in todo : i <= j
        /\ mem' = [mem EXCEPT ![dst.blk] =
                     [p \in DOMAIN @ |-> IF p \in Target(call, dst, mem, i)
                                          THEN Kernel(call, dst, mem, i) ELSE @[p]]]
    BY <1>7 DEF Write
  <2>2. IsCall(call) /\ Working /\ Gapless(call)
    BY <1>a, <2>1
  <2> DEFINE S == Tasks(call) \ todo
  <2>3. /\ Failing(call) = {} /\ IsTarget(call, dst) /\ RestKept(call, dst, mem)
        /\ Written(call, dst, mem, S) /\ S \subseteq Tasks(call) /\ i \in Tasks(call) \ S
        /\ todo \subseteq Tasks(call)
        /\ call.op = "scatter" => \A j \in S, k \in todo : j < k
    BY <2>2 DEF Working
  <2>4. Tasks(call) \ todo' = S \cup {i} /\ todo' \subseteq Tasks(call)
    BY <2>1, <2>3
  <2> HIDE DEF S
  <2>5. RestKept(call, dst, mem') /\ Written(call, dst, mem', S \cup {i})
    <3>1. call.op = "scatter" => \A j \in S : j < i
      BY <2>3
    <3>2. mem' = [mem EXCEPT ![dst.blk] =
                    [p \in DOMAIN @ |-> IF p \in Target(call, dst, mem, i)
                                         THEN Kernel(call, dst, mem, i) ELSE @[p]]]
      BY <2>1
    <3>3. /\ IsCall(call) /\ Failing(call) = {} /\ IsTarget(call, dst) /\ RestKept(call, dst, mem)
          /\ Written(call, dst, mem, S) /\ S \subseteq Tasks(call) /\ i \in Tasks(call) \ S
          /\ Gapless(call)
      BY <2>2, <2>3
    <3> QED BY <3>1, <3>2, <3>3, TaskRuns
  <2>6. call.op = "scatter" => \A j \in S \cup {i}, k \in todo' : j < k
    <3>1. SUFFICES ASSUME call.op = "scatter", NEW k \in todo' PROVE i < k
      BY <2>1, <2>3
    <3>2. i <= k /\ i # k
      BY <2>1, <3>1 DEF IsLoop
    <3>3. Tasks(call) \subseteq Nat
      <4>1. Tasks(call) = Elements(call.a)
        BY <2>2, <3>1, TasksAre
      <4>2. call.a.shape \in Seq(Nat)
        BY <2>2, <3>1 DEF IsCall, OfLayout, OneSource, OpsIndexed
      <4> QED BY <4>1, <4>2, SizeIs
    <3>4. i \in Nat /\ k \in Nat
      BY <2>3, <2>4, <3>3
    <3> QED BY <3>2, <3>4
  <2>7. Working'
    BY <2>1, <2>3, <2>4, <2>5, <2>6 DEF Working
  <2> QED BY <2>1, <2>2, <2>7 DEF CallIsExact
<1>8. CASE Finish
  <2>1. /\ stage = "working" /\ todo = {} /\ stage' = "returned" /\ result' = "Ok"
        /\ UNCHANGED <<call, dst, mem>>
    BY <1>8 DEF Finish
  <2>2. IsCall(call) /\ Working /\ Gapless(call)
    BY <1>a, <2>1
  <2>3. Tasks(call) \ todo = Tasks(call)
    BY <2>1
  <2>4. /\ Failing(call) = {} /\ IsTarget(call, dst) /\ RestKept(call, dst, mem)
        /\ Written(call, dst, mem, Tasks(call))
    BY <2>2, <2>3 DEF Working
  <2>5. /\ \A i \in Elements(dst) : At(mem, dst, i) = Expected(call, i)
        /\ \A blk \in {"a", "b", "m"} : mem[blk] = Initially(call)[blk]
        /\ \A p \in Cells :
             \/ mem["d"][p] = Initially(call)["d"][p]
             \/ ~Shared(call) /\ ~OnCopy(call) /\ p \in {Pos(call.dst, i) : i \in Elements(dst)}
    BY <2>2, <2>4, Done
  <2>6. CallIsExact'
    BY <2>1, <2>5 DEF CallIsExact
  <2> QED BY <2>1, <2>2, <2>6
<1>9. CASE Return
  BY <1>9 DEF Return, CallIsExact
<1>10. CASE UNCHANGED bulkVars
  BY <1>a, <1>10 DEF bulkVars, Working, CallIsExact
<1> QED BY <1>1, <1>2, <1>4, <1>5, <1>6, <1>7, <1>8, <1>9, <1>10 DEF BulkNext

\* A call of ops.rs whose target, if it copies, casts or selects, has no gaps or is
\* replaced by a copy, and which keeps what the code takes on trust (Trusted),
\* leaves in every element of its target what its arguments determine as they were
\* when it began, if it succeeds, and changes nothing else; one that fails changes
\* nothing.  So it does for arguments of any layouts, whatever memory its sources
\* share with its target, and in whatever order its tasks run.
THEOREM BulkOpsExact ==
  BulkSpec => [](Gapless(call) => CallIsExact)
<1>1. BulkInit => BulkInv
  BY DEF BulkInit, BulkInv, Begins, Goes, CallIsExact
<1>2. BulkInv /\ [BulkNext]_bulkVars => BulkInv'
  BY BulkStep
<1>3. BulkInv => (Gapless(call) => CallIsExact)
  BY DEF BulkInv, Goes
<1> QED BY <1>1, <1>2, <1>3, PTL DEF BulkSpec
==============================================================================
