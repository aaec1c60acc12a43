---------------------------- MODULE Stream_proofs ----------------------------
(***************************************************************************)
(* What operator<< and to_stream of date.h print, from_stream reads back:  *)
(* every day of a walk by every format that names it, and every time point *)
(* by the clock, in every unit with exact decimal fractions, with the      *)
(* offsets of ParsesBack.                                                  *)
(*                                                                         *)
(* A conversion carries a number to a field when what it prints has the    *)
(* digits that it reads (OneNumber, Carries).  Such conversions leave the  *)
(* numbers of the date in the fields, and these name the date again, by    *)
(* whichever of the rules of from_stream applies to them.                  *)
(* Seconds are printed in the precision of the unit and rounded back; the  *)
(* offset moves the printed day by at most one and is taken away again.    *)
(***************************************************************************)
EXTENDS Calendar_proofs, Sums

(*****************************************************************************)
(* What recursive definitions of the model are worth: the digits of a number and*)
(* the powers of ten, by induction; and the widths of fractions.             *)
(*****************************************************************************)

\* The digits of the numbers up to m are those of a recursive function f.
DigitsTo(f, m) == \A k \in 0 .. m : f[k] = IF k < 10 THEN 1 ELSE 1 + f[k \div 10]

\* There is one such function on the numbers both are about.
LEMMA DigitsOnce ==
  ASSUME NEW m \in Nat, NEW n \in Nat, NEW f, NEW g, DigitsTo(f, m), DigitsTo(g, n),
         NEW k \in Nat, k <= m, k <= n
  PROVE  f[k] = g[k]
<1> DEFINE S == {i \in Nat : i <= m /\ i <= n /\ f[i] # g[i]}
<1>1. ASSUME S # {} PROVE FALSE
  <2>1. PICK i \in S : \A j \in S : i <= j
    <3>1. S \subseteq Nat
      OBVIOUS
    <3> HIDE DEF S
    <3> QED BY <1>1, <3>1, LeastNumber
  <2>2. i >= 10
    BY <2>1 DEF DigitsTo
  <2>3. i \div 10 \in Nat /\ i \div 10 < i
    BY <2>1, <2>2, SMT
  <2>4. f[i \div 10] = g[i \div 10]
    BY <2>1, <2>3
  <2>5. f[i] = 1 + f[i \div 10] /\ g[i] = 1 + g[i \div 10]
    BY <2>1, <2>2 DEF DigitsTo
  <2> QED BY <2>1, <2>4, <2>5
<1> QED BY <1>1

\* There is one for every bound.
LEMMA DigitsExist == ASSUME NEW m \in Nat PROVE \E f : DigitsTo(f, m)
<1> DEFINE S == {n \in Nat : \E f : DigitsTo(f, n)}
<1>1. 0 \in S
  <2>1. DigitsTo([k \in {0} |-> 1], 0)
    BY DEF DigitsTo
  <2> QED BY <2>1
<1>2. ASSUME NEW n \in Nat, n \in S PROVE n + 1 \in S
  <2>1. PICK f : DigitsTo(f, n)
    BY <1>2
  <2> DEFINE g == [k \in 0 .. n + 1 |-> IF k <= n THEN f[k]
                                        ELSE IF k < 10 THEN 1 ELSE 1 + f[k \div 10]]
  <2>2. ASSUME NEW k \in 0 .. n + 1
        PROVE  g[k] = IF k < 10 THEN 1 ELSE 1 + g[k \div 10]
    <3>1. k >= 10 => k \div 10 \in 0 .. n /\ k \div 10 \in 0 .. n + 1 /\ k \div 10 <= n
      BY SMT
    <3>2. CASE k <= n
      BY <2>1, <3>1, <3>2 DEF DigitsTo
    <3>3. CASE k > n
      BY <3>1, <3>3
    <3> QED BY <3>2, <3>3
  <2>3. DigitsTo(g, n + 1)
    BY <2>2 DEF DigitsTo
  <2> QED BY <2>3
<1>3. Nat \subseteq S
  <2> HIDE DEF S
  <2> QED BY <1>1, <1>2, NumberInduction
<1> QED BY <1>3

\* Every digit but one is one of what is left without it.
LEMMA Digits ==
  ASSUME NEW n \in Int
  PROVE  /\ DigitsOf(n) = IF Magnitude(n) < 10 THEN 1 ELSE 1 + DigitsOf(Magnitude(n) \div 10)
         /\ DigitsOf(n) \in Nat
<1> DEFINE F(f) == f = [k \in Nat |-> IF k < 10 THEN 1 ELSE 1 + f[k \div 10]]
           digits == CHOOSE f : F(f)
           to(k) == CHOOSE f : DigitsTo(f, k)
           h == [k \in Nat |-> to(k)[k]]
<1>1. ASSUME NEW k \in Nat PROVE h[k] = IF k < 10 THEN 1 ELSE 1 + h[k \div 10]
  <2>1. DigitsTo(to(k), k) /\ k \in 0 .. k
    BY DigitsExist
  <2>2. CASE k < 10
    BY <2>1, <2>2 DEF DigitsTo
  <2>3. CASE k >= 10
    <3> DEFINE j == k \div 10
    <3>1. j \in Nat /\ j <= k
      BY <2>3, SMT
    <3>2. DigitsTo(to(j), j)
      BY <3>1, DigitsExist
    <3>3. to(k)[j] = to(j)[j]
      <4> HIDE DEF to, j
      <4> QED BY <2>1, <3>1, <3>2, DigitsOnce
    <3>4. to(k)[k] = 1 + to(k)[j]
      BY <2>1, <2>3 DEF DigitsTo
    <3> QED BY <2>3, <3>1, <3>3, <3>4
  <2> QED BY <2>2, <2>3
<1>2. F(h)
  <2>1. h = [k \in Nat |-> h[k]]
    OBVIOUS
  <2> HIDE DEF h
  <2> QED BY <1>1, <2>1
<1>3. F(digits)
  <2> HIDE DEF F, h
  <2> QED BY <1>2
<1>5. \A k \in Int : DigitsOf(k) = digits[Magnitude(k)]
  BY DEF DigitsOf
<1> HIDE DEF digits
<1>4. \A k \in Nat : digits[k] = IF k < 10 THEN 1 ELSE 1 + digits[k \div 10]
  BY <1>3
<1> DEFINE S == {k \in Nat : \A i \in 0 .. k : digits[i] \in Nat}
<1>6. 0 \in S
  BY <1>4
<1>7. ASSUME NEW k \in Nat, k \in S PROVE k + 1 \in S
  <2>1. k + 1 >= 10 => (k + 1) \div 10 \in 0 .. k
    BY SMT
  <2>2. digits[k + 1] \in Nat
    BY <1>4, <1>7, <2>1
  <2> QED BY <1>7, <2>2
<1>8. \A k \in Nat : digits[k] \in Nat
  <2>1. Nat \subseteq S
    <3> HIDE DEF S
    <3> QED BY <1>6, <1>7, NumberInduction
  <2> QED BY <2>1
<1>9. Magnitude(n) \in Nat /\ Magnitude(n) \div 10 \in Nat
  BY SMT DEF Magnitude
<1>10. Magnitude(Magnitude(n) \div 10) = Magnitude(n) \div 10
  BY <1>9 DEF Magnitude
<1> QED BY <1>4, <1>5, <1>8, <1>9, <1>10

\* How many digits a number has, for those of up to four.
LEMMA FewDigits ==
  ASSUME NEW n \in Int
  PROVE  /\ Magnitude(n) < 10 => DigitsOf(n) = 1
         /\ Magnitude(n) < 100 => DigitsOf(n) <= 2
         /\ Magnitude(n) < 1000 => DigitsOf(n) <= 3
         /\ Magnitude(n) < 10000 => DigitsOf(n) <= 4
         /\ DigitsOf(n) \in Nat
<1> DEFINE a == Magnitude(n)
           b == a \div 10
           c == b \div 10
           d == c \div 10
<1>1. /\ a \in Nat /\ b \in Nat /\ c \in Nat /\ d \in Nat
      /\ a < 100 => b < 10
      /\ a < 1000 => b < 100 /\ c < 10
      /\ a < 10000 => b < 1000 /\ c < 100 /\ d < 10
  BY SMT DEF Magnitude
<1>2. Magnitude(b) = b /\ Magnitude(c) = c /\ Magnitude(d) = d
  <2> HIDE DEF a, b, c, d
  <2> QED BY <1>1 DEF Magnitude
<1>3. /\ DigitsOf(n) = IF a < 10 THEN 1 ELSE 1 + DigitsOf(b)
      /\ DigitsOf(n) \in Nat
  BY Digits
<1>4. /\ DigitsOf(b) = IF b < 10 THEN 1 ELSE 1 + DigitsOf(c)
      /\ DigitsOf(c) = IF c < 10 THEN 1 ELSE 1 + DigitsOf(d)
      /\ DigitsOf(d) = IF d < 10 THEN 1 ELSE 1 + DigitsOf(d \div 10)
  <2> HIDE DEF a, b, c, d
  <2>1. DigitsOf(b) = IF Magnitude(b) < 10 THEN 1 ELSE 1 + DigitsOf(Magnitude(b) \div 10)
    BY <1>1, Digits
  <2>2. DigitsOf(c) = IF Magnitude(c) < 10 THEN 1 ELSE 1 + DigitsOf(Magnitude(c) \div 10)
    BY <1>1, Digits
  <2>3. DigitsOf(d) = IF Magnitude(d) < 10 THEN 1 ELSE 1 + DigitsOf(Magnitude(d) \div 10)
    BY <1>1, Digits
  <2> QED BY <1>2, <2>1, <2>2, <2>3 DEF c, d
<1> HIDE DEF b, c, d
<1>5. /\ a < 100 => DigitsOf(n) <= 2
      /\ a < 1000 => DigitsOf(n) <= 3
      /\ a < 10000 => DigitsOf(n) <= 4
  <2> HIDE DEF a
  <2> QED BY <1>1, <1>3, <1>4
<1> QED BY <1>3, <1>5


-----------------------------------------------------------------------------
\* The powers of 10 up to exponent m are those of a recursive function f.
PowersTo(f, m) ==
  \A e \in 0 .. m : f[e] = IF e = 0 THEN 1
                           ELSE f[e \div 2] * f[e \div 2] * (IF e % 2 = 1 THEN 10 ELSE 1)

\* There is one such function on the numbers both are about.
LEMMA PowersOnce ==
  ASSUME NEW m \in Nat, NEW n \in Nat, NEW f, NEW g, PowersTo(f, m), PowersTo(g, n),
         NEW e \in Nat, e <= m, e <= n
  PROVE  f[e] = g[e]
<1> DEFINE S == {i \in Nat : i <= m /\ i <= n /\ f[i] # g[i]}
<1>1. ASSUME S # {} PROVE FALSE
  <2>1. PICK i \in S : \A j \in S : i <= j
    <3>1. S \subseteq Nat
      OBVIOUS
    <3> HIDE DEF S
    <3> QED BY <1>1, <3>1, LeastNumber
  <2>2. i # 0
    BY <2>1 DEF PowersTo
  <2>3. i \div 2 \in Nat /\ i \div 2 < i
    BY <2>1, <2>2, SMT
  <2>4. f[i \div 2] = g[i \div 2]
    BY <2>1, <2>3
  <2>5. /\ f[i] = f[i \div 2] * f[i \div 2] * (IF i % 2 = 1 THEN 10 ELSE 1)
        /\ g[i] = g[i \div 2] * g[i \div 2] * (IF i % 2 = 1 THEN 10 ELSE 1)
    BY <2>1, <2>2 DEF PowersTo
  <2> QED BY <2>1, <2>4, <2>5
<1> QED BY <1>1

\* There is one for every bound.
LEMMA PowersExist == ASSUME NEW m \in Nat PROVE \E f : PowersTo(f, m)
<1> DEFINE S == {n \in Nat : \E f : PowersTo(f, n)}
<1>1. 0 \in S
  <2>1. PowersTo([e \in {0} |-> 1], 0)
    BY DEF PowersTo
  <2> QED BY <2>1
<1>2. ASSUME NEW n \in Nat, n \in S PROVE n + 1 \in S
  <2>1. PICK f : PowersTo(f, n)
    BY <1>2
  <2> DEFINE of(e) == f[e \div 2] * f[e \div 2] * (IF e % 2 = 1 THEN 10 ELSE 1)
             g == [e \in 0 .. n + 1 |-> IF e <= n THEN f[e] ELSE of(e)]
  <2>2. ASSUME NEW e \in 0 .. n + 1
        PROVE  g[e] = IF e = 0 THEN 1
                      ELSE g[e \div 2] * g[e \div 2] * (IF e % 2 = 1 THEN 10 ELSE 1)
    <3>1. e # 0 => e \div 2 \in 0 .. n /\ e \div 2 \in 0 .. n + 1 /\ e \div 2 <= n
      BY SMT
    <3>2. e # 0 => g[e \div 2] = f[e \div 2]
      BY <3>1
    <3>3. CASE e <= n
      <4>1. f[e] = IF e = 0 THEN 1 ELSE of(e)
        BY <2>1, <3>3 DEF PowersTo
      <4>2. g[e] = f[e]
        BY <3>3
      <4> HIDE DEF g
      <4> QED BY <3>2, <4>1, <4>2
    <3>4. CASE e > n
      <4>1. g[e] = of(e) /\ e # 0
        BY <3>4
      <4> HIDE DEF g
      <4> QED BY <3>2, <4>1
    <3> QED BY <3>3, <3>4
  <2>3. PowersTo(g, n + 1)
    BY <2>2 DEF PowersTo
  <2> QED BY <2>3
<1>3. Nat \subseteq S
  <2> HIDE DEF S
  <2> QED BY <1>1, <1>2, NumberInduction
<1> QED BY <1>3

\* Powers of ten are positive numbers.
LEMMA Powers ==
  /\ \A e \in Nat : Pow10[e] \in Nat /\ Pow10[e] > 0
  /\ Pow10[0] = 1
<1> DEFINE F(f) == f = [e \in Nat |-> IF e = 0 THEN 1
                           ELSE f[e \div 2] * f[e \div 2] * (IF e % 2 = 1 THEN 10 ELSE 1)]
           to(k) == CHOOSE f : PowersTo(f, k)
           h == [k \in Nat |-> to(k)[k]]
<1>1. ASSUME NEW k \in Nat
      PROVE  h[k] = IF k = 0 THEN 1
                    ELSE h[k \div 2] * h[k \div 2] * (IF k % 2 = 1 THEN 10 ELSE 1)
  <2>1. PowersTo(to(k), k) /\ k \in 0 .. k
    BY PowersExist
  <2>2. CASE k = 0
    BY <2>1, <2>2 DEF PowersTo
  <2>3. CASE k # 0
    <3> DEFINE j == k \div 2
    <3>1. j \in Nat /\ j <= k
      BY <2>3, SMT
    <3>2. PowersTo(to(j), j)
      BY <3>1, PowersExist
    <3>3. to(k)[j] = to(j)[j]
      <4> HIDE DEF to, j
      <4> QED BY <2>1, <3>1, <3>2, PowersOnce
    <3>4. to(k)[k] = to(k)[j] * to(k)[j] * (IF k % 2 = 1 THEN 10 ELSE 1)
      BY <2>1, <2>3 DEF PowersTo
    <3>5. h[k] = to(k)[k] /\ h[j] = to(j)[j]
      BY <3>1
    <3> HIDE DEF h, to
    <3> QED BY <2>3, <3>3, <3>4, <3>5
  <2> QED BY <2>2, <2>3
<1>2. F(h)
  <2>1. h = [k \in Nat |-> h[k]]
    OBVIOUS
  <2> HIDE DEF h
  <2> QED BY <1>1, <2>1
<1>3. F(Pow10)
  <2>1. Pow10 = CHOOSE f : F(f)
    BY DEF Pow10
  <2> HIDE DEF F, h
  <2> QED BY <1>2, <2>1
<1>4. \A e \in Nat : Pow10[e] = IF e = 0 THEN 1
        ELSE Pow10[e \div 2] * Pow10[e \div 2] * (IF e % 2 = 1 THEN 10 ELSE 1)
  BY <1>3
<1> DEFINE S == {k \in Nat : \A i \in 0 .. k : Pow10[i] \in Nat /\ Pow10[i] > 0}
<1>5. 0 \in S
  BY <1>4
<1>6. ASSUME NEW k \in Nat, k \in S PROVE k + 1 \in S
  <2> DEFINE j == (k + 1) \div 2
  <2>1. j \in 0 .. k
    BY SMT
  <2>2. Pow10[j] \in Nat /\ Pow10[j] > 0
    BY <1>6, <2>1
  <2>3. Pow10[k + 1] = Pow10[j] * Pow10[j] * (IF (k + 1) % 2 = 1 THEN 10 ELSE 1)
    BY <1>4
  <2> HIDE DEF j
  <2>4. Pow10[j] * Pow10[j] \in Nat /\ Pow10[j] * Pow10[j] > 0
    BY <2>2
  <2>5. Pow10[k + 1] \in Nat /\ Pow10[k + 1] > 0
    BY <2>3, <2>4
  <2> QED BY <1>6, <2>5
<1>7. Nat \subseteq S
  <2> HIDE DEF S
  <2> QED BY <1>5, <1>6, NumberInduction
<1> QED BY <1>4, <1>7

\* The digits of 1/n, after w of them.
LEMMA WidthIsNat == ASSUME NEW n \in Nat PROVE Width(n) \in Nat /\ (n < 2 => Width(n) = 0)
<1> DEFINE Dom == Nat \X (0 .. 19)
           of(f, p) == IF n < 2 \/ p[1] = 0 \/ p[2] = 19 THEN 0
                       ELSE 1 + f[<<(p[1] % n) * 10, p[2] + 1>>]
           F(f) == f = [p \in Dom |-> of(f, p)]
           From(w) == Nat \X (w .. 19)
           G(f, w) == \A p \in From(w) : f[p] = of(f, p) /\ f[p] \in Nat
           S == {k \in Nat : k <= 19 => \E f : G(f, 19 - k)}
<1>1. 0 \in S
  <2>1. G([p \in From(19) |-> 0], 19)
    OBVIOUS
  <2> HIDE DEF G
  <2> QED BY <2>1
<1>2. ASSUME NEW k \in Nat, k \in S PROVE k + 1 \in S
  <2> SUFFICES ASSUME k + 1 <= 19 PROVE \E f : G(f, 19 - (k + 1))
    OBVIOUS
  <2> DEFINE w == 19 - k
  <2>1. PICK f : G(f, w)
    BY <1>2
  <2> DEFINE g == [p \in From(w - 1) |-> IF p[2] >= w THEN f[p] ELSE of(f, p)]
  <2>2. w \in 1 .. 19 /\ w - 1 = 19 - (k + 1)
    OBVIOUS
  <2> HIDE DEF w
  <2>3. ASSUME NEW p \in From(w - 1) PROVE g[p] = of(g, p) /\ g[p] \in Nat
    <3> DEFINE q == <<(p[1] % n) * 10, p[2] + 1>>
    <3>1. p[1] \in Nat /\ p[2] \in w - 1 .. 19
      OBVIOUS
    <3>2. n >= 2 /\ p[2] # 19 => /\ q \in From(w) /\ q \in From(w - 1) /\ q[2] >= w
      <4>1. n >= 2 => (p[1] % n) * 10 \in Nat
        BY <3>1
      <4> QED BY <2>2, <3>1, <4>1
    <3>3. n >= 2 /\ p[2] # 19 => g[q] = f[q] /\ f[q] \in Nat
      BY <2>1, <3>2
    <3>4. of(g, p) = of(f, p) /\ of(f, p) \in Nat
      <4> HIDE DEF g
      <4> QED BY <3>3
    <3>5. CASE p[2] >= w
      <4>1. p \in From(w)
        BY <2>2, <3>1, <3>5
      <4>2. g[p] = f[p] /\ f[p] = of(f, p)
        BY <2>1, <3>5, <4>1
      <4> HIDE DEF g, of
      <4> QED BY <3>4, <4>2
    <3>6. CASE ~ (p[2] >= w)
      <4>1. g[p] = of(f, p)
        BY <3>6
      <4> HIDE DEF g, of
      <4> QED BY <3>4, <4>1
    <3> QED BY <3>5, <3>6
  <2>4. G(g, w - 1)
    BY <2>3
  <2> HIDE DEF G, g
  <2> QED BY <2>2, <2>4
<1>3. Nat \subseteq S
  <2> HIDE DEF S
  <2> QED BY <1>1, <1>2, NumberInduction
<1>4. \E f : G(f, 0)
  <2>1. 19 \in S
    BY <1>3
  <2> HIDE DEF G
  <2> QED BY <2>1
<1> DEFINE width == CHOOSE f : F(f)
<1>5. F(width)
  <2>1. PICK f : G(f, 0)
    BY <1>4
  <2> DEFINE g == [p \in Dom |-> f[p]]
  <2>2. ASSUME NEW p \in Dom PROVE g[p] = of(g, p)
    <3> DEFINE q == <<(p[1] % n) * 10, p[2] + 1>>
    <3>1. n >= 2 /\ p[2] # 19 => q \in Dom
      <4>1. p[1] \in Nat /\ p[2] \in 0 .. 19
        OBVIOUS
      <4>2. n >= 2 => (p[1] % n) * 10 \in Nat
        BY <4>1
      <4> QED BY <4>1, <4>2
    <3>2. f[p] = of(f, p)
      BY <2>1
    <3>3. g[p] = f[p] /\ (n >= 2 /\ p[2] # 19 => g[q] = f[q])
      BY <3>1
    <3>4. p[2] \in Nat
      OBVIOUS
    <3> HIDE DEF g
    <3> QED BY <3>2, <3>3, <3>4
  <2>3. F(g)
    BY <2>2
  <2> HIDE DEF F, g
  <2> QED BY <2>3
<1>6. Width(n) = width[<<10, 0>>]
  BY DEF Width
<1> HIDE DEF width
<1>7. \A p \in Dom : width[p] = of(width, p)
  BY <1>5
<1> DEFINE T == {k \in Nat : k <= 19 => \A d \in Nat : width[<<d, 19 - k>>] \in Nat}
<1>8. 0 \in T
  <2>1. ASSUME NEW d \in Nat PROVE width[<<d, 19>>] = 0
    <3> DEFINE p == <<d, 19>>
    <3>1. p \in Dom /\ p[2] = 19
      OBVIOUS
    <3>2. width[p] = of(width, p)
      BY <1>7, <3>1
    <3> HIDE DEF p
    <3>3. width[p] = 0
      BY <3>1, <3>2
    <3> QED BY <3>3 DEF p
  <2> QED BY <2>1
<1>9. ASSUME NEW k \in Nat, k \in T PROVE k + 1 \in T
  <2> SUFFICES ASSUME k + 1 <= 19, NEW d \in Nat
               PROVE  width[<<d, 19 - (k + 1)>>] \in Nat
    OBVIOUS
  <2> DEFINE p == <<d, 19 - (k + 1)>>
             q == <<(d % n) * 10, 19 - k>>
  <2>1. p \in Dom /\ p[1] = d /\ p[2] = 19 - (k + 1) /\ p[2] + 1 = 19 - k
    OBVIOUS
  <2>2. n >= 2 => (d % n) * 10 \in Nat
    OBVIOUS
  <2>3. n >= 2 => width[q] \in Nat
    BY <1>9, <2>2
  <2>4. width[p] = of(width, p)
    BY <1>7, <2>1
  <2>5. <<(p[1] % n) * 10, p[2] + 1>> = q
    BY <2>1
  <2>6. width[p] = IF n < 2 \/ p[1] = 0 \/ p[2] = 19 THEN 0 ELSE 1 + width[q]
    <3> HIDE DEF p, q
    <3> QED BY <2>4, <2>5
  <2> QED BY <2>3, <2>6
<1>10. Nat \subseteq T
  <2> HIDE DEF T
  <2> QED BY <1>8, <1>9, NumberInduction
<1>11. width[<<10, 0>>] \in Nat
  <2>1. 19 \in T
    BY <1>10
  <2> QED BY <2>1
<1>12. n < 2 => width[<<10, 0>>] = 0
  <2>1. <<10, 0>> \in Dom
    OBVIOUS
  <2> QED BY <1>7, <2>1
<1> QED BY <1>6, <1>11, <1>12

\* A second has a whole number of parts in the precision.
LEMMA PrecisionIsNat ==
  ASSUME NEW u, PerSecond(u) \in Nat
  PROVE  /\ Precision(u) \in Nat /\ Precision(u) > 0
         /\ PerSecond(u) < 2 => Precision(u) = 1
<1>1. Width(PerSecond(u)) \in Nat /\ (PerSecond(u) < 2 => Width(PerSecond(u)) = 0)
  BY WidthIsNat
<1> QED BY <1>1, Powers DEF Precision

-----------------------------------------------------------------------------
\* The sequences of a sequence, one after the other.
LEMMA Flattened ==
  ASSUME NEW s, NEW n \in Nat \ {0}, Len(s) = n,
         NEW r, r[1] = s[1], \A i \in 2 .. n : r[i] = r[i - 1] \o s[i]
  PROVE  Seqs!FlattenSeq(s) = r[n]
<1> DEFINE F(f) == f = [i \in 1 .. n |-> IF i = 1 THEN s[i] ELSE f[i - 1] \o s[i]]
           flatten == CHOOSE f : F(f)
           g == [i \in 1 .. n |-> r[i]]
<1>1. F(g)
  <2>1. ASSUME NEW i \in 1 .. n PROVE r[i] = IF i = 1 THEN s[i] ELSE g[i - 1] \o s[i]
    <3>1. i # 1 => i \in 2 .. n /\ i - 1 \in 1 .. n
      OBVIOUS
    <3> QED BY <3>1
  <2>2. g = [i \in 1 .. n |-> g[i]] /\ \A i \in 1 .. n : g[i] = r[i]
    OBVIOUS
  <2> HIDE DEF g
  <2>3. \A i \in 1 .. n : g[i] = IF i = 1 THEN s[i] ELSE g[i - 1] \o s[i]
    BY <2>1, <2>2
  <2> QED BY <2>2, <2>3
<1>2. F(flatten)
  <2> HIDE DEF F, g
  <2> QED BY <1>1
<1>3. Seqs!FlattenSeq(s) = flatten[n]
  BY DEF Seqs!FlattenSeq
<1> HIDE DEF flatten
<1>4. \A i \in 1 .. n : flatten[i] = IF i = 1 THEN s[i] ELSE flatten[i - 1] \o s[i]
  BY <1>2
<1> DEFINE S == {k \in Nat : k + 1 <= n => flatten[k + 1] = r[k + 1]}
<1>5. 0 \in S
  BY <1>4
<1>6. ASSUME NEW k \in Nat, k \in S PROVE k + 1 \in S
  <2> SUFFICES ASSUME (k + 1) + 1 <= n PROVE flatten[(k + 1) + 1] = r[(k + 1) + 1]
    OBVIOUS
  <2> DEFINE i == (k + 1) + 1
  <2>1. i \in 2 .. n /\ i \in 1 .. n /\ i # 1 /\ i - 1 = k + 1 /\ k + 1 <= n
    OBVIOUS
  <2>2. flatten[k + 1] = r[k + 1]
    BY <1>6, <2>1
  <2>3. flatten[i] = flatten[i - 1] \o s[i] /\ r[i] = r[i - 1] \o s[i]
    BY <1>4, <2>1
  <2> HIDE DEF i
  <2> QED BY <2>1, <2>2, <2>3 DEF i
<1>7. n - 1 \in S
  <2>1. Nat \subseteq S
    <3> HIDE DEF S
    <3> QED BY <1>5, <1>6, NumberInduction
  <2> QED BY <2>1
<1> QED BY <1>3, <1>7

\* The last of some numbers.
LEMMA LastNumber ==
  ASSUME NEW n \in Nat, NEW s, s \subseteq 1 .. n, s # {}
  PROVE  LET x == CHOOSE y \in s : \A z \in s : y >= z
         IN  x \in s /\ \A z \in s : x >= z
<1> DEFINE C == {n - x : x \in s}
<1>1. C \subseteq Nat /\ C # {}
  OBVIOUS
<1>2. PICK m \in C : \A c \in C : m <= c
  <2> HIDE DEF C
  <2> QED BY <1>1, LeastNumber
<1>3. PICK x \in s : m = n - x
  BY <1>2
<1>4. ASSUME NEW z \in s PROVE x >= z
  <2>1. m <= n - z
    BY <1>2
  <2> QED BY <1>3, <2>1
<1> QED BY <1>4

\* What is kept of the numbers of a text, one after the other.
KeptOf(items, text, u) ==
  Seqs!FoldLeft(LAMBDA f, i : Kept(f, items[i].field, text[i].n, u),
                NoFields, [i \in DOMAIN items |-> i])

\* The fold over the items is what is left after the last of them.
LEMMA FieldsKept ==
  ASSUME NEW items, NEW text, NEW u, NEW n \in Nat, DOMAIN items = 1 .. n,
         NEW r, r[0] = NoFields,
         \A i \in 1 .. n : r[i] = Kept(r[i - 1], items[i].field, text[i].n, u)
  PROVE  KeptOf(items, text, u) = r[n]
<1> DEFINE sq == [i \in DOMAIN items |-> i]
           D == 1 .. n
           top(s) == CHOOSE y \in s : \A z \in s : y >= z
           of(f, s) == IF s = {} THEN NoFields
                       ELSE Kept(f[s \ {top(s)}], items[sq[top(s)]].field, text[sq[top(s)]].n, u)
           F(f) == f = [s \in SUBSET DOMAIN sq |-> of(f, s)]
           fold == CHOOSE f : F(f)
<1>1. KeptOf(items, text, u) = fold[DOMAIN sq]
  BY DEF KeptOf, Seqs!FoldLeft, Seqs!MapThenFoldSet, Seqs!Max
<1>2. DOMAIN sq = D /\ \A i \in D : sq[i] = i
  OBVIOUS
<1>3. ASSUME NEW s, s \subseteq D, s # {}
      PROVE  top(s) \in s /\ \A z \in s : top(s) >= z
  BY <1>3, LastNumber
<1> HIDE DEF fold, sq
<1> DEFINE Upto(f, k) == \A s \in SUBSET (1 .. k) : f[s] = of(f, s)
           S == {k \in Nat : k <= n => \E f : Upto(f, k)}
<1>4. 0 \in S
  <2>1. Upto([s \in SUBSET (1 .. 0) |-> NoFields], 0)
    <3>1. \A s \in SUBSET (1 .. 0) : s = {}
      OBVIOUS
    <3> QED BY <3>1
  <2> HIDE DEF Upto
  <2> QED BY <2>1
<1>5. ASSUME NEW k \in Nat, k \in S PROVE k + 1 \in S
  <2> SUFFICES ASSUME k + 1 <= n PROVE \E f : Upto(f, k + 1)
    <3> HIDE DEF Upto
    <3> QED OBVIOUS
  <2>1. PICK f : Upto(f, k)
    <3> HIDE DEF Upto
    <3> QED BY <1>5
  <2> DEFINE g == [s \in SUBSET (1 .. k + 1) |-> IF s \subseteq 1 .. k THEN f[s] ELSE of(f, s)]
  <2>2. ASSUME NEW s \in SUBSET (1 .. k + 1) PROVE g[s] = of(g, s)
    <3> DEFINE q == s \ {top(s)}
    <3>1. s # {} => q \subseteq 1 .. k /\ q \in SUBSET (1 .. k + 1)
      <4> SUFFICES ASSUME s # {} PROVE q \subseteq 1 .. k
        OBVIOUS
      <4>1. s \subseteq D
        OBVIOUS
      <4>2. top(s) \in s /\ \A z \in s : top(s) >= z
        BY <1>3, <4>1
      <4> HIDE DEF top
      <4>3. ASSUME NEW z \in q PROVE z \in 1 .. k
        <5>1. z \in 1 .. k + 1 /\ top(s) \in 1 .. k + 1 /\ z # top(s) /\ top(s) >= z
          BY <4>2
        <5> QED BY <5>1
      <4> QED BY <4>3
    <3>2. s # {} => g[q] = f[q]
      <4> HIDE DEF q
      <4> QED BY <3>1
    <3>3. of(g, s) = of(f, s)
      <4> HIDE DEF g, top
      <4> QED BY <3>2
    <3>4. CASE s \subseteq 1 .. k
      <4>1. g[s] = f[s] /\ f[s] = of(f, s)
        <5>1. f[s] = of(f, s)
          BY <2>1, <3>4
        <5> HIDE DEF of
        <5> QED BY <3>4, <5>1
      <4> HIDE DEF g, of
      <4> QED BY <3>3, <4>1
    <3>5. CASE ~ (s \subseteq 1 .. k)
      <4>1. g[s] = of(f, s)
        <5> HIDE DEF of
        <5> QED BY <3>5
      <4> HIDE DEF g, of
      <4> QED BY <3>3, <4>1
    <3> QED BY <3>4, <3>5
  <2>3. Upto(g, k + 1)
    <3> HIDE DEF g, of
    <3> QED BY <2>2
  <2> HIDE DEF Upto, g
  <2> QED BY <2>3
<1>6. \E f : Upto(f, n)
  <2>1. Nat \subseteq S
    <3> HIDE DEF S
    <3> QED BY <1>4, <1>5, NumberInduction
  <2> HIDE DEF Upto
  <2> QED BY <2>1
<1>7. F(fold)
  <2>1. PICK f : Upto(f, n)
    BY <1>6
  <2> DEFINE g == [s \in SUBSET DOMAIN sq |-> f[s]]
  <2>2. ASSUME NEW s \in SUBSET D PROVE g[s] = of(g, s)
    <3> DEFINE q == s \ {top(s)}
    <3>1. q \in SUBSET D /\ g[q] = f[q] /\ g[s] = f[s]
      BY <1>2
    <3>2. f[s] = of(f, s)
      <4> HIDE DEF of
      <4> QED BY <2>1
    <3> HIDE DEF g, top
    <3> QED BY <3>1, <3>2
  <2>3. F(g)
    <3>1. g = [s \in SUBSET DOMAIN sq |-> g[s]]
      OBVIOUS
    <3> HIDE DEF g, of
    <3> QED BY <1>2, <2>2, <3>1
  <2> HIDE DEF F, g
  <2> QED BY <2>3 DEF fold
<1>8. \A s \in SUBSET D : fold[s] = of(fold, s)
  <2> HIDE DEF of
  <2> QED BY <1>2, <1>7
<1> DEFINE T == {k \in Nat : k <= n => fold[1 .. k] = r[k]}
<1>9. 0 \in T
  <2>1. 1 .. 0 = {} /\ 1 .. 0 \in SUBSET D
    OBVIOUS
  <2> QED BY <1>8, <2>1
<1>10. ASSUME NEW k \in Nat, k \in T PROVE k + 1 \in T
  <2> SUFFICES ASSUME k + 1 <= n PROVE fold[1 .. k + 1] = r[k + 1]
    OBVIOUS
  <2> DEFINE s == 1 .. k + 1
  <2>1. s \subseteq D /\ s # {} /\ k + 1 \in s /\ k + 1 \in D
    OBVIOUS
  <2>2. top(s) \in s /\ \A z \in s : top(s) >= z
    BY <1>3, <2>1
  <2>3. top(s) = k + 1
    <3> DEFINE y == top(s)
    <3> HIDE DEF y
    <3>1. y \in 1 .. k + 1 /\ y >= k + 1
      BY <2>1, <2>2 DEF y
    <3>2. y = k + 1
      BY <3>1
    <3> QED BY <3>2 DEF y
  <2>4. s \ {k + 1} = 1 .. k
    OBVIOUS
  <2>5. fold[s] = of(fold, s)
    BY <1>8, <2>1
  <2>6. fold[s] = Kept(fold[1 .. k], items[k + 1].field, text[k + 1].n, u)
    <3> HIDE DEF top, s
    <3> QED BY <1>2, <2>1, <2>3, <2>4, <2>5
  <2>7. r[k + 1] = Kept(r[k], items[k + 1].field, text[k + 1].n, u)
    BY <2>1
  <2> QED BY <1>10, <2>6, <2>7
<1>11. fold[1 .. n] = r[n]
  <2>1. Nat \subseteq T
    <3> HIDE DEF T
    <3> QED BY <1>9, <1>10, NumberInduction
  <2> QED BY <2>1
<1> QED BY <1>1, <1>2, <1>11

\* The numbers a format reads, if the text has them.
ItemsOf(format, u) == Seqs!FlattenSeq([i \in DOMAIN format |-> ReadOf(format[i], u)])

\* Fields are read one after the other if every number fits its item.
LEMMA FieldsRead ==
  ASSUME NEW format, NEW text, NEW u, Len(ItemsOf(format, u)) = Len(text),
         \A i \in DOMAIN ItemsOf(format, u) : Fits(text[i], ItemsOf(format, u)[i])
  PROVE  ReadFields(format, text, u) = KeptOf(ItemsOf(format, u), text, u)
BY Zenon DEF ReadFields, KeptOf, ItemsOf

\* Sequences of one element each, one after the other.
LEMMA FlattenedOnes ==
  ASSUME NEW n \in Nat \ {0}, NEW s, Len(s) = n, \A i \in 1 .. n : s[i] = <<s[i][1]>>
  PROVE  Seqs!FlattenSeq(s) = [i \in 1 .. n |-> s[i][1]]
<1> DEFINE r == [k \in 1 .. n |-> [i \in 1 .. k |-> s[i][1]]]
<1>1. r[1] = s[1]
  <2>1. <<s[1][1]>> = [i \in 1 .. 1 |-> s[i][1]]
    OBVIOUS
  <2> QED BY <2>1
<1>2. ASSUME NEW k \in 2 .. n PROVE r[k] = r[k - 1] \o s[k]
  <2> DEFINE a == [i \in 1 .. k - 1 |-> s[i][1]]
             b == [i \in 1 .. k |-> s[i][1]]
             V == {s[i][1] : i \in 1 .. k}
  <2>1. a \in Seq(V) /\ b \in Seq(V) /\ Len(a) = k - 1 /\ Len(b) = k
    OBVIOUS
  <2>2. <<s[k][1]>> \in Seq(V) /\ Len(<<s[k][1]>>) = 1
    OBVIOUS
  <2>3. a \o <<s[k][1]>> \in Seq(V) /\ Len(a \o <<s[k][1]>>) = k
    BY <2>1, <2>2
  <2>4. ASSUME NEW i \in 1 .. k PROVE (a \o <<s[k][1]>>)[i] = b[i]
    BY <2>1
  <2>5. a \o <<s[k][1]>> = b
    <3> HIDE DEF a, b, V
    <3> QED BY <2>1, <2>3, <2>4
  <2>6. r[k - 1] = a /\ r[k] = b /\ s[k] = <<s[k][1]>>
    OBVIOUS
  <2> QED BY <2>5, <2>6
<1> HIDE DEF r
<1>3. Seqs!FlattenSeq(s) = r[n]
  <2>1. \A i \in 2 .. n : r[i] = r[i - 1] \o s[i]
    BY <1>2
  <2>2. n \in Nat \ {0} /\ Len(s) = n
    OBVIOUS
  <2> QED BY ONLY <1>1, <2>1, <2>2, Flattened
<1> QED BY <1>3 DEF r

-----------------------------------------------------------------------------
FieldSet ==
  [Y : Int, C : Int, yy : Int, m : Int, d : Int, j : Int, wd : Int, g : Int, G : Int,
   V : Int, U : Int, W : Int, h : Int, min : Int, s : Int, z : Int, fail : BOOLEAN]
NumberFields == {"Y", "C", "yy", "m", "d", "j", "wd", "g", "G", "V", "U", "W", "h", "min"}

\* Before anything is read the fields are fields.
LEMMA NoFieldsTyped == NoFields \in FieldSet
BY DEF NoFields, FieldSet, NoYear, NoCentury, No2Digits, NoWeekday, NoWeek

\* Fields that have not been read say nothing.
LEMMA Skipped ==
  ASSUME NEW f
  PROVE  /\ f.yy = No2Digits => WithYear(f) = f
         /\ f.g = No2Digits => WithIsoYear(f) = f
         /\ f.G = NoYear => FromIsoWeek(f) = f
         /\ f.j = 0 => FromDayOfYear(f) = f
         /\ f.U = NoWeek => FromWeekU(f) = f
         /\ f.W = NoWeek => FromWeekW(f) = f
         /\ f.wd = NoWeekday => Agreed(f) = f
<1>1. f.yy = No2Digits => WithYear(f) = f
  BY DEF WithYear
<1>2. f.g = No2Digits => WithIsoYear(f) = f
  BY DEF WithIsoYear
<1>3. f.G = NoYear => FromIsoWeek(f) = f
  BY DEF FromIsoWeek
<1>4. f.j = 0 => FromDayOfYear(f) = f
  BY DEF FromDayOfYear
<1>5. f.U = NoWeek => FromWeekU(f) = f
  BY DEF FromWeekU, FromWeek
<1>6. f.W = NoWeek => FromWeekW(f) = f
  BY DEF FromWeekW, FromWeek
<1>7. f.wd = NoWeekday => Agreed(f) = f
  BY DEF Agreed
<1> QED BY <1>1, <1>2, <1>3, <1>4, <1>5, <1>6, <1>7

\* A date completes fields that have no month and no day.
LEMMA NoDateYet ==
  ASSUME NEW f \in FieldSet, f.m = 0, f.d = 0, NEW ymd
  PROVE  Completed(f, ymd) = [f EXCEPT !.m = ymd.m, !.d = ymd.d]
BY DEF Completed

(*****************************************************************************)
(* Texts of numbers, read one after the other.                               *)
(*****************************************************************************)

\* A text whose numbers can be read by the items of its format is read to the end.
LEMMA TextRead ==
  ASSUME NEW format, NEW x, NEW u, NEW n \in Nat,
         NEW text, text = Printed(format, x), Len(text) = n,
         NEW items, items = ItemsOf(format, u), Len(items) = n, DOMAIN items = 1 .. n,
         \A i \in 1 .. n : Fits(text[i], items[i]),
         NEW r, r[0] = NoFields,
         \A i \in 1 .. n : r[i] = Kept(r[i - 1], items[i].field, text[i].n, u)
  PROVE  ReadFields(format, Printed(format, x), u) = r[n]
<1>1. ReadFields(format, text, u) = KeptOf(items, text, u)
  <2>1. Len(ItemsOf(format, u)) = Len(text)
    BY Zenon
  <2>2. \A i \in DOMAIN ItemsOf(format, u) : Fits(text[i], ItemsOf(format, u)[i])
    BY Zenon
  <2>3. ReadFields(format, text, u) = KeptOf(ItemsOf(format, u), text, u)
    BY ONLY <2>1, <2>2, FieldsRead
  <2> QED BY <2>3, Zenon
<1>2. KeptOf(items, text, u) = r[n]
  <2>1. n \in Nat /\ DOMAIN items = 1 .. n /\ r[0] = NoFields
        /\ \A i \in 1 .. n : r[i] = Kept(r[i - 1], items[i].field, text[i].n, u)
    BY Zenon
  <2> QED BY ONLY <2>1, FieldsKept
<1> QED BY <1>1, <1>2, Zenon

\* A conversion of one number, printed and read; and what is kept after the i-th item.
OneNumber(c, x, u, number, item) ==
  PrintedOf(c, x) = <<number>> /\ ReadOf(c, u) = <<item>> /\ Fits(number, item)
KeptNext(r, i, items, text, u) == r[i] = Kept(r[i - 1], items[i].field, text[i].n, u)

\* Conversions of one number each.
LEMMA NumbersRead ==
  ASSUME NEW format, NEW x, NEW u, NEW n \in Nat \ {0}, DOMAIN format = 1 .. n,
         NEW text, NEW items,
         \A i \in 1 .. n : OneNumber(format[i], x, u, text[i], items[i]),
         NEW r, r[0] = NoFields,
         \A i \in 1 .. n : KeptNext(r, i, items, text, u)
  PROVE  ReadFields(format, Printed(format, x), u) = r[n]
<1> DEFINE s == [i \in DOMAIN format |-> PrintedOf(format[i], x)]
           q == [i \in DOMAIN format |-> ReadOf(format[i], u)]
           t == [i \in 1 .. n |-> text[i]]
           p == [i \in 1 .. n |-> items[i]]
<1>1. Printed(format, x) = t
  <2>1. Len(s) = n
    OBVIOUS
  <2>2. \A i \in 1 .. n : s[i] = <<text[i]>> /\ s[i][1] = text[i]
    BY DEF OneNumber
  <2>3. Seqs!FlattenSeq(s) = [i \in 1 .. n |-> s[i][1]]
    <3>1. \A i \in 1 .. n : s[i] = <<s[i][1]>>
      <4> HIDE DEF s
      <4> QED BY <2>2
    <3>2. n \in Nat \ {0}
      OBVIOUS
    <3> HIDE DEF s
    <3> QED BY ONLY <2>1, <3>1, <3>2, FlattenedOnes
  <2>4. [i \in 1 .. n |-> s[i][1]] = t
    <3> HIDE DEF s
    <3> QED BY <2>2
  <2> QED BY <2>3, <2>4, Zenon DEF Printed
<1>2. ItemsOf(format, u) = p
  <2>1. Len(q) = n
    OBVIOUS
  <2>2. \A i \in 1 .. n : q[i] = <<items[i]>> /\ q[i][1] = items[i]
    BY DEF OneNumber
  <2>3. Seqs!FlattenSeq(q) = [i \in 1 .. n |-> q[i][1]]
    <3>1. \A i \in 1 .. n : q[i] = <<q[i][1]>>
      <4> HIDE DEF q
      <4> QED BY <2>2
    <3>2. n \in Nat \ {0}
      OBVIOUS
    <3> HIDE DEF q
    <3> QED BY ONLY <2>1, <3>1, <3>2, FlattenedOnes
  <2>4. [i \in 1 .. n |-> q[i][1]] = p
    <3> HIDE DEF q
    <3> QED BY <2>2
  <2> QED BY <2>3, <2>4, Zenon DEF ItemsOf
<1>3. /\ Len(t) = n /\ Len(p) = n /\ DOMAIN p = 1 .. n
      /\ \A i \in 1 .. n : t[i] = text[i] /\ p[i] = items[i]
  OBVIOUS
<1> HIDE DEF t, p
<1>4. /\ \A i \in 1 .. n : Fits(t[i], p[i])
      /\ \A i \in 1 .. n : r[i] = Kept(r[i - 1], p[i].field, t[i].n, u)
  BY <1>3 DEF OneNumber, KeptNext
<1>5. n \in Nat /\ t = Printed(format, x) /\ p = ItemsOf(format, u) /\ r[0] = NoFields
  BY <1>1, <1>2
<1> QED BY ONLY <1>3, <1>4, <1>5, TextRead

\* Two conversions of one number each are read one after the other.
LEMMA TwoRead ==
  ASSUME NEW x, NEW u, NEW a, NEW b, NEW ta, NEW tb, NEW ia, NEW ib,
         OneNumber(a, x, u, ta, ia),
         OneNumber(b, x, u, tb, ib)
  PROVE  ReadFields(<<a, b>>, Printed(<<a, b>>, x), u)
           = Kept(Kept(NoFields, ia.field, ta.n, u), ib.field, tb.n, u)
<1> DEFINE f1 == Kept(NoFields, ia.field, ta.n, u)
           f2 == Kept(f1, ib.field, tb.n, u)
           n == 2
           format == <<a, b>>
           text == <<ta, tb>>
           items == <<ia, ib>>
           r == [i \in 0 .. 2 |-> CASE i = 0 -> NoFields [] i = 1 -> f1 [] OTHER -> f2]
<1>1. DOMAIN format = 1 .. n /\ n \in Nat \ {0}
  OBVIOUS
<1>2. 1 .. n = {1, 2}
  OBVIOUS
<1>3. ASSUME NEW i \in 1 .. n
      PROVE  OneNumber(format[i], x, u, text[i], items[i])
  BY <1>2
<1> HIDE DEF f1, f2
<1>4. r[0] = NoFields /\ r[1] = f1 /\ r[2] = f2
  OBVIOUS
<1> HIDE DEF r
<1>5. ASSUME NEW i \in 1 .. n PROVE KeptNext(r, i, items, text, u)
  <2>1. CASE i = 1
    BY <1>4, <2>1 DEF f1, KeptNext
  <2>2. CASE i = 2
    BY <1>4, <2>2 DEF f2, KeptNext
  <2> QED BY <1>2, <2>1, <2>2
<1> HIDE DEF text, items, format, n
<1>6. ReadFields(format, Printed(format, x), u) = r[n]
  BY ONLY <1>1, <1>3, <1>4, <1>5, NumbersRead
<1> QED BY <1>4, <1>6 DEF f1, f2, format, n

\* So are three.
LEMMA ThreeRead ==
  ASSUME NEW x, NEW u, NEW a, NEW b, NEW c, NEW ta, NEW tb, NEW tc, NEW ia, NEW ib, NEW ic,
         OneNumber(a, x, u, ta, ia),
         OneNumber(b, x, u, tb, ib),
         OneNumber(c, x, u, tc, ic)
  PROVE  ReadFields(<<a, b, c>>, Printed(<<a, b, c>>, x), u)
           = Kept(Kept(Kept(NoFields, ia.field, ta.n, u), ib.field, tb.n, u), ic.field, tc.n, u)
<1> DEFINE f1 == Kept(NoFields, ia.field, ta.n, u)
           f2 == Kept(f1, ib.field, tb.n, u)
           f3 == Kept(f2, ic.field, tc.n, u)
           n == 3
           format == <<a, b, c>>
           text == <<ta, tb, tc>>
           items == <<ia, ib, ic>>
           r == [i \in 0 .. 3 |-> CASE i = 0 -> NoFields [] i = 1 -> f1 [] i = 2 -> f2
                                    [] OTHER -> f3]
<1>1. DOMAIN format = 1 .. n /\ n \in Nat \ {0}
  OBVIOUS
<1>2. 1 .. n = {1, 2, 3}
  OBVIOUS
<1>3. ASSUME NEW i \in 1 .. n
      PROVE  OneNumber(format[i], x, u, text[i], items[i])
  BY <1>2
<1> HIDE DEF f1, f2, f3
<1>4. r[0] = NoFields /\ r[1] = f1 /\ r[2] = f2 /\ r[3] = f3
  OBVIOUS
<1> HIDE DEF r
<1>5. ASSUME NEW i \in 1 .. n PROVE KeptNext(r, i, items, text, u)
  <2>1. CASE i = 1
    BY <1>4, <2>1 DEF f1, KeptNext
  <2>2. CASE i = 2
    BY <1>4, <2>2 DEF f2, KeptNext
  <2>3. CASE i = 3
    BY <1>4, <2>3 DEF f3, KeptNext
  <2> QED BY <1>2, <2>1, <2>2, <2>3
<1> HIDE DEF text, items, format, n
<1>6. ReadFields(format, Printed(format, x), u) = r[n]
  BY ONLY <1>1, <1>3, <1>4, <1>5, NumbersRead
<1> QED BY <1>4, <1>6 DEF f1, f2, f3, format, n

\* So are four.
LEMMA FourRead ==
  ASSUME NEW x, NEW u, NEW a, NEW b, NEW c, NEW d, NEW ta, NEW tb, NEW tc, NEW td,
         NEW ia, NEW ib, NEW ic, NEW id,
         OneNumber(a, x, u, ta, ia),
         OneNumber(b, x, u, tb, ib),
         OneNumber(c, x, u, tc, ic),
         OneNumber(d, x, u, td, id)
  PROVE  ReadFields(<<a, b, c, d>>, Printed(<<a, b, c, d>>, x), u)
           = Kept(Kept(Kept(Kept(NoFields, ia.field, ta.n, u), ib.field, tb.n, u),
                       ic.field, tc.n, u), id.field, td.n, u)
<1> DEFINE f1 == Kept(NoFields, ia.field, ta.n, u)
           f2 == Kept(f1, ib.field, tb.n, u)
           f3 == Kept(f2, ic.field, tc.n, u)
           f4 == Kept(f3, id.field, td.n, u)
           n == 4
           format == <<a, b, c, d>>
           text == <<ta, tb, tc, td>>
           items == <<ia, ib, ic, id>>
           r == [i \in 0 .. 4 |-> CASE i = 0 -> NoFields [] i = 1 -> f1 [] i = 2 -> f2
                                    [] i = 3 -> f3 [] OTHER -> f4]
<1>1. DOMAIN format = 1 .. n /\ n \in Nat \ {0}
  OBVIOUS
<1>2. 1 .. n = {1, 2, 3, 4}
  OBVIOUS
<1>3. ASSUME NEW i \in 1 .. n
      PROVE  OneNumber(format[i], x, u, text[i], items[i])
  BY <1>2
<1> HIDE DEF f1, f2, f3, f4
<1>4. r[0] = NoFields /\ r[1] = f1 /\ r[2] = f2 /\ r[3] = f3 /\ r[4] = f4
  OBVIOUS
<1> HIDE DEF r
<1>5. ASSUME NEW i \in 1 .. n PROVE KeptNext(r, i, items, text, u)
  <2>1. CASE i = 1
    BY <1>4, <2>1 DEF f1, KeptNext
  <2>2. CASE i = 2
    BY <1>4, <2>2 DEF f2, KeptNext
  <2>3. CASE i = 3
    BY <1>4, <2>3 DEF f3, KeptNext
  <2>4. CASE i = 4
    BY <1>4, <2>4 DEF f4, KeptNext
  <2> QED BY <1>2, <2>1, <2>2, <2>3, <2>4
<1> HIDE DEF text, items, format, n
<1>6. ReadFields(format, Printed(format, x), u) = r[n]
  BY ONLY <1>1, <1>3, <1>4, <1>5, NumbersRead
<1> QED BY <1>4, <1>6 DEF f1, f2, f3, f4, format, n

\* Numbers of at most w digits fit.
Beyond(w) == CASE w = 1 -> 10 [] w = 2 -> 100 [] w = 3 -> 1000 [] OTHER -> 10000
Padded(n, w) == [n |-> n, torn |-> FALSE, digits |-> w]

\* A number below the limit of a width is printed in that width, and fits an item of it.
LEMMA NumbersFit ==
  ASSUME NEW n \in Int, NEW w \in 1 .. 4, Magnitude(n) < Beyond(w), NEW field
  PROVE  /\ Fits(Number(n, w), Signed(field, w))
         /\ n >= 0 => Fits(Number(n, w), Unsigned(field, w))
         /\ n >= 0 => Fits(NumberRight(n, w), Signed(field, w))
         /\ Number(n, w).n = n /\ (n >= 0 => NumberRight(n, w).n = n)
<1>1. DigitsOf(n) \in Nat /\ DigitsOf(n) <= w
  BY FewDigits, SMT DEF Beyond
<1>2. (IF DigitsOf(n) < w THEN w ELSE DigitsOf(n)) = w
  BY <1>1, SMT
<1>3. Number(n, w) = Padded(n, w)
  BY <1>2 DEF Number, Padded
<1>4. n >= 0 => NumberRight(n, w) = Padded(n, w)
  <2> SUFFICES ASSUME n >= 0 PROVE NumberRight(n, w) = Padded(n, w)
    OBVIOUS
  <2> DEFINE torn == n < 0 /\ DigitsOf(n) + 1 < w
  <2>1. torn = FALSE
    BY SMT
  <2>2. NumberRight(n, w) = [Number(n, w) EXCEPT !.torn = torn]
    BY DEF NumberRight
  <2>3. NumberRight(n, w) = [Padded(n, w) EXCEPT !.torn = FALSE]
    <3> HIDE DEF torn
    <3> QED BY <1>3, <2>1, <2>2, Zenon
  <2>4. [Padded(n, w) EXCEPT !.torn = FALSE] = Padded(n, w)
    <3>1. Padded(n, w) \in [n : Int, torn : BOOLEAN, digits : 1 .. 4] /\ Padded(n, w).torn = FALSE
      BY DEF Padded
    <3> HIDE DEF torn
    <3> QED BY <3>1
  <2> QED BY <2>3, <2>4, Zenon
<1>5. Padded(n, w).n = n
  BY DEF Padded
<1>6. Fits(Padded(n, w), Signed(field, w))
  BY DEF Fits, Signed, Padded
<1>7. n >= 0 => Fits(Padded(n, w), Unsigned(field, w))
  BY DEF Fits, Unsigned, Padded
<1> QED BY <1>3, <1>4, <1>5, <1>6, <1>7, Zenon

\* A conversion that prints such a number reads it.
LEMMA OneNumberRead ==
  ASSUME NEW n \in Int, NEW w \in 1 .. 4, Magnitude(n) < Beyond(w), NEW field,
         NEW c, NEW x, NEW u, PrintedOf(c, x) = <<Number(n, w)>>,
         \/ ReadOf(c, u) = <<Signed(field, w)>>
         \/ ReadOf(c, u) = <<Unsigned(field, w)>> /\ n >= 0
  PROVE  \E item : /\ OneNumber(c, x, u, Number(n, w), item)
                   /\ item.field = field /\ Number(n, w).n = n
<1>1. /\ Signed(field, w).field = field
      /\ Unsigned(field, w).field = field
  BY DEF Signed, Unsigned
<1>2. CASE ReadOf(c, u) = <<Signed(field, w)>>
  <2>1. OneNumber(c, x, u, Number(n, w), Signed(field, w))
    BY <1>2, NumbersFit DEF OneNumber
  <2> QED BY <1>1, <2>1, NumbersFit
<1>3. CASE ReadOf(c, u) = <<Unsigned(field, w)>> /\ n >= 0
  <2>1. OneNumber(c, x, u, Number(n, w), Unsigned(field, w))
    BY <1>3, NumbersFit DEF OneNumber
  <2> QED BY <1>1, <2>1, NumbersFit
<1> QED BY <1>2, <1>3

\* What each conversion of one number of a date prints, in so many digits, and reads.
LEMMA DateConversions ==
  ASSUME NEW x, NEW u
  PROVE  /\ PrintedOf("Y", x) = <<Number(x.ymd.y, 4)>> /\ ReadOf("Y", u) = <<Signed("Y", 4)>>
         /\ PrintedOf("C", x) = <<Number(Century(x.ymd.y), 2)>> /\ ReadOf("C", u) = <<Signed("C", 2)>>
         /\ PrintedOf("y", x) = <<Number(YearOfCentury(x.ymd.y), 2)>>
         /\ ReadOf("y", u) = <<Unsigned("yy", 2)>>
         /\ PrintedOf("m", x) = <<Number(x.ymd.m, 2)>> /\ ReadOf("m", u) = <<Signed("m", 2)>>
         /\ PrintedOf("d", x) = <<Number(x.ymd.d, 2)>> /\ ReadOf("d", u) = <<Signed("d", 2)>>
         /\ PrintedOf("j", x) = <<Number(DayOfYear(x.ymd), 3)>> /\ ReadOf("j", u) = <<Unsigned("j", 3)>>
<1>1. PrintedOf("Y", x) = <<Number(x.ymd.y, 4)>>
  BY DEF PrintedOf, PrintedYear
<1>2. PrintedOf("C", x) = <<Number(Century(x.ymd.y), 2)>>
  BY DEF PrintedOf, PrintedCentury
<1>3. PrintedOf("y", x) = <<Number(YearOfCentury(x.ymd.y), 2)>>
  BY DEF PrintedOf
<1>4. PrintedOf("m", x) = <<Number(x.ymd.m, 2)>>
  BY DEF PrintedOf, PrintedMonth
<1>5. PrintedOf("d", x) = <<Number(x.ymd.d, 2)>>
  BY DEF PrintedOf, PrintedDay
<1>6. PrintedOf("j", x) = <<Number(DayOfYear(x.ymd), 3)>>
  BY DEF PrintedOf
<1>11. ReadOf("Y", u) = <<Signed("Y", 4)>>
  BY DEF ReadOf, ReadYear
<1>12. ReadOf("C", u) = <<Signed("C", 2)>>
  BY DEF ReadOf, ReadC
<1>13. ReadOf("y", u) = <<Unsigned("yy", 2)>>
  BY DEF ReadOf, ReadYearOfCentury
<1>14. ReadOf("m", u) = <<Signed("m", 2)>>
  BY DEF ReadOf, ReadMonth
<1>15. ReadOf("d", u) = <<Signed("d", 2)>>
  BY DEF ReadOf, ReadDay
<1>16. ReadOf("j", u) = <<Unsigned("j", 3)>>
  BY DEF ReadOf, ReadDayOfYear
<1> QED BY <1>1, <1>2, <1>3, <1>4, <1>5, <1>6, <1>11, <1>12, <1>13, <1>14, <1>15, <1>16

\* What the conversions of weeks print and read.
LEMMA WeekConversions ==
  ASSUME NEW x, NEW u
  PROVE  /\ PrintedOf("G", x) = <<Number(IsoYear(x.ymd), 4)>> /\ ReadOf("G", u) = <<Signed("G", 4)>>
         /\ PrintedOf("g", x) = <<Number(YearOfCentury(IsoYear(x.ymd)), 2)>>
         /\ ReadOf("g", u) = <<Unsigned("g", 2)>>
         /\ PrintedOf("V", x) = <<Number(IsoWeek(x.ymd), 2)>> /\ ReadOf("V", u) = <<Unsigned("V", 2)>>
         /\ PrintedOf("U", x) = <<Number(WeekU(x.ymd), 2)>> /\ ReadOf("U", u) = <<Unsigned("U", 2)>>
         /\ PrintedOf("W", x) = <<Number(WeekW(x.ymd), 2)>> /\ ReadOf("W", u) = <<Unsigned("W", 2)>>
         /\ PrintedOf("u", x) = <<Number(IsoWeekday(WeekdayOf(x.ymd)), 1)>>
         /\ ReadOf("u", u) = <<Unsigned("u", 1)>>
         /\ PrintedOf("w", x) = <<Number(WeekdayOf(x.ymd), 1)>> /\ ReadOf("w", u) = <<Unsigned("wd", 1)>>
<1>1. PrintedOf("G", x) = <<Number(IsoYear(x.ymd), 4)>>
  BY DEF PrintedOf, PrintedYear
<1>2. PrintedOf("g", x) = <<Number(YearOfCentury(IsoYear(x.ymd)), 2)>>
  BY DEF PrintedOf
<1>3. PrintedOf("V", x) = <<Number(IsoWeek(x.ymd), 2)>>
  BY DEF PrintedOf
<1>4. PrintedOf("U", x) = <<Number(WeekU(x.ymd), 2)>>
  BY DEF PrintedOf
<1>5. PrintedOf("W", x) = <<Number(WeekW(x.ymd), 2)>>
  BY DEF PrintedOf
<1>6. PrintedOf("u", x) = <<Number(IsoWeekday(WeekdayOf(x.ymd)), 1)>>
  BY DEF PrintedOf
<1>7. PrintedOf("w", x) = <<Number(WeekdayOf(x.ymd), 1)>>
  BY DEF PrintedOf
<1>11. ReadOf("G", u) = <<Signed("G", 4)>>
  BY DEF ReadOf, ReadIsoYear
<1>12. ReadOf("g", u) = <<Unsigned("g", 2)>>
  BY DEF ReadOf, ReadIsoYearOfCentury
<1>13. ReadOf("V", u) = <<Unsigned("V", 2)>>
  BY DEF ReadOf, ReadIsoWeek
<1>14. ReadOf("U", u) = <<Unsigned("U", 2)>>
  BY DEF ReadOf, ReadWeekU
<1>15. ReadOf("W", u) = <<Unsigned("W", 2)>>
  BY DEF ReadOf, ReadWeekW
<1>16. ReadOf("u", u) = <<Unsigned("u", 1)>>
  BY DEF ReadOf, ReadWeekday
<1>17. ReadOf("w", u) = <<Unsigned("wd", 1)>>
  BY DEF ReadOf, ReadWeekday
<1> QED BY <1>1, <1>2, <1>3, <1>4, <1>5, <1>6, <1>7,
           <1>11, <1>12, <1>13, <1>14, <1>15, <1>16, <1>17

\* A conversion carries a number to the field it is kept in.
Carries(c, x, u, field, n) ==
  \E number, item : OneNumber(c, x, u, number, item) /\ item.field = field /\ number.n = n

\* A conversion that prints a number in the width it reads carries it to a field.
LEMMA NumberCarried ==
  ASSUME NEW n \in Int, NEW w \in 1 .. 4, Magnitude(n) < Beyond(w), NEW field,
         NEW c, NEW x, NEW u, PrintedOf(c, x) = <<Number(n, w)>>,
         \/ ReadOf(c, u) = <<Signed(field, w)>>
         \/ ReadOf(c, u) = <<Unsigned(field, w)>> /\ n >= 0
  PROVE  Carries(c, x, u, field, n)
<1>1. \E item : /\ OneNumber(c, x, u, Number(n, w), item)
                /\ item.field = field /\ Number(n, w).n = n
  BY OneNumberRead
<1> QED BY <1>1 DEF Carries

\* Numbers carried by two conversions are kept in two fields.
LEMMA TwoCarried ==
  ASSUME NEW x, NEW u, NEW a, NEW b, NEW fa, NEW fb, NEW na, NEW nb,
         Carries(a, x, u, fa, na), Carries(b, x, u, fb, nb)
  PROVE  ReadFields(<<a, b>>, Printed(<<a, b>>, x), u) = Kept(Kept(NoFields, fa, na, u), fb, nb, u)
<1>1. PICK ta, ia : OneNumber(a, x, u, ta, ia) /\ ia.field = fa /\ ta.n = na
  BY DEF Carries
<1>2. PICK tb, ib : OneNumber(b, x, u, tb, ib) /\ ib.field = fb /\ tb.n = nb
  BY DEF Carries
<1>3. ReadFields(<<a, b>>, Printed(<<a, b>>, x), u)
        = Kept(Kept(NoFields, ia.field, ta.n, u), ib.field, tb.n, u)
  BY ONLY <1>1, <1>2, TwoRead
<1> QED BY <1>1, <1>2, <1>3, Zenon

\* So are those of three.
LEMMA ThreeCarried ==
  ASSUME NEW x, NEW u, NEW a, NEW b, NEW c, NEW fa, NEW fb, NEW fc, NEW na, NEW nb, NEW nc,
         Carries(a, x, u, fa, na), Carries(b, x, u, fb, nb), Carries(c, x, u, fc, nc)
  PROVE  ReadFields(<<a, b, c>>, Printed(<<a, b, c>>, x), u)
           = Kept(Kept(Kept(NoFields, fa, na, u), fb, nb, u), fc, nc, u)
<1>1. PICK ta, ia : OneNumber(a, x, u, ta, ia) /\ ia.field = fa /\ ta.n = na
  BY DEF Carries
<1>2. PICK tb, ib : OneNumber(b, x, u, tb, ib) /\ ib.field = fb /\ tb.n = nb
  BY DEF Carries
<1>3. PICK tc, ic : OneNumber(c, x, u, tc, ic) /\ ic.field = fc /\ tc.n = nc
  BY DEF Carries
<1>4. ReadFields(<<a, b, c>>, Printed(<<a, b, c>>, x), u)
        = Kept(Kept(Kept(NoFields, ia.field, ta.n, u), ib.field, tb.n, u), ic.field, tc.n, u)
  BY ONLY <1>1, <1>2, <1>3, ThreeRead
<1> QED BY <1>1, <1>2, <1>3, <1>4, Zenon

\* So are those of four.
LEMMA FourCarried ==
  ASSUME NEW x, NEW u, NEW a, NEW b, NEW c, NEW d, NEW fa, NEW fb, NEW fc, NEW fd,
         NEW na, NEW nb, NEW nc, NEW nd,
         Carries(a, x, u, fa, na), Carries(b, x, u, fb, nb), Carries(c, x, u, fc, nc),
         Carries(d, x, u, fd, nd)
  PROVE  ReadFields(<<a, b, c, d>>, Printed(<<a, b, c, d>>, x), u)
           = Kept(Kept(Kept(Kept(NoFields, fa, na, u), fb, nb, u), fc, nc, u), fd, nd, u)
<1>1. PICK ta, ia : OneNumber(a, x, u, ta, ia) /\ ia.field = fa /\ ta.n = na
  BY DEF Carries
<1>2. PICK tb, ib : OneNumber(b, x, u, tb, ib) /\ ib.field = fb /\ tb.n = nb
  BY DEF Carries
<1>3. PICK tc, ic : OneNumber(c, x, u, tc, ic) /\ ic.field = fc /\ tc.n = nc
  BY DEF Carries
<1>4. PICK td, id : OneNumber(d, x, u, td, id) /\ id.field = fd /\ td.n = nd
  BY DEF Carries
<1>5. ReadFields(<<a, b, c, d>>, Printed(<<a, b, c, d>>, x), u)
        = Kept(Kept(Kept(Kept(NoFields, ia.field, ta.n, u), ib.field, tb.n, u),
                    ic.field, tc.n, u), id.field, td.n, u)
  BY ONLY <1>1, <1>2, <1>3, <1>4, FourRead
<1> QED BY <1>1, <1>2, <1>3, <1>4, <1>5, Zenon

\* The quotient of a number that is not negative rounds down.
LEMMA Hundreds ==
  ASSUME NEW n \in Nat
  PROVE  Quot(n, 100) = n \div 100
<1> DEFINE h == 100
<1>1. h \in Int /\ h > 0 /\ h = 100
  OBVIOUS
<1> HIDE DEF h
<1>2. Quot(n, h) \in Int /\ Quot(n, h) * h <= n /\ n < (Quot(n, h) * h) + h
  BY <1>1, QuotBounds
<1> QED BY <1>1, <1>2, SMT

\* Centuries, before the year 0 too.
LEMMA CenturyIs ==
  ASSUME NEW y \in Int
  PROVE  Century(y) = IF y >= 0 THEN y \div 100 ELSE -((99 - y) \div 100)
<1>1. CASE y >= 0
  <2>1. Century(y) = Quot(y, 100)
    BY <1>1, SMT DEF Century
  <2> QED BY <1>1, <2>1, Hundreds, SMT
<1>2. CASE y < 0
  <2>1. Century(y) = -Quot(99 - y, 100)
    <3>1. -(y - 99) = 99 - y /\ ~(y >= 0)
      BY <1>2, SMT
    <3> QED BY <3>1, Zenon DEF Century
  <2>2. 99 - y \in Nat
    BY <1>2, SMT
  <2>3. Quot(99 - y, 100) = (99 - y) \div 100
    BY <2>2, Hundreds
  <2> QED BY <1>2, <2>1, <2>3, SMT
<1> QED BY <1>1, <1>2, SMT

\* The conversions of a date whose numbers have no more digits than the fields.
LEMMA DateCarried ==
  ASSUME NEW x, NEW u, DateIn(x.ymd), In(x.ymd.y, -9900, 9999)
  PROVE  /\ Carries("Y", x, u, "Y", x.ymd.y)
         /\ Carries("m", x, u, "m", x.ymd.m)
         /\ Carries("d", x, u, "d", x.ymd.d)
         /\ Carries("C", x, u, "C", Century(x.ymd.y))
         /\ Carries("y", x, u, "yy", YearOfCentury(x.ymd.y))
         /\ Carries("j", x, u, "j", NumberInYear(x.ymd))
<1> DEFINE y == x.ymd.y
           m == x.ymd.m
           d == x.ymd.d
<1>1. y \in Int /\ -9900 <= y /\ y <= 9999 /\ m \in 1..12 /\ d \in Int /\ 1 <= d /\ d <= 31
  <2>1. d \in 1 .. DaysIn(x.ymd.y, x.ymd.m) /\ DaysIn(x.ymd.y, x.ymd.m) \in 28..31
    BY FieldsOfDate
  <2>2. y \in Int /\ m \in 1..12
    BY FieldsOfDate
  <2>3. -9900 <= y /\ y <= 9999
    BY DEF In
  <2> QED BY <2>1, <2>2, <2>3, SMT
<1>2. Magnitude(y) < Beyond(4) /\ Magnitude(m) < Beyond(2) /\ Magnitude(d) < Beyond(2)
  BY <1>1, SMT DEF Magnitude, Beyond
<1>3. 4 \in 1..4 /\ 3 \in 1..4 /\ 2 \in 1..4 /\ 1 \in 1..4
  OBVIOUS
<1>4. Century(y) \in Int /\ Magnitude(Century(y)) < Beyond(2)
  BY <1>1, CenturyIs, SMT DEF Magnitude, Beyond
<1>5. YearOfCentury(y) \in 0 .. 99
  <2>1. Magnitude(y) \in Nat
    BY <1>1, SMT DEF Magnitude
  <2>2. Rem(Magnitude(y), 100) = Magnitude(y) % 100
    BY <2>1, RemOf
  <2> QED BY <2>1, <2>2, SMT DEF YearOfCentury
<1>6. DayOfYear(x.ymd) = NumberInYear(x.ymd) /\ NumberInYear(x.ymd) \in 1 .. 366
  <2>1. NumberInYear(x.ymd) \in 1 .. DaysOfYear(y) /\ DaysOfYear(y) \in {365, 366}
    BY NumbersInYear DEF DaysOfYear
  <2>2. DayOfYear(x.ymd) = NumberInYear(x.ymd)
    BY DEF DayOfYear, NumberInYear
  <2> QED BY <2>1, <2>2, SMT
<1>7. /\ Magnitude(YearOfCentury(y)) < Beyond(2) /\ YearOfCentury(y) >= 0
      /\ Magnitude(NumberInYear(x.ymd)) < Beyond(3) /\ NumberInYear(x.ymd) >= 0
  BY <1>5, <1>6, SMT DEF Magnitude, Beyond
<1>8. PrintedOf("j", x) = <<Number(NumberInYear(x.ymd), 3)>> /\ ReadOf("j", u) = <<Unsigned("j", 3)>>
  BY <1>6, DateConversions
<1>11. Carries("Y", x, u, "Y", y)
  BY <1>1, <1>2, <1>3, DateConversions, NumberCarried
<1>12. Carries("m", x, u, "m", m)
  BY <1>1, <1>2, <1>3, DateConversions, NumberCarried
<1>13. Carries("d", x, u, "d", d)
  BY <1>1, <1>2, <1>3, DateConversions, NumberCarried
<1>14. Carries("C", x, u, "C", Century(y))
  BY <1>3, <1>4, DateConversions, NumberCarried
<1>15. Carries("y", x, u, "yy", YearOfCentury(y))
  BY <1>3, <1>5, <1>7, DateConversions, NumberCarried
<1>16. Carries("j", x, u, "j", NumberInYear(x.ymd))
  BY <1>3, <1>6, <1>7, <1>8, NumberCarried
<1> QED BY <1>11, <1>12, <1>13, <1>14, <1>15, <1>16

\* Seconds are the finest unit without fractions.
LEMMA WholeSeconds == PerSecond(86400) = 1 /\ Precision(86400) = 1
<1> DEFINE u == 86400
<1>1. UnitOK(u) /\ 1440 % u # 0 /\ u <= 86400
  BY SMT DEF UnitOK
<1>2. Classify(u) = "second"
  <2> HIDE DEF u
  <2> QED BY <1>1, ClassOfUnit
<1>3. PerSecond(u) = 1
  BY <1>2 DEF PerSecond
<1>4. Precision(u) = 1
  <2>1. PerSecond(u) \in Nat /\ PerSecond(u) < 2
    BY <1>3, SMT
  <2> HIDE DEF u
  <2> QED BY <2>1, PrecisionIsNat
<1> QED BY <1>3, <1>4

\* The time of the day that is read is the one that the numbers name.
WithSeconds(t, s, b) == [t EXCEPT !.s = s, !.sub = b]
TimeRead(h, m, s, b) == TimeSplit(h, m, s, b, FALSE)

\* The hours, minutes and seconds in the fields make up a time of the day.
LEMMA TodRead ==
  ASSUME NEW f, NEW su, NEW h \in Int, NEW m \in Int, NEW s \in Int, NEW b \in Int,
         f.h = h, f.min = m, In(h, 0, 23), In(m, 0, 59),
         DecimalSeconds(f.s, su).s = s, DecimalSeconds(f.s, su).sub = b
  PROVE  TodOf(f, su) = TimeRead(h, m, s, b)
<1> DEFINE n == (3600 * h) + (60 * m)
<1>1. n \in Int /\ n >= 0 /\ Magnitude(n) = SecondsOf(h, m, 0) /\ 0 <= h /\ m \in 0..59 /\ 0 \in 0..59
  BY SMT DEF Magnitude, SecondsOf, In
<1>2. (n < 0) = FALSE
  BY <1>1, SMT
<1>3. SecondTime(n) = TimeSplit(h, m, 0, 0, n < 0)
  <2> HIDE DEF n
  <2>0. DEFINE o == 0
  <2>1. o \in Int /\ h >= 0 /\ o \in 0..59 /\ Magnitude(n) = SecondsOf(h, m, o)
    BY <1>1
  <2> HIDE DEF o
  <2>2. SecondTime(n) = TimeSplit(h, m, o, 0, n < 0)
    BY <1>1, <2>1, SecondSplit
  <2> QED BY <2>2 DEF o
<1>4. SecondTime(n) = TimeSplit(h, m, 0, 0, FALSE)
  <2> HIDE DEF n
  <2> QED BY <1>2, <1>3, Zenon
<1>5. TodOf(f, su) = WithSeconds(TimeSplit(h, m, 0, 0, FALSE), s, b)
  <2> DEFINE dfs == DecimalSeconds(f.s, su)
  <2>1. dfs.s = s /\ dfs.sub = b
    OBVIOUS
  <2>2. TodOf(f, su) = WithSeconds(SecondTime((3600 * f.h) + (60 * f.min)), dfs.s, dfs.sub)
    BY DEF TodOf, WithSeconds
  <2>3. (3600 * f.h) + (60 * f.min) = n
    OBVIOUS
  <2> HIDE DEF dfs, n
  <2> DEFINE t == TimeSplit(h, m, 0, 0, FALSE)
             k == (3600 * f.h) + (60 * f.min)
  <2>4. SecondTime(n) = t
    BY <1>4
  <2>5. TodOf(f, su) = WithSeconds(SecondTime(k), dfs.s, dfs.sub) /\ k = n
    BY <2>2, <2>3
  <2> HIDE DEF t, k
  <2>6. TodOf(f, su) = WithSeconds(t, s, b)
    BY ONLY <2>1, <2>4, <2>5
  <2> QED BY <2>6 DEF t
<1>6. WithSeconds(TimeSplit(h, m, 0, 0, FALSE), s, b) = TimeSplit(h, m, s, b, FALSE)
  <2> DEFINE o == 0
             neg == FALSE
             t == TimeSplit(h, m, o, o, neg)
             p == [t EXCEPT !.s = s]
             q == [p EXCEPT !.sub = b]
  <2>1. o \in Int /\ neg \in BOOLEAN
    OBVIOUS
  <2> HIDE DEF o, neg
  <2>2. t \in Times /\ t.h = h /\ t.m = m /\ t.mode = "24h" /\ t.neg = neg
    BY <2>1, SplitFields
  <2> HIDE DEF t
  <2>3. p \in Times /\ p.s = s /\ p.h = h /\ p.m = m /\ p.mode = "24h" /\ p.neg = neg
    BY <2>2 DEF Times
  <2> HIDE DEF p
  <2>4. q \in Times /\ q.s = s /\ q.sub = b /\ q.h = h /\ q.m = m /\ q.mode = "24h" /\ q.neg = neg
    BY <2>3 DEF Times
  <2>5. WithSeconds(t, s, b) = q
    BY DEF p, WithSeconds
  <2> HIDE DEF q
  <2>6. q = TimeSplit(h, m, s, b, neg)
    BY <2>4, SplitIs
  <2>7. WithSeconds(t, s, b) = TimeSplit(h, m, s, b, neg)
    BY <2>5, <2>6, Zenon
  <2> QED BY <2>7, Zenon DEF t, o, neg
<1> QED BY <1>5, <1>6, Zenon DEF TimeRead

\* What is read when the fields name a date and a time of the day.
TicksRead(days, secs, b, v) ==
  LET rest == (secs * Precision(StreamUnit(v))) + b
  IN  (days * v) + (IF v < 86400 THEN Trunc(rest, 86400 \div v)
                    ELSE Trunc(rest * PerSecond(v), Precision(v)))

Answer(t) == [fail |-> FALSE, tp |-> t]
NotBroken(f) == ~f.fail

\* What is read, when the fields name a date and a time of the day.
LEMMA ReadIs ==
  ASSUME NEW format, NEW text, NEW v, NEW f, f = ReadFields(format, text, StreamUnit(v)),
         NEW h \in Int, NEW m \in Int, NEW s \in Int, NEW b \in Int,
         f.h = h, f.min = m, In(h, 0, 23), In(m, 0, 59), In(s, 0, 59),
         DecimalSeconds(f.s, StreamUnit(v)).s = s, DecimalSeconds(f.s, StreamUnit(v)).sub = b,
         b < Precision(StreamUnit(v)),
         NotBroken(Resolve(f)), NEW ymd, DateOf(Resolve(f)) = ymd, DateOK(ymd)
  PROVE  Read(format, text, v)
           = Answer(TicksRead(ToDays(ymd), SecondsOf(h, m, s) - (60 * f.z), b, v))
<1> DEFINE su == StreamUnit(v)
           full == Resolve(f)
           tod == TodOf(f, su)
           secs == ToDuration(tod)[1] - (60 * f.z)
           rest == (secs * Precision(su)) + ToDuration(tod)[2]
           ticks == (ToDays(DateOf(full)) * v)
                              + (IF v < 86400 THEN Trunc(rest, 86400 \div v)
                                 ELSE Trunc(rest * PerSecond(v), Precision(v)))
<1>1. tod = TimeRead(h, m, s, b)
  BY TodRead
<1>2. InConventionalRange(tod, su)
  <2> DEFINE neg == FALSE
  <2>1. neg \in BOOLEAN
    OBVIOUS
  <2>2. tod = TimeSplit(h, m, s, b, neg)
    BY <1>1 DEF TimeRead
  <2> HIDE DEF tod
  <2>3. neg = FALSE
    OBVIOUS
  <2> HIDE DEF neg
  <2>4. tod.h = h /\ tod.m = m /\ tod.s = s /\ tod.sub = b /\ tod.neg = neg
    BY <2>1, <2>2, SplitFields
  <2>5. tod.h < 24 /\ tod.m < 60 /\ tod.s < 60 /\ tod.sub < Precision(su)
    BY <2>4, SMT DEF In
  <2>6. ~tod.neg
    BY <2>3, <2>4
  <2> QED BY <2>5, <2>6 DEF InConventionalRange
<1>3. ToDuration(tod) = <<SecondsOf(h, m, s), b>>
  <2> DEFINE neg == FALSE
  <2>1. neg \in BOOLEAN /\ ~neg
    OBVIOUS
  <2>2. tod = TimeSplit(h, m, s, b, neg)
    BY <1>1 DEF TimeRead
  <2> HIDE DEF neg, tod
  <2>3. ToDuration(TimeSplit(h, m, s, b, neg))
          = IF neg THEN <<-(SecondsOf(h, m, s)), -b>> ELSE <<SecondsOf(h, m, s), b>>
    BY <2>1, DurationOf
  <2> QED BY <2>1, <2>2, <2>3
<1>4. secs = SecondsOf(h, m, s) - (60 * f.z) /\ rest = (secs * Precision(su)) + b
  <2> HIDE DEF tod
  <2> QED BY <1>3
<1>5. ticks = TicksRead(ToDays(ymd), SecondsOf(h, m, s) - (60 * f.z), b, v)
  <2> HIDE DEF secs, full, rest
  <2>1. rest = ((SecondsOf(h, m, s) - (60 * f.z)) * Precision(su)) + b
    BY <1>4
  <2>2. DateOf(full) = ymd
    BY DEF full
  <2> QED BY <2>1, <2>2 DEF TicksRead
<1>6. Read(format, text, v) = Answer(ticks)
  <2>1. ~full.fail /\ DateOK(DateOf(full))
    BY DEF NotBroken
  <2>2. Read(format, text, v)
          = IF full.fail \/ ~DateOK(DateOf(full)) \/ ~InConventionalRange(tod, su)
            THEN [fail |-> TRUE] ELSE Answer(ticks)
    BY DEF Read, Answer
  <2> HIDE DEF full, tod, ticks, su
  <2> QED BY <1>2, <2>1, <2>2
<1> HIDE DEF ticks
<1> QED BY ONLY <1>5, <1>6

\* The time of the day at midnight.
LEMMA Midnight ==
  /\ DecimalSeconds(0, 86400).s = 0 /\ DecimalSeconds(0, 86400).sub = 0
  /\ \A days \in Int : TicksRead(days, 0, 0, 1) = days
<1>1. Quot(0, 1) = 0 /\ Quot(0, 86400) = 0
  BY SMT DEF Quot, Magnitude
<1>2. DecimalSeconds(0, 86400).s = 0
  BY <1>1, WholeSeconds, SMT DEF DecimalSeconds, Trunc
<1>3. DecimalSeconds(0, 86400).sub = 0
  BY <1>1, WholeSeconds, SMT DEF DecimalSeconds, Trunc
<1>4. ASSUME NEW days \in Int PROVE TicksRead(days, 0, 0, 1) = days
  <2>1. StreamUnit(1) = 86400
    BY SMT DEF StreamUnit
  <2>2. TicksRead(days, 0, 0, 1) = (days * 1) + Quot((0 * 1) + 0, 86400 \div 1)
    BY <2>1, WholeSeconds, SMT DEF TicksRead, Trunc
  <2>3. (0 * 1) + 0 = 0 /\ 86400 \div 1 = 86400
    BY SMT
  <2>4. TicksRead(days, 0, 0, 1) = (days * 1) + Quot(0, 86400)
    BY <2>2, <2>3
  <2> QED BY <1>1, <2>4, SMT
<1> QED BY <1>2, <1>3, <1>4

\* A date is read from a format of a date only.
LEMMA DateRead ==
  ASSUME NEW format, NEW text, NEW f, f = ReadFields(format, text, 86400),
         f.h = 0, f.min = 0, f.s = 0, f.z = 0,
         NEW ymd, DateIn(ymd), NotBroken(Resolve(f)), DateOf(Resolve(f)) = ymd
  PROVE  Read(format, text, 1) = Answer(ToDays(ymd))
<1> DEFINE o == 0
           v == 1
<1>1. StreamUnit(v) = 86400 /\ o \in Int /\ In(o, 0, 23) /\ In(o, 0, 59)
  BY SMT DEF StreamUnit, In
<1>2. /\ f.h = o /\ f.min = o
      /\ DecimalSeconds(f.s, StreamUnit(v)).s = o /\ DecimalSeconds(f.s, StreamUnit(v)).sub = o
      /\ o < Precision(StreamUnit(v))
  BY <1>1, Midnight, WholeSeconds
<1>3. /\ f = ReadFields(format, text, StreamUnit(v)) /\ NotBroken(Resolve(f))
      /\ DateOf(Resolve(f)) = ymd /\ DateOK(ymd)
  BY <1>1 DEF DateIn
<1>4. Read(format, text, v)
        = Answer(TicksRead(ToDays(ymd), SecondsOf(o, o, o) - (60 * f.z), o, v))
  <2> HIDE DEF o, v
  <2> QED BY ONLY <1>1, <1>2, <1>3, ReadIs
<1>5. SecondsOf(o, o, o) - (60 * f.z) = 0
  BY SMT DEF SecondsOf
<1>6. ToDays(ymd) \in Int
  BY DaysAreInt
<1>7. TicksRead(ToDays(ymd), SecondsOf(o, o, o) - (60 * f.z), o, v) = ToDays(ymd)
  BY <1>5, <1>6, Midnight
<1> QED BY <1>4, <1>7

\* A date whose fields hold it.
LEMMA DateHeld ==
  ASSUME NEW f, NEW ymd, DateIn(ymd), In(ymd.y, -32768, 32767),
         f.Y = ymd.y, f.m = ymd.m, f.d = ymd.d
  PROVE  DateOf(f) = ymd
<1>1. /\ ymd.y \in Int /\ ymd.m \in 1..12 /\ ymd.d \in 1..DaysIn(ymd.y, ymd.m)
      /\ DaysIn(ymd.y, ymd.m) \in 28..31 /\ ymd = Date(ymd.y, ymd.m, ymd.d)
  BY FieldsOfDate
<1>2. In(ymd.m, 1, 12) /\ In(ymd.d, 1, 31) /\ ymd.m \in Int /\ ymd.d \in Int
  BY <1>1, SMT DEF In
<1>3. Year(ymd.y) = ymd.y /\ Month(ymd.m) = ymd.m /\ Day(ymd.d) = ymd.d
  BY <1>1, <1>2, FieldsHold
<1> QED BY <1>1, <1>3 DEF DateOf

\* Fields that are the same but for some of them.
FieldNames == NumberFields \cup {"s", "z", "fail"}
Others(f, g, X) == \A c \in FieldNames \ X : g[c] = f[c]

\* Numbers are kept in their fields, and the other fields stay.
LEMMA KeptOnly ==
  ASSUME NEW f \in FieldSet, NEW x \in NumberFields, NEW n \in Int, NEW u,
         NEW g, g = Kept(f, x, n, u)
  PROVE  g \in FieldSet /\ g[x] = n /\ Others(f, g, {x})
<1>1. g = [f EXCEPT ![x] = n]
  <2>1. x # "u" /\ x # "s" /\ x # "zh" /\ x # "zm"
    BY DEF NumberFields
  <2> QED BY <2>1 DEF Kept
<1>2. [f EXCEPT ![x] = n] \in FieldSet
  BY DEF FieldSet, NumberFields
<1>3. x \in DOMAIN f
  BY DEF FieldSet, NumberFields
<1>4. \A c \in FieldNames : c \in DOMAIN f
  BY DEF FieldSet, NumberFields, FieldNames
<1> QED BY <1>1, <1>2, <1>3, <1>4 DEF Others

\* What two steps leave alone is what neither of them changes.
LEMMA OthersOfBoth ==
  ASSUME NEW f, NEW g, NEW h, NEW X, NEW Y, Others(f, g, X), Others(g, h, Y)
  PROVE  Others(f, h, X \cup Y)
BY DEF Others

\* Two numbers kept in different fields are both there.
LEMMA TwoKept ==
  ASSUME NEW fa \in NumberFields, NEW fb \in NumberFields, fa # fb,
         NEW a \in Int, NEW b \in Int, NEW u,
         NEW f, f = Kept(Kept(NoFields, fa, a, u), fb, b, u)
  PROVE  f \in FieldSet /\ f[fa] = a /\ f[fb] = b /\ Others(NoFields, f, {fa, fb})
<1> DEFINE p == Kept(NoFields, fa, a, u)
<1>1. p \in FieldSet /\ p[fa] = a /\ Others(NoFields, p, {fa})
  BY NoFieldsTyped, KeptOnly
<1>2. f = Kept(p, fb, b, u)
  OBVIOUS
<1> HIDE DEF p
<1>3. f \in FieldSet /\ f[fb] = b /\ Others(p, f, {fb})
  BY <1>1, <1>2, KeptOnly
<1>4. fa \in FieldNames /\ fb \in FieldNames
  BY DEF FieldNames
<1> QED BY <1>1, <1>3, <1>4 DEF Others

\* So are three.
LEMMA ThreeKept ==
  ASSUME NEW fa \in NumberFields, NEW fb \in NumberFields, NEW fc \in NumberFields,
         fa # fb, fa # fc, fb # fc,
         NEW a \in Int, NEW b \in Int, NEW c \in Int, NEW u,
         NEW f, f = Kept(Kept(Kept(NoFields, fa, a, u), fb, b, u), fc, c, u)
  PROVE  /\ f \in FieldSet /\ f[fa] = a /\ f[fb] = b /\ f[fc] = c
         /\ Others(NoFields, f, {fa, fb, fc})
<1> DEFINE p == Kept(Kept(NoFields, fa, a, u), fb, b, u)
<1>1. p \in FieldSet /\ p[fa] = a /\ p[fb] = b /\ Others(NoFields, p, {fa, fb})
  BY TwoKept
<1>2. f = Kept(p, fc, c, u)
  OBVIOUS
<1> HIDE DEF p
<1>3. f \in FieldSet /\ f[fc] = c /\ Others(p, f, {fc})
  BY <1>1, <1>2, KeptOnly
<1>4. fa \in FieldNames /\ fb \in FieldNames /\ fc \in FieldNames
  BY DEF FieldNames
<1> QED BY <1>1, <1>3, <1>4 DEF Others

\* So are four.
LEMMA FourKept ==
  ASSUME NEW fa \in NumberFields, NEW fb \in NumberFields, NEW fc \in NumberFields,
         NEW fd \in NumberFields,
         fa # fb, fa # fc, fb # fc, fa # fd, fb # fd, fc # fd,
         NEW a \in Int, NEW b \in Int, NEW c \in Int, NEW d \in Int, NEW u,
         NEW f, f = Kept(Kept(Kept(Kept(NoFields, fa, a, u), fb, b, u), fc, c, u), fd, d, u)
  PROVE  /\ f \in FieldSet /\ f[fa] = a /\ f[fb] = b /\ f[fc] = c /\ f[fd] = d
         /\ Others(NoFields, f, {fa, fb, fc, fd})
<1> DEFINE p == Kept(Kept(Kept(NoFields, fa, a, u), fb, b, u), fc, c, u)
<1>1. p \in FieldSet /\ p[fa] = a /\ p[fb] = b /\ p[fc] = c /\ Others(NoFields, p, {fa, fb, fc})
  BY ThreeKept
<1>2. f = Kept(p, fd, d, u)
  OBVIOUS
<1> HIDE DEF p
<1>3. f \in FieldSet /\ f[fd] = d /\ Others(p, f, {fd})
  BY <1>1, <1>2, KeptOnly
<1>4. fa \in FieldNames /\ fb \in FieldNames /\ fc \in FieldNames /\ fd \in FieldNames
  BY DEF FieldNames
<1> QED BY <1>1, <1>3, <1>4 DEF Others

\* Sunday is 7 for %u.
LEMMA WeekdayKept ==
  ASSUME NEW f, NEW wd \in 0 .. 6, NEW u
  PROVE  Kept(f, "u", IsoWeekday(wd), u) = Kept(f, "wd", wd, u)
<1>1. (IF IsoWeekday(wd) = 7 THEN 0 ELSE IsoWeekday(wd)) = wd
  BY SMT DEF IsoWeekday
<1>2. Kept(f, "u", IsoWeekday(wd), u) = [f EXCEPT !["wd"] = IF IsoWeekday(wd) = 7 THEN 0 ELSE IsoWeekday(wd)]
  BY DEF Kept
<1>3. Kept(f, "wd", wd, u) = [f EXCEPT !["wd"] = wd]
  BY DEF Kept
<1> QED BY <1>1, <1>2, <1>3

(*****************************************************************************)
(* Fields that are kept, and the date that they name.                        *)
(*****************************************************************************)

\* Fields that have not been read.
LEMMA Unread ==
  ASSUME NEW f, NEW X, Others(NoFields, f, X)
  PROVE  /\ "Y" \notin X => f.Y = NoYear
         /\ "C" \notin X => f.C = NoCentury
         /\ "yy" \notin X => f.yy = No2Digits
         /\ "m" \notin X => f.m = 0
         /\ "d" \notin X => f.d = 0
         /\ "j" \notin X => f.j = 0
         /\ "wd" \notin X => f.wd = NoWeekday
         /\ "g" \notin X => f.g = No2Digits
         /\ "G" \notin X => f.G = NoYear
         /\ "V" \notin X => f.V = NoWeek
         /\ "U" \notin X => f.U = NoWeek
         /\ "W" \notin X => f.W = NoWeek
         /\ "h" \notin X => f.h = 0
         /\ "min" \notin X => f.min = 0
         /\ "s" \notin X => f.s = 0
         /\ "z" \notin X => f.z = 0
         /\ "fail" \notin X => NotBroken(f)
<1>1. \A c \in FieldNames : c \notin X => f[c] = NoFields[c]
  BY DEF Others
<1>2. {"Y", "C", "yy", "m", "d", "j", "wd", "g", "G", "V", "U", "W", "h", "min", "s", "z", "fail"}
        \subseteq FieldNames
  BY DEF FieldNames, NumberFields
<1>3. /\ "Y" \notin X => f["Y"] = NoFields["Y"]
      /\ "C" \notin X => f["C"] = NoFields["C"]
      /\ "yy" \notin X => f["yy"] = NoFields["yy"]
      /\ "m" \notin X => f["m"] = NoFields["m"]
      /\ "d" \notin X => f["d"] = NoFields["d"]
      /\ "j" \notin X => f["j"] = NoFields["j"]
      /\ "wd" \notin X => f["wd"] = NoFields["wd"]
      /\ "g" \notin X => f["g"] = NoFields["g"]
      /\ "G" \notin X => f["G"] = NoFields["G"]
      /\ "V" \notin X => f["V"] = NoFields["V"]
      /\ "U" \notin X => f["U"] = NoFields["U"]
      /\ "W" \notin X => f["W"] = NoFields["W"]
      /\ "h" \notin X => f["h"] = NoFields["h"]
      /\ "min" \notin X => f["min"] = NoFields["min"]
      /\ "s" \notin X => f["s"] = NoFields["s"]
      /\ "z" \notin X => f["z"] = NoFields["z"]
  BY <1>1, <1>2
<1>4. ~NoFields.fail
  BY DEF NoFields
<1>5. "fail" \notin X => NotBroken(f)
  <2>1. "fail" \notin X => f["fail"] = NoFields["fail"]
    BY <1>1, <1>2
  <2> QED BY <1>4, <2>1 DEF NotBroken
<1>6. /\ NoFields["Y"] = NoYear /\ NoFields["C"] = NoCentury /\ NoFields["yy"] = No2Digits
      /\ NoFields["m"] = 0 /\ NoFields["d"] = 0 /\ NoFields["j"] = 0
      /\ NoFields["wd"] = NoWeekday /\ NoFields["g"] = No2Digits /\ NoFields["G"] = NoYear
      /\ NoFields["V"] = NoWeek /\ NoFields["U"] = NoWeek /\ NoFields["W"] = NoWeek
      /\ NoFields["h"] = 0 /\ NoFields["min"] = 0 /\ NoFields["s"] = 0 /\ NoFields["z"] = 0
  BY DEF NoFields
<1> QED BY ONLY <1>3, <1>5, <1>6

\* The steps of Resolve, one after the other.
LEMMA ResolvedInSteps ==
  ASSUME NEW f, NEW f1, NEW f2, NEW f3, NEW f4, NEW f5, NEW f6, NEW f7,
         f1 = WithYear(f), f2 = WithIsoYear(f1), f3 = FromIsoWeek(f2), f4 = FromDayOfYear(f3),
         f5 = FromWeekU(f4), f6 = FromWeekW(f5), f7 = Agreed(f6)
  PROVE  Resolve(f) = f7
BY DEF Resolve

\* Fields that name a date by its year, month and day are the fields of the date.
LEMMA ResolvedAsRead ==
  ASSUME NEW f, f.yy = No2Digits, f.g = No2Digits, f.G = NoYear, f.j = 0,
         f.U = NoWeek, f.W = NoWeek, f.wd = NoWeekday
  PROVE  Resolve(f) = f
<1>1. /\ f = WithYear(f) /\ f = WithIsoYear(f) /\ f = FromIsoWeek(f) /\ f = FromDayOfYear(f)
      /\ f = FromWeekU(f) /\ f = FromWeekW(f) /\ f = Agreed(f)
  BY Skipped
<1> QED BY ONLY <1>1, ResolvedInSteps

\* A date, read by its year, month and day.
LEMMA YmdRead ==
  ASSUME NEW x, DateIn(x.ymd), In(x.ymd.y, -9900, 9999)
  PROVE  Read(<<"Y", "m", "d">>, Printed(<<"Y", "m", "d">>, x), 1) = Answer(ToDays(x.ymd))
<1> DEFINE u == 86400
           format == <<"Y", "m", "d">>
           text == Printed(format, x)
           f == ReadFields(format, text, u)
<1>1. f = Kept(Kept(Kept(NoFields, "Y", x.ymd.y, u), "m", x.ymd.m, u), "d", x.ymd.d, u)
  <2> HIDE DEF u
  <2>1. Carries("Y", x, u, "Y", x.ymd.y) /\ Carries("m", x, u, "m", x.ymd.m)
        /\ Carries("d", x, u, "d", x.ymd.d)
    BY DateCarried
  <2> QED BY ONLY <2>1, ThreeCarried
<1>2. x.ymd.y \in Int /\ x.ymd.m \in Int /\ x.ymd.d \in Int /\ In(x.ymd.y, -32768, 32767)
  <2>1. x.ymd.y \in Int /\ x.ymd.m \in Int /\ x.ymd.d \in Int
    BY DEF DateIn
  <2> QED BY <2>1, SMT DEF In
<1>3. /\ f \in FieldSet /\ f.Y = x.ymd.y /\ f.m = x.ymd.m /\ f.d = x.ymd.d
      /\ Others(NoFields, f, {"Y", "m", "d"})
  <2> HIDE DEF f, u
  <2> DEFINE fa == "Y"
             fb == "m"
             fc == "d"
  <2>1. fa \in NumberFields /\ fb \in NumberFields /\ fc \in NumberFields
        /\ fa # fb /\ fa # fc /\ fb # fc
    BY DEF NumberFields
  <2>2. f = Kept(Kept(Kept(NoFields, fa, x.ymd.y, u), fb, x.ymd.m, u), fc, x.ymd.d, u)
    BY <1>1
  <2> HIDE DEF fa, fb, fc
  <2>3. /\ f \in FieldSet /\ f[fa] = x.ymd.y /\ f[fb] = x.ymd.m /\ f[fc] = x.ymd.d
        /\ Others(NoFields, f, {fa, fb, fc})
    BY ONLY <1>2, <2>1, <2>2, ThreeKept
  <2> QED BY <2>3 DEF fa, fb, fc
<1> HIDE DEF f
<1>4. /\ f.yy = No2Digits /\ f.g = No2Digits /\ f.G = NoYear /\ f.j = 0
      /\ f.U = NoWeek /\ f.W = NoWeek /\ f.wd = NoWeekday
      /\ f.h = 0 /\ f.min = 0 /\ f.s = 0 /\ f.z = 0 /\ NotBroken(f)
  BY <1>3, Unread
<1>5. Resolve(f) = f
  BY <1>4, ResolvedAsRead
<1>6. DateOf(Resolve(f)) = x.ymd /\ NotBroken(Resolve(f))
  BY <1>2, <1>3, <1>4, <1>5, DateHeld
<1>7. f = ReadFields(format, text, 86400)
  BY DEF f
<1> HIDE DEF format, text
<1>8. Read(format, text, 1) = Answer(ToDays(x.ymd))
  BY <1>4, <1>6, <1>7, DateRead
<1> QED BY <1>8 DEF format, text

\* The century and the year of the century make the year.
LEMMA CenturyAndYear ==
  ASSUME NEW y \in Int, In(y, -9900, 9999)
  PROVE  /\ YearOfCentury(y) \in 0 .. 99 /\ YearOfCentury(y) = Magnitude(y) % 100
         /\ Century(y) \in Int /\ Century(y) # NoCentury
         /\ FullYear(Century(y), YearOfCentury(y)) = y
<1>1. YearOfCentury(y) = Magnitude(y) % 100 /\ Magnitude(y) \in Nat
  <2>1. Magnitude(y) \in Nat
    BY SMT DEF Magnitude
  <2>2. Rem(Magnitude(y), 100) = Magnitude(y) % 100
    BY <2>1, RemOf
  <2> QED BY <2>1, <2>2 DEF YearOfCentury
<1>2. Century(y) = IF y >= 0 THEN y \div 100 ELSE -((99 - y) \div 100)
  BY CenturyIs
<1>3. -9900 <= y /\ y <= 9999
  BY DEF In
<1>4. Century(y) \in Int /\ Century(y) # 330 /\ YearOfCentury(y) \in 0 .. 99
  BY <1>1, <1>2, <1>3, SMT
<1>5. NoCentury = 330
  BY SMT DEF NoCentury, NoYear
<1>6. CASE y >= 0
  <2>1. Magnitude(y) = y
    BY <1>6, SMT DEF Magnitude
  <2> QED BY <1>1, <1>2, <1>4, <1>5, <1>6, <2>1, SMT DEF FullYear
<1>7. CASE y < 0
  <2> DEFINE n == -y
             q == (99 - y) \div 100
             r == n % 100
  <2>1. Magnitude(y) = n /\ n \in Int /\ n > 0
    BY <1>7, SMT DEF Magnitude
  <2>2. n = (100 * (n \div 100)) + r /\ r \in 0..99 /\ n \div 100 \in Int
    BY <2>1, SMT
  <2>3. q = IF r = 0 THEN n \div 100 ELSE (n \div 100) + 1
    BY <2>1, <2>2, SMT
  <2>4. Century(y) = -q /\ YearOfCentury(y) = r /\ -q < 0 /\ q \in Int
    BY <1>1, <1>2, <1>7, <2>1, <2>2, <2>3, SMT
  <2> HIDE DEF q, r
  <2>5. FullYear(Century(y), YearOfCentury(y)) = (100 * ((-q) + 1)) - (IF r = 0 THEN 100 ELSE r)
    BY <2>4, SMT DEF FullYear
  <2>6. (100 * ((-q) + 1)) - (IF r = 0 THEN 100 ELSE r) = y
    BY <2>1, <2>2, <2>3, <2>4, SMT
  <2> QED BY <1>1, <1>4, <1>5, <2>5, <2>6
<1> QED BY <1>6, <1>7, SMT

WithBoth(f, fa, a, fb, b) == [f EXCEPT ![fa] = a, ![fb] = b]

\* Two fields changed, one after the other.
LEMMA TwoChanged ==
  ASSUME NEW f \in FieldSet, NEW fa \in NumberFields, NEW fb \in NumberFields, fa # fb,
         NEW a \in Int, NEW b \in Int, NEW g, g = WithBoth(f, fa, a, fb, b)
  PROVE  g \in FieldSet /\ g[fa] = a /\ g[fb] = b /\ Others(f, g, {fa, fb})
<1> DEFINE p == [f EXCEPT ![fa] = a]
<1>1. p \in FieldSet /\ p[fa] = a /\ \A c \in FieldNames \ {fa} : p[c] = f[c]
  BY DEF FieldSet, NumberFields, FieldNames
<1>2. g = [p EXCEPT ![fb] = b]
  BY DEF WithBoth
<1> HIDE DEF p
<1>3. g \in FieldSet /\ g[fb] = b /\ \A c \in FieldNames \ {fb} : g[c] = p[c]
  BY <1>1, <1>2 DEF FieldSet, NumberFields, FieldNames
<1>4. fa \in FieldNames /\ fb \in FieldNames
  BY DEF FieldNames
<1> QED BY <1>1, <1>3, <1>4 DEF Others

\* Two digits of a year are completed to the year.
LEMMA YearCompleted ==
  ASSUME NEW f \in FieldSet, f.yy \in 0 .. 99, f.Y = NoYear,
         NEW c \in Int, c = CenturyOf(f.Y, f.C, f.yy), NEW y \in Int, FullYear(c, f.yy) = y,
         NEW g, g = WithYear(f)
  PROVE  g \in FieldSet /\ g.Y = y /\ Others(f, g, {"C", "Y"})
<1>1. g = [f EXCEPT !.C = c, !.Y = y]
  <2>1. f.yy # No2Digits
    BY SMT DEF No2Digits
  <2> QED BY <2>1 DEF WithYear
<1>2. "C" \in NumberFields /\ "Y" \in NumberFields
  BY DEF NumberFields
<1>3. g["Y"] = y /\ g \in FieldSet /\ Others(f, g, {"C", "Y"})
  <2> DEFINE fa == "C"
             fb == "Y"
  <2>1. g = WithBoth(f, fa, c, fb, y) /\ fa # fb /\ fa \in NumberFields /\ fb \in NumberFields
    BY <1>1, <1>2 DEF WithBoth
  <2> HIDE DEF fa, fb
  <2>2. g[fb] = y /\ g \in FieldSet /\ Others(f, g, {fa, fb})
    BY <2>1, TwoChanged
  <2> QED BY <2>2 DEF fa, fb
<1> QED BY <1>3

\* The year of two digits by ISO 8601 becomes a year.
LEMMA IsoYearCompleted ==
  ASSUME NEW f \in FieldSet, f.g \in 0 .. 99, f.G = NoYear,
         NEW c \in Int, c = CenturyOf(f.G, f.C, f.g), NEW y \in Int, FullYear(c, f.g) = y,
         NEW g, g = WithIsoYear(f)
  PROVE  g \in FieldSet /\ g.G = y /\ Others(f, g, {"C", "G"})
<1>1. g = [f EXCEPT !.C = c, !.G = y]
  <2>1. f.g # No2Digits
    BY SMT DEF No2Digits
  <2> QED BY <2>1 DEF WithIsoYear
<1>2. "C" \in NumberFields /\ "G" \in NumberFields
  BY DEF NumberFields
<1>3. g["G"] = y /\ g \in FieldSet /\ Others(f, g, {"C", "G"})
  <2> DEFINE fa == "C"
             fb == "G"
  <2>1. g = WithBoth(f, fa, c, fb, y) /\ fa # fb /\ fa \in NumberFields /\ fb \in NumberFields
    BY <1>1, <1>2 DEF WithBoth
  <2> HIDE DEF fa, fb
  <2>2. g[fb] = y /\ g \in FieldSet /\ Others(f, g, {fa, fb})
    BY <2>1, TwoChanged
  <2> QED BY <2>2 DEF fa, fb
<1> QED BY <1>3

\* Month and day of a date that is found are filled in.
LEMMA DateCompleted ==
  ASSUME NEW f \in FieldSet, f.m = 0, f.d = 0, NEW ymd,
         NEW m \in Int, ymd.m = m, NEW d \in Int, ymd.d = d,
         NEW g, g = Completed(f, ymd)
  PROVE  g \in FieldSet /\ g.m = m /\ g.d = d /\ Others(f, g, {"m", "d"})
<1>1. g = [f EXCEPT !.m = m, !.d = d]
  BY NoDateYet
<1>2. "m" \in NumberFields /\ "d" \in NumberFields
  BY DEF NumberFields
<1>3. g["m"] = m /\ g["d"] = d /\ g \in FieldSet /\ Others(f, g, {"m", "d"})
  <2> DEFINE fa == "m"
             fb == "d"
  <2>1. g = WithBoth(f, fa, m, fb, d) /\ fa # fb
        /\ fa \in NumberFields /\ fb \in NumberFields
    BY <1>1, <1>2 DEF WithBoth
  <2> HIDE DEF fa, fb
  <2>2. g[fa] = m /\ g[fb] = d /\ g \in FieldSet /\ Others(f, g, {fa, fb})
    BY <2>1, TwoChanged
  <2> QED BY <2>2 DEF fa, fb
<1> QED BY <1>3

(*****************************************************************************)
(* Dates by their fields, by century, and by the day of the year.            *)
(*****************************************************************************)

\* What is left of a text of a date when its fields are those of the date.
LEMMA DateResolved ==
  ASSUME NEW format, NEW text, NEW f, f = ReadFields(format, text, 86400),
         NEW X, Others(NoFields, f, X), "h" \notin X, "min" \notin X, "s" \notin X, "z" \notin X,
         NEW full, Resolve(f) = full, NEW Y, Others(NoFields, full, Y), "fail" \notin Y,
         NEW ymd, DateIn(ymd), In(ymd.y, -32768, 32767),
         full.Y = ymd.y, full.m = ymd.m, full.d = ymd.d
  PROVE  Read(format, text, 1) = Answer(ToDays(ymd))
<1>1. f.h = 0 /\ f.min = 0 /\ f.s = 0 /\ f.z = 0
  BY Unread
<1>2. NotBroken(Resolve(f))
  BY Unread
<1>3. DateOf(Resolve(f)) = ymd
  BY DateHeld
<1> QED BY <1>1, <1>2, <1>3, DateRead

\* The fields of a date, and the date of its count of days.
LEMMA DateParts ==
  ASSUME NEW ymd, DateIn(ymd), In(ymd.y, -9900, 9999)
  PROVE  /\ ymd.y \in Int /\ ymd.m \in Int /\ ymd.d \in Int
         /\ ymd.m # 0 /\ ymd.d # 0 /\ In(ymd.y, -32768, 32767) /\ In(ymd.y, -32767, 32766)
         /\ InYears(ToDays(ymd)) /\ ToDays(ymd) \in Int
         /\ FromDays(ToDays(ymd)) = ymd
<1>1. /\ ymd.y \in Int /\ ymd.m \in 1..12 /\ ymd.d \in 1..DaysIn(ymd.y, ymd.m)
      /\ DaysIn(ymd.y, ymd.m) \in 28..31
  BY FieldsOfDate
<1>2. In(ymd.y, -32768, 32767) /\ In(ymd.y, -32767, 32766)
  BY <1>1, SMT DEF In
<1>3. InYears(ToDays(ymd)) /\ ToDays(ymd) \in Int
  <2>1. In(ToDays(ymd), -12687428, 11248372)
    BY <1>2, DaysOfThoseYears
  <2> QED BY <2>1, SMT DEF In, InYears
<1>4. FromDays(ToDays(ymd)) = ymd
  BY <1>3, DateOfADay
<1> QED BY <1>1, <1>2, <1>3, <1>4, SMT

\* A date, read by the century, the year in it, the month and the day.
LEMMA CymdRead ==
  ASSUME NEW x, DateIn(x.ymd), In(x.ymd.y, -9900, 9999)
  PROVE  Read(<<"C", "y", "m", "d">>, Printed(<<"C", "y", "m", "d">>, x), 1) = Answer(ToDays(x.ymd))
<1> DEFINE u == 86400
           format == <<"C", "y", "m", "d">>
           text == Printed(format, x)
           f == ReadFields(format, text, u)
           c == Century(x.ymd.y)
           yy == YearOfCentury(x.ymd.y)
           y == x.ymd.y
           m == x.ymd.m
           d == x.ymd.d
           fa == "C"
           fb == "yy"
           fc == "m"
           fd == "d"
<1>1. f = Kept(Kept(Kept(Kept(NoFields, fa, c, u), fb, yy, u), fc, m, u), fd, d, u)
  <2> HIDE DEF u, y, c, yy, m, d
  <2>1. Carries("C", x, u, "C", c) /\ Carries("y", x, u, "yy", yy) /\ Carries("m", x, u, "m", m)
        /\ Carries("d", x, u, "d", d)
    BY DateCarried DEF c, yy, m, d
  <2> QED BY ONLY <2>1, FourCarried
<1>2. y \in Int /\ m \in Int /\ d \in Int /\ In(y, -32768, 32767) /\ In(y, -9900, 9999)
  BY DateParts
<1>3. yy \in 0 .. 99 /\ c \in Int /\ c # NoCentury /\ FullYear(c, yy) = y /\ yy \in Int
  <2>1. yy \in 0 .. 99 /\ c \in Int /\ c # NoCentury /\ FullYear(c, yy) = y
    BY <1>2, CenturyAndYear
  <2> QED BY <2>1
<1>4. /\ f \in FieldSet /\ f.C = c /\ f.yy = yy /\ f.m = m /\ f.d = d
      /\ Others(NoFields, f, {"C", "yy", "m", "d"})
  <2>1. fa \in NumberFields /\ fb \in NumberFields /\ fc \in NumberFields /\ fd \in NumberFields
        /\ fa # fb /\ fa # fc /\ fb # fc /\ fa # fd /\ fb # fd /\ fc # fd
    BY DEF NumberFields
  <2> HIDE DEF fa, fb, fc, fd, f, u, c, yy, m, d
  <2>2. /\ f \in FieldSet /\ f[fa] = c /\ f[fb] = yy /\ f[fc] = m /\ f[fd] = d
        /\ Others(NoFields, f, {fa, fb, fc, fd})
    <3>1. c \in Int /\ yy \in Int /\ m \in Int /\ d \in Int
      BY <1>2, <1>3
    <3> QED BY ONLY <1>1, <2>1, <3>1, FourKept
  <2> QED BY <2>2 DEF fa, fb, fc, fd
<1> HIDE DEF f
<1> DEFINE g == WithYear(f)
<1>5. g \in FieldSet /\ g.Y = y /\ Others(f, g, {"C", "Y"})
  <2>1. f.yy \in 0 .. 99 /\ f.Y = NoYear
    BY <1>3, <1>4, Unread
  <2>2. c = CenturyOf(f.Y, f.C, f.yy) /\ FullYear(c, f.yy) = y
    BY <1>3, <1>4 DEF CenturyOf
  <2> HIDE DEF g, c, y, yy
  <2> QED BY <1>2, <1>3, <1>4, <2>1, <2>2, YearCompleted DEF g
<1>6. g.m = m /\ g.d = d
  <2>1. g["m"] = f["m"] /\ g["d"] = f["d"]
    BY <1>5 DEF Others, FieldNames, NumberFields
  <2> QED BY <1>4, <2>1
<1>7. Others(NoFields, g, {"C", "yy", "m", "d"} \cup {"C", "Y"})
  BY <1>4, <1>5, OthersOfBoth
<1>8. Resolve(f) = g
  <2>1. /\ g.g = No2Digits /\ g.G = NoYear /\ g.j = 0
        /\ g.U = NoWeek /\ g.W = NoWeek /\ g.wd = NoWeekday
    <3> HIDE DEF g
    <3> QED BY <1>7, Unread
  <2> HIDE DEF g
  <2>2. /\ g = WithIsoYear(g) /\ g = FromIsoWeek(g) /\ g = FromDayOfYear(g)
        /\ g = FromWeekU(g) /\ g = FromWeekW(g) /\ g = Agreed(g)
    BY <2>1, Skipped
  <2>3. g = WithYear(f)
    BY DEF g
  <2> QED BY ONLY <2>2, <2>3, ResolvedInSteps
<1>9. f = ReadFields(format, text, 86400)
  BY DEF f
<1> HIDE DEF format, text, g
<1>10. /\ "h" \notin {"C", "yy", "m", "d"} /\ "min" \notin {"C", "yy", "m", "d"}
       /\ "s" \notin {"C", "yy", "m", "d"} /\ "z" \notin {"C", "yy", "m", "d"}
       /\ "fail" \notin {"C", "yy", "m", "d"} \cup {"C", "Y"}
  OBVIOUS
<1>11. Read(format, text, 1) = Answer(ToDays(x.ymd))
  BY <1>2, <1>4, <1>5, <1>6, <1>7, <1>8, <1>9, <1>10, DateResolved
<1> QED BY <1>11 DEF format, text

\* A date, read by the year and the day of the year.
LEMMA YjRead ==
  ASSUME NEW x, DateIn(x.ymd), In(x.ymd.y, -9900, 9999)
  PROVE  Read(<<"Y", "j">>, Printed(<<"Y", "j">>, x), 1) = Answer(ToDays(x.ymd))
<1> DEFINE u == 86400
           format == <<"Y", "j">>
           text == Printed(format, x)
           f == ReadFields(format, text, u)
           ymd == x.ymd
           y == ymd.y
           m == ymd.m
           d == ymd.d
           j == NumberInYear(ymd)
           fa == "Y"
           fb == "j"
<1>1. f = Kept(Kept(NoFields, fa, y, u), fb, j, u)
  <2> HIDE DEF u, j, y
  <2>1. Carries("Y", x, u, "Y", y) /\ Carries("j", x, u, "j", j)
    BY DateCarried DEF y, j
  <2> QED BY ONLY <2>1, TwoCarried
<1>2. /\ y \in Int /\ m \in Int /\ d \in Int /\ In(y, -32768, 32767) /\ FromDays(ToDays(ymd)) = ymd
      /\ ToDays(ymd) \in Int
  BY DateParts
<1>3. j \in Int /\ j > 0
  BY NumbersInYear
<1>4. f \in FieldSet /\ f.Y = y /\ f.j = j /\ Others(NoFields, f, {"Y", "j"})
  <2>1. fa \in NumberFields /\ fb \in NumberFields /\ fa # fb /\ y \in Int /\ j \in Int
    BY <1>2, <1>3 DEF NumberFields
  <2> HIDE DEF fa, fb, f, u, y, j
  <2>2. f \in FieldSet /\ f[fa] = y /\ f[fb] = j /\ Others(NoFields, f, {fa, fb})
    BY ONLY <1>1, <2>1, TwoKept
  <2> QED BY <2>2 DEF fa, fb
<1> HIDE DEF f
<1>5. f.m = 0 /\ f.d = 0 /\ f.yy = No2Digits /\ f.g = No2Digits /\ f.G = NoYear
  BY <1>4, Unread
<1> DEFINE g == FromDayOfYear(f)
<1>6. g = Completed(f, ymd)
  <2>1. Year(f.Y) = y
    BY <1>2, <1>4, FieldsHold
  <2>2. ToDays(Date(y, 1, 1)) \in Int
    BY <1>2, NewYearsDay
  <2>3. ToDays(Date(Year(f.Y), 1, 1)) + (f.j - 1) = ToDays(ymd)
    <3>1. ToDays(Date(Year(f.Y), 1, 1)) + (f.j - 1) = ToDays(Date(y, 1, 1)) + (j - 1)
      BY <1>4, <2>1
    <3>2. j = (ToDays(ymd) - ToDays(Date(y, 1, 1))) + 1
      BY DEF NumberInYear
    <3> HIDE DEF j, y, ymd
    <3> QED BY <1>2, <2>2, <3>1, <3>2, SMT
  <2>4. f.j # 0 /\ f.Y # NoYear
    BY <1>2, <1>3, <1>4, SMT DEF NoYear, In
  <2>5. g = Completed(f, FromDays(ToDays(Date(Year(f.Y), 1, 1)) + (f.j - 1)))
    BY <2>4 DEF FromDayOfYear
  <2> HIDE DEF g, ymd
  <2> QED BY <1>2, <2>3, <2>5
<1>7. g \in FieldSet /\ g.m = m /\ g.d = d /\ Others(f, g, {"m", "d"})
  <2> HIDE DEF g
  <2> QED BY <1>2, <1>4, <1>5, <1>6, DateCompleted
<1>8. g.Y = y
  <2>1. g["Y"] = f["Y"]
    BY <1>7 DEF Others, FieldNames, NumberFields
  <2> QED BY <1>4, <2>1
<1>9. Others(NoFields, g, {"Y", "j"} \cup {"m", "d"})
  BY <1>4, <1>7, OthersOfBoth
<1>10. Resolve(f) = g
  <2>1. g.U = NoWeek /\ g.W = NoWeek /\ g.wd = NoWeekday
    <3> HIDE DEF g
    <3> QED BY <1>9, Unread
  <2>2. f = WithYear(f) /\ f = WithIsoYear(f) /\ f = FromIsoWeek(f)
    BY <1>5, Skipped
  <2>3. g = FromDayOfYear(f)
    OBVIOUS
  <2> HIDE DEF g
  <2>4. g = FromWeekU(g) /\ g = FromWeekW(g) /\ g = Agreed(g)
    BY <2>1, Skipped
  <2> QED BY ONLY <2>2, <2>3, <2>4, ResolvedInSteps
<1>11. f = ReadFields(format, text, 86400)
  BY DEF f
<1> HIDE DEF format, text, g
<1>12. /\ "h" \notin {"Y", "j"} /\ "min" \notin {"Y", "j"} /\ "s" \notin {"Y", "j"}
       /\ "z" \notin {"Y", "j"} /\ "fail" \notin {"Y", "j"} \cup {"m", "d"}
  OBVIOUS
<1>13. Read(format, text, 1) = Answer(ToDays(ymd))
  BY <1>2, <1>4, <1>7, <1>8, <1>9, <1>10, <1>11, <1>12, DateResolved
<1> QED BY <1>13 DEF format, text

(*****************************************************************************)
(* Weeks: the first week of a year, by Sundays, by Mondays and by ISO 8601.  *)
(*****************************************************************************)

\* The quotient by 7 rounds down.
LEMMA Sevenths ==
  ASSUME NEW n \in Nat
  PROVE  Quot(n, 7) = n \div 7
<1> DEFINE h == 7
<1>1. h \in Int /\ h > 0 /\ h = 7
  OBVIOUS
<1> HIDE DEF h
<1>2. Quot(n, h) \in Int /\ Quot(n, h) * h <= n /\ n < (Quot(n, h) * h) + h
  BY <1>1, QuotBounds
<1> QED BY <1>1, <1>2, SMT

\* A day is found again from its week and weekday, counted from the start of the first week.
LEMMA DayOfWeek ==
  ASSUME NEW z \in Int, NEW start \in Int, start <= z, NEW from \in {0, 1},
         (start + 4) % 7 = from
  PROVE  (start + (7 * ((Quot(z - start, 7) + 1) - 1))) + WeekdayMinus((z + 4) % 7, from) = z
<1> DEFINE n == z - start
           q == n \div 7
           r == n % 7
<1>1. n \in Nat /\ n = (7 * q) + r /\ q \in Int /\ r \in 0..6 /\ z = start + n
  BY SMT
<1>2. Quot(n, 7) = q
  <2> HIDE DEF n
  <2> QED BY <1>1, Sevenths
<1>3. (z + 4) % 7 = IF r + from < 7 THEN r + from ELSE (r + from) - 7
  <2> DEFINE k == (start + 4) \div 7
  <2>1. start + 4 = (7 * k) + from /\ k \in Int
    BY SMT
  <2> HIDE DEF k, n, q, r
  <2>2. z + 4 = (7 * (k + q)) + (r + from)
    BY <1>1, <2>1, SMT
  <2> QED BY <1>1, <2>1, <2>2, SMT
<1>4. WeekdayMinus((z + 4) % 7, from) = r
  <2> HIDE DEF r
  <2> QED BY <1>1, <1>3, SMT DEF WeekdayMinus
<1> HIDE DEF q, r
<1> QED BY <1>1, <1>2, <1>4, SMT

\* One of three ways, by where a number lies.
LEMMA ThreeWays ==
  ASSUME NEW t \in Int, NEW n \in Nat, n > 0, NEW a, NEW b, NEW c
  PROVE  (CASE t < 1 -> a [] t > n -> b [] OTHER -> c)
           = IF t < 1 THEN a ELSE IF t > n THEN b ELSE c
<1>1. CASE t < 1
  BY <1>1, SMT
<1>2. CASE ~(t < 1) /\ t > n
  BY <1>2, SMT
<1>3. CASE ~(t < 1) /\ ~(t > n)
  BY <1>3, SMT
<1> QED BY <1>1, <1>2, <1>3

\* The year of the week of the date by ISO 8601, and the week in it.
LEMMA IsoWeeks ==
  ASSUME CalendarAssumption, Walked, WeeksHold, ByDays
  PROVE  LET r == IsoYear(date)
         IN  /\ r \in Int /\ r \in (date.y - 1) .. (date.y + 1)
             /\ IsoStart(r) \in Int /\ IsoStart(r) <= ToDays(date)
             /\ (IsoStart(r) + 4) % 7 = 1
             /\ IsoWeek(date) = Quot(ToDays(date) - IsoStart(r), 7) + 1
             /\ IsoWeek(date) \in 1 .. 53
<1> DEFINE z == ToDays(date)
           y == date.y
           T == ThursdayOf(z)
           thursday == yday + (4 - IsoWeekday(weekday))
           year == CASE thursday < 1             -> y - 1
                     [] thursday > DaysOfYear(y) -> y + 1
                     [] OTHER                    -> y
           day  == CASE thursday < 1             -> thursday + DaysOfYear(y - 1)
                     [] thursday > DaysOfYear(y) -> thursday - DaysOfYear(y)
                     [] OTHER                    -> thursday
           r == IsoYear(date)
           j == January1st(y)
           n == DaysOfYear(y)
           l == DaysOfYear(y - 1)
<1>1. z \in Int /\ DateIn(date) /\ weekday = (z + 4) % 7 /\ yday = NumberInYear(date)
  BY DayOfWalk DEF Walked
<1>2. y \in Int /\ -32766 <= y /\ y <= 32766
  BY <1>1, SMT DEF DateIn, WeeksHold, In
<1>3. r = year /\ IsoWeek(date) = ((day - 1) \div 7) + 1
  BY WalkedWeeks DEF WeeksInStep
<1>4. /\ j \in Int /\ n \in {365, 366} /\ l \in {365, 366}
      /\ January1st(y + 1) = j + n /\ January1st(y - 1) = j - l
  <2> DEFINE x == y - 1
  <2>1. x \in Int /\ x + 1 = y
    BY <1>2, SMT
  <2>2. January1st(x + 1) = January1st(x) + DaysOfYear(x) /\ January1st(x) \in Int
        /\ DaysOfYear(x) \in {365, 366}
    <3> HIDE DEF x
    <3> QED BY <2>1, NewYearsDay DEF January1st, DaysOfYear
  <2>3. j = January1st(x) + l /\ l \in {365, 366} /\ January1st(x) \in Int
    BY <2>1, <2>2
  <2>4. j \in Int /\ n \in {365, 366} /\ January1st(y + 1) = j + n
    BY <1>2, NewYearsDay DEF January1st, DaysOfYear
  <2> HIDE DEF j, l, x
  <2>5. January1st(x) = j - l
    BY <2>3, <2>4, SMT
  <2> QED BY <2>3, <2>4, <2>5 DEF x
<1>5. yday = (z - j) + 1 /\ j <= z /\ z < j + n
  <2>1. yday \in 1..n
    BY <1>1, NumbersInYear
  <2>2. yday = (z - j) + 1
    BY <1>1 DEF NumberInYear, January1st
  <2> HIDE DEF z, j, n
  <2> QED BY <1>1, <1>4, <2>1, <2>2, SMT
<1> HIDE DEF j, n, l, z, y, r
<1>6. T \in Int /\ z - 3 <= T /\ T <= z + 3
  BY <1>1, SMT DEF ThursdayOf
<1>7. thursday = (T - j) + 1
  BY <1>1, <1>4, <1>5, SMT DEF IsoWeekday, ThursdayOf
<1> HIDE DEF T, thursday
<1>8. r \in Int /\ r \in (y - 1) .. (y + 1) /\ January1st(r) \in Int /\ January1st(r) <= T
      /\ day \in 1 .. 366
  <2> DEFINE n0 == DaysOfYear(y)
             l0 == DaysOfYear(y - 1)
  <2>0. n0 = n /\ l0 = l
    BY DEF n, l
  <2>1. thursday \in Int /\ n0 \in Nat /\ n0 > 0
    BY <1>1, <1>4, <1>6, <1>7, <2>0, SMT
  <2>2. year = IF thursday < 1 THEN y - 1 ELSE IF thursday > n0 THEN y + 1 ELSE y
    <3> HIDE DEF n0, l0
    <3> DEFINE a == y - 1
               b == y + 1
    <3> HIDE DEF a, b
    <3>1. (CASE thursday < 1 -> a [] thursday > n0 -> b [] OTHER -> y)
            = IF thursday < 1 THEN a ELSE IF thursday > n0 THEN b ELSE y
      BY ONLY <2>1, ThreeWays
    <3> QED BY ONLY <3>1 DEF a, b, n0, year
  <2>3. day = IF thursday < 1 THEN thursday + l0 ELSE IF thursday > n0 THEN thursday - n0 ELSE thursday
    <3> HIDE DEF n0, l0
    <3> DEFINE a == thursday + l0
               b == thursday - n0
    <3> HIDE DEF a, b
    <3>1. (CASE thursday < 1 -> a [] thursday > n0 -> b [] OTHER -> thursday)
            = IF thursday < 1 THEN a ELSE IF thursday > n0 THEN b ELSE thursday
      BY ONLY <2>1, ThreeWays
    <3> QED BY ONLY <3>1 DEF a, b, n0, l0, day
  <2>4. r = year
    BY <1>3
  <2> HIDE DEF year, day, n0, l0
  <2>5. CASE thursday < 1
    <3>1. r = y - 1 /\ day = thursday + l
      BY <2>0, <2>2, <2>3, <2>4, <2>5
    <3>2. January1st(r) = j - l
      BY <1>4, <3>1
    <3> QED BY <1>1, <1>2, <1>4, <1>5, <1>6, <1>7, <2>5, <3>1, <3>2, SMT
  <2>6. CASE ~(thursday < 1) /\ thursday > n
    <3>1. r = y + 1 /\ day = thursday - n
      BY <2>0, <2>2, <2>3, <2>4, <2>6
    <3>2. January1st(r) = j + n
      BY <1>4, <3>1
    <3> QED BY <1>1, <1>2, <1>4, <1>5, <1>6, <1>7, <2>6, <3>1, <3>2, SMT
  <2>7. CASE ~(thursday < 1) /\ ~(thursday > n)
    <3>1. r = y /\ day = thursday
      BY <2>0, <2>2, <2>3, <2>4, <2>7
    <3>2. January1st(r) = j
      BY <1>4, <3>1 DEF j
    <3> QED BY <1>1, <1>2, <1>4, <1>5, <1>6, <1>7, <2>7, <3>1, <3>2, SMT
  <2> QED BY <2>5, <2>6, <2>7
<1> HIDE DEF day
<1> DEFINE s == IsoStart(r)
           f == January1st(r)
<1>9. s = (7 * ((f - 1) \div 7)) + 4
  <2>1. YearBeforeFits(r)
    BY <1>2, <1>8, SMT DEF YearBeforeFits, In
  <2> QED BY <1>8, <2>1, IsoStarts
<1>10. s \in Int /\ (s + 4) % 7 = 1
  <2> HIDE DEF f, s
  <2>1. f \in Int
    BY <1>8 DEF f
  <2> QED BY <1>9, <2>1, SMT
<1>11. s <= z
  <2>1. f \in Int
    BY <1>8
  <2> DEFINE start == (7 * ((f - 1) \div 7)) + 4
  <2>2. z < start <=> ThursdayOf(z) < f
    <3> HIDE DEF f
    <3> QED BY <1>1, <2>1, WeeksCounted
  <2>3. ~(z < s)
    <3> HIDE DEF start, s
    <3>1. s = start
      BY <1>9 DEF start
    <3> QED BY <1>6, <1>8, <2>2, <3>1, SMT DEF T
  <2> HIDE DEF s
  <2> QED BY <1>1, <1>10, <2>3, SMT
<1>12. IsoWeek(date) = Quot(z - s, 7) + 1
  BY DEF IsoWeek, z, r
<1>13. IsoWeek(date) \in 1 .. 53
  BY <1>3, <1>8, SMT
<1> QED BY <1>8, <1>10, <1>11, <1>12, <1>13 DEF z, r, y

\* The year, the week and the weekday that a date has by ISO 8601.
IsoNamed(ymd, r, v, wd) ==
  /\ IsoYear(ymd) = r /\ IsoWeek(ymd) = v /\ WeekdayOf(ymd) = wd
  /\ In(r, -32767, 32767) /\ v \in 1 .. 53
  /\ IsoStart(r) \in Int /\ IsoStart(r) <= ToDays(ymd) /\ (IsoStart(r) + 4) % 7 = 1
  /\ v = Quot(ToDays(ymd) - IsoStart(r), 7) + 1

\* The weekday of a date is a number from 0 to 6.
LEMMA WeekdayIs ==
  ASSUME NEW ymd, DateIn(ymd)
  PROVE  WeekdayOf(ymd) \in 0 .. 6 /\ WeekdayOf(ymd) = (ToDays(ymd) + 4) % 7
<1> DEFINE z == ToDays(ymd)
<1>1. z \in Int
  BY DaysAreInt
<1>2. WeekdayOf(ymd) = WeekdayFromDays(z)
  BY DEF WeekdayOf
<1> HIDE DEF z
<1>3. WeekdayFromDays(z) = (z + 4) % 7
  BY <1>1, WeekdaysFollow
<1> QED BY <1>1, <1>2, <1>3, SMT DEF z

\* A date worked out of a week brings its year with it.
LEMMA DateBrought ==
  ASSUME NEW f \in FieldSet, f.Y = NoYear, f.m = 0, f.d = 0, NEW ymd,
         NEW y \in Int, ymd.y = y, NEW m \in Int, ymd.m = m, NEW d \in Int, ymd.d = d,
         NEW p, p = [f EXCEPT !.Y = y], NEW g, g = Completed(p, ymd)
  PROVE  g \in FieldSet /\ g.Y = y /\ g.m = m /\ g.d = d /\ Others(f, g, {"Y"} \cup {"m", "d"})
<1> DEFINE fa == "Y"
<1>1. p \in FieldSet /\ p.Y = y /\ Others(f, p, {"Y"})
  <2>1. fa \in NumberFields /\ p = Kept(f, fa, y, 0)
    BY DEF NumberFields, Kept
  <2> HIDE DEF fa
  <2>2. p \in FieldSet /\ p[fa] = y /\ Others(f, p, {fa})
    BY <2>1, KeptOnly
  <2> QED BY <2>2 DEF fa
<1>2. p["m"] = f["m"] /\ p["d"] = f["d"]
  BY <1>1 DEF Others, FieldNames, NumberFields
<1>3. p.m = 0 /\ p.d = 0
  BY <1>2
<1>4. g \in FieldSet /\ g.m = m /\ g.d = d /\ Others(p, g, {"m", "d"})
  <2>1. m \in Int /\ ymd.m = m /\ d \in Int /\ ymd.d = d /\ g = Completed(p, ymd)
    OBVIOUS
  <2>2. p \in FieldSet
    BY <1>1
  <2> QED BY ONLY <1>3, <2>1, <2>2, DateCompleted
<1>5. g["Y"] = p["Y"]
  BY <1>4 DEF Others, FieldNames, NumberFields
<1>6. Others(f, g, {"Y"} \cup {"m", "d"})
  BY <1>1, <1>4, OthersOfBoth
<1>7. g.Y = y
  BY <1>1, <1>5
<1> QED BY ONLY <1>4, <1>6, <1>7

\* The week and the weekday by ISO 8601 name the date.
LEMMA IsoWeekRead ==
  ASSUME NEW ymd, DateIn(ymd), In(ymd.y, -9900, 9999),
         NEW r \in Int, NEW v \in Int, NEW wd \in Int, IsoNamed(ymd, r, v, wd),
         NEW f \in FieldSet, f.Y = NoYear, f.m = 0, f.d = 0, f.G = r, f.V = v, f.wd = wd,
         NEW g, g = FromIsoWeek(f)
  PROVE  /\ g \in FieldSet /\ g.Y = ymd.y /\ g.m = ymd.m /\ g.d = ymd.d
         /\ Others(f, g, {"Y"} \cup {"m", "d"})
<1> DEFINE z == ToDays(ymd)
           n == IsoStart(Year(f.G)) + (7 * (f.V - 1)) + WeekdayMinus(f.wd, Mon)
           p == [f EXCEPT !.Y = IF f.Y = NoYear THEN FromDays(n).y ELSE f.Y]
           q == [f EXCEPT !.Y = ymd.y]
<1>1. /\ ymd.y \in Int /\ ymd.m \in Int /\ ymd.d \in Int
      /\ FromDays(z) = ymd /\ z \in Int
  BY DateParts
<1>2. Year(f.G) = r
  <2>1. In(r, -32768, 32767)
    BY SMT DEF In, IsoNamed
  <2> QED BY <2>1, FieldsHold
<1>3. wd = (z + 4) % 7 /\ wd \in 0 .. 6
  BY WeekdayIs DEF IsoNamed
<1>4. n = z
  <2> DEFINE from == 1
             s == IsoStart(r)
  <2>1. from \in {0, 1} /\ s \in Int /\ s <= z /\ (s + 4) % 7 = from /\ v = Quot(z - s, 7) + 1
    BY DEF IsoNamed
  <2>2. n = (s + (7 * (v - 1))) + WeekdayMinus(wd, from)
    BY <1>2 DEF Mon
  <2> HIDE DEF from, s, z, n
  <2>3. (s + (7 * ((Quot(z - s, 7) + 1) - 1))) + WeekdayMinus((z + 4) % 7, from) = z
    BY <1>1, <2>1, DayOfWeek
  <2> QED BY <1>3, <2>1, <2>2, <2>3
<1>5. f.G # NoYear /\ f.V # NoWeek /\ f.wd # NoWeekday
  BY <1>3, SMT DEF NoYear, NoWeek, NoWeekday, IsoNamed, In
<1>6. g = Completed(p, FromDays(n))
  BY <1>5 DEF FromIsoWeek
<1>7. p = q
  <2>1. FromDays(n) = ymd
    BY <1>1, <1>4
  <2> HIDE DEF n
  <2>2. (IF f.Y = NoYear THEN FromDays(n).y ELSE f.Y) = ymd.y
    BY <2>1
  <2> QED BY <2>2
<1> HIDE DEF p, n
<1>8. g = Completed(q, ymd)
  BY <1>1, <1>4, <1>6, <1>7
<1> DEFINE y == ymd.y
           m == ymd.m
           d == ymd.d
<1>9. /\ g \in FieldSet /\ g.Y = y /\ g.m = m /\ g.d = d
      /\ Others(f, g, {"Y"} \cup {"m", "d"})
  <2>1. q = [f EXCEPT !.Y = y] /\ ymd.y = y /\ ymd.m = m /\ ymd.d = d
        /\ y \in Int /\ m \in Int /\ d \in Int
    BY <1>1
  <2> HIDE DEF q, y, m, d
  <2> QED BY <1>8, <2>1, DateBrought
<1> QED BY <1>9

\* The weekday that is read agrees with the date.
LEMMA WeekdayAgrees ==
  ASSUME NEW g, NEW ymd, DateIn(ymd), In(ymd.y, -9900, 9999),
         g.Y = ymd.y, g.m = ymd.m, g.d = ymd.d, g.wd = WeekdayOf(ymd)
  PROVE  Agreed(g) = g
<1>1. In(ymd.y, -32768, 32767)
  BY DateParts
<1>2. DateOf(g) = ymd
  BY <1>1, DateHeld
<1> QED BY <1>2 DEF Agreed

OfIsoWeeks(X) == X \subseteq {"C", "G", "g", "V", "wd"}

\* A date is read by its year, week and weekday by ISO 8601, the year in full or not.
LEMMA IsoDateRead ==
  ASSUME NEW ymd, DateIn(ymd), In(ymd.y, -9900, 9999),
         NEW r \in Int, NEW v \in Int, NEW wd \in Int, IsoNamed(ymd, r, v, wd),
         NEW format, NEW text, NEW f, f = ReadFields(format, text, 86400),
         NEW X, Others(NoFields, f, X), OfIsoWeeks(X),
         NEW p \in FieldSet, p = WithIsoYear(f), p.G = r, p.V = v, p.wd = wd,
         NEW Y, Others(NoFields, p, Y), OfIsoWeeks(Y)
  PROVE  Read(format, text, 1) = Answer(ToDays(ymd))
<1> DEFINE g == FromIsoWeek(p)
           Z == Y \cup ({"Y"} \cup {"m", "d"})
<1>1. f.yy = No2Digits
  <2>1. "yy" \notin X
    BY DEF OfIsoWeeks
  <2> QED BY <2>1, Unread
<1>2. p.Y = NoYear /\ p.m = 0 /\ p.d = 0
  <2>1. "Y" \notin Y /\ "m" \notin Y /\ "d" \notin Y
    BY DEF OfIsoWeeks
  <2> QED BY <2>1, Unread
<1>3. /\ g \in FieldSet /\ g.Y = ymd.y /\ g.m = ymd.m /\ g.d = ymd.d
      /\ Others(p, g, {"Y"} \cup {"m", "d"})
  <2> HIDE DEF g
  <2> QED BY <1>2, IsoWeekRead DEF g
<1>4. g.wd = wd
  <2>1. g["wd"] = p["wd"]
    BY <1>3 DEF Others, FieldNames, NumberFields
  <2> QED BY <2>1
<1>5. Others(NoFields, g, Z)
  BY <1>3, OthersOfBoth
<1>6. Resolve(f) = g
  <2>1. "j" \notin Z /\ "U" \notin Z /\ "W" \notin Z
    BY DEF OfIsoWeeks
  <2> HIDE DEF g, Z
  <2>2. g.j = 0 /\ g.U = NoWeek /\ g.W = NoWeek
    BY <1>5, <2>1, Unread
  <2>3. g = FromDayOfYear(g) /\ g = FromWeekU(g) /\ g = FromWeekW(g)
    BY <2>2, Skipped
  <2>4. g = Agreed(g)
    <3>1. g.wd = WeekdayOf(ymd)
      BY <1>4 DEF IsoNamed
    <3> QED BY <1>3, <3>1, WeekdayAgrees
  <2>5. f = WithYear(f)
    BY <1>1, Skipped
  <2>6. p = WithIsoYear(f) /\ g = FromIsoWeek(p)
    BY DEF g
  <2> QED BY ONLY <2>3, <2>4, <2>5, <2>6, ResolvedInSteps
<1>7. /\ "h" \notin X /\ "min" \notin X /\ "s" \notin X /\ "z" \notin X /\ "fail" \notin Z
  BY DEF OfIsoWeeks
<1>8. In(ymd.y, -32768, 32767)
  BY DateParts
<1> HIDE DEF g, Z
<1> QED BY <1>3, <1>5, <1>6, <1>7, <1>8, DateResolved

\* The conversions of the week by ISO 8601.
LEMMA IsoCarried ==
  ASSUME NEW x, NEW u, DateIn(x.ymd), NEW r \in Int, NEW v \in Int, NEW wd \in Int,
         IsoNamed(x.ymd, r, v, wd), In(r, -9999, 9999)
  PROVE  /\ Carries("G", x, u, "G", r) /\ Carries("g", x, u, "g", YearOfCentury(r))
         /\ Carries("V", x, u, "V", v)
<1>1. 4 \in 1..4 /\ 2 \in 1..4
  OBVIOUS
<1>2. Magnitude(r) < Beyond(4)
  BY SMT DEF Magnitude, Beyond, In
<1>3. Magnitude(v) < Beyond(2) /\ v >= 0
  BY SMT DEF Magnitude, Beyond, IsoNamed
<1>4. YearOfCentury(r) \in 0 .. 99
  <2>1. Magnitude(r) \in Nat
    BY SMT DEF Magnitude
  <2>2. Rem(Magnitude(r), 100) = Magnitude(r) % 100
    BY <2>1, RemOf
  <2> QED BY <2>1, <2>2, SMT DEF YearOfCentury
<1>5. Magnitude(YearOfCentury(r)) < Beyond(2) /\ YearOfCentury(r) >= 0 /\ YearOfCentury(r) \in Int
  BY <1>4, SMT DEF Magnitude, Beyond
<1>6. IsoYear(x.ymd) = r /\ IsoWeek(x.ymd) = v
  BY DEF IsoNamed
<1>7. /\ PrintedOf("G", x) = <<Number(r, 4)>> /\ ReadOf("G", u) = <<Signed("G", 4)>>
      /\ PrintedOf("g", x) = <<Number(YearOfCentury(r), 2)>> /\ ReadOf("g", u) = <<Unsigned("g", 2)>>
      /\ PrintedOf("V", x) = <<Number(v, 2)>> /\ ReadOf("V", u) = <<Unsigned("V", 2)>>
  BY <1>6, WeekConversions
<1>8. Carries("G", x, u, "G", r)
  BY <1>1, <1>2, <1>7, NumberCarried
<1>9. Carries("g", x, u, "g", YearOfCentury(r))
  BY <1>1, <1>5, <1>7, NumberCarried
<1>10. Carries("V", x, u, "V", v)
  BY <1>1, <1>3, <1>7, NumberCarried
<1> QED BY <1>8, <1>9, <1>10

\* The conversions of the weekday.
LEMMA WeekdayCarried ==
  ASSUME NEW x, NEW u, NEW wd \in 0 .. 6, WeekdayOf(x.ymd) = wd
  PROVE  Carries("u", x, u, "u", IsoWeekday(wd)) /\ Carries("w", x, u, "wd", wd)
<1>1. 1 \in 1..4
  OBVIOUS
<1>2. /\ Magnitude(wd) < Beyond(1) /\ wd >= 0 /\ wd \in Int
      /\ Magnitude(IsoWeekday(wd)) < Beyond(1) /\ IsoWeekday(wd) >= 0 /\ IsoWeekday(wd) \in Int
  BY SMT DEF Magnitude, Beyond, IsoWeekday
<1>3. /\ PrintedOf("u", x) = <<Number(IsoWeekday(wd), 1)>> /\ ReadOf("u", u) = <<Unsigned("u", 1)>>
      /\ PrintedOf("w", x) = <<Number(wd, 1)>> /\ ReadOf("w", u) = <<Unsigned("wd", 1)>>
  BY WeekConversions
<1>4. Carries("u", x, u, "u", IsoWeekday(wd))
  BY <1>1, <1>2, <1>3, NumberCarried
<1>5. Carries("w", x, u, "wd", wd)
  BY <1>1, <1>2, <1>3, NumberCarried
<1> QED BY <1>4, <1>5

(*****************************************************************************)
(* Dates by their weeks.                                                     *)
(*****************************************************************************)

\* A date, read by its year, week and weekday by ISO 8601.
LEMMA GvuRead ==
  ASSUME NEW x, DateIn(x.ymd), In(x.ymd.y, -9900, 9999),
         NEW r \in Int, NEW v \in Int, NEW wd \in 0 .. 6, IsoNamed(x.ymd, r, v, wd),
         In(r, -9999, 9999)
  PROVE  Read(<<"G", "V", "u">>, Printed(<<"G", "V", "u">>, x), 1) = Answer(ToDays(x.ymd))
<1> DEFINE u == 86400
           format == <<"G", "V", "u">>
           text == Printed(format, x)
           f == ReadFields(format, text, u)
           fa == "G"
           fb == "V"
           fc == "wd"
           e == IsoWeekday(wd)
<1>0. wd \in Int
  BY SMT
<1>1. f = Kept(Kept(Kept(NoFields, fa, r, u), fb, v, u), fc, wd, u)
  <2> HIDE DEF u
  <2>1. Carries("G", x, u, "G", r) /\ Carries("V", x, u, "V", v)
    BY <1>0, IsoCarried
  <2>2. Carries("u", x, u, "u", e)
    <3>1. WeekdayOf(x.ymd) = wd
      BY DEF IsoNamed
    <3> QED BY <3>1, WeekdayCarried
  <2> HIDE DEF u, e
  <2>3. f = Kept(Kept(Kept(NoFields, "G", r, u), "V", v, u), "u", e, u)
    BY ONLY <2>1, <2>2, ThreeCarried DEF f, text, format
  <2> DEFINE q == Kept(Kept(NoFields, "G", r, u), "V", v, u)
  <2>4. Kept(q, "u", e, u) = Kept(q, "wd", wd, u)
    <3> HIDE DEF q
    <3> QED BY WeekdayKept DEF e
  <2> HIDE DEF f
  <2>5. f = Kept(q, "wd", wd, u)
    BY <2>3, <2>4
  <2> QED BY ONLY <2>5 DEF q, fa, fb, fc
<1>2. f \in FieldSet /\ f.G = r /\ f.V = v /\ f.wd = wd /\ Others(NoFields, f, {"G", "V", "wd"})
  <2>1. fa \in NumberFields /\ fb \in NumberFields /\ fc \in NumberFields
        /\ fa # fb /\ fa # fc /\ fb # fc
    BY DEF NumberFields
  <2> DEFINE na == r
             nb == v
             nc == wd
  <2>4. na = r /\ nb = v /\ nc = wd
    OBVIOUS
  <2>2. na \in Int /\ nb \in Int /\ nc \in Int
        /\ f = Kept(Kept(Kept(NoFields, fa, na, u), fb, nb, u), fc, nc, u)
    BY <1>0, <1>1
  <2> HIDE DEF fa, fb, fc, f, u, e, format, text, na, nb, nc
  <2>3. f \in FieldSet /\ f[fa] = na /\ f[fb] = nb /\ f[fc] = nc /\ Others(NoFields, f, {fa, fb, fc})
    BY ONLY <2>1, <2>2, ThreeKept
  <2> QED BY <2>3, <2>4 DEF fa, fb, fc
<1>3. f = ReadFields(format, text, 86400)
  BY DEF f
<1> HIDE DEF f
<1>4. f = WithIsoYear(f)
  <2>1. f.g = No2Digits
    BY <1>2, Unread
  <2> QED BY <2>1, Skipped
<1> DEFINE X == {"G", "V", "wd"}
<1>5. OfIsoWeeks(X)
  BY DEF OfIsoWeeks
<1>6. Read(format, text, 1) = Answer(ToDays(x.ymd))
  <2> HIDE DEF X, format, text
  <2>1. Others(NoFields, f, X)
    BY <1>2 DEF X
  <2> QED BY <1>0, <1>2, <1>3, <1>4, <1>5, <2>1, IsoDateRead
<1> QED BY <1>6 DEF format, text

\* The century of two digits of a year that is not written.
LEMMA CenturyGuessed ==
  ASSUME NEW y \in Int, In(y, 1969, 2068)
  PROVE  LET yy == YearOfCentury(y)
             c  == CenturyOf(NoYear, NoCentury, yy)
         IN  yy \in 0 .. 99 /\ yy \in Int /\ yy = Rem(y, 100) /\ c \in Int /\ FullYear(c, yy) = y
<1> DEFINE yy == YearOfCentury(y)
<1>1. Magnitude(y) = y /\ y \in Nat
  BY SMT DEF Magnitude, In
<1>2. yy = y % 100 /\ yy = Rem(y, 100)
  <2> DEFINE h == 100
  <2>1. h \in Nat /\ h > 0
    OBVIOUS
  <2> HIDE DEF h
  <2>2. Rem(y, h) = y % h
    BY <1>1, <2>1, RemOf
  <2>3. Rem(y, 100) = y % 100
    BY <2>2 DEF h
  <2> QED BY <1>1, <2>3 DEF YearOfCentury
<1> HIDE DEF yy
<1>3. CenturyOf(NoYear, NoCentury, yy) = IF yy >= 69 THEN 19 ELSE 20
  BY DEF CenturyOf
<1>4. CASE yy >= 69
  <2>1. y = 1900 + yy
    BY <1>1, <1>2, <1>4, SMT DEF In
  <2>2. FullYear(19, yy) = y
    BY <2>1, <1>1, SMT DEF FullYear
  <2> QED BY <1>2, <1>3, <1>4, <2>2, SMT DEF yy
<1>5. CASE ~(yy >= 69)
  <2>1. y = 2000 + yy
    BY <1>1, <1>2, <1>5, SMT DEF In
  <2>2. FullYear(20, yy) = y
    BY <2>1, <1>1, SMT DEF FullYear
  <2> QED BY <1>2, <1>3, <1>5, <2>2, SMT DEF yy
<1> QED BY <1>4, <1>5

\* The same, by two digits of the year and the weekday from Sunday.
LEMMA GvwRead ==
  ASSUME NEW x, DateIn(x.ymd), In(x.ymd.y, -9900, 9999),
         NEW r \in Int, NEW v \in Int, NEW wd \in 0 .. 6, IsoNamed(x.ymd, r, v, wd),
         In(r, 1969, 2068)
  PROVE  Read(<<"g", "V", "w">>, Printed(<<"g", "V", "w">>, x), 1) = Answer(ToDays(x.ymd))
<1> DEFINE u == 86400
           format == <<"g", "V", "w">>
           text == Printed(format, x)
           f == ReadFields(format, text, u)
           fa == "g"
           fb == "V"
           fc == "wd"
           yy == YearOfCentury(r)
           c == CenturyOf(NoYear, NoCentury, yy)
           p == WithIsoYear(f)
<1>0. wd \in Int /\ In(r, -9999, 9999)
  BY SMT DEF In
<1>1. f = Kept(Kept(Kept(NoFields, fa, yy, u), fb, v, u), fc, wd, u)
  <2> HIDE DEF u
  <2>1. Carries("g", x, u, "g", yy) /\ Carries("V", x, u, "V", v)
    <3>1. Carries("g", x, u, "g", YearOfCentury(r)) /\ Carries("V", x, u, "V", v)
      <4> HIDE DEF format, text, f, fa, fb, fc, yy, c, p
      <4> QED BY ONLY DateIn(x.ymd), r \in Int, v \in Int, IsoNamed(x.ymd, r, v, wd), <1>0, IsoCarried
    <3> QED BY <3>1
  <2>2. Carries("w", x, u, "wd", wd)
    <3>1. WeekdayOf(x.ymd) = wd
      BY DEF IsoNamed
    <3> QED BY <3>1, WeekdayCarried
  <2> HIDE DEF u, yy
  <2> QED BY ONLY <2>1, <2>2, ThreeCarried DEF f, text, format
<1>2. yy \in 0 .. 99 /\ yy \in Int /\ c \in Int /\ FullYear(c, yy) = r
  BY CenturyGuessed
<1>3. f \in FieldSet /\ f.g = yy /\ f.V = v /\ f.wd = wd /\ Others(NoFields, f, {"g", "V", "wd"})
  <2>1. fa \in NumberFields /\ fb \in NumberFields /\ fc \in NumberFields
        /\ fa # fb /\ fa # fc /\ fb # fc
    BY DEF NumberFields
  <2> HIDE DEF fa, fb, fc, f, u, yy, c
  <2>2. f \in FieldSet /\ f[fa] = yy /\ f[fb] = v /\ f[fc] = wd /\ Others(NoFields, f, {fa, fb, fc})
    <3>1. yy \in Int /\ v \in Int /\ wd \in Int
      BY <1>0, <1>2
    <3> QED BY ONLY <1>1, <2>1, <3>1, ThreeKept
  <2> QED BY <2>2 DEF fa, fb, fc
<1>4. f = ReadFields(format, text, 86400)
  BY DEF f
<1> HIDE DEF f
<1>5. p \in FieldSet /\ p.G = r /\ Others(f, p, {"C", "G"})
  <2>1. f.G = NoYear /\ f.C = NoCentury
    BY <1>3, Unread
  <2>2. f.g \in 0 .. 99 /\ c = CenturyOf(f.G, f.C, f.g) /\ FullYear(c, f.g) = r
    BY <1>2, <1>3, <2>1
  <2> HIDE DEF p, c, yy
  <2> QED BY <1>2, <1>3, <2>1, <2>2, IsoYearCompleted DEF p
<1> DEFINE X == {"g", "V", "wd"}
           Y == {"g", "V", "wd"} \cup {"C", "G"}
<1>6. p.V = v /\ p.wd = wd
  <2>1. p["V"] = f["V"] /\ p["wd"] = f["wd"]
    BY <1>5 DEF Others, FieldNames, NumberFields
  <2> QED BY <1>3, <2>1
<1>7. Others(NoFields, p, Y)
  BY <1>3, <1>5, OthersOfBoth
<1>8. OfIsoWeeks(X) /\ OfIsoWeeks(Y)
  BY DEF OfIsoWeeks
<1>9. Read(format, text, 1) = Answer(ToDays(x.ymd))
  <2>1. p = WithIsoYear(f)
    OBVIOUS
  <2> HIDE DEF X, Y, format, text, p, u, yy, c
  <2>2. Others(NoFields, f, X)
    BY <1>3 DEF X
  <2> DEFINE ymd == x.ymd
             a == r
             b == v
             e == wd
  <2>3. /\ a \in Int /\ b \in Int /\ e \in Int /\ DateIn(ymd) /\ In(ymd.y, -9900, 9999)
        /\ IsoNamed(ymd, a, b, e)
    BY <1>0
  <2>4. p \in FieldSet /\ p = WithIsoYear(f) /\ p.G = a /\ p.V = b /\ p.wd = e
    BY <1>5, <1>6, <2>1
  <2> HIDE DEF ymd, a, b, e
  <2>5. Read(format, text, 1) = Answer(ToDays(ymd))
    BY ONLY <1>4, <1>7, <1>8, <2>2, <2>3, <2>4, IsoDateRead
  <2> QED BY <2>5 DEF ymd
<1> QED BY <1>9 DEF format, text

\* The week from Sunday or Monday and the weekday name the date.
LEMMA WeekRead ==
  ASSUME NEW ymd, DateIn(ymd), In(ymd.y, -9900, 9999), NEW start \in {0, 1},
         NEW k \in Int, WeekFrom(ymd, start) = k, k > 0, k < 100,
         NEW wd \in 0 .. 6, WeekdayOf(ymd) = wd,
         NEW f \in FieldSet, f.Y = ymd.y, f.m = 0, f.d = 0, f.wd = wd,
         NEW g, g = FromWeek(f, k, start)
  PROVE  g \in FieldSet /\ g.m = ymd.m /\ g.d = ymd.d /\ Others(f, g, {"m", "d"})
<1> DEFINE z == ToDays(ymd)
           y == ymd.y
           s == NthToDays(Nth(y, 1, start, 1))
           n == NthToDays(Nth(Year(f.Y), 1, start, 1)) + (7 * (k - 1)) + WeekdayMinus(f.wd, start)
<1>1. /\ ymd.y \in Int /\ ymd.m \in Int /\ ymd.d \in Int /\ In(y, -32768, 32767)
      /\ FromDays(z) = ymd /\ z \in Int
  BY DateParts
<1>2. Year(f.Y) = y
  BY <1>1, FieldsHold
<1>3. s \in Int /\ (s + 4) % 7 = start
  <2> DEFINE j == January1st(y)
             p == Nth(y, 1, start, 1)
             e == WeekdayMinus(start, (j + 4) % 7)
  <2>1. j \in Int
    BY <1>1, NewYearsDay DEF January1st
  <2>2. p.y = y /\ p.m = 1 /\ p.wd = start /\ p.index = 1
    BY DEF Nth
  <2>3. WeekdayFromDays(j) = (j + 4) % 7
    <3> HIDE DEF j
    <3> QED BY <2>1, WeekdaysFollow
  <2> HIDE DEF p
  <2>4. NthToDays(p) = (j + e) + ((1 - 1) * 7)
    BY <2>2, <2>3 DEF NthToDays, January1st
  <2> HIDE DEF j
  <2>5. e \in 0..6 /\ ((j + e) + 4) % 7 = start
    BY <2>1, SMT DEF WeekdayMinus
  <2> HIDE DEF e
  <2>6. NthToDays(p) = j + e /\ j + e \in Int
    BY <2>1, <2>4, <2>5, SMT
  <2> QED BY <2>5, <2>6 DEF p
<1>4. s <= z /\ k = Quot(z - s, 7) + 1
  <2>1. WeekFrom(ymd, start) = IF z < s THEN 0 ELSE Quot(z - s, 7) + 1
    BY DEF WeekFrom
  <2> HIDE DEF z, s
  <2>2. ~(z < s)
    BY <2>1
  <2> QED BY <1>1, <1>3, <2>1, <2>2, SMT
<1>5. n = z
  <2>1. wd = (z + 4) % 7
    BY WeekdayIs
  <2>2. n = (s + (7 * (k - 1))) + WeekdayMinus(wd, start)
    BY <1>2
  <2> HIDE DEF s, z, n
  <2>3. (s + (7 * ((Quot(z - s, 7) + 1) - 1))) + WeekdayMinus((z + 4) % 7, start) = z
    <3>1. z \in Int /\ s \in Int /\ s <= z /\ start \in {0, 1} /\ (s + 4) % 7 = start
      BY <1>1, <1>3, <1>4
    <3> QED BY ONLY <3>1, DayOfWeek
  <2> QED BY <1>4, <2>1, <2>2, <2>3
<1>6. k # NoWeek /\ f.Y # NoYear /\ f.wd # NoWeekday /\ k # 0
  BY <1>1, SMT DEF NoYear, NoWeek, NoWeekday, In
<1>7. g = IF Year(f.Y) # FromDays(n).y THEN Broken(f) ELSE Completed(f, FromDays(n))
  BY <1>6 DEF FromWeek
<1> HIDE DEF n
<1>8. FromDays(n) = ymd
  BY <1>1, <1>5
<1>9. g = Completed(f, ymd)
  BY <1>2, <1>7, <1>8
<1> DEFINE m == ymd.m
           d == ymd.d
<1>10. m \in Int /\ d \in Int /\ ymd.m = m /\ ymd.d = d
  BY <1>1
<1> HIDE DEF m, d
<1>11. g \in FieldSet /\ g.m = m /\ g.d = d /\ Others(f, g, {"m", "d"})
  BY <1>9, <1>10, DateCompleted
<1> QED BY <1>10, <1>11

\* What is left of a text of a date when a week of its year has named the date.
LEMMA WeekDateRead ==
  ASSUME NEW format, NEW text, NEW ymd, DateIn(ymd), In(ymd.y, -9900, 9999),
         NEW wd \in 0 .. 6, WeekdayOf(ymd) = wd,
         NEW f \in FieldSet, f = ReadFields(format, text, 86400), f.Y = ymd.y, f.wd = wd,
         NEW X, Others(NoFields, f, X), X \subseteq {"Y", "U", "W", "wd"},
         NEW g \in FieldSet, g.m = ymd.m, g.d = ymd.d, Others(f, g, {"m", "d"}),
         g = FromWeekW(FromWeekU(f))
  PROVE  Read(format, text, 1) = Answer(ToDays(ymd))
<1> DEFINE Z == X \cup {"m", "d"}
           h == FromWeekU(f)
<1>1. f.yy = No2Digits /\ f.g = No2Digits /\ f.G = NoYear /\ f.j = 0
  <2>1. "yy" \notin X /\ "g" \notin X /\ "G" \notin X /\ "j" \notin X
    OBVIOUS
  <2> QED BY <2>1, Unread
<1>2. g.Y = ymd.y /\ g.wd = wd
  <2>1. g["Y"] = f["Y"] /\ g["wd"] = f["wd"]
    BY DEF Others, FieldNames, NumberFields
  <2> QED BY <2>1
<1>3. Others(NoFields, g, Z)
  BY OthersOfBoth
<1>4. Resolve(f) = g
  <2>1. f = WithYear(f) /\ f = WithIsoYear(f) /\ f = FromIsoWeek(f) /\ f = FromDayOfYear(f)
    BY <1>1, Skipped
  <2>2. g = Agreed(g)
    BY <1>2, WeekdayAgrees
  <2>3. h = FromWeekU(f) /\ g = FromWeekW(h)
    OBVIOUS
  <2> HIDE DEF h
  <2> QED BY ONLY <2>1, <2>2, <2>3, ResolvedInSteps
<1>5. "h" \notin X /\ "min" \notin X /\ "s" \notin X /\ "z" \notin X /\ "fail" \notin Z
  OBVIOUS
<1>6. In(ymd.y, -32768, 32767)
  BY DateParts
<1> HIDE DEF Z
<1> QED BY <1>2, <1>3, <1>4, <1>5, <1>6, DateResolved

\* The conversions of the weeks from Sunday and from Monday.
LEMMA WeekCarried ==
  ASSUME NEW x, NEW u, NEW k \in Int, k > 0, k < 100
  PROVE  /\ WeekU(x.ymd) = k => Carries("U", x, u, "U", k)
         /\ WeekW(x.ymd) = k => Carries("W", x, u, "W", k)
<1>1. 2 \in 1..4 /\ Magnitude(k) < Beyond(2) /\ k >= 0
  BY SMT DEF Magnitude, Beyond
<1>2. ASSUME WeekU(x.ymd) = k PROVE Carries("U", x, u, "U", k)
  <2>1. PrintedOf("U", x) = <<Number(k, 2)>> /\ ReadOf("U", u) = <<Unsigned("U", 2)>>
    BY <1>2, WeekConversions
  <2> QED BY <1>1, <2>1, NumberCarried
<1>3. ASSUME WeekW(x.ymd) = k PROVE Carries("W", x, u, "W", k)
  <2>1. PrintedOf("W", x) = <<Number(k, 2)>> /\ ReadOf("W", u) = <<Unsigned("W", 2)>>
    BY <1>3, WeekConversions
  <2> QED BY <1>1, <2>1, NumberCarried
<1> QED BY <1>2, <1>3

\* A date, read by its year, the week from Sunday and the weekday.
LEMMA YuwRead ==
  ASSUME NEW x, DateIn(x.ymd), In(x.ymd.y, -9900, 9999),
         NEW k \in Int, k > 0, k < 100, WeekU(x.ymd) = k
  PROVE  Read(<<"Y", "U", "w">>, Printed(<<"Y", "U", "w">>, x), 1) = Answer(ToDays(x.ymd))
<1> DEFINE u == 86400
           format == <<"Y", "U", "w">>
           text == Printed(format, x)
           f == ReadFields(format, text, u)
           y == x.ymd.y
           wd == WeekdayOf(x.ymd)
           fa == "Y"
           fb == "U"
           fc == "wd"
           g == FromWeekU(f)
<1>1. y \in Int /\ wd \in 0 .. 6 /\ wd \in Int
  BY DateParts, WeekdayIs, SMT
<1>2. f = Kept(Kept(Kept(NoFields, fa, y, u), fb, k, u), fc, wd, u)
  <2> HIDE DEF u
  <2>1. Carries("Y", x, u, "Y", y) /\ Carries("U", x, u, "U", k)
    BY DateCarried, WeekCarried
  <2> HIDE DEF y
  <2>2. Carries("w", x, u, "wd", wd)
    BY <1>1, WeekdayCarried
  <2> HIDE DEF wd
  <2> QED BY ONLY <2>1, <2>2, ThreeCarried DEF f, text, format
<1>3. f \in FieldSet /\ f.Y = y /\ f.U = k /\ f.wd = wd /\ Others(NoFields, f, {"Y", "U", "wd"})
  <2>1. fa \in NumberFields /\ fb \in NumberFields /\ fc \in NumberFields
        /\ fa # fb /\ fa # fc /\ fb # fc
    BY DEF NumberFields
  <2> HIDE DEF fa, fb, fc, f, u, y, wd
  <2>2. f \in FieldSet /\ f[fa] = y /\ f[fb] = k /\ f[fc] = wd /\ Others(NoFields, f, {fa, fb, fc})
    <3>1. y \in Int /\ k \in Int /\ wd \in Int
      BY <1>1
    <3> QED BY ONLY <1>2, <2>1, <3>1, ThreeKept
  <2> QED BY <2>2 DEF fa, fb, fc
<1>4. f = ReadFields(format, text, 86400)
  BY DEF f
<1> HIDE DEF f
<1>5. f.m = 0 /\ f.d = 0 /\ f.W = NoWeek
  BY <1>3, Unread
<1>6. g \in FieldSet /\ g.m = x.ymd.m /\ g.d = x.ymd.d /\ Others(f, g, {"m", "d"})
  <2> DEFINE from == 0
             ymd == x.ymd
  <2>1. from \in {0, 1} /\ WeekFrom(ymd, from) = k /\ g = FromWeek(f, k, from)
    BY <1>3 DEF WeekU, FromWeekU, Sun
  <2>2. /\ DateIn(ymd) /\ In(ymd.y, -9900, 9999) /\ WeekdayOf(ymd) = wd /\ f.Y = ymd.y
    BY <1>3
  <2> HIDE DEF from, g, ymd, wd
  <2>3. g \in FieldSet /\ g.m = ymd.m /\ g.d = ymd.d /\ Others(f, g, {"m", "d"})
    BY <1>1, <1>3, <1>5, <2>1, <2>2, WeekRead
  <2> QED BY <2>3 DEF ymd
<1>7. g = FromWeekW(FromWeekU(f))
  <2>1. g["W"] = f["W"]
    BY <1>6 DEF Others, FieldNames, NumberFields
  <2>2. g.W = NoWeek
    BY <1>5, <2>1
  <2>3. FromWeekW(g) = g
    <3> HIDE DEF g
    <3> QED BY <2>2, Skipped
  <2> QED BY <2>3
<1> DEFINE X == {"Y", "U", "wd"}
<1>8. X \subseteq {"Y", "U", "W", "wd"}
  OBVIOUS
<1>9. Read(format, text, 1) = Answer(ToDays(x.ymd))
  <2> HIDE DEF X, format, text, g
  <2>1. Others(NoFields, f, X)
    BY <1>3 DEF X
  <2> QED BY <1>1, <1>3, <1>4, <1>6, <1>7, <1>8, <2>1, WeekDateRead
<1> QED BY <1>9 DEF format, text

\* The same, by the week from Monday and the weekday that Sunday ends.
LEMMA YwuRead ==
  ASSUME NEW x, DateIn(x.ymd), In(x.ymd.y, -9900, 9999),
         NEW k \in Int, k > 0, k < 100, WeekW(x.ymd) = k
  PROVE  Read(<<"Y", "W", "u">>, Printed(<<"Y", "W", "u">>, x), 1) = Answer(ToDays(x.ymd))
<1> DEFINE u == 86400
           format == <<"Y", "W", "u">>
           text == Printed(format, x)
           f == ReadFields(format, text, u)
           y == x.ymd.y
           wd == WeekdayOf(x.ymd)
           e == IsoWeekday(wd)
           fa == "Y"
           fb == "W"
           fc == "wd"
           g == FromWeekW(f)
<1>1. y \in Int /\ wd \in 0 .. 6 /\ wd \in Int
  BY DateParts, WeekdayIs, SMT
<1>2. f = Kept(Kept(Kept(NoFields, fa, y, u), fb, k, u), fc, wd, u)
  <2> HIDE DEF u
  <2>1. Carries("Y", x, u, "Y", y) /\ Carries("W", x, u, "W", k)
    BY DateCarried, WeekCarried
  <2> HIDE DEF y
  <2>2. Carries("u", x, u, "u", e)
    BY <1>1, WeekdayCarried
  <2> HIDE DEF e
  <2>3. f = Kept(Kept(Kept(NoFields, "Y", y, u), "W", k, u), "u", e, u)
    BY ONLY <2>1, <2>2, ThreeCarried DEF f, text, format
  <2> HIDE DEF wd
  <2> DEFINE q == Kept(Kept(NoFields, "Y", y, u), "W", k, u)
  <2>4. Kept(q, "u", e, u) = Kept(q, "wd", wd, u)
    <3> HIDE DEF q
    <3> QED BY <1>1, WeekdayKept DEF e
  <2> HIDE DEF f
  <2>5. f = Kept(q, "wd", wd, u)
    BY <2>3, <2>4
  <2> QED BY ONLY <2>5 DEF q, fa, fb, fc
<1>3. f \in FieldSet /\ f.Y = y /\ f.W = k /\ f.wd = wd /\ Others(NoFields, f, {"Y", "W", "wd"})
  <2>1. fa \in NumberFields /\ fb \in NumberFields /\ fc \in NumberFields
        /\ fa # fb /\ fa # fc /\ fb # fc
    BY DEF NumberFields
  <2> HIDE DEF fa, fb, fc, f, u, y, wd
  <2>2. f \in FieldSet /\ f[fa] = y /\ f[fb] = k /\ f[fc] = wd /\ Others(NoFields, f, {fa, fb, fc})
    <3>1. y \in Int /\ k \in Int /\ wd \in Int
      BY <1>1
    <3> QED BY ONLY <1>2, <2>1, <3>1, ThreeKept
  <2> QED BY <2>2 DEF fa, fb, fc
<1>4. f = ReadFields(format, text, 86400)
  BY DEF f
<1> HIDE DEF f
<1>5. f.m = 0 /\ f.d = 0 /\ f.U = NoWeek
  BY <1>3, Unread
<1>6. g \in FieldSet /\ g.m = x.ymd.m /\ g.d = x.ymd.d /\ Others(f, g, {"m", "d"})
  <2> DEFINE from == 1
             ymd == x.ymd
  <2>1. from \in {0, 1} /\ WeekFrom(ymd, from) = k /\ g = FromWeek(f, k, from)
    BY <1>3 DEF WeekW, FromWeekW, Mon
  <2>2. /\ DateIn(ymd) /\ In(ymd.y, -9900, 9999) /\ WeekdayOf(ymd) = wd /\ f.Y = ymd.y
    BY <1>3
  <2> HIDE DEF from, g, ymd, wd
  <2>3. g \in FieldSet /\ g.m = ymd.m /\ g.d = ymd.d /\ Others(f, g, {"m", "d"})
    BY <1>1, <1>3, <1>5, <2>1, <2>2, WeekRead
  <2> QED BY <2>3 DEF ymd
<1>7. g = FromWeekW(FromWeekU(f))
  BY <1>5, Skipped
<1> DEFINE X == {"Y", "W", "wd"}
<1>8. X \subseteq {"Y", "U", "W", "wd"}
  OBVIOUS
<1>9. Read(format, text, 1) = Answer(ToDays(x.ymd))
  <2> HIDE DEF X, format, text, g
  <2>1. Others(NoFields, f, X)
    BY <1>3 DEF X
  <2> QED BY <1>1, <1>3, <1>4, <1>6, <1>7, <1>8, <2>1, WeekDateRead
<1> QED BY <1>9 DEF format, text

(*****************************************************************************)
(* Conversions of several numbers.                                           *)
(*****************************************************************************)

\* Sequences one after the other, element by element.
LEMMA JoinedIs ==
  ASSUME NEW V, NEW s \in Seq(V), NEW t \in Seq(V), NEW r \in Seq(V),
         Len(r) = Len(s) + Len(t), \A i \in 1 .. Len(s) : r[i] = s[i],
         \A i \in 1 .. Len(t) : r[Len(s) + i] = t[i]
  PROVE  s \o t = r
<1>1. s \o t \in Seq(V) /\ Len(s \o t) = Len(r)
  OBVIOUS
<1>2. ASSUME NEW i \in 1 .. Len(r) PROVE (s \o t)[i] = r[i]
  <2>1. CASE i <= Len(s)
    BY <2>1
  <2>2. CASE i > Len(s)
    <3> DEFINE k == i - Len(s)
    <3>1. k \in 1 .. Len(t) /\ Len(s) + k = i
      BY <2>2
    <3>2. (s \o t)[i] = t[k]
      BY <2>2, <3>1
    <3> QED BY <3>1, <3>2
  <2> QED BY <2>1, <2>2
<1> QED BY <1>1, <1>2

\* Short sequences, one after the other.
LEMMA JoinedThree ==
  ASSUME NEW a, NEW b, NEW c
  PROVE  (<<a>> \o <<b>>) \o <<c>> = <<a, b, c>>
<1> DEFINE V == {a, b, c}
<1>1. <<a>> \o <<b>> = <<a, b>>
  <2> DEFINE s == <<a>>
             t == <<b>>
             r == <<a, b>>
  <2>1. s \in Seq(V) /\ t \in Seq(V) /\ r \in Seq(V) /\ Len(r) = Len(s) + Len(t)
    OBVIOUS
  <2>2. \A i \in 1 .. Len(s) : r[i] = s[i]
    <3>1. 1 .. Len(s) = {1}
      OBVIOUS
    <3> QED BY <3>1
  <2>3. \A i \in 1 .. Len(t) : r[Len(s) + i] = t[i]
    <3>1. 1 .. Len(t) = {1} /\ Len(s) = 1
      OBVIOUS
    <3> QED BY <3>1
  <2> HIDE DEF s, t, r, V
  <2>4. s \o t = r
    BY <2>1, <2>2, <2>3, JoinedIs
  <2> QED BY <2>4 DEF s, t, r
<1>2. <<a, b>> \o <<c>> = <<a, b, c>>
  <2> DEFINE s == <<a, b>>
             t == <<c>>
             r == <<a, b, c>>
  <2>1. s \in Seq(V) /\ t \in Seq(V) /\ r \in Seq(V) /\ Len(r) = Len(s) + Len(t)
    OBVIOUS
  <2>2. \A i \in 1 .. Len(s) : r[i] = s[i]
    <3>1. 1 .. Len(s) = {1, 2}
      OBVIOUS
    <3> QED BY <3>1
  <2>3. \A i \in 1 .. Len(t) : r[Len(s) + i] = t[i]
    <3>1. 1 .. Len(t) = {1} /\ Len(s) = 2
      OBVIOUS
    <3> QED BY <3>1
  <2> HIDE DEF s, t, r, V
  <2>4. s \o t = r
    BY <2>1, <2>2, <2>3, JoinedIs
  <2> QED BY <2>4 DEF s, t, r
<1> QED BY <1>1, <1>2

\* Three and three numbers are six.
LEMMA JoinedThrees ==
  ASSUME NEW a, NEW b, NEW c, NEW d, NEW e, NEW f
  PROVE  <<a, b, c>> \o <<d, e, f>> = <<a, b, c, d, e, f>>
<1> DEFINE V == {a, b, c, d, e, f}
<1>1. <<a, b, c>> \o <<d, e, f>> = <<a, b, c, d, e, f>>
  <2> DEFINE s == <<a, b, c>>
             t == <<d, e, f>>
             r == <<a, b, c, d, e, f>>
  <2>1. s \in Seq(V) /\ t \in Seq(V) /\ r \in Seq(V) /\ Len(r) = Len(s) + Len(t)
    OBVIOUS
  <2>2. \A i \in 1 .. Len(s) : r[i] = s[i]
    <3>1. 1 .. Len(s) = {1, 2, 3}
      OBVIOUS
    <3> QED BY <3>1
  <2>3. \A i \in 1 .. Len(t) : r[Len(s) + i] = t[i]
    <3>1. 1 .. Len(t) = {1, 2, 3} /\ Len(s) = 3
      OBVIOUS
    <3> QED BY <3>1
  <2> HIDE DEF s, t, r, V
  <2>4. s \o t = r
    BY <2>1, <2>2, <2>3, JoinedIs
  <2> QED BY <2>4 DEF s, t, r
<1> QED BY <1>1

\* Three, two and one are six.
LEMMA JoinedSix ==
  ASSUME NEW a, NEW b, NEW c, NEW d, NEW e, NEW f
  PROVE  (<<a, b, c>> \o <<d, e>>) \o <<f>> = <<a, b, c, d, e, f>>
<1> DEFINE V == {a, b, c, d, e, f}
<1>1. <<a, b, c>> \o <<d, e>> = <<a, b, c, d, e>>
  <2> DEFINE s == <<a, b, c>>
             t == <<d, e>>
             r == <<a, b, c, d, e>>
  <2>1. s \in Seq(V) /\ t \in Seq(V) /\ r \in Seq(V) /\ Len(r) = Len(s) + Len(t)
    OBVIOUS
  <2>2. \A i \in 1 .. Len(s) : r[i] = s[i]
    <3>1. 1 .. Len(s) = {1, 2, 3}
      OBVIOUS
    <3> QED BY <3>1
  <2>3. \A i \in 1 .. Len(t) : r[Len(s) + i] = t[i]
    <3>1. 1 .. Len(t) = {1, 2} /\ Len(s) = 3
      OBVIOUS
    <3> QED BY <3>1
  <2> HIDE DEF s, t, r, V
  <2>4. s \o t = r
    BY <2>1, <2>2, <2>3, JoinedIs
  <2> QED BY <2>4 DEF s, t, r
<1>2. <<a, b, c, d, e>> \o <<f>> = <<a, b, c, d, e, f>>
  <2> DEFINE s == <<a, b, c, d, e>>
             t == <<f>>
             r == <<a, b, c, d, e, f>>
  <2>1. s \in Seq(V) /\ t \in Seq(V) /\ r \in Seq(V) /\ Len(r) = Len(s) + Len(t)
    OBVIOUS
  <2>2. \A i \in 1 .. Len(s) : r[i] = s[i]
    <3>1. 1 .. Len(s) = {1, 2, 3, 4, 5}
      OBVIOUS
    <3> QED BY <3>1
  <2>3. \A i \in 1 .. Len(t) : r[Len(s) + i] = t[i]
    <3>1. 1 .. Len(t) = {1} /\ Len(s) = 5
      OBVIOUS
    <3> QED BY <3>1
  <2> HIDE DEF s, t, r, V
  <2>4. s \o t = r
    BY <2>1, <2>2, <2>3, JoinedIs
  <2> QED BY <2>4 DEF s, t, r
<1> QED BY <1>1, <1>2

\* Six and two are eight.
LEMMA JoinedEight ==
  ASSUME NEW a, NEW b, NEW c, NEW d, NEW e, NEW f, NEW g, NEW h
  PROVE  <<a, b, c, d, e, f>> \o <<g, h>> = <<a, b, c, d, e, f, g, h>>
<1> DEFINE V == {a, b, c, d, e, f, g, h}
<1>1. <<a, b, c, d, e, f>> \o <<g, h>> = <<a, b, c, d, e, f, g, h>>
  <2> DEFINE s == <<a, b, c, d, e, f>>
             t == <<g, h>>
             r == <<a, b, c, d, e, f, g, h>>
  <2>1. s \in Seq(V) /\ t \in Seq(V) /\ r \in Seq(V) /\ Len(r) = Len(s) + Len(t)
    OBVIOUS
  <2>2. \A i \in 1 .. Len(s) : r[i] = s[i]
    <3>1. 1 .. Len(s) = {1, 2, 3, 4, 5, 6}
      OBVIOUS
    <3> QED BY <3>1
  <2>3. \A i \in 1 .. Len(t) : r[Len(s) + i] = t[i]
    <3>1. 1 .. Len(t) = {1, 2} /\ Len(s) = 6
      OBVIOUS
    <3> QED BY <3>1
  <2> HIDE DEF s, t, r, V
  <2>4. s \o t = r
    BY <2>1, <2>2, <2>3, JoinedIs
  <2> QED BY <2>4 DEF s, t, r
<1> QED BY <1>1

\* One conversion.
LEMMA FlattenedOne ==
  ASSUME NEW p
  PROVE  Seqs!FlattenSeq(<<p>>) = p
<1>1. Seqs!FlattenSeq(<<p>>) = p
  <2> DEFINE s == <<p>>
             r == [i \in 1 .. 1 |-> p]
             n == 1
  <2>1. /\ n \in Nat \ {0} /\ Len(s) = n /\ r[1] = s[1] /\ r[n] = p
        /\ \A i \in 2 .. n : r[i] = r[i - 1] \o s[i]
    OBVIOUS
  <2> HIDE DEF s, r, n
  <2>2. Seqs!FlattenSeq(s) = r[n]
    BY ONLY <2>1, Flattened
  <2> QED BY <2>1, <2>2 DEF s
<1> QED BY <1>1

\* Two conversions.
LEMMA FlattenedTwo ==
  ASSUME NEW p, NEW q
  PROVE  Seqs!FlattenSeq(<<p, q>>) = p \o q
<1>1. Seqs!FlattenSeq(<<p, q>>) = p \o q
  <2> DEFINE s == <<p, q>>
             pq == p \o q
             r == <<p, pq>>
             n == 2
  <2>1. n \in Nat \ {0} /\ Len(s) = n /\ r[1] = s[1]
    OBVIOUS
  <2>2. \A i \in 2 .. n : r[i] = r[i - 1] \o s[i]
    <3>1. 2 .. n = {2}
      OBVIOUS
    <3>2. r[2] = r[1] \o s[2] /\ 2 - 1 = 1
      OBVIOUS
    <3> HIDE DEF r, s, n
    <3> QED BY <3>1, <3>2
  <2>3. r[n] = pq
    OBVIOUS
  <2> HIDE DEF s, r, n
  <2>4. Seqs!FlattenSeq(s) = r[n]
    BY ONLY <2>1, <2>2, Flattened
  <2> QED BY <2>3, <2>4 DEF s
<1> QED BY <1>1

Joined(p, q, v, w) == ((p \o q) \o v) \o w

\* Four conversions.
LEMMA FlattenedFour ==
  ASSUME NEW p, NEW q, NEW v, NEW w
  PROVE  Seqs!FlattenSeq(<<p, q, v, w>>) = Joined(p, q, v, w)
<1>1. Seqs!FlattenSeq(<<p, q, v, w>>) = ((p \o q) \o v) \o w
  <2> DEFINE s == <<p, q, v, w>>
             r2 == p \o q
             r3 == r2 \o v
             r4 == r3 \o w
             r == <<p, r2, r3, r4>>
             n == 4
  <2>1. n \in Nat \ {0} /\ Len(s) = n /\ r[1] = s[1]
    OBVIOUS
  <2>2. \A i \in 2 .. n : r[i] = r[i - 1] \o s[i]
    <3>1. 2 .. n = {2, 3, 4} /\ 2 - 1 = 1 /\ 3 - 1 = 2 /\ 4 - 1 = 3
      OBVIOUS
    <3> HIDE DEF r2, r3, r4, n
    <3>2. r[1] = p /\ r[2] = r2 /\ r[3] = r3 /\ r[4] = r4 /\ s[2] = q /\ s[3] = v /\ s[4] = w
      OBVIOUS
    <3> HIDE DEF r, s
    <3>3. r[2] = r[1] \o s[2] /\ r[3] = r[2] \o s[3] /\ r[4] = r[3] \o s[4]
      BY <3>2 DEF r2, r3, r4
    <3> QED BY <3>1, <3>3
  <2>3. r[n] = r4
    <3> HIDE DEF r2, r3, r4
    <3> QED OBVIOUS
  <2> HIDE DEF s, r, n
  <2>4. Seqs!FlattenSeq(s) = r[n]
    BY ONLY <2>1, <2>2, Flattened
  <2> QED BY <2>3, <2>4 DEF s
<1> QED BY <1>1 DEF Joined

\* What is kept of the numbers of a text of a date, of a time point, and of one with an offset.
DateKept(y, m, d, u) == Kept(Kept(Kept(NoFields, "Y", y, u), "m", m, u), "d", d, u)
TimeKept(f, h, m, n, u) == Kept(Kept(Kept(f, "h", h, u), "min", m, u), "s", n, u)
OffsetKept(f, h, m, u) == Kept(Kept(f, "zh", h, u), "zm", m, u)

\* A number and the item that reads it to its end and keeps it in a field.
Taken(number, item, field, n) == Fits(number, item) /\ item.field = field /\ number.n = n

\* Three numbers that fit their items are kept in their fields.
LEMMA ThreeTaken ==
  ASSUME NEW format, NEW x, NEW u, NEW ta, NEW tb, NEW tc, NEW ia, NEW ib, NEW ic,
         Printed(format, x) = <<ta, tb, tc>>, ItemsOf(format, u) = <<ia, ib, ic>>,
         NEW fa, NEW fb, NEW fc, NEW a, NEW b, NEW c,
         Taken(ta, ia, fa, a), Taken(tb, ib, fb, b), Taken(tc, ic, fc, c)
  PROVE  ReadFields(format, Printed(format, x), u)
           = Kept(Kept(Kept(NoFields, fa, a, u), fb, b, u), fc, c, u)
<1> DEFINE f1 == Kept(NoFields, fa, a, u)
           f2 == Kept(f1, fb, b, u)
           f3 == Kept(f2, fc, c, u)
           n == 3
           text == <<ta, tb, tc>>
           items == <<ia, ib, ic>>
           r == [i \in 0 .. 3 |-> CASE i = 0 -> NoFields [] i = 1 -> f1 [] i = 2 -> f2
                                    [] OTHER -> f3]
<1>1. /\ n \in Nat /\ Len(text) = n /\ Len(items) = n /\ DOMAIN items = 1 .. n
      /\ text = Printed(format, x) /\ items = ItemsOf(format, u)
  OBVIOUS
<1>2. 1 .. n = {1, 2, 3} /\ 1 - 1 = 0 /\ 2 - 1 = 1 /\ 3 - 1 = 2
  OBVIOUS
<1>3. ASSUME NEW i \in 1 .. n PROVE Fits(text[i], items[i])
  BY <1>2 DEF Taken
<1> HIDE DEF f1, f2, f3
<1>4. r[0] = NoFields /\ r[1] = f1 /\ r[2] = f2 /\ r[3] = f3
  OBVIOUS
<1>5. /\ text[1].n = a /\ text[2].n = b /\ text[3].n = c
      /\ items[1].field = fa /\ items[2].field = fb /\ items[3].field = fc
  BY DEF Taken
<1> HIDE DEF r, text, items
<1>6. /\ r[1] = Kept(r[0], items[1].field, text[1].n, u)
      /\ r[2] = Kept(r[1], items[2].field, text[2].n, u)
      /\ r[3] = Kept(r[2], items[3].field, text[3].n, u)
  BY <1>4, <1>5 DEF f1, f2, f3
<1> HIDE DEF n
<1>7. \A i \in 1 .. n : r[i] = Kept(r[i - 1], items[i].field, text[i].n, u)
  BY <1>2, <1>6
<1>8. ReadFields(format, Printed(format, x), u) = r[n]
  <2>1. r[0] = NoFields
    BY <1>4
  <2>2. \A i \in 1 .. n : Fits(text[i], items[i])
    BY <1>3
  <2> QED BY ONLY <1>1, <1>7, <2>1, <2>2, TextRead
<1> QED BY <1>4, <1>8 DEF f1, f2, f3, n

\* The numbers of %F and %D.
LEMMA DateNumbers ==
  ASSUME NEW x, NEW u, DateIn(x.ymd), In(x.ymd.y, 0, 9999)
  PROVE  LET y == x.ymd.y
             ty == NumberRight(y, 4)
             tm == Number(x.ymd.m, 2)
             td == Number(x.ymd.d, 2)
             tc == NumberRight(YearOfCentury(y), 2)
         IN  /\ PrintedOf("F", x) = <<ty, tm, td>>
             /\ PrintedOf("D", x) = <<tm, td, tc>>
             /\ ReadOf("F", u) = <<Signed("Y", 4), Unsigned("m", 2), Unsigned("d", 2)>>
             /\ ReadOf("D", u) = <<Unsigned("m", 2), Unsigned("d", 2), Signed("yy", 2)>>
             /\ Taken(ty, Signed("Y", 4), "Y", y)
             /\ Taken(tm, Unsigned("m", 2), "m", x.ymd.m) /\ Taken(td, Unsigned("d", 2), "d", x.ymd.d)
             /\ Taken(tc, Signed("yy", 2), "yy", YearOfCentury(y))
<1> DEFINE y == x.ymd.y
           m == x.ymd.m
           d == x.ymd.d
           yy == YearOfCentury(y)
           ty == NumberRight(y, 4)
           tm == Number(m, 2)
           td == Number(d, 2)
           tc == NumberRight(yy, 2)
<1>1. y \in Int /\ 0 <= y /\ y <= 9999 /\ m \in 1 .. 12 /\ d \in Int /\ 1 <= d /\ d <= 31
  <2>1. d \in 1 .. DaysIn(y, m) /\ DaysIn(y, m) \in 28 .. 31 /\ y \in Int /\ m \in 1 .. 12
    BY FieldsOfDate
  <2>2. 0 <= y /\ y <= 9999
    BY DEF In
  <2> HIDE DEF y, m, d
  <2> QED BY <2>1, <2>2, SMT
<1>2. yy = Rem(y, 100) /\ yy \in 0 .. 99
  <2> DEFINE h == 100
  <2>1. h \in Nat /\ h > 0 /\ y \in Nat /\ Magnitude(y) = y
    BY <1>1, SMT DEF Magnitude
  <2> HIDE DEF h, y
  <2>2. Rem(y, h) = y % h
    BY <2>1, RemOf
  <2>3. Rem(y, 100) = y % 100
    BY <2>2 DEF h
  <2>4. yy = Rem(y, 100)
    BY <2>1 DEF YearOfCentury
  <2> QED BY <2>1, <2>3, <2>4, SMT
<1>3. PrintedOf("F", x) = <<ty, tm, td>>
  <2>1. PrintedOf("F", x) = (<<ty>> \o <<tm>>) \o <<td>>
    BY DEF PrintedOf, PrintedF, PrintedMonth, PrintedDay
  <2> HIDE DEF ty, tm, td
  <2>2. (<<ty>> \o <<tm>>) \o <<td>> = <<ty, tm, td>>
    BY ONLY JoinedThree
  <2> QED BY ONLY <2>1, <2>2
<1>4. PrintedOf("D", x) = <<tm, td, tc>>
  <2>1. PrintedOf("D", x) = (<<tm>> \o <<td>>) \o <<NumberRight(Rem(y, 100), 2)>>
    BY DEF PrintedOf, PrintedD, PrintedMonth, PrintedDay
  <2>2. NumberRight(Rem(y, 100), 2) = tc
    <3> HIDE DEF y, yy
    <3> QED BY <1>2
  <2> DEFINE k == NumberRight(Rem(y, 100), 2)
  <2> HIDE DEF tc, tm, td, k
  <2>3. PrintedOf("D", x) = <<tm, td, k>>
    BY <2>1, JoinedThree DEF k
  <2> QED BY <2>2, <2>3 DEF k
<1>5. /\ ReadOf("F", u) = <<Signed("Y", 4), Unsigned("m", 2), Unsigned("d", 2)>>
      /\ ReadOf("D", u) = <<Unsigned("m", 2), Unsigned("d", 2), Signed("yy", 2)>>
  BY DEF ReadOf, ReadF, ReadD
<1> HIDE DEF y, m, d, yy
<1>6. /\ Magnitude(y) < Beyond(4) /\ y >= 0 /\ Magnitude(m) < Beyond(2) /\ m >= 0 /\ m \in Int
      /\ Magnitude(d) < Beyond(2) /\ d >= 0 /\ d \in Int
      /\ Magnitude(yy) < Beyond(2) /\ yy >= 0 /\ yy \in Int
  BY <1>1, <1>2, SMT DEF Magnitude, Beyond
<1>7. 4 \in 1..4 /\ 2 \in 1..4
  OBVIOUS
<1>8. /\ Fits(ty, Signed("Y", 4)) /\ ty.n = y /\ Fits(tm, Unsigned("m", 2)) /\ tm.n = m
      /\ Fits(td, Unsigned("d", 2)) /\ td.n = d /\ Fits(tc, Signed("yy", 2)) /\ tc.n = yy
  <2>1. Fits(ty, Signed("Y", 4)) /\ ty.n = y
    BY <1>1, <1>6, <1>7, NumbersFit
  <2>2. Fits(tm, Unsigned("m", 2)) /\ tm.n = m
    BY <1>6, <1>7, NumbersFit
  <2>3. Fits(td, Unsigned("d", 2)) /\ td.n = d
    BY <1>6, <1>7, NumbersFit
  <2>4. Fits(tc, Signed("yy", 2)) /\ tc.n = yy
    BY <1>6, <1>7, NumbersFit
  <2> QED BY <2>1, <2>2, <2>3, <2>4
<1> HIDE DEF ty, tm, td, tc
<1>9. /\ Taken(ty, Signed("Y", 4), "Y", y)
      /\ Taken(tm, Unsigned("m", 2), "m", m) /\ Taken(td, Unsigned("d", 2), "d", d)
      /\ Taken(tc, Signed("yy", 2), "yy", yy)
  BY <1>8 DEF Taken, Signed, Unsigned
<1> QED BY <1>3, <1>4, <1>5, <1>9 DEF ty, tm, td, tc, y, m, d, yy

\* A format of one conversion.
LEMMA OneConversion ==
  ASSUME NEW c, NEW x, NEW u
  PROVE  Printed(<<c>>, x) = PrintedOf(c, x) /\ ItemsOf(<<c>>, u) = ReadOf(c, u)
<1> DEFINE p == PrintedOf(c, x)
           q == ReadOf(c, u)
           format == <<c>>
<1>1. [i \in DOMAIN format |-> PrintedOf(format[i], x)] = <<p>>
  OBVIOUS
<1>2. [i \in DOMAIN format |-> ReadOf(format[i], u)] = <<q>>
  OBVIOUS
<1> HIDE DEF p, q
<1>3. Seqs!FlattenSeq(<<p>>) = p /\ Seqs!FlattenSeq(<<q>>) = q
  BY FlattenedOne
<1> QED BY <1>1, <1>2, <1>3 DEF Printed, ItemsOf, p, q

\* A date, read by %F.
LEMMA FRead ==
  ASSUME NEW x, DateIn(x.ymd), In(x.ymd.y, 0, 9999)
  PROVE  Read(<<"F">>, Printed(<<"F">>, x), 1) = Answer(ToDays(x.ymd))
<1> DEFINE u == 86400
           format == <<"F">>
           text == Printed(format, x)
           f == ReadFields(format, text, u)
           y == x.ymd.y
           m == x.ymd.m
           d == x.ymd.d
           fa == "Y"
           fb == "m"
           fc == "d"
<1>0. In(x.ymd.y, -9900, 9999)
  BY SMT DEF In
<1>1. f = Kept(Kept(Kept(NoFields, fa, y, u), fb, m, u), fc, d, u)
  <2> DEFINE ty == NumberRight(y, 4)
             tm == Number(m, 2)
             td == Number(d, 2)
             iy == Signed("Y", 4)
             im == Unsigned("m", 2)
             id == Unsigned("d", 2)
  <2> HIDE DEF u
  <2>1. PrintedOf("F", x) = <<ty, tm, td>> /\ ReadOf("F", u) = <<iy, im, id>>
        /\ Taken(ty, iy, fa, y) /\ Taken(tm, im, fb, m) /\ Taken(td, id, fc, d)
    BY DateNumbers
  <2> HIDE DEF ty, tm, td, iy, im, id, fa, fb, fc, y, m, d
  <2>2. Printed(format, x) = <<ty, tm, td>> /\ ItemsOf(format, u) = <<iy, im, id>>
    BY <2>1, OneConversion
  <2> HIDE DEF format
  <2>3. ReadFields(format, Printed(format, x), u)
          = Kept(Kept(Kept(NoFields, fa, y, u), fb, m, u), fc, d, u)
    BY ONLY <2>1, <2>2, ThreeTaken
  <2> QED BY <2>3
<1>2. y \in Int /\ m \in Int /\ d \in Int /\ In(y, -32768, 32767)
  BY <1>0, DateParts
<1>3. f \in FieldSet /\ f.Y = y /\ f.m = m /\ f.d = d /\ Others(NoFields, f, {"Y", "m", "d"})
  <2>1. fa \in NumberFields /\ fb \in NumberFields /\ fc \in NumberFields
        /\ fa # fb /\ fa # fc /\ fb # fc
    BY DEF NumberFields
  <2> HIDE DEF fa, fb, fc, f, u, y, m, d
  <2>2. f \in FieldSet /\ f[fa] = y /\ f[fb] = m /\ f[fc] = d /\ Others(NoFields, f, {fa, fb, fc})
    BY ONLY <1>1, <1>2, <2>1, ThreeKept
  <2> QED BY <2>2 DEF fa, fb, fc
<1>4. f = ReadFields(format, text, 86400)
  BY DEF f
<1> HIDE DEF f
<1>5. /\ f.yy = No2Digits /\ f.g = No2Digits /\ f.G = NoYear /\ f.j = 0
      /\ f.U = NoWeek /\ f.W = NoWeek /\ f.wd = NoWeekday
  BY <1>3, Unread
<1>6. Resolve(f) = f
  BY <1>5, ResolvedAsRead
<1> DEFINE X == {"Y", "m", "d"}
<1>7. "h" \notin X /\ "min" \notin X /\ "s" \notin X /\ "z" \notin X /\ "fail" \notin X
  OBVIOUS
<1>8. Read(format, text, 1) = Answer(ToDays(x.ymd))
  <2> HIDE DEF X, format, text
  <2>1. Others(NoFields, f, X)
    BY <1>3 DEF X
  <2> QED BY <1>2, <1>3, <1>4, <1>6, <1>7, <2>1, DateResolved
<1> QED BY <1>8 DEF format, text

\* A date, read by %D: the year by two digits.
LEMMA DRead ==
  ASSUME NEW x, DateIn(x.ymd), In(x.ymd.y, 1969, 2068)
  PROVE  Read(<<"D">>, Printed(<<"D">>, x), 1) = Answer(ToDays(x.ymd))
<1> DEFINE u == 86400
           format == <<"D">>
           text == Printed(format, x)
           f == ReadFields(format, text, u)
           y == x.ymd.y
           m == x.ymd.m
           d == x.ymd.d
           yy == YearOfCentury(y)
           c == CenturyOf(NoYear, NoCentury, yy)
           fa == "m"
           fb == "d"
           fc == "yy"
           g == WithYear(f)
<1>0. In(x.ymd.y, -9900, 9999) /\ In(x.ymd.y, 0, 9999)
  BY SMT DEF In
<1>1. f = Kept(Kept(Kept(NoFields, fa, m, u), fb, d, u), fc, yy, u)
  <2> DEFINE tc == NumberRight(yy, 2)
             tm == Number(m, 2)
             td == Number(d, 2)
             ic == Signed("yy", 2)
             im == Unsigned("m", 2)
             id == Unsigned("d", 2)
  <2> HIDE DEF u
  <2>1. PrintedOf("D", x) = <<tm, td, tc>> /\ ReadOf("D", u) = <<im, id, ic>>
        /\ Taken(tm, im, fa, m) /\ Taken(td, id, fb, d) /\ Taken(tc, ic, fc, yy)
    BY <1>0, DateNumbers
  <2> HIDE DEF tc, tm, td, ic, im, id, fa, fb, fc, y, m, d, yy
  <2>2. Printed(format, x) = <<tm, td, tc>> /\ ItemsOf(format, u) = <<im, id, ic>>
    BY <2>1, OneConversion
  <2> HIDE DEF format
  <2>3. ReadFields(format, Printed(format, x), u)
          = Kept(Kept(Kept(NoFields, fa, m, u), fb, d, u), fc, yy, u)
    BY ONLY <2>1, <2>2, ThreeTaken
  <2> QED BY <2>3
<1>2. y \in Int /\ m \in Int /\ d \in Int /\ In(y, -32768, 32767)
  BY <1>0, DateParts
<1>3. yy \in 0 .. 99 /\ yy \in Int /\ c \in Int /\ FullYear(c, yy) = y
  BY <1>2, CenturyGuessed
<1>4. f \in FieldSet /\ f.m = m /\ f.d = d /\ f.yy = yy /\ Others(NoFields, f, {"m", "d", "yy"})
  <2>1. fa \in NumberFields /\ fb \in NumberFields /\ fc \in NumberFields
        /\ fa # fb /\ fa # fc /\ fb # fc
    BY DEF NumberFields
  <2>2. m \in Int /\ d \in Int /\ yy \in Int
    BY <1>2, <1>3
  <2> HIDE DEF fa, fb, fc, f, u, yy, m, d
  <2>3. f \in FieldSet /\ f[fa] = m /\ f[fb] = d /\ f[fc] = yy /\ Others(NoFields, f, {fa, fb, fc})
    BY ONLY <1>1, <2>1, <2>2, ThreeKept
  <2> QED BY <2>3 DEF fa, fb, fc
<1>5. f = ReadFields(format, text, 86400)
  BY DEF f
<1> HIDE DEF f
<1>6. g \in FieldSet /\ g.Y = y /\ Others(f, g, {"C", "Y"})
  <2>1. f.Y = NoYear /\ f.C = NoCentury
    BY <1>4, Unread
  <2>2. f.yy \in 0 .. 99 /\ c = CenturyOf(f.Y, f.C, f.yy) /\ FullYear(c, f.yy) = y
    BY <1>3, <1>4, <2>1
  <2> HIDE DEF g, c, y, yy
  <2> QED BY <1>2, <1>3, <1>4, <2>1, <2>2, YearCompleted DEF g
<1>7. g.m = m /\ g.d = d
  <2>1. g["m"] = f["m"] /\ g["d"] = f["d"]
    BY <1>6 DEF Others, FieldNames, NumberFields
  <2> QED BY <1>4, <2>1
<1> DEFINE X == {"m", "d", "yy"}
           Y == X \cup {"C", "Y"}
<1>8. Others(NoFields, g, Y) /\ Others(NoFields, f, X)
  BY <1>4, <1>6, OthersOfBoth
<1>9. /\ "h" \notin X /\ "min" \notin X /\ "s" \notin X /\ "z" \notin X /\ "fail" \notin Y
      /\ "g" \notin Y /\ "G" \notin Y /\ "j" \notin Y /\ "U" \notin Y /\ "W" \notin Y /\ "wd" \notin Y
  OBVIOUS
<1> HIDE DEF g, X, Y
<1>10. Resolve(f) = g
  <2>1. /\ g.g = No2Digits /\ g.G = NoYear /\ g.j = 0
        /\ g.U = NoWeek /\ g.W = NoWeek /\ g.wd = NoWeekday
    BY <1>8, <1>9, Unread
  <2>2. /\ g = WithIsoYear(g) /\ g = FromIsoWeek(g) /\ g = FromDayOfYear(g)
        /\ g = FromWeekU(g) /\ g = FromWeekW(g) /\ g = Agreed(g)
    BY <2>1, Skipped
  <2>3. g = WithYear(f)
    BY DEF g
  <2> QED BY ONLY <2>2, <2>3, ResolvedInSteps
<1> HIDE DEF format, text
<1>11. Read(format, text, 1) = Answer(ToDays(x.ymd))
  BY <1>2, <1>4, <1>5, <1>6, <1>7, <1>8, <1>9, <1>10, DateResolved
<1> QED BY <1>11 DEF format, text

(*****************************************************************************)
(* The walk by days.                                                         *)
(*****************************************************************************)

\* The years whose dates the conversions print in full: the year, the one by ISO 8601 that
\* may follow it and, by the clock, those of the days around it have four digits at most,
\* and the century of a year before 0 has two.
YearsPrinted == In(date.y, IF ByDays THEN -9900 ELSE 1, 9998)

\* Years that are printed in full are years that date.h has.
LEMMA PrintedYears ==
  ASSUME YearsPrinted
  PROVE  /\ In(date.y, -9900, 9999) /\ In(date.y, -9900, 9998) /\ WithinYears /\ WeeksHold
         /\ ~ByDays => In(date.y, 1, 9998)
BY SMT DEF YearsPrinted, In, WithinYears, WeeksHold

\* The fields of a day.
LEMMA FieldsOfDay ==
  ASSUME CalendarAssumption, Walked, ByDays, YearsPrinted
  PROVE  FieldsOf(tp, unit, 0).ymd = date /\ tp = ToDays(date) /\ unit = 1 /\ DateIn(date)
<1> DEFINE n == ToDays(date)
           one == 1
           s == 86400
<1>1. unit = one /\ n \in Int /\ tp = n /\ Floor(tp, unit) = n
  <2>1. unit = 1
    BY UnitIsOne DEF Walked
  <2>2. tp = (n * unit) + 0 /\ n \in Int /\ Floor(tp, unit) = n
    BY DayOfWalk DEF Walked
  <2> HIDE DEF n
  <2> QED BY <2>1, <2>2, SMT
<1>2. StreamUnit(unit) = s /\ s \in Int /\ s > 0 /\ s \div 1440 = 60
  BY <1>1, SMT DEF StreamUnit
<1> HIDE DEF n, s, one
<1> DEFINE local == ((tp - (n * unit)) * (s \div unit)) + (0 * (s \div 1440))
           day == Floor(local, s)
<1>3. local = 0
  <2>1. tp - (n * unit) = 0
    BY <1>1, SMT DEF one
  <2>2. unit \in Int /\ unit > 0
    BY <1>1, SMT DEF one
  <2>3. s \div unit \in Int
    BY <1>2, <2>2, SMT
  <2> QED BY <1>2, <2>1, <2>3, SMT
<1>4. day = 0
  <2> HIDE DEF local
  <2> DEFINE o == 0
  <2>1. o \in Int /\ local \in Int /\ local = (o * s) + o /\ 0 <= o /\ o < s
    BY <1>2, <1>3, SMT
  <2> HIDE DEF o
  <2>2. Floor(local, s) = o
    BY <1>2, <2>1, FloorOfDays
  <2> QED BY <2>2 DEF o
<1>5. FieldsOf(tp, unit, 0).ymd = FromDays(n + day)
  BY <1>1, <1>2 DEF FieldsOf
<1>6. n + day = n
  <2> HIDE DEF day
  <2> QED BY <1>1, <1>4, SMT
<1>7. FromDays(n) = date /\ DateIn(date)
  <2>1. DateIn(date) /\ In(date.y, -9900, 9999)
    BY PrintedYears DEF Walked
  <2> QED BY <2>1, DateParts DEF n
<1> HIDE DEF day
<1> QED BY <1>1, <1>5, <1>6, <1>7 DEF n, one

\* The week of the date by ISO 8601 is one of a year that is printed.
LEMMA IsoWeekOfWalk ==
  ASSUME CalendarAssumption, Walked, ByDays, YearsPrinted
  PROVE  /\ IsoYear(date) \in Int /\ IsoWeek(date) \in Int /\ WeekdayOf(date) \in 0 .. 6
         /\ IsoNamed(date, IsoYear(date), IsoWeek(date), WeekdayOf(date))
         /\ In(IsoYear(date), -9999, 9999)
<1> DEFINE r == IsoYear(date)
           y == date.y
           v == IsoWeek(date)
<1>1. /\ r \in Int /\ r \in (y - 1) .. (y + 1)
      /\ IsoStart(r) \in Int /\ IsoStart(r) <= ToDays(date)
      /\ (IsoStart(r) + 4) % 7 = 1
      /\ v = Quot(ToDays(date) - IsoStart(r), 7) + 1
      /\ v \in 1 .. 53
  BY PrintedYears, IsoWeeks
<1>2. In(y, -9900, 9998)
  BY PrintedYears
<1>3. WeekdayOf(date) \in 0 .. 6
  BY WeekdayIs DEF Walked
<1> HIDE DEF r, y, v
<1>4. In(r, -9999, 9999) /\ In(r, -32767, 32767) /\ v \in Int
  BY <1>1, <1>2, SMT DEF In
<1> QED BY <1>1, <1>3, <1>4 DEF IsoNamed, r, v

\* The weeks from Sunday and from Monday have two digits.
LEMMA WeeksOfWalk ==
  ASSUME CalendarAssumption, Walked, ByDays, YearsPrinted
  PROVE  WeekU(date) \in 0 .. 53 /\ WeekW(date) \in 0 .. 53
<1> DEFINE n == NumberInYear(date)
           z == ToDays(date)
<1>1. DateIn(date)
  BY DEF Walked
<1>2. n \in 1 .. 366 /\ z \in Int
  <2>1. n \in 1 .. DaysOfYear(date.y) /\ DaysOfYear(date.y) \in {365, 366}
    BY <1>1, NumbersInYear DEF DaysOfYear
  <2> HIDE DEF n, z
  <2>2. n \in 1 .. 366
    BY <2>1, SMT
  <2> QED BY <1>1, <2>2, DaysAreInt DEF z
<1>3. ASSUME NEW start \in {0, 1}
      PROVE  WeekFrom(date, start) \in 0 .. 53
  <2>1. WeekFrom(date, start) = ((n + 6) - (((z + 4) - start) % 7)) \div 7
    BY <1>1, WeeksFromSunday
  <2> HIDE DEF n, z
  <2> QED BY <1>2, <2>1, SMT
<1>4. WeekFrom(date, 0) \in 0 .. 53 /\ WeekFrom(date, 1) \in 0 .. 53
  BY <1>3
<1> QED BY <1>4 DEF WeekU, WeekW, Sun, Mon

\* Every date of a walk is read from what is printed of it.
LEMMA DatesReadBack ==
  ASSUME CalendarAssumption, Walked, ByDays, YearsPrinted
  PROVE  \A format \in DateFormats :
           Read(format, Printed(format, FieldsOf(tp, unit, 0)), unit) = Answer(tp)
<1> DEFINE x == FieldsOf(tp, unit, 0)
           Back(format) == Read(format, Printed(format, x), 1) = Answer(ToDays(x.ymd))
<1>1. x.ymd = date /\ tp = ToDays(date) /\ unit = 1 /\ DateIn(date)
  BY FieldsOfDay
<1> HIDE DEF x
<1>2. DateIn(x.ymd) /\ In(x.ymd.y, -9900, 9999)
  BY <1>1, PrintedYears
<1>3. Back(<<"Y", "m", "d">>)
  BY <1>2, YmdRead
<1>4. Back(<<"C", "y", "m", "d">>)
  BY <1>2, CymdRead
<1>5. Back(<<"Y", "j">>)
  BY <1>2, YjRead
<1>6. Back(<<"G", "V", "u">>) /\ (IsoYear(date) \in 1969 .. 2068 => Back(<<"g", "V", "w">>))
  <2> DEFINE r == IsoYear(date)
             v == IsoWeek(date)
             wd == WeekdayOf(date)
  <2>1. r \in Int /\ v \in Int /\ wd \in 0 .. 6 /\ IsoNamed(x.ymd, r, v, wd) /\ In(r, -9999, 9999)
    BY <1>1, IsoWeekOfWalk
  <2> HIDE DEF r, v, wd, Back
  <2>2. Back(<<"G", "V", "u">>)
    BY <1>2, <2>1, GvuRead DEF Back
  <2>3. ASSUME r \in 1969 .. 2068 PROVE Back(<<"g", "V", "w">>)
    <3>1. In(r, 1969, 2068)
      BY <2>3, SMT DEF In
    <3> QED BY <1>2, <2>1, <3>1, GvwRead DEF Back
  <2> QED BY <2>2, <2>3 DEF r
<1>7. date.y >= 0 => Back(<<"F">>)
  <2> SUFFICES ASSUME date.y >= 0 PROVE Back(<<"F">>)
    OBVIOUS
  <2>1. In(x.ymd.y, 0, 9999)
    BY <1>1, <1>2, SMT DEF In
  <2> QED BY <1>2, <2>1, FRead
<1>8. date.y \in 1969 .. 2068 => Back(<<"D">>)
  <2> SUFFICES ASSUME date.y \in 1969 .. 2068 PROVE Back(<<"D">>)
    OBVIOUS
  <2>1. In(x.ymd.y, 1969, 2068)
    BY <1>1, <1>2, SMT DEF In
  <2> QED BY <1>2, <2>1, DRead
<1>9. WeekU(date) > 0 => Back(<<"Y", "U", "w">>)
  <2> SUFFICES ASSUME WeekU(date) > 0 PROVE Back(<<"Y", "U", "w">>)
    OBVIOUS
  <2> DEFINE k == WeekU(date)
  <2>1. k \in Int /\ k > 0 /\ k < 100 /\ WeekU(x.ymd) = k
    <3>1. k \in 0 .. 53 /\ k > 0 /\ WeekU(x.ymd) = k
      BY <1>1, WeeksOfWalk
    <3> HIDE DEF k
    <3> QED BY <3>1, SMT
  <2> HIDE DEF k
  <2> QED BY <1>2, <2>1, YuwRead
<1>10. WeekW(date) > 0 => Back(<<"Y", "W", "u">>)
  <2> SUFFICES ASSUME WeekW(date) > 0 PROVE Back(<<"Y", "W", "u">>)
    OBVIOUS
  <2> DEFINE k == WeekW(date)
  <2>1. k \in Int /\ k > 0 /\ k < 100 /\ WeekW(x.ymd) = k
    <3>1. k \in 0 .. 53 /\ k > 0 /\ WeekW(x.ymd) = k
      BY <1>1, WeeksOfWalk
    <3> HIDE DEF k
    <3> QED BY <3>1, SMT
  <2> HIDE DEF k
  <2> QED BY <1>2, <2>1, YwuRead
<1> HIDE DEF Back
<1>11. \A format \in DateFormats : Back(format)
  BY <1>3, <1>4, <1>5, <1>6, <1>7, <1>8, <1>9, <1>10 DEF DateFormats
<1>12. ASSUME NEW format, Back(format)
       PROVE  Read(format, Printed(format, x), unit) = Answer(tp)
  BY <1>1, <1>12 DEF Back
<1> QED BY <1>11, <1>12 DEF x

\* No format of a date has an offset from UTC.
LEMMA NoOffsets ==
  ASSUME NEW format \in DateFormats
  PROVE  "z" \notin Seqs!ToSet(format)
<1>1. format \in {<<"Y", "m", "d">>, <<"C", "y", "m", "d">>, <<"Y", "j">>, <<"G", "V", "u">>,
                  <<"F">>, <<"D">>, <<"g", "V", "w">>, <<"Y", "U", "w">>, <<"Y", "W", "u">>}
  BY DEF DateFormats
<1> QED BY <1>1 DEF Seqs!ToSet

\* Every day of a walk is read back, by every format that names it.
LEMMA WalkedDaysRead ==
  ASSUME CalendarAssumption, Walked, ByDays, YearsPrinted
  PROVE  ParsesBack
<1> SUFFICES ASSUME NEW format \in DateFormats,
                    NEW z \in IF "z" \in Seqs!ToSet(format) THEN {-660, -60, 345, 720} ELSE {0}
             PROVE  Read(format, Printed(format, FieldsOf(tp, unit, z)), unit)
                      = [fail |-> FALSE, tp |-> tp]
  BY DEF ParsesBack
<1>1. z = 0
  BY NoOffsets
<1>2. Read(format, Printed(format, FieldsOf(tp, unit, 0)), unit) = Answer(tp)
  BY DatesReadBack
<1> QED BY <1>1, <1>2 DEF Answer

(*****************************************************************************)
(* The times of the day: fields, conversions and offsets.                    *)
(*****************************************************************************)

\* The seconds are kept rounded to the unit.
LEMMA SecondsKept ==
  ASSUME NEW f \in FieldSet, NEW n, NEW u,
         NEW s \in Int, Round(n * PerSecond(u), Precision(u)) = s,
         NEW g, g = Kept(f, "s", n, u)
  PROVE  g \in FieldSet /\ g.s = s /\ Others(f, g, {"s"})
<1>1. g = [f EXCEPT !.s = s]
  BY DEF Kept
<1>2. [f EXCEPT !.s = s] \in FieldSet
  BY DEF FieldSet
<1>3. "s" \in DOMAIN f /\ \A c \in FieldNames : c \in DOMAIN f
  BY DEF FieldSet, NumberFields, FieldNames
<1> QED BY <1>1, <1>2, <1>3 DEF Others

\* The two numbers of an offset are kept as its minutes.
LEMMA OffsetIsKept ==
  ASSUME NEW f \in FieldSet, NEW h \in Int, NEW m \in Int, NEW u,
         NEW g, g = OffsetKept(f, h, m, u)
  PROVE  g \in FieldSet /\ g.z = (60 * h) + m /\ Others(f, g, {"z"})
<1> DEFINE p == [f EXCEPT !.z = 60 * h]
           q == [p EXCEPT !.z = @ + m]
<1>1. g = q
  BY DEF OffsetKept, Kept
<1>2. \A c \in FieldNames : c \in DOMAIN f
  BY DEF FieldSet, NumberFields, FieldNames
<1>3. p \in FieldSet /\ p.z = 60 * h /\ Others(f, p, {"z"})
  <2>1. 60 * h \in Int
    OBVIOUS
  <2>2. p \in FieldSet
    BY <2>1 DEF FieldSet
  <2>3. p.z = 60 * h
    BY DEF FieldSet
  <2> QED BY <1>2, <2>2, <2>3 DEF Others
<1> HIDE DEF p
<1>4. q \in FieldSet /\ q.z = p.z + m /\ Others(p, q, {"z"})
  <2>1. p.z + m \in Int
    BY <1>3
  <2>2. q \in FieldSet
    BY <1>3, <2>1 DEF FieldSet
  <2>3. q.z = p.z + m
    BY <1>3 DEF FieldSet
  <2>4. \A c \in FieldNames : c \in DOMAIN p
    BY <1>3 DEF FieldSet, NumberFields, FieldNames
  <2> QED BY <2>2, <2>3, <2>4 DEF Others
<1> HIDE DEF q
<1>5. q.z = (60 * h) + m
  BY <1>3, <1>4
<1>6. Others(f, q, {"z"})
  BY <1>3, <1>4 DEF Others
<1> QED BY <1>1, <1>4, <1>5, <1>6

\* What is kept of the numbers of a time point, and of one with an offset.
TimeFields(f, ymd, h, mi, s, z, X) ==
  /\ f \in FieldSet /\ f.Y = ymd.y /\ f.m = ymd.m /\ f.d = ymd.d
  /\ f.h = h /\ f.min = mi /\ f.s = s /\ f.z = z /\ Others(NoFields, f, X)

\* A date and a time of the day are kept in their fields.
LEMMA TimeIsKept ==
  ASSUME NEW ymd, ymd.y \in Int, ymd.m \in Int, ymd.d \in Int, NEW h \in Int, NEW mi \in Int,
         NEW n, NEW u, NEW s \in Int, Round(n * PerSecond(u), Precision(u)) = s,
         NEW f, f = TimeKept(DateKept(ymd.y, ymd.m, ymd.d, u), h, mi, n, u)
  PROVE  TimeFields(f, ymd, h, mi, s, 0, {"Y", "m", "d", "h", "min", "s"})
<1> DEFINE f3 == DateKept(ymd.y, ymd.m, ymd.d, u)
           f4 == Kept(f3, "h", h, u)
           f5 == Kept(f4, "min", mi, u)
           y == ymd.y
           m == ymd.m
           d == ymd.d
           fa == "Y"
           fb == "m"
           fc == "d"
           fd == "h"
           fe == "min"
<1>1. /\ f3 \in FieldSet /\ f3.Y = y /\ f3.m = m /\ f3.d = d
      /\ Others(NoFields, f3, {"Y", "m", "d"})
  <2>1. fa \in NumberFields /\ fb \in NumberFields /\ fc \in NumberFields
        /\ fa # fb /\ fa # fc /\ fb # fc
    BY DEF NumberFields
  <2>2. y \in Int /\ m \in Int /\ d \in Int
    OBVIOUS
  <2>3. f3 = Kept(Kept(Kept(NoFields, fa, y, u), fb, m, u), fc, d, u)
    BY DEF DateKept
  <2> HIDE DEF fa, fb, fc, f3, y, m, d
  <2>4. /\ f3 \in FieldSet /\ f3[fa] = y /\ f3[fb] = m /\ f3[fc] = d
        /\ Others(NoFields, f3, {fa, fb, fc})
    BY ONLY <2>1, <2>2, <2>3, ThreeKept
  <2> QED BY <2>4 DEF fa, fb, fc
<1>2. f = Kept(f5, "s", n, u)
  BY DEF TimeKept
<1> HIDE DEF f3, y, m, d
<1>3. f4 \in FieldSet /\ f4.h = h /\ Others(f3, f4, {"h"})
  <2>1. fd \in NumberFields
    BY DEF NumberFields
  <2>2. f4 = Kept(f3, fd, h, u)
    OBVIOUS
  <2> HIDE DEF fd, f4
  <2>3. f4 \in FieldSet /\ f4[fd] = h /\ Others(f3, f4, {fd})
    BY ONLY <1>1, <2>1, <2>2, h \in Int, KeptOnly
  <2> QED BY <2>3 DEF fd
<1>4. f5 \in FieldSet /\ f5.min = mi /\ Others(f4, f5, {"min"})
  <2>1. fe \in NumberFields
    BY DEF NumberFields
  <2>2. f5 = Kept(f4, fe, mi, u)
    OBVIOUS
  <2> HIDE DEF fe, f4, f5
  <2>3. f5 \in FieldSet /\ f5[fe] = mi /\ Others(f4, f5, {fe})
    BY ONLY <1>3, <2>1, <2>2, mi \in Int, KeptOnly
  <2> QED BY <2>3 DEF fe
<1> HIDE DEF f4, f5
<1>5. f \in FieldSet /\ f.s = s /\ Others(f5, f, {"s"})
  BY <1>2, <1>4, SecondsKept
<1>6. Others(NoFields, f, {"Y", "m", "d", "h", "min", "s"})
  BY <1>1, <1>3, <1>4, <1>5 DEF Others
<1>7. f["Y"] = f5["Y"] /\ f["m"] = f5["m"] /\ f["d"] = f5["d"] /\ f["h"] = f5["h"]
      /\ f["min"] = f5["min"]
  BY <1>5 DEF Others, FieldNames, NumberFields
<1>8. f5["Y"] = f4["Y"] /\ f5["m"] = f4["m"] /\ f5["d"] = f4["d"] /\ f5["h"] = f4["h"]
  BY <1>4 DEF Others, FieldNames, NumberFields
<1>9. f4["Y"] = f3["Y"] /\ f4["m"] = f3["m"] /\ f4["d"] = f3["d"]
  BY <1>3 DEF Others, FieldNames, NumberFields
<1>10. f.z = 0
  <2> DEFINE X == {"Y", "m", "d", "h", "min", "s"}
  <2>1. "z" \notin X
    OBVIOUS
  <2> HIDE DEF X
  <2>2. Others(NoFields, f, X)
    BY <1>6 DEF X
  <2> QED BY <2>1, <2>2, Unread
<1> QED BY <1>1, <1>3, <1>4, <1>5, <1>6, <1>7, <1>8, <1>9, <1>10 DEF TimeFields, y, m, d

\* The offset is kept beside them.
LEMMA TimeAndOffset ==
  ASSUME NEW ymd, NEW h, NEW mi, NEW s, NEW f, NEW u, NEW zh \in Int, NEW zm \in Int,
         TimeFields(f, ymd, h, mi, s, 0, {"Y", "m", "d", "h", "min", "s"}),
         NEW g, g = OffsetKept(f, zh, zm, u)
  PROVE  TimeFields(g, ymd, h, mi, s, (60 * zh) + zm, {"Y", "m", "d", "h", "min", "s", "z"})
<1>0. f \in FieldSet
  BY DEF TimeFields
<1>1. g \in FieldSet /\ g.z = (60 * zh) + zm /\ Others(f, g, {"z"})
  BY <1>0, OffsetIsKept
<1>2. g["Y"] = f["Y"] /\ g["m"] = f["m"] /\ g["d"] = f["d"] /\ g["h"] = f["h"]
      /\ g["min"] = f["min"] /\ g["s"] = f["s"]
  BY <1>1 DEF Others, FieldNames, NumberFields
<1>3. Others(NoFields, f, {"Y", "m", "d", "h", "min", "s"})
  BY DEF TimeFields
<1>4. Others(NoFields, g, {"Y", "m", "d", "h", "min", "s", "z"})
  BY <1>1, <1>3 DEF Others
<1>5. f.Y = ymd.y /\ f.m = ymd.m /\ f.d = ymd.d /\ f.h = h /\ f.min = mi /\ f.s = s
  BY DEF TimeFields
<1> QED BY <1>1, <1>2, <1>4, <1>5 DEF TimeFields

\* Two numbers, one after the other.
LEMMA JoinedTwo ==
  ASSUME NEW a, NEW b
  PROVE  <<a>> \o <<b>> = <<a, b>>
<1> DEFINE V == {a, b}
           s == <<a>>
           t == <<b>>
           r == <<a, b>>
<1>1. s \in Seq(V) /\ t \in Seq(V) /\ r \in Seq(V) /\ Len(r) = Len(s) + Len(t)
  OBVIOUS
<1>2. \A i \in 1 .. Len(s) : r[i] = s[i]
  <2>1. 1 .. Len(s) = {1}
    OBVIOUS
  <2> QED BY <2>1
<1>3. \A i \in 1 .. Len(t) : r[Len(s) + i] = t[i]
  <2>1. 1 .. Len(t) = {1} /\ Len(s) = 1
    OBVIOUS
  <2> QED BY <2>1
<1> HIDE DEF s, t, r, V
<1>4. s \o t = r
  BY <1>1, <1>2, <1>3, JoinedIs
<1> QED BY <1>4 DEF s, t, r


\* Six and eight numbers, read and kept in their order.
LEMMA SixTaken ==
  ASSUME NEW format, NEW x, NEW u,
         NEW ta, NEW tb, NEW tc, NEW td, NEW te, NEW tf,
         NEW ia, NEW ib, NEW ic, NEW id, NEW ie, NEW if,
         Printed(format, x) = <<ta, tb, tc, td, te, tf>>,
         ItemsOf(format, u) = <<ia, ib, ic, id, ie, if>>,
         NEW fa, NEW fb, NEW fc, NEW fd, NEW fe, NEW ff,
         NEW a, NEW b, NEW c, NEW d, NEW e, NEW f,
         Taken(ta, ia, fa, a),
         Taken(tb, ib, fb, b),
         Taken(tc, ic, fc, c),
         Taken(td, id, fd, d),
         Taken(te, ie, fe, e),
         Taken(tf, if, ff, f)
  PROVE  ReadFields(format, Printed(format, x), u)
           = Kept(Kept(Kept(Kept(Kept(Kept(NoFields, fa, a, u), fb, b, u), fc, c, u),
                  fd, d, u), fe, e, u), ff, f, u)
<1> DEFINE f1 == Kept(NoFields, fa, a, u)
           f2 == Kept(f1, fb, b, u)
           f3 == Kept(f2, fc, c, u)
           f4 == Kept(f3, fd, d, u)
           f5 == Kept(f4, fe, e, u)
           f6 == Kept(f5, ff, f, u)
           n == 6
           text == <<ta, tb, tc, td, te, tf>>
           items == <<ia, ib, ic, id, ie, if>>
           r == [i \in 0 .. 6 |->
                   CASE i = 0 -> NoFields [] i = 1 -> f1 [] i = 2 -> f2 [] i = 3 -> f3
                     [] i = 4 -> f4 [] i = 5 -> f5
                     [] OTHER -> f6]
<1>1. /\ n \in Nat /\ Len(text) = n /\ Len(items) = n /\ DOMAIN items = 1 .. n
      /\ text = Printed(format, x) /\ items = ItemsOf(format, u)
  OBVIOUS
<1>2. 1 .. n = {1, 2, 3, 4, 5, 6}
      /\ 1 - 1 = 0 /\ 2 - 1 = 1 /\ 3 - 1 = 2 /\ 4 - 1 = 3 /\ 5 - 1 = 4 /\ 6 - 1 = 5
  OBVIOUS
<1>3. ASSUME NEW i \in 1 .. n PROVE Fits(text[i], items[i])
  BY <1>2 DEF Taken
<1> HIDE DEF f1, f2, f3, f4, f5, f6
<1>4. r[0] = NoFields /\ r[1] = f1 /\ r[2] = f2 /\ r[3] = f3 /\ r[4] = f4 /\ r[5] = f5 /\ r[6] = f6
  OBVIOUS
<1>5. /\ text[1].n = a /\ items[1].field = fa
      /\ text[2].n = b /\ items[2].field = fb
      /\ text[3].n = c /\ items[3].field = fc
      /\ text[4].n = d /\ items[4].field = fd
      /\ text[5].n = e /\ items[5].field = fe
      /\ text[6].n = f /\ items[6].field = ff
  BY DEF Taken
<1> HIDE DEF r, text, items
<1>6. /\ r[1] = Kept(r[0], items[1].field, text[1].n, u)
      /\ r[2] = Kept(r[1], items[2].field, text[2].n, u)
      /\ r[3] = Kept(r[2], items[3].field, text[3].n, u)
      /\ r[4] = Kept(r[3], items[4].field, text[4].n, u)
      /\ r[5] = Kept(r[4], items[5].field, text[5].n, u)
      /\ r[6] = Kept(r[5], items[6].field, text[6].n, u)
  BY <1>4, <1>5 DEF f1, f2, f3, f4, f5, f6
<1> HIDE DEF n
<1>7. \A i \in 1 .. n : r[i] = Kept(r[i - 1], items[i].field, text[i].n, u)
  BY <1>2, <1>6
<1>8. ReadFields(format, Printed(format, x), u) = r[n]
  <2>1. r[0] = NoFields
    BY <1>4
  <2>2. \A i \in 1 .. n : Fits(text[i], items[i])
    BY <1>3
  <2> QED BY ONLY <1>1, <1>7, <2>1, <2>2, TextRead
<1> QED BY <1>4, <1>8 DEF f1, f2, f3, f4, f5, f6, n

\* Eight numbers that fit their items are kept in their fields.
LEMMA EightTaken ==
  ASSUME NEW format, NEW x, NEW u,
         NEW ta, NEW tb, NEW tc, NEW td, NEW te, NEW tf, NEW tg, NEW th,
         NEW ia, NEW ib, NEW ic, NEW id, NEW ie, NEW if, NEW ig, NEW ih,
         Printed(format, x) = <<ta, tb, tc, td, te, tf, tg, th>>,
         ItemsOf(format, u) = <<ia, ib, ic, id, ie, if, ig, ih>>,
         NEW fa, NEW fb, NEW fc, NEW fd, NEW fe, NEW ff, NEW fg, NEW fh,
         NEW a, NEW b, NEW c, NEW d, NEW e, NEW f, NEW g, NEW h,
         Taken(ta, ia, fa, a),
         Taken(tb, ib, fb, b),
         Taken(tc, ic, fc, c),
         Taken(td, id, fd, d),
         Taken(te, ie, fe, e),
         Taken(tf, if, ff, f),
         Taken(tg, ig, fg, g),
         Taken(th, ih, fh, h)
  PROVE  ReadFields(format, Printed(format, x), u)
           = Kept(Kept(Kept(Kept(Kept(Kept(Kept(Kept(NoFields, fa, a, u), fb, b, u), fc, c, u),
                  fd, d, u), fe, e, u), ff, f, u),
                  fg, g, u), fh, h, u)
<1> DEFINE f1 == Kept(NoFields, fa, a, u)
           f2 == Kept(f1, fb, b, u)
           f3 == Kept(f2, fc, c, u)
           f4 == Kept(f3, fd, d, u)
           f5 == Kept(f4, fe, e, u)
           f6 == Kept(f5, ff, f, u)
           f7 == Kept(f6, fg, g, u)
           f8 == Kept(f7, fh, h, u)
           n == 8
           text == <<ta, tb, tc, td, te, tf, tg, th>>
           items == <<ia, ib, ic, id, ie, if, ig, ih>>
           r == [i \in 0 .. 8 |->
                   CASE i = 0 -> NoFields [] i = 1 -> f1 [] i = 2 -> f2 [] i = 3 -> f3
                     [] i = 4 -> f4 [] i = 5 -> f5 [] i = 6 -> f6 [] i = 7 -> f7
                     [] OTHER -> f8]
<1>1. /\ n \in Nat /\ Len(text) = n /\ Len(items) = n /\ DOMAIN items = 1 .. n
      /\ text = Printed(format, x) /\ items = ItemsOf(format, u)
  OBVIOUS
<1>2. 1 .. n = {1, 2, 3, 4, 5, 6, 7, 8}
      /\ 1 - 1 = 0 /\ 2 - 1 = 1 /\ 3 - 1 = 2 /\ 4 - 1 = 3 /\ 5 - 1 = 4 /\ 6 - 1 = 5 /\ 7 - 1 = 6 /\ 8 - 1 = 7
  OBVIOUS
<1>3. ASSUME NEW i \in 1 .. n PROVE Fits(text[i], items[i])
  BY <1>2 DEF Taken
<1> HIDE DEF f1, f2, f3, f4, f5, f6, f7, f8
<1>4. /\ r[0] = NoFields /\ r[1] = f1 /\ r[2] = f2 /\ r[3] = f3 /\ r[4] = f4 /\ r[5] = f5
      /\ r[6] = f6 /\ r[7] = f7 /\ r[8] = f8
  OBVIOUS
<1>5. /\ text[1].n = a /\ items[1].field = fa
      /\ text[2].n = b /\ items[2].field = fb
      /\ text[3].n = c /\ items[3].field = fc
      /\ text[4].n = d /\ items[4].field = fd
      /\ text[5].n = e /\ items[5].field = fe
      /\ text[6].n = f /\ items[6].field = ff
      /\ text[7].n = g /\ items[7].field = fg
      /\ text[8].n = h /\ items[8].field = fh
  BY DEF Taken
<1> HIDE DEF r, text, items
<1>6. /\ r[1] = Kept(r[0], items[1].field, text[1].n, u)
      /\ r[2] = Kept(r[1], items[2].field, text[2].n, u)
      /\ r[3] = Kept(r[2], items[3].field, text[3].n, u)
      /\ r[4] = Kept(r[3], items[4].field, text[4].n, u)
      /\ r[5] = Kept(r[4], items[5].field, text[5].n, u)
      /\ r[6] = Kept(r[5], items[6].field, text[6].n, u)
      /\ r[7] = Kept(r[6], items[7].field, text[7].n, u)
      /\ r[8] = Kept(r[7], items[8].field, text[8].n, u)
  BY <1>4, <1>5 DEF f1, f2, f3, f4, f5, f6, f7, f8
<1> HIDE DEF n
<1>7. \A i \in 1 .. n : r[i] = Kept(r[i - 1], items[i].field, text[i].n, u)
  BY <1>2, <1>6
<1>8. ReadFields(format, Printed(format, x), u) = r[n]
  <2>1. r[0] = NoFields
    BY <1>4
  <2>2. \A i \in 1 .. n : Fits(text[i], items[i])
    BY <1>3
  <2> QED BY ONLY <1>1, <1>7, <2>1, <2>2, TextRead
<1> QED BY <1>4, <1>8 DEF f1, f2, f3, f4, f5, f6, f7, f8, n

\* The number of the seconds with their fraction, and the item that reads it.
SecondsNumber(t, u) ==
  [n |-> (t.s * Precision(u)) + t.sub, torn |-> FALSE, digits |-> 2 + (DigitsOf(Precision(u)) - 1)]
SecondsItem(u) ==
  Unsigned("s", IF PerSecond(u) = 1 THEN 2 ELSE 3 + (DigitsOf(Precision(u)) - 1))

\* What the conversions of a time of the day print and read.
LEMMA TimeConversions ==
  ASSUME NEW x, NEW u, x.unit = u
  PROVE  LET th == Number(x.tod.h, 2)
             tm == Number(x.tod.m, 2)
             ts == SecondsNumber(x.tod, u)
             ih == Unsigned("h", 2)
             im == Unsigned("min", 2)
             is == SecondsItem(u)
         IN  /\ PrintedOf("H", x) = <<th>> /\ PrintedOf("M", x) = <<tm>> /\ PrintedOf("S", x) = <<ts>>
             /\ ReadOf("H", u) = <<ih>> /\ ReadOf("M", u) = <<im>> /\ ReadOf("S", u) = <<is>>
             /\ PrintedOf("R", x) = <<th, tm>> /\ ReadOf("R", u) = <<ih, im>>
             /\ PrintedOf("T", x) = <<th, tm, ts>> /\ ReadOf("T", u) = <<ih, im, is>>
<1> DEFINE th == Number(x.tod.h, 2)
           tm == Number(x.tod.m, 2)
           ts == SecondsNumber(x.tod, u)
           ih == Unsigned("h", 2)
           im == Unsigned("min", 2)
           is == SecondsItem(u)
<1>1. PrintedOf("H", x) = <<th>>
  BY DEF PrintedOf, PrintedHour
<1>2. PrintedOf("M", x) = <<tm>>
  BY DEF PrintedOf, PrintedMinute
<1>3. PrintedOf("S", x) = <<ts>>
  BY DEF PrintedOf, PrintedSeconds, SecondsNumber
<1>4. ReadOf("H", u) = <<ih>>
  BY DEF ReadOf, ReadHour
<1>5. ReadOf("M", u) = <<im>>
  BY DEF ReadOf, ReadMinute
<1>6. ReadOf("S", u) = <<is>>
  BY DEF ReadOf, ReadSeconds, SecondsItem
<1>7. PrintedOf("R", x) = <<th>> \o <<tm>> /\ PrintedOf("T", x) = (<<th>> \o <<tm>>) \o <<ts>>
  <2>1. PrintedOf("R", x) = <<th>> \o <<tm>>
    BY DEF PrintedOf, PrintedR, PrintedHour, PrintedMinute
  <2>2. PrintedOf("T", x) = PrintedT(x.tod, x.unit)
    BY DEF PrintedOf
  <2>3. PrintedT(x.tod, x.unit) = (<<th>> \o <<tm>>) \o <<ts>>
    BY DEF PrintedT, PrintedR, PrintedHour, PrintedMinute, PrintedSeconds, SecondsNumber
  <2> QED BY <2>1, <2>2, <2>3
<1>8. ReadOf("R", u) = <<ih>> \o <<im>> /\ ReadOf("T", u) = (<<ih>> \o <<im>>) \o <<is>>
  <2>1. ReadOf("R", u) = <<ih>> \o <<im>>
    BY DEF ReadOf, ReadR, ReadHour, ReadMinute
  <2>2. ReadOf("T", u) = (<<ih>> \o <<im>>) \o <<is>>
    BY DEF ReadOf, ReadT, ReadR, ReadHour, ReadMinute, ReadSeconds, SecondsItem
  <2> QED BY <2>1, <2>2
<1> HIDE DEF th, tm, ts, ih, im, is
<1>9. /\ <<th>> \o <<tm>> = <<th, tm>> /\ <<ih>> \o <<im>> = <<ih, im>>
  BY JoinedTwo
<1>10. (<<th>> \o <<tm>>) \o <<ts>> = <<th, tm, ts>>
  BY ONLY JoinedThree
<1>11. (<<ih>> \o <<im>>) \o <<is>> = <<ih, im, is>>
  BY ONLY JoinedThree
<1> QED BY <1>1, <1>2, <1>3, <1>4, <1>5, <1>6, <1>7, <1>8, <1>9, <1>10, <1>11
           DEF th, tm, ts, ih, im, is

\* A time of the day split into numbers of few digits, in a unit with its precision.
TimeIn(t, u, h, mi, s, b, p) ==
  /\ t.h = h /\ t.m = mi /\ t.s = s /\ t.sub = b
  /\ In(h, 0, 23) /\ In(mi, 0, 59) /\ In(s, 0, 59) /\ b \in Int /\ 0 <= b
  /\ p \in Nat /\ Precision(u) = p /\ p > 0
  /\ PerSecond(u) = 1 => p = 1

\* The numbers of a time of the day are read to their ends.
LEMMA TimeNumbers ==
  ASSUME NEW t, NEW u, NEW h, NEW mi, NEW s, NEW b, NEW p, TimeIn(t, u, h, mi, s, b, p)
  PROVE  /\ Taken(Number(t.h, 2), Unsigned("h", 2), "h", h)
         /\ Taken(Number(t.m, 2), Unsigned("min", 2), "min", mi)
         /\ Taken(SecondsNumber(t, u), SecondsItem(u), "s", (s * p) + b)
<1>0. /\ h \in Int /\ mi \in Int /\ s \in Int /\ b \in Int /\ p \in Nat
      /\ t.h = h /\ t.m = mi /\ t.s = s /\ t.sub = b /\ Precision(u) = p
      /\ 0 <= h /\ h <= 23 /\ 0 <= mi /\ mi <= 59 /\ 0 <= s /\ 0 <= b
      /\ p > 0 /\ (PerSecond(u) = 1 => p = 1)
  BY DEF TimeIn, In
<1>1. Magnitude(h) < Beyond(2) /\ h >= 0 /\ Magnitude(mi) < Beyond(2) /\ mi >= 0 /\ 2 \in 1 .. 4
  BY <1>0, SMT DEF Magnitude, Beyond
<1>2. Fits(Number(h, 2), Unsigned("h", 2)) /\ Number(h, 2).n = h
  BY <1>0, <1>1, NumbersFit
<1>3. Fits(Number(mi, 2), Unsigned("min", 2)) /\ Number(mi, 2).n = mi
  BY <1>0, <1>1, NumbersFit
<1>4. Taken(Number(h, 2), Unsigned("h", 2), "h", h)
  BY <1>2 DEF Taken, Unsigned
<1>5. Taken(Number(mi, 2), Unsigned("min", 2), "min", mi)
  BY <1>3 DEF Taken, Unsigned
<1> DEFINE k == DigitsOf(p)
           n == (s * p) + b
           w == IF PerSecond(u) = 1 THEN 2 ELSE 3 + (k - 1)
           digits == 2 + (k - 1)
<1>6. k \in Nat /\ (p = 1 => k = 1)
  <2>1. Magnitude(p) = p
    BY <1>0, SMT DEF Magnitude
  <2>2. p = 1 => k = 1
    BY <1>0, <2>1, FewDigits
  <2>3. k \in Nat
    BY <1>0, FewDigits
  <2> QED BY <2>2, <2>3
<1>7. n >= 0 /\ n \in Int
  <2>1. s * p \in Int /\ s * p >= 0
    BY <1>0, SMT
  <2> QED BY <1>0, <2>1
<1>8. SecondsNumber(t, u) = [n |-> n, torn |-> FALSE, digits |-> digits]
  BY <1>0 DEF SecondsNumber
<1>9. SecondsItem(u) = Unsigned("s", w)
  BY <1>0 DEF SecondsItem
<1> HIDE DEF k, n
<1>10. digits <= w
  BY <1>0, <1>6, SMT
<1> HIDE DEF digits, w
<1>11. Taken(SecondsNumber(t, u), SecondsItem(u), "s", n)
  <2>1. ~(n < 0)
    BY <1>7, SMT
  <2> QED BY <1>8, <1>9, <1>10, <2>1 DEF Taken, Fits, Unsigned
<1> QED BY <1>0, <1>4, <1>5, <1>11 DEF n

\* The numbers of an offset.
OffsetHours(z) == IF z < 0 THEN -Quot(Magnitude(z), 60) ELSE Quot(Magnitude(z), 60)
OffsetMinutes(z) == Magnitude(z) - (60 * Quot(Magnitude(z), 60))
EvenOffset(z) ==
  /\ z \in Int /\ z > -1440 /\ z < 1440
  /\ z < 0 => z % 60 = 0

\* The offset is printed and read as its hours and its minutes.
LEMMA OffsetNumbers ==
  ASSUME NEW x, NEW u, NEW z, x.z = z, EvenOffset(z)
  PROVE  /\ PrintedOf("z", x) = <<Number(OffsetHours(z), 2), Number(OffsetMinutes(z), 2)>>
         /\ ReadOf("z", u) = <<Signed("zh", 2), Unsigned("zm", 2)>>
         /\ Taken(Number(OffsetHours(z), 2), Signed("zh", 2), "zh", OffsetHours(z))
         /\ Taken(Number(OffsetMinutes(z), 2), Unsigned("zm", 2), "zm", OffsetMinutes(z))
         /\ OffsetHours(z) \in Int /\ OffsetMinutes(z) \in Int
         /\ (60 * OffsetHours(z)) + OffsetMinutes(z) = z
<1> DEFINE zh == OffsetHours(z)
           zm == OffsetMinutes(z)
           q == Quot(Magnitude(z), 60)
<1>1. PrintedOf("z", x) = <<Number(zh, 2), Number(zm, 2)>>
  BY DEF PrintedOf, PrintedOffset, OffsetHours, OffsetMinutes
<1>2. ReadOf("z", u) = <<Signed("zh", 2), Unsigned("zm", 2)>>
  BY DEF ReadOf, ReadOffset
<1>3. z \in Int /\ z > -1440 /\ z < 1440 /\ (z < 0 => z % 60 = 0)
  BY DEF EvenOffset
<1>4. q \in Int /\ 60 * q <= Magnitude(z) /\ Magnitude(z) < (60 * q) + 60
  BY <1>3, SMT DEF Quot, Magnitude
<1>5. zh = (IF z < 0 THEN -q ELSE q) /\ zm = Magnitude(z) - (60 * q)
  BY DEF OffsetHours, OffsetMinutes
<1> HIDE DEF q, zh, zm
<1>6. z < 0 => Magnitude(z) = 60 * q
  <2> SUFFICES ASSUME z < 0 PROVE Magnitude(z) = 60 * q
    OBVIOUS
  <2>1. Magnitude(z) = -z /\ z = 60 * (z \div 60) /\ z \div 60 \in Int
    BY <1>3, SMT DEF Magnitude
  <2> QED BY <1>4, <2>1, SMT
<1>7. Magnitude(z) \in Int /\ 0 <= Magnitude(z) /\ Magnitude(z) < 1440
      /\ Magnitude(z) = (IF z < 0 THEN -z ELSE z)
  BY <1>3, SMT DEF Magnitude
<1>8. zh \in Int /\ zm \in Int /\ zm >= 0 /\ zm < 60 /\ q >= 0 /\ q < 24
  BY <1>4, <1>5, <1>7, SMT
<1>9. (60 * zh) + zm = z
  BY <1>3, <1>4, <1>5, <1>6, <1>7, SMT
<1>10. Magnitude(zh) < Beyond(2) /\ Magnitude(zm) < Beyond(2) /\ 2 \in 1 .. 4
  BY <1>4, <1>5, <1>8, SMT DEF Magnitude, Beyond
<1>11. Fits(Number(zh, 2), Signed("zh", 2)) /\ Number(zh, 2).n = zh
  BY <1>8, <1>10, NumbersFit
<1>12. Fits(Number(zm, 2), Unsigned("zm", 2)) /\ Number(zm, 2).n = zm
  BY <1>8, <1>10, NumbersFit
<1>13. Taken(Number(zh, 2), Signed("zh", 2), "zh", zh)
  BY <1>11 DEF Taken, Signed
<1>14. Taken(Number(zm, 2), Unsigned("zm", 2), "zm", zm)
  BY <1>12 DEF Taken, Unsigned
<1> QED BY <1>1, <1>2, <1>8, <1>9, <1>13, <1>14 DEF zh, zm

\* Six conversions of one number each.
LEMMA FlattenedSix ==
  ASSUME NEW a, NEW b, NEW c, NEW d, NEW e, NEW f
  PROVE  Seqs!FlattenSeq(<<<<a>>, <<b>>, <<c>>, <<d>>, <<e>>, <<f>>>>) = <<a, b, c, d, e, f>>
<1> DEFINE s == <<<<a>>, <<b>>, <<c>>, <<d>>, <<e>>, <<f>>>>
           r == <<a, b, c, d, e, f>>
           n == 6
<1>1. n \in Nat \ {0} /\ Len(s) = n
  OBVIOUS
<1>2. 1 .. n = {1, 2, 3, 4, 5, 6}
  OBVIOUS
<1>3. \A i \in 1 .. n : s[i] = <<s[i][1]>> /\ s[i][1] = r[i]
  BY <1>2
<1>4. r = [i \in 1 .. n |-> r[i]]
  OBVIOUS
<1> HIDE DEF s, r, n
<1>5. Seqs!FlattenSeq(s) = [i \in 1 .. n |-> s[i][1]]
  BY ONLY <1>1, <1>3, FlattenedOnes
<1>6. [i \in 1 .. n |-> s[i][1]] = [i \in 1 .. n |-> r[i]]
  BY <1>3
<1> QED BY <1>4, <1>5, <1>6 DEF s, r

\* Six conversions of one number each print and read six numbers.
LEMMA SixConversions ==
  ASSUME NEW x, NEW u, NEW a, NEW b, NEW c, NEW d, NEW e, NEW f,
         NEW ta, NEW tb, NEW tc, NEW td, NEW te, NEW tf,
         NEW ia, NEW ib, NEW ic, NEW id, NEW ie, NEW if,
         PrintedOf(a, x) = <<ta>>, PrintedOf(b, x) = <<tb>>, PrintedOf(c, x) = <<tc>>,
         PrintedOf(d, x) = <<td>>, PrintedOf(e, x) = <<te>>, PrintedOf(f, x) = <<tf>>,
         ReadOf(a, u) = <<ia>>, ReadOf(b, u) = <<ib>>, ReadOf(c, u) = <<ic>>,
         ReadOf(d, u) = <<id>>, ReadOf(e, u) = <<ie>>, ReadOf(f, u) = <<if>>
  PROVE  /\ Printed(<<a, b, c, d, e, f>>, x) = <<ta, tb, tc, td, te, tf>>
         /\ ItemsOf(<<a, b, c, d, e, f>>, u) = <<ia, ib, ic, id, ie, if>>
<1> DEFINE format == <<a, b, c, d, e, f>>
<1>1. [i \in DOMAIN format |-> PrintedOf(format[i], x)]
        = <<PrintedOf(a, x), PrintedOf(b, x), PrintedOf(c, x), PrintedOf(d, x), PrintedOf(e, x),
            PrintedOf(f, x)>>
  OBVIOUS
<1>2. [i \in DOMAIN format |-> ReadOf(format[i], u)]
        = <<ReadOf(a, u), ReadOf(b, u), ReadOf(c, u), ReadOf(d, u), ReadOf(e, u), ReadOf(f, u)>>
  OBVIOUS
<1>3. Seqs!FlattenSeq(<<<<ta>>, <<tb>>, <<tc>>, <<td>>, <<te>>, <<tf>>>>)
        = <<ta, tb, tc, td, te, tf>>
  BY ONLY FlattenedSix
<1>4. Seqs!FlattenSeq(<<<<ia>>, <<ib>>, <<ic>>, <<id>>, <<ie>>, <<if>>>>)
        = <<ia, ib, ic, id, ie, if>>
  BY ONLY FlattenedSix
<1> QED BY <1>1, <1>2, <1>3, <1>4 DEF Printed, ItemsOf

\* Two and four conversions of several numbers.
LEMMA TwoConversions ==
  ASSUME NEW x, NEW u, NEW a, NEW b, NEW format, format = <<a, b>>
  PROVE  /\ Printed(format, x) = PrintedOf(a, x) \o PrintedOf(b, x)
         /\ ItemsOf(format, u) = ReadOf(a, u) \o ReadOf(b, u)
<1> DEFINE pa == PrintedOf(a, x)
           pb == PrintedOf(b, x)
           ra == ReadOf(a, u)
           rb == ReadOf(b, u)
<1>1. [i \in DOMAIN format |-> PrintedOf(format[i], x)] = <<pa, pb>>
  OBVIOUS
<1>2. [i \in DOMAIN format |-> ReadOf(format[i], u)] = <<ra, rb>>
  OBVIOUS
<1> HIDE DEF pa, pb, ra, rb
<1>3. Seqs!FlattenSeq(<<pa, pb>>) = pa \o pb
  BY ONLY FlattenedTwo
<1>4. Seqs!FlattenSeq(<<ra, rb>>) = ra \o rb
  BY ONLY FlattenedTwo
<1>5. Printed(format, x) = pa \o pb
  BY <1>1, <1>3 DEF Printed
<1>6. ItemsOf(format, u) = ra \o rb
  BY <1>2, <1>4 DEF ItemsOf
<1> QED BY <1>5, <1>6 DEF pa, pb, ra, rb

\* Four conversions print and read what each of them does.
LEMMA FourConversions ==
  ASSUME NEW x, NEW u, NEW a, NEW b, NEW c, NEW d, NEW format, format = <<a, b, c, d>>
  PROVE  /\ Printed(format, x) = Joined(PrintedOf(a, x), PrintedOf(b, x), PrintedOf(c, x), PrintedOf(d, x))
         /\ ItemsOf(format, u) = Joined(ReadOf(a, u), ReadOf(b, u), ReadOf(c, u), ReadOf(d, u))
<1> DEFINE pa == PrintedOf(a, x)
           pb == PrintedOf(b, x)
           pc == PrintedOf(c, x)
           pd == PrintedOf(d, x)
           ra == ReadOf(a, u)
           rb == ReadOf(b, u)
           rc == ReadOf(c, u)
           rd == ReadOf(d, u)
<1>1. [i \in DOMAIN format |-> PrintedOf(format[i], x)] = <<pa, pb, pc, pd>>
  OBVIOUS
<1>2. [i \in DOMAIN format |-> ReadOf(format[i], u)] = <<ra, rb, rc, rd>>
  OBVIOUS
<1> HIDE DEF pa, pb, pc, pd, ra, rb, rc, rd
<1>3. Seqs!FlattenSeq(<<pa, pb, pc, pd>>) = Joined(pa, pb, pc, pd)
  BY ONLY FlattenedFour
<1>4. Seqs!FlattenSeq(<<ra, rb, rc, rd>>) = Joined(ra, rb, rc, rd)
  BY ONLY FlattenedFour
<1>5. Printed(format, x) = Joined(pa, pb, pc, pd)
  BY <1>1, <1>3 DEF Printed
<1>6. ItemsOf(format, u) = Joined(ra, rb, rc, rd)
  BY <1>2, <1>4 DEF ItemsOf
<1> QED BY <1>5, <1>6 DEF pa, pb, pc, pd, ra, rb, rc, rd

\* The numbers of %Y, %m and %d.
LEMMA YmdNumbers ==
  ASSUME NEW x, NEW u, DateIn(x.ymd), In(x.ymd.y, 0, 9999)
  PROVE  LET ty == Number(x.ymd.y, 4)
             tm == Number(x.ymd.m, 2)
             td == Number(x.ymd.d, 2)
         IN  /\ PrintedOf("Y", x) = <<ty>> /\ PrintedOf("m", x) = <<tm>> /\ PrintedOf("d", x) = <<td>>
             /\ ReadOf("Y", u) = <<Signed("Y", 4)>> /\ ReadOf("m", u) = <<Signed("m", 2)>>
             /\ ReadOf("d", u) = <<Signed("d", 2)>>
             /\ Taken(ty, Signed("Y", 4), "Y", x.ymd.y) /\ Taken(tm, Signed("m", 2), "m", x.ymd.m)
             /\ Taken(td, Signed("d", 2), "d", x.ymd.d)
<1> DEFINE y == x.ymd.y
           m == x.ymd.m
           d == x.ymd.d
<1>1. y \in Int /\ 0 <= y /\ y <= 9999 /\ m \in 1 .. 12 /\ d \in Int /\ 1 <= d /\ d <= 31
  <2>1. d \in 1 .. DaysIn(y, m) /\ DaysIn(y, m) \in 28 .. 31 /\ y \in Int /\ m \in 1 .. 12
    BY FieldsOfDate
  <2>2. 0 <= y /\ y <= 9999
    BY DEF In
  <2> HIDE DEF y, m, d
  <2> QED BY <2>1, <2>2, SMT
<1> HIDE DEF y, m, d
<1>2. /\ Magnitude(y) < Beyond(4) /\ Magnitude(m) < Beyond(2) /\ m \in Int
      /\ Magnitude(d) < Beyond(2) /\ 4 \in 1 .. 4 /\ 2 \in 1 .. 4
  BY <1>1, SMT DEF Magnitude, Beyond
<1>3. Fits(Number(y, 4), Signed("Y", 4)) /\ Number(y, 4).n = y
  BY <1>1, <1>2, NumbersFit
<1>4. Fits(Number(m, 2), Signed("m", 2)) /\ Number(m, 2).n = m
  BY <1>1, <1>2, NumbersFit
<1>5. Fits(Number(d, 2), Signed("d", 2)) /\ Number(d, 2).n = d
  BY <1>1, <1>2, NumbersFit
<1>6. Taken(Number(y, 4), Signed("Y", 4), "Y", y)
  BY <1>3 DEF Taken, Signed
<1>7. Taken(Number(m, 2), Signed("m", 2), "m", m)
  BY <1>4 DEF Taken, Signed
<1>8. Taken(Number(d, 2), Signed("d", 2), "d", d)
  BY <1>5 DEF Taken, Signed
<1> QED BY <1>6, <1>7, <1>8, DateConversions DEF y, m, d

\* A time point and its time of the day in numbers, and the fields they are kept in.
TextOf(x, u, h, mi, s, b, p, n) ==
  /\ x.unit = u /\ DateIn(x.ymd) /\ In(x.ymd.y, 0, 9999)
  /\ TimeIn(x.tod, u, h, mi, s, b, p) /\ n = (s * p) + b
TimeOfText(x, u, h, mi, n) == TimeKept(DateKept(x.ymd.y, x.ymd.m, x.ymd.d, u), h, mi, n, u)

\* A time point as %Y, %m, %d, %H, %M and %S print it.
LEMMA ByFields ==
  ASSUME NEW x, NEW u, NEW h, NEW mi, NEW s, NEW b, NEW p, NEW n, TextOf(x, u, h, mi, s, b, p, n),
         NEW format, format = <<"Y", "m", "d", "H", "M", "S">>
  PROVE  ReadFields(format, Printed(format, x), u)
           = TimeOfText(x, u, h, mi, n)
<1> DEFINE ta == Number(x.ymd.y, 4)
           tb == Number(x.ymd.m, 2)
           tc == Number(x.ymd.d, 2)
           td == Number(x.tod.h, 2)
           te == Number(x.tod.m, 2)
           tf == SecondsNumber(x.tod, u)
           ia == Signed("Y", 4)
           ib == Signed("m", 2)
           ic == Signed("d", 2)
           id == Unsigned("h", 2)
           ie == Unsigned("min", 2)
           if == SecondsItem(u)
           fa == "Y"
           fb == "m"
           fc == "d"
           fd == "h"
           fe == "min"
           ff == "s"
           y == x.ymd.y
           m == x.ymd.m
           d == x.ymd.d
           cd == "H"
           ce == "M"
           cf == "S"
<1>0. /\ x.unit = u /\ DateIn(x.ymd) /\ In(x.ymd.y, 0, 9999) /\ TimeIn(x.tod, u, h, mi, s, b, p)
      /\ n = (s * p) + b /\ TimeOfText(x, u, h, mi, n) = TimeKept(DateKept(y, m, d, u), h, mi, n, u)
  BY DEF TextOf, TimeOfText
<1>1. /\ PrintedOf(fa, x) = <<ta>> /\ PrintedOf(fb, x) = <<tb>> /\ PrintedOf(fc, x) = <<tc>>
      /\ ReadOf(fa, u) = <<ia>> /\ ReadOf(fb, u) = <<ib>> /\ ReadOf(fc, u) = <<ic>>
      /\ Taken(ta, ia, fa, y) /\ Taken(tb, ib, fb, m) /\ Taken(tc, ic, fc, d)
  BY <1>0, YmdNumbers
<1>2. /\ PrintedOf(cd, x) = <<td>> /\ PrintedOf(ce, x) = <<te>> /\ PrintedOf(cf, x) = <<tf>>
      /\ ReadOf(cd, u) = <<id>> /\ ReadOf(ce, u) = <<ie>> /\ ReadOf(cf, u) = <<if>>
  BY <1>0, TimeConversions
<1>3. Taken(td, id, fd, h) /\ Taken(te, ie, fe, mi) /\ Taken(tf, if, ff, n)
  BY <1>0, TimeNumbers
<1>4. format = <<fa, fb, fc, cd, ce, cf>>
  OBVIOUS
<1>5. TimeKept(DateKept(y, m, d, u), h, mi, n, u)
        = Kept(Kept(Kept(Kept(Kept(Kept(NoFields, fa, y, u), fb, m, u), fc, d, u),
                  fd, h, u), fe, mi, u), ff, n, u)
  BY DEF TimeKept, DateKept
<1> HIDE DEF ta, tb, tc, td, te, tf, ia, ib, ic, id, ie, if, fa, fb, fc, fd, fe, ff, y, m, d, cd, ce, cf
<1>6. /\ Printed(<<fa, fb, fc, cd, ce, cf>>, x) = <<ta, tb, tc, td, te, tf>>
      /\ ItemsOf(<<fa, fb, fc, cd, ce, cf>>, u) = <<ia, ib, ic, id, ie, if>>
  BY ONLY <1>1, <1>2, SixConversions
<1>7. /\ Printed(format, x) = <<ta, tb, tc, td, te, tf>>
      /\ ItemsOf(format, u) = <<ia, ib, ic, id, ie, if>>
  BY ONLY <1>4, <1>6
<1>8. ReadFields(format, Printed(format, x), u)
        = Kept(Kept(Kept(Kept(Kept(Kept(NoFields, fa, y, u), fb, m, u), fc, d, u),
                  fd, h, u), fe, mi, u), ff, n, u)
  BY ONLY <1>1, <1>3, <1>7, SixTaken
<1> QED BY <1>0, <1>5, <1>8

\* A time point as %F and %T print it.
LEMMA ByDateAndTime ==
  ASSUME NEW x, NEW u, NEW h, NEW mi, NEW s, NEW b, NEW p, NEW n, TextOf(x, u, h, mi, s, b, p, n),
         NEW format, format = <<"F", "T">>
  PROVE  ReadFields(format, Printed(format, x), u)
           = TimeOfText(x, u, h, mi, n)
<1> DEFINE ta == NumberRight(x.ymd.y, 4)
           tb == Number(x.ymd.m, 2)
           tc == Number(x.ymd.d, 2)
           td == Number(x.tod.h, 2)
           te == Number(x.tod.m, 2)
           tf == SecondsNumber(x.tod, u)
           ia == Signed("Y", 4)
           ib == Unsigned("m", 2)
           ic == Unsigned("d", 2)
           id == Unsigned("h", 2)
           ie == Unsigned("min", 2)
           if == SecondsItem(u)
           fa == "Y"
           fb == "m"
           fc == "d"
           fd == "h"
           fe == "min"
           ff == "s"
           y == x.ymd.y
           m == x.ymd.m
           d == x.ymd.d
           ca == "F"
           cb == "T"
<1>0. /\ x.unit = u /\ DateIn(x.ymd) /\ In(x.ymd.y, 0, 9999) /\ TimeIn(x.tod, u, h, mi, s, b, p)
      /\ n = (s * p) + b /\ TimeOfText(x, u, h, mi, n) = TimeKept(DateKept(y, m, d, u), h, mi, n, u)
  BY DEF TextOf, TimeOfText
<1>1. /\ PrintedOf(ca, x) = <<ta, tb, tc>> /\ ReadOf(ca, u) = <<ia, ib, ic>>
      /\ Taken(ta, ia, fa, y) /\ Taken(tb, ib, fb, m) /\ Taken(tc, ic, fc, d)
  BY <1>0, DateNumbers
<1>2. PrintedOf(cb, x) = <<td, te, tf>> /\ ReadOf(cb, u) = <<id, ie, if>>
  BY <1>0, TimeConversions
<1>3. Taken(td, id, fd, h) /\ Taken(te, ie, fe, mi) /\ Taken(tf, if, ff, n)
  BY <1>0, TimeNumbers
<1>4. format = <<ca, cb>>
  OBVIOUS
<1>5. TimeKept(DateKept(y, m, d, u), h, mi, n, u)
        = Kept(Kept(Kept(Kept(Kept(Kept(NoFields, fa, y, u), fb, m, u), fc, d, u),
                  fd, h, u), fe, mi, u), ff, n, u)
  BY DEF TimeKept, DateKept
<1> HIDE DEF ta, tb, tc, td, te, tf, ia, ib, ic, id, ie, if, fa, fb, fc, fd, fe, ff, y, m, d, ca, cb
<1>6. /\ Printed(format, x) = PrintedOf(ca, x) \o PrintedOf(cb, x)
      /\ ItemsOf(format, u) = ReadOf(ca, u) \o ReadOf(cb, u)
  BY ONLY <1>4, TwoConversions
<1>7. /\ <<ta, tb, tc>> \o <<td, te, tf>> = <<ta, tb, tc, td, te, tf>>
      /\ <<ia, ib, ic>> \o <<id, ie, if>> = <<ia, ib, ic, id, ie, if>>
  <2>1. <<ta, tb, tc>> \o <<td, te, tf>> = <<ta, tb, tc, td, te, tf>>
    BY ONLY JoinedThrees
  <2>2. <<ia, ib, ic>> \o <<id, ie, if>> = <<ia, ib, ic, id, ie, if>>
    BY ONLY JoinedThrees
  <2> QED BY ONLY <2>1, <2>2
<1>8. /\ Printed(format, x) = <<ta, tb, tc, td, te, tf>>
      /\ ItemsOf(format, u) = <<ia, ib, ic, id, ie, if>>
  BY ONLY <1>1, <1>2, <1>6, <1>7
<1>9. ReadFields(format, Printed(format, x), u)
        = Kept(Kept(Kept(Kept(Kept(Kept(NoFields, fa, y, u), fb, m, u), fc, d, u),
                  fd, h, u), fe, mi, u), ff, n, u)
  BY ONLY <1>1, <1>3, <1>8, SixTaken
<1> QED BY <1>0, <1>5, <1>9

\* A time point as %F, %R, %S and %z print it.
LEMMA ByOffset ==
  ASSUME NEW x, NEW u, NEW h, NEW mi, NEW s, NEW b, NEW p, NEW n, TextOf(x, u, h, mi, s, b, p, n),
         NEW z, x.z = z, EvenOffset(z),
         NEW format, format = <<"F", "R", "S", "z">>
  PROVE  ReadFields(format, Printed(format, x), u)
           = OffsetKept(TimeOfText(x, u, h, mi, n), OffsetHours(z), OffsetMinutes(z), u)
<1> DEFINE ta == NumberRight(x.ymd.y, 4)
           tb == Number(x.ymd.m, 2)
           tc == Number(x.ymd.d, 2)
           td == Number(x.tod.h, 2)
           te == Number(x.tod.m, 2)
           tf == SecondsNumber(x.tod, u)
           tg == Number(OffsetHours(z), 2)
           th == Number(OffsetMinutes(z), 2)
           ia == Signed("Y", 4)
           ib == Unsigned("m", 2)
           ic == Unsigned("d", 2)
           id == Unsigned("h", 2)
           ie == Unsigned("min", 2)
           if == SecondsItem(u)
           ig == Signed("zh", 2)
           ih == Unsigned("zm", 2)
           fa == "Y"
           fb == "m"
           fc == "d"
           fd == "h"
           fe == "min"
           ff == "s"
           fg == "zh"
           fh == "zm"
           y == x.ymd.y
           m == x.ymd.m
           d == x.ymd.d
           zh == OffsetHours(z)
           zm == OffsetMinutes(z)
           ca == "F"
           cb == "R"
           cc == "S"
           cd == "z"
<1>0. /\ x.unit = u /\ DateIn(x.ymd) /\ In(x.ymd.y, 0, 9999) /\ TimeIn(x.tod, u, h, mi, s, b, p)
      /\ n = (s * p) + b /\ TimeOfText(x, u, h, mi, n) = TimeKept(DateKept(y, m, d, u), h, mi, n, u)
  BY DEF TextOf, TimeOfText
<1>1. /\ PrintedOf(ca, x) = <<ta, tb, tc>> /\ ReadOf(ca, u) = <<ia, ib, ic>>
      /\ Taken(ta, ia, fa, y) /\ Taken(tb, ib, fb, m) /\ Taken(tc, ic, fc, d)
  BY <1>0, DateNumbers
<1>2. PrintedOf(cb, x) = <<td, te>> /\ ReadOf(cb, u) = <<id, ie>>
      /\ PrintedOf(cc, x) = <<tf>> /\ ReadOf(cc, u) = <<if>>
  BY <1>0, TimeConversions
<1>3. Taken(td, id, fd, h) /\ Taken(te, ie, fe, mi) /\ Taken(tf, if, ff, n)
  BY <1>0, TimeNumbers
<1>4. /\ PrintedOf(cd, x) = <<tg, th>> /\ ReadOf(cd, u) = <<ig, ih>>
      /\ Taken(tg, ig, fg, zh) /\ Taken(th, ih, fh, zm)
  BY ONLY x.z = z, EvenOffset(z), OffsetNumbers
<1>5. format = <<ca, cb, cc, cd>>
  OBVIOUS
<1>6. OffsetKept(TimeKept(DateKept(y, m, d, u), h, mi, n, u), zh, zm, u)
        = Kept(Kept(Kept(Kept(Kept(Kept(Kept(Kept(NoFields, fa, y, u), fb, m, u), fc, d, u),
                  fd, h, u), fe, mi, u), ff, n, u), fg, zh, u), fh, zm, u)
  <2> DEFINE k == TimeKept(DateKept(y, m, d, u), h, mi, n, u)
  <2>1. k = Kept(Kept(Kept(Kept(Kept(Kept(NoFields, fa, y, u), fb, m, u), fc, d, u),
                  fd, h, u), fe, mi, u), ff, n, u)
    BY DEF TimeKept, DateKept
  <2> HIDE DEF k
  <2>2. OffsetKept(k, zh, zm, u) = Kept(Kept(k, fg, zh, u), fh, zm, u)
    BY DEF OffsetKept
  <2> HIDE DEF fa, fb, fc, fd, fe, ff, fg, fh, zh, zm, y, m, d
  <2> QED BY <2>1, <2>2 DEF k
<1> HIDE DEF ta, tb, tc, td, te, tf, tg, th, ia, ib, ic, id, ie, if, ig, ih,
             fa, fb, fc, fd, fe, ff, fg, fh, y, m, d, zh, zm, ca, cb, cc, cd
<1>7. /\ Printed(format, x) = Joined(PrintedOf(ca, x), PrintedOf(cb, x), PrintedOf(cc, x), PrintedOf(cd, x))
      /\ ItemsOf(format, u) = Joined(ReadOf(ca, u), ReadOf(cb, u), ReadOf(cc, u), ReadOf(cd, u))
  BY ONLY <1>5, FourConversions
<1>8. /\ (<<ta, tb, tc>> \o <<td, te>>) \o <<tf>> = <<ta, tb, tc, td, te, tf>>
      /\ (<<ia, ib, ic>> \o <<id, ie>>) \o <<if>> = <<ia, ib, ic, id, ie, if>>
  <2>1. (<<ta, tb, tc>> \o <<td, te>>) \o <<tf>> = <<ta, tb, tc, td, te, tf>>
    BY ONLY JoinedSix
  <2>2. (<<ia, ib, ic>> \o <<id, ie>>) \o <<if>> = <<ia, ib, ic, id, ie, if>>
    BY ONLY JoinedSix
  <2> QED BY ONLY <2>1, <2>2
<1>9. /\ <<ta, tb, tc, td, te, tf>> \o <<tg, th>> = <<ta, tb, tc, td, te, tf, tg, th>>
      /\ <<ia, ib, ic, id, ie, if>> \o <<ig, ih>> = <<ia, ib, ic, id, ie, if, ig, ih>>
  BY ONLY JoinedEight
<1>10. /\ Printed(format, x) = <<ta, tb, tc, td, te, tf, tg, th>>
       /\ ItemsOf(format, u) = <<ia, ib, ic, id, ie, if, ig, ih>>
  BY ONLY <1>1, <1>2, <1>4, <1>7, <1>8, <1>9 DEF Joined
<1>11. ReadFields(format, Printed(format, x), u)
        = Kept(Kept(Kept(Kept(Kept(Kept(Kept(Kept(NoFields, fa, y, u), fb, m, u), fc, d, u),
                  fd, h, u), fe, mi, u), ff, n, u), fg, zh, u), fh, zm, u)
  BY ONLY <1>1, <1>3, <1>4, <1>10, EightTaken
<1> QED BY <1>0, <1>6, <1>11 DEF zh, zm

(*****************************************************************************)
(* Fractions of a second, rounded to and from a decimal precision.           *)
(*****************************************************************************)

\* Quotients and roundings of exact multiples.
LEMMA SameMultiple ==
  ASSUME NEW x \in Int, NEW q \in Int, NEW k \in Int, k > 0,
         \/ x * k <= q * k /\ q * k < (x * k) + k
         \/ q * k <= x * k /\ (x * k) - k < q * k
  PROVE  x = q
<1>1. ((q - x) * k) = (q * k) - (x * k)
  BY SMT
<1> DEFINE d == q - x
<1>2. d \in Int /\ d * k < k /\ d * k > -k
  BY <1>1, SMT
<1> HIDE DEF d
<1>3. d >= 1 => d * k >= k
  BY <1>2, SMT
<1>4. d <= -1 => d * k <= -k
  BY <1>2, SMT
<1>5. d = 0
  BY <1>2, <1>3, <1>4, SMT
<1> QED BY <1>5, SMT DEF d

\* The quotient of a multiple.
LEMMA QuotExact ==
  ASSUME NEW q \in Int, NEW k \in Int, k > 0, NEW n \in Int, n = q * k
  PROVE  Quot(n, k) = q
<1> DEFINE x == Quot(n, k)
<1>1. /\ x \in Int
      /\ n >= 0 => x * k <= n /\ n < (x * k) + k
      /\ n < 0 => n <= x * k /\ (x * k) - k < n
  BY QuotBounds
<1> HIDE DEF x
<1>2. n >= 0 \/ n < 0
  OBVIOUS
<1>3. x = q
  BY <1>1, <1>2, SameMultiple
<1> QED BY <1>3 DEF x

\* A multiple is not changed by rounding.
LEMMA RoundExact ==
  ASSUME NEW q \in Int, NEW k \in Int, k > 0, NEW n \in Int, n = q * k
  PROVE  Round(n, k) = q
<1>1. Floor(n, k) = q
  <2> DEFINE o == 0
  <2>1. o \in Int /\ n = (q * k) + o /\ 0 <= o /\ o < k
    BY SMT
  <2> HIDE DEF o
  <2> QED BY <2>1, FloorOfDays
<1>2. n - (q * k) = 0 /\ ((q + 1) * k) - n = k
  BY SMT
<1>3. n - (q * k) < ((q + 1) * k) - n
  BY <1>2
<1> QED BY <1>1, <1>3 DEF Round

\* A number of seconds with a fraction is kept in the fractions of the unit, and taken apart.
LEMMA SecondsRead ==
  ASSUME NEW u, NEW ps \in Nat, PerSecond(u) = ps, ps > 0, NEW p \in Nat, Precision(u) = p, p > 0,
         p % ps = 0, NEW s \in Int, s >= 0, NEW b \in Int, 0 <= b, b < ps
  PROVE  LET k == p \div ps
             n == (s * p) + (b * k)
             f == (s * ps) + b
         IN  /\ k \in Nat /\ k > 0 /\ p = k * ps
             /\ Round(n * PerSecond(u), Precision(u)) = f /\ f \in Int
             /\ DecimalSeconds(f, u).s = s /\ DecimalSeconds(f, u).sub = b * k
             /\ b * k \in Int /\ 0 <= b * k /\ b * k < p
<1> DEFINE k == p \div ps
           n == (s * p) + (b * k)
           f == (s * ps) + b
<1>1. k \in Nat /\ k > 0 /\ p = k * ps
  BY SMT
<1> HIDE DEF k
<1>2. s * p \in Int /\ b * k \in Int /\ s * ps \in Int /\ s * ps >= 0 /\ 0 <= b * k
  BY <1>1, SMT
<1>3. f \in Int /\ n \in Int /\ f >= 0
  BY <1>2, SMT
<1>4. n * ps = f * p
  <2>1. ((s * p) + (b * k)) * ps = ((s * p) * ps) + ((b * k) * ps)
    BY <1>1, <1>2, SMT
  <2>2. ((s * ps) + b) * p = ((s * ps) * p) + (b * p)
    BY <1>1, <1>2, SMT
  <2>3. (s * p) * ps = (s * ps) * p
    BY <1>1, SMT
  <2>4. (b * k) * ps = b * p
    BY <1>1, SMT
  <2> QED BY <2>1, <2>2, <2>3, <2>4
<1>5. Round(n * PerSecond(u), Precision(u)) = f
  <2> DEFINE m == n * ps
  <2>1. m \in Int /\ m = f * p
    BY <1>3, <1>4, SMT
  <2> HIDE DEF m, f, n
  <2>2. Round(m, p) = f
    BY <1>3, <2>1, RoundExact
  <2> QED BY <2>2 DEF m
<1>6. DecimalSeconds(f, u).s = s
  <2>1. Quot(f, ps) = s
    <3>1. Magnitude(f) = (s * ps) + b
      BY <1>2, <1>3, SMT DEF Magnitude
    <3>2. ~(f < 0)
      BY <1>3, SMT
    <3>3. Whole(f, ps, s, b)
      BY <1>3, <3>1 DEF Whole
    <3> HIDE DEF f
    <3>4. Quot(f, ps) = (IF f < 0 THEN -s ELSE s)
      BY <3>3, QuotOf
    <3> QED BY <3>2, <3>4
  <2> HIDE DEF f
  <2> QED BY <2>1 DEF DecimalSeconds, Trunc
<1>7. DecimalSeconds(f, u).sub = b * k
  <2>1. Quot(f, ps) = s
    <3> HIDE DEF f
    <3> QED BY <1>6 DEF DecimalSeconds, Trunc
  <2>2. f - (s * ps) = b
    BY <1>2, SMT
  <2> HIDE DEF f
  <2>3. DecimalSeconds(f, u).sub = Quot((f - (Quot(f, ps) * ps)) * p, ps)
    BY DEF DecimalSeconds, Trunc
  <2>4. DecimalSeconds(f, u).sub = Quot(b * p, ps)
    BY <2>1, <2>2, <2>3
  <2> DEFINE q == b * k
             m == b * p
  <2>5. q \in Int /\ m \in Int /\ m = q * ps
    BY <1>1, <1>2, SMT
  <2> HIDE DEF q, m
  <2>6. Quot(m, ps) = q
    BY <2>5, QuotExact
  <2> QED BY <2>4, <2>6 DEF q, m
<1>8. b * k < p
  <2>1. b + 1 <= ps
    BY SMT
  <2>2. (b + 1) * k <= ps * k
    BY <1>1, <2>1, SMT
  <2>3. (b + 1) * k = (b * k) + k /\ ps * k = p
    BY <1>1, SMT
  <2> QED BY <1>1, <1>2, <2>2, <2>3, SMT
<1> HIDE DEF n, f
<1> QED BY <1>1, <1>2, <1>3, <1>5, <1>6, <1>7, <1>8 DEF k, n, f

\* The unit a time point is printed in: a second has ps ticks of it and p of its precision.
FineUnit(v, su, ps, p) ==
  /\ v \in Nat /\ v > 0
  /\ su = StreamUnit(v) /\ PerSecond(su) = ps /\ Precision(su) = p
  /\ ps \in Nat /\ ps > 0 /\ p \in Nat /\ p > 0 /\ p % ps = 0
  /\ su = 86400 * ps
  /\ ps = 1 => p = 1
  /\ v < 86400 => ps = 1 /\ 86400 = v * (86400 \div v) /\ 86400 \div v \in Nat /\ 86400 \div v > 0
  /\ v >= 86400 => v = su

\* Every unit with exact decimal fractions is printed in such a unit.
LEMMA FineUnits ==
  ASSUME NEW v, UnitOK(v), Precision(v) % PerSecond(v) = 0
  PROVE  FineUnit(v, StreamUnit(v), PerSecond(StreamUnit(v)), Precision(StreamUnit(v)))
<1>1. v \in Nat /\ v >= 24
  BY DEF UnitOK
<1>2. CASE v < 86400
  <2> DEFINE u == 86400
  <2>1. StreamUnit(v) = u
    BY <1>2 DEF StreamUnit
  <2>2. PerSecond(u) = 1 /\ Precision(u) = 1
    BY WholeSeconds
  <2>3. 86400 % v = 0
    BY <1>2 DEF UnitOK
  <2>4. 86400 = v * (86400 \div v) /\ 86400 \div v \in Nat /\ 86400 \div v > 0
    BY <1>1, <1>2, <2>3, SMT
  <2>5. 1 % 1 = 0
    BY SMT
  <2> QED BY <1>1, <1>2, <2>1, <2>2, <2>4, <2>5, SMT DEF FineUnit
<1>3. CASE v >= 86400
  <2> DEFINE ps == v \div 86400
             p == Precision(v)
  <2>1. StreamUnit(v) = v
    BY <1>1, <1>3, SMT DEF StreamUnit
  <2>2. v % 86400 = 0
    BY <1>1, <1>3, SMT DEF UnitOK
  <2>3. ps \in Nat /\ ps > 0 /\ v = 86400 * ps
    BY <1>1, <1>3, <2>2, SMT
  <2>4. PerSecond(v) = ps
    <3>1. CASE v > 86400
      BY <3>1, ClassOfUnit
    <3>2. CASE v = 86400
      <4>1. ps = 1
        BY <3>2, SMT
      <4> QED BY <3>2, <4>1, WholeSeconds
    <3> QED BY <1>1, <1>3, <3>1, <3>2, SMT
  <2> HIDE DEF ps
  <2>5. p \in Nat /\ p > 0 /\ (ps < 2 => p = 1)
    BY <2>3, <2>4, PrecisionIsNat
  <2>6. p % ps = 0
    BY <2>4
  <2> HIDE DEF p
  <2>7. ps = 1 => p = 1
    BY <2>5, SMT
  <2>8. ~(v < 86400) /\ v > 0
    BY <1>1, <1>3, SMT
  <2>9. PerSecond(StreamUnit(v)) = ps /\ Precision(StreamUnit(v)) = p /\ v = StreamUnit(v)
    BY <2>1, <2>4 DEF p
  <2> QED BY <1>1, <2>1, <2>3, <2>5, <2>6, <2>7, <2>8, <2>9 DEF FineUnit
<1> QED BY <1>1, <1>2, <1>3, SMT

\* A number of ticks of a day is a time of the day.
TicksAre(l, ps, h, mi, s, b) ==
  /\ In(h, 0, 23) /\ In(mi, 0, 59) /\ In(s, 0, 59) /\ 0 <= b /\ b < ps
  /\ l = (SecondsOf(h, mi, s) * ps) + b

\* Every tick of a day is such a time.
LEMMA TimeOfTicks ==
  ASSUME NEW ps \in Nat, ps > 0, NEW l \in Int, In(l, 0, (86400 * ps) - 1)
  PROVE  \E h, mi, s, b \in Int : TicksAre(l, ps, h, mi, s, b)
<1>0. 0 <= l /\ l < 86400 * ps
  BY SMT DEF In
<1> DEFINE n == l \div ps
           b == l % ps
           h == n \div 3600
           mi == (n % 3600) \div 60
           s == n % 60
<1>1. n \in Int /\ b \in Int /\ l = (n * ps) + b /\ 0 <= b /\ b < ps
  BY <1>0, SMT
<1> HIDE DEF n, b
<1>2. n >= 0 /\ n < 86400
  <2>1. n < 0 => n * ps <= -ps
    BY <1>1, SMT
  <2>2. n >= 86400 => n * ps >= 86400 * ps
    BY <1>1, SMT
  <2> QED BY <1>0, <1>1, <2>1, <2>2, SMT
<1>3. /\ h \in Int /\ mi \in Int /\ s \in Int
      /\ In(h, 0, 23) /\ In(mi, 0, 59) /\ In(s, 0, 59) /\ n = SecondsOf(h, mi, s)
  BY <1>1, <1>2, SMT DEF In, SecondsOf
<1> HIDE DEF h, mi, s
<1> QED BY <1>1, <1>3 DEF TicksAre

\* The time of the day that is printed.
LEMMA StreamTime ==
  ASSUME NEW v, NEW su, NEW ps, NEW p, FineUnit(v, su, ps, p), UnitOK(su),
         NEW h \in Int, NEW mi \in Int, NEW s \in Int, NEW b \in Int,
         In(h, 0, 23), In(mi, 0, 59), In(s, 0, 59), 0 <= b, b < ps,
         NEW l \in Int, l = (SecondsOf(h, mi, s) * ps) + b
  PROVE  /\ MakeTime(l, su) = TimeSplit(h, mi, s, b * (p \div ps), FALSE)
         /\ TimeIn(MakeTime(l, su), su, h, mi, s, b * (p \div ps), p)
<1> DEFINE k == p \div ps
           c == b * k
           neg == l < 0
<1>0. /\ PerSecond(su) = ps /\ Precision(su) = p /\ ps \in Nat /\ ps > 0 /\ p \in Nat /\ p > 0
      /\ p % ps = 0 /\ su = 86400 * ps /\ (ps = 1 => p = 1)
  BY DEF FineUnit
<1>1. 0 <= h /\ mi \in 0 .. 59 /\ s \in 0 .. 59 /\ SecondsOf(h, mi, s) >= 0 /\ SecondsOf(h, mi, s) \in Int
  BY SMT DEF In, SecondsOf
<1>2. l >= 0 /\ Magnitude(l) = (SecondsOf(h, mi, s) * ps) + b
  <2>1. SecondsOf(h, mi, s) * ps >= 0 /\ SecondsOf(h, mi, s) * ps \in Int
    BY <1>0, <1>1, SMT
  <2> QED BY <2>1, SMT DEF Magnitude
<1>3. ~neg
  BY <1>2, SMT
<1>4. MakeTime(l, su) = TimeSplit(h, mi, s, c, neg) /\ c \in Int /\ 0 <= c /\ c < p
  <2>1. CASE su > 86400
    <3>1. Classify(su) = "subsecond"
      BY <2>1, ClassOfUnit
    <3>2. FractionsPrinted(su)
      BY <1>0 DEF FractionsPrinted
    <3>3. /\ SubsecondTime(l, su) = TimeSplit(h, mi, s, b * (Precision(su) \div PerSecond(su)), l < 0)
          /\ b * (Precision(su) \div PerSecond(su)) \in Int
          /\ 0 <= b * (Precision(su) \div PerSecond(su))
          /\ b * (Precision(su) \div PerSecond(su)) < Precision(su)
      <4>1. /\ PerSecond(su) \in Int /\ PerSecond(su) > 0 /\ b < PerSecond(su)
            /\ Magnitude(l) = (SecondsOf(h, mi, s) * PerSecond(su)) + b
        BY <1>0, <1>2
      <4> HIDE DEF neg
      <4> QED BY <1>1, <3>2, <4>1, SubsecondSplit
    <3>4. MakeTime(l, su) = SubsecondTime(l, su)
      BY <3>1 DEF MakeTime
    <3> QED BY <1>0, <3>3, <3>4
  <2>2. CASE su = 86400
    <3>1. ps = 1 /\ p = 1 /\ b = 0
      BY <1>0, <2>2, SMT
    <3>2. k \in Int
      BY <1>0, <3>1, SMT
    <3>3. c = 0
      <4> HIDE DEF k
      <4> QED BY <3>1, <3>2, SMT
    <3>4. 1440 % su # 0 /\ su <= 86400
      BY <2>2, SMT
    <3>5. Classify(su) = "second"
      BY <3>4, ClassOfUnit
    <3>6. l * (86400 \div su) = l
      BY <2>2, SMT
    <3>7. MakeTime(l, su) = SecondTime(l)
      BY <3>5, <3>6 DEF MakeTime
    <3>8. Magnitude(l) = SecondsOf(h, mi, s)
      BY <1>1, <1>2, <3>1, SMT
    <3>9. SecondTime(l) = TimeSplit(h, mi, s, 0, l < 0)
      BY <1>1, <3>8, SecondSplit
    <3> HIDE DEF k
    <3> QED BY <3>1, <3>3, <3>7, <3>9
  <2>3. su > 86400 \/ su = 86400
    BY <1>0, SMT
  <2> QED BY <2>1, <2>2, <2>3
<1>5. neg = FALSE
  BY <1>3
<1> HIDE DEF c, neg
<1>6. MakeTime(l, su) = TimeSplit(h, mi, s, c, FALSE)
  BY <1>4, <1>5
<1>7. TimeIn(MakeTime(l, su), su, h, mi, s, c, p)
  <2> DEFINE t == MakeTime(l, su)
             no == FALSE
  <2>1. no \in BOOLEAN
    OBVIOUS
  <2>2. t = TimeSplit(h, mi, s, c, no)
    BY <1>6
  <2> HIDE DEF no, t
  <2>3. t.h = h /\ t.m = mi /\ t.s = s /\ t.sub = c
    BY <1>4, <2>1, <2>2, SplitFields
  <2>4. TimeIn(t, su, h, mi, s, c, p)
    BY <1>0, <1>4, <2>3 DEF TimeIn
  <2> QED BY <2>4 DEF t
<1> QED BY <1>6, <1>7 DEF c

(*****************************************************************************)
(* The local day and time of a time point, and its ticks.                    *)
(*****************************************************************************)

\* A time point moved by an offset from UTC: the day it falls on and the ticks of that day.
LocalTime(x, z, su, day, l) ==
  /\ x.unit = su /\ x.z = z /\ x.tod = MakeTime(l, su)
  /\ x.ymd = FromDays(ToDays(date) + day)

\* The fields that are printed of a time point are those of its local day and time.
LEMMA LocalFields ==
  ASSUME CalendarAssumption, Walked, ~ByDays, NEW z \in Int, -1440 < z, z < 1440,
         NEW su, NEW ps, NEW p, FineUnit(unit, su, ps, p)
  PROVE  \E day, l \in Int :
           /\ LocalTime(FieldsOf(tp, unit, z), z, su, day, l)
           /\ In(l, 0, (86400 * ps) - 1) /\ -1 <= day /\ day <= 1
           /\ (Ticks(time) * (su \div unit)) + (z * (60 * ps)) = (day * (86400 * ps)) + l
<1> DEFINE n == Ticks(time)
           k == su \div unit
           x == FieldsOf(tp, unit, z)
           sd == ToDays(date)
           m == su \div 1440
           local == (n * k) + (z * m)
           day == Floor(local, su)
           l == local - (day * su)
<1>0. /\ unit \in Nat /\ unit > 0 /\ su = StreamUnit(unit) /\ ps \in Nat /\ ps > 0 /\ su = 86400 * ps
      /\ unit < 86400 => ps = 1 /\ 86400 = unit * (86400 \div unit)
                         /\ 86400 \div unit \in Nat /\ 86400 \div unit > 0
      /\ unit >= 86400 => unit = su
  BY DEF FineUnit
<1>1. k \in Int /\ k > 0 /\ su = unit * k /\ su \in Int /\ su > 0
  <2>1. CASE unit < 86400
    <3>1. su = 86400
      BY <1>0, <2>1, SMT
    <3> QED BY <1>0, <2>1, <3>1, SMT
  <2>2. CASE unit >= 86400
    <3>1. k = 1
      BY <1>0, <2>2, SMT
    <3> QED BY <1>0, <2>2, <3>1, SMT
  <2> QED BY <1>0, <2>1, <2>2, SMT
<1>2. m = 60 * ps
  BY <1>0, SMT
<1>3. n \in Int /\ 0 <= n /\ n < unit
  BY UnitIsOne, TicksOfADay DEF Walked
<1>4. sd \in Int /\ Floor(tp, unit) = sd /\ tp - (sd * unit) = n
  <2>1. sd \in Int /\ Floor(tp, unit) = sd
    BY DayOfWalk
  <2>2. tp = (sd * unit) + n
    BY DEF Walked
  <2> HIDE DEF sd, n
  <2>3. sd * unit \in Int
    BY <1>0, <2>1, SMT
  <2> QED BY <1>3, <2>1, <2>2, <2>3, SMT
<1>5. x.unit = su /\ x.z = z /\ x.tod = MakeTime(l, su) /\ x.ymd = FromDays(sd + day)
  <2>1. x = [ymd |-> FromDays(sd + day), tod |-> MakeTime(l, su), unit |-> su, z |-> z]
    <3>1. StreamUnit(unit) = su
      BY <1>0
    <3> DEFINE sv == StreamUnit(unit)
               sz == Floor(tp, unit)
               lv == ((tp - (sz * unit)) * (sv \div unit)) + (z * (sv \div 1440))
               dv == Floor(lv, sv)
    <3>2. x = [ymd |-> FromDays(sz + dv), tod |-> MakeTime(lv - (dv * sv), sv), unit |-> sv, z |-> z]
      BY DEF FieldsOf
    <3>3. sv = su /\ sz = sd
      BY <1>4, <3>1
    <3> HIDE DEF sv, sz
    <3>4. lv = local
      BY <1>4, <3>3
    <3> HIDE DEF lv, local
    <3>5. dv = day
      BY <3>3, <3>4
    <3> HIDE DEF dv, day
    <3> QED BY <3>2, <3>3, <3>4, <3>5
  <2> HIDE DEF x, day, l
  <2> QED BY <2>1
<1> HIDE DEF x
<1>6. local \in Int /\ -su < local /\ local < 2 * su
  <2> HIDE DEF n, k, m
  <2>1. n * k \in Int /\ 0 <= n * k /\ n * k < su
    <3>1. n * k \in Int /\ 0 <= n * k
      BY <1>1, <1>3, SMT
    <3>2. (unit - n) * k > 0
      BY <1>0, <1>1, <1>3, SMT
    <3>3. (unit - n) * k = (unit * k) - (n * k)
      BY <1>0, <1>1, <1>3, SMT
    <3> QED BY <1>1, <3>1, <3>2, <3>3, SMT
  <2>2. z * m \in Int /\ -su < z * m /\ z * m < su
    <3>1. m \in Int /\ m > 0 /\ su = 1440 * m
      BY <1>0, <1>2, SMT
    <3>2. (1440 - z) * m > 0 /\ (1440 + z) * m > 0 /\ z * m \in Int
      BY <3>1, SMT
    <3>3. (1440 - z) * m = (1440 * m) - (z * m) /\ (1440 + z) * m = (1440 * m) + (z * m)
      BY <3>1, SMT
    <3> QED BY <3>1, <3>2, <3>3, SMT
  <2> QED BY <1>1, <2>1, <2>2, SMT
<1>7. local = (day * su) + l /\ day \in Int /\ l \in Int /\ 0 <= l /\ l < su /\ -1 <= day /\ day <= 1
  <2> HIDE DEF local, k, m
  <2> DEFINE e == IF local < 0 THEN -1 ELSE IF local < su THEN 0 ELSE 1
             r == IF local < 0 THEN local + su ELSE IF local < su THEN local ELSE local - su
  <2>1. e \in Int /\ r \in Int /\ local = (e * su) + r /\ 0 <= r /\ r < su /\ -1 <= e /\ e <= 1
    BY <1>1, <1>6, SMT
  <2> HIDE DEF e, r
  <2>2. Floor(local, su) = e
    BY <1>1, <1>6, <2>1, FloorOfDays
  <2>3. day = e
    BY <2>2
  <2> HIDE DEF day
  <2>4. e * su \in Int
    BY <1>1, <2>1, SMT
  <2>5. l = r
    <3>1. l = local - (e * su)
      BY <2>3
    <3> HIDE DEF l
    <3> QED BY <1>6, <2>1, <2>4, <3>1, SMT
  <2> HIDE DEF l
  <2> QED BY <2>1, <2>3, <2>5
<1> HIDE DEF day, l
<1>8. (n * k) + (z * (60 * ps)) = (day * (86400 * ps)) + l
  <2>1. (n * k) + (z * m) = (day * su) + l
    BY <1>7
  <2> HIDE DEF n, k, m, local
  <2> QED BY <1>0, <1>2, <2>1
<1>9. LocalTime(x, z, su, day, l)
  BY <1>5 DEF LocalTime
<1>10. In(l, 0, (86400 * ps) - 1)
  BY <1>0, <1>7, SMT DEF In
<1> HIDE DEF sd, m, local
<1> QED BY <1>7, <1>8, <1>9, <1>10 DEF n, k, x

\* The days of a year, from January 1st.
LEMMA YearStarts ==
  ASSUME NEW y \in Int
  PROVE  January1st(y) \in Int /\ DaysOfYear(y) \in {365, 366}
BY NewYearsDay DEF January1st, DaysOfYear

\* A date is one of the days of its year.
LEMMA YearDays ==
  ASSUME NEW ymd, DateIn(ymd)
  PROVE  /\ ToDays(ymd) - January1st(ymd.y) \in 0 .. (DaysOfYear(ymd.y) - 1)
         /\ January1st(ymd.y) \in Int /\ DaysOfYear(ymd.y) \in {365, 366}
<1> DEFINE n == ToDays(ymd)
           y == ymd.y
           j == January1st(y)
           k == DaysOfYear(y)
<1>1. y \in Int /\ n \in Int
  BY DaysAreInt, FieldsOfDate
<1>2. j \in Int /\ k \in {365, 366}
  BY <1>1, YearStarts
<1>3. (n - j) + 1 \in 1 .. k
  BY NumbersInYear DEF NumberInYear, January1st
<1> HIDE DEF n, j, k
<1>4. n - j \in 0 .. (k - 1)
  BY <1>1, <1>2, <1>3, SMT
<1> QED BY <1>2, <1>4 DEF n, j, k

\* The date of that day is one that is printed.
LEMMA LocalDate ==
  ASSUME CalendarAssumption, Walked, In(date.y, 1, 9998), NEW day \in Int, -1 <= day, day <= 1,
         NEW ymd, ymd = FromDays(ToDays(date) + day)
  PROVE  DateIn(ymd) /\ ToDays(ymd) = ToDays(date) + day /\ In(ymd.y, 0, 9999)
<1> DEFINE n == ToDays(date)
           e == n + day
           y == date.y
           w == ymd.y
<1>1. DateIn(date) /\ y \in Int /\ In(y, -32767, 32766)
  <2>1. y \in Int /\ In(y, -32767, 32766)
    BY SMT DEF In
  <2> QED BY <2>1 DEF Walked
<1>2. n \in Int /\ e \in Int /\ InYears(e)
  <2>1. In(n, -12687428, 11248372)
    BY <1>1, DaysOfThoseYears
  <2> HIDE DEF n
  <2> QED BY <2>1, SMT DEF In, InYears
<1>3. DateIn(ymd) /\ ToDays(ymd) = e
  <2> HIDE DEF e
  <2>1. DateIn(FromDays(e)) /\ ToDays(FromDays(e)) = e
    BY <1>2, DateOfADay
  <2> QED BY <2>1 DEF e
<1>4. w \in Int
  BY <1>3, FieldsOfDate
<1>5. n - January1st(y) \in 0 .. (DaysOfYear(y) - 1) /\ January1st(y) \in Int
  BY <1>1, YearDays, YearStarts
<1>6. e - January1st(w) \in 0 .. (DaysOfYear(w) - 1) /\ January1st(w) \in Int
  BY <1>3, <1>4, YearDays
<1>7. w >= 0
  <2>1. ~(w < y - 1)
    <3> SUFFICES ASSUME w < y - 1 PROVE FALSE
      OBVIOUS
    <3> DEFINE v == y - 1
    <3>1. v \in Int /\ w < v /\ v < y
      BY <1>1, <1>4, SMT
    <3> HIDE DEF v
    <3>2. January1st(w) + DaysOfYear(w) <= January1st(v) /\ January1st(v) + DaysOfYear(v) <= January1st(y)
      BY <1>1, <1>4, <3>1, YearsInOrder
    <3>3. January1st(v) \in Int /\ DaysOfYear(v) \in {365, 366} /\ DaysOfYear(w) \in {365, 366}
      BY <3>1, YearStarts DEF DaysOfYear
    <3> HIDE DEF n, w, y
    <3> QED BY <1>2, <1>5, <1>6, <3>2, <3>3, SMT
  <2> QED BY <1>1, <1>4, <2>1, SMT DEF In
<1>8. w <= 9999
  <2>1. ~(w > y + 1)
    <3> SUFFICES ASSUME w > y + 1 PROVE FALSE
      OBVIOUS
    <3> DEFINE v == y + 1
    <3>1. v \in Int /\ v < w /\ y < v
      BY <1>1, <1>4, SMT
    <3> HIDE DEF v
    <3>2. January1st(v) + DaysOfYear(v) <= January1st(w) /\ January1st(y) + DaysOfYear(y) <= January1st(v)
      BY <1>1, <1>4, <3>1, YearsInOrder
    <3>3. January1st(v) \in Int /\ DaysOfYear(v) \in {365, 366} /\ DaysOfYear(y) \in {365, 366}
      BY <3>1, YearStarts DEF DaysOfYear
    <3> HIDE DEF n, w, y
    <3> QED BY <1>2, <1>5, <1>6, <3>2, <3>3, SMT
  <2> QED BY <1>1, <1>4, <2>1, SMT DEF In
<1> QED BY <1>3, <1>4, <1>7, <1>8 DEF In

\* The ticks that are read of the day, the time of the day and the offset that are printed.
LEMMA TicksBack ==
  ASSUME NEW v, NEW su, NEW ps, NEW p, FineUnit(v, su, ps, p),
         NEW n \in Int, NEW z \in Int, NEW day \in Int, NEW l \in Int, NEW sd \in Int,
         (n * (su \div v)) + (z * (60 * ps)) = (day * (86400 * ps)) + l,
         NEW secs \in Int, NEW b \in Int, 0 <= b, b < ps, l = (secs * ps) + b, NEW c, c = b * (p \div ps)
  PROVE  TicksRead(sd + day, secs - (60 * z), c, v) = (sd * v) + n
<1> DEFINE k == p \div ps
           w == secs - (60 * z)
           rest == (w * p) + c
<1>0. /\ su = StreamUnit(v) /\ PerSecond(su) = ps /\ Precision(su) = p
      /\ v \in Nat /\ v > 0 /\ ps \in Nat /\ ps > 0 /\ p \in Nat /\ p > 0 /\ p % ps = 0 /\ su = 86400 * ps
      /\ ps = 1 => p = 1
      /\ v < 86400 => ps = 1 /\ 86400 = v * (86400 \div v) /\ 86400 \div v \in Nat /\ 86400 \div v > 0
      /\ v >= 86400 => v = su
  BY DEF FineUnit
<1>1. k \in Int /\ k > 0 /\ p = k * ps
  BY <1>0, SMT
<1>2. w \in Int
  BY SMT
<1>3. TicksRead(sd + day, w, c, v)
        = ((sd + day) * v) + (IF v < 86400 THEN Quot(rest, 86400 \div v)
                              ELSE Quot(rest * PerSecond(v), Precision(v)))
  <2> HIDE DEF w
  <2> QED BY <1>0 DEF TicksRead, Trunc
<1>4. (sd + day) * v = (sd * v) + (day * v) /\ sd * v \in Int /\ day * v \in Int
  BY <1>0, SMT
<1>5. CASE v < 86400
  <2> DEFINE f == 86400 \div v
             q == n - (day * v)
  <2>1. ps = 1 /\ p = 1 /\ b = 0 /\ f \in Int /\ f > 0 /\ v * f = 86400 /\ su = 86400
    BY <1>0, <1>5, SMT
  <2>2. rest = w
    <3>1. c = 0
      <4> HIDE DEF k
      <4> QED BY <1>1, <2>1, SMT
    <3> HIDE DEF w
    <3> QED BY <1>2, <2>1, <3>1, SMT
  <2>3. su \div v = f
    BY <2>1
  <2> HIDE DEF f
  <2>4. w = q * f
    <3>1. (n * f) + (z * 60) = (day * 86400) + secs
      BY <2>1, <2>3, SMT
    <3>2. q * f = (n * f) - ((day * v) * f)
      BY <1>0, <1>4, <2>1, SMT
    <3>3. (day * v) * f = day * (v * f)
      BY <1>0, <2>1, SMT
    <3>4. (day * v) * f = day * 86400
      BY <2>1, <3>3
    <3>5. n * f \in Int
      BY <2>1, SMT
    <3> QED BY <3>1, <3>2, <3>4, <3>5, SMT
  <2>5. q \in Int
    BY <1>4, SMT
  <2>6. Quot(w, f) = q
    <3> HIDE DEF w, q
    <3> QED BY <1>2, <2>1, <2>4, <2>5, QuotExact
  <2>7. TicksRead(sd + day, w, c, v) = ((sd + day) * v) + q
    <3> HIDE DEF w, q, rest
    <3> QED BY <1>3, <1>5, <2>2, <2>6 DEF f
  <2>8. ((sd * v) + (day * v)) + q = (sd * v) + n
    BY <1>4, SMT
  <2> HIDE DEF w, q
  <2>9. TicksRead(sd + day, w, c, v) = (sd * v) + n
    BY <1>4, <2>7, <2>8
  <2> QED BY <2>9 DEF w
<1>6. CASE v >= 86400
  <2> DEFINE q == (w * ps) + b
             m == rest * ps
  <2>1. v = su /\ PerSecond(v) = ps /\ Precision(v) = p /\ ~(v < 86400)
    BY <1>0, <1>6, SMT
  <2>2. su \div v = 1
    BY <1>0, <2>1, SMT
  <2>3. q \in Int /\ c \in Int /\ w * p \in Int /\ rest \in Int
    <3>1. w * ps \in Int /\ w * p \in Int
      BY <1>0, <1>2, SMT
    <3>2. c \in Int
      BY <1>1, SMT
    <3> HIDE DEF w
    <3> QED BY <3>1, <3>2, SMT
  <2>4. m = q * p
    <3>1. ((w * p) + c) * ps = ((w * p) * ps) + (c * ps)
      <4> HIDE DEF w
      <4> QED BY <1>0, <2>3, SMT
    <3>2. ((w * ps) + b) * p = ((w * ps) * p) + (b * p)
      <4> HIDE DEF w
      <4> QED BY <1>0, <1>2, SMT
    <3>3. (w * p) * ps = (w * ps) * p
      <4> HIDE DEF w
      <4> QED BY <1>0, <1>2, SMT
    <3>4. c * ps = b * p
      <4>1. (b * k) * ps = b * (k * ps)
        <5> HIDE DEF k
        <5> QED BY <1>0, <1>1, SMT
      <4> QED BY <1>1, <4>1
    <3> HIDE DEF w
    <3> QED BY <3>1, <3>2, <3>3, <3>4
  <2>5. Quot(m, p) = q
    <3>1. m \in Int
      <4> HIDE DEF rest
      <4> QED BY <1>0, <2>3, SMT
    <3> HIDE DEF m, q
    <3> QED BY <1>0, <2>3, <2>4, <3>1, QuotExact
  <2>6. TicksRead(sd + day, w, c, v) = ((sd + day) * v) + q
    <3> HIDE DEF w, q, rest
    <3> QED BY <1>3, <2>1, <2>5
  <2>7. q = n - (day * v)
    <3>1. w * ps = (secs * ps) - (z * (60 * ps))
      BY <1>0, SMT
    <3>2. n * (su \div v) = n
      BY <2>2
    <3>3. day * (86400 * ps) = day * v
      BY <1>0, <2>1
    <3>4. secs * ps \in Int /\ z * (60 * ps) \in Int
      BY <1>0, SMT
    <3> HIDE DEF w
    <3> QED BY <1>4, <3>1, <3>2, <3>3, <3>4, SMT
  <2> HIDE DEF w, q
  <2>8. ((sd * v) + (day * v)) + q = (sd * v) + n
    BY <1>4, <2>7, SMT
  <2>9. TicksRead(sd + day, w, c, v) = (sd * v) + n
    BY <1>4, <2>6, <2>8
  <2> QED BY <2>9 DEF w
<1> QED BY <1>0, <1>5, <1>6, SMT

\* The fields of a time point are taken for the time point.
TimeNames == {"Y", "m", "d", "h", "min", "s", "z"}
TimeOnly(f, ymd, h, mi, r, z) ==
  \E X : TimeFields(f, ymd, h, mi, r, z, X) /\ X \subseteq TimeNames

\* Fields of a date, a time of the day and an offset give the ticks they stand for.
LEMMA TimeFieldsRead ==
  ASSUME NEW v, NEW su, NEW ps, NEW p, FineUnit(v, su, ps, p),
         NEW ymd, DateIn(ymd), In(ymd.y, 0, 9999),
         NEW h \in Int, NEW mi \in Int, NEW s \in Int, NEW b \in Int, NEW z \in Int,
         In(h, 0, 23), In(mi, 0, 59), In(s, 0, 59), 0 <= b, b < ps,
         NEW format, NEW text, NEW f, f = ReadFields(format, text, su),
         NEW r, r = (s * ps) + b, TimeOnly(f, ymd, h, mi, r, z),
         NEW secs, secs = SecondsOf(h, mi, s), NEW c, c = b * (p \div ps)
  PROVE  Read(format, text, v) = Answer(TicksRead(ToDays(ymd), secs - (60 * z), c, v))
<1>0. /\ su = StreamUnit(v) /\ PerSecond(su) = ps /\ Precision(su) = p
      /\ ps \in Nat /\ ps > 0 /\ p \in Nat /\ p > 0 /\ p % ps = 0
  BY DEF FineUnit
<1>a. PICK X : TimeFields(f, ymd, h, mi, r, z, X) /\ X \subseteq TimeNames
  BY DEF TimeOnly
<1>1. /\ f.Y = ymd.y /\ f.m = ymd.m /\ f.d = ymd.d /\ f.h = h /\ f.min = mi
      /\ f.s = r /\ f.z = z /\ Others(NoFields, f, X)
  BY <1>a DEF TimeFields
<1>2. /\ f.yy = No2Digits /\ f.g = No2Digits /\ f.G = NoYear /\ f.j = 0
      /\ f.U = NoWeek /\ f.W = NoWeek /\ f.wd = NoWeekday /\ NotBroken(f)
  <2>1. /\ "yy" \notin X /\ "g" \notin X /\ "G" \notin X /\ "j" \notin X
        /\ "U" \notin X /\ "W" \notin X /\ "wd" \notin X /\ "fail" \notin X
    BY <1>a DEF TimeNames
  <2> QED BY <1>1, <2>1, Unread
<1>3. Resolve(f) = f
  BY <1>2, ResolvedAsRead
<1>4. DateOf(Resolve(f)) = ymd /\ NotBroken(Resolve(f)) /\ DateOK(ymd)
  <2>1. In(ymd.y, -32768, 32767)
    BY SMT DEF In
  <2> QED BY <1>1, <1>2, <1>3, <2>1, DateHeld DEF DateIn
<1>5. DecimalSeconds(f.s, su).s = s /\ DecimalSeconds(f.s, su).sub = c /\ c \in Int /\ c < p
  <2>1. s >= 0
    BY DEF In
  <2>2. /\ DecimalSeconds((s * ps) + b, su).s = s /\ DecimalSeconds((s * ps) + b, su).sub = b * (p \div ps)
        /\ b * (p \div ps) \in Int /\ b * (p \div ps) < p
    BY <1>0, <2>1, SecondsRead
  <2> QED BY <1>1, <2>2
<1>6. /\ DecimalSeconds(f.s, StreamUnit(v)).s = s /\ DecimalSeconds(f.s, StreamUnit(v)).sub = c
      /\ c < Precision(StreamUnit(v)) /\ f = ReadFields(format, text, StreamUnit(v))
  BY <1>0, <1>5
<1>7. Read(format, text, v) = Answer(TicksRead(ToDays(ymd), SecondsOf(h, mi, s) - (60 * f.z), c, v))
  BY <1>1, <1>4, <1>5, <1>6, ReadIs
<1> QED BY <1>1, <1>7

(*****************************************************************************)
(* The walk by the clock.                                                    *)
(*****************************************************************************)

\* The formats of a time point without an offset, and with one.
TimeFormat(format, z) ==
  \/ z = 0 /\ format \in {<<"F", "T">>, <<"Y", "m", "d", "H", "M", "S">>}
  \/ format = <<"F", "R", "S", "z">>

\* The text of a time point is read into its fields.
LEMMA TimeFieldsOfText ==
  ASSUME NEW format, NEW x, NEW u, NEW ymd, x.ymd = ymd,
         NEW h \in Int, NEW mi \in Int, NEW s, NEW c, NEW p, NEW n, TextOf(x, u, h, mi, s, c, p, n),
         NEW r \in Int, Round(n * PerSecond(u), Precision(u)) = r,
         NEW z, x.z = z, EvenOffset(z), TimeFormat(format, z),
         NEW f, f = ReadFields(format, Printed(format, x), u)
  PROVE  TimeOnly(f, ymd, h, mi, r, z)
<1> DEFINE g == TimeOfText(x, u, h, mi, n)
           X == {"Y", "m", "d", "h", "min", "s"}
           zh == OffsetHours(z)
           zm == OffsetMinutes(z)
<1>1. TextOf(x, u, h, mi, s, c, p, n) /\ x.z = z /\ EvenOffset(z)
  OBVIOUS
<1>2. TimeFields(g, ymd, h, mi, r, 0, X)
  <2>1. ymd.y \in Int /\ ymd.m \in Int /\ ymd.d \in Int
    BY DEF TextOf, DateIn
  <2>2. g = TimeKept(DateKept(ymd.y, ymd.m, ymd.d, u), h, mi, n, u)
    BY DEF TimeOfText
  <2>3. h \in Int /\ mi \in Int /\ r \in Int /\ Round(n * PerSecond(u), Precision(u)) = r
    OBVIOUS
  <2> HIDE DEF g
  <2> QED BY ONLY <2>1, <2>2, <2>3, TimeIsKept
<1>3. CASE format = <<"F", "R", "S", "z">>
  <2> HIDE DEF X
  <2>1. f = OffsetKept(g, zh, zm, u)
    <3>1. ReadFields(format, Printed(format, x), u) = OffsetKept(g, zh, zm, u)
      BY ONLY <1>1, <1>3, ByOffset
    <3> QED BY <3>1
  <2>2. zh \in Int /\ zm \in Int /\ (60 * zh) + zm = z
    BY ONLY <1>1, OffsetNumbers
  <2> HIDE DEF g, zh, zm
  <2>3. TimeFields(f, ymd, h, mi, r, (60 * zh) + zm, {"Y", "m", "d", "h", "min", "s", "z"})
    BY <1>2, <2>1, <2>2, TimeAndOffset DEF X
  <2>4. TimeFields(f, ymd, h, mi, r, z, TimeNames)
    BY <2>2, <2>3 DEF TimeNames
  <2> QED BY <2>4 DEF TimeOnly
<1>4. ASSUME ReadFields(format, Printed(format, x), u) = g, z = 0
      PROVE  TimeOnly(f, ymd, h, mi, r, z)
  <2>1. f = g
    BY <1>4
  <2>2. X \subseteq TimeNames
    BY DEF TimeNames
  <2> HIDE DEF g, X
  <2>3. TimeFields(f, ymd, h, mi, r, z, X)
    BY <1>2, <1>4, <2>1
  <2> QED BY <2>2, <2>3 DEF TimeOnly
<1> HIDE DEF X
<1>5. CASE z = 0 /\ format = <<"F", "T">>
  <2>1. ReadFields(format, Printed(format, x), u) = g
    BY ONLY <1>1, <1>5, ByDateAndTime
  <2> HIDE DEF g
  <2> QED BY <1>4, <1>5, <2>1
<1>6. CASE z = 0 /\ format = <<"Y", "m", "d", "H", "M", "S">>
  <2>1. ReadFields(format, Printed(format, x), u) = g
    BY ONLY <1>1, <1>6, ByFields
  <2> HIDE DEF g
  <2> QED BY <1>4, <1>5, <1>6, <2>1
<1> QED BY <1>3, <1>5, <1>6 DEF TimeFormat

\* Every time point of a walk is read from what is printed of it.
LEMMA TimesReadBack ==
  ASSUME CalendarAssumption, Walked, ~ByDays, YearsPrinted,
         Precision(unit) % PerSecond(unit) = 0,
         NEW z \in Int, EvenOffset(z), NEW format, TimeFormat(format, z)
  PROVE  Read(format, Printed(format, FieldsOf(tp, unit, z)), unit) = Answer(tp)
<1> DEFINE su == StreamUnit(unit)
           ps == PerSecond(su)
           p == Precision(su)
           x == FieldsOf(tp, unit, z)
           text == Printed(format, x)
           n == Ticks(time)
           sd == ToDays(date)
<1>1. UnitOK(unit) /\ unit \in Nat
  BY UnitIsOne DEF Walked
<1>2. FineUnit(unit, su, ps, p)
  BY <1>1, FineUnits
<1>3. UnitOK(su)
  <2>1. UnitOK(86400)
    BY SMT DEF UnitOK
  <2> QED BY <1>1, <2>1 DEF StreamUnit
<1> HIDE DEF su, ps, p, x
<1>4. /\ su = StreamUnit(unit) /\ PerSecond(su) = ps /\ Precision(su) = p
      /\ ps \in Nat /\ ps > 0 /\ p \in Nat /\ p > 0 /\ p % ps = 0
  BY <1>2 DEF FineUnit
<1>5. PICK day \in Int, l \in Int :
           /\ LocalTime(FieldsOf(tp, unit, z), z, su, day, l)
           /\ In(l, 0, (86400 * ps) - 1) /\ -1 <= day /\ day <= 1
           /\ (Ticks(time) * (su \div unit)) + (z * (60 * ps)) = (day * (86400 * ps)) + l
  <2>1. -1440 < z /\ z < 1440
    BY DEF EvenOffset
  <2> QED BY <1>2, <2>1, LocalFields
<1>6. PICK h \in Int, mi \in Int, s \in Int, b \in Int :
           /\ In(h, 0, 23) /\ In(mi, 0, 59) /\ In(s, 0, 59) /\ 0 <= b /\ b < ps
           /\ l = (SecondsOf(h, mi, s) * ps) + b
  <2>1. ps \in Nat /\ ps > 0 /\ l \in Int /\ In(l, 0, (86400 * ps) - 1)
    BY <1>4, <1>5
  <2>2. \E h, mi, s, b \in Int : TicksAre(l, ps, h, mi, s, b)
    BY ONLY <2>1, TimeOfTicks
  <2> QED BY ONLY <2>2 DEF TicksAre
<1>7. x.unit = su /\ x.z = z /\ x.tod = MakeTime(l, su) /\ x.ymd = FromDays(sd + day)
  BY <1>5 DEF LocalTime, x
<1> DEFINE ymd == x.ymd
           c == b * (p \div ps)
           r == (s * ps) + b
           f == ReadFields(format, text, su)
           secs == SecondsOf(h, mi, s)
<1>8. DateIn(ymd) /\ ToDays(ymd) = sd + day /\ In(ymd.y, 0, 9999)
  <2>1. In(date.y, 1, 9998)
    BY PrintedYears
  <2> QED BY <1>5, <1>7, <2>1, LocalDate
<1>9. TimeIn(x.tod, su, h, mi, s, c, p)
  <2>1. TimeIn(MakeTime(l, su), su, h, mi, s, c, p)
    BY <1>2, <1>3, <1>6, StreamTime
  <2> QED BY <1>7, <2>1
<1>10. /\ c \in Int /\ r \in Int
       /\ Round(((s * p) + c) * PerSecond(su), Precision(su)) = r
  <2>1. s >= 0
    BY <1>6 DEF In
  <2> QED BY <1>4, <1>6, <2>1, SecondsRead
<1> HIDE DEF ymd, c, r
<1>11. TimeOnly(f, ymd, h, mi, r, z)
  <2> DEFINE m == (s * p) + c
  <2>1. x.ymd = ymd /\ x.z = z /\ EvenOffset(z) /\ TimeFormat(format, z)
    BY <1>7 DEF ymd
  <2>2. f = ReadFields(format, Printed(format, x), su)
    OBVIOUS
  <2>3. Round(m * PerSecond(su), Precision(su)) = r /\ r \in Int
    BY <1>10
  <2>4. TextOf(x, su, h, mi, s, c, p, m)
    BY <1>7, <1>8, <1>9 DEF TextOf, ymd
  <2>5. h \in Int /\ mi \in Int
    BY <1>6
  <2> HIDE DEF f, m
  <2> QED BY ONLY <2>1, <2>2, <2>3, <2>4, <2>5, TimeFieldsOfText
<1>12. /\ f = ReadFields(format, text, su) /\ r = (s * ps) + b
       /\ c = b * (p \div ps) /\ secs = SecondsOf(h, mi, s)
  BY DEF r, c
<1> HIDE DEF f, text, secs
<1>13. Read(format, text, unit) = Answer(TicksRead(ToDays(ymd), secs - (60 * z), c, unit))
  <2>1. /\ h \in Int /\ mi \in Int /\ s \in Int /\ b \in Int /\ z \in Int
        /\ In(h, 0, 23) /\ In(mi, 0, 59) /\ In(s, 0, 59) /\ 0 <= b /\ b < ps
    BY <1>6
  <2> QED BY ONLY <1>2, <1>8, <1>11, <1>12, <2>1, TimeFieldsRead
<1>14. n \in Int /\ sd \in Int /\ secs \in Int
  <2>1. sd \in Int
    BY DayOfWalk
  <2>2. n \in Int
    BY <1>1, UnitIsOne, TicksOfADay DEF Walked
  <2>3. secs \in Int
    BY <1>6, <1>12, SMT DEF SecondsOf
  <2> QED BY <2>1, <2>2, <2>3
<1>15. (n * (su \div unit)) + (z * (60 * ps)) = (day * (86400 * ps)) + l /\ l = (secs * ps) + b
  BY <1>5, <1>6, <1>12
<1>16. tp = (sd * unit) + n
  BY DEF Walked
<1> HIDE DEF n, sd
<1>17. TicksRead(sd + day, secs - (60 * z), c, unit) = (sd * unit) + n
  <2>1. 0 <= b /\ b < ps /\ b \in Int /\ day \in Int /\ l \in Int /\ z \in Int
    BY <1>6
  <2> QED BY ONLY <1>2, <1>12, <1>14, <1>15, <2>1, TicksBack
<1>18. Read(format, text, unit) = Answer(tp)
  BY <1>8, <1>13, <1>16, <1>17
<1> QED BY <1>18 DEF text, x

\* The offsets of a format.
LEMMA OffsetsOfFormats ==
  ASSUME NEW format \in TimeFormats,
         NEW z \in IF "z" \in Seqs!ToSet(format) THEN {-660, -60, 345, 720} ELSE {0}
  PROVE  z \in Int /\ EvenOffset(z) /\ TimeFormat(format, z)
<1>1. format \in {<<"F", "T">>, <<"Y", "m", "d", "H", "M", "S">>, <<"F", "R", "S", "z">>}
  BY DEF TimeFormats
<1>2. z \in {-660, -60, 345, 720, 0}
  OBVIOUS
<1>3. z \in Int /\ EvenOffset(z)
  BY <1>2, SMT DEF EvenOffset
<1>4. format # <<"F", "R", "S", "z">> => z = 0
  <2> SUFFICES ASSUME format # <<"F", "R", "S", "z">> PROVE z = 0
    OBVIOUS
  <2>1. format \in {<<"F", "T">>, <<"Y", "m", "d", "H", "M", "S">>}
    BY <1>1
  <2>2. "z" \notin Seqs!ToSet(format)
    BY <2>1 DEF Seqs!ToSet
  <2> QED BY <2>2
<1> QED BY <1>1, <1>3, <1>4 DEF TimeFormat

\* So is every time point by the clock, at every offset.
LEMMA WalkedTimesRead ==
  ASSUME CalendarAssumption, Walked, ~ByDays, YearsPrinted
  PROVE  ParsesBack
<1> SUFFICES ASSUME NEW format \in TimeFormats,
                    NEW z \in IF "z" \in Seqs!ToSet(format) THEN {-660, -60, 345, 720} ELSE {0}
             PROVE  Read(format, Printed(format, FieldsOf(tp, unit, z)), unit)
                      = [fail |-> FALSE, tp |-> tp]
  BY DEF ParsesBack
<1>1. Precision(unit) % PerSecond(unit) = 0
  BY DEF TimeFormats
<1>2. z \in Int /\ EvenOffset(z) /\ TimeFormat(format, z)
  BY OffsetsOfFormats
<1>3. Read(format, Printed(format, FieldsOf(tp, unit, z)), unit) = Answer(tp)
  BY <1>1, <1>2, TimesReadBack
<1> QED BY <1>3 DEF Answer

\* What is printed of a time point is read back as the time point, in every unit and by
\* every format that names it, as long as the years are printed in full.
THEOREM TextsReadBack == Spec => [](YearsPrinted => ParsesBack)
<1>1. CalendarAssumption /\ Walked => (YearsPrinted => ParsesBack)
  BY WalkedDaysRead, WalkedTimesRead
<1>2. Walked => (YearsPrinted => ParsesBack)
  BY <1>1, CalendarAssumption
<1> QED BY <1>2, WalkedAlways, PTL
==============================================================================
