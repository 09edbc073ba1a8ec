--------------------------- MODULE SsdRecordsProofs --------------------------
(***************************************************************************)
(* Proofs about the codecs of BlockCodec and about the SSD tier on bytes   *)
(* of SsdRecords, for any base, keys, blocks and databases found.          *)
(***************************************************************************)
EXTENDS SsdRecords, Integers, FiniteSetTheorems, WellFoundedInduction, TLAPS

-----------------------------------------------------------------------------
(* Induction, on sets of naturals, and functions defined by recursion.     *)

(* A set of naturals with 0 and every successor is all of them.            *)
LEMMA InductionSet ==
  ASSUME NEW T, T \subseteq Nat, 0 \in T, \A n \in T : n + 1 \in T
  PROVE  \A n \in Nat : n \in T
<1> DEFINE Less == {e \in Nat \X Nat : e[1] < e[2]}
           Rest == Nat \ T
<1>1. IsWellFoundedOn(Less, Nat)
  BY NatLessThanWellFounded DEF OpToRel
<1> SUFFICES ASSUME Rest # {} PROVE FALSE
  OBVIOUS
<1>2. PICK m \in Rest : \A y \in Rest : ~ (<<y, m>> \in Less)
  <2>1. Rest \subseteq Nat OBVIOUS
  <2> HIDE DEF Less, Rest
  <2> QED BY <1>1, <2>1, WFMin
<1>3. m \in Nat /\ m # 0
  OBVIOUS
<1>4. m - 1 \in Nat /\ <<m - 1, m>> \in Less
  BY <1>3
<1>5. m - 1 \in T
  BY <1>2, <1>4
<1>6. m - 1 + 1 \in T
  BY <1>5
<1> QED BY <1>3, <1>6

(* The same where the step may use every smaller number.                   *)
LEMMA StrongInductionSet ==
  ASSUME NEW T, T \subseteq Nat,
         \A n \in Nat : (\A m \in Nat : m < n => m \in T) => n \in T
  PROVE  \A n \in Nat : n \in T
<1> DEFINE Below == {n \in Nat : \A m \in Nat : m < n => m \in T}
<1>1. 0 \in Below
  OBVIOUS
<1>2. ASSUME NEW n \in Below PROVE n + 1 \in Below
  <2>1. n \in T OBVIOUS
  <2>2. ASSUME NEW m \in Nat, m < n + 1 PROVE m \in T
    BY <2>1, <2>2
  <2> QED BY <2>2
<1>3. \A n \in Nat : n \in Below
  <2>1. Below \subseteq Nat OBVIOUS
  <2> HIDE DEF Below
  <2> QED BY <1>1, <1>2, <2>1, InductionSet
<1> QED BY <1>3

(* Recursion up to n, from x by a step that is a function.                 *)
Approximates(f, n, x, step, T) ==
  /\ f \in [0 .. n -> T]
  /\ f[0] = x
  /\ \A i \in 0 .. n - 1 : f[i + 1] = step[<<i, f[i]>>]

(* Two functions defined by the same recursion agree.                      *)
LEMMA ApproximationsAgree ==
  ASSUME NEW T, NEW x, NEW step, NEW n \in Nat, NEW m \in Nat, NEW f, NEW g,
         Approximates(f, n, x, step, T), Approximates(g, m, x, step, T)
  PROVE  \A i \in Nat : i <= n /\ i <= m => f[i] = g[i]
<1> DEFINE Same == {i \in Nat : i <= n /\ i <= m => f[i] = g[i]}
<1>1. 0 \in Same
  BY DEF Approximates
<1>2. ASSUME NEW i \in Same PROVE i + 1 \in Same
  <2> SUFFICES ASSUME i + 1 <= n, i + 1 <= m PROVE f[i + 1] = g[i + 1]
    OBVIOUS
  <2>1. f[i] = g[i] OBVIOUS
  <2>2. i \in 0 .. n - 1 /\ i \in 0 .. m - 1 OBVIOUS
  <2> QED BY <2>1, <2>2 DEF Approximates
<1>3. \A i \in Nat : i \in Same
  <2>1. Same \subseteq Nat OBVIOUS
  <2> HIDE DEF Same
  <2> QED BY <1>1, <1>2, <2>1, InductionSet
<1> QED BY <1>3

(* Every recursion has a function up to any n.                             *)
LEMMA ApproximationExists ==
  ASSUME NEW T, NEW x \in T, NEW step \in [Nat \X T -> T]
  PROVE  \A n \in Nat : \E f : Approximates(f, n, x, step, T)
<1> DEFINE Good == {n \in Nat : \E f : Approximates(f, n, x, step, T)}
<1>1. 0 \in Good
  <2> DEFINE f == [i \in 0 .. 0 |-> x]
  <2>1. Approximates(f, 0, x, step, T) BY DEF Approximates
  <2> QED BY <2>1
<1>2. ASSUME NEW n \in Good PROVE n + 1 \in Good
  <2>1. PICK f : Approximates(f, n, x, step, T) OBVIOUS
  <2> DEFINE g == [i \in 0 .. n + 1 |-> IF i <= n THEN f[i] ELSE step[<<n, f[n]>>]]
  <2>2. n \in Nat /\ f \in [0 .. n -> T] /\ f[n] \in T
    BY <2>1 DEF Approximates
  <2>3. step[<<n, f[n]>>] \in T
    BY <2>2
  <2>4. g \in [0 .. n + 1 -> T]
    BY <2>2, <2>3
  <2>5. g[0] = x
    BY <2>1, <2>2 DEF Approximates
  <2>6. ASSUME NEW i \in 0 .. n PROVE g[i + 1] = step[<<i, g[i]>>]
    <3>1. g[i] = f[i] BY <2>2
    <3>2. CASE i = n
      <4>1. n + 1 \in 0 .. n + 1 /\ ~ (n + 1 <= n) BY <2>2
      <4>2. g[n + 1] = step[<<n, f[n]>>] BY <4>1
      <4> HIDE DEF g
      <4> QED BY ONLY <3>1, <3>2, <4>2
    <3>3. CASE i < n
      <4>1. g[i + 1] = f[i + 1] BY <2>2, <3>3
      <4>2. f[i + 1] = step[<<i, f[i]>>] BY <2>1, <2>2, <3>3 DEF Approximates
      <4> QED BY <3>1, <4>1, <4>2
    <3> QED BY <2>2, <3>2, <3>3
  <2> HIDE DEF g
  <2>7. Approximates(g, n + 1, x, step, T)
    BY <2>2, <2>4, <2>5, <2>6 DEF Approximates
  <2> QED BY <2>2, <2>7
<1>3. \A n \in Nat : n \in Good
  <2>1. Good \subseteq Nat OBVIOUS
  <2> HIDE DEF Good
  <2> QED BY <1>1, <1>2, <2>1, InductionSet
<1> QED BY <1>3

-----------------------------------------------------------------------------
(* Numbers and digits.                                                     *)

(* Products of naturals are naturals.                                      *)
LEMMA NatProduct ==
  ASSUME NEW x \in Nat, NEW y \in Nat PROVE x * y \in Nat
OBVIOUS

(* And sums.                                                               *)
LEMMA NatSum ==
  ASSUME NEW x \in Nat, NEW y \in Nat PROVE x + y \in Nat
OBVIOUS

(* Quotient and remainder.                                                 *)
LEMMA Quotient ==
  ASSUME NEW x \in Nat, NEW b \in Nat \ {0}
  PROVE  /\ x \div b \in Nat /\ x % b \in 0 .. b - 1
         /\ x = (x \div b) * b + (x % b)
OBVIOUS

(* The quotient and remainder of a product and a digit.                    *)
LEMMA QuotientOf ==
  ASSUME NEW x \in Nat, NEW b \in Nat \ {0}, NEW d \in 0 .. b - 1
  PROVE  (x * b + d) \div b = x /\ (x * b + d) % b = d
OBVIOUS

(* What the recursion in Number computes.                                  *)
Horner(f, digits, base) ==
  /\ f \in [0 .. Len(digits) -> Nat]
  /\ f[0] = 0
  /\ \A i \in 1 .. Len(digits) : f[i] = f[i - 1] * base + digits[i]

(* ParseUnsigned reads a number digit by digit.                            *)
LEMMA NumberIsHorner ==
  ASSUME NEW digits \in Seq(Nat), NEW base \in Nat
  PROVE  \E f : Horner(f, digits, base) /\ Number(digits, base) = f[Len(digits)]
<1> DEFINE n == Len(digits)
           Eq(f) == f = [i \in 0 .. n |-> IF i = 0 THEN 0 ELSE f[i - 1] * base + digits[i]]
           step == [p \in Nat \X Nat |->
                      IF p[1] + 1 <= n THEN p[2] * base + digits[p[1] + 1] ELSE 0]
<1>1. n \in Nat /\ \A i \in 1 .. n : digits[i] \in Nat
  OBVIOUS
<1>2. step \in [Nat \X Nat -> Nat]
  <2>1. ASSUME NEW p \in Nat \X Nat PROVE step[p] \in Nat
    <3>1. p[1] \in Nat /\ p[2] \in Nat /\ p[2] * base \in Nat OBVIOUS
    <3>2. CASE p[1] + 1 <= n
      <4>1. digits[p[1] + 1] \in Nat BY <1>1, <3>1, <3>2
      <4>2. step[p] = p[2] * base + digits[p[1] + 1] BY <3>2
      <4> HIDE DEF step
      <4>3. p[2] * base + digits[p[1] + 1] \in Nat BY ONLY <3>1, <4>1, NatSum, Zenon
      <4> QED BY ONLY <4>2, <4>3
    <3>3. CASE ~ (p[1] + 1 <= n) BY <3>3
    <3> QED BY <3>2, <3>3
  <2> QED BY <2>1
<1>3. PICK f : Approximates(f, n, 0, step, Nat)
  <2> HIDE DEF n, step
  <2> QED BY <1>1, <1>2, ApproximationExists
<1>4. ASSUME NEW i \in 0 .. n - 1 PROVE f[i + 1] = f[i] * base + digits[i + 1]
  <2>1. f[i] \in Nat /\ i \in Nat BY <1>1, <1>3 DEF Approximates
  <2>2. f[i + 1] = step[<<i, f[i]>>] BY <1>3 DEF Approximates
  <2> DEFINE p == <<i, f[i]>>
  <2>3. p \in Nat \X Nat /\ p[1] = i /\ p[2] = f[i] BY <2>1
  <2> HIDE DEF p
  <2>4. step[p] = IF p[1] + 1 <= n THEN p[2] * base + digits[p[1] + 1] ELSE 0 BY <2>3
  <2>5. i + 1 <= n BY <1>1
  <2> HIDE DEF step, n
  <2> QED BY ONLY <2>2, <2>3, <2>4, <2>5 DEF p
<1>5. f \in [0 .. n -> Nat] /\ f[0] = 0
  BY <1>3 DEF Approximates
<1>6. Eq(f)
  <2> DEFINE g == [i \in 0 .. n |-> IF i = 0 THEN 0 ELSE f[i - 1] * base + digits[i]]
  <2>1. ASSUME NEW i \in 0 .. n PROVE f[i] = g[i]
    <3>1. CASE i = 0 BY <1>5, <3>1
    <3>2. CASE i # 0
      <4>1. i - 1 \in 0 .. n - 1 /\ i - 1 + 1 = i BY <1>1, <3>2
      <4> QED BY <1>4, <3>2, <4>1
    <3> QED BY <3>1, <3>2
  <2>2. DOMAIN f = 0 .. n BY <1>5
  <2> QED BY <1>5, <2>1, <2>2
<1> DEFINE v == CHOOSE h : Eq(h)
<1>7. Eq(v)
  <2> HIDE DEF Eq
  <2> QED BY <1>6
<1>8. Number(digits, base) = v[n]
  BY DEF Number
<1>9. Horner(v, digits, base)
  <2> HIDE DEF v
  <2>1. DOMAIN v = 0 .. n BY <1>7
  <2>2. ASSUME NEW i \in 0 .. n
        PROVE  v[i] = IF i = 0 THEN 0 ELSE v[i - 1] * base + digits[i]
    BY <1>7
  <2>3. \A i \in Nat : i <= n => v[i] \in Nat
    <3> DEFINE Good == {i \in Nat : i <= n => v[i] \in Nat}
    <3>1. 0 \in Good BY <1>1, <2>2
    <3>2. ASSUME NEW i \in Good PROVE i + 1 \in Good
      <4> SUFFICES ASSUME i + 1 <= n PROVE v[i + 1] \in Nat OBVIOUS
      <4>1. v[i] \in Nat /\ i + 1 \in 0 .. n /\ i + 1 # 0 /\ i + 1 - 1 = i BY <1>1
      <4>2. v[i + 1] = v[i] * base + digits[i + 1] BY <2>2, <4>1
      <4>3. digits[i + 1] \in Nat BY <1>1, <4>1
      <4>4. v[i] * base \in Nat BY ONLY <4>1, NatProduct, base \in Nat
      <4>5. v[i] * base + digits[i + 1] \in Nat BY ONLY <4>3, <4>4, NatSum, Zenon
      <4> QED BY ONLY <4>2, <4>5
    <3>3. \A i \in Nat : i \in Good
      <4>1. Good \subseteq Nat OBVIOUS
      <4> HIDE DEF Good
      <4> QED BY <3>1, <3>2, <4>1, InductionSet
    <3> QED BY <3>3
  <2>4. v \in [0 .. n -> Nat]
    <3>1. \A i \in 0 .. n : v[i] \in Nat BY <1>1, <2>3
    <3>2. v = [i \in 0 .. n |-> v[i]] BY <1>7
    <3> QED BY <3>1, <3>2
  <2>5. \A i \in 1 .. n : v[i] = v[i - 1] * base + digits[i] BY <1>1, <2>2
  <2>6. v[0] = 0 BY <1>1, <2>2
  <2> QED BY <2>4, <2>5, <2>6 DEF Horner
<1> QED BY <1>8, <1>9

(* No digits stand for 0.                                                  *)
LEMMA NumberEmpty ==
  ASSUME NEW base \in Nat, NEW digits \in Seq(Nat), Len(digits) = 0
  PROVE  Number(digits, base) = 0
BY NumberIsHorner DEF Horner

(* One more digit multiplies by the base and adds the digit.               *)
LEMMA NumberAppend ==
  ASSUME NEW base \in Nat, NEW s \in Seq(Nat), NEW d \in Nat
  PROVE  /\ Number(s, base) \in Nat
         /\ Number(Append(s, d), base) = Number(s, base) * base + d
<1> DEFINE n == Len(s)
           t == Append(s, d)
<1>1. n \in Nat /\ t \in Seq(Nat) /\ Len(t) = n + 1 /\ t[n + 1] = d
      /\ \A i \in 1 .. n : t[i] = s[i]
  OBVIOUS
<1>2. PICK f : Horner(f, s, base) /\ Number(s, base) = f[n]
  BY NumberIsHorner
<1>3. PICK g : Horner(g, t, base) /\ Number(t, base) = g[n + 1]
  <2> HIDE DEF t
  <2> QED BY <1>1, NumberIsHorner
<1> HIDE DEF t, n
<1> USE DEF n
<1> DEFINE Same == {i \in Nat : i <= n => f[i] = g[i]}
<1> HIDE DEF n
<1>4. 0 \in Same
  BY <1>2, <1>3 DEF Horner
<1>5. ASSUME NEW i \in Same PROVE i + 1 \in Same
  <2> SUFFICES ASSUME i + 1 <= n PROVE f[i + 1] = g[i + 1] OBVIOUS
  <2>1. f[i] = g[i] /\ i + 1 \in 1 .. n /\ i + 1 \in 1 .. n + 1 /\ i + 1 - 1 = i BY <1>1
  <2>2. f[i + 1] = f[i] * base + s[i + 1] BY <1>2, <2>1 DEF Horner, n
  <2>3. g[i + 1] = g[i] * base + t[i + 1] BY <1>1, <1>3, <2>1 DEF Horner
  <2> QED BY <1>1, <2>1, <2>2, <2>3
<1>6. \A i \in Nat : i \in Same
  <2>1. Same \subseteq Nat OBVIOUS
  <2> HIDE DEF Same
  <2> QED BY <1>4, <1>5, <2>1, InductionSet
<1>7. f[n] = g[n]
  BY <1>1, <1>6
<1>8. g[n + 1] = g[n] * base + d
  <2>1. n + 1 \in 1 .. n + 1 /\ n + 1 - 1 = n BY <1>1
  <2> QED BY <1>1, <1>3, <2>1 DEF Horner
<1>9. f[n] \in Nat
  <2>1. f \in [0 .. n -> Nat] BY ONLY <1>2 DEF Horner, n
  <2>2. n \in 0 .. n BY ONLY <1>1
  <2> QED BY ONLY <2>1, <2>2
<1> QED BY <1>2, <1>3, <1>7, <1>8, <1>9 DEF t

(* What the recursion in Digits computes.                                  *)
Shifts(f, v, base, n) ==
  /\ f \in [0 .. n -> Nat]
  /\ f[0] = v
  /\ \A i \in 1 .. n : f[i] = f[i - 1] \div base

(* PutU16, PutU32, PutU64 and %016llx shift the value digit by digit.      *)
LEMMA DigitsAreShifts ==
  ASSUME NEW v \in Nat, NEW base \in Nat \ {0}, NEW n \in Nat
  PROVE  \E f : Shifts(f, v, base, n) /\ Digits(v, base, n) = [i \in 1 .. n |-> f[n - i] % base]
<1> DEFINE Eq(f) == f = [i \in 0 .. n |-> IF i = 0 THEN v ELSE f[i - 1] \div base]
           step == [p \in Nat \X Nat |-> p[2] \div base]
<1>2. step \in [Nat \X Nat -> Nat]
  <2>1. ASSUME NEW p \in Nat \X Nat PROVE step[p] \in Nat
    <3>1. p[2] \in Nat OBVIOUS
    <3>2. p[2] \div base \in Nat BY <3>1, Quotient
    <3> QED BY <3>2
  <2> QED BY <2>1
<1>3. PICK f : Approximates(f, n, v, step, Nat)
  <2> HIDE DEF step
  <2> QED BY <1>2, ApproximationExists
<1>4. ASSUME NEW i \in 0 .. n - 1 PROVE f[i + 1] = f[i] \div base
  <2>1. f[i] \in Nat /\ i \in Nat BY <1>3 DEF Approximates
  <2>2. f[i + 1] = step[<<i, f[i]>>] BY <1>3 DEF Approximates
  <2>3. <<i, f[i]>> \in Nat \X Nat BY <2>1
  <2> QED BY <2>1, <2>2, <2>3
<1>5. f \in [0 .. n -> Nat] /\ f[0] = v
  BY <1>3 DEF Approximates
<1>6. Eq(f)
  <2> DEFINE g == [i \in 0 .. n |-> IF i = 0 THEN v ELSE f[i - 1] \div base]
  <2>1. ASSUME NEW i \in 0 .. n PROVE f[i] = g[i]
    <3>1. CASE i = 0 BY <1>5, <3>1
    <3>2. CASE i # 0
      <4>1. i - 1 \in 0 .. n - 1 /\ i - 1 + 1 = i BY <3>2
      <4> QED BY <1>4, <3>2, <4>1
    <3> QED BY <3>1, <3>2
  <2>2. DOMAIN f = 0 .. n BY <1>5
  <2> QED BY <1>5, <2>1, <2>2
<1> DEFINE r == CHOOSE h : Eq(h)
<1>7. Eq(r)
  <2> HIDE DEF Eq
  <2> QED BY <1>6
<1>8. Digits(v, base, n) = [i \in 1 .. n |-> r[n - i] % base]
  BY DEF Digits
<1>9. Shifts(r, v, base, n)
  <2> HIDE DEF r
  <2>2. ASSUME NEW i \in 0 .. n
        PROVE  r[i] = IF i = 0 THEN v ELSE r[i - 1] \div base
    BY <1>7
  <2>3. \A i \in Nat : i <= n => r[i] \in Nat
    <3> DEFINE Good == {i \in Nat : i <= n => r[i] \in Nat}
    <3>1. 0 \in Good BY <2>2
    <3>2. ASSUME NEW i \in Good PROVE i + 1 \in Good
      <4> SUFFICES ASSUME i + 1 <= n PROVE r[i + 1] \in Nat OBVIOUS
      <4>1. r[i] \in Nat /\ i + 1 \in 0 .. n /\ i + 1 # 0 /\ i + 1 - 1 = i OBVIOUS
      <4>2. r[i + 1] = r[i] \div base BY <2>2, <4>1
      <4>3. r[i] \div base \in Nat BY <4>1, Quotient
      <4> QED BY <4>2, <4>3
    <3>3. \A i \in Nat : i \in Good
      <4>1. Good \subseteq Nat OBVIOUS
      <4> HIDE DEF Good
      <4> QED BY <3>1, <3>2, <4>1, InductionSet
    <3> QED BY <3>3
  <2>4. r \in [0 .. n -> Nat]
    <3>1. \A i \in 0 .. n : r[i] \in Nat BY <2>3
    <3>2. r = [i \in 0 .. n |-> r[i]] BY <1>7
    <3> QED BY <3>1, <3>2
  <2>5. \A i \in 1 .. n : r[i] = r[i - 1] \div base BY <2>2
  <2>6. r[0] = v BY <2>2
  <2> QED BY <2>4, <2>5, <2>6 DEF Shifts
<1> QED BY <1>8, <1>9

(* The digits are those of the quotient, then the remainder.               *)
LEMMA DigitsAppend ==
  ASSUME NEW v \in Nat, NEW base \in Nat \ {0}, NEW n \in Nat
  PROVE  /\ Digits(v, base, n) \in [1 .. n -> 0 .. base - 1]
         /\ Digits(v, base, n + 1) = Append(Digits(v \div base, base, n), v % base)
<1>1. ASSUME NEW w \in Nat, NEW m \in Nat PROVE Digits(w, base, m) \in [1 .. m -> 0 .. base - 1]
  <2>1. PICK f : Shifts(f, w, base, m) /\ Digits(w, base, m) = [i \in 1 .. m |-> f[m - i] % base]
    BY DigitsAreShifts
  <2>2. ASSUME NEW i \in 1 .. m PROVE f[m - i] % base \in 0 .. base - 1
    <3>1. m - i \in 0 .. m OBVIOUS
    <3>2. f[m - i] \in Nat BY <2>1, <3>1 DEF Shifts
    <3> QED BY <3>2, Quotient
  <2> QED BY <2>1, <2>2
<1> DEFINE w == v \div base
<1>2. w \in Nat
  BY Quotient
<1>3. PICK f : Shifts(f, v, base, n + 1)
               /\ Digits(v, base, n + 1) = [i \in 1 .. n + 1 |-> f[n + 1 - i] % base]
  <2> DEFINE m == n + 1
  <2>1. m \in Nat OBVIOUS
  <2> HIDE DEF m
  <2>2. \E f : Shifts(f, v, base, m) /\ Digits(v, base, m) = [i \in 1 .. m |-> f[m - i] % base]
    BY <2>1, DigitsAreShifts
  <2> QED BY <2>2 DEF m
<1>4. PICK g : Shifts(g, w, base, n) /\ Digits(w, base, n) = [i \in 1 .. n |-> g[n - i] % base]
  <2> HIDE DEF w
  <2> QED BY <1>2, DigitsAreShifts
<1>5. f[1] = w
  <2>1. 1 \in 1 .. n + 1 /\ 1 - 1 = 0 OBVIOUS
  <2>2. f[1] = f[0] \div base /\ f[0] = v BY <1>3, <2>1 DEF Shifts
  <2> QED BY <2>2
<1> HIDE DEF w
<1> DEFINE Same == {i \in Nat : i <= n => g[i] = f[i + 1]}
<1>6. 0 \in Same
  BY <1>4, <1>5 DEF Shifts
<1>7. ASSUME NEW i \in Same PROVE i + 1 \in Same
  <2> SUFFICES ASSUME i + 1 <= n PROVE g[i + 1] = f[i + 1 + 1] OBVIOUS
  <2>1. /\ g[i] = f[i + 1] /\ i + 1 \in 1 .. n /\ i + 1 - 1 = i
        /\ i + 1 + 1 \in 1 .. n + 1 /\ i + 1 + 1 - 1 = i + 1
    OBVIOUS
  <2>2. g[i + 1] = g[i] \div base BY <1>4, <2>1 DEF Shifts
  <2>3. f[i + 1 + 1] = f[i + 1] \div base BY <1>3, <2>1 DEF Shifts
  <2> QED BY <2>1, <2>2, <2>3
<1>8. \A i \in Nat : i \in Same
  <2>1. Same \subseteq Nat OBVIOUS
  <2> HIDE DEF Same
  <2> QED BY <1>6, <1>7, <2>1, InductionSet
<1> DEFINE a == Digits(w, base, n)
           b == Digits(v, base, n + 1)
           d == v % base
<1>9. a \in [1 .. n -> 0 .. base - 1] /\ b \in [1 .. n + 1 -> 0 .. base - 1] /\ d \in 0 .. base - 1
  <2>1. n + 1 \in Nat OBVIOUS
  <2>2. d \in 0 .. base - 1 BY Quotient
  <2>3. b \in [1 .. n + 1 -> 0 .. base - 1] BY <1>1, <2>1
  <2>4. a \in [1 .. n -> 0 .. base - 1] BY <1>1, <1>2
  <2> QED BY <2>2, <2>3, <2>4
<1>10. ASSUME NEW i \in 1 .. n PROVE b[i] = a[i]
  <2>1. /\ b[i] = f[n + 1 - i] % base /\ a[i] = g[n - i] % base
        /\ n - i \in Nat /\ n - i <= n /\ n - i + 1 = n + 1 - i
    BY <1>3, <1>4
  <2>2. g[n - i] = f[n + 1 - i] BY <1>8, <2>1
  <2> QED BY <2>1, <2>2
<1>11. b[n + 1] = d
  <2>1. n + 1 \in 1 .. n + 1 /\ n + 1 - (n + 1) = 0 OBVIOUS
  <2>2. b[n + 1] = f[0] % base BY <1>3, <2>1
  <2> QED BY <1>3, <2>2 DEF Shifts
<1> HIDE DEF a, b, d
<1>12. b = Append(a, d)
  <2> DEFINE c == Append(a, d)
  <2>1. a \in Seq(0 .. base - 1) /\ Len(a) = n BY <1>9
  <2>2. c \in Seq(0 .. base - 1) /\ Len(c) = n + 1 /\ DOMAIN c = 1 .. n + 1
    BY <1>9, <2>1
  <2>3. ASSUME NEW i \in 1 .. n + 1 PROVE b[i] = c[i]
    BY <1>10, <1>11, <2>1
  <2> HIDE DEF c
  <2>4. c = [i \in 1 .. n + 1 |-> c[i]] BY <2>2
  <2>5. b = [i \in 1 .. n + 1 |-> b[i]] BY <1>9
  <2>6. b = c BY <2>3, <2>4, <2>5
  <2> QED BY <2>6 DEF c
<1> QED BY <1>1, <1>12 DEF a, b, d, w

(* The largest number of n digits.                                         *)
Largest(base, n) == Number([i \in 1 .. n |-> base - 1], base)

(* It grows by one digit at a time.                                        *)
LEMMA LargestNext ==
  ASSUME NEW base \in Nat \ {0}, NEW n \in Nat
  PROVE  /\ Largest(base, n) \in Nat
         /\ Largest(base, 0) = 0
         /\ Largest(base, n + 1) = Largest(base, n) * base + (base - 1)
<1> DEFINE all(m) == [i \in 1 .. m |-> base - 1]
<1>1. base - 1 \in Nat /\ base \in Nat
  OBVIOUS
<1>2. ASSUME NEW m \in Nat PROVE all(m) \in Seq(Nat) /\ Len(all(m)) = m
  BY <1>1
<1>3. all(n + 1) = Append(all(n), base - 1)
  BY <1>1
<1>4. Number(all(0), base) = 0
  <2>1. all(0) \in Seq(Nat) /\ Len(all(0)) = 0 BY <1>2
  <2> HIDE DEF all
  <2> QED BY <1>1, <2>1, NumberEmpty
<1>5. /\ Number(all(n), base) \in Nat
      /\ Number(Append(all(n), base - 1), base) = Number(all(n), base) * base + (base - 1)
  <2>1. all(n) \in Seq(Nat) BY <1>2
  <2> HIDE DEF all
  <2> DEFINE c == base - 1
  <2>2. c \in Nat BY <1>1
  <2> HIDE DEF c
  <2>3. Number(Append(all(n), c), base) = Number(all(n), base) * base + c
    BY <1>1, <2>1, <2>2, NumberAppend
  <2>4. Number(all(n), base) \in Nat BY <1>1, <2>1, <2>2, NumberAppend
  <2> QED BY <2>3, <2>4 DEF c
<1>6. Number(all(n + 1), base) = Number(all(n), base) * base + (base - 1)
  <2> HIDE DEF all
  <2> QED BY <1>3, <1>5
<1>7. /\ Largest(base, n) = Number(all(n), base) /\ Largest(base, 0) = Number(all(0), base)
      /\ Largest(base, n + 1) = Number(all(n + 1), base)
  BY DEF Largest
<1> HIDE DEF all
<1> QED BY <1>4, <1>5, <1>6, <1>7

(* A number with a quotient and a remainder is at most x * b + (b - 1) if  *)
(* and only if its quotient is at most x.                                  *)
LEMMA QuotientBound ==
  ASSUME NEW x \in Nat, NEW b \in Nat \ {0}, NEW q \in Nat, NEW d \in 0 .. b - 1
  PROVE  q * b + d <= x * b + (b - 1) <=> q <= x
<1>1. ASSUME q <= x PROVE q * b + d <= x * b + (b - 1)
  <2>1. x - q \in Nat BY <1>1
  <2>2. (x - q) * b \in Nat BY <2>1, NatProduct
  <2>3. (x - q) * b = x * b - q * b OBVIOUS
  <2>4. q * b \in Nat /\ x * b \in Nat BY NatProduct
  <2> HIDE <1>1
  <2> QED BY <2>2, <2>3, <2>4
<1>2. ASSUME q > x PROVE q * b + d > x * b + (b - 1)
  <2>1. q - x - 1 \in Nat BY <1>2
  <2>2. (q - x - 1) * b \in Nat BY <2>1, NatProduct
  <2>3. (q - x - 1) * b = q * b - x * b - b OBVIOUS
  <2>4. q * b \in Nat /\ x * b \in Nat BY NatProduct
  <2> QED BY <2>2, <2>3, <2>4
<1>3. q * b \in Nat /\ x * b \in Nat BY NatProduct
<1> QED BY <1>1, <1>2, <1>3

(* Writing a number that fits and reading it returns it.                   *)
LEMMA DigitsRead ==
  ASSUME NEW base \in Nat \ {0}, NEW n \in Nat, NEW v \in Nat, v <= Largest(base, n)
  PROVE  Number(Digits(v, base, n), base) = v
<1> DEFINE Reads(m) == \A w \in Nat : w <= Largest(base, m) => Number(Digits(w, base, m), base) = w
           Good == {m \in Nat : Reads(m)}
<1>0. base \in Nat
  OBVIOUS
<1>1. 0 \in Good
  <2> SUFFICES ASSUME NEW w \in Nat, w <= Largest(base, 0)
               PROVE  Number(Digits(w, base, 0), base) = w
    OBVIOUS
  <2>1. w = 0 BY LargestNext
  <2>2. Digits(w, base, 0) \in [1 .. 0 -> 0 .. base - 1] BY DigitsAppend
  <2>3. Digits(w, base, 0) \in Seq(Nat) /\ Len(Digits(w, base, 0)) = 0 BY <2>2
  <2> QED BY <1>0, <2>1, <2>3, NumberEmpty
<1>2. ASSUME NEW m \in Good PROVE m + 1 \in Good
  <2> SUFFICES ASSUME NEW w \in Nat, w <= Largest(base, m + 1)
               PROVE  Number(Digits(w, base, m + 1), base) = w
    OBVIOUS
  <2>0. m \in Nat /\ Reads(m) OBVIOUS
  <2> DEFINE q == w \div base
             d == w % base
             s == Digits(q, base, m)
  <2>1. q \in Nat /\ d \in 0 .. base - 1 /\ w = q * base + d
    BY Quotient
  <2>2. Digits(w, base, m + 1) = Append(s, d)
    BY <2>0, DigitsAppend
  <2> HIDE DEF d, q
  <2>3. s \in [1 .. m -> 0 .. base - 1]
    BY <2>0, <2>1, DigitsAppend
  <2>4. s \in Seq(Nat) /\ d \in Nat
    BY <2>0, <2>1, <2>3
  <2>5. Largest(base, m) \in Nat /\ Largest(base, m + 1) = Largest(base, m) * base + (base - 1)
    BY <2>0, LargestNext
  <2>6. q <= Largest(base, m)
    <3> DEFINE x == Largest(base, m)
    <3>1. x \in Nat /\ q * base + d <= x * base + (base - 1) BY <2>1, <2>5
    <3> HIDE DEF x
    <3>2. q <= x BY <2>1, <3>1, QuotientBound
    <3> QED BY <3>2 DEF x
  <2>7. Number(s, base) = q
    BY <2>0, <2>1, <2>6
  <2> HIDE DEF s
  <2>8. Number(Append(s, d), base) = Number(s, base) * base + d
    BY <1>0, <2>4, NumberAppend
  <2> QED BY <2>1, <2>2, <2>7, <2>8
<1>3. \A m \in Nat : m \in Good
  <2>1. Good \subseteq Nat OBVIOUS
  <2> HIDE DEF Good
  <2> QED BY <1>1, <1>2, <2>1, InductionSet
<1> QED BY <1>3

(* Reading n digits gives a number that fits, and writing it returns them. *)
LEMMA NumberWrites ==
  ASSUME NEW base \in Nat \ {0}, NEW n \in Nat, NEW s \in [1 .. n -> 0 .. base - 1]
  PROVE  /\ Number(s, base) \in Nat /\ Number(s, base) <= Largest(base, n)
         /\ Digits(Number(s, base), base, n) = s
<1> DEFINE Writes(u, m) == /\ Number(u, base) \in Nat /\ Number(u, base) <= Largest(base, m)
                           /\ Digits(Number(u, base), base, m) = u
           Good == {m \in Nat : \A u \in [1 .. m -> 0 .. base - 1] : Writes(u, m)}
<1>0. base \in Nat
  OBVIOUS
<1>1. 0 \in Good
  <2> SUFFICES ASSUME NEW u \in [1 .. 0 -> 0 .. base - 1] PROVE Writes(u, 0)
    OBVIOUS
  <2>1. u \in Seq(Nat) /\ Len(u) = 0 OBVIOUS
  <2>2. Number(u, base) = 0 BY <1>0, <2>1, NumberEmpty
  <2>3. Digits(0, base, 0) \in [1 .. 0 -> 0 .. base - 1] BY DigitsAppend
  <2>4. Digits(0, base, 0) = u BY <2>3
  <2>5. Largest(base, 0) = 0 BY LargestNext
  <2> QED BY <2>2, <2>4, <2>5
<1>2. ASSUME NEW m \in Good PROVE m + 1 \in Good
  <2> SUFFICES ASSUME NEW u \in [1 .. m + 1 -> 0 .. base - 1] PROVE Writes(u, m + 1)
    OBVIOUS
  <2> DEFINE t == [i \in 1 .. m |-> u[i]]
             d == u[m + 1]
             x == Number(t, base)
  <2>0. m \in Nat /\ \A w \in [1 .. m -> 0 .. base - 1] : Writes(w, m) OBVIOUS
  <2>1. t \in [1 .. m -> 0 .. base - 1] /\ t \in Seq(Nat) /\ Len(t) = m /\ d \in 0 .. base - 1 /\ d \in Nat
    BY <2>0
  <2>2. u = Append(t, d)
    BY <2>0
  <2>3. Writes(t, m)
    BY <2>0, <2>1
  <2> HIDE DEF t, d
  <2>4. x \in Nat /\ x <= Largest(base, m) /\ Digits(x, base, m) = t
    BY <2>3
  <2>5. Number(u, base) = x * base + d
    BY <1>0, <2>1, <2>2, NumberAppend
  <2> HIDE DEF x
  <2>6. /\ x * base + d \in Nat /\ (x * base + d) \div base = x /\ (x * base + d) % base = d
    <3>1. x \in Nat /\ d \in 0 .. base - 1 /\ base \in Nat \ {0} BY <2>1, <2>4
    <3>2. (x * base + d) \div base = x /\ (x * base + d) % base = d BY ONLY <3>1, QuotientOf
    <3>3. x * base \in Nat BY ONLY <3>1, NatProduct
    <3>4. ASSUME NEW p \in Nat PROVE p + d \in Nat BY <2>1
    <3> QED BY ONLY <3>2, <3>3, <3>4
  <2> DEFINE w == x * base + d
  <2>7. w \in Nat /\ w \div base = x /\ w % base = d
    BY <2>6
  <2>8. w <= Largest(base, m + 1)
    <3> DEFINE y == Largest(base, m)
    <3>1. y \in Nat /\ Largest(base, m + 1) = y * base + (base - 1) BY <2>0, LargestNext
    <3>2. x <= y BY <2>4
    <3> HIDE DEF y
    <3>3. x * base + d <= y * base + (base - 1) BY <2>1, <2>4, <3>1, <3>2, QuotientBound
    <3> QED BY <3>1, <3>3
  <2>9. Number(u, base) = w BY <2>5
  <2> HIDE DEF w
  <2>10. Digits(w, base, m + 1) = Append(Digits(w \div base, base, m), w % base)
    BY <2>0, <2>7, DigitsAppend
  <2>11. Digits(w, base, m + 1) = u
    BY <2>2, <2>4, <2>7, <2>10
  <2> QED BY <2>7, <2>8, <2>9, <2>11
<1>3. \A m \in Nat : m \in Good
  <2>1. Good \subseteq Nat OBVIOUS
  <2> HIDE DEF Good
  <2> QED BY <1>1, <1>2, <2>1, InductionSet
<1> QED BY <1>3

(* Two digits of a base are one of its square.                             *)
LEMMA TwoDigitsPerByte ==
  ASSUME NEW base \in Nat \ {0}, NEW n \in Nat
  PROVE  Largest(base, 2 * n) = Largest(base * base, n)
<1> DEFINE Good == {m \in Nat : Largest(base, 2 * m) = Largest(base * base, m)}
           sq == base * base
<1>0. sq \in Nat \ {0}
  OBVIOUS
<1>1. 0 \in Good
  <2>1. Largest(base, 0) = 0 BY LargestNext
  <2>2. Largest(sq, 0) = 0
    <3> HIDE DEF sq
    <3> QED BY <1>0, LargestNext
  <2>3. 2 * 0 = 0 OBVIOUS
  <2> QED BY <2>1, <2>2, <2>3
<1>2. ASSUME NEW m \in Good PROVE m + 1 \in Good
  <2> DEFINE k == 2 * m
             x == Largest(base, k)
             y == Largest(base, k + 1)
             z == Largest(sq, m)
  <2>0. m \in Nat /\ k \in Nat /\ k + 1 \in Nat /\ x = z OBVIOUS
  <2> HIDE DEF k
  <2>1. x \in Nat /\ y \in Nat /\ y = x * base + (base - 1)
    BY <2>0, LargestNext
  <2>2. Largest(base, k + 1 + 1) = y * base + (base - 1)
    <3> DEFINE j == k + 1
    <3>1. j \in Nat BY <2>0
    <3> HIDE DEF j
    <3>2. Largest(base, j + 1) = Largest(base, j) * base + (base - 1) BY <3>1, LargestNext
    <3> QED BY <3>2 DEF j
  <2>3. Largest(sq, m + 1) = z * sq + (sq - 1)
    <3> HIDE DEF sq
    <3> QED BY <1>0, <2>0, LargestNext
  <2>4. k + 1 + 1 = 2 * (m + 1) BY <2>0 DEF k
  <2>5. y * base + (base - 1) = x * sq + (sq - 1)
    <3> HIDE DEF x, y
    <3>1. y * base = (x * base + (base - 1)) * base BY <2>1
    <3>2. (x * base + (base - 1)) * base = x * sq + sq - base BY <2>1
    <3>3. x * sq \in Nat BY <1>0, <2>1, NatProduct
    <3> HIDE DEF sq
    <3> QED BY <1>0, <3>1, <3>2, <3>3
  <2>6. Largest(base, k + 1 + 1) = Largest(sq, m + 1)
    BY <2>0, <2>2, <2>3, <2>5
  <2>7. Largest(base, 2 * (m + 1)) = Largest(sq, m + 1)
    BY ONLY <2>4, <2>6
  <2> QED BY <2>0, <2>7
<1>3. \A m \in Nat : m \in Good
  <2>1. Good \subseteq Nat OBVIOUS
  <2> HIDE DEF Good
  <2> QED BY <1>1, <1>2, <2>1, InductionSet
<1> QED BY <1>3

-----------------------------------------------------------------------------
(* Decimal text.                                                           *)

(* One more digit on top of the digits of the quotient.                    *)
DecimalStep(f, n) == IF n < 10 THEN <<n>> ELSE Append(f[n \div 10], n % 10)

(* The quotient by 10 of a number of two digits is smaller.                *)
LEMMA TenthIsSmaller ==
  ASSUME NEW n \in Nat, n >= 10
  PROVE  n \div 10 \in Nat /\ n \div 10 < n /\ n % 10 \in 0 .. 9 /\ n = (n \div 10) * 10 + (n % 10)
OBVIOUS

(* %u writes a number below 10 as its digit, and another as its tenth      *)
(* followed by its last digit.                                             *)
LEMMA DecimalIsRecursive ==
  /\ Decimal \in [Nat -> Seq(Nat)]
  /\ \A n \in Nat : Decimal[n] = DecimalStep(Decimal, n)
<1> DEFINE T == [Nat -> Seq(Nat)]
           x == [m \in Nat |-> <<m>>]
           next(n, g) == [m \in Nat |-> IF m = n THEN DecimalStep(g, n) ELSE g[m]]
           step == [p \in Nat \X T |-> next(p[1] + 1, p[2])]
<1>1. x \in T
  OBVIOUS
<1>2. ASSUME NEW g \in T, NEW n \in Nat PROVE DecimalStep(g, n) \in Seq(Nat)
  <2>1. CASE n < 10 BY <2>1 DEF DecimalStep
  <2>2. CASE n >= 10
    <3>1. n \div 10 \in Nat /\ n % 10 \in Nat BY <2>2, TenthIsSmaller
    <3>2. g[n \div 10] \in Seq(Nat) BY <3>1
    <3>3. Append(g[n \div 10], n % 10) \in Seq(Nat) BY <3>1, <3>2
    <3> QED BY <2>2, <3>3 DEF DecimalStep
  <2> QED BY <2>1, <2>2
<1>3. ASSUME NEW n \in Nat, NEW g \in T PROVE next(n, g) \in T
  BY <1>2
<1>4. step \in [Nat \X T -> T]
  <2>1. ASSUME NEW p \in Nat \X T PROVE step[p] \in T
    <3>1. p[1] + 1 \in Nat /\ p[2] \in T
      <4> HIDE DEF T, step
      <4> QED BY ONLY p \in Nat \X T
    <3>2. step[p] = next(p[1] + 1, p[2]) OBVIOUS
    <3> HIDE DEF step, next, T
    <3> QED BY <1>3, <3>1, <3>2
  <2> HIDE DEF T, next
  <2> QED BY <2>1
<1>5. ASSUME NEW n \in Nat, NEW g \in T
      PROVE  step[<<n, g>>] = next(n + 1, g)
  <2> HIDE DEF T, next
  <2>1. <<n, g>> \in Nat \X T OBVIOUS
  <2> QED BY <2>1
<1>6. \A n \in Nat : \E f : Approximates(f, n, x, step, T)
  <2> HIDE DEF T, x, step
  <2> QED BY <1>1, <1>4, ApproximationExists
<1> DEFINE F(n) == CHOOSE f : Approximates(f, n, x, step, T)
           D == [n \in Nat |-> F(n)[n][n]]
<1>7. ASSUME NEW n \in Nat PROVE Approximates(F(n), n, x, step, T)
  <2> HIDE DEF T, x, step
  <2> QED BY <1>6
<1> HIDE DEF F
(* Later stages keep the values of earlier ones.                           *)
<1>8. ASSUME NEW n \in Nat
      PROVE  F(n)[n] \in T /\ F(n + 1)[n + 1] = next(n + 1, F(n)[n])
  <2> HIDE DEF T, x, step, next
  <2>1. Approximates(F(n), n, x, step, T) /\ Approximates(F(n + 1), n + 1, x, step, T)
    BY <1>7
  <2>2. F(n)[n] = F(n + 1)[n]
    <3>1. n + 1 \in Nat /\ n <= n /\ n <= n + 1 OBVIOUS
    <3> QED BY <2>1, <3>1, ApproximationsAgree
  <2>3. F(n + 1)[n + 1] = step[<<n, F(n + 1)[n]>>]
    <3>1. n \in 0 .. n + 1 - 1 OBVIOUS
    <3> QED BY <2>1, <3>1 DEF Approximates
  <2>4. F(n)[n] \in T
    BY <2>1 DEF Approximates
  <2> QED BY <1>5, <2>2, <2>3, <2>4
<1>9. ASSUME NEW n \in Nat PROVE \A m \in Nat : m <= n => F(n)[n][m] = D[m]
  <2> DEFINE Good == {k \in Nat : \A m \in Nat : m <= k => F(k)[k][m] = D[m]}
  <2>1. 0 \in Good OBVIOUS
  <2>2. ASSUME NEW k \in Good PROVE k + 1 \in Good
    <3> DEFINE g == F(k)[k]
               h == F(k + 1)[k + 1]
    <3>1. k \in Nat /\ h = next(k + 1, g) BY <1>8
    <3>2. ASSUME NEW m \in Nat, m <= k + 1 PROVE h[m] = D[m]
      <4>1. CASE m = k + 1 BY <4>1
      <4>2. CASE m <= k
        <5>1. m # k + 1 /\ g[m] = D[m] BY <3>1, <4>2
        <5>2. h[m] = g[m] BY <3>1, <5>1
        <5> QED BY <5>1, <5>2
      <4> QED BY <3>1, <3>2, <4>1, <4>2
    <3> QED BY <3>1, <3>2
  <2>3. \A k \in Nat : k \in Good
    <3>1. Good \subseteq Nat OBVIOUS
    <3> HIDE DEF Good
    <3> QED BY <2>1, <2>2, <3>1, InductionSet
  <2> QED BY <2>3
<1>10. ASSUME NEW n \in Nat PROVE D[n] = DecimalStep(D, n)
  <2>1. CASE n = 0
    <3>1. F(0)[0] = x BY <1>7 DEF Approximates
    <3>2. D[0] = <<0>> BY <3>1
    <3> QED BY <2>1, <3>2 DEF DecimalStep
  <2>2. CASE n # 0
    <3> DEFINE k == n - 1
               g == F(k)[k]
    <3>1. k \in Nat /\ k + 1 = n BY <2>2
    <3>2. F(n)[n] = next(n, g) BY <1>8, <3>1
    <3>3. D[n] = DecimalStep(g, n) BY <3>2
    <3>4. CASE n < 10 BY <3>3, <3>4 DEF DecimalStep
    <3>5. CASE n >= 10
      <4>1. n \div 10 \in Nat /\ n \div 10 <= k BY <3>1, <3>5, TenthIsSmaller
      <4>2. g[n \div 10] = D[n \div 10] BY <1>9, <3>1, <4>1
      <4> HIDE DEF g, D
      <4> QED BY <3>3, <3>5, <4>2 DEF DecimalStep
    <3> QED BY <3>4, <3>5
  <2> QED BY <2>1, <2>2
<1> DEFINE Eq(f) == f = [n \in Nat |-> IF n < 10 THEN <<n>> ELSE Append(f[n \div 10], n % 10)]
<1>11. Eq(D)
  <2> DEFINE E == [n \in Nat |-> IF n < 10 THEN <<n>> ELSE Append(D[n \div 10], n % 10)]
  <2>1. ASSUME NEW n \in Nat PROVE D[n] = E[n]
    <3> HIDE DEF D
    <3> QED BY <1>10 DEF DecimalStep
  <2>2. DOMAIN D = Nat /\ D = [n \in Nat |-> D[n]] OBVIOUS
  <2> HIDE DEF D
  <2> QED BY <2>1, <2>2
<1>12. Eq(Decimal)
  <2>1. Decimal = CHOOSE f : Eq(f) BY DEF Decimal
  <2> HIDE DEF Eq, D
  <2> QED BY <1>11, <2>1
<1>13. ASSUME NEW n \in Nat PROVE Decimal[n] = DecimalStep(Decimal, n)
  BY <1>12 DEF DecimalStep
<1>14. \A n \in Nat : Decimal[n] \in Seq(Nat)
  <2> DEFINE Good == {n \in Nat : Decimal[n] \in Seq(Nat)}
  <2>1. ASSUME NEW n \in Nat, \A m \in Nat : m < n => m \in Good PROVE n \in Good
    <3>1. CASE n < 10
      <4>1. DecimalStep(Decimal, n) = <<n>> BY <3>1 DEF DecimalStep
      <4>2. Decimal[n] = <<n>> BY <1>13, <4>1
      <4>3. <<n>> \in Seq(Nat) OBVIOUS
      <4> QED BY <4>2, <4>3
    <3>2. CASE n >= 10
      <4>1. n \div 10 \in Nat /\ n \div 10 < n /\ n % 10 \in Nat BY <3>2, TenthIsSmaller
      <4>2. Decimal[n \div 10] \in Seq(Nat) BY <2>1, <4>1
      <4>3. Append(Decimal[n \div 10], n % 10) \in Seq(Nat) BY <4>1, <4>2
      <4>4. DecimalStep(Decimal, n) = Append(Decimal[n \div 10], n % 10)
        BY <3>2 DEF DecimalStep
      <4>5. Decimal[n] = Append(Decimal[n \div 10], n % 10) BY <1>13, <4>4
      <4> QED BY <4>3, <4>5
    <3> QED BY <3>1, <3>2
  <2>2. \A n \in Nat : n \in Good
    <3>1. Good \subseteq Nat OBVIOUS
    <3> HIDE DEF Good
    <3> QED BY <2>1, <3>1, StrongInductionSet
  <2> QED BY <2>2
<1>15. Decimal \in [Nat -> Seq(Nat)]
  <2>1. Decimal = [n \in Nat |-> Decimal[n]] BY <1>12
  <2> QED BY <1>14, <2>1
<1> QED BY <1>13, <1>15

(* The text of a number has at least one character, all of them digits,    *)
(* and from_chars reads it back.                                           *)
LEMMA DecimalReads ==
  ASSUME NEW n \in Nat
  PROVE  /\ Decimal[n] \in Seq(0 .. 9) /\ Len(Decimal[n]) >= 1
         /\ Number(Decimal[n], 10) = n
<1> DEFINE Good == {m \in Nat : /\ Decimal[m] \in Seq(0 .. 9) /\ Len(Decimal[m]) >= 1
                                /\ Number(Decimal[m], 10) = m}
<1>1. ASSUME NEW m \in Nat, \A k \in Nat : k < m => k \in Good PROVE m \in Good
  <2>1. CASE m < 10
    <3>1. Decimal[m] = Append(<<>>, m)
      <4>1. DecimalStep(Decimal, m) = <<m>> BY <2>1 DEF DecimalStep
      <4>2. Decimal[m] = DecimalStep(Decimal, m) BY DecimalIsRecursive
      <4>3. <<m>> = Append(<<>>, m) OBVIOUS
      <4> QED BY ONLY <4>1, <4>2, <4>3
    <3>2. Number(<<>>, 10) = 0
      <4>1. <<>> \in Seq(Nat) /\ Len(<<>>) = 0 OBVIOUS
      <4> QED BY <4>1, NumberEmpty
    <3>3. Number(Append(<<>>, m), 10) = Number(<<>>, 10) * 10 + m
      <4>1. <<>> \in Seq(Nat) OBVIOUS
      <4> QED BY <4>1, NumberAppend
    <3>4. Number(Decimal[m], 10) = m BY <3>1, <3>2, <3>3
    <3>5. Append(<<>>, m) \in Seq(0 .. 9) /\ Len(Append(<<>>, m)) >= 1 BY <2>1
    <3> QED BY <3>1, <3>4, <3>5
  <2>2. CASE m >= 10
    <3> DEFINE q == m \div 10
               d == m % 10
               s == Decimal[q]
    <3>1. q \in Nat /\ q < m /\ d \in 0 .. 9 /\ m = q * 10 + d
      BY <2>2, TenthIsSmaller
    <3>2. Decimal[m] = Append(s, d)
      <4>1. DecimalStep(Decimal, m) = Append(s, d) BY <2>2 DEF DecimalStep
      <4>2. Decimal[m] = DecimalStep(Decimal, m) BY DecimalIsRecursive
      <4> QED BY <4>1, <4>2
    <3> HIDE DEF q, d
    <3>3. s \in Seq(0 .. 9) /\ Len(s) >= 1 /\ Number(s, 10) = q
      BY <1>1, <3>1
    <3> HIDE DEF s
    <3>4. s \in Seq(Nat) /\ d \in Nat
      BY <3>1, <3>3
    <3>5. Number(Append(s, d), 10) = Number(s, 10) * 10 + d
      BY <3>4, NumberAppend
    <3>6. Append(s, d) \in Seq(0 .. 9) /\ Len(Append(s, d)) >= 1
      BY <3>1, <3>3
    <3> QED BY <3>1, <3>2, <3>3, <3>5, <3>6
  <2> QED BY <2>1, <2>2
<1>2. \A m \in Nat : m \in Good
  <2>1. Good \subseteq Nat OBVIOUS
  <2> HIDE DEF Good
  <2> QED BY <1>1, <2>1, StrongInductionSet
<1> QED BY <1>2

-----------------------------------------------------------------------------
(* The text of a key.                                                      *)

(* The widths of the fields.                                               *)
LEMMA Widths ==
  /\ HexBase \in Nat \ {0} /\ HexBase <= 16
  /\ Radix \in Nat \ {0} /\ Radix >= 4
  /\ \A n \in Nat : MaxUnsigned(n) = Largest(Radix, n) /\ MaxUnsigned(n) \in Nat
  /\ Largest(HexBase, 16) = MaxUnsigned(8)
<1>1. HexBase \in Nat \ {0} /\ HexBase <= 16 /\ HexBase >= 2
  BY CodecAssumption
<1>2. Radix \in Nat \ {0} /\ Radix >= 4
  <2>1. HexBase * HexBase >= 4 BY <1>1
  <2>2. HexBase * HexBase \in Nat BY <1>1, NatProduct
  <2> QED BY <2>1, <2>2 DEF Radix
<1>3. ASSUME NEW n \in Nat PROVE MaxUnsigned(n) = Largest(Radix, n) /\ MaxUnsigned(n) \in Nat
  <2>1. MaxUnsigned(n) = Largest(Radix, n) BY DEF MaxUnsigned, Largest
  <2> QED BY <1>2, <2>1, LargestNext
<1>4. Largest(HexBase, 2 * 8) = Largest(HexBase * HexBase, 8)
  BY <1>1, TwoDigitsPerByte
<1>5. Largest(HexBase, 16) = Largest(Radix, 8)
  BY <1>4 DEF Radix
<1> QED BY <1>1, <1>2, <1>3, <1>5

(* A part of a sequence.                                                   *)
LEMMA Slice ==
  ASSUME NEW S, NEW s \in Seq(S), NEW m \in Nat, NEW n \in Nat,
         1 <= m, m <= n + 1, n <= Len(s)
  PROVE  /\ SubSeq(s, m, n) \in Seq(S) /\ Len(SubSeq(s, m, n)) = n + 1 - m
         /\ \A i \in 1 .. n + 1 - m : SubSeq(s, m, n)[i] = s[m + i - 1]
OBVIOUS

(* Sequences of the same length and elements are equal.                    *)
LEMMA SameSequence ==
  ASSUME NEW S, NEW s \in Seq(S), NEW t \in Seq(S), NEW n \in Nat,
         Len(s) = n, Len(t) = n, \A i \in 1 .. n : s[i] = t[i]
  PROVE  s = t
OBVIOUS

(* The number of a sequence of naturals is a natural.                      *)
LEMMA NumberType ==
  ASSUME NEW s \in Seq(Nat), NEW base \in Nat PROVE Number(s, base) \in Nat
BY NumberAppend

ColonsOf(t) == {i \in DOMAIN t : t[i] = Colon}
Second(t) == CHOOSE i \in ColonsOf(t) : i # 17
HashText(t) == SubSeq(t, 1, 16)
LenText(t) == SubSeq(t, 18, Second(t) - 1)
ModelText(t) == SubSeq(t, Second(t) + 1, Len(t))
ParsedKey(t) ==
  [prefix_hash |-> Number(HashText(t), HexBase), prefix_len |-> Number(LenText(t), 10),
   model_fingerprint |-> Number(ModelText(t), 10)]
Parses(t) ==
  /\ 17 \in ColonsOf(t) /\ \A i \in ColonsOf(t) : i >= 17
  /\ Cardinality(ColonsOf(t)) = 2
  /\ IsUnsigned(HashText(t), HexBase, 8) /\ IsUnsigned(LenText(t), 10, 4)
  /\ IsUnsigned(ModelText(t), 10, 4)
  /\ KeyToString(ParsedKey(t)) = t

(* FromString by parts: the two colons, the three numbers, and the check   *)
(* that the key has this text.                                             *)
LEMMA FromStringByParts ==
  ASSUME NEW t PROVE KeyFromString(t) = IF Parses(t) THEN ParsedKey(t) ELSE NoKey
BY DEF KeyFromString, Parses, ParsedKey, HashText, LenText, ModelText, Second, ColonsOf

(* A text that FromString accepts is the one text that ToString gives the  *)
(* key it returns, and that key has the widths of a BlockKey.              *)
THEOREM KeyTextIsCanonical ==
  ASSUME NEW t \in Seq(Nat), KeyFromString(t) # NoKey
  PROVE  KeyFromString(t) \in BlockKey /\ KeyToString(KeyFromString(t)) = t
<1>1. Parses(t) /\ KeyFromString(t) = ParsedKey(t)
  BY FromStringByParts
<1>2. 17 \in ColonsOf(t) /\ Cardinality(ColonsOf(t)) = 2
  BY <1>1 DEF Parses
<1>3. \E i \in ColonsOf(t) : i # 17
  <2> SUFFICES ASSUME \A i \in ColonsOf(t) : i = 17 PROVE FALSE
    OBVIOUS
  <2>1. ColonsOf(t) = {17} BY <1>2
  <2>2. Cardinality({17}) = 1 BY FS_Singleton
  <2> QED BY <1>2, <2>1, <2>2
<1>4. Second(t) \in ColonsOf(t) /\ Second(t) # 17
  BY <1>3 DEF Second
<1>5. Second(t) \in 18 .. Len(t) /\ Len(t) \in Nat
  <2>1. Second(t) \in 1 .. Len(t) BY <1>4 DEF ColonsOf
  <2>2. Second(t) >= 17 BY <1>1, <1>4 DEF Parses
  <2> QED BY <1>4, <2>1, <2>2
<1>6. HashText(t) \in Seq(Nat) /\ LenText(t) \in Seq(Nat) /\ ModelText(t) \in Seq(Nat)
  <2> DEFINE s == Second(t)
  <2>1. s \in 18 .. Len(t) BY <1>5
  <2> HIDE DEF s
  <2>2. SubSeq(t, 1, 16) \in Seq(Nat)
    <3>1. 1 \in Nat /\ 16 \in Nat /\ 1 <= 1 /\ 1 <= 16 + 1 /\ 16 <= Len(t) BY <1>5
    <3> QED BY ONLY <3>1, t \in Seq(Nat), Slice
  <2>3. SubSeq(t, 18, s - 1) \in Seq(Nat) BY <1>5, <2>1
  <2>4. SubSeq(t, s + 1, Len(t)) \in Seq(Nat) BY <1>5, <2>1
  <2> QED BY <2>2, <2>3, <2>4 DEF s, HashText, LenText, ModelText
<1>7. /\ Number(HashText(t), HexBase) \in Nat
      /\ Number(LenText(t), 10) \in Nat /\ Number(ModelText(t), 10) \in Nat
  BY <1>6, Widths, NumberType
<1>8. /\ Number(HashText(t), HexBase) <= MaxUnsigned(8)
      /\ Number(LenText(t), 10) <= MaxUnsigned(4) /\ Number(ModelText(t), 10) <= MaxUnsigned(4)
  BY <1>1 DEF Parses, IsUnsigned
<1>9. MaxUnsigned(8) \in Nat /\ MaxUnsigned(4) \in Nat
  BY Widths
<1>10. ParsedKey(t) \in BlockKey
  BY <1>7, <1>8, <1>9 DEF ParsedKey, BlockKey, Unsigned
<1> QED BY <1>1, <1>10 DEF Parses

(* A sequence is one of n elements followed by one of m.                   *)
Joined(S, u, a, n, b, m) ==
  /\ u \in Seq(S) /\ Len(u) = n + m
  /\ \A i \in 1 .. n : u[i] = a[i]
  /\ \A i \in 1 .. m : u[n + i] = b[i]

(* push_back and append put the second after the first.                    *)
LEMMA Join ==
  ASSUME NEW S, NEW n \in Nat, NEW m \in Nat, NEW a \in Seq(S), NEW b \in Seq(S),
         Len(a) = n, Len(b) = m
  PROVE  Joined(S, a \o b, a, n, b, m)
<1>1. a \o b \in Seq(S) /\ Len(a \o b) = n + m
  <2>1. Len(a \o b) = Len(a) + Len(b) BY ONLY a \in Seq(S), b \in Seq(S)
  <2>2. a \o b \in Seq(S) OBVIOUS
  <2> QED BY <2>1, <2>2
<1>2. ASSUME NEW i \in 1 .. n PROVE (a \o b)[i] = a[i]
  OBVIOUS
<1>3. ASSUME NEW i \in 1 .. m PROVE (a \o b)[n + i] = b[i]
  OBVIOUS
<1> QED BY <1>1, <1>2, <1>3 DEF Joined

(* A text a:b:c, the parts of 16, n and m characters.                      *)
KeyLayout(t, a, b, n, c, m) ==
  /\ t \in Seq(Nat) /\ Len(t) = 18 + n + m
  /\ \A i \in 1 .. 16 : t[i] = a[i]
  /\ t[17] = Colon
  /\ \A i \in 1 .. n : t[17 + i] = b[i]
  /\ t[18 + n] = Colon
  /\ \A i \in 1 .. m : t[18 + n + i] = c[i]

(* ToString puts colons between the three numbers.                         *)
LEMMA KeyTextLayout ==
  ASSUME NEW n \in Nat, NEW m \in Nat,
         NEW a \in Seq(Nat), NEW b \in Seq(Nat), NEW c \in Seq(Nat),
         Len(a) = 16, Len(b) = n, Len(c) = m
  PROVE  KeyLayout(a \o <<Colon>> \o b \o <<Colon>> \o c, a, b, n, c, m)
<1> DEFINE col == <<Colon>>
           p1 == a \o col
           p2 == p1 \o b
           p3 == p2 \o col
           t == p3 \o c
           n2 == 17 + n
           n3 == 18 + n
<1>0. /\ Colon \in Nat /\ col \in Seq(Nat) /\ Len(col) = 1 /\ col[1] = Colon
      /\ n2 \in Nat /\ n3 \in Nat /\ n3 = n2 + 1 /\ n2 = 17 + n
  BY DEF Colon
<1> HIDE DEF col, n2, n3
<1>1. Joined(Nat, p1, a, 16, col, 1)
  BY <1>0, Join
<1>2. p1 \in Seq(Nat) /\ Len(p1) = 17
  BY <1>1 DEF Joined
<1> HIDE DEF p1
<1>3. Joined(Nat, p2, p1, 17, b, n)
  BY <1>2, Join
<1>4. p2 \in Seq(Nat) /\ Len(p2) = n2
  BY <1>0, <1>3 DEF Joined
<1> HIDE DEF p2
<1>5. Joined(Nat, p3, p2, n2, col, 1)
  BY <1>0, <1>4, Join
<1>6. p3 \in Seq(Nat) /\ Len(p3) = n3
  BY <1>0, <1>5 DEF Joined
<1> HIDE DEF p3
<1>7. Joined(Nat, t, p3, n3, c, m)
  BY <1>0, <1>6, Join
<1> HIDE DEF t
<1>8. ASSUME NEW i \in 1 .. n2 PROVE t[i] = p2[i]
  <2>1. i \in 1 .. n3 BY <1>0
  <2>2. t[i] = p3[i] BY <1>7, <2>1 DEF Joined
  <2>3. p3[i] = p2[i] BY <1>5 DEF Joined
  <2> QED BY <2>2, <2>3
<1>9. ASSUME NEW i \in 1 .. 17 PROVE t[i] = p1[i]
  <2>1. i \in 1 .. n2 BY <1>0
  <2>2. p2[i] = p1[i] BY <1>3 DEF Joined
  <2> QED BY <1>8, <2>1, <2>2
<1>10. ASSUME NEW i \in 1 .. 16 PROVE t[i] = a[i]
  <2>1. i \in 1 .. 17 OBVIOUS
  <2>2. p1[i] = a[i] BY <1>1 DEF Joined
  <2> QED BY <1>9, <2>1, <2>2
<1>11. t[17] = Colon
  <2>1. p1[16 + 1] = col[1] BY <1>1 DEF Joined
  <2>2. 17 \in 1 .. 17 /\ 16 + 1 = 17 OBVIOUS
  <2>3. t[17] = p1[17] BY <1>9, <2>2
  <2> QED BY ONLY <1>0, <2>1, <2>2, <2>3
<1>12. ASSUME NEW i \in 1 .. n PROVE t[17 + i] = b[i]
  <2>1. 17 + i \in 1 .. n2 BY <1>0
  <2>2. p2[17 + i] = b[i] BY <1>3 DEF Joined
  <2> QED BY <1>8, <2>1, <2>2
<1>13. t[n3] = Colon
  <2>1. n3 \in 1 .. n3 /\ 1 \in 1 .. 1 BY <1>0
  <2>2. t[n3] = p3[n3] BY <1>7, <2>1 DEF Joined
  <2>3. p3[n2 + 1] = col[1] BY <1>5, <2>1 DEF Joined
  <2> QED BY <1>0, <2>2, <2>3
<1>14. ASSUME NEW i \in 1 .. m PROVE t[n3 + i] = c[i]
  BY <1>7 DEF Joined
<1>15. t \in Seq(Nat) /\ Len(t) = n3 + m
  BY <1>7 DEF Joined
<1>16. KeyLayout(t, a, b, n, c, m)
  <2>1. n3 = 18 + n BY DEF n3
  <2> QED BY <1>10, <1>11, <1>12, <1>13, <1>14, <1>15, <2>1 DEF KeyLayout
<1> QED BY <1>16 DEF t, p3, p2, p1, col

(* Digits are characters other than the colon.                             *)
LEMMA DigitText ==
  ASSUME NEW s \in Seq(0 .. 15)
  PROVE  s \in Seq(Nat) /\ \A i \in 1 .. Len(s) : s[i] # Colon
<1>1. ASSUME NEW i \in 1 .. Len(s) PROVE s[i] \in Nat /\ s[i] # Colon
  <2>1. s[i] \in 0 .. 15 OBVIOUS
  <2> QED BY ONLY <2>1 DEF Colon
<1>2. s \in [1 .. Len(s) -> Nat] /\ Len(s) \in Nat
  BY <1>1
<1> QED BY <1>1, <1>2

(* find sees the colons at their places, and substr takes the parts.       *)
LEMMA KeyTextParts ==
  ASSUME NEW n \in Nat, NEW m \in Nat,
         NEW a \in Seq(0 .. 15), NEW b \in Seq(0 .. 15), NEW c \in Seq(0 .. 15),
         Len(a) = 16, Len(b) = n, Len(c) = m,
         NEW t, KeyLayout(t, a, b, n, c, m)
  PROVE  /\ ColonsOf(t) = {17, 18 + n} /\ Second(t) = 18 + n
         /\ HashText(t) = a /\ LenText(t) = b /\ ModelText(t) = c
<1> DEFINE k == 18 + n
           len == k + m
<1>0. k \in Nat /\ k >= 18 /\ len \in Nat /\ len >= k /\ k = 18 + n
  OBVIOUS
<1>1. a \in Seq(Nat) /\ b \in Seq(Nat) /\ c \in Seq(Nat)
  BY DigitText
<1>2. /\ \A i \in 1 .. 16 : a[i] # Colon
      /\ \A i \in 1 .. n : b[i] # Colon
      /\ \A i \in 1 .. m : c[i] # Colon
  BY DigitText
<1>3. t \in Seq(Nat) /\ Len(t) = len /\ DOMAIN t = 1 .. len
  BY DEF KeyLayout
<1> HIDE DEF k, len
<1> USE DEF k
<1>4. ASSUME NEW i \in 1 .. 16 PROVE t[i] = a[i]
  BY DEF KeyLayout
<1>5. t[17] = Colon /\ t[k] = Colon
  BY DEF KeyLayout
<1>6. ASSUME NEW i \in 1 .. n PROVE t[17 + i] = b[i]
  BY DEF KeyLayout
<1>7. ASSUME NEW i \in 1 .. m PROVE t[k + i] = c[i]
  BY DEF KeyLayout
<1> HIDE DEF k
<1>8. len = k + m
  BY DEF len
<1>9. ColonsOf(t) = {17, k}
  <2>1. ASSUME NEW i \in 1 .. len, t[i] = Colon, i # 17, i # k PROVE FALSE
    <3>1. CASE i <= 16
      <4>1. i \in 1 .. 16 BY <1>0, <3>1
      <4> QED BY <1>2, <1>4, <2>1, <4>1
    <3>2. CASE i >= 18 /\ i <= 17 + n
      <4> DEFINE j == i - 17
      <4>1. j \in 1 .. n /\ 17 + j = i BY <1>0, <3>2
      <4>2. t[17 + j] = b[j] BY <1>6, <4>1
      <4> QED BY <1>2, <2>1, <4>1, <4>2
    <3>3. CASE i > k
      <4> DEFINE j == i - k
      <4>1. j \in 1 .. m /\ k + j = i BY <1>0, <1>8, <3>3
      <4>2. t[k + j] = c[j] BY <1>7, <4>1
      <4> QED BY <1>2, <2>1, <4>1, <4>2
    <3>4. i <= 16 \/ (i >= 18 /\ i <= 17 + n) \/ i > k BY <1>0, <2>1
    <3> QED BY <3>1, <3>2, <3>3, <3>4
  <2>2. 17 \in 1 .. len /\ k \in 1 .. len BY <1>0
  <2> QED BY <1>3, <1>5, <2>1, <2>2 DEF ColonsOf
<1>10. Second(t) = k
  <2>1. k # 17 BY <1>0
  <2> QED BY <1>9, <2>1 DEF Second
<1>11. HashText(t) = a
  <2> DEFINE e == 16
             j == 1
             u == SubSeq(t, j, e)
  <2>1. j \in Nat /\ e \in Nat /\ 1 <= j /\ j <= e + 1 /\ e <= Len(t) /\ e + 1 - j = 16
    BY <1>0, <1>3
  <2>2. \A i \in Int : j + i - 1 = i OBVIOUS
  <2> HIDE DEF e, j
  <2>3. u \in Seq(Nat) /\ Len(u) = e + 1 - j /\ \A i \in 1 .. e + 1 - j : u[i] = t[j + i - 1]
    BY ONLY <1>3, <2>1, Slice
  <2> HIDE DEF u
  <2>4. ASSUME NEW i \in 1 .. 16 PROVE u[i] = a[i]
    <3>1. u[i] = t[j + i - 1] /\ j + i - 1 = i BY <2>1, <2>2, <2>3
    <3> QED BY <1>4, <3>1
  <2>5. Len(u) = 16 /\ 16 \in Nat BY <2>1, <2>3
  <2>6. u = a BY <1>1, <2>3, <2>4, <2>5, SameSequence
  <2> QED BY <2>6 DEF u, e, j, HashText
<1>12. LenText(t) = b
  <2> DEFINE e == k - 1
             u == SubSeq(t, 18, e)
  <2>1. 18 \in Nat /\ e \in Nat /\ 1 <= 18 /\ 18 <= e + 1 /\ e <= Len(t) /\ e + 1 - 18 = n
    BY <1>0, <1>3
  <2> HIDE DEF e
  <2>2. u \in Seq(Nat) /\ Len(u) = e + 1 - 18 /\ \A i \in 1 .. e + 1 - 18 : u[i] = t[18 + i - 1]
    BY ONLY <1>3, <2>1, Slice
  <2> HIDE DEF u
  <2>3. ASSUME NEW i \in 1 .. n PROVE u[i] = b[i]
    <3>1. u[i] = t[18 + i - 1] /\ 18 + i - 1 = 17 + i BY <2>1, <2>2
    <3> QED BY <1>6, <3>1
  <2>4. Len(u) = n BY <2>1, <2>2
  <2>5. u = b BY <1>1, <2>2, <2>3, <2>4, SameSequence
  <2> QED BY <1>10, <2>5 DEF u, e, LenText
<1>13. ModelText(t) = c
  <2> DEFINE j == k + 1
             u == SubSeq(t, j, len)
  <2>1. j \in Nat /\ 1 <= j /\ j <= len + 1 /\ len <= Len(t) /\ len + 1 - j = m
    BY <1>0, <1>3, <1>8
  <2>2. \A i \in Int : j + i - 1 = k + i BY <1>0
  <2>a. t \in Seq(Nat) /\ len \in Nat BY <1>0, <1>3
  <2> HIDE DEF j, len
  <2>3. u \in Seq(Nat) /\ Len(u) = len + 1 - j /\ \A i \in 1 .. len + 1 - j : u[i] = t[j + i - 1]
    BY ONLY <2>a, <2>1, Slice
  <2> HIDE DEF u
  <2>4. ASSUME NEW i \in 1 .. m PROVE u[i] = c[i]
    <3>1. i \in 1 .. len + 1 - j BY <2>1
    <3>2. u[i] = t[j + i - 1] BY <2>3, <3>1
    <3>3. j + i - 1 = k + i BY <2>2
    <3> QED BY <1>7, <3>2, <3>3
  <2>5. Len(u) = m BY <2>1, <2>3
  <2>6. u = c BY <1>1, <2>3, <2>4, <2>5, SameSequence
  <2> QED BY <1>3, <1>10, <2>6 DEF u, j, ModelText
<1> QED BY <1>9, <1>10, <1>11, <1>12, <1>13 DEF k

(* A function on 1 .. n is a sequence of n elements.                       *)
LEMMA FunctionIsSequence ==
  ASSUME NEW S, NEW n \in Nat, NEW s \in [1 .. n -> S]
  PROVE  s \in Seq(S) /\ Len(s) = n
OBVIOUS

(* FromString accepts the text of every BlockKey and returns that key.     *)
THEOREM KeyTextReads ==
  ASSUME NEW k \in BlockKey
  PROVE  KeyToString(k) \in Seq(Nat) /\ KeyFromString(KeyToString(k)) = k
<1> DEFINE a == Digits(k.prefix_hash, HexBase, 16)
           b == Decimal[k.prefix_len]
           c == Decimal[k.model_fingerprint]
           n == Len(b)
           m == Len(c)
           t == KeyToString(k)
<1>1. /\ k.prefix_hash \in 0 .. MaxUnsigned(8) /\ k.prefix_len \in 0 .. MaxUnsigned(4)
      /\ k.model_fingerprint \in 0 .. MaxUnsigned(4)
      /\ k = [prefix_hash |-> k.prefix_hash, prefix_len |-> k.prefix_len,
              model_fingerprint |-> k.model_fingerprint]
  BY DEF BlockKey, Unsigned
<1>2. /\ k.prefix_hash \in Nat /\ k.prefix_len \in Nat /\ k.model_fingerprint \in Nat
      /\ k.prefix_hash <= MaxUnsigned(8) /\ k.prefix_len <= MaxUnsigned(4)
      /\ k.model_fingerprint <= MaxUnsigned(4)
  <2>1. MaxUnsigned(8) \in Nat /\ MaxUnsigned(4) \in Nat BY Widths
  <2> QED BY <1>1, <2>1
<1>3. a \in [1 .. 16 -> 0 .. HexBase - 1] /\ Number(a, HexBase) = k.prefix_hash
  <2>1. HexBase \in Nat \ {0} /\ 16 \in Nat /\ k.prefix_hash <= Largest(HexBase, 16) BY <1>2, Widths
  <2>2. a \in [1 .. 16 -> 0 .. HexBase - 1] BY <1>2, <2>1, DigitsAppend
  <2>3. Number(a, HexBase) = k.prefix_hash BY <1>2, <2>1, DigitsRead
  <2> QED BY <2>2, <2>3
<1>4. a \in Seq(0 .. 15) /\ Len(a) = 16 /\ \A i \in 1 .. 16 : a[i] < HexBase
  <2>1. HexBase \in Nat /\ HexBase <= 16 BY Widths
  <2> HIDE DEF a
  <2>2. ASSUME NEW i \in 1 .. 16 PROVE a[i] \in 0 .. 15 /\ a[i] < HexBase
    <3>1. a[i] \in 0 .. HexBase - 1 BY <1>3
    <3> QED BY <2>1, <3>1
  <2>3. a \in [1 .. 16 -> 0 .. 15] BY <1>3, <2>2
  <2>4. a \in Seq(0 .. 15) /\ Len(a) = 16
    <3> DEFINE n16 == 16
    <3>1. n16 \in Nat /\ a \in [1 .. n16 -> 0 .. 15] BY <2>3
    <3> HIDE DEF n16
    <3>2. a \in Seq(0 .. 15) /\ Len(a) = n16 BY ONLY <3>1, FunctionIsSequence
    <3> QED BY <3>2 DEF n16
  <2> QED BY <2>2, <2>4
<1>5. b \in Seq(0 .. 9) /\ n >= 1 /\ Number(b, 10) = k.prefix_len
  BY <1>2, DecimalReads
<1>6. c \in Seq(0 .. 9) /\ m >= 1 /\ Number(c, 10) = k.model_fingerprint
  BY <1>2, DecimalReads
<1>7. t = a \o <<Colon>> \o b \o <<Colon>> \o c
  BY DEF KeyToString
<1> HIDE DEF a, b, c, t
<1>8. b \in Seq(0 .. 15) /\ c \in Seq(0 .. 15) /\ n \in Nat /\ m \in Nat
  <2>1. ASSUME NEW s \in Seq(0 .. 9) PROVE s \in Seq(0 .. 15)
    <3>1. s \in [1 .. Len(s) -> 0 .. 15] /\ Len(s) \in Nat OBVIOUS
    <3> QED BY <3>1
  <2> QED BY <1>5, <1>6, <2>1
<1>9. a \in Seq(Nat) /\ b \in Seq(Nat) /\ c \in Seq(Nat)
  BY <1>4, <1>8, DigitText
<1> USE DEF n, m
<1>10. Len(b) = n /\ Len(c) = m
  OBVIOUS
<1> HIDE DEF n, m
<1>11. KeyLayout(t, a, b, n, c, m)
  <2>1. Len(a) = 16 /\ n \in Nat /\ m \in Nat BY <1>4, <1>8
  <2>2. KeyLayout(a \o <<Colon>> \o b \o <<Colon>> \o c, a, b, n, c, m)
    BY ONLY <1>9, <1>10, <2>1, KeyTextLayout
  <2> QED BY ONLY <1>7, <2>2
<1>12. /\ ColonsOf(t) = {17, 18 + n} /\ HashText(t) = a /\ LenText(t) = b /\ ModelText(t) = c
  <2>1. a \in Seq(0 .. 15) /\ Len(a) = 16 BY <1>4
  <2> QED BY ONLY <1>8, <1>10, <1>11, <2>1, KeyTextParts
<1>13. ParsedKey(t) = k
  BY <1>1, <1>3, <1>5, <1>6, <1>12 DEF ParsedKey
<1>14. Cardinality(ColonsOf(t)) = 2
  <2>1. 17 # 18 + n /\ 18 + n \in Nat BY <1>8
  <2>2. IsFiniteSet({17}) /\ Cardinality({17}) = 1 BY FS_Singleton
  <2>3. ColonsOf(t) = {17} \cup {18 + n} BY <1>12
  <2>4. 18 + n \notin {17} BY <2>1
  <2>5. Cardinality({17} \cup {18 + n}) = 1 + 1 BY <2>2, <2>4, FS_AddElement
  <2> QED BY <2>3, <2>5
<1>15. IsUnsigned(a, HexBase, 8)
  <2>1. a # <<>>
    <3> SUFFICES ASSUME a = <<>> PROVE FALSE OBVIOUS
    <3>1. Len(a) = 0 OBVIOUS
    <3> QED BY <1>4, <3>1
  <2>2. DOMAIN a = 1 .. 16 BY <1>3
  <2> QED BY <1>2, <1>3, <1>4, <2>1, <2>2 DEF IsUnsigned
<1>16. ASSUME NEW s \in Seq(0 .. 9), Len(s) >= 1, Number(s, 10) <= MaxUnsigned(4)
       PROVE  IsUnsigned(s, 10, 4)
  BY <1>16 DEF IsUnsigned
<1>17. IsUnsigned(b, 10, 4) /\ IsUnsigned(c, 10, 4)
  <2>1. Len(b) >= 1 /\ Number(b, 10) <= MaxUnsigned(4) BY <1>2, <1>5, <1>10
  <2>2. Len(c) >= 1 /\ Number(c, 10) <= MaxUnsigned(4) BY <1>2, <1>6, <1>10
  <2> QED BY <1>5, <1>6, <1>16, <2>1, <2>2
<1>18. 17 \in ColonsOf(t) /\ \A i \in ColonsOf(t) : i >= 17
  BY <1>8, <1>12
<1>19. KeyToString(ParsedKey(t)) = t
  BY <1>13 DEF t
<1>20. Parses(t)
  BY <1>12, <1>14, <1>15, <1>17, <1>18, <1>19 DEF Parses
<1>21. KeyFromString(t) = k
  BY <1>13, <1>20, FromStringByParts
<1>22. t \in Seq(Nat)
  BY <1>11 DEF KeyLayout
<1> QED BY <1>21, <1>22 DEF t

-----------------------------------------------------------------------------
(* The blob of a block.                                                    *)

(* The field of n bytes at this offset holds v.                            *)
FieldAt(blob, offset, n, v) == \A i \in 1 .. n : blob[offset + i] = Put(n, v)[i]

(* What Put16, Put32 and Put64 write are bytes.                            *)
LEMMA PutType ==
  ASSUME NEW n \in Nat, NEW v \in Nat
  PROVE  Put(n, v) \in Seq(Byte) /\ Len(Put(n, v)) = n /\ Put(n, v) \in [1 .. n -> Byte]
<1>1. Digits(v, Radix, n) \in [1 .. n -> Byte]
  BY Widths, DigitsAppend DEF Byte
<1>2. Put(n, v) \in [1 .. n -> Byte]
  <2>1. ASSUME NEW i \in 1 .. n PROVE n + 1 - i \in 1 .. n OBVIOUS
  <2>2. ASSUME NEW i \in 1 .. n PROVE Digits(v, Radix, n)[n + 1 - i] \in Byte
    BY <1>1, <2>1
  <2> QED BY <2>2 DEF Put
<1> QED BY <1>2, FunctionIsSequence

(* GetU16, GetU32 and GetU64 read the number that was put there.           *)
LEMMA GetReadsPut ==
  ASSUME NEW n \in Nat, NEW offset \in Nat, NEW v \in Unsigned(n), NEW blob,
         FieldAt(blob, offset, n, v)
  PROVE  Get(blob, offset, n) = v
<1> DEFINE d == Digits(v, Radix, n)
           r == [i \in 1 .. n |-> blob[offset + n + 1 - i]]
<1>1. v \in Nat /\ v <= Largest(Radix, n) /\ Radix \in Nat \ {0}
  BY Widths DEF Unsigned
<1>2. d \in [1 .. n -> 0 .. Radix - 1] /\ Number(d, Radix) = v
  BY <1>1, DigitsAppend, DigitsRead
<1>3. ASSUME NEW i \in 1 .. n PROVE blob[offset + n + 1 - i] = d[i]
  <2> DEFINE j == n + 1 - i
  <2>1. j \in 1 .. n /\ n + 1 - j = i /\ offset + j = offset + n + 1 - i OBVIOUS
  <2>2. blob[offset + j] = Put(n, v)[j] BY <2>1 DEF FieldAt
  <2>3. Put(n, v)[j] = d[n + 1 - j] BY <2>1 DEF Put
  <2> QED BY <2>1, <2>2, <2>3
<1>4. r = d
  <2>1. ASSUME NEW i \in 1 .. n PROVE r[i] = d[i] BY <1>3
  <2>2. d = [i \in 1 .. n |-> d[i]] BY <1>2
  <2> HIDE DEF d
  <2> QED BY <2>1, <2>2
<1>5. Get(blob, offset, n) = Number(r, Radix)
  BY DEF Get
<1> QED BY <1>2, <1>4, <1>5

(* They read a number of their width, whose bytes are those read.          *)
LEMMA GetIsPut ==
  ASSUME NEW n \in Nat, NEW offset \in Nat, NEW blob \in Seq(Byte), offset + n <= Len(blob)
  PROVE  Get(blob, offset, n) \in Unsigned(n) /\ FieldAt(blob, offset, n, Get(blob, offset, n))
<1> DEFINE r == [i \in 1 .. n |-> blob[offset + n + 1 - i]]
           v == Get(blob, offset, n)
<1>1. r \in [1 .. n -> 0 .. Radix - 1]
  <2>1. ASSUME NEW i \in 1 .. n PROVE blob[offset + n + 1 - i] \in 0 .. Radix - 1
    <3>1. offset + n + 1 - i \in 1 .. Len(blob) OBVIOUS
    <3>2. blob[offset + n + 1 - i] \in Byte BY <3>1
    <3> QED BY <3>2 DEF Byte
  <2> QED BY <2>1
<1>2. v = Number(r, Radix)
  BY DEF Get
<1> HIDE DEF r, v
<1>3. v \in Nat /\ v <= Largest(Radix, n) /\ Digits(v, Radix, n) = r
  BY <1>1, <1>2, Widths, NumberWrites
<1>4. v \in Unsigned(n)
  BY <1>3, Widths DEF Unsigned
<1>5. ASSUME NEW i \in 1 .. n PROVE blob[offset + i] = Put(n, v)[i]
  <2> DEFINE j == n + 1 - i
  <2>1. j \in 1 .. n /\ offset + n + 1 - j = offset + i OBVIOUS
  <2>2. Put(n, v)[i] = Digits(v, Radix, n)[j] BY DEF Put
  <2>3. r[j] = blob[offset + n + 1 - j] BY <2>1 DEF r
  <2> QED BY <1>3, <2>1, <2>2, <2>3
<1> QED BY <1>4, <1>5 DEF FieldAt, v

(* A blob begins with the n elements of q.                                 *)
StartsWith(blob, q, n) == \A i \in 1 .. n : blob[i] = q[i]
HoldsAt(blob, offset, q, n) == \A i \in 1 .. n : blob[offset + i] = q[i]

(* What a blob that begins with two parts has where.                       *)
LEMMA PartOfBlob ==
  ASSUME NEW S, NEW n \in Nat, NEW m \in Nat, NEW k \in Nat, k = n + m, NEW u, NEW a, NEW b, NEW blob,
         Joined(S, u, a, n, b, m), StartsWith(blob, u, k)
  PROVE  StartsWith(blob, a, n) /\ HoldsAt(blob, n, b, m)
<1>1. ASSUME NEW i \in 1 .. n PROVE blob[i] = a[i]
  <2>1. i \in 1 .. k OBVIOUS
  <2>2. u[i] = a[i] BY DEF Joined
  <2> QED BY <2>1, <2>2 DEF StartsWith
<1>2. ASSUME NEW i \in 1 .. m PROVE blob[n + i] = b[i]
  <2>1. n + i \in 1 .. k OBVIOUS
  <2>2. u[n + i] = b[i] BY DEF Joined
  <2> QED BY <2>1, <2>2 DEF StartsWith
<1> QED BY <1>1, <1>2 DEF StartsWith, HoldsAt

(* The offsets of block_codec.h.                                           *)
HeaderLayout(blob, m, len) ==
  /\ blob[1] = kMagic[1] /\ blob[2] = kMagic[2] /\ blob[3] = kVersion /\ blob[4] = kSerdeRaw
  /\ FieldAt(blob, 4, 4, m.num_tokens) /\ FieldAt(blob, 8, 4, m.num_layers)
  /\ FieldAt(blob, 12, 2, m.dtype_size) /\ FieldAt(blob, 14, 2, m.kv_heads)
  /\ FieldAt(blob, 16, 8, m.created_unix_ns) /\ FieldAt(blob, 24, 4, m.model_fingerprint)
  /\ FieldAt(blob, 28, 8, len)

BlobLayout(blob, b) ==
  /\ blob \in Seq(Byte) /\ Len(blob) = 36 + Len(b.data)
  /\ HeaderLayout(blob, b.metadata, Len(b.data))
  /\ \A i \in 1 .. Len(b.data) : blob[36 + i] = b.data[i]

(* SerializeBlock writes each field at its offset.                         *)
LEMMA SerializeLayout ==
  ASSUME NEW b \in Block
  PROVE  BlobLayout(SerializeBlock(b), b)
<1> DEFINE m == b.metadata
           n == Len(b.data)
           f2 == <<kVersion, kSerdeRaw>>
           f3 == Put(4, m.num_tokens)
           f4 == Put(4, m.num_layers)
           f5 == Put(2, m.dtype_size)
           f6 == Put(2, m.kv_heads)
           f7 == Put(8, m.created_unix_ns)
           f8 == Put(4, m.model_fingerprint)
           f9 == Put(8, n)
           q1 == kMagic
           q2 == q1 \o f2
           q3 == q2 \o f3
           q4 == q3 \o f4
           q5 == q4 \o f5
           q6 == q5 \o f6
           q7 == q6 \o f7
           q8 == q7 \o f8
           q9 == q8 \o f9
           blob == q9 \o b.data
<1>1. b.data \in Seq(Byte) /\ n \in Nat /\ m \in BlockMetadata
  BY DEF Block
<1>2. ASSUME NEW w \in Nat PROVE Unsigned(w) \subseteq Nat
  BY Widths DEF Unsigned
<1>3. /\ m.num_tokens \in Nat /\ m.num_layers \in Nat /\ m.dtype_size \in Nat
      /\ m.kv_heads \in Nat /\ m.created_unix_ns \in Nat /\ m.model_fingerprint \in Nat
  BY <1>1, <1>2 DEF BlockMetadata
<1> HIDE DEF m, n
<1>4. /\ f3 \in Seq(Byte) /\ Len(f3) = 4 /\ f4 \in Seq(Byte) /\ Len(f4) = 4
      /\ f5 \in Seq(Byte) /\ Len(f5) = 2 /\ f6 \in Seq(Byte) /\ Len(f6) = 2
  BY <1>3, PutType
<1>5. /\ f7 \in Seq(Byte) /\ Len(f7) = 8 /\ f8 \in Seq(Byte) /\ Len(f8) = 4
      /\ f9 \in Seq(Byte) /\ Len(f9) = 8
  BY <1>1, <1>3, PutType
<1>6. /\ q1 \in Seq(Byte) /\ Len(q1) = 2 /\ f2 \in Seq(Byte) /\ Len(f2) = 2
      /\ f2[1] = kVersion /\ f2[2] = kSerdeRaw
  <2>1. 0 \in Byte /\ 1 \in Byte /\ 2 \in Byte BY Widths DEF Byte
  <2> QED BY <2>1 DEF kMagic, kVersion, kSerdeRaw
<1>7. SerializeBlock(b) = blob
  BY DEF SerializeBlock, m, n
<1> HIDE DEF f2, f3, f4, f5, f6, f7, f8, f9, q1
<1>q2. Joined(Byte, q2, q1, 2, f2, 2) BY <1>6, Join
<1>l2. q2 \in Seq(Byte) /\ Len(q2) = 4 BY <1>q2 DEF Joined
<1> HIDE DEF q2
<1>q3. Joined(Byte, q3, q2, 4, f3, 4) BY <1>4, <1>l2, Join
<1>l3. q3 \in Seq(Byte) /\ Len(q3) = 8 BY <1>q3 DEF Joined
<1> HIDE DEF q3
<1>q4. Joined(Byte, q4, q3, 8, f4, 4) BY <1>4, <1>l3, Join
<1>l4. q4 \in Seq(Byte) /\ Len(q4) = 12 BY <1>q4 DEF Joined
<1> HIDE DEF q4
<1>q5. Joined(Byte, q5, q4, 12, f5, 2) BY <1>4, <1>l4, Join
<1>l5. q5 \in Seq(Byte) /\ Len(q5) = 14 BY <1>q5 DEF Joined
<1> HIDE DEF q5
<1>q6. Joined(Byte, q6, q5, 14, f6, 2) BY <1>4, <1>l5, Join
<1>l6. q6 \in Seq(Byte) /\ Len(q6) = 16 BY <1>q6 DEF Joined
<1> HIDE DEF q6
<1>q7. Joined(Byte, q7, q6, 16, f7, 8) BY <1>5, <1>l6, Join
<1>l7. q7 \in Seq(Byte) /\ Len(q7) = 24 BY <1>q7 DEF Joined
<1> HIDE DEF q7
<1>q8. Joined(Byte, q8, q7, 24, f8, 4) BY <1>5, <1>l7, Join
<1>l8. q8 \in Seq(Byte) /\ Len(q8) = 28 BY <1>q8 DEF Joined
<1> HIDE DEF q8
<1>q9. Joined(Byte, q9, q8, 28, f9, 8) BY <1>5, <1>l8, Join
<1>l9. q9 \in Seq(Byte) /\ Len(q9) = 36 BY <1>q9 DEF Joined
<1> HIDE DEF q9
<1>qa. Joined(Byte, blob, q9, 36, b.data, n)
  <2>1. Len(b.data) = n BY DEF n
  <2> QED BY <1>1, <1>l9, <2>1, Join
<1>la. blob \in Seq(Byte) /\ Len(blob) = 36 + n /\ StartsWith(blob, q9, 36)
       /\ \A i \in 1 .. n : blob[36 + i] = b.data[i]
  BY <1>qa DEF Joined, StartsWith
<1> HIDE DEF blob
<1>s9. StartsWith(blob, q8, 28) /\ HoldsAt(blob, 28, f9, 8)
  <2>1. 28 \in Nat /\ 8 \in Nat /\ 36 \in Nat /\ 36 = 28 + 8 OBVIOUS
  <2>2. StartsWith(blob, q9, 36) BY ONLY <1>la, Zenon
  <2> QED BY ONLY <1>q9, <2>1, <2>2, PartOfBlob
<1>s8. StartsWith(blob, q7, 24) /\ HoldsAt(blob, 24, f8, 4)
  <2>1. 24 \in Nat /\ 4 \in Nat /\ 28 \in Nat /\ 28 = 24 + 4 OBVIOUS
  <2> QED BY ONLY <1>q8, <1>s9, <2>1, PartOfBlob
<1>s7. StartsWith(blob, q6, 16) /\ HoldsAt(blob, 16, f7, 8)
  <2>1. 16 \in Nat /\ 8 \in Nat /\ 24 \in Nat /\ 24 = 16 + 8 OBVIOUS
  <2> QED BY ONLY <1>q7, <1>s8, <2>1, PartOfBlob
<1>s6. StartsWith(blob, q5, 14) /\ HoldsAt(blob, 14, f6, 2)
  <2>1. 14 \in Nat /\ 2 \in Nat /\ 16 \in Nat /\ 16 = 14 + 2 OBVIOUS
  <2> QED BY ONLY <1>q6, <1>s7, <2>1, PartOfBlob
<1>s5. StartsWith(blob, q4, 12) /\ HoldsAt(blob, 12, f5, 2)
  <2>1. 12 \in Nat /\ 2 \in Nat /\ 14 \in Nat /\ 14 = 12 + 2 OBVIOUS
  <2> QED BY ONLY <1>q5, <1>s6, <2>1, PartOfBlob
<1>s4. StartsWith(blob, q3, 8) /\ HoldsAt(blob, 8, f4, 4)
  <2>1. 8 \in Nat /\ 4 \in Nat /\ 12 \in Nat /\ 12 = 8 + 4 OBVIOUS
  <2> QED BY ONLY <1>q4, <1>s5, <2>1, PartOfBlob
<1>s3. StartsWith(blob, q2, 4) /\ HoldsAt(blob, 4, f3, 4)
  <2>1. 4 \in Nat /\ 4 \in Nat /\ 8 \in Nat /\ 8 = 4 + 4 OBVIOUS
  <2> QED BY ONLY <1>q3, <1>s4, <2>1, PartOfBlob
<1>s2. StartsWith(blob, q1, 2) /\ HoldsAt(blob, 2, f2, 2)
  <2>1. 2 \in Nat /\ 2 \in Nat /\ 4 \in Nat /\ 4 = 2 + 2 OBVIOUS
  <2> QED BY ONLY <1>q2, <1>s3, <2>1, PartOfBlob
<1>8. blob[1] = kMagic[1] /\ blob[2] = kMagic[2] /\ blob[3] = kVersion /\ blob[4] = kSerdeRaw
  <2>1. blob[1] = q1[1] /\ blob[2] = q1[2] BY <1>s2 DEF StartsWith
  <2>2. blob[2 + 1] = f2[1] /\ blob[2 + 2] = f2[2] BY <1>s2 DEF HoldsAt
  <2> QED BY <1>6, <2>1, <2>2 DEF q1
<1>9. /\ FieldAt(blob, 4, 4, m.num_tokens) /\ FieldAt(blob, 8, 4, m.num_layers)
      /\ FieldAt(blob, 12, 2, m.dtype_size) /\ FieldAt(blob, 14, 2, m.kv_heads)
  BY <1>s3, <1>s4, <1>s5, <1>s6 DEF FieldAt, HoldsAt, f3, f4, f5, f6
<1>10. /\ FieldAt(blob, 16, 8, m.created_unix_ns) /\ FieldAt(blob, 24, 4, m.model_fingerprint)
       /\ FieldAt(blob, 28, 8, n)
  BY <1>s7, <1>s8, <1>s9 DEF FieldAt, HoldsAt, f7, f8, f9
<1>11. HeaderLayout(blob, m, n)
  BY <1>8, <1>9, <1>10 DEF HeaderLayout
<1>12. BlobLayout(blob, b)
  BY <1>la, <1>11 DEF BlobLayout, m, n
<1> QED BY <1>7, <1>12

(* The layout leaves no byte open.                                         *)
LEMMA LayoutIsUnique ==
  ASSUME NEW b \in Block, NEW x, NEW y, BlobLayout(x, b), BlobLayout(y, b)
  PROVE  x = y
<1> DEFINE n == Len(b.data)
           k == 36 + n
<1>1. n \in Nat /\ k \in Nat
  BY DEF Block
<1>2. x \in Seq(Byte) /\ y \in Seq(Byte) /\ Len(x) = k /\ Len(y) = k
  BY DEF BlobLayout
<1>3. HeaderLayout(x, b.metadata, n) /\ HeaderLayout(y, b.metadata, n)
  BY DEF BlobLayout
<1>4. ASSUME NEW i \in 1 .. 4 PROVE x[i] = y[i]
  <2>1. i = 1 \/ i = 2 \/ i = 3 \/ i = 4 OBVIOUS
  <2> QED BY ONLY <1>3, <2>1 DEF HeaderLayout
<1>5. ASSUME NEW o \in Nat, NEW w \in Nat, NEW v, FieldAt(x, o, w, v), FieldAt(y, o, w, v),
             NEW i \in Nat, o < i, i <= o + w
      PROVE  x[i] = y[i]
  <2> DEFINE j == i - o
  <2>1. j \in 1 .. w /\ o + j = i BY <1>5
  <2>2. x[o + j] = Put(w, v)[j] /\ y[o + j] = Put(w, v)[j] BY <1>5, <2>1 DEF FieldAt
  <2> QED BY <2>1, <2>2
<1>6. ASSUME NEW i \in 5 .. 36 PROVE x[i] = y[i]
  <2> DEFINE m == b.metadata
  <2>0. i \in Nat OBVIOUS
  <2>1. CASE 4 < i /\ i <= 4 + 4
    <3>1. FieldAt(x, 4, 4, m.num_tokens) /\ FieldAt(y, 4, 4, m.num_tokens) BY <1>3 DEF HeaderLayout
    <3> QED BY <1>5, <2>0, <2>1, <3>1
  <2>2. CASE 8 < i /\ i <= 8 + 4
    <3>1. FieldAt(x, 8, 4, m.num_layers) /\ FieldAt(y, 8, 4, m.num_layers) BY <1>3 DEF HeaderLayout
    <3> QED BY <1>5, <2>0, <2>2, <3>1
  <2>3. CASE 12 < i /\ i <= 12 + 2
    <3>1. FieldAt(x, 12, 2, m.dtype_size) /\ FieldAt(y, 12, 2, m.dtype_size) BY <1>3 DEF HeaderLayout
    <3> QED BY <1>5, <2>0, <2>3, <3>1
  <2>4. CASE 14 < i /\ i <= 14 + 2
    <3>1. FieldAt(x, 14, 2, m.kv_heads) /\ FieldAt(y, 14, 2, m.kv_heads) BY <1>3 DEF HeaderLayout
    <3> QED BY <1>5, <2>0, <2>4, <3>1
  <2>5. CASE 16 < i /\ i <= 16 + 8
    <3>1. FieldAt(x, 16, 8, m.created_unix_ns) /\ FieldAt(y, 16, 8, m.created_unix_ns) BY <1>3 DEF HeaderLayout
    <3> QED BY <1>5, <2>0, <2>5, <3>1
  <2>6. CASE 24 < i /\ i <= 24 + 4
    <3>1. FieldAt(x, 24, 4, m.model_fingerprint) /\ FieldAt(y, 24, 4, m.model_fingerprint)
      BY <1>3 DEF HeaderLayout
    <3> QED BY <1>5, <2>0, <2>6, <3>1
  <2>7. CASE 28 < i /\ i <= 28 + 8
    <3>1. FieldAt(x, 28, 8, n) /\ FieldAt(y, 28, 8, n) BY <1>3 DEF HeaderLayout
    <3> QED BY <1>5, <2>0, <2>7, <3>1
  <2> QED BY <2>1, <2>2, <2>3, <2>4, <2>5, <2>6, <2>7
<1>7. ASSUME NEW i \in 37 .. k PROVE x[i] = y[i]
  <2> DEFINE j == i - 36
  <2>1. j \in 1 .. n /\ 36 + j = i BY <1>1
  <2>2. x[36 + j] = b.data[j] /\ y[36 + j] = b.data[j] BY <2>1 DEF BlobLayout
  <2> QED BY <2>1, <2>2
<1>8. ASSUME NEW i \in 1 .. k PROVE x[i] = y[i]
  <2>1. i \in 1 .. 4 \/ i \in 5 .. 36 \/ i \in 37 .. k BY <1>1
  <2> QED BY <1>4, <1>6, <1>7, <2>1
<1> HIDE DEF k
<1> QED BY <1>1, <1>2, <1>8, SameSequence

(* The payload after the header.                                           *)
LEMMA PayloadIsTail ==
  ASSUME NEW blob \in Seq(Byte), Len(blob) >= 36
  PROVE  /\ SubSeq(blob, 37, Len(blob)) \in Seq(Byte)
         /\ Len(SubSeq(blob, 37, Len(blob))) = Len(blob) - 36
         /\ \A i \in 1 .. Len(blob) - 36 : SubSeq(blob, 37, Len(blob))[i] = blob[36 + i]
<1> DEFINE len == Len(blob)
           j == 37
           u == SubSeq(blob, j, len)
<1>1. len \in Nat /\ j \in Nat /\ 1 <= j /\ j <= len + 1 /\ len <= Len(blob) /\ len + 1 - j = len - 36
  OBVIOUS
<1>2. \A i \in Int : j + i - 1 = 36 + i
  OBVIOUS
<1> HIDE DEF len, j
<1>3. u \in Seq(Byte) /\ Len(u) = len + 1 - j /\ \A i \in 1 .. len + 1 - j : u[i] = blob[j + i - 1]
  BY ONLY <1>1, blob \in Seq(Byte), Slice
<1> HIDE DEF u
<1>4. ASSUME NEW i \in 1 .. len - 36 PROVE u[i] = blob[36 + i]
  <2>1. i \in 1 .. len + 1 - j BY <1>1
  <2>2. u[i] = blob[j + i - 1] BY <1>3, <2>1
  <2>3. j + i - 1 = 36 + i BY <1>2
  <2> QED BY <2>2, <2>3
<1>5. Len(u) = len - 36 BY <1>1, <1>3
<1> QED BY <1>3, <1>4, <1>5 DEF u, j, len

(* SubSeq(blob, 1, 2) is the magic exactly if its two bytes are.           *)
LEMMA MagicBytes ==
  ASSUME NEW blob \in Seq(Byte), Len(blob) >= 36
  PROVE  SubSeq(blob, 1, 2) = kMagic <=> blob[1] = kMagic[1] /\ blob[2] = kMagic[2]
<1> DEFINE j == 1
           e == 2
           u == SubSeq(blob, j, e)
<1>1. j \in Nat /\ e \in Nat /\ 1 <= j /\ j <= e + 1 /\ e <= Len(blob) /\ e + 1 - j = 2
      /\ 1 \in 1 .. e + 1 - j /\ 2 \in 1 .. e + 1 - j /\ j + 1 - 1 = 1 /\ j + 2 - 1 = 2
  OBVIOUS
<1> HIDE DEF j, e
<1>2. u \in Seq(Byte) /\ Len(u) = e + 1 - j /\ \A i \in 1 .. e + 1 - j : u[i] = blob[j + i - 1]
  BY ONLY <1>1, blob \in Seq(Byte), Slice
<1>3. u[1] = blob[j + 1 - 1] /\ u[2] = blob[j + 2 - 1] BY <1>1, <1>2
<1>4. u[1] = blob[1] /\ u[2] = blob[2] /\ Len(u) = 2 BY <1>1, <1>2, <1>3
<1> HIDE DEF u
<1>5. kMagic \in Seq(Byte) /\ Len(kMagic) = 2
  <2>1. 1 \in Byte /\ 2 \in Byte BY Widths DEF Byte
  <2> QED BY <2>1 DEF kMagic
<1>6. ASSUME u[1] = kMagic[1], u[2] = kMagic[2] PROVE u = kMagic
  <2>1. ASSUME NEW i \in 1 .. 2 PROVE u[i] = kMagic[i]
    <3>1. i = 1 \/ i = 2 OBVIOUS
    <3> QED BY <1>6, <3>1
  <2> QED BY <1>2, <1>4, <1>5, <2>1, SameSequence
<1>7. SubSeq(blob, 1, 2) = u
  BY DEF u, j, e
<1> QED BY <1>4, <1>6, <1>7

(* DeserializeHeader accepts the blob of every block whose payload length  *)
(* is a uint64_t, and gives back every field and the payload.              *)
THEOREM BlobReads ==
  ASSUME NEW b \in Block, Len(b.data) <= MaxUnsigned(8)
  PROVE  /\ SerializeBlock(b) \in Seq(Byte) /\ Len(SerializeBlock(b)) = kHeaderSize + Len(b.data)
         /\ Deserialize(SerializeBlock(b)) = b
<1> DEFINE x == SerializeBlock(b)
           m == b.metadata
           n == Len(b.data)
<1>1. BlobLayout(x, b)
  BY SerializeLayout
<1>2. b.data \in Seq(Byte) /\ n \in Nat /\ m \in BlockMetadata /\ b = [metadata |-> m, data |-> b.data]
  BY DEF Block
<1> HIDE DEF x
<1>3. x \in Seq(Byte) /\ Len(x) = 36 + n /\ HeaderLayout(x, m, n)
      /\ \A i \in 1 .. n : x[36 + i] = b.data[i]
  BY <1>1 DEF BlobLayout
<1>4. Len(x) >= 36 /\ Len(x) - 36 = n
  BY <1>2, <1>3
<1>5. n \in Unsigned(8)
  BY <1>2, Widths DEF Unsigned
<1>6. /\ m.num_tokens \in Unsigned(4) /\ m.num_layers \in Unsigned(4) /\ m.dtype_size \in Unsigned(2)
      /\ m.kv_heads \in Unsigned(2) /\ m.created_unix_ns \in Unsigned(8)
      /\ m.model_fingerprint \in Unsigned(4)
  BY <1>2 DEF BlockMetadata
<1>m. m = [num_tokens |-> m.num_tokens, num_layers |-> m.num_layers, dtype_size |-> m.dtype_size,
              kv_heads |-> m.kv_heads, created_unix_ns |-> m.created_unix_ns,
              model_fingerprint |-> m.model_fingerprint]
  BY <1>2 DEF BlockMetadata
<1> HIDE DEF m, n
<1>7. /\ FieldAt(x, 4, 4, m.num_tokens) /\ FieldAt(x, 8, 4, m.num_layers)
      /\ FieldAt(x, 12, 2, m.dtype_size) /\ FieldAt(x, 14, 2, m.kv_heads)
      /\ FieldAt(x, 16, 8, m.created_unix_ns) /\ FieldAt(x, 24, 4, m.model_fingerprint)
      /\ FieldAt(x, 28, 8, n)
  BY <1>3 DEF HeaderLayout
<1>f. ASSUME NEW o \in Nat, NEW w \in Nat, NEW v \in Unsigned(w), FieldAt(x, o, w, v)
      PROVE  Get(x, o, w) = v
  BY <1>f, GetReadsPut
<1>8. /\ Get(x, 4, 4) = m.num_tokens /\ Get(x, 8, 4) = m.num_layers
      /\ Get(x, 12, 2) = m.dtype_size /\ Get(x, 14, 2) = m.kv_heads
  <2>0. 2 \in Nat /\ 4 \in Nat /\ 8 \in Nat /\ 12 \in Nat /\ 14 \in Nat /\ 16 \in Nat /\ 24 \in Nat /\ 28 \in Nat OBVIOUS
  <2>1. Get(x, 4, 4) = m.num_tokens BY ONLY <1>f, <1>6, <1>7, <2>0
  <2>2. Get(x, 8, 4) = m.num_layers BY ONLY <1>f, <1>6, <1>7, <2>0
  <2>3. Get(x, 12, 2) = m.dtype_size BY ONLY <1>f, <1>6, <1>7, <2>0
  <2>4. Get(x, 14, 2) = m.kv_heads BY ONLY <1>f, <1>6, <1>7, <2>0
  <2> QED BY <2>1, <2>2, <2>3, <2>4
<1>9. /\ Get(x, 16, 8) = m.created_unix_ns /\ Get(x, 24, 4) = m.model_fingerprint
      /\ Get(x, 28, 8) = n
  <2>0. 2 \in Nat /\ 4 \in Nat /\ 8 \in Nat /\ 12 \in Nat /\ 14 \in Nat /\ 16 \in Nat /\ 24 \in Nat /\ 28 \in Nat OBVIOUS
  <2>1. Get(x, 16, 8) = m.created_unix_ns BY ONLY <1>f, <1>6, <1>7, <2>0
  <2>2. Get(x, 24, 4) = m.model_fingerprint BY ONLY <1>f, <1>6, <1>7, <2>0
  <2>3. Get(x, 28, 8) = n BY ONLY <1>f, <1>5, <1>7, <2>0
  <2> QED BY <2>1, <2>2, <2>3
<1>10. SubSeq(x, 37, Len(x)) = b.data
  <2> DEFINE u == SubSeq(x, 37, Len(x))
  <2>1. u \in Seq(Byte) /\ Len(u) = n /\ \A i \in 1 .. n : u[i] = x[36 + i]
    <3>1. u \in Seq(Byte) /\ Len(u) = Len(x) - 36 /\ \A i \in 1 .. Len(x) - 36 : u[i] = x[36 + i]
      BY <1>3, <1>4, PayloadIsTail
    <3> HIDE DEF u
    <3> QED BY <1>4, <3>1
  <2> HIDE DEF u
  <2>2. ASSUME NEW i \in 1 .. n PROVE u[i] = b.data[i]
    BY <1>3, <2>1
  <2>3. Len(b.data) = n BY DEF n
  <2>4. u = b.data BY <1>2, <2>1, <2>2, <2>3, SameSequence
  <2> QED BY <2>4 DEF u
<1>11. IsBlob(x)
  <2>1. SubSeq(x, 1, 2) = kMagic /\ x[3] = kVersion /\ x[4] = kSerdeRaw
    BY <1>3, <1>4, MagicBytes DEF HeaderLayout
  <2> QED BY <1>4, <1>9, <2>1 DEF IsBlob, kHeaderSize
<1>12. Deserialize(x) = b
  <2>1. Deserialize(x) =
          [metadata |-> [num_tokens |-> Get(x, 4, 4), num_layers |-> Get(x, 8, 4),
                         dtype_size |-> Get(x, 12, 2), kv_heads |-> Get(x, 14, 2),
                         created_unix_ns |-> Get(x, 16, 8), model_fingerprint |-> Get(x, 24, 4)],
           data |-> SubSeq(x, 37, Len(x))]
    <3>1. kHeaderSize + 1 = 37 BY DEF kHeaderSize
    <3> QED BY <1>11, <3>1 DEF Deserialize
  <2>2. [num_tokens |-> Get(x, 4, 4), num_layers |-> Get(x, 8, 4),
         dtype_size |-> Get(x, 12, 2), kv_heads |-> Get(x, 14, 2),
         created_unix_ns |-> Get(x, 16, 8), model_fingerprint |-> Get(x, 24, 4)] = m
    BY ONLY <1>m, <1>8, <1>9
  <2> QED BY ONLY <1>2, <1>10, <2>1, <2>2
<1> QED BY <1>3, <1>12 DEF x, n, kHeaderSize

(* A blob that DeserializeHeader accepts is the one blob that              *)
(* SerializeBlock makes of the block it returns: it ignores no byte.       *)
THEOREM BlobIsCanonical ==
  ASSUME NEW x \in Seq(Byte), Deserialize(x) # NoBlock
  PROVE  /\ Deserialize(x) \in Block /\ SerializeBlock(Deserialize(x)) = x
         /\ Len(x) = kHeaderSize + Len(Deserialize(x).data)
<1> DEFINE b == Deserialize(x)
           m == [num_tokens |-> Get(x, 4, 4), num_layers |-> Get(x, 8, 4),
                 dtype_size |-> Get(x, 12, 2), kv_heads |-> Get(x, 14, 2),
                 created_unix_ns |-> Get(x, 16, 8), model_fingerprint |-> Get(x, 24, 4)]
           u == SubSeq(x, 37, Len(x))
<1>1. IsBlob(x)
  BY DEF Deserialize
<1>2. b = [metadata |-> m, data |-> u]
  <2>1. kHeaderSize + 1 = 37 BY DEF kHeaderSize
  <2> QED BY <1>1, <2>1 DEF Deserialize
<1>3. /\ Len(x) >= 36 /\ SubSeq(x, 1, 2) = kMagic /\ x[3] = kVersion /\ x[4] = kSerdeRaw
      /\ Get(x, 28, 8) = Len(x) - 36 /\ Len(x) \in Nat
  BY <1>1 DEF IsBlob, kHeaderSize
<1>4. /\ Get(x, 4, 4) \in Unsigned(4) /\ FieldAt(x, 4, 4, Get(x, 4, 4))
      /\ Get(x, 8, 4) \in Unsigned(4) /\ FieldAt(x, 8, 4, Get(x, 8, 4))
      /\ Get(x, 12, 2) \in Unsigned(2) /\ FieldAt(x, 12, 2, Get(x, 12, 2))
      /\ Get(x, 14, 2) \in Unsigned(2) /\ FieldAt(x, 14, 2, Get(x, 14, 2))
  BY <1>3, GetIsPut
<1>5. /\ Get(x, 16, 8) \in Unsigned(8) /\ FieldAt(x, 16, 8, Get(x, 16, 8))
      /\ Get(x, 24, 4) \in Unsigned(4) /\ FieldAt(x, 24, 4, Get(x, 24, 4))
      /\ Get(x, 28, 8) \in Unsigned(8) /\ FieldAt(x, 28, 8, Get(x, 28, 8))
  BY <1>3, GetIsPut
<1>6. u \in Seq(Byte) /\ Len(u) = Len(x) - 36 /\ \A i \in 1 .. Len(x) - 36 : u[i] = x[36 + i]
  BY <1>3, PayloadIsTail
<1>7. m \in BlockMetadata
  BY <1>4, <1>5 DEF BlockMetadata
<1>8. /\ m.num_tokens = Get(x, 4, 4) /\ m.num_layers = Get(x, 8, 4)
      /\ m.dtype_size = Get(x, 12, 2) /\ m.kv_heads = Get(x, 14, 2)
      /\ m.created_unix_ns = Get(x, 16, 8) /\ m.model_fingerprint = Get(x, 24, 4)
  OBVIOUS
<1> HIDE DEF u, m, b
<1>9. b \in Block /\ b.metadata = m /\ b.data = u
  BY <1>2, <1>6, <1>7 DEF Block
<1>10. x[1] = kMagic[1] /\ x[2] = kMagic[2]
  BY <1>3, MagicBytes
<1>11. HeaderLayout(x, m, Len(u))
  BY <1>3, <1>4, <1>5, <1>6, <1>8, <1>10 DEF HeaderLayout
<1>12. BlobLayout(x, b)
  <2>1. Len(x) = 36 + Len(u) BY <1>3, <1>6
  <2>2. \A i \in 1 .. Len(u) : x[36 + i] = u[i] BY <1>3, <1>6
  <2> QED BY <1>9, <1>11, <2>1, <2>2 DEF BlobLayout
<1>13. BlobLayout(SerializeBlock(b), b)
  BY <1>9, SerializeLayout
<1>14. SerializeBlock(b) = x
  BY <1>9, <1>12, <1>13, LayoutIsUnique
<1>15. Len(x) = kHeaderSize + Len(b.data)
  BY <1>3, <1>6, <1>9 DEF kHeaderSize
<1> QED BY <1>9, <1>14, <1>15 DEF b

-----------------------------------------------------------------------------
(* The records of a database.                                              *)

(* One cell for every byte of every blob.                                  *)
TextCells(d) == UNION {{t} \X (1 .. Len(d[t])) : t \in DOMAIN d}

Without(d, t) == [u \in DOMAIN d \ {t} |-> d[u]]
With(d, t, blob) == [u \in DOMAIN d \cup {t} |-> IF u = t THEN blob ELSE d[u]]

(* The cells of a database, without UNION.                                 *)
LEMMA TextCellsMember ==
  ASSUME NEW d, NEW e
  PROVE  e \in TextCells(d) <=> /\ e = <<e[1], e[2]>> /\ e[1] \in DOMAIN d
                                /\ e[2] \in 1 .. Len(d[e[1]])
<1>1. ASSUME e \in TextCells(d)
      PROVE  e = <<e[1], e[2]>> /\ e[1] \in DOMAIN d /\ e[2] \in 1 .. Len(d[e[1]])
  <2>1. PICK t \in DOMAIN d : e \in {t} \X (1 .. Len(d[t]))
    BY <1>1 DEF TextCells
  <2> QED BY <2>1
<1>2. ASSUME e = <<e[1], e[2]>>, e[1] \in DOMAIN d, e[2] \in 1 .. Len(d[e[1]])
      PROVE  e \in TextCells(d)
  <2>1. e \in {e[1]} \X (1 .. Len(d[e[1]])) BY <1>2
  <2> QED BY <2>1, <1>2 DEF TextCells
<1> QED BY <1>1, <1>2

(* The cells of one blob.                                                  *)
LEMMA BlobCells ==
  ASSUME NEW t, NEW n \in Nat
  PROVE  IsFiniteSet({t} \X (1 .. n)) /\ Cardinality({t} \X (1 .. n)) = n
<1>1. IsFiniteSet({t}) /\ Cardinality({t}) = 1 BY FS_Singleton
<1>2. IsFiniteSet(1 .. n) /\ Cardinality(1 .. n) = n
  <2>1. 1 \in Int /\ n \in Int OBVIOUS
  <2>2. IsFiniteSet(1 .. n) /\ Cardinality(1 .. n) = IF 1 > n THEN 0 ELSE n - 1 + 1
    BY <2>1, FS_Interval, Zenon
  <2> QED BY <2>2
<1>3. IsFiniteSet({t} \X (1 .. n)) /\ Cardinality({t} \X (1 .. n)) = Cardinality({t}) * Cardinality(1 .. n)
  BY <1>1, <1>2, FS_Product
<1> QED BY <1>1, <1>2, <1>3

(* A database has finitely many texts and bytes.                           *)
LEMMA FootprintFinite ==
  ASSUME NEW d, IsDatabase(d)
  PROVE  /\ Footprint(d) = [blocks |-> Cardinality(DOMAIN d), bytes |-> Cardinality(TextCells(d))]
         /\ IsFiniteSet(DOMAIN d) /\ Footprint(d).blocks \in Nat
         /\ IsFiniteSet(TextCells(d)) /\ Footprint(d).bytes \in Nat
<1> DEFINE parts == {{t} \X (1 .. Len(d[t])) : t \in DOMAIN d}
           f == [t \in DOMAIN d |-> {t} \X (1 .. Len(d[t]))]
<1>1. IsFiniteSet(DOMAIN d) /\ \A t \in DOMAIN d : Len(d[t]) \in Nat
  BY DEF IsDatabase
<1>2. IsFiniteSet(parts)
  <2>1. f \in Surjection(DOMAIN d, parts) BY DEF Surjection
  <2> HIDE DEF f, parts
  <2> QED BY <2>1, <1>1, FS_Surjection
<1>3. \A p \in parts : IsFiniteSet(p)
  <2> SUFFICES ASSUME NEW t \in DOMAIN d PROVE IsFiniteSet({t} \X (1 .. Len(d[t])))
    OBVIOUS
  <2> QED BY <1>1, BlobCells
<1>4. IsFiniteSet(TextCells(d))
  <2>1. TextCells(d) = UNION parts BY DEF TextCells
  <2> HIDE DEF parts
  <2> QED BY <2>1, <1>2, <1>3, FS_UNION
<1>5. Footprint(d) = [blocks |-> Cardinality(DOMAIN d), bytes |-> Cardinality(TextCells(d))]
  BY DEF Footprint, TextCells
<1> QED BY <1>1, <1>4, <1>5, FS_CardinalityType

(* Deleting a record takes away its text and its bytes.                    *)
LEMMA FootprintWithout ==
  ASSUME NEW d, IsDatabase(d), NEW t \in DOMAIN d
  PROVE  /\ IsDatabase(Without(d, t)) /\ Len(d[t]) \in Nat
         /\ Footprint(d).blocks = Footprint(Without(d, t)).blocks + 1
         /\ Footprint(d).bytes = Footprint(Without(d, t)).bytes + Len(d[t])
<1> DEFINE r == Without(d, t)
           n == Len(d[t])
           part == {t} \X (1 .. n)
<1>1. DOMAIN r = DOMAIN d \ {t} /\ \A u \in DOMAIN r : r[u] = d[u]
  BY DEF Without
<1>2. IsFiniteSet(DOMAIN r) BY <1>1, FS_Subset DEF IsDatabase
<1>3. IsDatabase(r) /\ n \in Nat
  BY <1>2 DEF IsDatabase, Without
<1>e. ASSUME NEW e PROVE e \in part <=> e = <<e[1], e[2]>> /\ e[1] = t /\ e[2] \in 1 .. n
  OBVIOUS
<1> HIDE DEF r, n, part
<1>4. Cardinality(DOMAIN d) = Cardinality(DOMAIN r) + 1
  <2>1. DOMAIN d = DOMAIN r \cup {t} /\ t \notin DOMAIN r BY <1>1
  <2> QED BY <2>1, <1>2, FS_AddElement
<1>5. TextCells(d) = TextCells(r) \cup part /\ TextCells(r) \cap part = {}
  <2>1. ASSUME NEW e
        PROVE  /\ e \in TextCells(d) <=> e \in TextCells(r) \/ e \in part
               /\ ~(e \in TextCells(r) /\ e \in part)
    BY <1>1, <1>e, TextCellsMember DEF n
  <2> QED BY <2>1
<1>6. IsFiniteSet(part) /\ Cardinality(part) = n
  BY <1>3, BlobCells DEF part
<1>7. IsFiniteSet(TextCells(r)) /\ Cardinality(TextCells(r)) \in Nat
  BY <1>3, FootprintFinite, FS_CardinalityType
<1>8. Cardinality(TextCells(d)) = Cardinality(TextCells(r)) + n
  <2>1. Cardinality(TextCells(r) \cup part) =
          Cardinality(TextCells(r)) + Cardinality(part) - Cardinality(TextCells(r) \cap part)
    BY <1>6, <1>7, FS_Union
  <2>2. Cardinality(TextCells(r) \cap part) = 0 BY <1>5, FS_EmptySet
  <2> QED BY <2>1, <2>2, <1>3, <1>5, <1>6, <1>7
<1>9. /\ Footprint(d) = [blocks |-> Cardinality(DOMAIN d), bytes |-> Cardinality(TextCells(d))]
      /\ Footprint(r) = [blocks |-> Cardinality(DOMAIN r), bytes |-> Cardinality(TextCells(r))]
  BY <1>3, FootprintFinite
<1> QED BY <1>3, <1>4, <1>8, <1>9 DEF r, n

(* Writing a record adds its bytes and takes away those of the record it   *)
(* replaces, if there was one.                                             *)
LEMMA FootprintWith ==
  ASSUME NEW d, IsDatabase(d), NEW t \in Seq(Nat), NEW blob \in Seq(Byte),
         NEW old, old = IF t \in DOMAIN d THEN Len(d[t]) ELSE 0
  PROVE  /\ IsDatabase(With(d, t, blob)) /\ old \in Nat /\ old <= Footprint(d).bytes
         /\ Footprint(With(d, t, blob)).blocks =
              IF t \in DOMAIN d THEN Footprint(d).blocks ELSE Footprint(d).blocks + 1
         /\ Footprint(With(d, t, blob)).bytes = Footprint(d).bytes - old + Len(blob)
<1> DEFINE w == With(d, t, blob)
<1>1. DOMAIN w = DOMAIN d \cup {t} /\ w[t] = blob /\ \A u \in DOMAIN d \ {t} : w[u] = d[u]
  BY DEF With
<1>2. IsFiniteSet(DOMAIN w) BY <1>1, FS_AddElement DEF IsDatabase
<1>3. IsDatabase(w)
  <2>1. DOMAIN w \subseteq Seq(Nat) BY <1>1 DEF IsDatabase
  <2>2. w \in [DOMAIN w -> Seq(Byte)] BY DEF With, IsDatabase
  <2> QED BY <1>2, <2>1, <2>2 DEF IsDatabase
<1>4. Without(w, t) = IF t \in DOMAIN d THEN Without(d, t) ELSE d
  BY DEF With, Without, IsDatabase
<1> HIDE DEF w
<1>5. /\ Footprint(w).blocks = Footprint(Without(w, t)).blocks + 1
      /\ Footprint(w).bytes = Footprint(Without(w, t)).bytes + Len(blob)
  BY <1>1, <1>3, FootprintWithout
<1>6. CASE t \in DOMAIN d
  <2>1. /\ IsDatabase(Without(d, t)) /\ Len(d[t]) \in Nat
        /\ Footprint(d).blocks = Footprint(Without(d, t)).blocks + 1
        /\ Footprint(d).bytes = Footprint(Without(d, t)).bytes + Len(d[t])
    BY <1>6, FootprintWithout
  <2>2. Footprint(Without(d, t)).bytes \in Nat /\ Footprint(Without(d, t)).blocks \in Nat
    BY <2>1, FootprintFinite
  <2> QED BY <1>3, <1>4, <1>5, <1>6, <2>1, <2>2 DEF w
<1>7. CASE t \notin DOMAIN d
  BY <1>3, <1>4, <1>5, <1>7, FootprintFinite DEF w
<1> QED BY <1>6, <1>7

-----------------------------------------------------------------------------
(* The uint64_t counters.                                                  *)

(* Whole multiples do not change a remainder.                              *)
LEMMA ModuloShift ==
  ASSUME NEW x \in Nat, NEW q \in Nat, NEW m \in Nat \ {0}
  PROVE  (x + q * m) % m = x % m
<1> DEFINE p == x \div m
           r == x % m
<1>1. p \in Nat /\ r \in 0 .. m - 1 /\ x = p * m + r BY Quotient
<1> HIDE DEF p, r
<1>2. p + q \in Nat BY <1>1
<1>3. (p + q) * m = p * m + q * m BY <1>1
<1>4. p * m \in Nat /\ q * m \in Nat BY <1>1, NatProduct
<1>5. x + q * m = (p + q) * m + r BY <1>1, <1>3, <1>4
<1>6. ((p + q) * m + r) % m = r BY <1>1, <1>2, QuotientOf
<1> QED BY ONLY <1>5, <1>6 DEF r

(* A number below the modulus, or one turn above it.                       *)
LEMMA ModuloSmall ==
  ASSUME NEW m \in Nat \ {0}, NEW x \in 0 .. m - 1
  PROVE  x % m = x /\ (x + m) % m = x
<1>1. 0 * m = 0 /\ 1 * m = m /\ 0 * m + x = x OBVIOUS
<1>2. (0 * m + x) % m = x BY QuotientOf
<1>3. (x + 1 * m) % m = x % m BY ONLY 1 \in Nat, x \in Nat, m \in Nat \ {0}, ModuloShift, Zenon
<1> QED BY ONLY <1>1, <1>2, <1>3

(* Subtracting and adding on the remainder gives the remainder of what     *)
(* subtracting and adding on the number gives.                             *)
Updates(x, old, new, m) == ((x % m) + m - old + new) % m = (x - old + new) % m

(* So it is where nothing is subtracted that was not there.                *)
LEMMA ModuloUpdate ==
  ASSUME NEW m \in Nat \ {0}, NEW x \in Nat, NEW old \in Nat, NEW new \in Nat,
         old <= x, old <= m
  PROVE  Updates(x, old, new, m)
<1> DEFINE q == x \div m
           r == x % m
<1>1. q \in Nat /\ r \in 0 .. m - 1 /\ x = q * m + r BY Quotient
<1> HIDE DEF q, r
<1>2. CASE q = 0
  <2>1. x = r BY <1>1, <1>2
  <2>2. r - old + new \in Nat BY <2>1, <1>1
  <2>3. ((r - old + new) + 1 * m) % m = (r - old + new) % m
    BY ONLY 1 \in Nat, <2>2, m \in Nat \ {0}, ModuloShift, Zenon
  <2>4. (r - old + new) + 1 * m = r + m - old + new BY <1>1
  <2> QED BY ONLY <2>1, <2>3, <2>4 DEF r, Updates
<1>3. CASE q # 0
  <2>1. q - 1 \in Nat BY <1>1, <1>3
  <2>2. r + m - old + new \in Nat BY <1>1
  <2>3. ((r + m - old + new) + (q - 1) * m) % m = (r + m - old + new) % m
    BY <2>1, <2>2, ModuloShift
  <2>4. (q - 1) * m = q * m - m /\ q * m \in Nat BY <1>1, NatProduct
  <2>5. (r + m - old + new) + (q - 1) * m = x - old + new BY <1>1, <2>4
  <2> QED BY ONLY <2>3, <2>5 DEF r, Updates
<1> QED BY <1>2, <1>3

(* The same with nothing added.                                            *)
Removes(x, old, m) == ((x % m) + m - old) % m = (x - old) % m

(* It follows from the above.                                              *)
LEMMA ModuloRemove ==
  ASSUME NEW m \in Nat \ {0}, NEW x \in Nat, NEW old \in Nat, old <= x, old <= m
  PROVE  Removes(x, old, m)
<1> DEFINE r == x % m
<1>1. Updates(x, old, 0, m)
  <2> DEFINE z == 0
  <2>1. z \in Nat OBVIOUS
  <2> HIDE DEF z
  <2>2. Updates(x, old, z, m) BY <2>1, ModuloUpdate
  <2> QED BY ONLY <2>2 DEF z
<1>2. r \in 0 .. m - 1 BY Quotient
<1>3. (r + m - old + 0) % m = (x - old + 0) % m BY ONLY <1>1 DEF Updates, r
<1> HIDE DEF r
<1>4. r + m - old + 0 = r + m - old /\ x - old + 0 = x - old BY <1>2
<1>5. (r + m - old) % m = (x - old) % m BY ONLY <1>3, <1>4
<1> QED BY <1>5 DEF r, Removes

-----------------------------------------------------------------------------
(* The records of the tier.                                                *)

(* A record of a client's key and block reads back, and has the length     *)
(* that stats_.used_bytes counts for it.                                   *)
LEMMA RecordReads ==
  ASSUME NEW k \in Keys, NEW b \in Blocks
  PROVE  /\ KeyToString(k) \in Seq(Nat) /\ KeyFromString(KeyToString(k)) = k /\ k # NoKey
         /\ SerializeBlock(b) \in Seq(Byte) /\ Len(b.data) \in Nat
         /\ Len(SerializeBlock(b)) = kHeaderSize + Len(b.data)
         /\ Len(SerializeBlock(b)) <= MaxUnsigned(8)
         /\ Deserialize(SerializeBlock(b)) = b /\ b # NoBlock
<1>1. k \in BlockKey /\ k # NoKey BY RecordsAssumption, NoneAssumption
<1>2. b \in Block /\ b # NoBlock BY RecordsAssumption, NoneAssumption
<1>3. Len(b.data) \in Nat BY <1>2 DEF Block
<1>4. kHeaderSize + Len(b.data) <= MaxUnsigned(8) /\ MaxUnsigned(8) \in Nat
  BY RecordsAssumption, Widths
<1>5. Len(b.data) <= MaxUnsigned(8)
  <2> DEFINE n == Len(b.data)
             max == MaxUnsigned(8)
  <2>1. n \in Nat /\ max \in Nat /\ 36 + n <= max BY <1>3, <1>4 DEF kHeaderSize
  <2> HIDE DEF n, max
  <2>2. n <= max BY ONLY <2>1
  <2> QED BY <2>2 DEF n, max
<1>6. KeyToString(k) \in Seq(Nat) /\ KeyFromString(KeyToString(k)) = k BY <1>1, KeyTextReads
<1>7. /\ SerializeBlock(b) \in Seq(Byte) /\ Len(SerializeBlock(b)) = kHeaderSize + Len(b.data)
      /\ Deserialize(SerializeBlock(b)) = b
  BY <1>2, <1>5, BlobReads
<1> QED BY <1>1, <1>2, <1>3, <1>4, <1>6, <1>7

(* The scan of Open accepts what Put writes.                               *)
LEMMA WrittenIsAccepted ==
  ASSUME NEW d, Written(d), Fits(d)
  PROVE  ScanAccepts(d)
<1>1. ASSUME NEW t \in DOMAIN d
      PROVE  KeyFromString(t) # NoKey /\ DecodesAs(KeyFromString(t), d[t])
  <2>1. PICK k \in Keys, b \in Blocks :
          t = KeyToString(k) /\ d[t] = SerializeBlock(b) /\ ValidMetadata(k, b.metadata)
    BY DEF Written
  <2>2. /\ KeyFromString(KeyToString(k)) = k /\ k # NoKey
        /\ Deserialize(SerializeBlock(b)) = b /\ b # NoBlock
    BY RecordReads
  <2>3. KeyFromString(t) = k /\ Deserialize(d[t]) = b BY <2>1, <2>2
  <2> QED BY <2>1, <2>2, <2>3 DEF DecodesAs
<1>2. Footprint(d).bytes <= MaxUnsigned(8) BY DEF Fits
<1> QED BY <1>1, <1>2 DEF ScanAccepts

(* What the scan of Open accepts is, text by text and byte by byte, what   *)
(* Put writes for the keys and blocks it reads: RecordsAssumption holds of *)
(* every database when Keys are all keys and Blocks all blocks that fit.   *)
THEOREM AcceptedIsWritten ==
  ASSUME NEW d, IsDatabase(d), ScanAccepts(d), NEW t \in DOMAIN d
  PROVE  /\ KeyFromString(t) \in BlockKey /\ Deserialize(d[t]) \in Block
         /\ kHeaderSize + Len(Deserialize(d[t]).data) <= MaxUnsigned(8)
         /\ t = KeyToString(KeyFromString(t)) /\ d[t] = SerializeBlock(Deserialize(d[t]))
         /\ ValidMetadata(KeyFromString(t), Deserialize(d[t]).metadata)
<1>1. /\ KeyFromString(t) # NoKey /\ Deserialize(d[t]) # NoBlock
      /\ ValidMetadata(KeyFromString(t), Deserialize(d[t]).metadata)
  BY DEF ScanAccepts, DecodesAs
<1>2. t \in Seq(Nat) /\ d[t] \in Seq(Byte) BY DEF IsDatabase
<1>3. KeyFromString(t) \in BlockKey /\ KeyToString(KeyFromString(t)) = t
  BY <1>1, <1>2, KeyTextIsCanonical
<1>4. /\ Deserialize(d[t]) \in Block /\ SerializeBlock(Deserialize(d[t])) = d[t]
      /\ Len(d[t]) = kHeaderSize + Len(Deserialize(d[t]).data)
  BY <1>1, <1>2, BlobIsCanonical
<1>5. Len(d[t]) <= MaxUnsigned(8)
  <2> DEFINE F == Footprint(d).bytes
             R == Footprint(Without(d, t)).bytes
             n == Len(d[t])
             max == MaxUnsigned(8)
  <2>1. IsDatabase(Without(d, t)) /\ n \in Nat /\ F = R + n BY FootprintWithout
  <2>2. R \in Nat BY <2>1, FootprintFinite
  <2>3. F <= max /\ max \in Nat BY Widths DEF ScanAccepts
  <2> HIDE DEF F, R, n, max
  <2>4. n <= max BY ONLY <2>1, <2>2, <2>3
  <2> QED BY <2>4 DEF n, max
<1>6. kHeaderSize + Len(Deserialize(d[t]).data) <= MaxUnsigned(8)
  BY ONLY <1>4, <1>5
<1> QED BY <1>1, <1>3, <1>4, <1>6

-----------------------------------------------------------------------------
(* The inductive invariant: a database that Put did not write is one that  *)
(* was found and never opened, and the counters of an open tier are the    *)
(* footprint of the database modulo 2^64.                                  *)
RecordsInv ==
  /\ IsDatabase(db)
  /\ db \in Found \/ Written(db)
  /\ isOpen \in BOOLEAN
  /\ isOpen => /\ Written(db)
               /\ stats = [blocks |-> Footprint(db).blocks,
                           bytes  |-> Footprint(db).bytes % U64Values]

(* used_bytes has as many values as 8 bytes.                               *)
LEMMA U64Type ==
  /\ U64Values \in Nat \ {0} /\ MaxUnsigned(8) \in Nat /\ U64Values = MaxUnsigned(8) + 1
BY Widths DEF U64Values

(* A database that is found and never written is in the invariant.         *)
LEMMA RecordsInitInv == RecordsInit => RecordsInv
BY RecordsAssumption DEF RecordsInit, RecordsInv

(* Open: the scan refuses what Put did not write, and counts the rest.     *)
LEMMA OpenInv == RecordsInv /\ Open => RecordsInv'
<1> SUFFICES ASSUME RecordsInv, Open PROVE RecordsInv' OBVIOUS
<1>1. IsDatabase(db) /\ ScanAccepts(db) /\ db' = db /\ isOpen' = TRUE /\ stats' = Footprint(db)
  BY DEF RecordsInv, Open
<1>2. Written(db)
  <2>1. CASE Written(db) BY <2>1
  <2>2. CASE db \in Found
    <3> SUFFICES ASSUME NEW t \in DOMAIN db
                 PROVE  \E k \in Keys, b \in Blocks :
                          t = KeyToString(k) /\ db[t] = SerializeBlock(b) /\ ValidMetadata(k, b.metadata)
      BY DEF Written
    <3>1. KeyFromString(t) \in Keys /\ Deserialize(db[t]) \in Blocks
      BY <1>1, <2>2, RecordsAssumption
    <3>2. /\ t = KeyToString(KeyFromString(t)) /\ db[t] = SerializeBlock(Deserialize(db[t]))
          /\ ValidMetadata(KeyFromString(t), Deserialize(db[t]).metadata)
      BY <1>1, AcceptedIsWritten
    <3> QED BY <3>1, <3>2
  <2> QED BY <2>1, <2>2 DEF RecordsInv
<1>3. Footprint(db) = [blocks |-> Footprint(db).blocks, bytes |-> Footprint(db).bytes % U64Values]
  <2> DEFINE F == Footprint(db).bytes
  <2>1. /\ Footprint(db) = [blocks |-> Cardinality(DOMAIN db), bytes |-> Cardinality(TextCells(db))]
        /\ F \in Nat
    BY <1>1, FootprintFinite
  <2>2. F <= MaxUnsigned(8) BY <1>1 DEF ScanAccepts
  <2>3. F \in 0 .. U64Values - 1 BY <2>1, <2>2, U64Type
  <2> HIDE DEF F
  <2>4. F % U64Values = F BY <2>3, U64Type, ModuloSmall
  <2> QED BY <2>1, <2>4 DEF F
<1> QED BY <1>1, <1>2, <1>3 DEF RecordsInv

(* Close, and the end of the process: the database stays.                  *)
LEMMA CloseInv == RecordsInv /\ (Close \/ Lost) => RecordsInv'
BY DEF RecordsInv, Close, Lost

(* The records of a database without one of them, or with one more that    *)
(* Put writes, are records that Put writes.                                *)
LEMMA WrittenUpdate ==
  ASSUME NEW d, Written(d), NEW t
  PROVE  /\ Written(Without(d, t))
         /\ \A k \in Keys, b \in Blocks :
              t = KeyToString(k) /\ ValidMetadata(k, b.metadata) => Written(With(d, t, SerializeBlock(b)))
<1>1. Written(Without(d, t)) BY DEF Written, Without
<1>2. ASSUME NEW k \in Keys, NEW b \in Blocks, t = KeyToString(k), ValidMetadata(k, b.metadata)
      PROVE  Written(With(d, t, SerializeBlock(b)))
  <2> DEFINE w == With(d, t, SerializeBlock(b))
  <2> SUFFICES ASSUME NEW u \in DOMAIN w
               PROVE  \E j \in Keys, c \in Blocks :
                        u = KeyToString(j) /\ w[u] = SerializeBlock(c) /\ ValidMetadata(j, c.metadata)
    BY DEF Written
  <2>1. CASE u = t
    <3>1. w[u] = SerializeBlock(b) BY <2>1 DEF With
    <3> QED BY <3>1, <2>1, <1>2
  <2>2. CASE u # t
    <3>1. u \in DOMAIN d /\ w[u] = d[u] BY <2>2 DEF With
    <3> QED BY <3>1 DEF Written
  <2> QED BY <2>1, <2>2
<1> QED BY <1>1, <1>2

(* The blobs that Put writes have a uint64_t length.                       *)
LEMMA WrittenLength ==
  ASSUME NEW d, Written(d), NEW t \in DOMAIN d
  PROVE  Len(d[t]) \in 0 .. MaxUnsigned(8)
<1>1. PICK k \in Keys, b \in Blocks : t = KeyToString(k) /\ d[t] = SerializeBlock(b)
  BY DEF Written
<1>2. Len(d[t]) \in Nat /\ Len(d[t]) <= MaxUnsigned(8)
  <2>1. /\ Len(SerializeBlock(b)) = kHeaderSize + Len(b.data) /\ Len(b.data) \in Nat
        /\ Len(SerializeBlock(b)) <= MaxUnsigned(8)
    BY RecordReads
  <2> QED BY <1>1, <2>1 DEF kHeaderSize
<1> QED BY <1>2, U64Type

(* Put: the counters move with the footprint, a replaced record included.  *)
LEMMA PutRecordInv ==
  ASSUME NEW k \in Keys, NEW b \in Blocks, RecordsInv, PutRecord(k, b)
  PROVE  RecordsInv'
<1> DEFINE t == KeyToString(k)
           blob == SerializeBlock(b)
           old == IF t \in DOMAIN db THEN Len(db[t]) ELSE 0
           F == Footprint(db).bytes
           len == Len(blob)
<1>1. /\ isOpen /\ isOpen' = isOpen /\ ValidMetadata(k, b.metadata)
      /\ db' = With(db, t, blob)
      /\ stats' = [blocks |-> IF t \in DOMAIN db THEN stats.blocks ELSE stats.blocks + 1,
                   bytes  |-> (stats.bytes + U64Values - old + len) % U64Values]
  BY DEF PutRecord, With
<1>2. /\ IsDatabase(db) /\ Written(db)
      /\ stats.blocks = Footprint(db).blocks /\ stats.bytes = F % U64Values
  BY <1>1 DEF RecordsInv
<1>3. t \in Seq(Nat) /\ blob \in Seq(Byte) /\ len \in Nat
  <2>1. t \in Seq(Nat) /\ blob \in Seq(Byte) BY RecordReads
  <2> QED BY <2>1
<1>4. old \in 0 .. MaxUnsigned(8)
  <2>1. CASE t \in DOMAIN db
    <3>1. Len(db[t]) \in 0 .. MaxUnsigned(8) BY <1>2, <2>1, WrittenLength
    <3> QED BY ONLY <2>1, <3>1
  <2>2. CASE t \notin DOMAIN db
    <3>1. old = 0 BY <2>2
    <3> QED BY ONLY <3>1, U64Type
  <2> QED BY <2>1, <2>2
<1>5. Written(db')
  <2>1. Written(With(db, t, blob))
    BY <1>1, <1>2, WrittenUpdate
  <2> QED BY <1>1, <2>1
<1> HIDE DEF t, blob
<1>6. /\ IsDatabase(db') /\ old <= F
      /\ Footprint(db').blocks = IF t \in DOMAIN db THEN Footprint(db).blocks ELSE Footprint(db).blocks + 1
      /\ Footprint(db').bytes = F - old + len
  BY <1>1, <1>2, <1>3, FootprintWith
<1>7. F \in Nat BY <1>2, FootprintFinite
<1> HIDE DEF old, F, len
<1>8. old \in Nat /\ old <= U64Values /\ U64Values \in Nat \ {0} BY <1>4, U64Type
<1>9. ((F % U64Values) + U64Values - old + len) % U64Values = (F - old + len) % U64Values
  <2>1. old <= F BY <1>6
  <2>2. len \in Nat BY <1>3
  <2>3. Updates(F, old, len, U64Values) BY ONLY <1>7, <1>8, <2>1, <2>2, ModuloUpdate
  <2> QED BY ONLY <2>3 DEF Updates
<1>10. stats' = [blocks |-> Footprint(db').blocks, bytes |-> Footprint(db').bytes % U64Values]
  BY <1>1, <1>2, <1>6, <1>9
<1>11. isOpen' \in BOOLEAN BY <1>1 DEF RecordsInv
<1> QED BY <1>5, <1>6, <1>10, <1>11 DEF RecordsInv

(* Evict: the counters move with the footprint, and num_blocks is not 0.   *)
LEMMA EvictInv ==
  ASSUME NEW k \in Keys, RecordsInv, Evict(k)
  PROVE  RecordsInv'
<1> DEFINE t == KeyToString(k)
           old == Len(db[t])
           F == Footprint(db).bytes
           N == Footprint(db).blocks
<1>1. /\ isOpen /\ isOpen' = isOpen /\ t \in DOMAIN db
      /\ db' = Without(db, t)
      /\ stats' = [blocks |-> IF stats.blocks > 0 THEN stats.blocks - 1 ELSE 0,
                   bytes  |-> (stats.bytes + U64Values - old) % U64Values]
  BY DEF Evict, Without
<1>2. IsDatabase(db) /\ Written(db) /\ stats.blocks = N /\ stats.bytes = F % U64Values
  BY <1>1 DEF RecordsInv
<1>3. old \in 0 .. MaxUnsigned(8) BY <1>1, <1>2, WrittenLength
<1>4. Written(db')
  <2>1. Written(Without(db, t)) BY <1>2, WrittenUpdate
  <2> QED BY <1>1, <2>1
<1>5. /\ IsDatabase(db') /\ N = Footprint(db').blocks + 1
      /\ F = Footprint(db').bytes + old
  BY <1>1, <1>2, FootprintWithout
<1>6. F \in Nat /\ Footprint(db').bytes \in Nat /\ Footprint(db').blocks \in Nat
  BY <1>2, <1>5, FootprintFinite
<1> HIDE DEF t, old, F, N
<1>7. old \in Nat /\ old <= U64Values /\ U64Values \in Nat \ {0} BY <1>3, U64Type
<1>8. old <= F /\ F - old = Footprint(db').bytes BY <1>5, <1>6, <1>7
<1>9. ((F % U64Values) + U64Values - old) % U64Values = (F - old) % U64Values
  <2>1. Removes(F, old, U64Values) BY ONLY <1>6, <1>7, <1>8, ModuloRemove
  <2> QED BY ONLY <2>1 DEF Removes
<1>10. stats'.bytes = Footprint(db').bytes % U64Values
  BY ONLY <1>1, <1>2, <1>8, <1>9
<1>11. stats'.blocks = Footprint(db').blocks
  BY <1>1, <1>2, <1>5, <1>6
<1>12. stats' = [blocks |-> Footprint(db').blocks, bytes |-> Footprint(db').bytes % U64Values]
  BY <1>1, <1>10, <1>11
<1>13. isOpen' \in BOOLEAN BY <1>1 DEF RecordsInv
<1> QED BY <1>4, <1>5, <1>12, <1>13 DEF RecordsInv

(* RecordsInv is inductive.                                                *)
THEOREM RecordsInvariant == RecordsSpec => []RecordsInv
<1>1. RecordsInv /\ [RecordsNext]_recordVars => RecordsInv'
  <2> SUFFICES ASSUME RecordsInv, [RecordsNext]_recordVars PROVE RecordsInv'
    OBVIOUS
  <2>1. CASE Open BY <2>1, OpenInv
  <2>2. CASE Close \/ Lost BY <2>2, CloseInv
  <2>3. ASSUME NEW k \in Keys, Evict(k) PROVE RecordsInv' BY <2>3, EvictInv
  <2>4. ASSUME NEW k \in Keys, NEW b \in Blocks, PutRecord(k, b) PROVE RecordsInv'
    BY <2>4, PutRecordInv
  <2>5. CASE UNCHANGED recordVars BY <2>5 DEF recordVars, RecordsInv
  <2> QED BY <2>1, <2>2, <2>3, <2>4, <2>5 DEF RecordsNext
<1> QED BY <1>1, RecordsInitInv, PTL DEF RecordsSpec

(* A tier that opened holds only records that Put can have written: the    *)
(* scan of SsdTier::Open refuses every other text and blob.                *)
THEOREM OnlyWrittenRecordsOpen == RecordsSpec => []OpenMeansWritten
<1>1. RecordsInv => OpenMeansWritten BY DEF RecordsInv, OpenMeansWritten
<1> QED BY <1>1, RecordsInvariant, PTL

(* The scan of SsdTier::Open accepts whatever Put has written, short of    *)
(* 2^64 bytes.                                                             *)
THEOREM WrittenRecordsReopen == RecordsSpec => []OwnRecordsReopen
<1>1. OwnRecordsReopen BY WrittenIsAccepted DEF OwnRecordsReopen
<1> QED BY <1>1, PTL

(* num_blocks and used_bytes of an open tier are the number and the total  *)
(* length of the LevelDB values, short of 2^64 bytes.                      *)
THEOREM CountersAreFootprint == RecordsSpec => []CountersMatchDatabase
<1>1. RecordsInv => CountersMatchDatabase
  <2> SUFFICES ASSUME RecordsInv, isOpen, Fits(db) PROVE stats = Footprint(db)
    BY DEF CountersMatchDatabase
  <2> DEFINE F == Footprint(db).bytes
  <2>1. /\ stats = [blocks |-> Footprint(db).blocks, bytes |-> F % U64Values] /\ IsDatabase(db)
    BY DEF RecordsInv
  <2>2. /\ Footprint(db) = [blocks |-> Cardinality(DOMAIN db), bytes |-> Cardinality(TextCells(db))]
        /\ F \in Nat
    BY <2>1, FootprintFinite
  <2>3. F \in 0 .. U64Values - 1 BY <2>2, U64Type DEF Fits
  <2> HIDE DEF F
  <2>4. F % U64Values = F BY <2>3, U64Type, ModuloSmall
  <2> QED BY <2>1, <2>2, <2>4 DEF F
<1> QED BY <1>1, RecordsInvariant, PTL

-----------------------------------------------------------------------------
(* The tier on bytes implements SsdTier.                                   *)

(* Decoded, of any database.                                               *)
DecodedFrom(d) ==
  [k \in Keys |->
     LET t == KeyToString(k)
         blocks == {Deserialize(d[u]) : u \in DOMAIN d \cap {t}} \ {NoBlock}
     IN  IF blocks = {} THEN NoBlock ELSE BlockOf(k, CHOOSE b \in blocks : TRUE)]

(* Decoded is that of the database.                                        *)
LEMMA DecodedIsFrom == Decoded = DecodedFrom(db)
BY DEF Decoded, DecodedFrom

(* It depends on the record of the key only.                               *)
LEMMA DecodedSame ==
  ASSUME NEW d, NEW w, NEW j \in Keys,
         DOMAIN w \cap {KeyToString(j)} = DOMAIN d \cap {KeyToString(j)},
         \A v \in DOMAIN d \cap {KeyToString(j)} : w[v] = d[v]
  PROVE  DecodedFrom(w)[j] = DecodedFrom(d)[j]
<1> DEFINE u == KeyToString(j)
           Read(e) == {Deserialize(e[v]) : v \in DOMAIN e \cap {u}} \ {NoBlock}
           Block1(blocks) == IF blocks = {} THEN NoBlock ELSE BlockOf(j, CHOOSE b \in blocks : TRUE)
<1>1. DecodedFrom(w)[j] = Block1(Read(w)) /\ DecodedFrom(d)[j] = Block1(Read(d))
  BY DEF DecodedFrom
<1>2. Read(w) = Read(d)
  <2> HIDE DEF u
  <2>1. DOMAIN w \cap {u} = DOMAIN d \cap {u} /\ \A v \in DOMAIN d \cap {u} : w[v] = d[v] BY DEF u
  <2> QED BY ONLY <2>1
<1> HIDE DEF Read, Block1
<1> QED BY ONLY <1>1, <1>2

(* A key without a record, and a key with one that decodes.                *)
LEMMA DecodedRecord ==
  ASSUME NEW d, NEW k \in Keys
  PROVE  /\ KeyToString(k) \notin DOMAIN d => DecodedFrom(d)[k] = NoBlock
         /\ KeyToString(k) \in DOMAIN d /\ Deserialize(d[KeyToString(k)]) # NoBlock
              => DecodedFrom(d)[k] = BlockOf(k, Deserialize(d[KeyToString(k)]))
<1> DEFINE t == KeyToString(k)
           read == {Deserialize(d[u]) : u \in DOMAIN d \cap {t}}
           blocks == read \ {NoBlock}
<1>1. DecodedFrom(d)[k] = IF blocks = {} THEN NoBlock ELSE BlockOf(k, CHOOSE b \in blocks : TRUE)
  BY DEF DecodedFrom
<1>2. ASSUME t \notin DOMAIN d PROVE blocks = {}
  BY <1>2
<1>3. ASSUME t \in DOMAIN d, Deserialize(d[t]) # NoBlock PROVE blocks = {Deserialize(d[t])}
  BY <1>3
<1> HIDE DEF blocks, t
<1>4. ASSUME NEW c, blocks = {c} PROVE (CHOOSE b \in blocks : TRUE) = c
  BY <1>4
<1>5. ASSUME t \in DOMAIN d, Deserialize(d[t]) # NoBlock
      PROVE  DecodedFrom(d)[k] = BlockOf(k, Deserialize(d[t]))
  <2> DEFINE c == Deserialize(d[t])
  <2>1. blocks = {c} BY <1>3, <1>5
  <2> HIDE DEF c
  <2>2. blocks # {} /\ (CHOOSE b \in blocks : TRUE) = c BY <2>1, <1>4
  <2> QED BY <1>1, <2>2 DEF c
<1>6. ASSUME t \notin DOMAIN d PROVE DecodedFrom(d)[k] = NoBlock
  BY <1>1, <1>2, <1>6
<1> QED BY <1>5, <1>6 DEF t

(* What Get makes of a block is a block, not the absence of one.           *)
LEMMA BlockOfType ==
  ASSUME NEW k \in Keys, NEW b \in Blocks
  PROVE  /\ BlockOf(k, b) # NoBlock /\ BlockOf(k, b).size = Len(b.data)
         /\ BlockOf(k, b).valid = ValidMetadata(k, b.metadata)
<1>1. b \in Block BY RecordsAssumption
<1>2. Len(b.data) \in Nat BY <1>1 DEF Block
<1>3. ValidMetadata(k, b.metadata) \in BOOLEAN BY DEF ValidMetadata
<1>4. BlockOf(k, b) \in [data : Block, size : Nat, valid : BOOLEAN]
  BY <1>1, <1>2, <1>3 DEF BlockOf
<1>5. BlockOf(k, b) # NoBlock BY <1>4, RecordsAssumption
<1> QED BY <1>5 DEF BlockOf

(* No two keys have the same text.                                         *)
LEMMA TextsDiffer ==
  ASSUME NEW j \in Keys, NEW k \in Keys, KeyToString(j) = KeyToString(k)
  PROVE  j = k
<1>1. j \in BlockKey /\ k \in BlockKey BY RecordsAssumption
<1>2. KeyFromString(KeyToString(j)) = j /\ KeyFromString(KeyToString(k)) = k BY <1>1, KeyTextReads
<1> QED BY <1>2

(* Among records that Put writes, the one of a key is of that key, decodes *)
(* to a valid block, and is as long as SsdTier counts it.                  *)
LEMMA DecodedWritten ==
  ASSUME NEW d, Written(d), NEW k \in Keys, KeyToString(k) \in DOMAIN d
  PROVE  /\ DecodedFrom(d)[k] # NoBlock /\ DecodedFrom(d)[k].valid
         /\ DecodedFrom(d)[k].size \in Nat
         /\ DecodedFrom(d)[k].size + kHeaderSize = Len(d[KeyToString(k)])
<1> DEFINE t == KeyToString(k)
<1>1. PICK j \in Keys, b \in Blocks :
        t = KeyToString(j) /\ d[t] = SerializeBlock(b) /\ ValidMetadata(j, b.metadata)
  BY DEF Written
<1>2. j = k BY <1>1, TextsDiffer
<1>3. /\ Deserialize(SerializeBlock(b)) = b /\ b # NoBlock /\ Len(b.data) \in Nat
      /\ Len(SerializeBlock(b)) = kHeaderSize + Len(b.data)
  BY RecordReads
<1>4. Deserialize(d[t]) = b BY <1>1, <1>3
<1>5. DecodedFrom(d)[k] = BlockOf(k, b)
  BY <1>3, <1>4, DecodedRecord
<1>6. DecodedFrom(d)[k] # NoBlock /\ DecodedFrom(d)[k].size = Len(b.data) /\ DecodedFrom(d)[k].valid
  BY <1>1, <1>2, <1>5, BlockOfType
<1>7. Len(b.data) + kHeaderSize = Len(d[t])
  BY <1>1, <1>3 DEF kHeaderSize
<1> QED BY <1>3, <1>6, <1>7

(* Writing a record changes what its key decodes to and no other key.      *)
LEMMA DecodedWith ==
  ASSUME NEW d, NEW k \in Keys, NEW b \in Blocks
  PROVE  DecodedFrom(With(d, KeyToString(k), SerializeBlock(b)))
           = [DecodedFrom(d) EXCEPT ![k] = BlockOf(k, b)]
<1> DEFINE t == KeyToString(k)
           blob == SerializeBlock(b)
           w == With(d, t, blob)
<1>1. DecodedFrom(w)[k] = BlockOf(k, b)
  <2>1. t \in DOMAIN w /\ w[t] = blob BY DEF With
  <2>2. Deserialize(blob) = b /\ b # NoBlock BY RecordReads
  <2> QED BY <2>1, <2>2, DecodedRecord
<1>2. ASSUME NEW j \in Keys, j # k PROVE DecodedFrom(w)[j] = DecodedFrom(d)[j]
  <2> DEFINE u == KeyToString(j)
  <2>1. u # t BY <1>2, TextsDiffer
  <2> HIDE DEF t, u, blob
  <2>2. DOMAIN w \cap {u} = DOMAIN d \cap {u} /\ \A v \in DOMAIN d \cap {u} : w[v] = d[v]
    BY <2>1 DEF With
  <2> HIDE DEF w
  <2> QED BY <2>2, DecodedSame DEF u
<1> HIDE DEF w
<1>3. DecodedFrom(w) = [DecodedFrom(d) EXCEPT ![k] = BlockOf(k, b)]
  <2>1. DOMAIN DecodedFrom(w) = Keys /\ DOMAIN DecodedFrom(d) = Keys
        /\ DecodedFrom(w) = [j \in Keys |-> DecodedFrom(w)[j]]
    BY DEF DecodedFrom
  <2> QED BY <2>1, <1>1, <1>2
<1> QED BY <1>3 DEF w

(* Deleting a record leaves its key without a block and no other key.      *)
LEMMA DecodedWithout ==
  ASSUME NEW d, NEW k \in Keys
  PROVE  DecodedFrom(Without(d, KeyToString(k))) = [DecodedFrom(d) EXCEPT ![k] = NoBlock]
<1> DEFINE t == KeyToString(k)
           w == Without(d, t)
<1>1. DecodedFrom(w)[k] = NoBlock
  <2>1. t \notin DOMAIN w BY DEF Without
  <2> QED BY <2>1, DecodedRecord
<1>2. ASSUME NEW j \in Keys, j # k PROVE DecodedFrom(w)[j] = DecodedFrom(d)[j]
  <2> DEFINE u == KeyToString(j)
  <2>1. u # t BY <1>2, TextsDiffer
  <2> HIDE DEF t, u
  <2>2. DOMAIN w \cap {u} = DOMAIN d \cap {u} /\ \A v \in DOMAIN d \cap {u} : w[v] = d[v]
    BY <2>1 DEF Without
  <2> HIDE DEF w
  <2> QED BY <2>2, DecodedSame DEF u
<1> HIDE DEF w
<1>3. DecodedFrom(w) = [DecodedFrom(d) EXCEPT ![k] = NoBlock]
  <2>1. DOMAIN DecodedFrom(w) = Keys /\ DOMAIN DecodedFrom(d) = Keys
        /\ DecodedFrom(w) = [j \in Keys |-> DecodedFrom(w)[j]]
    BY DEF DecodedFrom
  <2> QED BY <2>1, <1>1, <1>2
<1> QED BY <1>3 DEF w

(* The keys and cells that SsdTier counts correspond one to one to the     *)
(* texts and bytes of a database that Put wrote.                           *)
LEMMA DecodedCells ==
  ASSUME NEW d, IsDatabase(d), Written(d)
  PROVE  /\ Cardinality(Tier!KeysOf(DecodedFrom(d))) = Footprint(d).blocks
         /\ Cardinality(Tier!Cells(DecodedFrom(d), kHeaderSize)) = Footprint(d).bytes
<1> DEFINE s == DecodedFrom(d)
           keys == Tier!KeysOf(s)
           cells == Tier!Cells(s, kHeaderSize)
           byText == [t \in DOMAIN d |-> KeyFromString(t)]
           byCell == [e \in TextCells(d) |-> <<KeyFromString(e[1]), e[2]>>]
<1>1. ASSUME NEW t \in DOMAIN d
      PROVE  KeyFromString(t) \in Keys /\ KeyToString(KeyFromString(t)) = t
  <2>1. PICK k \in Keys, b \in Blocks : t = KeyToString(k) BY DEF Written
  <2>2. KeyFromString(KeyToString(k)) = k BY RecordReads
  <2> QED BY <2>1, <2>2
<1>2. ASSUME NEW k
      PROVE  k \in keys <=> k \in Keys /\ KeyToString(k) \in DOMAIN d
  BY DecodedWritten, DecodedRecord DEF Tier!KeysOf
<1>3. ASSUME NEW k \in keys
      PROVE  s[k].size + kHeaderSize = Len(d[KeyToString(k)])
  BY <1>2, DecodedWritten
<1>4. ASSUME NEW e
      PROVE  e \in cells <=> /\ e = <<e[1], e[2]>> /\ e[1] \in keys
                             /\ e[2] \in 1 .. Len(d[KeyToString(e[1])])
  <2>1. ASSUME e \in cells
        PROVE  e = <<e[1], e[2]>> /\ e[1] \in keys /\ e[2] \in 1 .. Len(d[KeyToString(e[1])])
    <3>1. PICK k \in keys : e \in {k} \X (1 .. (s[k].size + kHeaderSize))
      BY <2>1 DEF Tier!Cells
    <3>2. e \in {k} \X (1 .. Len(d[KeyToString(k)])) BY <3>1, <1>3
    <3> HIDE DEF keys
    <3> QED BY <3>1, <3>2
  <2>2. ASSUME e = <<e[1], e[2]>>, e[1] \in keys, e[2] \in 1 .. Len(d[KeyToString(e[1])])
        PROVE  e \in cells
    <3>1. e[2] \in 1 .. (s[e[1]].size + kHeaderSize) BY <2>2, <1>3
    <3>2. e \in {e[1]} \X (1 .. (s[e[1]].size + kHeaderSize)) BY <2>2, <3>1
    <3> QED BY <2>2, <3>2 DEF Tier!Cells
  <2> QED BY <2>1, <2>2
<1> HIDE DEF s, keys, cells
<1>5. byText \in Bijection(DOMAIN d, keys)
  <2>1. byText \in [DOMAIN d -> keys] BY <1>1, <1>2
  <2>2. ASSUME NEW t \in DOMAIN d, NEW u \in DOMAIN d, byText[t] = byText[u] PROVE t = u
    BY <2>2, <1>1
  <2>3. ASSUME NEW k \in keys PROVE \E t \in DOMAIN d : byText[t] = k
    <3>1. k \in Keys /\ KeyToString(k) \in DOMAIN d BY <1>2
    <3>2. KeyFromString(KeyToString(k)) = k BY <1>1, <3>1, TextsDiffer
    <3> QED BY <3>1, <3>2
  <2> QED BY <2>1, <2>2, <2>3 DEF Bijection, Injection, Surjection, IsInjective
<1>6. byCell \in Bijection(TextCells(d), cells)
  <2>1. ASSUME NEW e \in TextCells(d)
        PROVE  /\ byCell[e] \in cells /\ e = <<e[1], e[2]>> /\ e[1] \in DOMAIN d
               /\ byCell[e] = <<KeyFromString(e[1]), e[2]>>
    <3>1. e = <<e[1], e[2]>> /\ e[1] \in DOMAIN d /\ e[2] \in 1 .. Len(d[e[1]])
      BY TextCellsMember
    <3> DEFINE c == <<KeyFromString(e[1]), e[2]>>
    <3>2. KeyFromString(e[1]) \in keys /\ KeyToString(KeyFromString(e[1])) = e[1]
      BY <3>1, <1>1, <1>2
    <3>3. c[1] = KeyFromString(e[1]) /\ c[2] = e[2] /\ c = <<c[1], c[2]>> OBVIOUS
    <3> HIDE DEF c
    <3>4. c \in cells BY <3>1, <3>2, <3>3, <1>4
    <3>5. byCell[e] = c BY DEF c
    <3> QED BY <3>1, <3>4, <3>5 DEF c
  <2>2. byCell \in [TextCells(d) -> cells] BY <2>1
  <2>3. ASSUME NEW e \in TextCells(d), NEW f \in TextCells(d), byCell[e] = byCell[f] PROVE e = f
    <3>1. /\ e = <<e[1], e[2]>> /\ e[1] \in DOMAIN d /\ byCell[e] = <<KeyFromString(e[1]), e[2]>>
          /\ f = <<f[1], f[2]>> /\ f[1] \in DOMAIN d /\ byCell[f] = <<KeyFromString(f[1]), f[2]>>
      BY <2>1
    <3>2. KeyFromString(e[1]) = KeyFromString(f[1]) /\ e[2] = f[2]
      BY <3>1, <2>3
    <3>3. e[1] = f[1] BY <3>1, <3>2, <1>1
    <3> QED BY ONLY <3>1, <3>2, <3>3
  <2>4. ASSUME NEW c \in cells PROVE \E e \in TextCells(d) : byCell[e] = c
    <3>1. c = <<c[1], c[2]>> /\ c[1] \in keys /\ c[2] \in 1 .. Len(d[KeyToString(c[1])])
      BY <1>4
    <3>2. c[1] \in Keys /\ KeyToString(c[1]) \in DOMAIN d BY <3>1, <1>2
    <3>3. KeyFromString(KeyToString(c[1])) = c[1] BY <1>1, <3>2, TextsDiffer
    <3> DEFINE e == <<KeyToString(c[1]), c[2]>>
    <3>4. e[1] = KeyToString(c[1]) /\ e[2] = c[2] /\ e = <<e[1], e[2]>> OBVIOUS
    <3> HIDE DEF e
    <3>5. e \in TextCells(d) BY <3>1, <3>2, <3>4, TextCellsMember
    <3>6. byCell[e] = <<KeyFromString(e[1]), e[2]>> BY <3>5
    <3>7. byCell[e] = c BY ONLY <3>1, <3>3, <3>4, <3>6
    <3> QED BY <3>5, <3>7
  <2> HIDE DEF byCell
  <2> QED BY <2>2, <2>3, <2>4 DEF Bijection, Injection, Surjection, IsInjective
<1> HIDE DEF byText, byCell
<1>7. /\ IsFiniteSet(DOMAIN d) /\ IsFiniteSet(TextCells(d))
      /\ Footprint(d).blocks = Cardinality(DOMAIN d) /\ Footprint(d).bytes = Cardinality(TextCells(d))
  BY FootprintFinite
<1>8. Cardinality(keys) = Cardinality(DOMAIN d)
  <2>1. ExistsBijection(DOMAIN d, keys) BY <1>5 DEF ExistsBijection
  <2> QED BY <2>1, <1>7, FS_Bijection
<1>9. Cardinality(cells) = Cardinality(TextCells(d))
  <2>1. ExistsBijection(TextCells(d), cells) BY <1>6 DEF ExistsBijection
  <2> QED BY <2>1, <1>7, FS_Bijection
<1> QED BY <1>7, <1>8, <1>9 DEF keys, cells, s

(* What the steps do to the blocks that the database decodes to.           *)
LEMMA DecodedNext ==
  /\ Decoded = DecodedFrom(db) /\ Decoded' = DecodedFrom(db')
  /\ db' = db => Decoded' = Decoded
BY DEF Decoded, DecodedFrom

(* The uint64_t arithmetic of Put and Evict on a counter.                  *)
LEMMA CounterUpdate ==
  ASSUME NEW a \in 0 .. MaxUnsigned(8), NEW old \in 0 .. MaxUnsigned(8), NEW new \in 0 .. MaxUnsigned(8)
  PROVE  /\ (a + U64Values - old + new) % U64Values = Tier!U64Add(Tier!U64Sub(a, old), new)
         /\ (a + U64Values - 0 + new) % U64Values = Tier!U64Add(a, new)
         /\ (a + U64Values - old) % U64Values = Tier!U64Sub(a, old)
<1> DEFINE max == MaxUnsigned(8)
           m == U64Values
<1>1. max \in Nat /\ m = max + 1 /\ m \in Nat \ {0} BY U64Type
<1>2. a \in 0 .. max /\ old \in 0 .. max /\ new \in 0 .. max /\ 0 \in 0 .. max BY <1>1
<1> HIDE DEF max, m
<1>3. ASSUME NEW o \in 0 .. max, NEW n \in 0 .. max
      PROVE  LET sub == IF o <= a THEN a - o ELSE a - o + (max + 1)
             IN  /\ sub \in 0 .. max
                 /\ (a + m - o + n) % m = IF sub + n <= max THEN sub + n ELSE sub + n - (max + 1)
  <2> DEFINE sub == IF o <= a THEN a - o ELSE a - o + (max + 1)
             w == IF sub + n <= max THEN sub + n ELSE sub + n - (max + 1)
  <2>1. sub \in 0 .. max /\ w \in 0 .. m - 1 BY <1>1, <1>2
  <2>2. a + m - o + n \in {w, w + m, (w + m) + m} BY <1>1, <1>2
  <2> HIDE DEF w, sub
  <2>3. w % m = w /\ (w + m) % m = w BY <1>1, <2>1, ModuloSmall
  <2>4. ((w + m) + m) % m = w
    <3>1. w + m \in Nat /\ 1 * m = m BY <1>1, <2>1
    <3>2. ((w + m) + 1 * m) % m = (w + m) % m BY ONLY 1 \in Nat, <3>1, <1>1, ModuloShift, Zenon
    <3> QED BY ONLY <3>1, <3>2, <2>3
  <2>5. (a + m - o + n) % m = w BY ONLY <2>2, <2>3, <2>4
  <2> QED BY <2>1, <2>5 DEF w, sub
<1>4. (a + m - old + new) % m = Tier!U64Add(Tier!U64Sub(a, old), new)
  <2> DEFINE sub == IF old <= a THEN a - old ELSE a - old + (max + 1)
  <2>1. (a + m - old + new) % m = IF sub + new <= max THEN sub + new ELSE sub + new - (max + 1)
    BY ONLY <1>2, <1>3
  <2>2. Tier!U64Sub(a, old) = sub BY DEF Tier!U64Sub, max
  <2> HIDE DEF sub
  <2>3. Tier!U64Add(sub, new) = IF sub + new <= max THEN sub + new ELSE sub + new - (max + 1)
    BY DEF Tier!U64Add, max
  <2> QED BY ONLY <2>1, <2>2, <2>3
<1>5. (a + m - 0 + new) % m = Tier!U64Add(a, new)
  <2>1. PICK z \in 0 .. max : z = 0 BY <1>2
  <2>2. LET sub == IF z <= a THEN a - z ELSE a - z + (max + 1)
        IN  (a + m - z + new) % m = IF sub + new <= max THEN sub + new ELSE sub + new - (max + 1)
    BY <1>2, <1>3
  <2>3. (IF z <= a THEN a - z ELSE a - z + (max + 1)) = a BY <1>1, <1>2, <2>1
  <2>4. (a + m - z + new) % m = IF a + new <= max THEN a + new ELSE a + new - (max + 1)
    BY ONLY <2>2, <2>3
  <2> QED BY <2>1, <2>4 DEF Tier!U64Add, max
<1>6. (a + m - old) % m = Tier!U64Sub(a, old)
  <2>1. PICK z \in 0 .. max : z = 0 BY <1>2
  <2> DEFINE sub == IF old <= a THEN a - old ELSE a - old + (max + 1)
  <2>2. sub \in 0 .. max /\ (a + m - old + z) % m = IF sub + z <= max THEN sub + z ELSE sub + z - (max + 1)
    BY <1>2, <1>3
  <2>3. Tier!U64Sub(a, old) = sub BY DEF Tier!U64Sub, max
  <2> HIDE DEF sub
  <2>4. sub + z = sub /\ sub <= max BY <1>1, <2>1, <2>2
  <2>5. a + m - old + z = a + m - old BY <1>1, <1>2, <2>1
  <2> QED BY ONLY <2>2, <2>3, <2>4, <2>5
<1> QED BY <1>4, <1>5, <1>6 DEF m

(* SsdTier counts with the same Cardinality.                               *)
LEMMA SameCardinality ==
  ASSUME NEW S PROVE Tier!Cardinality(S) = Cardinality(S)
BY DEF Tier!Cardinality, Cardinality

(* Open is SsdOpened: the scan finds every block valid and counts them.    *)
LEMMA OpenImplements == RecordsInv /\ Open => Tier!SsdOpened
<1> SUFFICES ASSUME RecordsInv, Open PROVE Tier!SsdOpened OBVIOUS
<1>1. /\ ~isOpen /\ ScanAccepts(db) /\ isOpen' = TRUE /\ stats' = Footprint(db) /\ db' = db
      /\ IsDatabase(db)
  BY DEF Open, RecordsInv
<1>2. Written(db)
  <2>1. RecordsInv' BY OpenInv
  <2>2. Written(db') BY <1>1, <2>1 DEF RecordsInv
  <2> QED BY <1>1, <2>2
<1>3. Decoded = DecodedFrom(db) /\ Decoded' = Decoded BY <1>1, DecodedNext
<1>4. ASSUME NEW k \in Tier!KeysOf(Decoded) PROVE Decoded[k].valid
  <2>1. k \in Keys /\ DecodedFrom(db)[k] # NoBlock BY <1>3 DEF Tier!KeysOf
  <2>2. KeyToString(k) \in DOMAIN db BY <2>1, DecodedRecord
  <2> QED BY <1>2, <1>3, <2>1, <2>2, DecodedWritten
<1>5. /\ Cardinality(Tier!KeysOf(Decoded)) = Footprint(db).blocks
      /\ Cardinality(Tier!Cells(Decoded, kHeaderSize)) = Footprint(db).bytes
  BY <1>1, <1>2, <1>3, DecodedCells
<1>6. Footprint(db) = [blocks |-> Footprint(db).blocks, bytes |-> Footprint(db).bytes]
  BY DEF Footprint
<1>7. stats' = Tier!StatsOf(Decoded, kHeaderSize)
  BY <1>1, <1>5, <1>6, SameCardinality DEF Tier!StatsOf
<1>8. Cardinality(Tier!Cells(Decoded, kHeaderSize)) <= MaxUnsigned(8)
  BY <1>1, <1>5 DEF ScanAccepts
<1>9. Tier!SsdScanned BY <1>3, <1>4, <1>7, <1>8, SameCardinality DEF Tier!SsdScanned
<1> QED BY <1>1, <1>9 DEF Tier!SsdOpened

(* Close and the end of the process are those of SsdTier.                  *)
LEMMA CloseImplements == (Close => Tier!SsdClose) /\ (Lost => Tier!SsdLost)
BY DecodedNext DEF Close, Lost, Tier!SsdClose, Tier!SsdLost, Tier!ZeroStats

(* used_bytes of an open tier is a uint64_t.                               *)
LEMMA CounterType ==
  ASSUME RecordsInv, isOpen
  PROVE  stats = [blocks |-> stats.blocks, bytes |-> stats.bytes] /\ stats.bytes \in 0 .. MaxUnsigned(8)
<1> DEFINE F == Footprint(db).bytes
<1>1. stats = [blocks |-> Footprint(db).blocks, bytes |-> F % U64Values] /\ IsDatabase(db)
  BY DEF RecordsInv
<1>2. F \in Nat BY <1>1, FootprintFinite
<1> HIDE DEF F
<1>3. (F % U64Values) \in 0 .. U64Values - 1 BY <1>2, U64Type, Quotient
<1> QED BY <1>1, <1>3, U64Type

(* Put is SsdPut of the block that a Get will return.                      *)
LEMMA PutRecordImplements ==
  ASSUME NEW k \in Keys, NEW b \in Blocks, RecordsInv, PutRecord(k, b)
  PROVE  Tier!SsdPut(k, BlockOf(k, b))
<1> DEFINE t == KeyToString(k)
           blob == SerializeBlock(b)
           old == IF t \in DOMAIN db THEN Len(db[t]) ELSE 0
           len == Len(blob)
           c == BlockOf(k, b)
           s == DecodedFrom(db)
<1>1. /\ isOpen /\ isOpen' = isOpen /\ ValidMetadata(k, b.metadata)
      /\ db' = With(db, t, blob)
      /\ stats' = [blocks |-> IF t \in DOMAIN db THEN stats.blocks ELSE stats.blocks + 1,
                   bytes  |-> (stats.bytes + U64Values - old + len) % U64Values]
  BY DEF PutRecord, With
<1>2. Written(db) BY <1>1 DEF RecordsInv
<1>3. Decoded = s /\ Decoded' = [s EXCEPT ![k] = c]
  BY <1>1, DecodedNext, DecodedWith
<1>4. c.valid /\ c.size + kHeaderSize = len /\ len \in 0 .. MaxUnsigned(8)
  <2>1. /\ len = kHeaderSize + Len(b.data) /\ Len(b.data) \in Nat /\ len <= MaxUnsigned(8)
    BY RecordReads
  <2>2. c.size = Len(b.data) /\ c.valid = ValidMetadata(k, b.metadata) BY BlockOfType
  <2> HIDE DEF c, len
  <2> QED BY <1>1, <2>1, <2>2, U64Type DEF kHeaderSize
<1>5. stats = [blocks |-> stats.blocks, bytes |-> stats.bytes] /\ stats.bytes \in 0 .. MaxUnsigned(8)
  BY <1>1, CounterType
<1> HIDE DEF len, c
<1>6. stats' = IF s[k] = NoBlock
               THEN [blocks |-> stats.blocks + 1, bytes |-> Tier!U64Add(stats.bytes, len)]
               ELSE [stats EXCEPT !.bytes =
                       Tier!U64Add(Tier!U64Sub(stats.bytes, s[k].size + kHeaderSize), len)]
  <2>1. CASE t \notin DOMAIN db
    <3>1. s[k] = NoBlock /\ old = 0 BY <2>1, DecodedRecord
    <3>2. (stats.bytes + U64Values - 0 + len) % U64Values = Tier!U64Add(stats.bytes, len)
      BY <1>4, <1>5, CounterUpdate
    <3> QED BY <1>1, <2>1, <3>1, <3>2
  <2>2. CASE t \in DOMAIN db
    <3>1. s[k] # NoBlock /\ s[k].size + kHeaderSize = Len(db[t]) /\ old = Len(db[t])
      BY <1>2, <2>2, DecodedWritten
    <3>2. old \in 0 .. MaxUnsigned(8) BY <1>2, <2>2, <3>1, WrittenLength
    <3> HIDE DEF old, s, t
    <3>3. (stats.bytes + U64Values - old + len) % U64Values
            = Tier!U64Add(Tier!U64Sub(stats.bytes, old), len)
      BY <1>4, <1>5, <3>2, CounterUpdate
    <3>4. stats' = [blocks |-> stats.blocks, bytes |-> Tier!U64Add(Tier!U64Sub(stats.bytes, old), len)]
      BY <1>1, <2>2, <3>3
    <3>5. s[k].size + kHeaderSize = old BY <3>1
    <3>6. ASSUME NEW x PROVE [stats EXCEPT !.bytes = x] = [blocks |-> stats.blocks, bytes |-> x]
      BY <1>5
    <3> QED BY <3>1, <3>4, <3>5, <3>6
  <2> QED BY <2>1, <2>2
<1> HIDE DEF s
<1>7. Tier!SsdWrite(k, c)
  BY <1>1, <1>3, <1>4, <1>6 DEF Tier!SsdWrite
<1> QED BY <1>1, <1>4, <1>7 DEF Tier!SsdPut, c

(* Evict is SsdEvict.                                                      *)
LEMMA EvictImplements ==
  ASSUME NEW k \in Keys, RecordsInv, Evict(k)
  PROVE  Tier!SsdEvict(k)
<1> DEFINE t == KeyToString(k)
           old == Len(db[t])
           s == DecodedFrom(db)
<1>1. /\ isOpen /\ isOpen' = isOpen /\ t \in DOMAIN db
      /\ db' = Without(db, t)
      /\ stats' = [blocks |-> IF stats.blocks > 0 THEN stats.blocks - 1 ELSE 0,
                   bytes  |-> (stats.bytes + U64Values - old) % U64Values]
  BY DEF Evict, Without
<1>2. Written(db) BY <1>1 DEF RecordsInv
<1>3. Decoded = s /\ Decoded' = [s EXCEPT ![k] = NoBlock]
  BY <1>1, DecodedNext, DecodedWithout
<1>4. s[k] # NoBlock /\ s[k].size + kHeaderSize = old BY <1>1, <1>2, DecodedWritten
<1>5. old \in 0 .. MaxUnsigned(8) BY <1>1, <1>2, WrittenLength
<1>6. stats.bytes \in 0 .. MaxUnsigned(8) BY <1>1, CounterType
<1> HIDE DEF t, old, s
<1>7. (stats.bytes + U64Values - old) % U64Values = Tier!U64Sub(stats.bytes, old)
  BY <1>5, <1>6, CounterUpdate
<1> QED BY <1>1, <1>3, <1>4, <1>7 DEF Tier!SsdEvict

(* Whatever database it finds, every step of the tier on bytes is a step   *)
(* of SsdTier on the blocks the bytes decode to: SsdTier::Get returns the  *)
(* block that was put, and Put, Evict and Open count alike on both levels. *)
THEOREM BytesImplementBlocks == RecordsSpec => StepsOfSsdTier
<1>1. RecordsInv /\ [RecordsNext]_recordVars => [Tier!SsdNext]_Tier!ssdVars
  <2> SUFFICES ASSUME RecordsInv, [RecordsNext]_recordVars PROVE [Tier!SsdNext]_Tier!ssdVars
    OBVIOUS
  <2>1. CASE Open BY <2>1, OpenImplements DEF Tier!SsdNext
  <2>2. CASE Close \/ Lost BY <2>2, CloseImplements DEF Tier!SsdNext
  <2>3. ASSUME NEW k \in Keys, Evict(k) PROVE Tier!SsdNext
    BY <2>3, EvictImplements DEF Tier!SsdNext
  <2>4. ASSUME NEW k \in Keys, NEW b \in Blocks, PutRecord(k, b) PROVE Tier!SsdNext
    <3>1. Tier!SsdPut(k, BlockOf(k, b)) BY <2>4, PutRecordImplements
    <3>2. BlockOf(k, b) \in {BlockOf(j, c) : j \in Keys, c \in Blocks} OBVIOUS
    <3> QED BY <3>1, <3>2 DEF Tier!SsdNext
  <2>5. CASE UNCHANGED recordVars
    <3>1. db' = db /\ isOpen' = isOpen /\ stats' = stats BY <2>5 DEF recordVars
    <3>2. Decoded' = Decoded BY <3>1, DecodedNext
    <3> QED BY <3>1, <3>2 DEF Tier!ssdVars
  <2> QED BY <2>1, <2>2, <2>3, <2>4, <2>5 DEF RecordsNext
<1> QED BY <1>1, RecordsInvariant, PTL DEF RecordsSpec, StepsOfSsdTier

(* A tier that creates its database starts as SsdTier starts, so its whole *)
(* behaviour is one of SsdTier.                                            *)
THEOREM FreshTierImplements ==
  RecordsSpec /\ DOMAIN db = {} => Tier!SsdInit /\ [][Tier!SsdNext]_Tier!ssdVars
<1>1. RecordsInit /\ DOMAIN db = {} => Tier!SsdInit
  <2> SUFFICES ASSUME RecordsInit, DOMAIN db = {} PROVE Tier!SsdInit OBVIOUS
  <2>1. ASSUME NEW k \in Keys PROVE DecodedFrom(db)[k] = NoBlock BY DecodedRecord
  <2>2. Decoded = [k \in Keys |-> NoBlock]
    <3>1. Decoded = DecodedFrom(db) BY DecodedIsFrom
    <3>2. DecodedFrom(db) = [k \in Keys |-> DecodedFrom(db)[k]] BY DEF DecodedFrom
    <3> HIDE DEF DecodedFrom
    <3> QED BY <2>1, <3>1, <3>2
  <2> QED BY <2>2 DEF RecordsInit, Tier!SsdInit, Tier!EmptyStore, Tier!ZeroStats
<1> QED BY <1>1, BytesImplementBlocks, PTL DEF RecordsSpec, StepsOfSsdTier

(* There are finitely many BlockKeys.                                      *)
LEMMA FiniteKeys == IsFiniteSet(BlockKey) /\ IsFiniteSet(Keys)
<1> DEFINE U8 == Unsigned(8)
           U4 == Unsigned(4)
           f == [e \in (U8 \X U4) \X U4 |->
                   [prefix_hash |-> e[1][1], prefix_len |-> e[1][2], model_fingerprint |-> e[2]]]
<1>1. IsFiniteSet(U8) /\ IsFiniteSet(U4)
  <2>1. MaxUnsigned(8) \in Int /\ MaxUnsigned(4) \in Int /\ 0 \in Int BY Widths
  <2> QED BY <2>1, FS_Interval DEF Unsigned
<1>2. BlockKey = [prefix_hash : U8, prefix_len : U4, model_fingerprint : U4] BY DEF BlockKey
<1> HIDE DEF U8, U4
<1>3. IsFiniteSet((U8 \X U4) \X U4)
  <2>1. IsFiniteSet(U8 \X U4) BY <1>1, FS_Product
  <2> QED BY <1>1, <2>1, FS_Product
<1>4. f \in Surjection((U8 \X U4) \X U4, BlockKey)
  <2>1. f \in [(U8 \X U4) \X U4 -> BlockKey] BY <1>2
  <2>2. ASSUME NEW k \in BlockKey PROVE \E e \in (U8 \X U4) \X U4 : f[e] = k
    <3> DEFINE e == <<<<k.prefix_hash, k.prefix_len>>, k.model_fingerprint>>
    <3>1. e \in (U8 \X U4) \X U4 BY <1>2
    <3>2. f[e] = [prefix_hash |-> k.prefix_hash, prefix_len |-> k.prefix_len,
                  model_fingerprint |-> k.model_fingerprint]
      BY <3>1
    <3>3. f[e] = k BY <3>2, <1>2
    <3> QED BY <3>1, <3>3
  <2> QED BY <2>1, <2>2 DEF Surjection
<1> HIDE DEF f
<1>5. IsFiniteSet(BlockKey) BY <1>3, <1>4, FS_Surjection
<1> QED BY <1>5, FS_Subset, RecordsAssumption

(* What Blocks assumes of keys, blocks and sizes holds of what the bytes   *)
(* decode to: the results about SsdTier apply to the tier on bytes.        *)
THEOREM DecodedBlocksAssumption ==
  LET decoded == {BlockOf(k, b) : k \in Keys, b \in Blocks}
  IN  /\ IsFiniteSet(Keys) /\ NoBlock \notin decoded
      /\ kHeaderSize \in Nat /\ MaxUnsigned(8) \in Nat
      /\ \A c \in decoded : /\ c.size \in Nat /\ c.size + kHeaderSize <= MaxUnsigned(8)
                            /\ c.valid \in BOOLEAN
<1>1. ASSUME NEW k \in Keys, NEW b \in Blocks
      PROVE  /\ BlockOf(k, b) # NoBlock /\ BlockOf(k, b).size \in Nat
             /\ BlockOf(k, b).size + kHeaderSize <= MaxUnsigned(8)
             /\ BlockOf(k, b).valid \in BOOLEAN
  <2>1. Len(b.data) \in Nat BY RecordReads
  <2>2. kHeaderSize + Len(b.data) <= MaxUnsigned(8) BY RecordsAssumption
  <2>3. kHeaderSize + Len(b.data) = Len(b.data) + kHeaderSize BY <2>1 DEF kHeaderSize
  <2>4. ValidMetadata(k, b.metadata) \in BOOLEAN BY DEF ValidMetadata
  <2> QED BY <2>1, <2>2, <2>3, <2>4, BlockOfType
<1>2. kHeaderSize \in Nat /\ MaxUnsigned(8) \in Nat BY U64Type DEF kHeaderSize
<1> QED BY <1>1, <1>2, FiniteKeys
=============================================================================
