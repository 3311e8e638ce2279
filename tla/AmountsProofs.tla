----------------------------- MODULE AmountsProofs -----------------------------
(***************************************************************************)
(* The decimal arithmetic of app/services/money.py, of /create and of the  *)
(* validators, for all items, rates, slips and numbers of lines.           *)
(*                                                                         *)
(* A sum over the lines is a recursive function, so what is said of it is  *)
(* proved by induction on the number of lines.  The induction is made with *)
(* sets: the numbers up to which a claim holds are all numbers (Induction, *)
(* from the fact that < is well-founded on Nat).                           *)
(***************************************************************************)
EXTENDS Amounts, WellFoundedInduction, TLAPS

(* A set of numbers with 0 and all successors has all numbers. *)
LEMMA Induction ==
  ASSUME NEW S, 0 \in S, \A n \in Nat : n \in S => n + 1 \in S
  PROVE  Nat \subseteq S
<1> DEFINE T == Nat \ S
<1> SUFFICES ASSUME T # {} PROVE FALSE
  OBVIOUS
<1>1. PICK x \in T : \A y \in T : ~ (<<y, x>> \in OpToRel(<, Nat))
  BY NatLessThanWellFounded, WFMin, Zenon
<1>2. x \in Nat /\ x # 0
  OBVIOUS
<1>3. x - 1 \in Nat /\ x - 1 \notin S
  BY <1>2
<1>4. <<x - 1, x>> \in OpToRel(<, Nat)
  BY <1>2, <1>3 DEF OpToRel
<1> QED
  BY <1>1, <1>3, <1>4, Zenon

(* The results of a loop of N turns that starts from base. *)
IsLoop(f, N, base, turn) ==
  f = [n \in 0..N |-> IF n = 0 THEN base ELSE turn[<<n, f[n - 1]>>]]

(* A loop of N turns that starts from base has a result for each turn: the *)
(* function that a recursive definition chooses is there.                  *)
LEMMA LoopExists ==
  ASSUME NEW N \in Nat, NEW S, NEW base \in S, NEW turn \in [(1..N) \X S -> S]
  PROVE  \E f \in [0..N -> S] : IsLoop(f, N, base, turn)
<1> DEFINE Loop(f, n) == /\ f \in [0..n -> S] /\ f[0] = base
                         /\ \A m \in 1..n : f[m] = turn[<<m, f[m - 1]>>]
           I == {n \in Nat : n <= N => \E f : Loop(f, n)}
<1>1. 0 \in I
  <2> DEFINE f == [k \in {0} |-> base]
  <2>1. 0..0 = {0} /\ 1..0 = {}
    OBVIOUS
  <2>2. f \in [{0} -> S] /\ f[0] = base
    OBVIOUS
  <2>3. Loop(f, 0)
    BY <2>1, <2>2, Zenon
  <2> QED
    BY <2>3
<1>2. ASSUME NEW n \in Nat, n \in I PROVE n + 1 \in I
  <2> SUFFICES ASSUME n + 1 <= N PROVE \E g : Loop(g, n + 1)
    OBVIOUS
  <2>1. \E f : Loop(f, n)
    BY <1>2
  <2>2. PICK f : Loop(f, n)
    BY <2>1
  <2> DEFINE new == turn[<<n + 1, f[n]>>]
             g   == [m \in 0..(n + 1) |-> IF m = n + 1 THEN new ELSE f[m]]
  <2>3. new \in S
    <3>1. f[n] \in S /\ n + 1 \in 1..N
      BY <2>2
    <3> QED
      BY <3>1
  <2> HIDE DEF new
  <2>4. g \in [0..(n + 1) -> S] /\ g[0] = base
    BY <2>2, <2>3
  <2>5. ASSUME NEW m \in 1..(n + 1) PROVE g[m] = turn[<<m, g[m - 1]>>]
    <3>1. CASE m = n + 1
      <4>1. g[m] = new /\ g[m - 1] = f[n] /\ m = n + 1
        BY <3>1
      <4> QED
        BY <4>1 DEF new
    <3>2. CASE m # n + 1
      <4>1. m \in 1..n /\ m - 1 \in 0..n
        BY <3>2
      <4>2. f[m] = turn[<<m, f[m - 1]>>]
        BY <2>2, <4>1
      <4>3. g[m] = f[m] /\ g[m - 1] = f[m - 1]
        BY <4>1
      <4> QED
        BY <4>2, <4>3
    <3> QED
      BY <3>1, <3>2
  <2> QED
    BY <2>4, <2>5
<1> HIDE DEF I
<1>3. Nat \subseteq I
  BY <1>1, <1>2, Induction
<1>4. \E f : Loop(f, N)
  <2>1. N \in I
    BY <1>3
  <2> QED
    BY <2>1 DEF I
<1>5. PICK f : Loop(f, N)
  BY <1>4
<1> DEFINE e == [n \in 0..N |-> IF n = 0 THEN base ELSE turn[<<n, f[n - 1]>>]]
<1>6. ASSUME NEW n \in 0..N PROVE e[n] = f[n]
  <2>1. n = 0 \/ n \in 1..N
    OBVIOUS
  <2> QED
    BY <1>5, <2>1
<1>7. f = [n \in 0..N |-> f[n]] /\ e = [n \in 0..N |-> e[n]]
  BY <1>5
<1> HIDE DEF e
<1>8. f = e
  BY <1>6, <1>7
<1> QED
  BY <1>5, <1>8 DEF e, IsLoop

(* What the turns of a loop keep, all of its results have. *)
LEMMA LoopKeeps ==
  ASSUME NEW N \in Nat, NEW P, NEW f, f[0] \in P,
         \A n \in 1..N : f[n - 1] \in P => f[n] \in P
  PROVE  \A n \in 0..N : f[n] \in P
<1> DEFINE I == {n \in Nat : n <= N => f[n] \in P}
<1>1. 0 \in I
  OBVIOUS
<1>2. ASSUME NEW n \in Nat, n \in I PROVE n + 1 \in I
  <2> SUFFICES ASSUME n + 1 <= N PROVE f[n + 1] \in P
    OBVIOUS
  <2>1. n + 1 \in 1..N /\ (n + 1) - 1 = n /\ f[n] \in P
    BY <1>2
  <2> QED
    BY <2>1
<1> HIDE DEF I
<1>3. Nat \subseteq I
  BY <1>1, <1>2, Induction
<1> QED
  BY <1>3 DEF I

-----------------------------------------------------------------------------
(* Sums. *)

(* The sums of a loop over integers are integers, each the one before and  *)
(* one more amount.                                                        *)
LEMMA PartialSumsAre ==
  ASSUME NEW v \in Seq(Int)
  PROVE  /\ PartialSums(v)[0] = 0
         /\ \A n \in 1..Len(v) : PartialSums(v)[n] = PartialSums(v)[n - 1] + v[n]
         /\ \A n \in 0..Len(v) : PartialSums(v)[n] \in Int
<1> DEFINE p    == PartialSums(v)
           turn == [t \in (1..Len(v)) \X Int |-> t[2] + v[t[1]]]
<1>1. Len(v) \in Nat /\ \A n \in 1..Len(v) : v[n] \in Int
  OBVIOUS
<1>2. turn \in [(1..Len(v)) \X Int -> Int]
  BY <1>1
<1>3. \A n \in 1..Len(v), s \in Int : turn[<<n, s>>] = s + v[n]
  OBVIOUS
<1> HIDE DEF turn
<1>4. PICK f \in [0..Len(v) -> Int] : IsLoop(f, Len(v), 0, turn)
  <2>1. Len(v) \in Nat /\ 0 \in Int
    BY <1>1
  <2> QED
    BY <1>2, <2>1, LoopExists
<1>5. ASSUME NEW n \in 0..Len(v), n # 0 PROVE turn[<<n, f[n - 1]>>] = f[n - 1] + v[n]
  <2>1. n \in 1..Len(v) /\ f[n - 1] \in Int
    BY <1>1, <1>5
  <2> QED
    BY <1>3, <2>1
<1>6. f = [n \in 0..Len(v) |-> IF n = 0 THEN 0 ELSE f[n - 1] + v[n]]
  <2>1. \A n \in 0..Len(v) :
          (IF n = 0 THEN 0 ELSE turn[<<n, f[n - 1]>>])
            = IF n = 0 THEN 0 ELSE f[n - 1] + v[n]
    BY <1>5, Zenon
  <2> QED
    BY <1>4, <2>1, Zenon DEF IsLoop
<1>7. p = [n \in 0..Len(v) |-> IF n = 0 THEN 0 ELSE p[n - 1] + v[n]]
  BY <1>6 DEF PartialSums
<1> HIDE DEF p
<1>8. \A n \in 0..Len(v) : p[n] = IF n = 0 THEN 0 ELSE p[n - 1] + v[n]
  BY <1>7
<1>9. p[0] = 0 /\ \A n \in 1..Len(v) : p[n] = p[n - 1] + v[n]
  BY <1>1, <1>8
<1>10. \A n \in 0..Len(v) : p[n] \in Int
  <2>1. PICK P : P = Int
    OBVIOUS
  <2>2. p[0] \in P /\ \A n \in 1..Len(v) : p[n - 1] \in P => p[n] \in P
    BY <1>1, <1>9, <2>1, SMTT(30)
  <2>3. Len(v) \in Nat
    OBVIOUS
  <2>4. \A n \in 0..Len(v) : p[n] \in P
    BY <2>2, <2>3, LoopKeeps
  <2> QED
    BY <2>1, <2>4
<1> QED
  BY <1>9, <1>10 DEF p

(* One amount more is added to the sum. *)
LEMMA SumAppend ==
  ASSUME NEW v \in Seq(Int), NEW x \in Int
  PROVE  SumOf(v) \in Int /\ SumOf(Append(v, x)) = SumOf(v) + x
<1> DEFINE w == Append(v, x)
           p == PartialSums(v)
           q == PartialSums(w)
           I == {n \in Nat : n <= Len(v) => q[n] = p[n]}
<1>1. /\ w \in Seq(Int) /\ Len(v) \in Nat /\ Len(w) = Len(v) + 1 /\ w[Len(w)] = x
      /\ \A n \in 1..Len(v) : w[n] = v[n]
  OBVIOUS
<1> HIDE DEF w
<1>2. p[0] = 0 /\ \A n \in 1..Len(v) : p[n] = p[n - 1] + v[n]
  BY PartialSumsAre
<1>3. q[0] = 0 /\ \A n \in 1..Len(w) : q[n] = q[n - 1] + w[n]
  BY <1>1, PartialSumsAre
<1>4. p[Len(v)] \in Int
  BY <1>1, PartialSumsAre
<1> HIDE DEF p, q
<1>5. 0 \in I
  BY <1>2, <1>3
<1>6. ASSUME NEW n \in Nat, n \in I PROVE n + 1 \in I
  <2> SUFFICES ASSUME n + 1 <= Len(v) PROVE q[n + 1] = p[n + 1]
    OBVIOUS
  <2>1. n + 1 \in 1..Len(v) /\ n + 1 \in 1..Len(w) /\ (n + 1) - 1 = n /\ q[n] = p[n]
    BY <1>1, <1>6
  <2> QED
    BY <1>1, <1>2, <1>3, <2>1
<1> HIDE DEF I
<1>7. Nat \subseteq I
  BY <1>5, <1>6, Induction
<1>8. q[Len(v)] = p[Len(v)]
  BY <1>1, <1>7 DEF I
<1>9. q[Len(w)] = q[Len(v)] + x
  <2>1. Len(w) \in 1..Len(w) /\ Len(w) - 1 = Len(v)
    BY <1>1
  <2> QED
    BY <1>1, <1>3, <2>1
<1> QED
  BY <1>4, <1>8, <1>9 DEF p, q, w, SumOf

(* The sum of nothing. *)
LEMMA SumEmpty == SumOf(<< >>) = 0
<1> DEFINE v == << >>
<1>1. v \in Seq(Int) /\ Len(v) = 0
  OBVIOUS
<1> HIDE DEF v
<1>2. PartialSums(v)[0] = 0
  BY <1>1, PartialSumsAre
<1>3. SumOf(v) = 0
  BY <1>1, <1>2 DEF SumOf
<1> QED
  BY <1>3 DEF v

(* A change of one amount changes the sum by as much. *)
LEMMA SumExcept ==
  ASSUME NEW v \in Seq(Int), NEW k \in DOMAIN v, NEW x \in Int
  PROVE  SumOf([v EXCEPT ![k] = @ + x]) = SumOf(v) + x
<1> DEFINE w == [v EXCEPT ![k] = @ + x]
           p == PartialSums(v)
           q == PartialSums(w)
           I == {n \in Nat : n <= Len(v) => q[n] = p[n] + (IF n < k THEN 0 ELSE x)}
<1>1. /\ Len(v) \in Nat /\ k \in 1..Len(v) /\ \A n \in 1..Len(v) : v[n] \in Int
      /\ w \in Seq(Int) /\ Len(w) = Len(v)
      /\ \A n \in 1..Len(v) : w[n] = IF n = k THEN v[n] + x ELSE v[n]
  OBVIOUS
<1> HIDE DEF w
<1>2. /\ p[0] = 0 /\ \A n \in 1..Len(v) : p[n] = p[n - 1] + v[n]
      /\ \A n \in 0..Len(v) : p[n] \in Int
  BY PartialSumsAre
<1>3. q[0] = 0 /\ \A n \in 1..Len(v) : q[n] = q[n - 1] + w[n]
  BY <1>1, PartialSumsAre
<1> HIDE DEF p, q
<1>4. 0 \in I
  BY <1>1, <1>2, <1>3
<1>5. ASSUME NEW n \in Nat, n \in I PROVE n + 1 \in I
  <2> SUFFICES ASSUME n + 1 <= Len(v)
               PROVE  q[n + 1] = p[n + 1] + (IF n + 1 < k THEN 0 ELSE x)
    OBVIOUS
  <2>1. n + 1 \in 1..Len(v) /\ n \in 0..Len(v) /\ (n + 1) - 1 = n
    BY <1>1
  <2>2. q[n + 1] = q[n] + w[n + 1] /\ p[n + 1] = p[n] + v[n + 1]
    BY <1>2, <1>3, <2>1
  <2>3. p[n] \in Int /\ v[n + 1] \in Int /\ q[n] = p[n] + (IF n < k THEN 0 ELSE x)
    BY <1>1, <1>2, <1>5, <2>1
  <2>4. w[n + 1] = IF n + 1 = k THEN v[n + 1] + x ELSE v[n + 1]
    BY <1>1, <2>1
  <2>5. k \in Int
    BY <1>1
  <2> QED
    BY <2>2, <2>3, <2>4, <2>5
<1> HIDE DEF I
<1>6. Nat \subseteq I
  BY <1>4, <1>5, Induction
<1>7. q[Len(v)] = p[Len(v)] + x
  <2>1. Len(v) \in I /\ ~(Len(v) < k) /\ Len(v) <= Len(v)
    BY <1>1, <1>6
  <2> QED
    BY <2>1 DEF I
<1> QED
  BY <1>1, <1>7 DEF p, q, w, SumOf

(* Two sums are near when what they are of is. *)
LEMMA NearSums ==
  ASSUME NEW a \in Int, NEW b \in Int, NEW c \in Int, NEW d \in Int, NEW n \in Nat,
         Abs(a - 10 * b) <= 15 * n, Abs(c - 10 * d) <= 15
  PROVE  Abs((a + c) - 10 * (b + d)) <= 15 * (n + 1)
  BY DEF Abs

(* Amounts that are each near to ten times another sum up to something     *)
(* near to ten times the sum of the others: mills and cents.               *)
LEMMA SumsNear ==
  ASSUME NEW v \in Seq(Int), NEW w \in Seq(Int), Len(v) = Len(w),
         \A n \in 1..Len(v) : Abs(v[n] - 10 * w[n]) <= 15
  PROVE  Abs(SumOf(v) - 10 * SumOf(w)) <= 15 * Len(v)
<1> DEFINE p == PartialSums(v)
           q == PartialSums(w)
           I == {n \in Nat : n <= Len(v) => Abs(p[n] - 10 * q[n]) <= 15 * n}
<1>1. Len(v) \in Nat /\ \A n \in 1..Len(v) : v[n] \in Int /\ w[n] \in Int
  OBVIOUS
<1>2. /\ p[0] = 0 /\ \A n \in 1..Len(v) : p[n] = p[n - 1] + v[n]
      /\ \A n \in 0..Len(v) : p[n] \in Int
  BY PartialSumsAre
<1>3. /\ q[0] = 0 /\ \A n \in 1..Len(v) : q[n] = q[n - 1] + w[n]
      /\ \A n \in 0..Len(v) : q[n] \in Int
  BY PartialSumsAre
<1> HIDE DEF p, q
<1>4. 0 \in I
  BY <1>2, <1>3 DEF Abs
<1>5. ASSUME NEW n \in Nat, n \in I PROVE n + 1 \in I
  <2> SUFFICES ASSUME n + 1 <= Len(v) PROVE Abs(p[n + 1] - 10 * q[n + 1]) <= 15 * (n + 1)
    OBVIOUS
  <2>1. n + 1 \in 1..Len(v) /\ n \in 0..Len(v) /\ (n + 1) - 1 = n
    BY <1>1
  <2>2. p[n + 1] = p[n] + v[n + 1] /\ q[n + 1] = q[n] + w[n + 1]
    BY <1>2, <1>3, <2>1
  <2>3. /\ p[n] \in Int /\ q[n] \in Int /\ v[n + 1] \in Int /\ w[n + 1] \in Int
        /\ Abs(p[n] - 10 * q[n]) <= 15 * n
        /\ Abs(v[n + 1] - 10 * w[n + 1]) <= 15
    BY <1>1, <1>2, <1>3, <1>5, <2>1
  <2> QED
    BY <2>2, <2>3, NearSums
<1> HIDE DEF I
<1>6. Nat \subseteq I
  BY <1>4, <1>5, Induction
<1> QED
  BY <1>1, <1>6 DEF I, p, q, SumOf

-----------------------------------------------------------------------------
(* Rounding. *)

(* money rounds to a whole cent that is half a cent away at most.          *)
LEMMA MoneyNear ==
  ASSUME NEW x \in Int, NEW unit \in {10, 100, 1000}
  PROVE  Money(x, unit) \in Int /\ 2 * Abs(unit * Money(x, unit) - x) <= unit
<1>1. CASE unit = 10
  BY <1>1 DEF Money, Abs
<1>2. CASE unit = 100
  BY <1>2 DEF Money, Abs
<1>3. CASE unit = 1000
  BY <1>3 DEF Money, Abs
<1> QED
  BY <1>1, <1>2, <1>3

(* A whole number of cents is not rounded. *)
LEMMA MoneyOfCents ==
  ASSUME NEW c \in Int
  PROVE  Money(10 * c, 10) = c
  BY DEF Money

(* What same_money accepts is fifteen mills away at most. *)
LEMMA SameMoneyNear ==
  ASSUME NEW d \in Int, NEW c \in Int, SameMoney(d, c)
  PROVE  Abs(d - 10 * c) <= 15
<1>1. d # None
  BY AmountsAssumption
<1>2. Money(d, 10) \in Int /\ 2 * Abs(10 * Money(d, 10) - d) <= 10
  BY MoneyNear
<1>3. Abs(Money(d, 10) - c) <= 1
  BY <1>1 DEF SameMoney
<1> QED
  BY <1>2, <1>3 DEF Abs

(* An amount that is right is the same money. *)
LEMMA SameMoneyOfCents ==
  ASSUME NEW c \in Int
  PROVE  SameMoney(10 * c, c)
<1>1. Abs(Money(10 * c, 10) - c) <= 1
  BY MoneyOfCents DEF Abs
<1> QED
  BY <1>1 DEF SameMoney

(* The amounts of an item are whole cents; its tax is half a cent away     *)
(* from its rate of its extension.                                         *)
LEMMA ItemAmounts ==
  ASSUME NEW item \in Items
  PROVE  /\ item.rate \in Nat
         /\ Extension(item) \in Int /\ LineTax(item) \in Int
         /\ 2 * Abs(1000 * LineTax(item) - Extension(item) * item.rate) <= 1000
<1>1. item \in Item
  BY AmountsAssumption
<1>2. item.quantity \in Int /\ item.price \in Int /\ item.rate \in Nat
  BY <1>1 DEF Item
<1>3. item.quantity * item.price \in Int
  BY <1>2
<1>4. Extension(item) \in Int
  BY <1>3, MoneyNear DEF Extension
<1>5. PICK x \in Int : x = Extension(item) * item.rate
  BY <1>2, <1>4
<1>6. LineTax(item) = Money(x, 1000)
  BY <1>5 DEF LineTax
<1>7. LineTax(item) \in Int /\ 2 * Abs(1000 * LineTax(item) - x) <= 1000
  BY <1>6, MoneyNear
<1> QED
  BY <1>2, <1>4, <1>5, <1>7

-----------------------------------------------------------------------------
(* Types. *)

(* A client's amount is an amount, or none. *)
LEMMA SlippedType ==
  ASSUME NEW c \in Int, NEW slip \in Int \cup {None}
  PROVE  Slipped(c, slip) \in OptionalMills
  BY DEF Slipped, OptionalMills

(* The amounts that are stated of a line. *)
LEMMA StatedType ==
  ASSUME NEW item \in Items, NEW slips,
         \A k \in 1..3 : slips[k] \in Int \cup {None}
  PROVE  Stated(item, slips) \in Line
<1>1. /\ Extension(item) \in Int /\ LineTax(item) \in Int
      /\ Extension(item) + LineTax(item) \in Int
  BY ItemAmounts
<1>2. /\ slips[1] \in Int \cup {None} /\ slips[2] \in Int \cup {None}
      /\ slips[3] \in Int \cup {None}
  OBVIOUS
<1>3. /\ Slipped(Extension(item), slips[1]) \in OptionalMills
      /\ Slipped(LineTax(item), slips[2]) \in OptionalMills
      /\ Slipped(Extension(item) + LineTax(item), slips[3]) \in OptionalMills
  BY <1>1, <1>2, SlippedType
<1> QED
  BY <1>3 DEF Stated, Line

(* The amounts of the lines, as they are and as they are recomputed.       *)
LEMMA LineAmounts ==
  ASSUME lines \in Seq(Line)
  PROVE  /\ Extensions \in Seq(Int) /\ Len(Extensions) = Len(lines)
         /\ LineTaxes \in Seq(Int) /\ Len(LineTaxes) = Len(lines)
         /\ NormalizedNet \in Int /\ NormalizedTax \in Int
         /\ \A n \in 1..Len(lines) : /\ lines[n] \in Line /\ lines[n].item \in Items
                                     /\ Extensions[n] = Extension(lines[n].item)
                                     /\ LineTaxes[n] = LineTax(lines[n].item)
<1>1. DOMAIN lines = 1..Len(lines) /\ Len(lines) \in Nat
  OBVIOUS
<1>2. \A n \in 1..Len(lines) : lines[n] \in Line
  OBVIOUS
<1>3. \A n \in 1..Len(lines) : lines[n].item \in Items
  BY <1>2 DEF Line
<1>4. \A n \in 1..Len(lines) :
        Extension(lines[n].item) \in Int /\ LineTax(lines[n].item) \in Int
  BY <1>3, ItemAmounts
<1>5. /\ Extensions = [n \in 1..Len(lines) |-> Extension(lines[n].item)]
      /\ LineTaxes = [n \in 1..Len(lines) |-> LineTax(lines[n].item)]
  BY <1>1 DEF Extensions, LineTaxes
<1>6. Extensions \in Seq(Int) /\ Len(Extensions) = Len(lines)
  BY <1>1, <1>4, <1>5
<1>7. LineTaxes \in Seq(Int) /\ Len(LineTaxes) = Len(lines)
  BY <1>1, <1>4, <1>5
<1>8. NormalizedNet \in Int /\ NormalizedTax \in Int
  BY <1>6, <1>7, SumAppend DEF NormalizedNet, NormalizedTax
<1> QED
  BY <1>2, <1>3, <1>5, <1>6, <1>7, <1>8

(* What a client may have got wrong is an amount, or nothing. *)
LEMMA SlipsType ==
  ASSUME NEW n \in Nat, NEW slips \in SlipsOf(n), NEW k \in 1..n
  PROVE  slips[k] \in Int \cup {None}
<1>1. /\ \A s \in Slips : s \in Int \cup {None}
      /\ 0 \in Int \cup {None}
  BY AmountsAssumption
<1> QED
  BY <1>1 DEF SlipsOf

(* The amounts and the lines of an invoice keep their types. *)
THEOREM AmountsTypeCorrect == Spec => []TypeOK
<1>1. Init => TypeOK
  BY AmountsAssumption DEF Init, TypeOK
<1>2. TypeOK /\ [Next]_vars => TypeOK'
  <2> SUFFICES ASSUME TypeOK, [Next]_vars PROVE TypeOK'
    OBVIOUS
  <2>0. lines \in Seq(Line) /\ MaxLines \in Nat
    BY AmountsAssumption DEF TypeOK
  <2>1. ASSUME NEW line \in Line, Len(lines) < MaxLines, lines' = Append(lines, line)
        PROVE  lines' \in Seq(Line) /\ Len(lines') <= MaxLines
    BY <2>0, <2>1
  <2>2. ASSUME NEW item \in Items, CreateItem(item) PROVE TypeOK'
    <3>1. Extension(item) \in Int /\ LineTax(item) \in Int
      BY ItemAmounts
    <3>2. net' \in Int /\ tax' \in Int
      BY <2>2, <3>1 DEF CreateItem, TypeOK
    <3>3. \A k \in 1..3 : <<0, 0, 0>>[k] \in Int \cup {None}
      OBVIOUS
    <3>4. Stated(item, <<0, 0, 0>>) \in Line
      BY <3>3, StatedType
    <3> QED
      BY <2>1, <2>2, <3>2, <3>4 DEF CreateItem, TypeOK
  <2>3. CASE CreateTotals
    <3>1. declared' \in Totals
      BY <2>3 DEF CreateTotals, TypeOK, Totals, OptionalMills
    <3> QED
      BY <2>3, <3>1 DEF CreateTotals, TypeOK
  <2>4. ASSUME NEW item \in Items, NEW slips \in SlipsOf(3), ClientLine(item, slips)
        PROVE  TypeOK'
    <3>1. \A k \in 1..3 : slips[k] \in Int \cup {None}
      BY SlipsType
    <3>2. Stated(item, slips) \in Line
      BY <3>1, StatedType
    <3> QED
      BY <2>1, <2>4, <3>2 DEF ClientLine, TypeOK
  <2>5. ASSUME NEW slips \in SlipsOf(4), ClientTotals(slips) PROVE TypeOK'
    <3>1. /\ slips[1] \in Int \cup {None} /\ slips[2] \in Int \cup {None}
          /\ slips[3] \in Int \cup {None} /\ slips[4] \in Int \cup {None}
      <4>1. \A k \in 1..4 : slips[k] \in Int \cup {None}
        BY SlipsType
      <4> QED
        BY <4>1
    <3>2. NormalizedNet \in Int /\ NormalizedTax \in Int
      BY <2>0, LineAmounts
    <3>3. NormalizedNet + NormalizedTax \in Int
      BY <3>2
    <3>4. declared' \in Totals
      BY <2>5, <3>1, <3>2, <3>3, SlippedType DEF ClientTotals, Totals
    <3> QED
      BY <2>5, <3>4 DEF ClientTotals, TypeOK
  <2>6. CASE UNCHANGED vars
    BY <2>6 DEF vars, TypeOK
  <2> QED
    BY <2>2, <2>3, <2>4, <2>5, <2>6 DEF Next
<1> QED
  BY <1>1, <1>2, PTL DEF Spec

-----------------------------------------------------------------------------
(* What /create computes. *)

(* A line more adds its amounts to the sums that are recomputed. *)
LEMMA LineAdds ==
  ASSUME TypeOK, NEW line \in Line, lines' = Append(lines, line)
  PROVE  /\ NormalizedNet' = NormalizedNet + Extension(line.item)
         /\ NormalizedTax' = NormalizedTax + LineTax(line.item)
<1>0. lines \in Seq(Line) /\ lines' \in Seq(Line) /\ line.item \in Items
  BY DEF TypeOK, Line
<1>1. PICK v \in Seq(Int) : v = Extensions
  BY <1>0, LineAmounts
<1>2. PICK t \in Seq(Int) : t = LineTaxes
  BY <1>0, LineAmounts
<1>3. Extension(line.item) \in Int /\ LineTax(line.item) \in Int
  BY <1>0, ItemAmounts
<1>4. Extensions' = Append(v, Extension(line.item))
  BY <1>0, <1>1 DEF Extensions
<1>5. LineTaxes' = Append(t, LineTax(line.item))
  BY <1>0, <1>2 DEF LineTaxes
<1>6. NormalizedNet' = SumOf(Append(v, Extension(line.item)))
  BY <1>4 DEF NormalizedNet, SumOf, PartialSums
<1>7. NormalizedTax' = SumOf(Append(t, LineTax(line.item)))
  BY <1>5 DEF NormalizedTax, SumOf, PartialSums
<1>8. NormalizedNet = SumOf(v) /\ NormalizedTax = SumOf(t)
  BY <1>1, <1>2 DEF NormalizedNet, NormalizedTax
<1> QED
  BY <1>3, <1>6, <1>7, <1>8, SumAppend

(* The running totals of /create are the sums that the validator makes,    *)
(* and it states every amount as it is.                                    *)
CreateInv ==
  source = "create" =>
    /\ net = NormalizedNet /\ tax = NormalizedTax
    /\ \A n \in DOMAIN lines : lines[n] = Stated(lines[n].item, <<0, 0, 0>>)
    /\ declared # None =>
         declared = [net |-> 10 * net, tax |-> 10 * tax,
                     gross |-> 10 * (net + tax), payable |-> 10 * (net + tax)]

(* /create keeps it so. *)
LEMMA CreateInvariant == Spec => [](TypeOK /\ CreateInv)
<1>1. Init => CreateInv
  <2> SUFFICES ASSUME Init PROVE CreateInv
    OBVIOUS
  <2>1. Extensions = << >> /\ LineTaxes = << >>
    BY DEF Init, Extensions, LineTaxes
  <2>2. NormalizedNet = 0 /\ NormalizedTax = 0
    BY <2>1, SumEmpty DEF NormalizedNet, NormalizedTax
  <2> QED
    BY <2>2 DEF Init, CreateInv
<1>2. TypeOK /\ CreateInv /\ [Next]_vars => CreateInv'
  <2> SUFFICES ASSUME TypeOK, CreateInv, [Next]_vars, source' = "create"
               PROVE  CreateInv'
    BY DEF CreateInv
  <2>1. ASSUME NEW item \in Items, CreateItem(item) PROVE CreateInv'
    <3> DEFINE zeros == <<0, 0, 0>>
    <3>1. PICK line \in Line : line = Stated(item, zeros)
      <4>1. \A k \in 1..3 : zeros[k] \in Int \cup {None}
        OBVIOUS
      <4> QED
        BY <4>1, StatedType
    <3>2. line.item = item
      BY <3>1 DEF Stated
    <3>3. lines' = Append(lines, line)
      BY <2>1, <3>1 DEF CreateItem
    <3>4. net' = NormalizedNet' /\ tax' = NormalizedTax'
      BY <2>1, <3>2, <3>3, LineAdds DEF CreateItem, CreateInv
    <3>5. ASSUME NEW n \in DOMAIN lines' PROVE lines'[n] = Stated(lines'[n].item, zeros)
      <4>1. lines \in Seq(Line)
        BY DEF TypeOK
      <4>2. CASE n = Len(lines) + 1
        BY <3>1, <3>2, <3>3, <4>1, <4>2
      <4>3. CASE n # Len(lines) + 1
        <5>1. n \in DOMAIN lines /\ lines'[n] = lines[n]
          BY <3>3, <4>1, <4>3
        <5> QED
          BY <2>1, <5>1 DEF CreateItem, CreateInv
      <4> QED
        BY <4>2, <4>3
    <3> QED
      BY <2>1, <3>4, <3>5 DEF CreateItem, CreateInv
  <2>2. CASE UNCHANGED <<source, lines, net, tax>>
    <3>1. CreateTotals \/ UNCHANGED declared
      BY <2>2 DEF Next, vars, CreateItem, ClientLine, ClientTotals
    <3> QED
      BY <2>2, <3>1 DEF CreateInv, CreateTotals, NormalizedNet, NormalizedTax,
                        Extensions, LineTaxes
  <2> QED
    BY <2>1, <2>2 DEF Next, vars, CreateTotals, ClientLine, ClientTotals
<1> QED
  BY <1>1, <1>2, AmountsTypeCorrect, PTL DEF Spec

(* What /create states of an item in range, the validator accepts. *)
LEMMA StatedIsAccepted ==
  ASSUME NEW item \in Items
  PROVE  LineAccepted(Stated(item, <<0, 0, 0>>)) <=> InRange(item)
<1> DEFINE line == Stated(item, <<0, 0, 0>>)
<1>1. Extension(item) \in Int /\ LineTax(item) \in Int
  BY ItemAmounts
<1>2. ASSUME NEW c \in Int PROVE Slipped(c, 0) = 10 * c
  BY AmountsAssumption DEF Slipped
<1>3. /\ line.item = item
      /\ line.net = 10 * Extension(item) /\ line.tax = 10 * LineTax(item)
      /\ line.total = 10 * (Extension(item) + LineTax(item))
  BY <1>1, <1>2 DEF Stated
<1>4. Extension(item) + LineTax(item) \in Int
  BY <1>1
<1> HIDE DEF line
<1>5. /\ SameMoney(line.net, Extension(item))
      /\ SameMoney(line.tax, LineTax(item))
      /\ SameMoney(line.total, Extension(item) + LineTax(item))
  BY <1>1, <1>3, <1>4, SameMoneyOfCents
<1>6. LineAccepted(line) <=> InRange(item)
  BY <1>3, <1>5 DEF LineAccepted
<1> QED
  BY <1>6 DEF line

(* The invoice that /create builds passes the validator that recomputes    *)
(* it, unless an item is out of range (create_from_scratch,                *)
(* invoices.py:531, with validate, be_peppol.py:24): for all items and     *)
(* numbers of lines, however their amounts round.                          *)
THEOREM CreateComplies == Spec => []CreatedIsCompliant
<1>1. TypeOK /\ CreateInv => CreatedIsCompliant
  <2> SUFFICES ASSUME TypeOK, CreateInv, source = "create", declared # None, lines # << >>
               PROVE  Compliant <=> \A n \in DOMAIN lines : InRange(lines[n].item)
    BY DEF CreatedIsCompliant
  <2>1. lines \in Seq(Line) /\ DOMAIN lines = 1..Len(lines)
    BY DEF TypeOK
  <2>2. \A n \in DOMAIN lines : LineAccepted(lines[n]) <=> InRange(lines[n].item)
    <3> SUFFICES ASSUME NEW n \in DOMAIN lines
                 PROVE  LineAccepted(lines[n]) <=> InRange(lines[n].item)
      OBVIOUS
    <3>1. PICK item \in Items : item = lines[n].item
      BY <2>1, LineAmounts
    <3>2. lines[n] = Stated(item, <<0, 0, 0>>)
      BY <3>1 DEF CreateInv
    <3> QED
      BY <3>1, <3>2, StatedIsAccepted
  <2>3. TotalsAccepted
    <3>1. PICK c \in Int, t \in Int : c = NormalizedNet /\ t = NormalizedTax
      BY <2>1, LineAmounts
    <3>2. /\ declared.net = 10 * c /\ declared.tax = 10 * t
          /\ declared.gross = 10 * (c + t) /\ declared.payable = 10 * (c + t)
      BY <3>1 DEF CreateInv
    <3>3. ASSUME NEW x \in Int PROVE TotalAccepted(10 * x, x)
      BY AmountsAssumption, SameMoneyOfCents DEF TotalAccepted
    <3>4. c + t \in Int
      OBVIOUS
    <3>5. /\ TotalAccepted(declared.net, c) /\ TotalAccepted(declared.tax, t)
          /\ TotalAccepted(declared.gross, c + t) /\ TotalAccepted(declared.payable, c + t)
      BY <3>2, <3>3, <3>4
    <3> QED
      BY <3>1, <3>5 DEF TotalsAccepted
  <2> QED
    BY <2>2, <2>3 DEF Compliant
<1> QED
  BY <1>1, CreateInvariant, PTL

-----------------------------------------------------------------------------
(* What the tolerance and the rounding of each line add up to. *)

(* The tolerance of one cent is granted per line and per total, after      *)
(* rounding (same_money, money.py:20), so the line amounts of a compliant  *)
(* invoice are within one and a half cents per line, and one and a half    *)
(* more, of its declared total, however many lines it has.                 *)
THEOREM LinesAddUp == Spec => []DeclaredLinesAddUp
<1>1. TypeOK => DeclaredLinesAddUp
  <2> SUFFICES ASSUME TypeOK, Compliant, \A n \in DOMAIN lines : lines[n].net # None
               PROVE  Abs(declared.net - SumOf([n \in DOMAIN lines |-> lines[n].net]))
                        <= 15 * (Len(lines) + 1)
    BY DEF DeclaredLinesAddUp
  <2>1. lines \in Seq(Line) /\ DOMAIN lines = 1..Len(lines) /\ Len(lines) \in Nat
    BY DEF TypeOK
  <2>2. \A n \in 1..Len(lines) : lines[n].net \in Int
    BY <2>1, LineAmounts DEF Line, OptionalMills
  <2>3. PICK v : v = [n \in DOMAIN lines |-> lines[n].net]
    OBVIOUS
  <2>4. v \in Seq(Int) /\ Len(v) = Len(lines) /\ \A n \in 1..Len(lines) : v[n] = lines[n].net
    BY <2>1, <2>2, <2>3
  <2>5. PICK w \in Seq(Int) : w = Extensions
    BY <2>1, LineAmounts
  <2>6. Len(w) = Len(lines) /\ \A n \in 1..Len(lines) : w[n] = Extension(lines[n].item)
    BY <2>1, <2>5, LineAmounts
  <2>7. ASSUME NEW n \in 1..Len(lines) PROVE Abs(v[n] - 10 * w[n]) <= 15
    <3>1. SameMoney(lines[n].net, Extension(lines[n].item))
      BY <2>1 DEF Compliant, LineAccepted
    <3>2. v[n] \in Int /\ w[n] \in Int /\ SameMoney(v[n], w[n])
      BY <2>4, <2>5, <2>6, <3>1
    <3> QED
      BY <3>2, SameMoneyNear
  <2>8. Abs(SumOf(v) - 10 * SumOf(w)) <= 15 * Len(lines)
    BY <2>4, <2>6, <2>7, SumsNear
  <2>9. /\ declared.net \in Int /\ SumOf(w) \in Int /\ SumOf(v) \in Int
        /\ SameMoney(declared.net, SumOf(w))
    <3>1. declared \in Totals /\ declared.net # None
      BY DEF Compliant, TotalsAccepted, TotalAccepted, TypeOK
    <3>2. declared.net \in Int
      BY <3>1 DEF Totals, OptionalMills
    <3>3. SameMoney(declared.net, SumOf(w))
      BY <2>5 DEF Compliant, TotalsAccepted, TotalAccepted, NormalizedNet
    <3> QED
      BY <2>4, <3>2, <3>3, SumAppend
  <2>10. Abs(declared.net - 10 * SumOf(w)) <= 15
    BY <2>9, SameMoneyNear
  <2>11. Abs(declared.net - SumOf(v)) <= 15 * (Len(lines) + 1)
    <3>1. PICK d \in Int, a \in Int, b \in Int, n \in Nat :
            d = declared.net /\ a = SumOf(v) /\ b = SumOf(w) /\ n = Len(lines)
      BY <2>1, <2>9
    <3>2. Abs(a - 10 * b) <= 15 * n /\ Abs(d - 10 * b) <= 15
      BY <2>8, <2>10, <3>1
    <3>3. Abs(d - a) <= 15 * (n + 1)
      BY <3>2 DEF Abs
    <3> QED
      BY <3>1, <3>3, SMTT(30)
  <2> QED
    BY <2>3, <2>11
<1> QED
  BY <1>1, AmountsTypeCorrect, PTL

(* The groups of a document. *)
Group == [rate : Nat, taxable : Int, tax : Int, lines : Nat]

(* A group after one line more of its rate. *)
Added(group, item) ==
  [group EXCEPT !.taxable = @ + Extension(item), !.tax = @ + LineTax(item),
                !.lines = @ + 1]

(* A line starts a group, *)
Starts(groups, item, new) ==
  /\ new = [rate |-> item.rate, taxable |-> Extension(item), tax |-> LineTax(item),
            lines |-> 1]
  /\ Grouped(groups, item) = Append(groups, new)

(* or is added to the group of its rate. *)
Joins(groups, item, k, new) ==
  /\ groups[k] \in Group /\ groups[k].rate = item.rate
  /\ new = [rate |-> item.rate, taxable |-> groups[k].taxable + Extension(item),
            tax |-> groups[k].tax + LineTax(item), lines |-> groups[k].lines + 1]
  /\ Grouped(groups, item) = [groups EXCEPT ![k] = new]

(* It does one or the other. *)
LEMMA GroupedIs ==
  ASSUME NEW groups \in Seq(Group), NEW item \in Items
  PROVE  \/ \E new \in Group : Starts(groups, item, new)
         \/ \E k \in DOMAIN groups, new \in Group : Joins(groups, item, k, new)
<1> DEFINE here == {k \in DOMAIN groups : groups[k].rate = item.rate}
           E    == Extension(item)
           L    == LineTax(item)
           none == [rate |-> item.rate, taxable |-> 0, tax |-> 0, lines |-> 0]
<1>1. item.rate \in Nat /\ E \in Int /\ L \in Int
  BY ItemAmounts
<1>2. ASSUME NEW group \in Group, group.rate = item.rate
      PROVE  /\ Added(group, item) \in Group
             /\ Added(group, item) = [rate |-> item.rate, taxable |-> group.taxable + E,
                                      tax |-> group.tax + L, lines |-> group.lines + 1]
  <2>1. group.taxable \in Int /\ group.tax \in Int /\ group.lines \in Nat
    BY DEF Group
  <2>2. group.taxable + E \in Int /\ group.tax + L \in Int /\ group.lines + 1 \in Nat
    BY <1>1, <2>1, SMTT(30)
  <2>3. Added(group, item) = [rate |-> item.rate, taxable |-> group.taxable + E,
                              tax |-> group.tax + L, lines |-> group.lines + 1]
    <3>1. PICK e \in Int, l \in Int : e = E /\ l = L
      BY <1>1
    <3>2. Added(group, item) = [group EXCEPT !.taxable = @ + e, !.tax = @ + l,
                                             !.lines = @ + 1]
      BY <3>1, Zenon DEF Added
    <3> HIDE DEF E, L
    <3> QED
      BY <1>2, <2>1, <3>1, <3>2 DEF Group
  <2> QED
    BY <1>1, <2>2, <2>3 DEF Group
<1>3. CASE here = {}
  <2>1. none \in Group /\ none.rate = item.rate
    BY <1>1 DEF Group
  <2>2. Grouped(groups, item) = Append(groups, Added(none, item))
    BY <1>3 DEF Grouped, Added
  <2>3. /\ Added(none, item) \in Group
        /\ Added(none, item) = [rate |-> item.rate, taxable |-> E, tax |-> L, lines |-> 1]
    BY <1>1, <1>2, <2>1
  <2> QED
    BY <2>2, <2>3 DEF Starts
<1>4. CASE here # {}
  <2>1. PICK k \in here : k = CHOOSE j \in here : TRUE
    BY <1>4
  <2>2. k \in DOMAIN groups /\ groups[k].rate = item.rate /\ groups[k] \in Group
    BY <2>1
  <2>3. Grouped(groups, item) = [groups EXCEPT ![k] = Added(groups[k], item)]
    BY <1>4, <2>1, <2>2 DEF Grouped, Added
  <2>4. /\ Added(groups[k], item) \in Group
        /\ Joins(groups, item, k, Added(groups[k], item))
    BY <1>2, <2>2, <2>3 DEF Joins
  <2> QED
    BY <2>2, <2>4
<1> QED
  BY <1>3, <1>4

(* The groups after each line are what the loop over the lines makes.      *)
LEMMA GroupingsAre ==
  ASSUME lines \in Seq(Line)
  PROVE  /\ Groupings[0] = << >>
         /\ \A n \in 1..Len(lines) :
              Groupings[n] = Grouped(Groupings[n - 1], lines[n].item)
         /\ \A n \in 0..Len(lines) : Groupings[n] \in Seq(Group)
<1> DEFINE Groups == Seq(Group)
           turn   == [t \in (1..Len(lines)) \X Groups |-> Grouped(t[2], lines[t[1]].item)]
           g      == Groupings
<1>1. Len(lines) \in Nat /\ \A n \in 1..Len(lines) : lines[n].item \in Items
  BY LineAmounts
<1>2. << >> \in Groups
  OBVIOUS
<1>3. ASSUME NEW groups \in Groups, NEW item \in Items
      PROVE  Grouped(groups, item) \in Groups
  <2>1. CASE \E new \in Group : Starts(groups, item, new)
    BY <2>1 DEF Starts
  <2>2. CASE \E k \in DOMAIN groups, new \in Group : Joins(groups, item, k, new)
    BY <2>2 DEF Joins
  <2> QED
    BY <2>1, <2>2, GroupedIs
<1> HIDE DEF Groups
<1>4. turn \in [(1..Len(lines)) \X Groups -> Groups]
  BY <1>1, <1>3
<1>5. \A n \in 1..Len(lines), groups \in Groups :
        turn[<<n, groups>>] = Grouped(groups, lines[n].item)
  OBVIOUS
<1> HIDE DEF turn
<1>6. PICK f \in [0..Len(lines) -> Groups] : IsLoop(f, Len(lines), << >>, turn)
  BY <1>1, <1>2, <1>4, LoopExists
<1>7. ASSUME NEW n \in 0..Len(lines), n # 0
      PROVE  turn[<<n, f[n - 1]>>] = Grouped(f[n - 1], lines[n].item)
  <2>1. n \in 1..Len(lines) /\ f[n - 1] \in Groups
    BY <1>1, <1>7
  <2> QED
    BY <1>5, <2>1
<1>8. f = [n \in 0..Len(lines) |->
             IF n = 0 THEN << >> ELSE Grouped(f[n - 1], lines[n].item)]
  <2>1. \A n \in 0..Len(lines) :
          (IF n = 0 THEN << >> ELSE turn[<<n, f[n - 1]>>])
            = IF n = 0 THEN << >> ELSE Grouped(f[n - 1], lines[n].item)
    BY <1>7, Zenon
  <2> QED
    BY <1>6, <2>1, Zenon DEF IsLoop
<1>9. g = [n \in 0..Len(lines) |->
             IF n = 0 THEN << >> ELSE Grouped(g[n - 1], lines[n].item)]
  BY <1>8 DEF Groupings
<1> HIDE DEF g
<1>10. \A n \in 0..Len(lines) :
         g[n] = IF n = 0 THEN << >> ELSE Grouped(g[n - 1], lines[n].item)
  BY <1>9
<1>11. g[0] = << >> /\ \A n \in 1..Len(lines) : g[n] = Grouped(g[n - 1], lines[n].item)
  BY <1>1, <1>10
<1>12. \A n \in 1..Len(lines) : g[n - 1] \in Groups => g[n] \in Groups
  BY <1>1, <1>3, <1>11
<1>13. \A n \in 0..Len(lines) : g[n] \in Groups
  BY <1>1, <1>2, <1>11, <1>12, LoopKeeps
<1> QED
  BY <1>11, <1>13 DEF g, Groups

(* The tax of a group is near to its rate of its taxable amount. *)
NearRate(group) ==
  2 * Abs(1000 * group.tax - group.taxable * group.rate) <= 1000 * group.lines

(* One line more in a group brings half a cent at most. *)
LEMMA AddedNear ==
  ASSUME NEW X \in Int, NEW T \in Int, NEW n \in Nat, NEW item \in Items,
         2 * Abs(1000 * T - X * item.rate) <= 1000 * n
  PROVE  2 * Abs(1000 * (T + LineTax(item)) - (X + Extension(item)) * item.rate)
           <= 1000 * (n + 1)
<1> DEFINE r == item.rate
           E == Extension(item)
           L == LineTax(item)
           x == 1000 * T - X * r
           y == 1000 * L - E * r
<1>1. /\ r \in Nat /\ E \in Int /\ L \in Int /\ 2 * Abs(y) <= 1000
  BY ItemAmounts
<1> HIDE DEF r, E, L
<1>2. X * r \in Int /\ E * r \in Int /\ (X + E) * r = X * r + E * r
  BY <1>1
<1>3. x \in Int /\ y \in Int /\ 1000 * (T + L) - (X + E) * r = x + y
  BY <1>1, <1>2
<1>4. 2 * Abs(x) <= 1000 * n /\ 2 * Abs(y) <= 1000
  BY <1>1 DEF r
<1> HIDE DEF x, y
<1>5. x \in Int /\ y \in Int
  BY <1>3
<1>6. 2 * Abs(x + y) <= 1000 * (n + 1)
  BY <1>4, <1>5 DEF Abs
<1> QED
  BY <1>3, <1>6 DEF r, E, L

(* All groups stay near to their rates. *)
LEMMA GroupedNear ==
  ASSUME NEW groups \in Seq(Group), NEW item \in Items,
         \A k \in DOMAIN groups : NearRate(groups[k])
  PROVE  \A k \in DOMAIN Grouped(groups, item) : NearRate(Grouped(groups, item)[k])
<1>1. ASSUME NEW new \in Group, Starts(groups, item, new) PROVE NearRate(new)
  <2>1. 2 * Abs(1000 * LineTax(item) - Extension(item) * item.rate) <= 1000
    BY ItemAmounts
  <2> QED
    BY <1>1, <2>1 DEF NearRate, Starts
<1>2. ASSUME NEW k \in DOMAIN groups, NEW new \in Group, Joins(groups, item, k, new)
      PROVE  NearRate(new)
  <2>1. PICK group \in Group : group = groups[k] /\ group.rate = item.rate
    BY <1>2 DEF Joins
  <2>2. PICK X \in Int, T \in Int, n \in Nat :
          X = group.taxable /\ T = group.tax /\ n = group.lines
    BY DEF Group
  <2>3. 2 * Abs(1000 * T - X * item.rate) <= 1000 * n
    BY <2>1, <2>2 DEF NearRate
  <2>4. 2 * Abs(1000 * (T + LineTax(item)) - (X + Extension(item)) * item.rate)
          <= 1000 * (n + 1)
    BY <2>3, AddedNear
  <2>5. new = [rate |-> item.rate, taxable |-> X + Extension(item),
               tax |-> T + LineTax(item), lines |-> n + 1]
    BY <1>2, <2>1, <2>2 DEF Joins
  <2> QED
    BY <2>4, <2>5 DEF NearRate
<1>3. CASE \E new \in Group : Starts(groups, item, new)
  <2>1. PICK new \in Group : Starts(groups, item, new)
    BY <1>3
  <2>2. NearRate(new) /\ Grouped(groups, item) = Append(groups, new)
    BY <1>1, <2>1 DEF Starts
  <2> QED
    BY <2>2
<1>4. CASE \E k \in DOMAIN groups, new \in Group : Joins(groups, item, k, new)
  <2>1. PICK k \in DOMAIN groups, new \in Group : Joins(groups, item, k, new)
    BY <1>4
  <2>2. NearRate(new) /\ Grouped(groups, item) = [groups EXCEPT ![k] = new]
    BY <1>2, <2>1 DEF Joins
  <2> QED
    BY <2>2
<1> QED
  BY <1>3, <1>4, GroupedIs

(* Tax is rounded per line (tax_breakdown, spain_sif.py:224, and           *)
(* _tax_breakdown, ubl.py:247), so the tax of a group is not its rate      *)
(* times its taxable amount; it is off by half a cent per line at most,    *)
(* for any items and any number of lines.                                  *)
THEOREM GroupTaxIsNear == Spec => []GroupTaxNearRate
<1>1. TypeOK => GroupTaxNearRate
  <2> SUFFICES ASSUME TypeOK PROVE \A k \in DOMAIN Breakdown : NearRate(Breakdown[k])
    BY DEF GroupTaxNearRate, NearRate
  <2> DEFINE P == {groups \in Seq(Group) : \A k \in DOMAIN groups : NearRate(groups[k])}
             g == Groupings
  <2>1. lines \in Seq(Line) /\ Len(lines) \in Nat
    BY DEF TypeOK
  <2>2. /\ g[0] = << >>
        /\ \A n \in 1..Len(lines) : g[n] = Grouped(g[n - 1], lines[n].item)
        /\ \A n \in 0..Len(lines) : g[n] \in Seq(Group)
    BY <2>1, GroupingsAre
  <2> HIDE DEF g
  <2>3. g[0] \in P
    BY <2>2
  <2>4. ASSUME NEW n \in 1..Len(lines), g[n - 1] \in P PROVE g[n] \in P
    <3>1. PICK item \in Items : item = lines[n].item
      BY <2>1, LineAmounts
    <3>2. g[n] = Grouped(g[n - 1], item) /\ g[n] \in Seq(Group)
      BY <2>1, <2>2, <3>1
    <3>3. \A k \in DOMAIN g[n] : NearRate(g[n][k])
      BY <2>4, <3>2, GroupedNear
    <3> QED
      BY <3>2, <3>3
  <2> HIDE DEF P
  <2>5. \A n \in 0..Len(lines) : g[n] \in P
    BY <2>1, <2>3, <2>4, LoopKeeps
  <2>6. g[Len(lines)] \in P
    BY <2>1, <2>5
  <2> QED
    BY <2>6 DEF P, g, Breakdown
<1> QED
  BY <1>1, AmountsTypeCorrect, PTL

(* The column of the taxable amounts, and that of the taxes. *)
Taxables(groups) == [k \in DOMAIN groups |-> groups[k].taxable]
Taxes(groups)    == [k \in DOMAIN groups |-> groups[k].tax]

(* A column of a new row, and of a changed one. *)
LEMMA Columns ==
  ASSUME NEW groups \in Seq(Group), NEW new \in Group
  PROVE  /\ Taxables(groups) \in Seq(Int) /\ DOMAIN Taxables(groups) = DOMAIN groups
         /\ Taxes(groups) \in Seq(Int) /\ DOMAIN Taxes(groups) = DOMAIN groups
         /\ Taxables(Append(groups, new)) = Append(Taxables(groups), new.taxable)
         /\ Taxes(Append(groups, new)) = Append(Taxes(groups), new.tax)
         /\ \A k \in DOMAIN groups :
              /\ Taxables([groups EXCEPT ![k] = new]) =
                    [Taxables(groups) EXCEPT ![k] = new.taxable]
              /\ Taxes([groups EXCEPT ![k] = new]) = [Taxes(groups) EXCEPT ![k] = new.tax]
<1>1. /\ DOMAIN groups = 1..Len(groups) /\ Len(groups) \in Nat
      /\ \A k \in 1..Len(groups) : groups[k] \in Group
  OBVIOUS
<1>2. \A k \in 1..Len(groups) : groups[k].taxable \in Int /\ groups[k].tax \in Int
  BY <1>1 DEF Group
<1>3. /\ Taxables(groups) = [k \in 1..Len(groups) |-> groups[k].taxable]
      /\ Taxes(groups) = [k \in 1..Len(groups) |-> groups[k].tax]
  BY <1>1 DEF Taxables, Taxes
<1>4. Taxables(groups) \in Seq(Int) /\ Taxes(groups) \in Seq(Int)
  BY <1>1, <1>2, <1>3
<1>5. Taxables(Append(groups, new)) = Append(Taxables(groups), new.taxable)
  BY <1>1, <1>3 DEF Taxables
<1>6. Taxes(Append(groups, new)) = Append(Taxes(groups), new.tax)
  BY <1>1, <1>3 DEF Taxes
<1>7. ASSUME NEW k \in DOMAIN groups
      PROVE  /\ Taxables([groups EXCEPT ![k] = new]) =
                   [Taxables(groups) EXCEPT ![k] = new.taxable]
             /\ Taxes([groups EXCEPT ![k] = new]) = [Taxes(groups) EXCEPT ![k] = new.tax]
  BY <1>1 DEF Taxables, Taxes
<1> QED
  BY <1>1, <1>3, <1>4, <1>5, <1>6, <1>7

(* A line adds its amounts to the sums of the groups. *)
LEMMA GroupedAdds ==
  ASSUME NEW groups \in Seq(Group), NEW item \in Items
  PROVE  /\ SumOf(Taxables(Grouped(groups, item))) =
              SumOf(Taxables(groups)) + Extension(item)
         /\ SumOf(Taxes(Grouped(groups, item))) = SumOf(Taxes(groups)) + LineTax(item)
<1> DEFINE E == Extension(item)
           L == LineTax(item)
           after == Grouped(groups, item)
<1>1. E \in Int /\ L \in Int
  BY ItemAmounts
<1> HIDE DEF E, L
<1>2. PICK v \in Seq(Int), t \in Seq(Int) :
        /\ v = Taxables(groups) /\ DOMAIN v = DOMAIN groups
        /\ t = Taxes(groups) /\ DOMAIN t = DOMAIN groups
  <2>1. ASSUME NEW new \in Group
        PROVE  /\ Taxables(groups) \in Seq(Int) /\ DOMAIN Taxables(groups) = DOMAIN groups
               /\ Taxes(groups) \in Seq(Int) /\ DOMAIN Taxes(groups) = DOMAIN groups
    BY Columns
  <2>2. [rate |-> 0, taxable |-> 0, tax |-> 0, lines |-> 0] \in Group
    BY DEF Group
  <2> QED
    BY <2>1, <2>2
<1>3. ASSUME NEW new \in Group, Starts(groups, item, new)
      PROVE  Taxables(after) = Append(v, E) /\ Taxes(after) = Append(t, L)
  <2>1. new.taxable = E /\ new.tax = L /\ after = Append(groups, new)
    BY <1>3 DEF Starts, E, L
  <2> QED
    BY <1>2, <2>1, Columns
<1>4. ASSUME NEW k \in DOMAIN groups, NEW new \in Group, Joins(groups, item, k, new)
      PROVE  /\ Taxables(after) = [v EXCEPT ![k] = @ + E]
             /\ Taxes(after) = [t EXCEPT ![k] = @ + L]
  <2>1. /\ new.taxable = groups[k].taxable + E /\ new.tax = groups[k].tax + L
        /\ after = [groups EXCEPT ![k] = new]
    BY <1>4 DEF Joins, E, L
  <2>2. v[k] = groups[k].taxable /\ t[k] = groups[k].tax
    BY <1>2 DEF Taxables, Taxes
  <2>3. /\ Taxables([groups EXCEPT ![k] = new]) =
             [Taxables(groups) EXCEPT ![k] = new.taxable]
        /\ Taxes([groups EXCEPT ![k] = new]) = [Taxes(groups) EXCEPT ![k] = new.tax]
    BY Columns
  <2>4. /\ Taxables(after) = [v EXCEPT ![k] = new.taxable]
        /\ Taxes(after) = [t EXCEPT ![k] = new.tax]
    BY <1>2, <2>1, <2>3
  <2> QED
    BY <2>1, <2>2, <2>4
<1>5. \/ Taxables(after) = Append(v, E) /\ Taxes(after) = Append(t, L)
      \/ \E k \in DOMAIN groups : /\ Taxables(after) = [v EXCEPT ![k] = @ + E]
                                  /\ Taxes(after) = [t EXCEPT ![k] = @ + L]
  BY <1>3, <1>4, GroupedIs
<1>6. CASE Taxables(after) = Append(v, E) /\ Taxes(after) = Append(t, L)
  BY <1>1, <1>2, <1>6, SumAppend DEF E, L
<1>7. CASE \E k \in DOMAIN groups : /\ Taxables(after) = [v EXCEPT ![k] = @ + E]
                                    /\ Taxes(after) = [t EXCEPT ![k] = @ + L]
  <2>1. PICK k \in DOMAIN groups : /\ Taxables(after) = [v EXCEPT ![k] = @ + E]
                                   /\ Taxes(after) = [t EXCEPT ![k] = @ + L]
    BY <1>7
  <2>2. SumOf(Taxables(after)) = SumOf(v) + E /\ SumOf(Taxes(after)) = SumOf(t) + L
    <3>1. k \in DOMAIN v /\ k \in DOMAIN t
      BY <1>2
    <3>2. /\ SumOf([v EXCEPT ![k] = @ + E]) = SumOf(v) + E
          /\ SumOf([t EXCEPT ![k] = @ + L]) = SumOf(t) + L
      BY <1>1, <3>1, SumExcept
    <3> QED
      BY <2>1, <3>2
  <2> QED
    BY <1>2, <2>2 DEF E, L
<1> QED
  BY <1>5, <1>6, <1>7

(* The tax groups of a document (_tax_breakdown, ubl.py:247, and           *)
(* tax_breakdown, spain_sif.py:224) add up to its totals, which validate   *)
(* computes from the lines (no_network.py:59), whatever rates the lines    *)
(* have and in whatever order.                                             *)
THEOREM GroupsAddUp == Spec => []BreakdownAddsUp
<1>1. TypeOK => BreakdownAddsUp
  <2> SUFFICES ASSUME TypeOK
               PROVE  /\ SumOf(Taxables(Breakdown)) = NormalizedNet
                      /\ SumOf(Taxes(Breakdown)) = NormalizedTax
    BY DEF BreakdownAddsUp, Taxables, Taxes
  <2> DEFINE g == Groupings
             p == PartialSums(Extensions)
             q == PartialSums(LineTaxes)
             I == {n \in Nat : n <= Len(lines) => /\ SumOf(Taxables(g[n])) = p[n]
                                                 /\ SumOf(Taxes(g[n])) = q[n]}
  <2>1. /\ Len(lines) \in Nat /\ lines \in Seq(Line)
        /\ \A n \in 1..Len(lines) : lines[n].item \in Items
    BY LineAmounts DEF TypeOK
  <2>2. /\ g[0] = << >>
        /\ \A n \in 1..Len(lines) : g[n] = Grouped(g[n - 1], lines[n].item)
        /\ \A n \in 0..Len(lines) : g[n] \in Seq(Group)
    BY <2>1, GroupingsAre
  <2>3. /\ Extensions \in Seq(Int) /\ Len(Extensions) = Len(lines)
        /\ LineTaxes \in Seq(Int) /\ Len(LineTaxes) = Len(lines)
        /\ \A n \in 1..Len(lines) : /\ Extensions[n] = Extension(lines[n].item)
                                    /\ LineTaxes[n] = LineTax(lines[n].item)
    BY <2>1, LineAmounts
  <2>4. /\ p[0] = 0 /\ q[0] = 0
        /\ \A n \in 1..Len(lines) : /\ p[n] = p[n - 1] + Extension(lines[n].item)
                                    /\ q[n] = q[n - 1] + LineTax(lines[n].item)
    <3>1. p[0] = 0 /\ \A n \in 1..Len(lines) : p[n] = p[n - 1] + Extensions[n]
      BY <2>3, PartialSumsAre
    <3>2. q[0] = 0 /\ \A n \in 1..Len(lines) : q[n] = q[n - 1] + LineTaxes[n]
      BY <2>3, PartialSumsAre
    <3> HIDE DEF p, q
    <3> QED
      BY <2>3, <3>1, <3>2
  <2> HIDE DEF g, p, q
  <2>5. 0 \in I
    <3>1. Taxables(<< >>) = << >> /\ Taxes(<< >>) = << >>
      BY DEF Taxables, Taxes
    <3> QED
      BY <2>2, <2>4, <3>1, SumEmpty
  <2>6. ASSUME NEW n \in Nat, n \in I PROVE n + 1 \in I
    <3> SUFFICES ASSUME n + 1 <= Len(lines)
                 PROVE  /\ SumOf(Taxables(g[n + 1])) = p[n + 1]
                        /\ SumOf(Taxes(g[n + 1])) = q[n + 1]
      OBVIOUS
    <3>1. n + 1 \in 1..Len(lines) /\ n \in 0..Len(lines) /\ (n + 1) - 1 = n
      BY <2>1
    <3>2. PICK item \in Items : item = lines[n + 1].item
      BY <2>1, <3>1
    <3>3. PICK groups \in Seq(Group) : groups = g[n]
      BY <2>2, <3>1
    <3>4. SumOf(Taxables(groups)) = p[n] /\ SumOf(Taxes(groups)) = q[n]
      BY <2>6, <3>1, <3>3
    <3>5. g[n + 1] = Grouped(groups, item)
      BY <2>2, <3>1, <3>2, <3>3
    <3>6. p[n + 1] = p[n] + Extension(item) /\ q[n + 1] = q[n] + LineTax(item)
      BY <2>4, <3>1, <3>2
    <3> QED
      BY <3>4, <3>5, <3>6, GroupedAdds
  <2> HIDE DEF I
  <2>7. Nat \subseteq I
    BY <2>5, <2>6, Induction
  <2>8. Len(lines) \in I
    BY <2>1, <2>7
  <2>9. SumOf(Taxables(g[Len(lines)])) = p[Len(lines)] /\ SumOf(Taxes(g[Len(lines)])) = q[Len(lines)]
    BY <2>1, <2>8 DEF I
  <2> QED
    BY <2>3, <2>9 DEF g, p, q, Breakdown, NormalizedNet, NormalizedTax, SumOf
<1> QED
  BY <1>1, AmountsTypeCorrect, PTL
=============================================================================
