-------------------------- MODULE IdentifiersProofs --------------------------
(***************************************************************************)
(* Proofs about Identifiers.  Once somebody has slipped, the loop is in    *)
(* another state for what is typed than for what is meant, and stays so:   *)
(* at every place, the next digit takes different states to different      *)
(* states (SameDigit), different digits take one state to different states *)
(* (OtherDigit), and so do two digits in either order (OtherOrder).  At    *)
(* the end, different states pass with different control characters        *)
(* (ControlTells).  Each comes from arithmetic modulo 11, 23 or 10, with   *)
(* the exceptions where a method has them.                                 *)
(***************************************************************************)
EXTENDS Identifiers, TLAPS

-----------------------------------------------------------------------------
(* The invariant                                                           *)

(* What a loop keeps is in range.                                          *)
IdOK(id) ==
  \/ id = Refused
  \/ id \in [form : {"PL", "RO"}, state : 0..10]
  \/ id \in [form : {"DE"}, state : 1..10]
  \/ id \in [form : {"NIF", "NIE"}, state : 0..22]
  \/ id \in [form : {"CIF"}, state : 0..9]

SpanishForms == {"NIF", "NIE", "CIF"}

(* Before its first character, a Spanish identifier has no form.           *)
FormOK(id, p) ==
  IF country = "ES"
  THEN id.form \in SpanishForms \cup {"none"} /\ (p = 1 => id = Refused)
  ELSE id.form \in {country, "none"}

LengthOK ==
  \/ country \in {"DE", "ES"} /\ length = 8
  \/ country = "PL" /\ length = 9
  \/ country = "RO" /\ length \in 1..9

TypeInv ==
  /\ LengthOK
  /\ place \in 1..(length + 2)
  /\ IdOK(meant) /\ IdOK(typed)
  /\ FormOK(meant, place) /\ FormOK(typed, place)
  /\ meant.form = "none" => country = "ES" /\ place = 1

(* The loop tells the typed identifier from the one that is meant.         *)
Apart(m, t) == t.form = "none" \/ (t.form = m.form /\ t.state # m.state)

(* Slips that the methods allow before the control character.              *)
Overlooked ==
  \/ slip.kind = "first" /\ (typed.form # meant.form \/ meant.form = "CIF")
  \/ slip.kind = "swap" /\ country = "DE" /\ slip.gap \in {1, 9}
  \/ slip.kind = "swap" /\ meant.form = "CIF" /\ slip.gap = 9

TellsApart ==
  place <= length + 1 =>
    /\ ~accepted
    /\ place = 1 => slip = NoSlip
    /\ slip.kind \in {"none", "first", "later", "swap"}
    /\ slip.kind = "none" => slip = NoSlip /\ typed = meant
    /\ slip.kind # "none" => Apart(meant, typed) \/ Overlooked

Inv == TypeInv /\ TellsApart /\ SlipsAreNoticed /\ SwapsAreNoticed

-----------------------------------------------------------------------------
(* The loops                                                               *)

LEMMA Weights ==
  /\ \A p \in 1..9 : PolishWeights[p] \in 1..7
  /\ \A p \in 1..9 : RomanianWeights[p] \in 1..7
  /\ PolishWeights[9] = 7 /\ RomanianWeights[1] = 7
  /\ \A p \in 1..8 : PolishWeights[p] # PolishWeights[p + 1]
  /\ \A p \in 1..8 : RomanianWeights[p + 1] # RomanianWeights[p]
BY DEF PolishWeights, RomanianWeights

(* Sums modulo 11: no weight from 1 to 10 hides a difference of digits.    *)
LEMMA Modulo11 ==
  ASSUME NEW s \in 0..10, NEW w \in 1..7, NEW d \in Digits, NEW e \in Digits
  PROVE  /\ (s + w * d) % 11 \in 0..10
         /\ \A t \in 0..10 : (s + w * d) % 11 = (t + w * d) % 11 => s = t
         /\ (s + w * d) % 11 = (s + w * e) % 11 => d = e
<1>1. w \in {1, 2, 3, 4, 5, 6, 7}
  OBVIOUS
<1>2. w * d \in Nat
  BY DEF Digits
<1>3. \A x \in Nat : (s + x) % 11 \in 0..10
  OBVIOUS
<1>4. \A x \in Nat, t \in 0..10 : (s + x) % 11 = (t + x) % 11 => s = t
  OBVIOUS
<1>5. (s + w * d) % 11 = (s + w * e) % 11 => d = e
  BY <1>1 DEF Digits
<1> QED BY <1>2, <1>3, <1>4, <1>5

(* ... and different weights tell the order of two digits.                 *)
LEMMA Modulo11Order ==
  ASSUME NEW s \in 0..10, NEW v \in 1..7, NEW w \in 1..7, v # w,
         NEW d \in Digits, NEW e \in Digits, d # e
  PROVE  (((s + v * d) % 11) + w * e) % 11 # (((s + v * e) % 11) + w * d) % 11
<1>1. v \in {1, 2, 3, 4, 5, 6, 7} /\ w \in {1, 2, 3, 4, 5, 6, 7}
  OBVIOUS
<1> QED BY <1>1, SMTT(30) DEF Digits

LEMMA GermanLoop ==
  ASSUME NEW s \in 1..10, NEW d \in Digits, NEW e \in Digits
  PROVE  /\ GermanStep(s, d) \in 1..10
         /\ \A t \in 1..10 : GermanStep(s, d) = GermanStep(t, d) => s = t
         /\ GermanStep(s, d) = GermanStep(s, e) => d = e
<1>1. GermanStep(s, d) \in 1..10
  BY DEF GermanStep, Digits
<1>2. ASSUME NEW t \in 1..10, GermanStep(s, d) = GermanStep(t, d)
      PROVE  s = t
  BY <1>2 DEF GermanStep, Digits
<1>3. ASSUME GermanStep(s, d) = GermanStep(s, e)
      PROVE  d = e
  BY <1>3 DEF GermanStep, Digits
<1> QED BY <1>1, <1>2, <1>3

(* Digits that are one apart, also 9 and 0, may be swapped.                *)
LEMMA GermanSwap ==
  ASSUME NEW s \in 1..10, NEW d \in Digits, NEW e \in Digits, d < e,
         GermanStep(GermanStep(s, d), e) = GermanStep(GermanStep(s, e), d)
  PROVE  e - d \in {1, 9}
BY SMTT(30) DEF GermanStep, Digits

LEMMA NifLoop ==
  ASSUME NEW s \in 0..22, NEW d \in Digits, NEW e \in Digits
  PROVE  /\ NifStep(s, d) \in 0..22
         /\ \A t \in 0..22 : NifStep(s, d) = NifStep(t, d) => s = t
         /\ NifStep(s, d) = NifStep(s, e) => d = e
         /\ NifStep(NifStep(s, d), e) = NifStep(NifStep(s, e), d) => d = e
<1>1. NifStep(s, d) \in 0..22
  BY DEF NifStep, Digits
<1>2. ASSUME NEW t \in 0..22, NifStep(s, d) = NifStep(t, d)
      PROVE  s = t
  BY <1>2, SMTT(30) DEF NifStep, Digits
<1>3. ASSUME NifStep(s, d) = NifStep(s, e)
      PROVE  d = e
  BY <1>3, SMTT(30) DEF NifStep, Digits
<1>4. ASSUME NifStep(NifStep(s, d), e) = NifStep(NifStep(s, e), d)
      PROVE  d = e
  BY <1>4, SMTT(30) DEF NifStep, Digits
<1> QED BY <1>1, <1>2, <1>3, <1>4

(* The first digit of a Spanish identifier is what the loop starts from.   *)
LEMMA NifFirst ==
  ASSUME NEW d \in Digits, NEW e \in Digits, NifStep(d, e) = NifStep(e, d)
  PROVE  d = e
BY SMTT(30) DEF NifStep, Digits

LEMMA CifLoop ==
  ASSUME NEW s \in 0..9, NEW p \in 1..8, NEW d \in Digits, NEW e \in Digits
  PROVE  /\ CifStep(s, p, d) \in 0..9
         /\ \A t \in 0..9 : CifStep(s, p, d) = CifStep(t, p, d) => s = t
         /\ CifStep(s, p, d) = CifStep(s, p, e) => d = e
<1>1. CifStep(s, p, d) \in 0..9
  BY DEF CifStep, Digits
<1>2. ASSUME NEW t \in 0..9, CifStep(s, p, d) = CifStep(t, p, d)
      PROVE  s = t
  BY <1>2, SMTT(30) DEF CifStep, Digits
<1>3. ASSUME CifStep(s, p, d) = CifStep(s, p, e)
      PROVE  d = e
  BY <1>3, SMTT(30) DEF CifStep, Digits
<1> QED BY <1>1, <1>2, <1>3

(* 9 and 0 may be swapped.                                                 *)
LEMMA CifSwap ==
  ASSUME NEW s \in 0..9, NEW p \in 1..8, NEW d \in Digits, NEW e \in Digits,
         d < e,
         CifStep(CifStep(s, p, d), p + 1, e)
           = CifStep(CifStep(s, p, e), p + 1, d)
  PROVE  e - d = 9
BY SMTT(30) DEF CifStep, Digits

-----------------------------------------------------------------------------
(* Letters                                                                 *)

LEMMA LettersDiffer ==
  ASSUME NEW l \in Range(Letters), NEW m \in Range(Letters)
  PROVE  Letter(l) \in 10..35 /\ (Letter(l) = Letter(m) => l = m)
BY DEF Letter, Range, Letters

(* Different remainders have different letters.                            *)
LEMMA NifControl ==
  \A s, t \in 0..22 :
    /\ NifLetters[s + 1] \in 10..35
    /\ NifLetters[s + 1] = NifLetters[t + 1] => s = t
<1> DEFINE names == <<"T", "R", "W", "A", "G", "M", "Y", "F", "P", "D", "X",
                      "B", "N", "J", "Z", "S", "Q", "V", "H", "L", "C", "K",
                      "E">>
<1>1. DOMAIN names = 1..23
  OBVIOUS
<1>2. \A i \in 1..23 : names[i] \in Range(Letters)
  BY DEF Range, Letters
<1>3. \A i, j \in 1..23 : names[i] = names[j] => i = j
  OBVIOUS
<1>4. \A i \in 1..23 : NifLetters[i] = Letter(names[i])
  BY <1>1 DEF NifLetters, Code
<1> HIDE DEF names
<1>5. \A i, j \in 1..23 :
        /\ NifLetters[i] \in 10..35
        /\ NifLetters[i] = NifLetters[j] => i = j
  BY <1>2, <1>3, <1>4, LettersDiffer
<1> QED BY <1>5

LEMMA CifControl ==
  \A s, t \in 0..9 :
    /\ CifControls[s + 1] \in 10..35
    /\ CifControls[s + 1] = CifControls[t + 1] => s = t
<1> DEFINE names == <<"J", "A", "B", "C", "D", "E", "F", "G", "H", "I">>
<1>1. DOMAIN names = 1..10
  OBVIOUS
<1>2. \A i \in 1..10 : names[i] \in Range(Letters)
  BY DEF Range, Letters
<1>3. \A i, j \in 1..10 : names[i] = names[j] => i = j
  OBVIOUS
<1>4. \A i \in 1..10 : CifControls[i] = Letter(names[i])
  BY <1>1 DEF CifControls, Code
<1> HIDE DEF names
<1>5. \A i, j \in 1..10 :
        /\ CifControls[i] \in 10..35
        /\ CifControls[i] = CifControls[j] => i = j
  BY <1>2, <1>3, <1>4, LettersDiffer
<1> QED BY <1>5

-----------------------------------------------------------------------------
(* Digits, by the form of the identifier                                   *)

After(id, p, digit) == [id EXCEPT !.state = Step(id, p, length, digit)]

(* What the form of an identifier says of its country and its state.       *)
LEMMA Shapes ==
  ASSUME LengthOK, NEW p \in 1..length, NEW id, IdOK(id), FormOK(id, p),
         id.form # "none"
  PROVE  /\ id = [form |-> id.form, state |-> id.state]
         /\ \/ id.form = "PL" /\ id.state \in 0..10 /\ p \in 1..9
            \/ id.form = "DE" /\ id.state \in 1..10
            \/ /\ id.form = "RO" /\ id.state \in 0..10
               /\ length - p + 1 \in 1..9
            \/ id.form \in {"NIF", "NIE"} /\ id.state \in 0..22
            \/ id.form = "CIF" /\ id.state \in 0..9 /\ p \in 1..8
BY DEF LengthOK, IdOK, FormOK, SpanishForms, Refused

(* The loop of each form.                                                  *)
LEMMA Loops ==
  ASSUME NEW id, NEW p, NEW digit
  PROVE  /\ id.form = "PL" =>
              Step(id, p, length, digit) = PolishStep(id.state, p, digit)
         /\ id.form = "DE" =>
              Step(id, p, length, digit) = GermanStep(id.state, digit)
         /\ id.form = "RO" =>
              Step(id, p, length, digit)
                = RomanianStep(id.state, p, length, digit)
         /\ id.form \in {"NIF", "NIE"} =>
              Step(id, p, length, digit) = NifStep(id.state, digit)
         /\ id.form = "CIF" =>
              Step(id, p, length, digit) = CifStep(id.state, p, digit)
BY DEF Step

(* One more digit keeps the state in range, keeps different states apart,  *)
(* and tells different digits apart.                                       *)
LEMMA SameDigit ==
  ASSUME LengthOK, NEW p \in 1..length, NEW m, NEW t, IdOK(m), IdOK(t),
         FormOK(m, p), FormOK(t, p), m.form # "none", t.form = m.form,
         NEW d \in Digits
  PROVE  /\ IdOK(After(m, p, d))
         /\ m.state # t.state => After(m, p, d).state # After(t, p, d).state
<1>1. /\ m = [form |-> m.form, state |-> m.state]
      /\ t = [form |-> m.form, state |-> t.state]
  BY Shapes
<1>2. /\ After(m, p, d) =
           [form |-> m.form, state |-> Step(m, p, length, d)]
      /\ After(t, p, d).state = Step(t, p, length, d)
  BY <1>1 DEF After
<1>3. CASE m.form = "PL"
  <2>1. m.state \in 0..10 /\ t.state \in 0..10 /\ PolishWeights[p] \in 1..7
    BY <1>3, Shapes, Weights
  <2>2. /\ Step(m, p, length, d) = (m.state + PolishWeights[p] * d) % 11
        /\ Step(t, p, length, d) = (t.state + PolishWeights[p] * d) % 11
    BY <1>3, Loops DEF PolishStep
  <2>3. /\ Step(m, p, length, d) \in 0..10
        /\ Step(m, p, length, d) = Step(t, p, length, d) => m.state = t.state
    BY <2>1, <2>2, Modulo11
  <2> QED BY <1>2, <1>3, <2>3 DEF IdOK
<1>4. CASE m.form = "RO"
  <2> DEFINE w == RomanianWeights[length - p + 1]
  <2>1. m.state \in 0..10 /\ t.state \in 0..10 /\ w \in 1..7
    BY <1>4, Shapes, Weights
  <2>2. /\ Step(m, p, length, d) = (m.state + w * d) % 11
        /\ Step(t, p, length, d) = (t.state + w * d) % 11
    BY <1>4, Loops DEF RomanianStep
  <2>3. /\ Step(m, p, length, d) \in 0..10
        /\ Step(m, p, length, d) = Step(t, p, length, d) => m.state = t.state
    <3> HIDE DEF w
    <3> QED BY <2>1, <2>2, Modulo11
  <2> QED BY <1>2, <1>4, <2>3 DEF IdOK
<1>5. CASE m.form = "DE"
  <2>1. m.state \in 1..10 /\ t.state \in 1..10
    BY <1>5, Shapes
  <2>2. /\ Step(m, p, length, d) \in 1..10
        /\ Step(m, p, length, d) = Step(t, p, length, d) => m.state = t.state
    BY <1>5, <2>1, Loops, GermanLoop
  <2> QED BY <1>2, <1>5, <2>2 DEF IdOK
<1>6. CASE m.form \in {"NIF", "NIE"}
  <2>1. m.state \in 0..22 /\ t.state \in 0..22
    BY <1>6, Shapes
  <2>2. /\ Step(m, p, length, d) \in 0..22
        /\ Step(m, p, length, d) = Step(t, p, length, d) => m.state = t.state
    BY <1>6, <2>1, Loops, NifLoop
  <2> QED BY <1>2, <1>6, <2>2 DEF IdOK
<1>7. CASE m.form = "CIF"
  <2>1. m.state \in 0..9 /\ t.state \in 0..9 /\ p \in 1..8
    BY <1>7, Shapes
  <2>2. /\ Step(m, p, length, d) \in 0..9
        /\ Step(m, p, length, d) = Step(t, p, length, d) => m.state = t.state
    BY <1>7, <2>1, Loops, CifLoop
  <2> QED BY <1>2, <1>7, <2>2 DEF IdOK
<1> QED BY <1>3, <1>4, <1>5, <1>6, <1>7, Shapes

LEMMA OtherDigit ==
  ASSUME LengthOK, NEW p \in 1..length, NEW m, IdOK(m), FormOK(m, p),
         m.form # "none", NEW d \in Digits, NEW e \in Digits, d # e
  PROVE  After(m, p, d).state # After(m, p, e).state
<1>1. /\ After(m, p, d).state = Step(m, p, length, d)
      /\ After(m, p, e).state = Step(m, p, length, e)
  BY Shapes DEF After
<1>2. CASE m.form = "PL"
  <2>1. m.state \in 0..10 /\ PolishWeights[p] \in 1..7
    BY <1>2, Shapes, Weights
  <2>2. (m.state + PolishWeights[p] * d) % 11
          # (m.state + PolishWeights[p] * e) % 11
    BY <2>1, Modulo11
  <2> QED BY <1>1, <1>2, <2>2, Loops DEF PolishStep
<1>3. CASE m.form = "RO"
  <2> DEFINE w == RomanianWeights[length - p + 1]
  <2>1. m.state \in 0..10 /\ w \in 1..7
    BY <1>3, Shapes, Weights
  <2>2. (m.state + w * d) % 11 # (m.state + w * e) % 11
    <3> HIDE DEF w
    <3> QED BY <2>1, Modulo11
  <2> QED BY <1>1, <1>3, <2>2, Loops DEF RomanianStep
<1>4. CASE m.form = "DE"
  BY <1>1, <1>4, Shapes, Loops, GermanLoop
<1>5. CASE m.form \in {"NIF", "NIE"}
  BY <1>1, <1>5, Shapes, Loops, NifLoop
<1>6. CASE m.form = "CIF"
  BY <1>1, <1>6, Shapes, Loops, CifLoop
<1> QED BY <1>2, <1>3, <1>4, <1>5, <1>6, Shapes

(* The order of two different digits.                                      *)
LEMMA OtherOrder ==
  ASSUME LengthOK, NEW p \in 1..length, p + 1 \in 1..length, NEW m, IdOK(m),
         FormOK(m, p), m.form # "none",
         NEW d \in Digits, NEW e \in Digits, d # e
  PROVE  \/ After(After(m, p, d), p + 1, e).state
              # After(After(m, p, e), p + 1, d).state
         \/ m.form = "DE" /\ Swapped(d, e).gap \in {1, 9}
         \/ m.form = "CIF" /\ Swapped(d, e).gap = 9
<1>1. /\ After(m, p, d) = [form |-> m.form, state |-> Step(m, p, length, d)]
      /\ After(m, p, e) = [form |-> m.form, state |-> Step(m, p, length, e)]
  BY Shapes DEF After
<1> DEFINE a == After(m, p, d)
           b == After(m, p, e)
<1>2. /\ a.form = m.form /\ a.state = Step(m, p, length, d)
      /\ b.form = m.form /\ b.state = Step(m, p, length, e)
  BY <1>1
<1>3. /\ After(a, p + 1, e).state = Step(a, p + 1, length, e)
      /\ After(b, p + 1, d).state = Step(b, p + 1, length, d)
  BY <1>1 DEF After
<1> HIDE DEF a, b
<1>4. Swapped(d, e).gap = IF d < e THEN e - d ELSE d - e
  BY DEF Swapped
<1>5. CASE m.form = "PL"
  <2> DEFINE v == PolishWeights[p]
             w == PolishWeights[p + 1]
  <2>1. m.state \in 0..10 /\ v \in 1..7 /\ w \in 1..7 /\ v # w
    <3>1. p \in 1..8 /\ p + 1 \in 1..9 /\ p \in 1..9 /\ m.state \in 0..10
      BY <1>5, Shapes DEF LengthOK, FormOK, SpanishForms
    <3>2. v \in 1..7 /\ w \in 1..7
      BY <3>1, Weights
    <3>3. v # w
      BY <3>1, Weights
    <3> QED BY <3>1, <3>2, <3>3
  <2>2. /\ Step(a, p + 1, length, e) = (((m.state + v * d) % 11) + w * e) % 11
        /\ Step(b, p + 1, length, d) = (((m.state + v * e) % 11) + w * d) % 11
    BY <1>2, <1>5, Loops DEF PolishStep
  <2> HIDE DEF v, w
  <2>3. (((m.state + v * d) % 11) + w * e) % 11
          # (((m.state + v * e) % 11) + w * d) % 11
    BY <2>1, Modulo11Order, Zenon
  <2>4. After(a, p + 1, e).state # After(b, p + 1, d).state
    BY <1>3, <2>2, <2>3, Zenon
  <2> QED BY <2>4 DEF a, b
<1>6. CASE m.form = "RO"
  <2> DEFINE v == RomanianWeights[length - p + 1]
             w == RomanianWeights[length - (p + 1) + 1]
  <2>1. m.state \in 0..10 /\ v \in 1..7 /\ w \in 1..7 /\ v # w
    <3>1. /\ length - (p + 1) + 1 \in 1..8
          /\ length - p + 1 \in 1..9
          /\ length - p + 1 = (length - (p + 1) + 1) + 1
          /\ m.state \in 0..10
      BY <1>6, Shapes DEF LengthOK, FormOK, SpanishForms
    <3>2. v \in 1..7
      BY <3>1, Weights
    <3>3. w \in 1..7
      BY <3>1, Weights
    <3>4. \A q \in 1..8 : RomanianWeights[q + 1] # RomanianWeights[q]
      BY Weights
    <3>5. v # w
      BY <3>1, <3>4
    <3> QED BY <3>1, <3>2, <3>3, <3>5
  <2>2. /\ Step(a, p + 1, length, e) = (((m.state + v * d) % 11) + w * e) % 11
        /\ Step(b, p + 1, length, d) = (((m.state + v * e) % 11) + w * d) % 11
    BY <1>2, <1>6, Loops DEF RomanianStep
  <2> HIDE DEF v, w
  <2>3. (((m.state + v * d) % 11) + w * e) % 11
          # (((m.state + v * e) % 11) + w * d) % 11
    BY <2>1, Modulo11Order, Zenon
  <2>4. After(a, p + 1, e).state # After(b, p + 1, d).state
    BY <1>3, <2>2, <2>3, Zenon
  <2> QED BY <2>4 DEF a, b
<1>7. CASE m.form = "DE"
  <2>1. m.state \in 1..10
    BY <1>7, Shapes
  <2>2. /\ Step(a, p + 1, length, e) = GermanStep(GermanStep(m.state, d), e)
        /\ Step(b, p + 1, length, d) = GermanStep(GermanStep(m.state, e), d)
    BY <1>2, <1>7, Loops
  <2>3. d < e \/ e < d
    BY DEF Digits
  <2> QED BY <1>3, <1>4, <1>7, <2>1, <2>2, <2>3, GermanSwap DEF a, b, Digits
<1>8. CASE m.form \in {"NIF", "NIE"}
  <2>1. m.state \in 0..22
    BY <1>8, Shapes
  <2>2. /\ Step(a, p + 1, length, e) = NifStep(NifStep(m.state, d), e)
        /\ Step(b, p + 1, length, d) = NifStep(NifStep(m.state, e), d)
    BY <1>2, <1>8, Loops
  <2> QED BY <1>3, <2>1, <2>2, NifLoop DEF a, b
<1>9. CASE m.form = "CIF"
  <2>1. m.state \in 0..9 /\ p \in 1..8
    BY <1>9, Shapes
  <2>2. /\ Step(a, p + 1, length, e)
             = CifStep(CifStep(m.state, p, d), p + 1, e)
        /\ Step(b, p + 1, length, d)
             = CifStep(CifStep(m.state, p, e), p + 1, d)
    BY <1>2, <1>9, Loops
  <2>3. d < e \/ e < d
    BY DEF Digits
  <2> QED BY <1>3, <1>4, <1>9, <2>1, <2>2, <2>3, CifSwap, SMTT(30)
         DEF a, b, Digits
<1> QED BY <1>5, <1>6, <1>7, <1>8, <1>9, Shapes

-----------------------------------------------------------------------------
(* Control characters                                                      *)

(* Different states pass with different control characters, except where   *)
(* the Romanian remainder of 10 is compared as 0.                          *)
LEMMA ControlTells ==
  ASSUME NEW m, NEW t, IdOK(m), IdOK(t), t.form = m.form, m.state # t.state,
         NEW char, Passes(m, char), Passes(t, char)
  PROVE  m.form = "RO" /\ char = 0
<1>1. CASE m.form = "PL"
  BY <1>1 DEF Passes
<1>2. CASE m.form = "DE"
  <2>1. m.state \in 1..10 /\ t.state \in 1..10
    BY <1>2 DEF IdOK, Refused
  <2> QED BY <1>2, <2>1 DEF Passes
<1>3. CASE m.form = "RO"
  <2>1. m.state \in 0..10 /\ t.state \in 0..10
    BY <1>3, SMTT(30) DEF IdOK, Refused
  <2> QED BY <1>3, <2>1 DEF Passes
<1>4. CASE m.form \in {"NIF", "NIE"}
  <2>1. m.state \in 0..22 /\ t.state \in 0..22
    BY <1>4 DEF IdOK, Refused
  <2>2. NifLetters[m.state + 1] = NifLetters[t.state + 1]
    BY <1>4 DEF Passes
  <2> QED BY <2>1, <2>2, NifControl
<1>5. CASE m.form = "CIF"
  <2> DEFINE d(id) == (10 - id.state) % 10
  <2>1. m.state \in 0..9 /\ t.state \in 0..9
    BY <1>5 DEF IdOK, Refused
  <2>2. d(m) \in 0..9 /\ d(t) \in 0..9 /\ d(m) # d(t)
    BY <2>1
  <2>3. /\ char = d(m) \/ char = CifControls[d(m) + 1]
        /\ char = d(t) \/ char = CifControls[d(t) + 1]
    BY <1>5 DEF Passes
  <2> HIDE DEF d
  <2>4. /\ CifControls[d(m) + 1] \in 10..35 /\ CifControls[d(t) + 1] \in 10..35
        /\ CifControls[d(m) + 1] # CifControls[d(t) + 1]
    BY <2>2, CifControl
  <2> QED BY <2>2, <2>3, <2>4
<1> QED BY <1>1, <1>2, <1>3, <1>4, <1>5 DEF Passes

(* One state passes with one control character, or, in a CIF, with two.    *)
LEMMA OneControl ==
  ASSUME NEW m, NEW char, NEW key, Passes(m, char), Passes(m, key), char # key
  PROVE  m.form = "CIF"
BY DEF Passes

-----------------------------------------------------------------------------
(* The last digit and the control character, in either order               *)

LEMMA PolishLast ==
  ASSUME NEW s \in 0..10, NEW d \in Digits, NEW e \in Digits,
         e = (s + 7 * d) % 11, d = (s + 7 * e) % 11
  PROVE  d = e
BY SMTT(30) DEF Digits

GermanControl(s)   == IF 11 - s = 10 THEN 0 ELSE 11 - s
RomanianControl(s) == IF (s * 10) % 11 = 10 THEN 0 ELSE (s * 10) % 11

LEMMA GermanLast ==
  ASSUME NEW s \in 1..10, NEW d \in Digits, NEW e \in Digits, d < e,
         e = GermanControl(GermanStep(s, d)),
         d = GermanControl(GermanStep(s, e))
  PROVE  e - d \in {1, 9}
<1> DEFINE Fits(total, char) == \/ total <= 5 /\ char = 11 - 2 * total
                                \/ total = 6 /\ char = 0
                                \/ total > 6 /\ char = 22 - 2 * total
<1>1. \A total \in 1..10 : Fits(total, GermanControl((2 * total) % 11))
  BY DEF GermanControl
<1>2. \A x \in Digits : \E total \in 1..10 :
        /\ GermanStep(s, x) = (2 * total) % 11
        /\ total = s + x \/ total = s + x - 10
  <2> TAKE x \in Digits
  <2> DEFINE total == IF (x + s) % 10 = 0 THEN 10 ELSE (x + s) % 10
  <2>1. total \in 1..10 /\ (total = s + x \/ total = s + x - 10)
    BY DEF Digits
  <2>2. GermanStep(s, x) = (2 * total) % 11
    BY ZenonT(30) DEF GermanStep
  <2> HIDE DEF total
  <2> QED BY <2>1, <2>2
<1> HIDE DEF Fits
<1>3. PICK a \in 1..10 : Fits(a, e) /\ (a = s + d \/ a = s + d - 10)
  BY <1>1, <1>2, Zenon
<1>4. PICK b \in 1..10 : Fits(b, d) /\ (b = s + e \/ b = s + e - 10)
  BY <1>1, <1>2, Zenon
<1>5. \/ a - b = d - e
      \/ a - b = d - e + 10
      \/ a - b = d - e - 10
  BY <1>3, <1>4 DEF Digits
<1> QED BY <1>3, <1>4, <1>5 DEF Fits, Digits

LEMMA RomanianLast ==
  ASSUME NEW s \in 0..10, NEW d \in Digits, NEW e \in Digits,
         e = RomanianControl((s + 7 * d) % 11),
         d = RomanianControl((s + 7 * e) % 11)
  PROVE  d = e \/ d = 0 \/ e = 0
BY SMTT(30) DEF RomanianControl, Digits

LEMMA CifLast ==
  ASSUME NEW s \in 0..9, NEW d \in Digits, NEW e \in Digits, d < e,
         e = (10 - CifStep(s, 8, d)) % 10,
         d = (10 - CifStep(s, 8, e)) % 10
  PROVE  e - d = 9
BY SMTT(30) DEF CifStep, Digits

(* Two different characters that the service accepts in either order.      *)
LEMMA LastOrder ==
  ASSUME LengthOK, NEW m, IdOK(m), FormOK(m, length), m.form # "none",
         NEW last \in Digits, NEW char \in Digits, last # char,
         Passes(After(m, length, last), char),
         Passes(After(m, length, char), last)
  PROVE  \/ m.form = "DE" /\ Swapped(char, last).gap \in {1, 9}
         \/ m.form = "CIF" /\ Swapped(char, last).gap = 9
         \/ m.form = "RO" /\ 0 \in {char, last}
<1> DEFINE a == After(m, length, last)
           b == After(m, length, char)
<1>1. length \in 1..length
  BY DEF LengthOK
<1>2. /\ a.form = m.form /\ a.state = Step(m, length, length, last)
      /\ b.form = m.form /\ b.state = Step(m, length, length, char)
  BY <1>1, Shapes DEF After
<1>3. Passes(a, char) /\ Passes(b, last)
  OBVIOUS
<1> HIDE DEF a, b
<1>4. Swapped(char, last).gap = IF char < last THEN last - char ELSE char - last
  BY DEF Swapped
<1>5. last < char \/ char < last
  BY DEF Digits
<1>6. CASE m.form = "PL"
  <2>1. m.state \in 0..10 /\ length = 9
    BY <1>1, <1>6, Shapes DEF LengthOK, FormOK, SpanishForms
  <2>2. /\ a.state = (m.state + 7 * last) % 11
        /\ b.state = (m.state + 7 * char) % 11
    BY <1>2, <1>6, <2>1, Loops, Weights DEF PolishStep
  <2>3. char = a.state /\ last = b.state
    BY <1>2, <1>3, <1>6 DEF Passes
  <2> QED BY <2>1, <2>2, <2>3, PolishLast
<1>7. CASE m.form = "DE"
  <2>1. m.state \in 1..10
    BY <1>1, <1>7, Shapes
  <2>2. /\ a.state = GermanStep(m.state, last)
        /\ b.state = GermanStep(m.state, char)
    BY <1>2, <1>7, Loops
  <2>3. char = GermanControl(a.state) /\ last = GermanControl(b.state)
    BY <1>2, <1>3, <1>7 DEF Passes, GermanControl
  <2> QED BY <1>4, <1>5, <1>7, <2>1, <2>2, <2>3, GermanLast DEF Digits
<1>8. CASE m.form = "RO"
  <2>1. m.state \in 0..10
    BY <1>1, <1>8, Shapes
  <2>2. /\ a.state = (m.state + 7 * last) % 11
        /\ b.state = (m.state + 7 * char) % 11
    <3>1. length - length + 1 = 1
      BY DEF LengthOK
    <3> QED BY <1>2, <1>8, <3>1, Loops, Weights DEF RomanianStep
  <2>3. char = RomanianControl(a.state) /\ last = RomanianControl(b.state)
    BY <1>2, <1>3, <1>8, SMTT(30) DEF Passes, RomanianControl
  <2> QED BY <1>8, <2>1, <2>2, <2>3, RomanianLast
<1>9. CASE m.form \in {"NIF", "NIE"}
  <2>1. a.state \in 0..22
    <3>1. m.state \in 0..22
      BY <1>1, <1>9, Shapes
    <3> QED BY <1>2, <1>9, <3>1, Loops, NifLoop
  <2>2. char = NifLetters[a.state + 1]
    BY <1>2, <1>3, <1>9 DEF Passes
  <2> QED BY <2>1, <2>2, NifControl, SMTT(30) DEF Digits
<1>10. CASE m.form = "CIF"
  <2> DEFINE x == (10 - a.state) % 10
             y == (10 - b.state) % 10
  <2>1. m.state \in 0..9 /\ length = 8
    BY <1>1, <1>10, Shapes DEF LengthOK, FormOK, SpanishForms
  <2>2. /\ a.state = CifStep(m.state, 8, last)
        /\ b.state = CifStep(m.state, 8, char)
    BY <1>2, <1>10, <2>1, Loops
  <2>3. x \in 0..9 /\ y \in 0..9
    <3>1. a.state \in 0..9 /\ b.state \in 0..9
      BY <2>1, <2>2, CifLoop
    <3> QED BY <3>1
  <2>4. /\ char = x \/ char = CifControls[x + 1]
        /\ last = y \/ last = CifControls[y + 1]
    BY <1>2, <1>3, <1>10 DEF Passes
  <2> HIDE DEF x, y
  <2>5. char = x /\ last = y
    BY <2>3, <2>4, CifControl DEF Digits
  <2>6. last < char => char - last = 9
    BY <2>1, <2>2, <2>5, CifLast DEF x, y
  <2>7. char < last => last - char = 9
    BY <2>1, <2>2, <2>5, CifLast DEF x, y
  <2> QED BY <1>4, <1>5, <1>10, <2>6, <2>7 DEF Digits
<1> QED BY <1>1, <1>6, <1>7, <1>8, <1>9, <1>10, Shapes

-----------------------------------------------------------------------------
(* Characters                                                              *)

LEMMA NieStart ==
  ASSUME NEW char \in Range(NieFirst)
  PROVE  (CHOOSE i \in DOMAIN NieFirst : NieFirst[i] = char) - 1 \in 0..2
<1>1. DOMAIN NieFirst = 1..3
  BY DEF NieFirst, Code
<1>2. \E i \in DOMAIN NieFirst : NieFirst[i] = char
  BY DEF Range
<1>3. (CHOOSE i \in DOMAIN NieFirst : NieFirst[i] = char) \in DOMAIN NieFirst
  BY <1>2
<1> QED BY <1>1, <1>3

LEMMA SpanishStarts ==
  ASSUME NEW char
  PROVE  /\ IdOK(SpanishStart(char))
         /\ SpanishStart(char).form \in SpanishForms \cup {"none"}
         /\ char \in Digits =>
              SpanishStart(char) = [form |-> "NIF", state |-> char]
<1>1. CASE char \in Digits
  BY <1>1 DEF SpanishStart, IdOK, SpanishForms, Digits
<1>2. CASE char \notin Digits /\ char \in Range(NieFirst)
  BY <1>2, NieStart DEF SpanishStart, IdOK, SpanishForms
<1>3. CASE char \notin Digits /\ char \notin Range(NieFirst)
  BY <1>3 DEF SpanishStart, IdOK, SpanishForms, Refused
<1> QED BY <1>1, <1>2, <1>3

(* The state an NIE starts from names its first character.                 *)
LEMMA NieStartNames ==
  ASSUME NEW char, SpanishStart(char).form = "NIE"
  PROVE  NieFirst[SpanishStart(char).state + 1] = char
<1> DEFINE i == CHOOSE k \in DOMAIN NieFirst : NieFirst[k] = char
<1>1. char \notin Digits /\ char \in Range(NieFirst)
  BY DEF SpanishStart, Refused
<1>2. i \in DOMAIN NieFirst /\ NieFirst[i] = char
  BY <1>1 DEF Range
<1>3. SpanishStart(char).state = i - 1
  BY <1>1 DEF SpanishStart
<1>4. DOMAIN NieFirst = 1..3
  BY DEF NieFirst, Code
<1> HIDE DEF i
<1>5. SpanishStart(char).state + 1 = i
  BY <1>2, <1>3, <1>4
<1> QED BY <1>2, <1>5

(* Within the forms that have numbers, other characters start elsewhere.   *)
LEMMA OtherStart ==
  ASSUME NEW char, NEW key, char # key,
         SpanishStart(char).form = SpanishStart(key).form,
         SpanishStart(char).form \in {"NIF", "NIE"}
  PROVE  SpanishStart(char).state # SpanishStart(key).state
<1>1. CASE SpanishStart(char).form = "NIF"
  <2>1. SpanishStart(char).state = char
    BY <1>1 DEF SpanishStart, Refused
  <2>2. SpanishStart(key).state = key
    BY <1>1 DEF SpanishStart, Refused
  <2> QED BY <2>1, <2>2
<1>2. CASE SpanishStart(char).form = "NIE"
  <2>1. NieFirst[SpanishStart(char).state + 1] = char
    BY <1>2, NieStartNames
  <2>2. NieFirst[SpanishStart(key).state + 1] = key
    BY <1>2, NieStartNames
  <2> QED BY <2>1, <2>2
<1> QED BY <1>1, <1>2

(* The character that decides on a Spanish identifier's form.              *)
Deciding(p) == country = "ES" /\ p = 1

LEMMA Reading ==
  ASSUME LengthOK, NEW p \in 1..length, NEW id, IdOK(id), FormOK(id, p),
         NEW char
  PROVE  /\ Deciding(p) => Read(id, p, char) = SpanishStart(char)
         /\ ~Deciding(p) /\ id.form # "none" /\ char \in Digits =>
              /\ Read(id, p, char) = After(id, p, char)
              /\ Read(id, p, char).form = id.form
         /\ ~Deciding(p) /\ (id.form = "none" \/ char \notin Digits) =>
              Read(id, p, char) = Refused
         /\ IdOK(Read(id, p, char))
         /\ FormOK(Read(id, p, char), p + 1)
<1>1. p + 1 # 1 /\ IdOK(Refused) /\ Refused.form = "none"
  BY DEF LengthOK, IdOK, Refused
<1>2. CASE Deciding(p)
  BY <1>1, <1>2, SpanishStarts DEF Deciding, Read, FormOK
<1>3. CASE ~Deciding(p) /\ id.form # "none" /\ char \in Digits
  <2>1. Read(id, p, char) = After(id, p, char)
    BY <1>3 DEF Read, Deciding, After
  <2>2. After(id, p, char).form = id.form
    BY <1>3, Shapes DEF After
  <2>3. IdOK(After(id, p, char))
    BY <1>3, SameDigit
  <2> QED BY <1>1, <1>3, <2>1, <2>2, <2>3 DEF FormOK
<1>4. CASE ~Deciding(p) /\ (id.form = "none" \/ char \notin Digits)
  BY <1>1, <1>4 DEF Read, Deciding, FormOK, SpanishForms
<1> QED BY <1>2, <1>3, <1>4

-----------------------------------------------------------------------------
(* The steps                                                               *)

LEMMA Initially ==
  ASSUME Init
  PROVE  Inv
<1>1. LengthOK /\ place = 1 /\ place \in 1..(length + 2)
  <2>1. LengthOK /\ place = 1
    BY LengthsAssumption DEF Init, LengthOK
  <2>2. length \in Nat
    BY <2>1 DEF LengthOK
  <2> QED BY <2>1, <2>2
<1>2. /\ IdOK(meant) /\ FormOK(meant, place)
      /\ meant.form = "none" => country = "ES"
      /\ typed = meant
  <2>1. meant = Start(country) /\ typed = Start(country) /\ place = 1
    BY DEF Init
  <2>2. CASE country = "ES"
    BY <2>1, <2>2 DEF Start, IdOK, FormOK, SpanishForms, Refused
  <2>3. CASE country \in {"DE", "PL", "RO"}
    BY <2>1, <2>3 DEF Start, IdOK, FormOK
  <2> QED BY <2>1, <2>2, <2>3 DEF Init
<1>3. TellsApart /\ SlipsAreNoticed /\ SwapsAreNoticed
  BY <1>2 DEF Init, TellsApart, SlipsAreNoticed, SwapsAreNoticed, NoSlip
<1> QED BY <1>1, <1>2, <1>3 DEF Inv, TypeInv

(* Both identifiers after a character each.                                *)
LEMMA CharacterTypes ==
  ASSUME Inv, NEW char, NEW key, place <= length,
         meant' = Read(meant, place, char), meant'.form # "none",
         typed' = Read(typed, place, key),
         place' = place + 1, UNCHANGED <<country, length>>
  PROVE  TypeInv'
<1>1. place \in 1..length
  BY DEF Inv, TypeInv, LengthOK
<1>2. LengthOK' /\ place' \in 1..(length' + 2)
  BY <1>1 DEF Inv, TypeInv, LengthOK
<1>3. /\ IdOK(meant') /\ FormOK(meant', place + 1)
      /\ IdOK(typed') /\ FormOK(typed', place + 1)
  BY <1>1, Reading DEF Inv, TypeInv
<1>4. IdOK(meant)' /\ IdOK(typed)'
  BY <1>3 DEF IdOK
<1>5. FormOK(meant, place)' /\ FormOK(typed, place)'
  BY <1>3 DEF FormOK
<1> QED BY <1>2, <1>4, <1>5 DEF TypeInv

(* Nothing is said of the verdict before it is given.                      *)
LEMMA NoVerdict ==
  ASSUME ~accepted'
  PROVE  SlipsAreNoticed' /\ SwapsAreNoticed'
BY DEF SlipsAreNoticed, SwapsAreNoticed

LEMMA ApartStays ==
  ASSUME LengthOK, NEW p \in 1..length, NEW m, NEW t, IdOK(m), IdOK(t),
         FormOK(m, p), FormOK(t, p), m.form # "none", Apart(m, t),
         ~Deciding(p), NEW d \in Digits
  PROVE  Apart(Read(m, p, d), Read(t, p, d))
<1>1. CASE t.form = "none"
  BY <1>1, Reading DEF Apart, Refused
<1>2. CASE t.form = m.form /\ m.state # t.state
  BY <1>2, Reading, SameDigit DEF Apart
<1> QED BY <1>1, <1>2 DEF Apart

LEMMA CharacterKeeps ==
  ASSUME Inv, NEW char \in Chars, TypeCharacter(char)
  PROVE  Inv'
<1>1. /\ length \in Nat /\ place \in 1..length /\ place' = place + 1
      /\ UNCHANGED <<country, length, accepted>>
      /\ meant' = Read(meant, place, char) /\ meant'.form # "none"
  BY DEF Inv, TypeInv, LengthOK, TypeCharacter
<1>2. TypeInv'
  BY <1>1, CharacterTypes DEF TypeCharacter
<1>3. ~accepted'
  BY <1>1 DEF Inv, TellsApart
<1>4. Deciding(place) \/ (meant.form # "none" /\ char \in Digits)
  BY <1>1, Reading DEF Inv, TypeInv, Refused, Deciding
<1>5. place' # 1
  BY <1>1
<1>6. ~Deciding(place) => meant'.form = meant.form
  BY <1>1, <1>4, Reading DEF Inv, TypeInv
<1>7. CASE typed' = Read(typed, place, char) /\ UNCHANGED slip
  <2>1. ASSUME slip = NoSlip, typed = meant
        PROVE  TellsApart'
    BY <1>1, <1>3, <1>5, <1>7, <2>1 DEF TellsApart, NoSlip
  <2>2. ASSUME slip.kind # "none"
        PROVE  TellsApart'
    <3>1. /\ slip.kind \in {"first", "later", "swap"}
          /\ Apart(meant, typed) \/ Overlooked
          /\ ~Deciding(place)
      BY <1>1, <2>2 DEF Inv, TellsApart, NoSlip, Deciding
    <3>2. Apart(meant, typed) => Apart(meant', typed')
      BY <1>1, <1>4, <1>7, <3>1, ApartStays DEF Inv, TypeInv
    <3>3. Overlooked => Overlooked'
      <4>1. typed'.form \in {typed.form, "none"}
        BY <1>1, <1>7, <3>1, Reading DEF Inv, TypeInv, Refused
      <4>2. meant'.form = meant.form /\ meant'.form # "none"
        BY <1>1, <1>6, <3>1
      <4> QED BY <1>1, <1>7, <4>1, <4>2 DEF Overlooked
    <3>4. Apart(meant', typed') => Apart(meant, typed)'
      BY DEF Apart
    <3>5. slip'.kind # "none" /\ slip'.kind \in {"first", "later", "swap"}
      BY <1>7, <3>1
    <3> QED BY <1>3, <1>5, <3>1, <3>2, <3>3, <3>4, <3>5 DEF TellsApart
  <2>3. slip.kind = "none" => slip = NoSlip /\ typed = meant
    BY <1>1 DEF Inv, TellsApart
  <2>4. TellsApart'
    BY <2>1, <2>2, <2>3
  <2> QED BY <1>2, <1>3, <2>4, NoVerdict DEF Inv
<1>8. ASSUME NEW key \in Chars \ {char}, slip = NoSlip,
             typed' = Read(typed, place, key), slip' = WrongAt(place)
      PROVE  Inv'
  <2>1. typed = meant
    BY <1>1, <1>8 DEF Inv, TellsApart, NoSlip
  <2>2. slip'.kind = (IF place = 1 THEN "first" ELSE "later")
    BY <1>1, <1>8 DEF WrongAt, Inv, TypeInv, LengthOK
  <2>3. Apart(meant, typed)' \/ Overlooked'
    <3>1. CASE Deciding(place)
      <4>1. meant' = SpanishStart(char) /\ typed' = SpanishStart(key)
        BY <1>1, <1>8, <3>1, Reading DEF Inv, TypeInv
      <4>2. meant'.form \in {"NIF", "NIE", "CIF"}
        BY <1>1, <4>1, SpanishStarts DEF SpanishForms
      <4>3. slip'.kind = "first"
        BY <2>2, <3>1 DEF Deciding
      <4>4. typed'.form = meant'.form /\ meant'.form # "CIF" =>
              typed'.state # meant'.state
        BY <1>8, <4>1, <4>2, OtherStart
      <4> QED BY <4>3, <4>4 DEF Apart, Overlooked
    <3>2. CASE ~Deciding(place) /\ key \notin Digits
      BY <1>1, <1>8, <3>2, Reading DEF Inv, TypeInv, Apart, Refused
    <3>3. CASE ~Deciding(place) /\ key \in Digits
      <4>1. /\ meant' = After(meant, place, char)
            /\ typed' = After(meant, place, key)
            /\ meant'.form = meant.form /\ typed'.form = meant.form
        BY <1>1, <1>4, <1>8, <2>1, <3>3, Reading DEF Inv, TypeInv
      <4>2. meant'.state # typed'.state
        BY <1>1, <1>4, <1>8, <3>3, <4>1, OtherDigit DEF Inv, TypeInv
      <4> QED BY <4>1, <4>2 DEF Apart
    <3> QED BY <3>1, <3>2, <3>3
  <2>4. TellsApart'
    BY <1>3, <1>5, <2>2, <2>3 DEF TellsApart
  <2> QED BY <1>2, <1>3, <2>4, NoVerdict DEF Inv
<1> QED BY <1>7, <1>8 DEF TypeCharacter

LEMMA SwappedKeeps ==
  ASSUME Inv, NEW char \in Chars, TypeSwapped(char)
  PROVE  Inv'
<1>1. PICK next \in Digits \ {char} :
        /\ meant' = Read(Read(meant, place, char), place + 1, next)
        /\ typed' = Read(Read(typed, place, next), place + 1, char)
        /\ slip' = Swapped(char, next)
  BY DEF TypeSwapped
<1> DEFINE a == Read(meant, place, char)
           b == Read(typed, place, next)
<1>2. /\ length \in Nat /\ place \in 1..length /\ place + 1 \in 1..length
      /\ place' = place + 2 /\ UNCHANGED <<country, length, accepted>>
      /\ a.form # "none" /\ slip = NoSlip
  BY DEF Inv, TypeInv, LengthOK, TypeSwapped
<1>3. ~accepted' /\ typed = meant
  BY <1>2 DEF Inv, TellsApart, NoSlip
<1>4. /\ IdOK(a) /\ FormOK(a, place + 1)
      /\ IdOK(b) /\ FormOK(b, place + 1)
  BY <1>2, Reading DEF Inv, TypeInv
<1>5. ~Deciding(place + 1) /\ place' # 1
  BY <1>2 DEF Deciding
<1>6. /\ IdOK(meant') /\ FormOK(meant', place')
      /\ IdOK(typed') /\ FormOK(typed', place')
  <2>1. place' = (place + 1) + 1
    BY <1>2
  <2> HIDE DEF a, b
  <2>2. /\ meant' = Read(a, place + 1, next)
        /\ typed' = Read(b, place + 1, char)
    BY <1>1 DEF a, b
  <2> QED BY <1>2, <1>4, <2>1, <2>2, Reading DEF Inv, TypeInv
<1>7. /\ meant' = After(a, place + 1, next)
      /\ meant'.form = a.form
  <2> HIDE DEF a, b
  <2> QED BY <1>1, <1>2, <1>4, <1>5, Reading DEF a, Inv, TypeInv
<1>8. TypeInv'
  <2>1. LengthOK' /\ place' \in 1..(length' + 2)
    BY <1>2 DEF Inv, TypeInv, LengthOK
  <2>2. /\ IdOK(meant)' /\ FormOK(meant, place)'
        /\ IdOK(typed)' /\ FormOK(typed, place)'
    BY <1>2, <1>6 DEF IdOK, FormOK
  <2> QED BY <1>2, <1>7, <2>1, <2>2 DEF TypeInv
<1>9. Apart(meant, typed)' \/ Overlooked'
  <2>1. CASE char \notin Digits \/ b.form = "none"
    <3>1. typed' = Refused
      <4> HIDE DEF b
      <4> QED BY <1>1, <1>2, <1>4, <1>5, <2>1, Reading DEF b, Inv, TypeInv
    <3> QED BY <3>1 DEF Apart, Refused
  <2>2. ASSUME char \in Digits, b.form # "none"
        PROVE  typed' = After(b, place + 1, char) /\ typed'.form = b.form
    <3> HIDE DEF b
    <3> QED BY <1>1, <1>2, <1>4, <1>5, <2>2, Reading DEF b, Inv, TypeInv
  <2>3. CASE Deciding(place) /\ char \in Digits
    <3>1. /\ a = [form |-> "NIF", state |-> char]
          /\ b = [form |-> "NIF", state |-> next]
      BY <1>2, <2>3, Reading, SpanishStarts DEF Inv, TypeInv
    <3>2. /\ meant'.state = NifStep(char, next)
          /\ typed'.state = NifStep(next, char)
          /\ meant'.form = "NIF" /\ typed'.form = "NIF"
      BY <1>7, <2>2, <2>3, <3>1, Loops DEF After
    <3> QED BY <1>1, <2>3, <3>2, NifFirst DEF Apart
  <2>4. CASE ~Deciding(place) /\ char \in Digits
    <3>1. /\ a = After(meant, place, char) /\ b = After(meant, place, next)
          /\ meant.form # "none" /\ a.form = meant.form /\ b.form = meant.form
      BY <1>2, <1>3, <2>4, Reading DEF Inv, TypeInv, Deciding
    <3>2. /\ meant' = After(After(meant, place, char), place + 1, next)
          /\ typed' = After(After(meant, place, next), place + 1, char)
          /\ meant'.form = meant.form /\ typed'.form = meant.form
      BY <1>7, <2>2, <2>4, <3>1
    <3>3. \/ meant'.state # typed'.state
          \/ meant.form = "DE" /\ slip'.gap \in {1, 9}
          \/ meant.form = "CIF" /\ slip'.gap = 9
      BY <1>1, <1>2, <2>4, <3>1, <3>2, OtherOrder DEF Inv, TypeInv
    <3>4. slip'.kind = "swap"
      BY <1>1 DEF Swapped
    <3>5. meant.form = "DE" => country' = "DE"
      BY <1>2 DEF Inv, TypeInv, FormOK, SpanishForms
    <3> QED BY <3>2, <3>3, <3>4, <3>5 DEF Apart, Overlooked
  <2> QED BY <2>1, <2>3, <2>4
<1>10. TellsApart'
  BY <1>1, <1>3, <1>5, <1>9 DEF TellsApart, Swapped
<1> QED BY <1>3, <1>8, <1>10, NoVerdict DEF Inv

LEMMA ControlKeeps ==
  ASSUME Inv, NEW char \in Chars, TypeControl(char)
  PROVE  Inv'
<1>1. /\ length \in Nat /\ length > 0
      /\ place = length + 1 /\ place' = length + 2 /\ Passes(meant, char)
      /\ UNCHANGED <<country, length, meant, typed>>
  BY DEF Inv, TypeInv, LengthOK, TypeControl
<1>2. /\ IdOK(meant) /\ IdOK(typed) /\ FormOK(meant, place)
      /\ meant.form # "none"
  BY <1>1 DEF Inv, TypeInv
<1>3. TypeInv'
  <2>1. LengthOK' /\ place' \in 1..(length' + 2)
    BY <1>1 DEF Inv, TypeInv, LengthOK
  <2>2. /\ IdOK(meant)' /\ FormOK(meant, place)'
        /\ IdOK(typed)' /\ FormOK(typed, place)'
    BY <1>1 DEF Inv, TypeInv, IdOK, FormOK
  <2> QED BY <1>1, <1>2, <2>1, <2>2 DEF TypeInv
<1>4. TellsApart'
  BY <1>1 DEF TellsApart
<1>5. CASE /\ accepted' = Passes(typed, char)
           /\ control' = {char} /\ UNCHANGED slip
  <2>1. slip.kind \in {"none", "first", "later", "swap"}
    BY <1>1 DEF Inv, TellsApart
  <2>2. ASSUME accepted', slip.kind # "none"
        PROVE  Overlooked \/ (country = "RO" /\ 0 \in control')
    <3>1. Passes(typed, char)
      BY <1>5, <2>2
    <3>2. typed.form # "none"
      BY <3>1 DEF Passes
    <3>3. Apart(meant, typed) \/ Overlooked
      BY <1>1, <2>2 DEF Inv, TellsApart
    <3>4. Apart(meant, typed) => meant.form = "RO" /\ char = 0
      BY <1>1, <1>2, <3>1, <3>2, ControlTells DEF Apart
    <3>5. meant.form = "RO" => country = "RO"
      BY <1>2 DEF FormOK, SpanishForms
    <3> QED BY <1>5, <3>3, <3>4, <3>5
  <2>3. SlipsAreNoticed' /\ SwapsAreNoticed'
    BY <1>1, <1>5, <2>1, <2>2
       DEF SlipsAreNoticed, SwapsAreNoticed, Overlooked
  <2> QED BY <1>3, <1>4, <2>3 DEF Inv
<1>6. ASSUME NEW key \in Chars \ {char}, slip = NoSlip,
             accepted' = Passes(typed, key), slip' = WrongAt(place)
      PROVE  Inv'
  <2>1. typed = meant
    BY <1>1, <1>6 DEF Inv, TellsApart, NoSlip
  <2>2. slip'.kind = "control"
    BY <1>1, <1>6 DEF WrongAt
  <2>3. accepted' => meant'.form = "CIF"
    BY <1>1, <1>6, <2>1, OneControl
  <2>4. SlipsAreNoticed' /\ SwapsAreNoticed'
    BY <2>2, <2>3 DEF SlipsAreNoticed, SwapsAreNoticed
  <2> QED BY <1>3, <1>4, <2>4 DEF Inv
<1> QED BY <1>5, <1>6 DEF TypeControl

LEMMA ControlFirstKeeps ==
  ASSUME Inv, NEW char \in Chars, TypeControlFirst(char)
  PROVE  Inv'
<1>1. PICK last \in Chars \ {char} :
        /\ meant' = Read(meant, place, last)
        /\ meant'.form # "none" /\ Passes(meant', char)
        /\ typed' = Read(typed, place, char)
        /\ accepted' = (typed'.form # "none" /\ Passes(typed', last))
        /\ control' = {char, last}
        /\ slip' = Swapped(char, last)
  BY DEF TypeControlFirst
<1>2. /\ length \in Nat /\ place = length /\ length \in 1..length
      /\ place' = length + 2 /\ UNCHANGED <<country, length>>
      /\ slip = NoSlip
  BY DEF Inv, TypeInv, LengthOK, TypeControlFirst
<1>3. typed = meant /\ ~Deciding(place)
  BY <1>2 DEF Inv, TypeInv, LengthOK, TellsApart, NoSlip, Deciding
<1>4. /\ IdOK(meant') /\ FormOK(meant', place + 1)
      /\ IdOK(typed') /\ FormOK(typed', place + 1)
  BY <1>1, <1>2, Reading DEF Inv, TypeInv
<1>5. TypeInv'
  <2>1. LengthOK' /\ place' \in 1..(length' + 2)
    BY <1>2 DEF Inv, TypeInv, LengthOK
  <2>2. /\ IdOK(meant)' /\ FormOK(meant, place)'
        /\ IdOK(typed)' /\ FormOK(typed, place)'
    BY <1>2, <1>4 DEF IdOK, FormOK
  <2> QED BY <1>1, <2>1, <2>2 DEF TypeInv
<1>6. TellsApart'
  BY <1>2 DEF TellsApart
<1>7. slip'.kind = "swap"
  BY <1>1 DEF Swapped
<1>8. ASSUME accepted'
      PROVE  \/ country' = "DE" /\ slip'.gap \in {1, 9}
             \/ meant'.form = "CIF" /\ slip'.gap = 9
             \/ country' = "RO" /\ 0 \in control'
  <2>1. typed'.form # "none" /\ Passes(typed', last)
    BY <1>1, <1>8
  <2>2. /\ meant.form # "none" /\ last \in Digits /\ char \in Digits
        /\ meant' = After(meant, length, last)
        /\ typed' = After(meant, length, char)
        /\ meant'.form = meant.form
    BY <1>1, <1>2, <1>3, <2>1, Reading DEF Inv, TypeInv, Refused
  <2>3. \/ meant.form = "DE" /\ Swapped(char, last).gap \in {1, 9}
        \/ meant.form = "CIF" /\ Swapped(char, last).gap = 9
        \/ meant.form = "RO" /\ 0 \in {char, last}
    BY <1>1, <1>2, <2>1, <2>2, LastOrder DEF Inv, TypeInv
  <2>4. /\ meant.form = "DE" => country' = "DE"
        /\ meant.form = "RO" => country' = "RO"
    BY <1>2 DEF Inv, TypeInv, FormOK, SpanishForms
  <2> QED BY <1>1, <2>2, <2>3, <2>4
<1>9. SlipsAreNoticed' /\ SwapsAreNoticed'
  BY <1>7, <1>8 DEF SlipsAreNoticed, SwapsAreNoticed
<1> QED BY <1>5, <1>6, <1>9 DEF Inv

LEMMA NothingChanges ==
  ASSUME Inv, UNCHANGED vars
  PROVE  Inv'
BY DEF vars, Inv, TypeInv, LengthOK, IdOK, FormOK, TellsApart, Apart,
       Overlooked, SlipsAreNoticed, SwapsAreNoticed

(* The invariant holds for all identifiers and all slips.                  *)
THEOREM AlwaysTold == Spec => []Inv
<1>1. Init => Inv
  BY Initially
<1>2. Inv /\ [Next]_vars => Inv'
  BY CharacterKeeps, SwappedKeeps, ControlKeeps, ControlFirstKeeps,
     NothingChanges DEF Next
<1> QED BY <1>1, <1>2, PTL DEF Spec

(* A wrong character in a tax identifier is noticed, wherever it is typed  *)
(* and whatever the others are, but for the exceptions of each method      *)
(* (no_network.py:591-662).                                                *)
THEOREM SlipsNoticed == Spec => []SlipsAreNoticed
<1>1. Inv => SlipsAreNoticed
  BY DEF Inv
<1> QED BY <1>1, AlwaysTold, PTL

(* Two neighbours swapped in a tax identifier are noticed, but for the     *)
(* exceptions of each method (no_network.py:591-662).                      *)
THEOREM SwapsNoticed == Spec => []SwapsAreNoticed
<1>1. Inv => SwapsAreNoticed
  BY DEF Inv
<1> QED BY <1>1, AlwaysTold, PTL
=============================================================================
