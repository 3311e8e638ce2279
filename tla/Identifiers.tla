----------------------------- MODULE Identifiers -----------------------------
(***************************************************************************)
(* The check characters of tax identifiers                                 *)
(* (app/services/validation/no_network.py).                                *)
(*                                                                         *)
(* Somebody types an identifier from left to right and may slip once.  The *)
(* state keeps, of the identifier that was meant and of the one typed, no  *)
(* more than the service's loops keep while they run over the digits, so   *)
(* that the reachable states stand for all identifiers, whatever their     *)
(* digits, and all slips.                                                  *)
(*                                                                         *)
(* A character is a number: 0 to 9, and 10 to 35 for the letters A to Z.   *)
(*                                                                         *)
(* A definition marked "Fault:" is what the one after it would be with a   *)
(* plausible bug; nothing uses it.                                         *)
(***************************************************************************)
EXTENDS Integers, Sequences, SequencesExt

CONSTANT Lengths   (* of the payloads of Romanian identifiers that are      *)
                   (* considered; the code allows 1 to 9 digits             *)

ASSUME LengthsAssumption == Lengths \subseteq 1..9

VARIABLES
  country,  (* of the identifier                                            *)
  length,   (* of its payload: the characters before the control            *)
  place,    (* of the next character, from 1                                *)
  meant,    (* the loop's state for the identifier that is meant            *)
  typed,    (* ... and for the one that is typed                            *)
  slip,     (* none, a wrong character, or two neighbours swapped           *)
  control,  (* the control characters that are meant and typed              *)
  accepted  (* the typed identifier has passed                              *)

vars == <<country, length, place, meant, typed, slip, control, accepted>>

Digits  == 0..9
Letters == <<"A", "B", "C", "D", "E", "F", "G", "H", "I", "J", "K", "L", "M",
             "N", "O", "P", "Q", "R", "S", "T", "U", "V", "W", "X", "Y", "Z">>
Chars   == 0..35

Letter(l) == 9 + CHOOSE i \in DOMAIN Letters : Letters[i] = l
Code(letters) == [i \in DOMAIN letters |-> Letter(letters[i])]

NifLetters ==
  Code(<<"T", "R", "W", "A", "G", "M", "Y", "F", "P", "D", "X", "B", "N", "J",
         "Z", "S", "Q", "V", "H", "L", "C", "K", "E">>)
CifControls == Code(<<"J", "A", "B", "C", "D", "E", "F", "G", "H", "I">>)
CifFirst ==
  Range(Code(<<"A", "B", "C", "D", "E", "F", "G", "H", "J", "N", "P", "Q", "R",
               "S", "U", "V", "W">>))
NieFirst == Code(<<"X", "Y", "Z">>)

PolishWeights   == <<6, 5, 7, 2, 3, 4, 5, 6, 7>>
RomanianWeights == <<7, 5, 3, 2, 1, 7, 5, 3, 2>>

-----------------------------------------------------------------------------
(* The loops.  Each returns the state after the digit at a place.          *)

PolishStep(sum, p, digit) == (sum + PolishWeights[p] * digit) % 11

(* Fault: a total of 0 stays 0.                                            *)
GermanStepKeepsZero(product, digit) == (2 * ((digit + product) % 10)) % 11

GermanStep(product, digit) ==
  LET total == (digit + product) % 10
  IN  (2 * (IF total = 0 THEN 10 ELSE total)) % 11

(* The weights run from the right.                                         *)
RomanianStep(sum, p, n, digit) ==
  (sum + RomanianWeights[n - p + 1] * digit) % 11

NifStep(number, digit) == (10 * number + digit) % 23

(* Fault: the other places are doubled, as if counted from 0.              *)
CifStepFromZero(total, p, digit) ==
  IF (p - 1) % 2 = 1
  THEN (total + digit) % 10
  ELSE (total + ((2 * digit) \div 10) + ((2 * digit) % 10)) % 10

(* Place 2 of the identifier is digit 1, which is doubled.                 *)
CifStep(total, p, digit) ==
  IF (p - 1) % 2 = 1
  THEN (total + ((2 * digit) \div 10) + ((2 * digit) % 10)) % 10
  ELSE (total + digit) % 10

-----------------------------------------------------------------------------
(* What the patterns and the loops make of an identifier so far.  "none":  *)
(* no pattern matches it.                                                  *)
Forms   == {"DE", "PL", "RO", "NIF", "NIE", "CIF"}
Refused == [form |-> "none", state |-> 0]

(* spanish_tax_id_checksum: the first character decides on the form.       *)
SpanishStart(char) ==
  IF char \in Digits THEN [form |-> "NIF", state |-> char]
  ELSE IF char \in Range(NieFirst)
  THEN [form  |-> "NIE",
        state |-> (CHOOSE i \in DOMAIN NieFirst : NieFirst[i] = char) - 1]
  ELSE IF char \in CifFirst THEN [form |-> "CIF", state |-> 0]
  ELSE Refused

Step(id, p, n, digit) ==
  CASE id.form = "PL"           -> PolishStep(id.state, p, digit)
    [] id.form = "DE"           -> GermanStep(id.state, digit)
    [] id.form = "RO"           -> RomanianStep(id.state, p, n, digit)
    [] id.form \in {"NIF", "NIE"} -> NifStep(id.state, digit)
    [] id.form = "CIF"          -> CifStep(id.state, p, digit)

(* The identifier with one more character.                                 *)
Read(id, p, char) ==
  IF country = "ES" /\ p = 1 THEN SpanishStart(char)
  ELSE IF id.form = "none" \/ char \notin Digits THEN Refused
  ELSE [id EXCEPT !.state = Step(id, p, length, char)]

(* The comparison that ends polish_nip_checksum, german_vat_checksum,      *)
(* romanian_cui_checksum, _spanish_nif_checksum and _spanish_cif_checksum. *)
Passes(id, char) ==
  \/ /\ id.form = "PL"
     /\ id.state # 10 /\ char = id.state
  \/ /\ id.form = "DE"
     /\ char = (IF 11 - id.state = 10 THEN 0 ELSE 11 - id.state)
  \/ /\ id.form = "RO"
     /\ char = (IF (id.state * 10) % 11 = 10 THEN 0 ELSE (id.state * 10) % 11)
  \/ /\ id.form \in {"NIF", "NIE"}
     /\ char = NifLetters[id.state + 1]
  \/ /\ id.form = "CIF"
     /\ LET digit == (10 - id.state) % 10
        IN  char = digit \/ char = CifControls[digit + 1]

-----------------------------------------------------------------------------
(* A slip: where a wrong character was typed, or how far apart the two     *)
(* were that were swapped.                                                 *)
NoSlip == [kind |-> "none", gap |-> 0]

WrongAt(p) ==
  [kind |-> IF p = 1 THEN "first" ELSE IF p > length THEN "control" ELSE "later",
   gap  |-> 0]

Swapped(a, b) == [kind |-> "swap", gap |-> IF a < b THEN b - a ELSE a - b]

Start(c) ==
  IF c = "ES" THEN Refused
  ELSE [form |-> c, state |-> IF c = "DE" THEN 10 ELSE 0]

Init ==
  /\ \/ country = "DE" /\ length = 8
     \/ country = "PL" /\ length = 9
     \/ country = "RO" /\ length \in Lengths
     \/ country = "ES" /\ length = 8
  /\ place = 1
  /\ meant = Start(country)
  /\ typed = Start(country)
  /\ slip = NoSlip
  /\ control = {}
  /\ accepted = FALSE

(* One character of the payload, as meant or not.                          *)
TypeCharacter(char) ==
  /\ place <= length
  /\ meant' = Read(meant, place, char)
  /\ meant'.form # "none"
  /\ \/ typed' = Read(typed, place, char) /\ UNCHANGED slip
     \/ \E key \in Chars \ {char} :
          /\ slip = NoSlip
          /\ typed' = Read(typed, place, key)
          /\ slip' = WrongAt(place)
  /\ place' = place + 1
  /\ UNCHANGED <<country, length, control, accepted>>

(* Two characters of the payload, in the wrong order.                      *)
TypeSwapped(char) ==
  /\ place < length /\ slip = NoSlip
  /\ Read(meant, place, char).form # "none"
  /\ \E next \in Digits \ {char} :
       /\ meant' = Read(Read(meant, place, char), place + 1, next)
       /\ typed' = Read(Read(typed, place, next), place + 1, char)
       /\ slip' = Swapped(char, next)
  /\ place' = place + 2
  /\ UNCHANGED <<country, length, control, accepted>>

(* The control character, as meant or not, and the verdict.                *)
TypeControl(char) ==
  /\ place = length + 1
  /\ Passes(meant, char)
  /\ \/ /\ accepted' = Passes(typed, char)
        /\ control' = {char}
        /\ UNCHANGED slip
     \/ \E key \in Chars \ {char} :
          /\ slip = NoSlip
          /\ accepted' = Passes(typed, key)
          /\ control' = {char, key}
          /\ slip' = WrongAt(place)
  /\ place' = place + 1
  /\ UNCHANGED <<country, length, meant, typed>>

(* The last character of the payload and the control, in the wrong order.  *)
TypeControlFirst(char) ==
  /\ place = length /\ slip = NoSlip
  /\ \E last \in Chars \ {char} :
       /\ meant' = Read(meant, place, last)
       /\ meant'.form # "none" /\ Passes(meant', char)
       /\ typed' = Read(typed, place, char)
       /\ accepted' = (typed'.form # "none" /\ Passes(typed', last))
       /\ control' = {char, last}
       /\ slip' = Swapped(char, last)
  /\ place' = place + 2
  /\ UNCHANGED <<country, length>>

Next ==
  \E char \in Chars :
    TypeCharacter(char) \/ TypeSwapped(char)
      \/ TypeControl(char) \/ TypeControlFirst(char)

Spec == Init /\ [][Next]_vars

-----------------------------------------------------------------------------
(* A wrong character is noticed, wherever it is typed and whatever the     *)
(* other characters are (no_network.py:591-662), with three exceptions:    *)
(* a Romanian remainder of 10 is compared as 0, which 0 is as well; the    *)
(* first character of a Spanish identifier may turn it into another form,  *)
(* and that of a CIF enters no sum; and a CIF has its control in two forms.*)
SlipsAreNoticed ==
  accepted /\ slip.kind \in {"first", "later", "control"} =>
    \/ country = "RO" /\ slip.kind # "control" /\ 0 \in control
    \/ slip.kind = "first" /\ (typed.form # meant.form \/ meant.form = "CIF")
    \/ meant.form = "CIF" /\ slip.kind = "control"

(* Two neighbours swapped are noticed (no_network.py:591-662), except as   *)
(* the methods themselves allow it: digits that are one apart, also 9 and  *)
(* 0, in a German identifier, 9 and 0 in a CIF, and where the Romanian     *)
(* remainder of 10 stands for 0.                                           *)
SwapsAreNoticed ==
  accepted /\ slip.kind = "swap" =>
    \/ country = "DE" /\ slip.gap \in {1, 9}
    \/ meant.form = "CIF" /\ slip.gap = 9
    \/ country = "RO" /\ 0 \in control
=============================================================================
