------------------------------- MODULE Amounts -------------------------------
(***************************************************************************)
(* The amounts of an invoice: how /create computes them (create_from_      *)
(* scratch), how the country validators recompute and compare them, and    *)
(* how the documents group them by rate.                                   *)
(*                                                                         *)
(* Decimals are integers in the unit their use calls for: quantities and   *)
(* rates in tenths, unit prices and declared amounts in thousandths of the *)
(* currency (mills), so that a declared amount may be finer than a cent;   *)
(* everything that money() returned in cents.                              *)
(***************************************************************************)
EXTENDS Integers, Sequences

CONSTANTS
  None,          (* an amount the client leaves out                         *)
  Items,         (* what a line may say: [quantity, price, rate]            *)
  ProfileRates,  (* the allowed_vat_rates of the country's profile          *)
  Slips,         (* how far a client's amounts are from the right ones      *)
  MaxLines       (* bound: lines of an invoice                              *)

Item == [quantity : Int, price : Int, rate : Nat]

ASSUME AmountsAssumption ==
  /\ Items \subseteq Item
  /\ ProfileRates \subseteq Nat
  /\ Slips \subseteq Int \cup {None}
  /\ None \notin Int
  /\ MaxLines \in Nat

Abs(x) == IF x < 0 THEN -x ELSE x

(* Fault: the fraction of a cent is cut off. *)
MoneyTruncated(x, unit) == IF x < 0 THEN -((-x) \div unit) ELSE x \div unit

(* money: x/unit cents, rounded to whole cents, halves away from zero. *)
Money(x, unit) ==
  LET away(y) == (2 * y + unit) \div (2 * unit)
  IN  IF x < 0 THEN -away(-x) ELSE away(x)

(* Fault: a tolerance of ten cents. *)
SameMoneyLoosely(declared, cents) ==
  declared = None \/ Abs(Money(declared, 10) - cents) <= 10

(* same_money, of a declared amount in mills with one in cents. *)
SameMoney(declared, cents) ==
  declared = None \/ Abs(Money(declared, 10) - cents) <= 1

(* What decimal_text leaves of a whole number: it strips the zeros at the  *)
(* end of the text, those before a decimal point that is not there too.    *)
WithoutFinalZeros[n \in Nat] ==
  IF n # 0 /\ n % 10 = 0 THEN WithoutFinalZeros[n \div 10] ELSE n

(* The number that decimal_text(rate) reads as. *)
RateText(rate) ==
  IF rate % 10 # 0 THEN rate ELSE 10 * WithoutFinalZeros[rate \div 10]

RateAccepted(rate) == RateText(rate) \in ProfileRates

(* line_extension and line_tax, in cents. *)
Extension(item) == Money(item.quantity * item.price, 100)

LineTax(item) == Money(Extension(item) * item.rate, 1000)

-----------------------------------------------------------------------------
VARIABLES
  source,    (* who states the amounts: "create" or the "client"            *)
  lines,     (* the lines so far, with the amounts stated for each          *)
  net,       (* running totals of create_from_scratch, in cents             *)
  tax,
  declared   (* the totals of the invoice, None until they are stated       *)

vars == <<source, lines, net, tax, declared>>

OptionalMills == Int \cup {None}

Line == [item : Items, net : OptionalMills, tax : OptionalMills,
         total : OptionalMills]

Totals == [net : OptionalMills, tax : OptionalMills, gross : OptionalMills,
           payable : OptionalMills]

TypeOK ==
  /\ source \in {"create", "client"}
  /\ lines \in Seq(Line) /\ Len(lines) <= MaxLines
  /\ net \in Int /\ tax \in Int
  /\ declared \in Totals \cup {None}

(* The sums that a loop over amounts goes through, and the last of them. *)
PartialSums(amounts) ==
  LET sums[n \in 0..Len(amounts)] ==
        IF n = 0 THEN 0 ELSE sums[n - 1] + amounts[n]
  IN  sums

SumOf(amounts) == PartialSums(amounts)[Len(amounts)]

(* The line amounts as validate recomputes them, and their sums. *)
Extensions == [n \in DOMAIN lines |-> Extension(lines[n].item)]
LineTaxes  == [n \in DOMAIN lines |-> LineTax(lines[n].item)]

NormalizedNet == SumOf(Extensions)
NormalizedTax == SumOf(LineTaxes)

Slipped(cents, slip) == IF slip = None THEN None ELSE 10 * cents + slip

Stated(item, slips) ==
  [item  |-> item,
   net   |-> Slipped(Extension(item), slips[1]),
   tax   |-> Slipped(LineTax(item), slips[2]),
   total |-> Slipped(Extension(item) + LineTax(item), slips[3])]

(* What a client may have got wrong: nothing, one amount or all of them. *)
SlipsOf(n) ==
  {[k \in 1..n |-> 0]}
  \cup {[k \in 1..n |-> s] : s \in Slips}
  \cup {[k \in 1..n |-> IF k = j THEN s ELSE 0] : j \in 1..n, s \in Slips}

Init ==
  /\ source \in {"create", "client"}
  /\ lines = << >> /\ net = 0 /\ tax = 0
  /\ declared = None

(* Fault: the totals are those of the last line. *)
CreateItemOverwriting(item) ==
  /\ source = "create" /\ declared = None /\ Len(lines) < MaxLines
  /\ lines' = Append(lines, Stated(item, <<0, 0, 0>>))
  /\ net' = Extension(item)
  /\ tax' = LineTax(item)
  /\ UNCHANGED <<source, declared>>

(* One turn of the loop of create_from_scratch, and what follows the loop. *)
CreateItem(item) ==
  /\ source = "create" /\ declared = None /\ Len(lines) < MaxLines
  /\ lines' = Append(lines, Stated(item, <<0, 0, 0>>))
  /\ net' = net + Extension(item)
  /\ tax' = tax + LineTax(item)
  /\ UNCHANGED <<source, declared>>

CreateTotals ==
  /\ source = "create" /\ declared = None
  /\ declared' = [net |-> 10 * net, tax |-> 10 * tax,
                  gross |-> 10 * (net + tax), payable |-> 10 * (net + tax)]
  /\ UNCHANGED <<source, lines, net, tax>>

(* A client of /validate or /transform states amounts of its own. *)
ClientLine(item, slips) ==
  /\ source = "client" /\ declared = None /\ Len(lines) < MaxLines
  /\ lines' = Append(lines, Stated(item, slips))
  /\ UNCHANGED <<source, net, tax, declared>>

ClientTotals(slips) ==
  /\ source = "client" /\ declared = None
  /\ declared' =
       LET gross == NormalizedNet + NormalizedTax
       IN  [net |-> Slipped(NormalizedNet, slips[1]),
            tax |-> Slipped(NormalizedTax, slips[2]),
            gross |-> Slipped(gross, slips[3]),
            payable |-> Slipped(gross, slips[4])]
  /\ UNCHANGED <<source, lines, net, tax>>

Next ==
  \/ \E item \in Items : CreateItem(item)
  \/ CreateTotals
  \/ \E item \in Items, slips \in SlipsOf(3) : ClientLine(item, slips)
  \/ \E slips \in SlipsOf(4) : ClientTotals(slips)

Spec == Init /\ [][Next]_vars

-----------------------------------------------------------------------------
(* _validate_lines and _validate_declared_totals, and the breakdown.       *)
InRange(item) == item.quantity > 0 /\ item.price >= 0 /\ RateAccepted(item.rate)

LineAccepted(line) ==
  /\ InRange(line.item)
  /\ SameMoney(line.net, Extension(line.item))
  /\ SameMoney(line.tax, LineTax(line.item))
  /\ SameMoney(line.total, Extension(line.item) + LineTax(line.item))

TotalAccepted(amount, cents) == amount # None /\ SameMoney(amount, cents)

TotalsAccepted ==
  /\ TotalAccepted(declared.net, NormalizedNet)
  /\ TotalAccepted(declared.tax, NormalizedTax)
  /\ TotalAccepted(declared.gross, NormalizedNet + NormalizedTax)
  /\ TotalAccepted(declared.payable, NormalizedNet + NormalizedTax)

Compliant ==
  /\ lines # << >> /\ declared # None
  /\ \A n \in DOMAIN lines : LineAccepted(lines[n])
  /\ TotalsAccepted

(* Fault: a second line of a rate replaces the first. *)
GroupedLast(groups, item) ==
  LET here     == {k \in DOMAIN groups : groups[k].rate = item.rate}
      group(n) == [rate |-> item.rate, taxable |-> Extension(item),
                   tax |-> LineTax(item), lines |-> n]
  IN  IF here = {}
      THEN Append(groups, group(1))
      ELSE [groups EXCEPT ![CHOOSE k \in here : TRUE] = group(@.lines + 1)]

(* The turn of the loop of tax_breakdown: groups is the dictionary by      *)
(* rate, in the order in which its keys came; lines only counts.           *)
Grouped(groups, item) ==
  LET here         == {k \in DOMAIN groups : groups[k].rate = item.rate}
      added(group) == [group EXCEPT !.taxable = @ + Extension(item),
                                    !.tax = @ + LineTax(item), !.lines = @ + 1]
  IN  IF here = {}
      THEN Append(groups, added([rate |-> item.rate, taxable |-> 0, tax |-> 0,
                                 lines |-> 0]))
      ELSE [groups EXCEPT ![CHOOSE k \in here : TRUE] = added(@)]

(* The groups after each turn of the loop, and after the last. *)
Groupings ==
  LET groups[n \in 0..Len(lines)] ==
        IF n = 0 THEN << >> ELSE Grouped(groups[n - 1], lines[n].item)
  IN  groups

Breakdown == Groupings[Len(lines)]

-----------------------------------------------------------------------------
(* Properties.                                                             *)

(* The invoice that /create builds (invoices.py:531) passes the validator  *)
(* that recomputes it (be_peppol.py:24), unless an item is out of range.   *)
CreatedIsCompliant ==
  source = "create" /\ declared # None /\ lines # << >> =>
    (Compliant <=> \A n \in DOMAIN lines : InRange(lines[n].item))

(* The tolerance of one cent is granted per line and per total             *)
(* (money.py:20), after rounding.  What it adds up to: the line amounts of *)
(* a compliant invoice are within one and a half cents per line, and one   *)
(* and a half more, of its declared total.                                 *)
DeclaredLinesAddUp ==
  Compliant /\ (\A n \in DOMAIN lines : lines[n].net # None) =>
    Abs(declared.net - SumOf([n \in DOMAIN lines |-> lines[n].net]))
      <= 15 * (Len(lines) + 1)

(* The tax groups of a document (ubl.py:247, spain_sif.py:224) add up to   *)
(* its totals, which validate computed from the lines (no_network.py:59).  *)
BreakdownAddsUp ==
  /\ SumOf([k \in DOMAIN Breakdown |-> Breakdown[k].taxable]) = NormalizedNet
  /\ SumOf([k \in DOMAIN Breakdown |-> Breakdown[k].tax]) = NormalizedTax

(* Tax is rounded per line, so the tax of a group is not its rate times    *)
(* its taxable amount: it is off by half a cent per line at most.          *)
GroupTaxNearRate ==
  \A k \in DOMAIN Breakdown :
    LET group == Breakdown[k]
    IN  2 * Abs(1000 * group.tax - group.taxable * group.rate) <= 1000 * group.lines

(* no_network.py:486: the rate of a line must be one of the profile's.     *)
RatesAsProfiled ==
  \A n \in DOMAIN lines :
    RateAccepted(lines[n].item.rate) <=> lines[n].item.rate \in ProfileRates
=============================================================================
