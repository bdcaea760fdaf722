------------------------------- MODULE Siret --------------------------------
(***************************************************************************)
(* The validation of a siret: 14 digits that satisfy Luhn's formula, with  *)
(* an exception for the establishments of La Poste, and what it promises   *)
(* to those who type one: most typing mistakes are noticed.                *)
(*                                                                         *)
(* A value is a sequence of characters: digits, a letter, an end of line,  *)
(* that Ruby's ^ accepts what follows of as a beginning.  The state is the *)
(* value at hand; its steps are mistakes.                                  *)
(***************************************************************************)
EXTENDS Integers, Sequences, FiniteSets, FiniteSetsExt, SequencesExt

CONSTANTS
  Length,       (* the digits of a siret, 14 in the code                   *)
  LaPosteSiren, (* the first digits of La Poste's sirets, 356000000        *)
  MaxLength     (* bound on the values                                     *)

Digits == 0..9
Letter == 10
EndOfLine == 11
Characters == Digits \cup {Letter, EndOfLine}

ASSUME LengthAssumption ==
  /\ Length \in Nat /\ MaxLength \in Nat
  /\ LaPosteSiren \in Seq(Digits) /\ Len(LaPosteSiren) <= Length

VARIABLE siret

-----------------------------------------------------------------------------
(* SiretValidator.                                                         *)

(* Fourteen digits and nothing else.                                     *)
WellFormed(value) == Len(value) = Length /\ \A i \in DOMAIN value : value[i] \in Digits

(* Mutant: La Poste's prefix is looked for at any place. *)
LaPosteAnywhere(value) ==
  \E i \in 1..Len(value) : IsPrefix(LaPosteSiren, SubSeq(value, i, Len(value)))

(* ^356000000\d{5}: at the beginning of any line, whatever follows.        *)
LaPoste(value) ==
  \E i \in 1..(Len(value) - Length + 1) :
    LET line == SubSeq(value, i, i + Length - 1) IN
    /\ i = 1 \/ value[i - 1] = EndOfLine
    /\ IsPrefix(LaPosteSiren, line)
    /\ \A k \in 1..Length : line[k] \in Digits

(* to_i of one character. *)
ToI(c) == IF c \in Digits THEN c ELSE 0

(* Mutant: nines are not cast out. *)
TermAsIs(digit, index) == IF index % 2 = 0 THEN digit ELSE digit * 2

(* Mutant: no digit is doubled. *)
TermOnce(digit, index) == digit

(* Every other digit is doubled, counted from the right, and a double of   *)
(* two digits is replaced by their sum.                                    *)
Term(digit, index) ==
  LET t == IF index % 2 = 0 THEN digit ELSE digit * 2 IN
  IF t >= 10 THEN t - 9 ELSE t

LuhnChecksum(value) ==
  SumFunction([i \in DOMAIN value |-> Term(ToI(Reverse(value)[i]), i - 1)])

ValidLuhnChecksum(value) == LuhnChecksum(value) % 10 = 0

ValidChecksum(value) == LaPoste(value) \/ ValidLuhnChecksum(value)

(* validate_each: the value is accepted when neither check adds an error.  *)
Valid(value) == WellFormed(value) /\ ValidChecksum(value)

-----------------------------------------------------------------------------
(* Typing mistakes, in a value of at most MaxLength characters.            *)

Init == siret \in BoundedSeq(Digits, 2)

Type(c) == Len(siret) < MaxLength /\ siret' = Append(siret, c)

Mistype(i, c) == siret' = ReplaceAt(siret, i, c)

Swap(i) == siret' = [siret EXCEPT ![i] = siret[i + 1], ![i + 1] = siret[i]]

Next ==
  \/ \E c \in Characters : Type(c)
  \/ \E i \in DOMAIN siret, c \in Characters : Mistype(i, c)
  \/ \E i \in 1..(Len(siret) - 1) : Swap(i)

Spec == Init /\ [][Next]_siret

-----------------------------------------------------------------------------
(* Properties.                                                             *)

(* Luhn's formula as it is published: the last digit is the one that       *)
(* completes to a multiple of ten the sum of the digits of the others,     *)
(* every second of which, from the last but one on, is doubled first.      *)
DigitSum(n) == (n \div 10) + (n % 10)

CheckDigit(payload) ==
  LET n == Len(payload)
      doubled == {i \in 1..n : (n - i) % 2 = 0}
      terms == [i \in 1..n |-> DigitSum(IF i \in doubled THEN 2 * payload[i] ELSE payload[i])] IN
  (10 - (SumFunction(terms) % 10)) % 10

(* The values accepted are exactly the numbers of La Poste and those whose *)
(* last digit is their check digit: no value that only looks like one on   *)
(* some line, or whose letters count as zeros, is.                         *)
OnlySiretsAreValid ==
  Valid(siret) <=>
    /\ WellFormed(siret)
    /\ \/ IsPrefix(LaPosteSiren, siret)
       \/ Last(siret) = CheckDigit(Front(siret))

(* A valid siret with one digit mistyped is not valid, La Poste's apart.   *)
Differences(s, t) == {i \in DOMAIN s : s[i] # t[i]}

Unchecked(s) == IsPrefix(LaPosteSiren, s)

OneWrongDigitIsNoticed ==
  [][/\ Valid(siret) /\ ~ Unchecked(siret) /\ ~ Unchecked(siret')
     /\ Len(siret') = Len(siret)
     /\ Cardinality(Differences(siret, siret')) = 1
     => ~ Valid(siret')]_siret

(* Two neighbouring digits exchanged are noticed too, but for 0 and 9.     *)
ExchangeIsNoticed ==
  [][\A i \in 1..(Len(siret) - 1) :
       /\ Valid(siret) /\ ~ Unchecked(siret) /\ ~ Unchecked(siret')
       /\ Len(siret') = Len(siret)
       /\ Differences(siret, siret') = {i, i + 1}
       /\ siret'[i] = siret[i + 1] /\ siret'[i + 1] = siret[i]
       /\ {siret[i], siret[i + 1]} # {0, 9}
       => ~ Valid(siret')]_siret
=============================================================================
