---------------------------- MODULE VerifyAnswer ----------------------------
(***************************************************************************)
(* verify_answer (verifier/service.py): the prediction is compared with    *)
(* the reference value and then with its acceptable forms, in order, by    *)
(* the verifier of the answer's type.  One step compares one form.  An     *)
(* expression goes to the symbolic worker, which may time out or fail.     *)
(***************************************************************************)
EXTENDS AnswerForms

CONSTANTS
  MaxForms,    \* bound on the reference value and its acceptable forms
  Operands,    \* answers of the symbolic comparator
  NoStatus

VerifierStatus == {"correct", "incorrect", "invalid_prediction",
                   "invalid_reference", "timeout", "internal_error"}

\* Two operands with the same string are the same function; an integer that is
\* written out is its own function.
ASSUME FormsAssumption ==
  /\ MaxForms \in Nat \ {0} /\ NoStatus \notin VerifierStatus
  /\ \A a \in Operands : a.is = "value" => a.at \in [Points -> Int \cup {NoFloat}]
  /\ \A a, b \in Operands :
       a.is = "value" /\ b.is = "value" =>
         /\ a.canon = b.canon => a.function = b.function
         /\ a.written /\ b.written => a.function[1] = b.function[1]

VARIABLES
  answerType,  \* reference.answer_type
  prediction,
  forms,       \* (reference.value, *reference.acceptable_forms)
  tried,       \* the statuses of the forms compared so far
  best,        \* the local `best`
  result       \* the status returned, or NoStatus

vVars == <<answerType, prediction, forms, tried, best, result>>

AnswerTypes == {"integer", "rational", "real", "set", "tuple", "interval", "expression"}

\* What comparing the prediction with a form may return.
Statuses(form) ==
  IF answerType = "expression"
  THEN {CompareExpressions(prediction, form, effort) : effort \in Efforts}
         \cup {"timeout", "internal_error"}
  ELSE {Verify(answerType, prediction, form)}

vInit ==
  /\ answerType \in AnswerTypes
  /\ LET texts == IF answerType = "expression" THEN Operands ELSE TypedTexts
     IN  /\ prediction \in texts
         /\ forms \in UNION {[1..n -> texts] : n \in 1..MaxForms}
  /\ tried = << >>
  /\ best = NoStatus
  /\ result = NoStatus

NextForm == forms[Len(tried) + 1]

\* Mutant: the first verdict that is no failure is returned.
TryFormEager(status) ==
  /\ result = NoStatus
  /\ Len(tried) < Len(forms)
  /\ status \in Statuses(NextForm)
  /\ tried' = Append(tried, status)
  /\ result' = IF status \in {"timeout", "internal_error"} THEN NoStatus
               ELSE status
  /\ best' = IF best = NoStatus THEN status ELSE best
  /\ UNCHANGED <<answerType, prediction, forms>>

\* One round of the loop.
TryForm(status) ==
  /\ result = NoStatus
  /\ Len(tried) < Len(forms)
  /\ status \in Statuses(NextForm)
  /\ tried' = Append(tried, status)
  /\ \/ /\ status \in {"correct", "invalid_reference"}
        /\ result' = status
        /\ UNCHANGED best
     \/ /\ status \notin {"correct", "invalid_reference"}
        /\ best' = IF best = NoStatus THEN status ELSE best
        /\ UNCHANGED result
  /\ UNCHANGED <<answerType, prediction, forms>>

\* Mutant: the answer is taken for correct when a form could not be compared.
ReturnBestLenient ==
  /\ result = NoStatus
  /\ Len(tried) = Len(forms)
  /\ result' = IF best = "timeout" THEN "correct" ELSE best
  /\ UNCHANGED <<answerType, prediction, forms, tried, best>>

\* No form was equal or broken: the reference value's verdict stands.
ReturnBest ==
  /\ result = NoStatus
  /\ Len(tried) = Len(forms)
  /\ result' = best
  /\ UNCHANGED <<answerType, prediction, forms, tried, best>>

vNext == (\E status \in VerifierStatus : TryForm(status)) \/ ReturnBest

VerifySpec == vInit /\ [][vNext]_vVars
-----------------------------------------------------------------------------
(* What two answers mean, by mathematics and not by the parsers: numbers   *)
(* are equal by cross-multiplication, sets by inclusion both ways, tuples  *)
(* item by item, values as functions, or within the tolerance of some      *)
(* sample.                                                                 *)

\* The numerator and the denominator, which is positive.
Ratio(t) ==
  IF t.kind \in {"int", "grouped"} THEN <<t.n, 1>>
  ELSE IF t.d < 0 THEN <<-t.n, -t.d>> ELSE <<t.n, t.d>>
IsNumber(t) ==
  \/ t.kind \in {"int", "grouped"}
  \/ t.kind \in {"decimal", "fraction"} /\ t.d # 0
SameNumber(s, t) == Ratio(s)[1] * Ratio(t)[2] = Ratio(t)[1] * Ratio(s)[2]
\* ratio s differs from ratio t by no more than the tolerance
Size(n) == IF n < 0 THEN -n ELSE n
CloseNumber(s, t) ==
  LET a == Ratio(s)[1] * Ratio(t)[2]
      b == Ratio(t)[1] * Ratio(s)[2]
      d == Ratio(s)[2] * Ratio(t)[2]
  IN  Size(b - a) * Unit * Rtol[2] <= Atol * Rtol[2] * d + Unit * Rtol[1] * Size(b)
IsFlat(t) == t.kind = "group" /\ \A i \in DOMAIN t.items : IsNumber(t.items[i])
SameItems(s, t) ==
  /\ Len(s.items) = Len(t.items)
  /\ \A i \in DOMAIN s.items : SameNumber(s.items[i], t.items[i])
AmongItems(s, t) ==
  \A i \in DOMAIN s.items : \E j \in DOMAIN t.items : SameNumber(s.items[i], t.items[j])

Fits(t) == Len(t.items) <= MaxItems /\ (t.items # << >> => MaxDepth > 0)

\* An answer the type can hold, in a spelling that denotes one thing.
Denotes(t) ==
  CASE answerType = "integer" -> t.kind \in {"int", "grouped"}
    [] answerType \in {"rational", "real"} -> IsNumber(t)
    [] answerType = "set" -> IsFlat(t) /\ IsGroup(t, "{", "}") /\ Fits(t)
    [] answerType = "tuple" ->
         IsFlat(t) /\ IsGroup(t, "(", ")") /\ t.items # << >> /\ Fits(t)
    [] answerType = "interval" ->
         IsFlat(t) /\ Len(t.items) = 2 /\ t.open # "{" /\ t.close # "}"
    [] answerType = "expression" ->
         t.is \in {"word", "value"}

Equal(s, t) ==
  CASE answerType \in {"integer", "rational"} -> SameNumber(s, t)
    [] answerType = "real" -> CloseNumber(s, t)
    [] answerType = "set" -> AmongItems(s, t) /\ AmongItems(t, s)
    [] answerType = "tuple" -> SameItems(s, t)
    [] answerType = "interval" ->
         s.open = t.open /\ s.close = t.close /\ SameItems(s, t)
    [] answerType = "expression" ->
         IF "word" \in {s.is, t.is} THEN s = t ELSE s.function = t.function

\* Two values that are not the same function may be taken for it: when both
\* are evaluated at the points of a sample and nowhere differ by more than the
\* tolerance.  Two integers never are.
SampledClose(s, t, S) ==
  \A x \in S :
    /\ NoFloat \notin {s.at[x], t.at[x]}
    /\ \E y \in S : Size(s.at[x] - t.at[x]) * CrossRtol[2] <=
                       CrossAtol * CrossRtol[2] + CrossRtol[1] * Size(t.at[y])
Near(s, t) ==
  /\ answerType = "expression" /\ s.is = "value" /\ t.is = "value"
  /\ s.symbols = t.symbols /\ ~(s.written /\ t.written)
  /\ \E S \in Draws : SampledClose(s, t, S)

\* Two spellings of a function that no sample tells apart.
Confirmed(s, t) ==
  s.is = "value" => /\ s.domain = t.domain /\ s.symbols = t.symbols
                    /\ \A x \in Points : SampledClose(s, t, {x})

\* A comparison that was not made: it failed, or, of expressions, was cut short
\* and calls an answer unreadable that is not.
NotMade ==
  {"timeout", "internal_error"} \cup
  IF answerType = "expression" THEN {"invalid_prediction", "invalid_reference"} ELSE {}

\* The verdict on a prediction and forms that each denote something (the
\* verifiers of service.py:105-231, the loop of lines 79-87): correct means
\* equal to one of them, or, of expressions, within the tolerance of 1e-6 at
\* the points of a sample; and a prediction equal to any of them is correct
\* unless a comparison was not made, whatever the spellings, the order of the
\* forms and the forms that are not equal.  A value that is defined at other
\* points is equal or not as simplify finds.
VerdictMeansEqual ==
  (/\ result # NoStatus
   /\ Denotes(prediction)
   /\ \A i \in DOMAIN forms : Denotes(forms[i])) =>
     /\ result = "correct" =>
          \E i \in DOMAIN forms :
            Equal(prediction, forms[i]) \/ Near(prediction, forms[i])
     /\ (/\ \A i \in DOMAIN tried : tried[i] \notin NotMade
         /\ \E i \in DOMAIN forms :
              /\ Equal(prediction, forms[i])
              /\ answerType = "expression" => Confirmed(prediction, forms[i]))
        => result = "correct"

\* "Never guesses equality it cannot prove" (_compare_structural,
\* symbolic.py): two relations found equal hold of the same numbers.
HoldsAt(a, x) ==
  LET l == IF a.flipped THEN a.bound ELSE x  r == IF a.flipped THEN x ELSE a.bound
  IN  CASE a.op = "=" -> l = r [] a.op = "#" -> l # r [] a.op = "<" -> l < r
        [] a.op = ">" -> l > r [] a.op = "<=" -> l <= r [] a.op = ">=" -> l >= r
RelationsAreProved ==
  (/\ answerType = "expression" /\ result = "correct"
   /\ {prediction.is} \cup {forms[i].is : i \in DOMAIN forms} = {"relation"}) =>
     \E i \in DOMAIN forms : \A x \in -3..3 : HoldsAt(prediction, x) <=> HoldsAt(forms[i], x)
=============================================================================
