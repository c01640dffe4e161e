---------------------------- MODULE AnswerForms -----------------------------
(***************************************************************************)
(* How one prediction is compared with one form of a reference: the typed  *)
(* verifiers of verifier/service.py over the bounded parsers of            *)
(* verifier/numeric.py, and compare_expressions of verifier/symbolic.py    *)
(* with its structural comparison.  Pure operators; a text is a tree.      *)
(***************************************************************************)
EXTENDS Integers, Sequences, FiniteSets, SequencesExt

CONSTANTS
  TypedTexts, \* answers of the typed verifiers, and their items
  MaxItems,   \* config.max_items
  MaxDepth,   \* config.max_depth
  Unit,       \* values are a whole number of 1/Unit
  Atol, Rtol, \* the tolerances of REAL: in that unit, and a ratio <<n, d>>
  Points,     \* points at which two functions may be sampled
  NoFloat,    \* what a function without a float at a point has there
  CrossAtol, CrossRtol  \* the tolerances of the samples, likewise

-----------------------------------------------------------------------------
(* Texts.  A number is spelled as an integer, with thousands separators,   *)
(* as a decimal (over a power of ten) or as a fraction, whose sign may be  *)
(* below the line.  Finitely many numbers have a unit in common.  A group  *)
(* has its brackets and its items.                                         *)

Num(kind, n, d) == [kind |-> kind, n |-> n, d |-> d]
Group(open, items, close) ==
  [kind |-> "group", open |-> open, items |-> items, close |-> close]

\* m / d for d # 0, when d divides m.
Quotient(m, d) == IF d < 0 THEN (-m) \div (-d) ELSE m \div d
Divides(d, m) == m % (IF d < 0 THEN -d ELSE d) = 0

ASSUME TextAssumption ==
  /\ MaxItems \in Nat \ {0} /\ MaxDepth \in Nat
  /\ Unit \in Nat \ {0} /\ Atol \in Nat /\ Rtol \in Nat \X (Nat \ {0})
  /\ CrossAtol \in Nat /\ CrossRtol \in Nat \X (Nat \ {0})
  /\ \A t \in TypedTexts :
       /\ t.kind \in {"int", "grouped"} => t.n \in Int
       /\ t.kind \in {"decimal", "fraction"} =>
            t.n \in Int /\ t.d \in Int /\ (t.d # 0 => Divides(t.d, Unit * t.n))
       /\ t.kind = "decimal" => t.d > 0
       /\ t.kind = "group" =>
            /\ t.items \in Seq(TypedTexts)
            /\ t.open \in {"(", "[", "{"} /\ t.close \in {")", "]", "}"}

\* The parse of a text that does not parse.
Unreadable == <<"unreadable", 0>>

\* parse_number: exact; too many digits ("long"), a zero denominator and
\* anything else ("text") do not parse.
ParseNumber(t) ==
  CASE t.kind \in {"int", "grouped"} -> <<"number", Unit * t.n>>
    [] t.kind \in {"decimal", "fraction"} /\ t.d # 0 ->
         <<"number", Quotient(Unit * t.n, t.d)>>
    [] OTHER -> Unreadable

\* parse_integer: "not_integer" is a number of another spelling, its value
\* unread (a fraction over zero is one too).
ParseInteger(t) ==
  CASE t.kind \in {"int", "grouped"} -> <<"number", Unit * t.n>>
    [] t.kind \in {"decimal", "fraction"} -> <<"not_integer", 0>>
    [] OTHER -> Unreadable

\* parse_value: braces are a set, parentheses a tuple that is not empty.
\* _split_top_level drops one empty last item: "{1,}" is "{1}".
IsGroup(t, open, close) == t.kind = "group" /\ t.open = open /\ t.close = close
ItemsOf(t) ==
  IF Len(t.items) > 1 /\ Last(t.items).kind = "empty" THEN Front(t.items) ELSE t.items
ParseText(parse, t) ==
  LET parsed == [i \in DOMAIN ItemsOf(t) |-> parse[ItemsOf(t)[i]]]
      readable == /\ Len(parsed) <= MaxItems
                  /\ \A i \in DOMAIN parsed : parsed[i] # Unreadable
  IN  IF IsGroup(t, "{", "}")
        THEN IF readable THEN <<"set", ToSet(parsed)>> ELSE Unreadable
      ELSE IF IsGroup(t, "(", ")")
        THEN IF readable /\ parsed # << >> THEN <<"tuple", parsed>> ELSE Unreadable
      ELSE ParseNumber(t)
\* A text with so many levels left to read.
ParseLevels[left \in 0..MaxDepth + 1] ==
  [t \in TypedTexts |->
     IF left = 0 THEN Unreadable ELSE ParseText(ParseLevels[left - 1], t)]
ParseValue(t) == ParseLevels[MaxDepth + 1][t]

\* parse_interval: two numbers, each end open or closed.
ParseInterval(t) ==
  IF /\ t.kind = "group" /\ t.open \in {"(", "["} /\ t.close \in {")", "]"}
     /\ Len(ItemsOf(t)) = 2
     /\ \A i \in 1..2 : ParseNumber(ItemsOf(t)[i]) # Unreadable
  THEN <<"interval", <<t.open = "(", t.close = ")",
                       ParseNumber(ItemsOf(t)[1]), ParseNumber(ItemsOf(t)[2])>>>>
  ELSE Unreadable
-----------------------------------------------------------------------------
(* The typed verifiers.                                                    *)

ParseAs(type, t) ==
  CASE type = "integer" -> ParseInteger(t)
    [] type \in {"rational", "real"} -> ParseNumber(t)
    [] type \in {"set", "tuple"} -> ParseValue(t)
    [] type = "interval" -> ParseInterval(t)

\* What a reference of the type must parse to.
Kind(type) ==
  IF type \in {"integer", "rational", "real"} THEN "number" ELSE type

Distance(a, b) == IF a < b THEN b - a ELSE a - b
\* Mutant: the tolerance is a difference, not its size.
WithinSigned(p, r) ==
  (p - r) * Rtol[2] <= Atol * Rtol[2] + Rtol[1] * Distance(r, 0)
\* |p - r| <= atol + rtol * |r|
Within(p, r) ==
  Distance(p, r) * Rtol[2] <= Atol * Rtol[2] + Rtol[1] * Distance(r, 0)

Verify(type, prediction, form) ==
  LET p == ParseAs(type, prediction)
      r == ParseAs(type, form)
  IN  IF r = Unreadable THEN "invalid_reference"
      ELSE IF r[1] # Kind(type) THEN "invalid_reference"
      ELSE IF p = Unreadable THEN "invalid_prediction"
      ELSE IF p[1] # Kind(type) THEN "incorrect"
      ELSE IF type = "real"
        THEN IF Within(p[2], r[2]) THEN "correct" ELSE "incorrect"
      ELSE IF p = r THEN "correct" ELSE "incorrect"
-----------------------------------------------------------------------------
(* compare_expressions.  An operand is what the normalised text is to it:  *)
(*   text too long, a yes/no word, an open-ended series, no LaTeX, too     *)
(*   large a tree or too many symbols, an unknown function;                *)
(*   a value: its canonical string; the function it is, a family whose     *)
(*   members differ by rational numbers and its offset in it; the floats   *)
(*   it gives at the sample points, in a unit of their own; where it is    *)
(*   defined; its symbols; and whether it is an integer written out;       *)
(*   a relation "x op bound" or "bound op x"; a set or tuple of values; a  *)
(*   combination of relations.                                             *)

Word(w) == [is |-> "word", word |-> w]
Bad(why) == [is |-> why]
Value(canon, function, at, domain, symbols, written) ==
  [is |-> "value", canon |-> canon, function |-> function, at |-> at,
   domain |-> domain, symbols |-> symbols, written |-> written]
Relation(op, bound, flipped) ==
  [is |-> "relation", op |-> op, bound |-> bound, flipped |-> flipped]
Collection(of, items) == [is |-> "collection", of |-> of, items |-> items]
Logic(canon) == [is |-> "logic", canon |-> canon]

\* What may differ between two comparisons of the same pair: whether the CPU
\* limit or an error fell into a parse, which takes it for a text it cannot
\* read; whether simplify settles the difference and finds the singularities,
\* the limit swallowed again; and the points that are drawn.
Draws == (SUBSET Points) \ {{}}
Efforts == [cut : {"none", "prediction", "reference"}, settled : BOOLEAN,
            singular : BOOLEAN, draws : Draws]

\* The checks of the prediction, then of the reference, stage by stage.
Stages == <<"unreadable", "nodes", "symbols", "undefined">>
BothParse(p, r, cut) ==
  LET failing == {i \in DOMAIN Stages : Stages[i] \in {p.is, r.is}}
  IN  IF cut = "prediction" THEN "invalid_prediction"
      ELSE IF cut = "reference"
        THEN IF p.is = "unreadable" THEN "invalid_prediction" ELSE "invalid_reference"
      ELSE IF failing = {} THEN "ok"
      ELSE IF p.is = Stages[CHOOSE i \in failing : \A j \in failing : i <= j]
      THEN "invalid_prediction" ELSE "invalid_reference"

\* _relation_signature: the kind and lhs - rhs, up to its sign for an order.
\* A difference is the coefficient of x and the constant.
Flip(difference) == <<-difference[1], -difference[2]>>
Signature(a) ==
  LET difference == IF a.flipped THEN <<-1, a.bound>> ELSE <<1, -a.bound>>
      kind == CASE a.op = "=" -> "eq" [] a.op = "#" -> "ne"
                [] a.op \in {"<", ">"} -> "gt" [] OTHER -> "ge"
  IN  <<kind, IF kind \in {"gt", "ge"} /\ difference[1] < 0
              THEN Flip(difference) ELSE difference>>

\* The members as a multiset: sorted() of their strings.
SameMembers(a, b) ==
  /\ Len(a) = Len(b)
  /\ \A x \in ToSet(a) \cup ToSet(b) :
       Cardinality({i \in DOMAIN a : a[i] = x}) = Cardinality({i \in DOMAIN b : b[i] = x})

CompareStructural(p, r) ==
  IF p.is = "relation" /\ r.is = "relation"
    THEN IF Signature(p) = Signature(r) THEN "correct" ELSE "incorrect"
  ELSE IF p.is = "collection" /\ r.is = "collection"
    THEN IF SameMembers(p.items, r.items) THEN "correct" ELSE "incorrect"
  ELSE IF "relation" \in {p.is, r.is} \/ "collection" \in {p.is, r.is} THEN "incorrect"
  ELSE "invalid_prediction"

\* The drawn points at which both can be evaluated; the greatest error there
\* is within the tolerance, relative to the greatest value of the reference.
Evaluated(p, r, draws) == {x \in draws : NoFloat \notin {p.at[x], r.at[x]}}
WithinCross(error, size) ==
  error * CrossRtol[2] <= CrossAtol * CrossRtol[2] + CrossRtol[1] * size
AgreeAt(p, r, S) ==
  \A x \in S : \E y \in S : WithinCross(Distance(p.at[x], r.at[x]), Distance(r.at[y], 0))

\* Mutant: an exact difference that is not zero is left to the floats.
CompareValuesFloat(p, r, effort) ==
  LET S == Evaluated(p, r, effort.draws)
  IN  IF effort.settled /\ p.function = r.function
        THEN IF p.domain = r.domain \/ ~effort.singular THEN "correct" ELSE "incorrect"
      ELSE IF p.symbols # r.symbols THEN "incorrect"
      ELSE IF S = {} THEN "invalid_prediction"
      ELSE IF AgreeAt(p, r, S) THEN "correct" ELSE "incorrect"

\* Two values whose canonical strings differ.  simplify may settle their
\* difference, zero or another rational; of two integers it always does.
\* Then the free symbols and the sample points decide.
CompareValues(p, r, effort) ==
  LET settled == effort.settled \/ (p.written /\ r.written)
      S == Evaluated(p, r, effort.draws)
  IN  IF settled /\ p.function = r.function
        THEN IF p.domain = r.domain \/ ~effort.singular THEN "correct" ELSE "incorrect"
      ELSE IF settled /\ p.function[1] = r.function[1] THEN "incorrect"
      ELSE IF p.symbols # r.symbols THEN "incorrect"
      ELSE IF S = {} THEN "invalid_prediction"
      ELSE IF AgreeAt(p, r, S) THEN "correct" ELSE "incorrect"

\* str(pred_sym) == str(ref_sym)
SameString(p, r) ==
  IF p.is \in {"value", "logic"} /\ r.is = p.is THEN p.canon = r.canon ELSE p = r

CompareExpressions(p, r, effort) ==
  IF p.is = "long" THEN "invalid_prediction"
  ELSE IF r.is = "long" THEN "invalid_reference"
  ELSE IF "word" \in {p.is, r.is} THEN IF p = r THEN "correct" ELSE "incorrect"
  ELSE IF p.is = "open" THEN IF r.is = "open" THEN "invalid_prediction" ELSE "incorrect"
  ELSE IF r.is = "open" THEN "invalid_reference"
  ELSE IF BothParse(p, r, effort.cut) # "ok" THEN BothParse(p, r, effort.cut)
  ELSE IF SameString(p, r) THEN "correct"
  ELSE IF p.is = "value" /\ r.is = "value" THEN CompareValues(p, r, effort)
  ELSE CompareStructural(p, r)
=============================================================================
