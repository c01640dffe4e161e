------------------------------ MODULE MCAnswers -----------------------------
(* The answers together: a behaviour is the verification of one prediction, *)
(* or one turn run and re-scored; the other part keeps its initial state.   *)
EXTENDS VerifyAnswer, TurnReaders

CONSTANT Parts

VARIABLE part  \* what this behaviour is about

allVars == <<part, vVars, rdVars>>

AllInit ==
  /\ part \in Parts
  /\ IF part = "verify" THEN vInit
     ELSE /\ answerType = "integer" /\ prediction = NoStatus /\ forms = << >>
          /\ tried = << >> /\ best = NoStatus /\ result = NoStatus
  /\ IF part = "read" THEN rdInit
     ELSE /\ turn = << >> /\ tolerate = {} /\ genre = "direct"
          /\ row = NoValue /\ score = NoValue

AllNext ==
  /\ UNCHANGED part
  /\ \/ part = "verify" /\ vNext /\ UNCHANGED rdVars
     \/ part = "read" /\ rdNext /\ UNCHANGED vVars

AllSpec == AllInit /\ [][AllNext]_allVars
-----------------------------------------------------------------------------
(* Typed answers: spellings of 1, 1/2, 3/5 and 1000, collections of them,   *)
(* and what does not parse.                                                 *)

TenPercent == <<1, 10>>
Whole(n) == Num("int", n, 1)
Frac(n, d) == Num("fraction", n, d)
Tenths(n) == Num("decimal", n, 10)
NotNumbers == {[kind |-> "text"], [kind |-> "long"], [kind |-> "empty"], Frac(1, 0)}
Numbers == {Whole(1), Whole(-1), Tenths(10), Tenths(5), Tenths(6), Frac(1, 2), Frac(2, 4),
            Frac(2, 2), Frac(-1, -2), Num("grouped", 1000, 1), Whole(1000)}
Items == {<< >>, <<Whole(1)>>, <<Frac(1, 2), Whole(1)>>, <<Whole(1), Tenths(5)>>,
          <<Whole(1), Whole(1), Frac(2, 4)>>, <<Whole(1), [kind |-> "empty"]>>,
          <<[kind |-> "empty"], Whole(1)>>, <<Group("(", <<Whole(1)>>, ")")>>}
Collections == {Group(b[1], items, b[2]) :
                  b \in {<<"{", "}">>, <<"(", ")">>, <<"[", ")">>}, items \in Items}
MCTexts == NotNumbers \cup Numbers \cup Collections

(* Symbolic answers, evaluated in hundredths at the points 2 and -2 with a   *)
(* tolerance of one and a hundredth.  The two spellings of x + 1, one of      *)
(* which is not defined at 1, and one with a symbol too many; x, and the      *)
(* root of its square, which agree at one point; 1 in two spellings; the      *)
(* root of 2, a decimal close to it and one that is not; two integers of one  *)
(* float; a power without a float at one point; the ways not to parse; and    *)
(* answers that are no value.                                                 *)
X == {"x"}
HundredthPart == <<1, 100>>
Values1 == {Value("x+1", <<"x", 1>>, <<300, -100>>, "R", X, FALSE),
            Value("(x^2-1)/(x-1)", <<"x", 1>>, <<300, -100>>, "R-1", X, FALSE),
            Value("x+1+y-y", <<"x", 1>>, <<300, -100>>, "R", {"x", "y"}, FALSE),
            Value("x", <<"x", 0>>, <<200, -200>>, "R", X, FALSE),
            Value("sqrt(x^2)", <<"|x|", 0>>, <<200, 200>>, "R", X, FALSE),
            Value("x^1000", <<"x^1000", 0>>, <<NoFloat, 200>>, "R", X, FALSE),
            Value("sin(1)^2+cos(1)^2", <<"1", 1>>, <<100, 100>>, "R", {}, FALSE),
            Value("1", <<"1", 1>>, <<100, 100>>, "R", {}, TRUE),
            Value("sqrt(2)", <<"sqrt(2)", 0>>, <<141, 141>>, "R", {}, FALSE),
            Value("1.42", <<"1.4", 2>>, <<142, 142>>, "R", {}, FALSE),
            Value("1.45", <<"1.4", 5>>, <<145, 145>>, "R", {}, FALSE),
            Value("301 digits", <<"1", 2>>, <<90000, 90000>>, "R", {}, TRUE),
            Value("301 digits, 1 more", <<"1", 3>>, <<90000, 90000>>, "R", {}, TRUE)}
Unread == {Bad(why) : why \in {"long", "open"} \cup ToSet(Stages)}
Others == {Word("yes"), Word("no"), Logic("a & b"), Logic("b & a"),
           Collection("tuple", <<"1", "2">>), Collection("set", <<"1", "2">>)}
MCOperands == Values1 \cup Unread \cup Others \cup {Relation("<", 2, FALSE)}
MCRelations == {Relation(op, 2, flipped) : op \in {"<", ">", "<=", ">=", "=", "#"},
                                           flipped \in BOOLEAN}
-----------------------------------------------------------------------------
(* Turns: a beginning, an action block or none, and a tail.                 *)

P(k) == <<k, NoValue>>
MCDumped(v) == IF v = "0.10" THEN "0.1" ELSE v
V(k) == {<<k, "right">>, <<k, "wrong">>}
Heads == {<< >>, <<P("prose")>>, <<ThinkOpen>>, <<ThinkClose>>,
          <<ThinkOpen, P("prose")>>, <<ThinkOpen, P("lt")>>,
          <<ThinkOpen, P("prose"), ThinkClose>>, <<ThinkOpen, P("long"), ThinkClose>>,
          <<ThinkOpen, <<"boxed", "right">>, ThinkClose>>,
          <<ThinkOpen, <<"anchor", "right">>>>, <<P("huge")>>,
          <<P("prose"), ThinkOpen>>, <<ThinkOpen, P("prose"), ThinkOpen>>,
          << <<"boxed", "wrong">> >>, << <<"dollar", "right">> >>}
Bodies == {<< >>, <<P("call")>>, <<P("object")>>, <<P("cut")>>, <<P("prose")>>,
           << <<"answer", "right">>, P("prose")>>, << <<"number", "right">>, P("prose")>>}
          \cup {<<x>> : x \in V("answer") \cup V("number") \cup V("scalar")}
          \cup {<<P("wrapped")>>, << <<"dressed", "right">> >>, << <<"braced", "right">> >>,
                << <<"scalar", "0.10">> >>}
Blocks == {<<o>> \o b \o c : o \in Opens, b \in Bodies,
                             c \in {<< >>, <<ToolClose>>, <<FinalClose>>}}
Tails == {<< >>, <<P("prose")>>, <<FinalClose>>, <<FinalOpen>>, <<ToolOpen, P("call")>>,
          <<ToolOpen, P("call"), ToolClose>>, << <<"dollar", "wrong">> >>,
          << <<"anchor", "right">>, <<"anchor", NoValue>> >>}
         \cup {<<FinalOpen, <<"answer", v>>, FinalClose>> : v \in {"right", "wrong"}}
MCTurns == {h \o b \o t : h \in Heads, b \in Blocks \cup {<< >>}, t \in Tails}
=============================================================================
