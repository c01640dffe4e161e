---------------------------- MODULE TurnReaders -----------------------------
(***************************************************************************)
(* One model turn and everything that reads it: the runtime's parser,      *)
(* strict and tolerant (agent/parser.py), the evaluation's extractor       *)
(* (verifier/extractor.py), and the analyses that re-read stored turns:    *)
(* the offline forecast of the tolerance rules (eval_parser_rescue.py),    *)
(* the tool-call funnel (protocol_gap.py) and the re-scoring under three   *)
(* protocols (tolerance_rescore.py).  A turn is run, its row is recorded,  *)
(* and the row is re-scored.                                               *)
(*                                                                         *)
(* A text is a sequence of protocol tags and of pieces of other text, each *)
(* a kind with the value it holds.  No piece holds a tag inside its JSON.  *)
(***************************************************************************)
EXTENDS Integers, Sequences, FiniteSets, SequencesExt

CONSTANTS
  Texts,     \* the turns of the model
  NoValue,   \* no answer
  Dumped(_)  \* how orjson writes a JSON scalar or list that it has read

ASSUME ReaderAssumption ==
  /\ \A text \in Texts : text \in Seq(ToSet(text))
  /\ NoValue \notin {"tool_call", "final"}

Tag(name) == <<name, NoValue>>
ThinkOpen == Tag("<think>")
ThinkClose == Tag("</think>")
ToolOpen == Tag("<tool_call>")
ToolClose == Tag("</tool_call>")
FinalOpen == Tag("<final>")
FinalClose == Tag("</final>")
Opens == {ToolOpen, FinalOpen}
CloseOf(open) == IF open = ToolOpen THEN ToolClose ELSE FinalClose

\* Complete JSON objects: a schema-valid call, one inside an object that names
\* itself a tool call ("wrapped"), an answer that is a string, one with keys
\* the schema forbids ("dressed"), an answer that is a number, an object of
\* neither schema.  JSON that is no object: its literal, with a "<" or a brace
\* in it ("braced") or not.  "cut" is an object that does not finish; "lt" is
\* prose with a "<", "long" more than the reasoning limit, "huge" more than
\* the turn's.
Objects == {"call", "wrapped", "answer", "dressed", "number", "object"}
Scalars == {"scalar", "braced"}
Pieces == Objects \cup Scalars \cup {"cut", "prose", "lt", "long", "huge",
                                     "boxed", "dollar", "anchor"}

VARIABLES
  turn,      \* the text
  tolerate,  \* the harness's tolerance rules
  genre,     \* "direct": one generation a task; "agent": a closed trajectory
  row,       \* what the run recorded, or NoValue
  score      \* the rungs, and whether the re-scoring refused the row, or NoValue

rdVars == <<turn, tolerate, genre, row, score>>
-----------------------------------------------------------------------------
(* Reading.                                                                *)

Holds(text, token) == \E i \in DOMAIN text : text[i] = token
HoldsKind(text, kind) == \E i \in DOMAIN text : text[i][1] = kind
Occurrences(text, tokens) == Cardinality({i \in DOMAIN text : text[i] \in tokens})
\* The place of the first of some tokens after i, 0 without one.
Find(text, tokens, i) ==
  LET at == {j \in DOMAIN text : j > i /\ text[j] \in tokens}
  IN  IF at = {} THEN 0 ELSE Min(at)
From(text, i) == SubSeq(text, i, Len(text))
\* str.split(token, 1)[0]
Until(text, token) ==
  LET at == Find(text, {token}, 0)
  IN  IF at = 0 THEN text ELSE SubSeq(text, 1, at - 1)

Refused(error) == [action |-> NoValue, value |-> NoValue, error |-> error]
Read(action, value) == [action |-> action, value |-> value, error |-> NoValue]

\* _close_unclosed_think: right before the action tag, when nothing in between
\* holds a "<".
CloseUnclosedThink(text) ==
  LET at == Find(text, Opens, 0)
      plain == \A i \in 2..(at - 1) : text[i][1] \in Pieces \ {"lt"}
  IN  IF /\ Occurrences(text, {ThinkOpen}) = 1
         /\ ~Holds(text, ThinkClose) /\ Head(text) = ThinkOpen
         /\ at # 0 /\ plain
      THEN SubSeq(text, 1, at - 1) \o <<ThinkClose>> \o From(text, at)
      ELSE text

\* The envelope: where the think block ends (0 without one, Len(text) + 1 when
\* it does not), and whether one action block is all that follows.
ThinkEnd(text) ==
  IF Head(text) # ThinkOpen THEN 0
  ELSE LET at == Find(text, {ThinkOpen, ThinkClose}, 1)
       IN  IF at # 0 /\ text[at] = ThinkClose THEN at ELSE Len(text) + 1
Enveloped(text) ==
  LET k == ThinkEnd(text)
  IN  /\ k + 2 <= Len(text)
      /\ text[k + 1] \in Opens
      /\ Last(text) = CloseOf(text[k + 1])

\* The payload against the schema of its tag.
ValidPayload(open, piece) ==
  piece[1] = (IF open = ToolOpen THEN "call" ELSE "answer")

\* The body of a matched envelope.  A scalar is written anew; in a final block
\* the kind that an object names overrides the tag's.
ParsePayload(open, body, rules) ==
  IF Len(body) # 1 \/ body[1][1] \notin Objects \cup Scalars
    THEN Refused("invalid_json")
  ELSE IF body[1][1] \in Scalars /\ open = FinalOpen /\ "bare_final_scalar" \in rules
    THEN Read("final", Dumped(body[1][2]))
  ELSE IF body[1][1] = "wrapped" /\ open = FinalOpen THEN Read("tool_call", NoValue)
  ELSE IF ~ValidPayload(open, body[1]) THEN Refused("invalid_schema")
  ELSE IF open = ToolOpen THEN Read("tool_call", NoValue)
  ELSE Read("final", body[1][2])

ParseAction(raw, rules) ==
  IF raw = << >> THEN Refused("empty")
  ELSE IF HoldsKind(raw, "huge") THEN Refused("too_long")
  ELSE IF Occurrences(raw, Opens) > 1 THEN Refused("multiple_actions")
  ELSE LET text == IF "unclosed_think" \in rules THEN CloseUnclosedThink(raw) ELSE raw
           k == ThinkEnd(text)
       IN  IF ~Enveloped(text) THEN Refused("invalid_envelope")
           ELSE IF HoldsKind(SubSeq(text, 1, k), "long") THEN Refused("invalid_schema")
           ELSE ParsePayload(text[k + 1], SubSeq(text, k + 2, Len(text) - 1), rules)
-----------------------------------------------------------------------------
(* The extractor.                                                          *)

Ok(value) == [status |-> "ok", value |-> value]
Missing == [status |-> "missing", value |-> NoValue]
Ambiguous == [status |-> "ambiguous", value |-> NoValue]
Values(text, kind) ==
  LET of == SelectSeq(text, LAMBDA x : x[1] = kind)
  IN  [i \in DOMAIN of |-> of[i][2]]

\* The bodies of the complete final blocks, each search from the last's end.
FinalSpans(text) ==
  FoldLeft(LAMBDA acc, x :
             IF acc.open /\ x = FinalClose
               THEN [open |-> FALSE, body |-> << >>, spans |-> Append(acc.spans, acc.body)]
             ELSE IF acc.open THEN [acc EXCEPT !.body = Append(@, x)]
             ELSE [acc EXCEPT !.open = (x = FinalOpen)],
           [open |-> FALSE, body |-> << >>, spans |-> << >>], text).spans
ExtractFinalTags(text) ==
  LET spans == FinalSpans(text)
  IN  IF spans = << >> THEN Missing
      ELSE IF Len(spans) > 1 THEN Ambiguous
      ELSE IF Len(spans[1]) = 1 /\ spans[1][1][1] \in {"answer", "dressed"}
        THEN Ok(spans[1][1][2])
      ELSE Missing
OneOf(values) == IF Len(values) = 1 THEN Ok(values[1]) ELSE Ambiguous

\* Mutant: boxed groups are looked for before the final tags.
ExtractBoxedFirst(text) ==
  IF Values(text, "boxed") # << >> THEN OneOf(Values(text, "boxed"))
  ELSE ExtractFinalTags(text)

\* extract: final tags, then boxed groups, then dollar groups.
Extract(text) ==
  IF HoldsKind(text, "huge") THEN Missing
  ELSE IF Holds(text, FinalOpen) THEN ExtractFinalTags(text)
  ELSE IF Values(text, "boxed") # << >> THEN OneOf(Values(text, "boxed"))
  ELSE IF Values(text, "dollar") # << >> THEN OneOf(Values(text, "dollar"))
  ELSE Missing

\* The values of the prose anchors; an anchor without a math run has none.
AnchorValues(text) == SelectSeq(Values(text, "anchor"), LAMBDA v : v # NoValue)
WholeSpan(text) == IF Len(text) = 1 /\ text[1][1] = "dollar" THEN text[1][2] ELSE NoValue

\* extract_solution_answer: the last boxed group, the last usable anchor, a
\* text that is one dollar span.
SolutionAnswer(text) ==
  IF Values(text, "boxed") # << >> THEN Ok(Last(Values(text, "boxed")))
  ELSE IF AnchorValues(text) # << >> THEN Ok(Last(AnchorValues(text)))
  ELSE IF WholeSpan(text) # NoValue THEN Ok(WholeSpan(text))
  ELSE Missing
-----------------------------------------------------------------------------
(* The analyses.                                                           *)

\* eval_parser_rescue: what the text would be under each rule.
RuleA(raw) ==
  LET at == Find(raw, Opens, 0)
  IN  IF raw # << >> /\ Head(raw) = ThinkOpen /\ ~Holds(raw, ThinkClose) /\ at # 0
      THEN From(raw, at) ELSE raw
Bare(body) == body # << >> /\ \A i \in DOMAIN body :
                body[i][1] \in {"scalar", "prose", "long", "dollar", "anchor"}
RuleB(raw) ==
  LET at == {p \in (DOMAIN raw) \X (DOMAIN raw) :
               /\ p[1] < p[2] /\ raw[p[1]] = FinalOpen /\ raw[p[2]] = FinalClose
               /\ Bare(SubSeq(raw, p[1] + 1, p[2] - 1))}
  IN  IF at = {} THEN raw
      ELSE LET first == CHOOSE p \in at : \A q \in at : p[1] <= q[1]
               value == IF first[2] = first[1] + 2 THEN raw[first[1] + 1][2] ELSE NoValue
           IN  SubSeq(raw, 1, first[1]) \o << <<"answer", value>> >> \o From(raw, first[2])
Forecast(rule, raw) ==
  ParseAction(IF rule = "unclosed_think" THEN RuleA(raw) ELSE RuleB(raw), {})

\* protocol_gap: the first block of a tag, its JSON object and what follows it.
Block(raw, open) == From(raw, Find(raw, {open}, 0) + 1)
Closed(raw, open) == Holds(Block(raw, open), CloseOf(open))
Body(raw, open) == Until(Block(raw, open), CloseOf(open))
Decodes(body) == body # << >> /\ body[1][1] \in Objects
Repairs(raw, open, level) ==
  LET body == Body(raw, open)
      valid == ValidPayload(open, body[1])
  IN  /\ Holds(raw, open)
      /\ Decodes(body)
      /\ CASE level = "auto_close" -> valid /\ ~Closed(raw, open) /\ Len(body) = 1
           [] level = "extract_first_block" -> valid
           [] level = "coerce_types" -> valid \/ body[1][1] = "number"
RepairLevels(raw) ==
  {r \in Opens \X {"auto_close", "extract_first_block", "coerce_types"} :
     Repairs(raw, r[1], r[2])}
FirstTag(raw) ==
  LET at == Find(raw, Opens, 0) IN IF at = 0 THEN NoValue ELSE raw[at]
TurnClass(raw) ==
  IF ParseAction(raw, {}).action # NoValue THEN "executed"
  ELSE IF FirstTag(raw) = NoValue THEN "no_action"
  ELSE LET open == FirstTag(raw)
           body == Body(raw, open)
           closed == Closed(raw, open)
           valid == ValidPayload(open, body[1])
       IN  IF ~Decodes(body)
             THEN IF closed THEN "closed_payload_not_json"
                  ELSE IF body # << >> /\ body[1][1] = "cut" THEN "unclosed_truncated"
                  ELSE "mentioned_in_prose"
           ELSE IF Len(body) > 1
             THEN IF closed THEN "closed_trailing_content" ELSE "unclosed_trailing_content"
           ELSE IF closed
             THEN IF valid THEN "closed_payload_valid" ELSE "closed_payload_invalid"
           ELSE IF valid THEN "unclosed_payload_valid" ELSE "unclosed_payload_invalid"

\* Mutant: the first numeric answer of the turn, wherever it is.
NumericAnswerAnywhere(raw) ==
  IF Values(raw, "number") = << >> THEN NoValue ELSE Head(Values(raw, "number"))

\* tolerance_rescore: the literal of a numeric answer in the only final block.
NumericAnswer(raw) ==
  IF Occurrences(raw, {FinalOpen}) # 1 THEN NoValue
  ELSE LET body == Body(raw, FinalOpen)
       IN  IF Len(body) = 1 /\ body[1][1] = "number" THEN body[1][2] ELSE NoValue
-----------------------------------------------------------------------------
(* The verifier here: "right" is the reference's value.                     *)
Verdict(value) ==
  IF value = NoValue THEN "invalid_prediction"
  ELSE IF value = "right" THEN "correct" ELSE "incorrect"

rdInit ==
  /\ turn \in Texts
  /\ genre \in {"direct", "agent"}
  /\ tolerate \in SUBSET (IF genre = "direct" THEN {}
                         ELSE {"unclosed_think", "bare_final_scalar"})
  /\ row = NoValue
  /\ score = NoValue

\* _prediction_row of a generation; of a trajectory whose last turn this is,
\* the answer it closed with, or none.
RunTurn ==
  /\ row = NoValue
  /\ row' = IF genre = "direct"
            THEN [extract |-> Extract(turn).status, answer |-> Extract(turn).value,
                  status |-> Verdict(Extract(turn).value)]
            ELSE LET answer == ParseAction(turn, tolerate).value
                 IN  [extract |-> NoValue, answer |-> answer, status |-> Verdict(answer)]
  /\ UNCHANGED <<turn, tolerate, genre, score>>

\* score_arm on one row: the strict rung must be what the run recorded; each
\* further rung is tried when the ones before did not find the right answer.
StrictAnswer ==
  IF genre = "direct" THEN Extract(turn).value ELSE row.answer
Mismatch ==
  \/ genre = "direct" /\ Extract(turn).status # row.extract
  \/ genre = "agent" /\ ParseAction(turn, {}).value # row.answer
  \/ Verdict(StrictAnswer) # row.status

Rungs ==
  LET strict == Verdict(StrictAnswer) = "correct"
      coerce == strict \/ Verdict(NumericAnswer(turn)) = "correct"
  IN  [raised |-> Mismatch, strict |-> strict, coerce |-> coerce,
       lenient |-> coerce \/ Verdict(SolutionAnswer(turn).value) = "correct"]

Rescore ==
  /\ row # NoValue
  /\ score = NoValue
  /\ score' = Rungs
  /\ UNCHANGED <<turn, tolerate, genre, row>>

rdNext == RunTurn \/ Rescore
ReadSpec == rdInit /\ [][rdNext]_rdVars
-----------------------------------------------------------------------------
(* Properties.                                                             *)

\* The parser answers a bare scalar with what orjson makes of it (0.10 becomes
\* 0.1, an integer of more than 64 bits a float), its forecast with the literal;
\* and the forecast does not see a scalar with a "<" or a brace in it.
Respelt ==
  \E i \in DOMAIN turn : turn[i][1] = "braced" \/
                        (turn[i][1] = "scalar" /\ Dumped(turn[i][2]) # turn[i][2])
\* A final block that runs a tool.
Overridden(reading) == reading.action = "tool_call" /\ FirstTag(turn) = FinalOpen

\* Every reader of a turn tells the same story of it.  What the strict parser
\* takes as an answer the extractor takes as the same one and the tolerant
\* parser leaves alone ("the default stays byte-identical"); what one
\* tolerance rule rescues, its offline forecast rescued to the same action, so
\* that no patch does what its evaluation never measured, but for a scalar
\* that is spelled anew; and what the runtime executes is within the funnel's
\* ceiling for that tag ("executed is a subset of it"), but for a final block
\* whose object names itself a tool call.
ReadersAgree ==
  LET strict == ParseAction(turn, {})
      tolerant(rules) == ParseAction(turn, rules)
  IN  /\ strict.action = "final" => Extract(turn) = Ok(strict.value)
      /\ strict.action # NoValue => tolerant(tolerate) = strict
      /\ \A rule \in {"unclosed_think", "bare_final_scalar"} :
           (/\ tolerant({rule}).action # NoValue /\ strict.action = NoValue
            /\ ~(rule = "bare_final_scalar" /\ Respelt))
           => Forecast(rule, turn) = tolerant({rule})
      /\ strict.action # NoValue /\ ~Overridden(strict) =>
           <<FirstTag(turn), "extract_first_block">> \in RepairLevels(turn)
      /\ TurnClass(turn) \in {"closed_payload_valid", "unclosed_payload_valid"}
           => <<FirstTag(turn), "extract_first_block">> \in RepairLevels(turn)

\* The coercion of a re-scoring counts no task that the run had read an answer
\* of, under whatever rules it read it ("only where strict found nothing",
\* tolerance_rescore.py): the extractor, the parser and the coercion never
\* read two answers from one turn.
CoercionFillsGaps ==
  score # NoValue /\ row.answer # NoValue => score.coerce = score.strict
=============================================================================
