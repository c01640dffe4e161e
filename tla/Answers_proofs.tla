--------------------------- MODULE Answers_proofs ---------------------------
(***************************************************************************)
(* Proofs about answers: how a turn is read, for every set of texts; what  *)
(* a verdict on an answer means, for every set of answers; and what the    *)
(* first version's solver answers, for every plan, tools and buffer: what  *)
(* its answers stand on, what its collector keeps, and where its router    *)
(* sends a query.                                                          *)
(***************************************************************************)
EXTENDS TurnReaders, VerifyAnswer, Solver, FoldTheorems, SequenceTheorems, TLAPS
-----------------------------------------------------------------------------
(* The readers of a turn.                                                   *)

\* q is the n tokens of s that follow the first a.
IsPart(q, s, a, n, A) ==
  /\ s \in Seq(A) /\ q \in Seq(A) /\ Len(q) = n
  /\ a \in Nat /\ n \in Nat /\ a + n <= Len(s)
  /\ \A j \in 1..n : q[j] = s[a + j]

LEMMA PartIs ==
  ASSUME NEW A, NEW s \in Seq(A), NEW a \in 0..Len(s), NEW z \in a..Len(s)
  PROVE  IsPart(SubSeq(s, a + 1, z), s, a, z - a, A)
<1> PICK f \in Int : f = a + 1
  OBVIOUS
<1>1. z \in Int /\ \A i \in f..z : s[i] \in A
  OBVIOUS
<1> DEFINE q == SubSeq(s, f, z)
<1>2. /\ q \in Seq(A)
      /\ Len(q) = IF f <= z THEN z - f + 1 ELSE 0
      /\ \A i \in 1..z - f + 1 : q[i] = s[f + i - 1]
  BY <1>1, SubSeqProperties
<1> HIDE DEF q
<1>3. \A i \in 1..z - a : f + i - 1 = a + i /\ i \in 1..z - f + 1
  OBVIOUS
<1>4. Len(q) = z - a
  BY <1>2
<1>5. a \in Nat /\ z - a \in Nat /\ a + (z - a) <= Len(s)
  OBVIOUS
<1>6. IsPart(q, s, a, z - a, A)
  BY <1>2, <1>3, <1>4, <1>5 DEF IsPart
<1> QED
  BY <1>6 DEF q

LEMMA PartsEqual ==
  ASSUME NEW A, NEW s, NEW a, NEW n, NEW q, NEW r,
         IsPart(q, s, a, n, A), IsPart(r, s, a, n, A)
  PROVE  q = r
<1>1. q \in Seq(A) /\ r \in Seq(A) /\ Len(q) = Len(r) /\ \A i \in 1..Len(q) : q[i] = r[i]
  BY DEF IsPart
<1> QED
  BY <1>1, SeqEqual

\* p is the place of the first token of S after i, or 0.
FoundAt(t, S, i, p) ==
  /\ p \in 0..Len(t)
  /\ p = 0 => \A j \in 1..Len(t) : j > i => t[j] \notin S
  /\ p # 0 => /\ p > i /\ t[p] \in S
              /\ \A j \in 1..Len(t) : j > i /\ j < p => t[j] \notin S

LEMMA FindIs ==
  ASSUME NEW A, NEW t \in Seq(A), NEW S, NEW i \in Nat
  PROVE  FoundAt(t, S, i, Find(t, S, i))
<1> DEFINE at == {j \in DOMAIN t : j > i /\ t[j] \in S}
           p == Find(t, S, i)
<1>1. DOMAIN t = 1..Len(t) /\ Len(t) \in Nat
  OBVIOUS
<1>2. p = IF at = {} THEN 0 ELSE Min(at)
  BY DEF Find
<1> HIDE DEF p
<1>3. CASE at = {}
  <2>1. \A j \in 1..Len(t) : j > i => t[j] \notin S
    BY <1>1, <1>3
  <2>2. p = 0 /\ p \in 0..Len(t)
    BY <1>1, <1>2, <1>3
  <2> QED
    BY <2>1, <2>2 DEF FoundAt, p
<1>4. CASE at # {}
  <2>1. at \subseteq Nat
    BY <1>1
  <2>2. \A j \in 1..Len(t) : j > i /\ t[j] \in S => j \in at
    BY <1>1
  <2>3. \A j \in at : j \in 1..Len(t) /\ j > i /\ t[j] \in S
    BY <1>1
  <2> HIDE DEF at
  <2>4. \E x \in at : \A y \in at : x =< y
    BY <1>4, <2>1, NatMin
  <2>5. Min(at) \in at /\ \A y \in at : Min(at) =< y
    BY <2>4, Zenon DEF Min
  <2>6. p \in at /\ \A y \in at : p =< y
    BY <1>2, <1>4, <2>5
  <2>7. p \in 1..Len(t) /\ p > i /\ t[p] \in S
    BY <2>3, <2>6
  <2>8. \A j \in 1..Len(t) : j > i /\ j < p => t[j] \notin S
    BY <1>1, <2>2, <2>6, <2>7
  <2>9. p \in 0..Len(t) /\ p # 0
    BY <1>1, <2>7
  <2> QED
    BY <2>7, <2>8, <2>9 DEF FoundAt, p
<1> QED
  BY <1>3, <1>4

LEMMA FoundOnce ==
  ASSUME NEW t, NEW S, NEW i \in Nat, NEW p, NEW q, Len(t) \in Nat,
         FoundAt(t, S, i, p), FoundAt(t, S, i, q)
  PROVE  p = q
<1>1. p \in 0..Len(t) /\ q \in 0..Len(t)
  BY DEF FoundAt
<1>2. CASE p = 0 \/ q = 0
  <2>1. p # 0 => p \in 1..Len(t)
    BY <1>1
  <2>2. q # 0 => q \in 1..Len(t)
    BY <1>1
  <2> QED
    BY <1>2, <2>1, <2>2 DEF FoundAt
<1>3. CASE p # 0 /\ q # 0
  <2>1. p \in 1..Len(t) /\ q \in 1..Len(t)
    BY <1>1, <1>3
  <2>2. ~ (p < q) /\ ~ (q < p)
    BY <1>3, <2>1 DEF FoundAt
  <2> QED
    BY <2>1, <2>2
<1> QED
  BY <1>2, <1>3

AtMostOne(t, S) ==
  \A i, j \in 1..Len(t) : t[i] \in S /\ t[j] \in S => i = j

LEMMA OccurrencesAre ==
  ASSUME NEW A, NEW t \in Seq(A), NEW S
  PROVE  /\ Occurrences(t, S) \in Nat
         /\ Occurrences(t, S) > 1 <=> ~AtMostOne(t, S)
         /\ Occurrences(t, S) = 1 => AtMostOne(t, S) /\ \E i \in 1..Len(t) : t[i] \in S
<1> DEFINE T == {i \in DOMAIN t : t[i] \in S}
<1>1. DOMAIN t = 1..Len(t) /\ Len(t) \in Nat
  OBVIOUS
<1>2. IsFiniteSet(T)
  <2>1. IsFiniteSet(1..Len(t)) /\ T \subseteq 1..Len(t)
    BY <1>1, UpToFinite
  <2> QED
    BY <2>1, FS_Subset
<1>3. Occurrences(t, S) = Cardinality(T)
  BY DEF Occurrences
<1>4. \A i \in 1..Len(t) : t[i] \in S <=> i \in T
  BY <1>1
<1>5. T \subseteq 1..Len(t)
  BY <1>1
<1> HIDE DEF T
<1>6. Cardinality(T) \in Nat
  BY <1>2, FS_CardinalityType
<1>7. AtMostOne(t, S) <=> \A i, j \in T : i = j
  BY <1>4, <1>5 DEF AtMostOne
<1>8. CASE T = {}
  <2>1. Cardinality(T) = 0
    BY <1>8, FS_EmptySet
  <2> QED
    BY <1>3, <1>7, <1>8, <2>1
<1>9. CASE T # {}
  <2>1. PICK i \in T : TRUE
    BY <1>9
  <2>2. i \in 1..Len(t) /\ t[i] \in S
    BY <1>4, <1>5, <2>1
  <2>3. CASE T = {i}
    <3>1. Cardinality(T) = 1
      BY <2>3, FS_Singleton
    <3> QED
      BY <1>3, <1>7, <2>2, <2>3, <3>1
  <2>4. CASE T # {i}
    <3>1. PICK j \in T : j # i
      BY <2>1, <2>4
    <3>2. Cardinality({i, j}) = 2
      <4> DEFINE U == {i}
                 V == {i, j}
      <4>1. IsFiniteSet(U) /\ Cardinality(U) = 1
        BY FS_Singleton
      <4>2. j \notin U /\ V = U \cup {j}
        BY <3>1
      <4> HIDE DEF U, V
      <4>3. Cardinality(U \cup {j}) = Cardinality(U) + 1
        BY <4>1, <4>2, FS_AddElement
      <4>4. Cardinality(V) = 2
        BY <4>1, <4>2, <4>3
      <4> QED
        BY <4>4 DEF V
    <3>3. {i, j} \subseteq T
      BY <2>1, <3>1
    <3>4. Cardinality({i, j}) <= Cardinality(T)
      BY <1>2, <3>3, FS_Subset
    <3>5. ~AtMostOne(t, S)
      BY <1>7, <2>1, <3>1
    <3> QED
      BY <1>3, <1>6, <3>2, <3>4, <3>5
  <2> QED
    BY <2>3, <2>4
<1> QED
  BY <1>8, <1>9

\* Where the think block of t ends.
EndsThink(t, k) ==
  \/ t[1] # ThinkOpen /\ k = 0
  \/ /\ t[1] = ThinkOpen /\ k \in 2..Len(t) /\ t[k] = ThinkClose
     /\ \A j \in 2..Len(t) : j < k => t[j] \notin {ThinkOpen, ThinkClose}
  \/ /\ t[1] = ThinkOpen /\ k = Len(t) + 1
     /\ \A p \in 2..Len(t) :
          t[p] = ThinkClose => \E j \in 2..Len(t) : j < p /\ t[j] \in {ThinkOpen, ThinkClose}

LEMMA TagsDiffer ==
  /\ ThinkOpen # ThinkClose /\ ThinkOpen \notin Opens /\ ThinkClose \notin Opens
  /\ ToolOpen # FinalOpen /\ ToolOpen \in Opens /\ FinalOpen \in Opens
  /\ \A o \in Opens : o = ToolOpen \/ o = FinalOpen
  /\ FinalClose \notin Opens /\ ToolClose \notin Opens
  /\ CloseOf(ToolOpen) = ToolClose /\ CloseOf(FinalOpen) = FinalClose
  /\ ThinkClose # FinalClose /\ ThinkOpen # FinalClose
  /\ FinalClose # FinalOpen /\ ToolClose # ToolOpen
  /\ \A x : x[1] \in Objects \cup Scalars =>
       x \notin Opens \cup {ThinkOpen, ThinkClose, FinalClose, ToolClose}
BY DEF ThinkOpen, ThinkClose, ToolOpen, ToolClose, FinalOpen, FinalClose, Tag, Opens,
       CloseOf, Objects, Scalars

LEMMA ThinkEndIs ==
  ASSUME NEW A, NEW t \in Seq(A), t # << >>
  PROVE  EndsThink(t, ThinkEnd(t))
<1> DEFINE S == {ThinkOpen, ThinkClose}
           at == Find(t, S, 1)
<1>1. Head(t) = t[1] /\ Len(t) \in Nat
  OBVIOUS
<1>2. FoundAt(t, S, 1, at)
  BY FindIs
<1>3. ThinkEnd(t) = IF t[1] # ThinkOpen THEN 0
                    ELSE IF at # 0 /\ t[at] = ThinkClose THEN at ELSE Len(t) + 1
  BY <1>1 DEF ThinkEnd
<1> HIDE DEF at
<1>4. CASE t[1] # ThinkOpen
  BY <1>3, <1>4 DEF EndsThink
<1>5. CASE t[1] = ThinkOpen /\ at # 0 /\ t[at] = ThinkClose
  <2>1. at \in 2..Len(t) /\ \A j \in 2..Len(t) : j < at => t[j] \notin S
    BY <1>1, <1>2, <1>5 DEF FoundAt
  <2> QED
    BY <1>3, <1>5, <2>1 DEF EndsThink
<1>6. CASE t[1] = ThinkOpen /\ ~(at # 0 /\ t[at] = ThinkClose)
  <2>1. ASSUME NEW p \in 2..Len(t), t[p] = ThinkClose
        PROVE  \E j \in 2..Len(t) : j < p /\ t[j] \in S
    <3>1. at # 0
      BY <1>1, <1>2, <2>1 DEF FoundAt
    <3>2. at \in 2..Len(t) /\ t[at] \in S /\ at # p
      BY <1>1, <1>2, <1>6, <2>1, <3>1 DEF FoundAt
    <3>3. ~(p < at)
      BY <1>1, <1>2, <2>1, <3>1 DEF FoundAt
    <3> QED
      BY <2>1, <3>2, <3>3
  <2> QED
    BY <1>3, <1>6, <2>1 DEF EndsThink
<1> QED
  BY <1>4, <1>5, <1>6

LEMMA EndsOnce ==
  ASSUME NEW t, NEW k, NEW m, Len(t) \in Nat, EndsThink(t, k), EndsThink(t, m)
  PROVE  k = m
<1>1. CASE t[1] # ThinkOpen
  BY <1>1 DEF EndsThink
<1>2. CASE t[1] = ThinkOpen /\ k = Len(t) + 1
  <2>1. ASSUME m \in 2..Len(t), t[m] = ThinkClose,
               \A j \in 2..Len(t) : j < m => t[j] \notin {ThinkOpen, ThinkClose}
        PROVE  FALSE
    <3>1. \E j \in 2..Len(t) : j < m /\ t[j] \in {ThinkOpen, ThinkClose}
      BY <1>2, <2>1 DEF EndsThink
    <3> QED
      BY <2>1, <3>1
  <2> QED
    BY <1>2, <2>1 DEF EndsThink
<1>3. CASE t[1] = ThinkOpen /\ m = Len(t) + 1
  <2>1. ASSUME k \in 2..Len(t), t[k] = ThinkClose,
               \A j \in 2..Len(t) : j < k => t[j] \notin {ThinkOpen, ThinkClose}
        PROVE  FALSE
    <3>1. \E j \in 2..Len(t) : j < k /\ t[j] \in {ThinkOpen, ThinkClose}
      BY <1>3, <2>1 DEF EndsThink
    <3> QED
      BY <2>1, <3>1
  <2> QED
    BY <1>3, <2>1 DEF EndsThink
<1>4. CASE t[1] = ThinkOpen /\ k # Len(t) + 1 /\ m # Len(t) + 1
  <2>1. /\ k \in 2..Len(t) /\ t[k] = ThinkClose /\ m \in 2..Len(t) /\ t[m] = ThinkClose
        /\ \A j \in 2..Len(t) : j < k => t[j] \notin {ThinkOpen, ThinkClose}
        /\ \A j \in 2..Len(t) : j < m => t[j] \notin {ThinkOpen, ThinkClose}
    BY <1>4 DEF EndsThink
  <2>2. ~(k < m) /\ ~(m < k)
    BY <2>1
  <2> QED
    BY <2>1, <2>2
<1> QED
  BY <1>1, <1>2, <1>3, <1>4

\* What the parser reads: the text after the tolerance, and its payload.
TextOf(t, rules) == IF "unclosed_think" \in rules THEN CloseUnclosedThink(t) ELSE t
Payload(x, rules) ==
  ParsePayload(x[ThinkEnd(x) + 1], SubSeq(x, ThinkEnd(x) + 2, Len(x) - 1), rules)
Readable(t, x) ==
  /\ t # << >> /\ ~HoldsKind(t, "huge") /\ AtMostOne(t, Opens)
  /\ Enveloped(x) /\ ~HoldsKind(SubSeq(x, 1, ThinkEnd(x)), "long")

LEMMA ParseIs ==
  ASSUME NEW A, NEW t \in Seq(A), NEW rules
  PROVE  /\ ParseAction(t, rules).action # NoValue => Readable(t, TextOf(t, rules))
         /\ Readable(t, TextOf(t, rules)) =>
              ParseAction(t, rules) = Payload(TextOf(t, rules), rules)
<1> DEFINE x == TextOf(t, rules)
<1>1. Occurrences(t, Opens) > 1 <=> ~AtMostOne(t, Opens)
  BY OccurrencesAre
<1>2. ParseAction(t, rules) =
        IF t = << >> THEN Refused("empty")
        ELSE IF HoldsKind(t, "huge") THEN Refused("too_long")
        ELSE IF Occurrences(t, Opens) > 1 THEN Refused("multiple_actions")
        ELSE IF ~Enveloped(x) THEN Refused("invalid_envelope")
        ELSE IF HoldsKind(SubSeq(x, 1, ThinkEnd(x)), "long") THEN Refused("invalid_schema")
        ELSE Payload(x, rules)
  BY DEF ParseAction, TextOf, Payload
<1> HIDE DEF x
<1>3. \A e : Refused(e).action = NoValue
  BY DEF Refused
<1>4. ParseAction(t, rules).action # NoValue => Readable(t, x)
  BY <1>1, <1>2, <1>3 DEF Readable
<1>5. Readable(t, x) => ParseAction(t, rules) = Payload(x, rules)
  BY <1>1, <1>2 DEF Readable
<1> QED
  BY <1>4, <1>5 DEF x

\* A payload that is read, and what is read of it.
Taken(open, piece) ==
  ValidPayload(open, piece) \/ (open = FinalOpen /\ piece[1] = "wrapped")
ReadAs(open, piece) ==
  IF open = ToolOpen \/ piece[1] = "wrapped" THEN Read("tool_call", NoValue)
  ELSE Read("final", piece[2])

LEMMA PayloadIs ==
  ASSUME NEW open \in Opens, NEW body, NEW rules
  PROVE  /\ ParsePayload(open, body, rules).action # NoValue =>
              /\ Len(body) = 1
              /\ \/ /\ body[1][1] \in Scalars /\ open = FinalOpen
                    /\ "bare_final_scalar" \in rules
                    /\ ParsePayload(open, body, rules) = Read("final", Dumped(body[1][2]))
                 \/ Taken(open, body[1])
         /\ Len(body) = 1 /\ Taken(open, body[1]) =>
              ParsePayload(open, body, rules) = ReadAs(open, body[1])
<1>1. \A e : Refused(e).action = NoValue
  BY DEF Refused
<1>2. Taken(open, body[1]) => body[1][1] \in Objects /\ body[1][1] \notin Scalars
  BY DEF Taken, ValidPayload, Objects, Scalars
<1>3. ParsePayload(open, body, rules) =
        IF Len(body) # 1 \/ body[1][1] \notin Objects \cup Scalars
          THEN Refused("invalid_json")
        ELSE IF body[1][1] \in Scalars /\ open = FinalOpen /\ "bare_final_scalar" \in rules
          THEN Read("final", Dumped(body[1][2]))
        ELSE IF body[1][1] = "wrapped" /\ open = FinalOpen THEN Read("tool_call", NoValue)
        ELSE IF ~ValidPayload(open, body[1]) THEN Refused("invalid_schema")
        ELSE IF open = ToolOpen THEN Read("tool_call", NoValue)
        ELSE Read("final", body[1][2])
  BY DEF ParsePayload
<1>4. Taken(open, body[1]) =>
        ReadAs(open, body[1]) =
          IF body[1][1] = "wrapped" /\ open = FinalOpen THEN Read("tool_call", NoValue)
          ELSE IF open = ToolOpen THEN Read("tool_call", NoValue)
          ELSE Read("final", body[1][2])
  BY TagsDiffer DEF ReadAs, Taken, ValidPayload
<1>5. Taken(open, body[1]) =
        (ValidPayload(open, body[1]) \/ (open = FinalOpen /\ body[1][1] = "wrapped"))
  BY DEF Taken
<1> QED
  BY <1>1, <1>2, <1>3, <1>4, <1>5

\* The shape of a turn that the strict parser reads: k tokens of thought, an
\* action tag, its payload and its closing tag.
StrictShape(t, k) ==
  /\ k \in Nat /\ k = ThinkEnd(t) /\ Len(t) = k + 3 /\ t # << >>
  /\ t[k + 1] \in Opens /\ t[k + 3] = CloseOf(t[k + 1]) /\ Taken(t[k + 1], t[k + 2])
  /\ AtMostOne(t, Opens) /\ ~HoldsKind(t, "huge") /\ ~HoldsKind(SubSeq(t, 1, k), "long")

LEMMA ThinkEndType ==
  ASSUME NEW A, NEW t \in Seq(A), t # << >>
  PROVE  ThinkEnd(t) \in 0..Len(t) + 1
<1>1. Len(t) \in Nat
  OBVIOUS
<1> QED
  BY <1>1, ThinkEndIs DEF EndsThink

\* The body of an envelope, when it is one token.
LEMMA OneToken ==
  ASSUME NEW A, NEW x \in Seq(A), NEW k \in 0..Len(x) + 1, k + 2 <= Len(x)
  PROVE  /\ SubSeq(x, k + 2, Len(x) - 1) \in Seq(A)
         /\ Len(SubSeq(x, k + 2, Len(x) - 1)) = Len(x) - k - 2
         /\ \A j \in 1..Len(x) - k - 2 : SubSeq(x, k + 2, Len(x) - 1)[j] = x[k + 1 + j]
<1> DEFINE a == k + 1
           z == Len(x) - 1
           q == SubSeq(x, a + 1, z)
<1>1. a \in 0..Len(x) /\ z \in a..Len(x) /\ z - a = Len(x) - k - 2 /\ a + 1 = k + 2
  OBVIOUS
<1>2. IsPart(q, x, a, z - a, A)
  BY <1>1, PartIs
<1>3. SubSeq(x, k + 2, Len(x) - 1) = q
  BY <1>1
<1> HIDE DEF q
<1>4. q \in Seq(A) /\ Len(q) = z - a /\ \A j \in 1..z - a : q[j] = x[a + j]
  BY <1>2 DEF IsPart
<1> QED
  BY <1>1, <1>3, <1>4

LEMMA ReadableText ==
  ASSUME NEW A, NEW t, NEW x \in Seq(A), x # << >>, Readable(t, x), NEW k, k = ThinkEnd(x)
  PROVE  /\ k \in Nat /\ k + 2 <= Len(x) /\ x[k + 1] \in Opens
         /\ x[Len(x)] = CloseOf(x[k + 1])
<1>1. k \in 0..Len(x) + 1 /\ Len(x) \in Nat
  BY ThinkEndType
<1> QED
  BY <1>1 DEF Readable, Enveloped, Last

LEMMA StrictIs ==
  ASSUME NEW A, NEW t \in Seq(A), ParseAction(t, {}).action # NoValue
  PROVE  /\ StrictShape(t, ThinkEnd(t))
         /\ ParseAction(t, {}) = ReadAs(t[ThinkEnd(t) + 1], t[ThinkEnd(t) + 2])
<1> PICK k : k = ThinkEnd(t)
  OBVIOUS
<1>1. TextOf(t, {}) = t
  BY DEF TextOf
<1>2. Readable(t, t) /\ ParseAction(t, {}) = Payload(t, {})
  BY <1>1, ParseIs
<1>3. /\ t # << >> /\ AtMostOne(t, Opens) /\ ~HoldsKind(t, "huge")
      /\ ~HoldsKind(SubSeq(t, 1, k), "long")
  BY <1>2 DEF Readable
<1>4. k \in Nat /\ k + 2 <= Len(t) /\ t[k + 1] \in Opens /\ t[Len(t)] = CloseOf(t[k + 1])
  BY <1>2, <1>3, ReadableText
<1> DEFINE body == SubSeq(t, k + 2, Len(t) - 1)
<1>5. Len(body) = Len(t) - k - 2 /\ \A j \in 1..Len(t) - k - 2 : body[j] = t[k + 1 + j]
  <2>1. k \in 0..Len(t) + 1
    BY <1>3, ThinkEndType
  <2> QED
    BY <1>4, <2>1, OneToken
<1>6. ParseAction(t, {}) = ParsePayload(t[k + 1], body, {})
  BY <1>2 DEF Payload
<1> HIDE DEF body
<1>7. Len(body) = 1 /\ Taken(t[k + 1], body[1])
  BY <1>4, <1>6, PayloadIs
<1>8. Len(t) = k + 3 /\ body[1] = t[k + 2]
  <2>1. Len(t) \in Nat
    OBVIOUS
  <2>2. Len(t) = k + 3
    <3>1. Len(t) - k - 2 = 1 /\ k \in Nat
      BY <1>4, <1>5, <1>7
    <3> QED
      BY <2>1, <3>1
  <2>3. 1 \in 1..Len(t) - k - 2 /\ k + 1 + 1 = k + 2
    BY <1>4, <2>2
  <2> QED
    BY <1>5, <2>2, <2>3
<1>9. ParseAction(t, {}) = ReadAs(t[k + 1], t[k + 2])
  BY <1>4, <1>6, <1>7, <1>8, PayloadIs
<1>10. StrictShape(t, k)
  BY <1>3, <1>4, <1>7, <1>8 DEF StrictShape
<1> QED
  BY <1>9, <1>10

\* A turn that is read as it stands is read alike under every rule.
LEMMA ReadAlike ==
  ASSUME NEW A, NEW t \in Seq(A), NEW k, StrictShape(t, k), NEW rules, TextOf(t, rules) = t
  PROVE  ParseAction(t, rules) = ReadAs(t[k + 1], t[k + 2])
<1>1. /\ k \in Nat /\ k = ThinkEnd(t) /\ Len(t) = k + 3 /\ t # << >>
      /\ t[k + 1] \in Opens /\ t[k + 3] = CloseOf(t[k + 1])
      /\ Taken(t[k + 1], t[k + 2])
  BY DEF StrictShape
<1>2. Readable(t, t)
  BY <1>1 DEF StrictShape, Readable, Enveloped, Last
<1>3. ParseAction(t, rules) = Payload(t, rules)
  BY <1>2, ParseIs
<1> DEFINE body == SubSeq(t, k + 2, Len(t) - 1)
<1>4. Len(body) = Len(t) - k - 2 /\ \A j \in 1..Len(t) - k - 2 : body[j] = t[k + 1 + j]
  <2>1. k \in 0..Len(t) + 1 /\ k + 2 <= Len(t)
    BY <1>1
  <2> QED
    BY <2>1, OneToken
<1>5. ParseAction(t, rules) = ParsePayload(t[k + 1], body, rules)
  BY <1>1, <1>3 DEF Payload
<1> HIDE DEF body
<1>6. Len(body) = 1 /\ body[1] = t[k + 2]
  <2>1. Len(t) - k - 2 = 1 /\ k + 1 + 1 = k + 2
    BY <1>1
  <2> QED
    BY <1>4, <2>1
<1> QED
  BY <1>1, <1>5, <1>6, PayloadIs

\* Such a turn is read by the strict parser.
LEMMA ShapeRead ==
  ASSUME NEW A, NEW t \in Seq(A), NEW k, StrictShape(t, k)
  PROVE  ParseAction(t, {}) = ReadAs(t[k + 1], t[k + 2])
<1>1. TextOf(t, {}) = t
  BY DEF TextOf
<1> QED
  BY <1>1, ReadAlike

LEMMA StrictUntouched ==
  ASSUME NEW A, NEW t \in Seq(A), NEW k, StrictShape(t, k), NEW rules
  PROVE  TextOf(t, rules) = t
<1>1. k \in Nat /\ k = ThinkEnd(t) /\ Len(t) = k + 3 /\ t # << >>
  BY DEF StrictShape
<1>2. EndsThink(t, k)
  BY <1>1, ThinkEndIs
<1>3. Head(t) = t[1] /\ DOMAIN t = 1..Len(t)
  BY <1>1
<1>4. t[1] # ThinkOpen \/ \E i \in DOMAIN t : t[i] = ThinkClose
  <2>1. CASE t[1] = ThinkOpen
    <3>1. k \in 2..Len(t) /\ t[k] = ThinkClose
      BY <1>1, <1>2, <2>1 DEF EndsThink
    <3> QED
      BY <1>1, <1>3, <3>1
  <2> QED
    BY <2>1
<1>5. CloseUnclosedThink(t) = t
  BY <1>3, <1>4 DEF CloseUnclosedThink, Holds
<1> QED
  BY <1>5 DEF TextOf

\* The rules leave alone what the strict parser reads.
LEMMA SameUnderRules ==
  ASSUME NEW A, NEW t \in Seq(A), NEW rules, ParseAction(t, {}).action # NoValue
  PROVE  ParseAction(t, rules) = ParseAction(t, {})
<1> DEFINE k == ThinkEnd(t)
<1>1. StrictShape(t, k) /\ ParseAction(t, {}) = ReadAs(t[k + 1], t[k + 2])
  BY StrictIs
<1> HIDE DEF k
<1>2. TextOf(t, rules) = t
  BY <1>1, StrictUntouched
<1>3. ParseAction(t, rules) = ReadAs(t[k + 1], t[k + 2])
  BY <1>1, <1>2, ReadAlike
<1> QED
  BY <1>1, <1>3

\* The block that the first open tag of t, at i, begins.
LEMMA BodyIs ==
  ASSUME NEW A, NEW t \in Seq(A), NEW open, NEW i \in 1..Len(t), NEW c,
         FoundAt(t, {open}, 0, i), FoundAt(t, {CloseOf(open)}, i, c)
  PROVE  /\ Closed(t, open) <=> c # 0
         /\ IsPart(Body(t, open), t, i, (IF c = 0 THEN Len(t) - i ELSE c - i - 1), A)
<1> DEFINE b == SubSeq(t, i + 1, Len(t))
           n == Len(t)
           m == n - i
           close == CloseOf(open)
           e == Find(b, {close}, 0)
<1>1. n \in Nat /\ m \in Nat /\ i \in Nat
  OBVIOUS
<1>2. Find(t, {open}, 0) = i
  BY <1>1, FindIs, FoundOnce
<1>3. Block(t, open) = b
  BY <1>2 DEF Block, From
<1>4. IsPart(b, t, i, m, A)
  BY PartIs
<1> HIDE DEF b
<1>5. b \in Seq(A) /\ Len(b) = m /\ DOMAIN b = 1..m /\ \A j \in 1..m : b[j] = t[i + j]
  BY <1>4 DEF IsPart
<1>6. FoundAt(b, {close}, 0, e)
  BY <1>5, FindIs
<1>7. Closed(t, open) <=> \E j \in 1..m : b[j] = close
  BY <1>3, <1>5 DEF Closed, Holds
<1>8. Body(t, open) = IF e = 0 THEN b ELSE SubSeq(b, 1, e - 1)
  BY <1>3 DEF Body, Until
<1> HIDE DEF e
<1>9. c \in 0..n
  BY DEF FoundAt
<1>10. CASE c = 0
  <2>1. \A j \in 1..n : j > i => t[j] # close
    BY <1>10 DEF FoundAt
  <2>2. ASSUME NEW j \in 1..m PROVE b[j] # close
    <3>1. i + j \in 1..n /\ i + j > i
      BY <1>1
    <3> QED
      BY <1>5, <2>1, <3>1
  <2>3. e = 0
    <3>1. e # 0 => e \in 1..m /\ b[e] = close
      BY <1>1, <1>5, <1>6 DEF FoundAt
    <3> QED
      BY <2>2, <3>1
  <2> QED
    BY <1>4, <1>7, <1>8, <1>10, <2>2, <2>3
<1>11. CASE c # 0
  <2>1. /\ c \in 1..n /\ c > i /\ t[c] = close
        /\ \A j \in 1..n : j > i /\ j < c => t[j] # close
    BY <1>1, <1>11 DEF FoundAt
  <2> DEFINE d == c - i
  <2>2. d \in 1..m /\ i + d = c
    BY <1>1, <2>1
  <2>3. b[d] = close
    BY <1>5, <2>1, <2>2
  <2>4. ASSUME NEW j \in 1..m, j < d PROVE b[j] # close
    <3>1. i + j \in 1..n /\ i + j > i /\ i + j < c
      BY <1>1, <2>2, <2>4
    <3> QED
      BY <1>5, <2>1, <3>1
  <2>5. FoundAt(b, {close}, 0, d)
    <3>1. d \in 0..Len(b) /\ d # 0 /\ d > 0
      BY <1>5, <2>2
    <3> QED
      BY <1>5, <2>3, <2>4, <3>1 DEF FoundAt
  <2> HIDE DEF d
  <2>6. e = d
    BY <1>1, <1>5, <1>6, <2>5, FoundOnce
  <2> DEFINE q == SubSeq(b, 1, d - 1)
  <2>7. IsPart(q, b, 0, d - 1, A)
    <3> DEFINE z == d - 1
    <3>1. z \in 0..Len(b) /\ 0 \in 0..Len(b) /\ z - 0 = d - 1 /\ 0 + 1 = 1
      BY <1>5, <2>2
    <3> HIDE DEF z
    <3>2. IsPart(SubSeq(b, 0 + 1, z), b, 0, z - 0, A)
      BY <1>5, <3>1, PartIs
    <3> QED
      BY <3>1, <3>2 DEF z
  <2> HIDE DEF q
  <2>8. /\ q \in Seq(A) /\ Len(q) = d - 1 /\ \A j \in 1..d - 1 : q[j] = b[0 + j]
    BY <2>7 DEF IsPart
  <2>9. ASSUME NEW j \in 1..d - 1 PROVE q[j] = t[i + j]
    <3>1. j \in 1..m /\ 0 + j = j
      BY <1>1, <2>2
    <3> QED
      BY <1>5, <2>8, <3>1
  <2>10. d - 1 = c - i - 1 /\ d - 1 \in Nat /\ i + (d - 1) <= n
    BY <1>1, <2>1, <2>2
  <2>11. IsPart(q, t, i, d - 1, A)
    BY <1>1, <2>8, <2>9, <2>10 DEF IsPart
  <2>12. Body(t, open) = q
    BY <1>8, <2>2, <2>6 DEF q
  <2> QED
    BY <1>7, <1>11, <2>2, <2>3, <2>10, <2>11, <2>12
<1> QED
  BY <1>10, <1>11
\* Where a strict turn's only block stands, and what it holds.
LEMMA StrictBlock ==
  ASSUME NEW A, NEW t \in Seq(A), NEW k, StrictShape(t, k)
  PROVE  /\ FoundAt(t, Opens, 0, k + 1) /\ FoundAt(t, {t[k + 1]}, 0, k + 1)
         /\ FoundAt(t, {CloseOf(t[k + 1])}, k + 1, k + 3)
         /\ t[k + 2] \notin Opens /\ k + 1 \in 1..Len(t)
<1>1. /\ k \in Nat /\ Len(t) = k + 3 /\ t[k + 1] \in Opens /\ t[k + 3] = CloseOf(t[k + 1])
      /\ Taken(t[k + 1], t[k + 2]) /\ AtMostOne(t, Opens)
  BY DEF StrictShape
<1>2. t[k + 2][1] \in Objects
  BY <1>1 DEF Taken, ValidPayload, Objects
<1>3. t[k + 2] \notin Opens /\ t[k + 2] # FinalClose /\ t[k + 2] # ToolClose
  BY <1>2, TagsDiffer
<1>4. k + 1 \in 1..Len(t) /\ k + 1 \in 0..Len(t) /\ k + 1 # 0 /\ k + 1 > 0
      /\ k + 3 \in 0..Len(t) /\ k + 3 # 0 /\ k + 3 > k + 1
  BY <1>1
<1>5. \A j \in 1..Len(t) : j < k + 1 => t[j] \notin Opens
  BY <1>1, <1>4 DEF AtMostOne
<1>6. FoundAt(t, Opens, 0, k + 1)
  BY <1>1, <1>4, <1>5 DEF FoundAt
<1>7. FoundAt(t, {t[k + 1]}, 0, k + 1)
  BY <1>1, <1>4, <1>5 DEF FoundAt
<1>8. \A j \in 1..Len(t) : j > k + 1 /\ j < k + 3 => j = k + 2
  BY <1>1
<1>9. t[k + 2] # CloseOf(t[k + 1])
  BY <1>3 DEF CloseOf
<1>10. FoundAt(t, {CloseOf(t[k + 1])}, k + 1, k + 3)
  BY <1>1, <1>4, <1>8, <1>9 DEF FoundAt
<1> QED
  BY <1>3, <1>4, <1>6, <1>7, <1>10

\* The body of that block is the payload.
LEMMA StrictBody ==
  ASSUME NEW A, NEW t \in Seq(A), NEW k, StrictShape(t, k)
  PROVE  /\ FirstTag(t) = t[k + 1] /\ Holds(t, t[k + 1])
         /\ Len(Body(t, t[k + 1])) = 1 /\ Body(t, t[k + 1])[1] = t[k + 2]
<1>1. /\ FoundAt(t, Opens, 0, k + 1) /\ FoundAt(t, {t[k + 1]}, 0, k + 1)
      /\ FoundAt(t, {CloseOf(t[k + 1])}, k + 1, k + 3) /\ k + 1 \in 1..Len(t)
  BY StrictBlock
<1>2. k \in Nat /\ Len(t) = k + 3
  BY DEF StrictShape
<1>3. Find(t, Opens, 0) = k + 1
  BY <1>1, <1>2, FindIs, FoundOnce
<1>4. FirstTag(t) = t[k + 1]
  BY <1>2, <1>3 DEF FirstTag
<1>5. Holds(t, t[k + 1])
  BY <1>1 DEF Holds
<1> DEFINE b == Body(t, t[k + 1])
<1>6. IsPart(b, t, k + 1, (IF k + 3 = 0 THEN Len(t) - (k + 1) ELSE (k + 3) - (k + 1) - 1), A)
  BY <1>1, BodyIs
<1> HIDE DEF b
<1>7. (IF k + 3 = 0 THEN Len(t) - (k + 1) ELSE (k + 3) - (k + 1) - 1) = 1
  BY <1>2
<1>8. Len(b) = 1 /\ b[1] = t[(k + 1) + 1]
  BY <1>6, <1>7 DEF IsPart
<1>9. (k + 1) + 1 = k + 2
  BY <1>2
<1> QED
  BY <1>4, <1>5, <1>8, <1>9 DEF b

\* A level of the funnel holds what has a valid object first in its block.
LEMMA FirstBlockRepairs ==
  ASSUME NEW t, NEW open \in Opens, Holds(t, open), Decodes(Body(t, open)),
         ValidPayload(open, Body(t, open)[1])
  PROVE  <<open, "extract_first_block">> \in RepairLevels(t)
<1>1. Repairs(t, open, "extract_first_block")
  BY DEF Repairs
<1> DEFINE levels == {"auto_close", "extract_first_block", "coerce_types"}
<1>2. <<open, "extract_first_block">> \in Opens \X levels
  OBVIOUS
<1>3. RepairLevels(t) = {r \in Opens \X levels : Repairs(t, r[1], r[2])}
  BY DEF RepairLevels
<1> QED
  BY <1>1, <1>2, <1>3

LEMMA StrictRepairs ==
  ASSUME NEW A, NEW t \in Seq(A), ParseAction(t, {}).action # NoValue,
         ~(ParseAction(t, {}).action = "tool_call" /\ FirstTag(t) = FinalOpen)
  PROVE  <<FirstTag(t), "extract_first_block">> \in RepairLevels(t)
<1> DEFINE k == ThinkEnd(t)
<1>1. StrictShape(t, k) /\ ParseAction(t, {}) = ReadAs(t[k + 1], t[k + 2])
  BY StrictIs
<1> HIDE DEF k
<1> PICK open : open = t[k + 1]
  OBVIOUS
<1>2. open \in Opens /\ ValidPayload(open, t[k + 2])
  <2>1. open \in Opens /\ Taken(open, t[k + 2])
    BY <1>1 DEF StrictShape
  <2>2. FirstTag(t) = open
    BY <1>1, StrictBody
  <2>3. ASSUME open = FinalOpen, t[k + 2][1] = "wrapped" PROVE FALSE
    <3>1. ParseAction(t, {}).action = "tool_call"
      BY <1>1, <2>3 DEF ReadAs, Read
    <3> QED
      BY <2>2, <2>3, <3>1
  <2> QED
    BY <2>1, <2>3 DEF Taken
<1> PICK b : b = Body(t, open)
  OBVIOUS
<1>3. FirstTag(t) = open /\ Holds(t, open) /\ Len(b) = 1 /\ b[1] = t[k + 2]
  BY <1>1, StrictBody
<1>4. ValidPayload(open, b[1])
  BY <1>2, <1>3
<1>5. Decodes(b)
  <2>1. b[1][1] \in Objects
    BY <1>4 DEF ValidPayload, Objects
  <2>2. b # << >>
    BY <1>3
  <2> QED
    BY <2>1, <2>2 DEF Decodes
<1> QED
  BY <1>2, <1>3, <1>4, <1>5, FirstBlockRepairs

LEMMA ClassRepairs ==
  ASSUME NEW A, NEW t \in Seq(A),
         TurnClass(t) \in {"closed_payload_valid", "unclosed_payload_valid"}
  PROVE  <<FirstTag(t), "extract_first_block">> \in RepairLevels(t)
<1> DEFINE open == FirstTag(t)
           body == Body(t, open)
           closed == Closed(t, open)
           valid == ValidPayload(open, body[1])
           at == Find(t, Opens, 0)
<1>1. TurnClass(t) =
        IF ParseAction(t, {}).action # NoValue THEN "executed"
        ELSE IF open = NoValue THEN "no_action"
        ELSE IF ~Decodes(body)
          THEN IF closed THEN "closed_payload_not_json"
               ELSE IF body # << >> /\ body[1][1] = "cut" THEN "unclosed_truncated"
               ELSE "mentioned_in_prose"
        ELSE IF Len(body) > 1
          THEN IF closed THEN "closed_trailing_content" ELSE "unclosed_trailing_content"
        ELSE IF closed
          THEN IF valid THEN "closed_payload_valid" ELSE "closed_payload_invalid"
        ELSE IF valid THEN "unclosed_payload_valid" ELSE "unclosed_payload_invalid"
  BY DEF TurnClass
<1>2. open = IF at = 0 THEN NoValue ELSE t[at]
  BY DEF FirstTag
<1>3. FoundAt(t, Opens, 0, at)
  BY FindIs
<1> HIDE DEF open, body, closed, valid, at
<1>4. open # NoValue /\ Decodes(body) /\ valid
  BY <1>1
<1>5. at \in 1..Len(t) /\ open = t[at] /\ t[at] \in Opens
  BY <1>2, <1>3, <1>4 DEF FoundAt
<1>6. Holds(t, open)
  BY <1>5 DEF Holds
<1> QED
  BY <1>4, <1>5, <1>6, FirstBlockRepairs DEF open, body, valid
\* What an envelope holds that is read without the scalar rule.
LEMMA EnvelopeRead ==
  ASSUME NEW A, NEW t, NEW x \in Seq(A), x # << >>, Readable(t, x), NEW rules,
         NEW k, k = ThinkEnd(x), Payload(x, rules).action # NoValue
  PROVE  /\ k \in Nat /\ Len(x) = k + 3 /\ x[k + 1] \in Opens
         /\ x[k + 3] = CloseOf(x[k + 1])
         /\ \/ Taken(x[k + 1], x[k + 2]) /\ Payload(x, rules) = ReadAs(x[k + 1], x[k + 2])
            \/ /\ x[k + 2][1] \in Scalars /\ x[k + 1] = FinalOpen /\ "bare_final_scalar" \in rules
               /\ Payload(x, rules) = Read("final", Dumped(x[k + 2][2]))
<1>1. /\ k \in Nat /\ k + 2 <= Len(x) /\ x[k + 1] \in Opens
      /\ x[Len(x)] = CloseOf(x[k + 1])
  BY ReadableText
<1> DEFINE body == SubSeq(x, k + 2, Len(x) - 1)
<1>2. Len(body) = Len(x) - k - 2 /\ \A j \in 1..Len(x) - k - 2 : body[j] = x[k + 1 + j]
  <2>1. k \in 0..Len(x) + 1
    BY ThinkEndType
  <2> QED
    BY <1>1, <2>1, OneToken
<1>3. Payload(x, rules) = ParsePayload(x[k + 1], body, rules)
  BY DEF Payload
<1> HIDE DEF body
<1>4. /\ Len(body) = 1
      /\ \/ /\ body[1][1] \in Scalars /\ x[k + 1] = FinalOpen /\ "bare_final_scalar" \in rules
            /\ Payload(x, rules) = Read("final", Dumped(body[1][2]))
         \/ Taken(x[k + 1], body[1])
  BY <1>1, <1>3, PayloadIs
<1>5. Len(x) = k + 3 /\ body[1] = x[k + 2]
  <2>1. Len(x) \in Nat
    OBVIOUS
  <2>2. Len(x) = k + 3
    <3>1. Len(x) - k - 2 = 1 /\ k \in Nat
      BY <1>1, <1>2, <1>4
    <3> QED
      BY <2>1, <3>1
  <2>3. 1 \in 1..Len(x) - k - 2 /\ k + 1 + 1 = k + 2
    BY <1>1, <2>2
  <2> QED
    BY <1>2, <2>2, <2>3
<1>6. Taken(x[k + 1], body[1]) => Payload(x, rules) = ReadAs(x[k + 1], body[1])
  BY <1>1, <1>3, <1>4, PayloadIs
<1>7. \/ Taken(x[k + 1], x[k + 2]) /\ Payload(x, rules) = ReadAs(x[k + 1], x[k + 2])
      \/ /\ x[k + 2][1] \in Scalars /\ x[k + 1] = FinalOpen /\ "bare_final_scalar" \in rules
         /\ Payload(x, rules) = Read("final", Dumped(x[k + 2][2]))
  BY <1>4, <1>5, <1>6
<1> QED
  BY <1>1, <1>5, <1>7

LEMMA ReadsSomething ==
  ASSUME NEW open, NEW piece
  PROVE  ReadAs(open, piece).action # NoValue
BY ReaderAssumption DEF ReadAs, Read

\* A reading of the text as it stands, but for the scalar rule, is the strict one.
LEMMA ReadUnchanged ==
  ASSUME NEW A, NEW t \in Seq(A), NEW rules, "bare_final_scalar" \notin rules,
         TextOf(t, rules) = t, ParseAction(t, rules).action # NoValue
  PROVE  ParseAction(t, {}).action # NoValue
<1> PICK k : k = ThinkEnd(t)
  OBVIOUS
<1>1. Readable(t, t) /\ ParseAction(t, rules) = Payload(t, rules)
  BY ParseIs
<1>2. /\ k \in Nat /\ Len(t) = k + 3 /\ t[k + 1] \in Opens
      /\ t[k + 3] = CloseOf(t[k + 1]) /\ Taken(t[k + 1], t[k + 2])
  <2>1. t # << >> /\ Payload(t, rules).action # NoValue
    BY <1>1 DEF Readable
  <2> QED
    BY <1>1, <2>1, EnvelopeRead
<1>3. StrictShape(t, k)
  BY <1>1, <1>2 DEF StrictShape, Readable
<1>4. ParseAction(t, {}) = ReadAs(t[k + 1], t[k + 2])
  BY <1>3, ShapeRead
<1> QED
  BY <1>4, ReadsSomething
\* x is the first a tokens of t, then e, then t from c on.
IsSplice(x, t, a, e, c, A) ==
  /\ x \in Seq(A) /\ a \in 0..Len(t) /\ c \in 1..Len(t) + 1
  /\ Len(x) = a + 1 + (Len(t) - c + 1)
  /\ \A j \in 1..a : x[j] = t[j]
  /\ x[a + 1] = e
  /\ \A j \in 1..Len(t) - c + 1 : x[a + 1 + j] = t[c - 1 + j]

LEMMA SpliceIs ==
  ASSUME NEW A, NEW t \in Seq(A), NEW a \in 0..Len(t), NEW c \in 1..Len(t) + 1, NEW e \in A
  PROVE  IsSplice(SubSeq(t, 1, a) \o <<e>> \o From(t, c), t, a, e, c, A)
<1> DEFINE n == Len(t)
           p == SubSeq(t, 1, a)
           m == n - c + 1
           r == From(t, c)
           pe == p \o <<e>>
           x == pe \o r
<1>1. n \in Nat /\ a \in Nat /\ m \in Nat /\ c \in Nat
  OBVIOUS
<1>2. p \in Seq(A) /\ Len(p) = a /\ \A j \in 1..a : p[j] = t[j]
  <2>1. IsPart(SubSeq(t, 0 + 1, a), t, 0, a - 0, A)
    BY PartIs
  <2>2. 0 + 1 = 1 /\ a - 0 = a /\ \A j \in 1..a : 0 + j = j
    BY <1>1
  <2> QED
    BY <2>1, <2>2 DEF IsPart
<1>3. r \in Seq(A) /\ Len(r) = m /\ \A j \in 1..m : r[j] = t[c - 1 + j]
  <2> DEFINE d == c - 1
  <2>1. d \in 0..n /\ d + 1 = c /\ n - d = m /\ n \in d..n
    BY <1>1
  <2> HIDE DEF d
  <2>2. IsPart(SubSeq(t, d + 1, n), t, d, n - d, A)
    BY <2>1, PartIs
  <2>3. r \in Seq(A) /\ Len(r) = m /\ \A j \in 1..m : r[j] = t[d + j]
    BY <2>1, <2>2 DEF IsPart, From
  <2> QED
    BY <2>3 DEF d
<1> HIDE DEF p, r
<1>4. /\ <<e>> \in Seq(A) /\ Len(<<e>>) = 1 /\ <<e>>[1] = e
  OBVIOUS
<1>5. /\ pe \in Seq(A) /\ Len(pe) = a + 1
      /\ \A j \in 1..a + 1 : pe[j] = IF j <= a THEN p[j] ELSE <<e>>[j - a]
  BY <1>2, <1>4, ConcatProperties
<1> HIDE DEF pe
<1>6. pe[a + 1] = e /\ \A j \in 1..a : pe[j] = t[j]
  <2>1. a + 1 \in 1..a + 1 /\ ~(a + 1 <= a) /\ (a + 1) - a = 1
    BY <1>1
  <2>2. \A j \in 1..a : j \in 1..a + 1 /\ j <= a
    BY <1>1
  <2> QED
    BY <1>2, <1>4, <1>5, <2>1, <2>2
<1>7. /\ x \in Seq(A) /\ Len(x) = a + 1 + m
      /\ \A j \in 1..a + 1 + m : x[j] = IF j <= a + 1 THEN pe[j] ELSE r[j - (a + 1)]
  <2>1. /\ x \in Seq(A) /\ Len(x) = Len(pe) + Len(r)
        /\ \A j \in 1..Len(pe) + Len(r) : x[j] = IF j <= Len(pe) THEN pe[j] ELSE r[j - Len(pe)]
    <3>1. pe \in Seq(A) /\ r \in Seq(A)
      BY <1>3, <1>5
    <3> HIDE DEF m
    <3> QED
      BY <3>1, ConcatProperties
  <2>2. Len(pe) = a + 1 /\ Len(r) = m
    BY <1>3, <1>5
  <2> HIDE DEF x
  <2> QED
    BY <2>1, <2>2
<1>8. \A j \in 1..a : x[j] = t[j]
  <2>1. \A j \in 1..a : j \in 1..a + 1 + m /\ j <= a + 1
    BY <1>1
  <2> QED
    BY <1>6, <1>7, <2>1
<1>9. x[a + 1] = e
  <2>1. a + 1 \in 1..a + 1 + m /\ a + 1 <= a + 1
    BY <1>1
  <2> QED
    BY <1>6, <1>7, <2>1
<1>10. \A j \in 1..m : x[a + 1 + j] = t[c - 1 + j]
  <2>1. \A j \in 1..m : /\ a + 1 + j \in 1..a + 1 + m /\ ~(a + 1 + j <= a + 1)
                        /\ (a + 1 + j) - (a + 1) = j
    BY <1>1
  <2> QED
    BY <1>3, <1>7, <2>1
<1>11. x = SubSeq(t, 1, a) \o <<e>> \o From(t, c)
  BY DEF pe, p, r
<1> HIDE DEF x
<1>12. IsSplice(x, t, a, e, c, A)
  BY <1>7, <1>8, <1>9, <1>10 DEF IsSplice
<1> QED
  BY <1>11, <1>12

\* The thought that the tolerance closes, right before the tag at at.
Closable(t, at) ==
  /\ at \in 2..Len(t) /\ t[1] = ThinkOpen /\ FoundAt(t, Opens, 0, at)
  /\ \A i \in 1..Len(t) : t[i] # ThinkClose
  /\ \A i \in 2..at - 1 : t[i][1] \in Pieces

LEMMA ClosedThink ==
  ASSUME NEW A, NEW t \in Seq(A), CloseUnclosedThink(t) # t
  PROVE  \E at : /\ Closable(t, at) /\ Find(t, Opens, 0) = at
                 /\ CloseUnclosedThink(t) = SubSeq(t, 1, at - 1) \o <<ThinkClose>> \o From(t, at)
<1> DEFINE at == Find(t, Opens, 0)
           plain == \A i \in 2..(at - 1) : t[i][1] \in Pieces \ {"lt"}
<1>1. FoundAt(t, Opens, 0, at)
  BY FindIs
<1>2. CloseUnclosedThink(t) =
        IF /\ Occurrences(t, {ThinkOpen}) = 1
           /\ ~Holds(t, ThinkClose) /\ Head(t) = ThinkOpen
           /\ at # 0 /\ plain
        THEN SubSeq(t, 1, at - 1) \o <<ThinkClose>> \o From(t, at)
        ELSE t
  BY DEF CloseUnclosedThink
<1> HIDE DEF at
<1>3. /\ Occurrences(t, {ThinkOpen}) = 1
      /\ ~Holds(t, ThinkClose) /\ Head(t) = ThinkOpen
      /\ at # 0 /\ plain
  BY <1>2
<1>4. Len(t) \in Nat /\ DOMAIN t = 1..Len(t)
  OBVIOUS
<1>5. at \in 1..Len(t) /\ t[at] \in Opens
  BY <1>1, <1>3, <1>4 DEF FoundAt
<1>6. t[1] = ThinkOpen
  <2>1. t # << >> /\ Head(t) = t[1]
    BY <1>4, <1>5
  <2> QED
    BY <1>3, <2>1
<1>7. at # 1
  BY <1>5, <1>6, TagsDiffer
<1>8. \A i \in 1..Len(t) : t[i] # ThinkClose
  BY <1>3, <1>4 DEF Holds
<1>9. at \in 2..Len(t)
  BY <1>4, <1>5, <1>7
<1>10. Closable(t, at)
  BY <1>1, <1>3, <1>6, <1>8, <1>9 DEF Closable
<1>11. CloseUnclosedThink(t) = SubSeq(t, 1, at - 1) \o <<ThinkClose>> \o From(t, at)
  BY <1>2, <1>3
<1> QED
  BY <1>10, <1>11 DEF at
\* The text x with its thought closed before the tag at at.
ClosedAt(t, x, at, A) ==
  /\ Closable(t, at) /\ Find(t, Opens, 0) = at
  /\ x \in Seq(A \cup {ThinkClose}) /\ Len(x) = Len(t) + 1 /\ x # << >>
  /\ \A j \in 1..Len(t) - at + 1 : x[at + j] = t[at - 1 + j]
  /\ ThinkEnd(x) = at

LEMMA ClosedText ==
  ASSUME NEW A, NEW t \in Seq(A), CloseUnclosedThink(t) # t
  PROVE  \E at : ClosedAt(t, CloseUnclosedThink(t), at, A)
<1> DEFINE x == CloseUnclosedThink(t)
<1>3. PICK at : /\ Closable(t, at) /\ Find(t, Opens, 0) = at
                /\ x = SubSeq(t, 1, at - 1) \o <<ThinkClose>> \o From(t, at)
  BY ClosedThink
<1> HIDE DEF x
<1> DEFINE B == A \cup {ThinkClose}
           n == Len(t)
<1>5. /\ at \in 2..n /\ t[1] = ThinkOpen /\ FoundAt(t, Opens, 0, at)
      /\ \A i \in 1..n : t[i] # ThinkClose
      /\ \A i \in 2..at - 1 : t[i][1] \in Pieces
      /\ n \in Nat
  BY <1>3 DEF Closable
<1>6. IsSplice(x, t, at - 1, ThinkClose, at, B)
  <2> DEFINE a == at - 1
  <2>1. t \in Seq(B) /\ ThinkClose \in B
    <3>1. A \subseteq B
      OBVIOUS
    <3> QED
      BY <3>1
  <2>2. a \in 0..Len(t) /\ at \in 1..Len(t) + 1
    BY <1>5
  <2>3. x = SubSeq(t, 1, a) \o <<ThinkClose>> \o From(t, at)
    BY <1>3
  <2> HIDE DEF a, B
  <2>4. IsSplice(x, t, a, ThinkClose, at, B)
    BY <2>1, <2>2, <2>3, SpliceIs
  <2> QED
    BY <2>4 DEF a
<1>7. x \in Seq(B) /\ Len(x) = n + 1 /\ x[at] = ThinkClose /\ x # << >>
  <2>1. (at - 1) + 1 = at /\ (at - 1) + 1 + (n - at + 1) = n + 1
    BY <1>5
  <2>2. x \in Seq(B) /\ Len(x) = n + 1 /\ x[at] = ThinkClose
    BY <1>6, <2>1 DEF IsSplice
  <2> QED
    BY <1>5, <2>2
<1>8. \A j \in 1..at - 1 : x[j] = t[j]
  BY <1>6 DEF IsSplice
<1>9. \A j \in 1..n - at + 1 : x[at + j] = t[at - 1 + j]
  <2>1. (at - 1) + 1 = at
    BY <1>5
  <2> QED
    BY <1>6, <2>1 DEF IsSplice
<1> HIDE DEF B
<1>10. ThinkEnd(x) = at
  <2>1. x[1] = ThinkOpen /\ at \in 2..Len(x)
    BY <1>5, <1>7, <1>8
  <2>2. ASSUME NEW j \in 2..Len(x), j < at PROVE x[j] \notin {ThinkOpen, ThinkClose}
    <3>1. j \in 1..at - 1 /\ j \in 2..at - 1
      BY <1>5, <2>2
    <3>2. x[j][1] \in Pieces
      BY <1>5, <1>8, <3>1
    <3> QED
      BY <3>2 DEF Pieces, Objects, Scalars, ThinkOpen, ThinkClose, Tag
  <2>3. EndsThink(x, at)
    BY <1>7, <2>1, <2>2 DEF EndsThink
  <2> QED
    BY <1>7, <2>3, ThinkEndIs, EndsOnce
<1>11. ClosedAt(t, x, at, A)
  BY <1>3, <1>7, <1>9, <1>10 DEF ClosedAt, B
<1> QED
  BY <1>11 DEF x

\* What the closed thought reads, the text from the tag on reads alone.
LEMMA ForecastThink ==
  ASSUME NEW A, NEW t \in Seq(A), ParseAction(t, {"unclosed_think"}).action # NoValue,
         ParseAction(t, {}).action = NoValue
  PROVE  Forecast("unclosed_think", t) = ParseAction(t, {"unclosed_think"})
<1> DEFINE rules == {"unclosed_think"}
           x == TextOf(t, rules)
           B == A \cup {ThinkClose}
           n == Len(t)
<1>1. "bare_final_scalar" \notin rules /\ x = CloseUnclosedThink(t)
  BY DEF TextOf
<1>2. x # t
  BY <1>1, ReadUnchanged
<1>3. PICK at : ClosedAt(t, x, at, A)
  BY <1>1, <1>2, ClosedText
<1>4. Readable(t, x) /\ ParseAction(t, rules) = Payload(x, rules)
  BY ParseIs
<1> HIDE DEF x
<1>5. /\ at \in 2..n /\ t[1] = ThinkOpen /\ FoundAt(t, Opens, 0, at)
      /\ \A i \in 1..n : t[i] # ThinkClose
      /\ Find(t, Opens, 0) = at /\ n \in Nat
  BY <1>3 DEF ClosedAt, Closable
<1>7. x \in Seq(B) /\ Len(x) = n + 1 /\ x # << >>
  BY <1>3 DEF ClosedAt
<1>9. \A j \in 1..n - at + 1 : x[at + j] = t[at - 1 + j]
  BY <1>3 DEF ClosedAt
<1> HIDE DEF B
<1>10. ThinkEnd(x) = at
  BY <1>3 DEF ClosedAt
<1>11. /\ Len(x) = at + 3 /\ x[at + 1] \in Opens /\ x[at + 3] = CloseOf(x[at + 1])
       /\ Taken(x[at + 1], x[at + 2])
       /\ Payload(x, rules) = ReadAs(x[at + 1], x[at + 2])
  <2>1. Payload(x, rules).action # NoValue
    BY <1>4
  <2> HIDE DEF rules
  <2> QED
    BY <1>1, <1>4, <1>7, <1>10, <2>1, EnvelopeRead
<1> DEFINE y == From(t, at)
<1>12. Forecast("unclosed_think", t) = ParseAction(y, {})
  <2>1. t # << >> /\ Head(t) = ThinkOpen /\ ~Holds(t, ThinkClose) /\ at # 0
    BY <1>5 DEF Holds
  <2>2. RuleA(t) = y
    BY <1>5, <2>1 DEF RuleA
  <2> QED
    BY <2>2 DEF Forecast
<1>13. n = at + 2 /\ n - at + 1 = 3
  BY <1>5, <1>7, <1>11
<1>14. y \in Seq(A) /\ Len(y) = 3 /\ \A j \in 1..3 : y[j] = t[at - 1 + j]
  <2> DEFINE d == at - 1
  <2>1. d \in 0..n /\ d + 1 = at /\ n - d = 3 /\ n \in d..n
    BY <1>5, <1>13
  <2> HIDE DEF d
  <2>2. IsPart(SubSeq(t, d + 1, n), t, d, n - d, A)
    BY <2>1, PartIs
  <2>3. y \in Seq(A) /\ Len(y) = 3 /\ \A j \in 1..3 : y[j] = t[d + j]
    BY <2>1, <2>2 DEF IsPart, From
  <2> QED
    BY <2>3 DEF d
<1> HIDE DEF y
<1>15. y[1] = x[at + 1] /\ y[2] = x[at + 2] /\ y[3] = x[at + 3]
  BY <1>9, <1>13, <1>14
<1>16. y # << >> /\ Len(y) = 0 + 3
  <2>1. Len(y) = 3
    BY <1>14
  <2>2. y # << >>
    BY <2>1
  <2> QED
    BY <2>1, <2>2
<1>17. ThinkEnd(y) = 0
  <2>1. y[1] # ThinkOpen
    BY <1>11, <1>15, TagsDiffer
  <2>2. EndsThink(y, 0)
    BY <2>1 DEF EndsThink
  <2> QED
    BY <1>14, <1>16, <2>2, ThinkEndIs, EndsOnce
<1>18. \A j \in 1..3 : at - 1 + j \in 1..n
  BY <1>5, <1>13
<1>19. AtMostOne(t, Opens) /\ ~HoldsKind(t, "huge")
  BY <1>4 DEF Readable
<1>20. AtMostOne(y, Opens)
  <2>1. ASSUME NEW i \in 1..3, NEW j \in 1..3, y[i] \in Opens, y[j] \in Opens
        PROVE  i = j
    <3>1. at - 1 + i = at - 1 + j
      BY <1>14, <1>18, <1>19, <2>1 DEF AtMostOne
    <3> QED
      BY <1>5, <3>1
  <2> QED
    BY <1>14, <2>1 DEF AtMostOne
<1>21. ~HoldsKind(y, "huge")
  <2>1. DOMAIN y = 1..3 /\ DOMAIN t = 1..n
    BY <1>14
  <2> QED
    BY <1>14, <1>18, <1>19, <2>1 DEF HoldsKind
<1>22. ~HoldsKind(SubSeq(y, 1, 0), "long")
  <2>1. SubSeq(y, 1, 0) = << >>
    BY <1>14
  <2> QED
    BY <2>1 DEF HoldsKind
<1>23. StrictShape(y, 0)
  <2>1. 0 + 1 = 1 /\ 0 + 2 = 2 /\ 0 + 3 = 3 /\ 0 \in Nat
    OBVIOUS
  <2>2. y[1] \in Opens /\ y[3] = CloseOf(y[1]) /\ Taken(y[1], y[2])
    BY <1>11, <1>15
  <2> QED
    BY <1>16, <1>17, <1>20, <1>21, <1>22, <2>1, <2>2 DEF StrictShape
<1>24. ParseAction(y, {}) = ReadAs(y[1], y[2])
  <2>1. ParseAction(y, {}) = ReadAs(y[0 + 1], y[0 + 2])
    BY <1>14, <1>23, ShapeRead
  <2> QED
    BY <2>1
<1> QED
  BY <1>4, <1>11, <1>12, <1>15, <1>24
LEMMA NotEmpty ==
  ASSUME NEW s, Len(s) = 1
  PROVE  s # << >>
OBVIOUS

\* The pairs of a final tag and a later closing one with a bare body between.
BarePairs(t) ==
  {p \in (DOMAIN t) \X (DOMAIN t) :
     /\ p[1] < p[2] /\ t[p[1]] = FinalOpen /\ t[p[2]] = FinalClose
     /\ Bare(SubSeq(t, p[1] + 1, p[2] - 1))}

LEMMA OneBarePair ==
  ASSUME NEW A, NEW t \in Seq(A), NEW k \in Nat, Len(t) = k + 3, AtMostOne(t, Opens),
         t[k + 1] = FinalOpen, t[k + 2][1] = "scalar", t[k + 3] = FinalClose
  PROVE  RuleB(t) = SubSeq(t, 1, k + 1) \o << <<"answer", t[k + 2][2]>> >> \o From(t, k + 3)
<1> DEFINE at == BarePairs(t)
           first == CHOOSE p \in at : \A q \in at : p[1] <= q[1]
           value == IF first[2] = first[1] + 2 THEN t[first[1] + 1][2] ELSE NoValue
           a == k + 1
           c == k + 3
           pair == <<a, c>>
<1>1. DOMAIN t = 1..Len(t) /\ a \in 1..Len(t) /\ c \in 1..Len(t) /\ a < c
      /\ a + 1 = k + 2 /\ c - 1 = k + 2 /\ c = a + 2
  OBVIOUS
<1>2. FinalOpen \in Opens /\ t[k + 2] # FinalClose /\ t[a] = FinalOpen /\ t[c] = FinalClose
      /\ FinalOpen # FinalClose
  BY TagsDiffer DEF Scalars
<1>3. Bare(SubSeq(t, a + 1, c - 1))
  <2> DEFINE q == SubSeq(t, a + 1, c - 1)
             z == c - 1
  <2>1. z \in a..Len(t) /\ a \in 0..Len(t) /\ z - a = 1
    BY <1>1
  <2>2. IsPart(SubSeq(t, a + 1, z), t, a, z - a, A)
    <3> HIDE DEF z, a
    <3> QED
      BY <2>1, PartIs
  <2>3. q = SubSeq(t, a + 1, z)
    OBVIOUS
  <2> HIDE DEF q
  <2>4. Len(q) = 1 /\ q \in Seq(A) /\ q[1] = t[a + 1]
    BY <2>1, <2>2, <2>3 DEF IsPart
  <2>5. DOMAIN q = {1} /\ q # << >> /\ q[1][1] = "scalar"
    <3>1. q[1] = t[k + 2]
      BY <1>1, <2>4
    <3>2. DOMAIN q = 1..1 /\ 1..1 = {1}
      BY <2>4
    <3>3. q # << >>
      <4>1. Len(q) = 1
        BY <2>4
      <4> QED
        BY <4>1, NotEmpty
    <3> QED
      BY <3>1, <3>2, <3>3
  <2>6. Bare(q)
    BY <2>5 DEF Bare
  <2> QED
    BY <2>6 DEF q
<1>4. pair \in at
  BY <1>1, <1>2, <1>3 DEF BarePairs
<1>5. ASSUME NEW p \in at PROVE p = pair
  <2>1. /\ p \in (DOMAIN t) \X (DOMAIN t)
        /\ p[1] < p[2] /\ t[p[1]] = FinalOpen /\ t[p[2]] = FinalClose
    BY <1>5 DEF BarePairs
  <2>2. p = <<p[1], p[2]>> /\ p[1] \in 1..Len(t) /\ p[2] \in 1..Len(t)
    BY <1>1, <2>1
  <2>3. p[1] = a
    BY <1>1, <1>2, <2>1, <2>2 DEF AtMostOne
  <2>4. p[2] > a /\ p[2] # k + 2
    BY <1>2, <2>1, <2>3
  <2>5. p[2] = c
    BY <1>1, <2>2, <2>4
  <2> QED
    BY <2>2, <2>3, <2>5
<1> HIDE DEF at
<1>6. first = pair
  <2>1. \A q \in at : pair[1] <= q[1]
    <3>1. pair[1] <= pair[1]
      BY <1>1
    <3> HIDE DEF pair
    <3> QED
      BY <1>5, <3>1
  <2>2. \E p \in at : \A q \in at : p[1] <= q[1]
    BY <1>4, <2>1
  <2>3. first \in at
    BY <2>2
  <2> HIDE DEF first, pair
  <2> QED
    BY <1>5, <2>3
<1>7. RuleB(t) = IF at = {} THEN t
                 ELSE SubSeq(t, 1, first[1]) \o << <<"answer", value>> >> \o From(t, first[2])
  BY DEF RuleB, at, BarePairs
<1>8. first[1] = a /\ first[2] = c
  <2>1. pair[1] = a /\ pair[2] = c
    OBVIOUS
  <2> HIDE DEF first, pair
  <2> QED
    BY <1>6, <2>1
<1> HIDE DEF first
<1>9. value = t[a + 1][2]
  BY <1>1, <1>8
<1> HIDE DEF value
<1>10. RuleB(t) = SubSeq(t, 1, a) \o << <<"answer", t[a + 1][2]>> >> \o From(t, c)
  BY <1>4, <1>7, <1>8, <1>9
<1> QED
  BY <1>1, <1>10

\* The thought of a text ends where it ends in one with the same beginning.
LEMMA SameThought ==
  ASSUME NEW t, NEW y, NEW k, EndsThink(t, k), k \in Nat, k < Len(t), k <= Len(y),
         Len(t) \in Nat, Len(y) \in Nat, \A j \in 1..k + 1 : y[j] = t[j]
  PROVE  EndsThink(y, k)
<1>1. y[1] = t[1]
  BY 1 \in 1..k + 1
<1>2. CASE t[1] # ThinkOpen
  BY <1>1, <1>2 DEF EndsThink
<1>3. CASE t[1] = ThinkOpen
  <2>1. /\ k \in 2..Len(t) /\ t[k] = ThinkClose
        /\ \A j \in 2..Len(t) : j < k => t[j] \notin {ThinkOpen, ThinkClose}
    BY <1>3 DEF EndsThink
  <2>2. k \in 2..Len(y) /\ y[k] = ThinkClose
    BY <2>1
  <2>3. ASSUME NEW j \in 2..Len(y), j < k PROVE y[j] \notin {ThinkOpen, ThinkClose}
    <3>1. j \in 2..Len(t) /\ y[j] = t[j]
      BY <2>3
    <3> QED
      BY <2>1, <2>3, <3>1
  <2> QED
    BY <1>1, <1>3, <2>2, <2>3 DEF EndsThink
<1> QED
  BY <1>2, <1>3
\* What the scalar rule reads, the text with the scalar as an answer reads.
LEMMA ForecastScalar ==
  ASSUME NEW A, NEW t \in Seq(A), ParseAction(t, {"bare_final_scalar"}).action # NoValue,
         ParseAction(t, {}).action = NoValue,
         \A i \in DOMAIN t : t[i][1] # "braced" /\
           (t[i][1] = "scalar" => Dumped(t[i][2]) = t[i][2])
  PROVE  Forecast("bare_final_scalar", t) = ParseAction(t, {"bare_final_scalar"})
<1> DEFINE rules == {"bare_final_scalar"}
           n == Len(t)
<1> PICK k : k = ThinkEnd(t)
  OBVIOUS
<1>1. TextOf(t, rules) = t
  BY DEF TextOf
<1>2. Readable(t, t) /\ ParseAction(t, rules) = Payload(t, rules)
  BY <1>1, ParseIs
<1>3. /\ t # << >> /\ AtMostOne(t, Opens) /\ ~HoldsKind(t, "huge")
      /\ ~HoldsKind(SubSeq(t, 1, k), "long")
  BY <1>2 DEF Readable
<1>4. /\ k \in Nat /\ Len(t) = k + 3 /\ t[k + 1] \in Opens
      /\ t[k + 3] = CloseOf(t[k + 1])
      /\ \/ Taken(t[k + 1], t[k + 2])
         \/ /\ t[k + 2][1] \in Scalars /\ t[k + 1] = FinalOpen
            /\ Payload(t, rules) = Read("final", Dumped(t[k + 2][2]))
  <2>1. Payload(t, rules).action # NoValue
    BY <1>2
  <2> HIDE DEF rules
  <2> QED
    BY <1>2, <1>3, <2>1, EnvelopeRead
<1>5. ~Taken(t[k + 1], t[k + 2])
  <2>1. ASSUME Taken(t[k + 1], t[k + 2]) PROVE FALSE
    <3>1. StrictShape(t, k)
      BY <1>3, <1>4, <2>1 DEF StrictShape
    <3>2. ParseAction(t, {}) = ReadAs(t[k + 1], t[k + 2])
      BY <3>1, ShapeRead
    <3> QED
      BY <3>2, ReadsSomething
  <2> QED
    BY <2>1
<1>6. /\ t[k + 2][1] = "scalar" /\ t[k + 1] = FinalOpen /\ t[k + 3] = FinalClose
      /\ ParseAction(t, rules) = Read("final", t[k + 2][2])
  <2>1. k + 2 \in DOMAIN t
    BY <1>4
  <2>2. t[k + 2][1] = "scalar" /\ Dumped(t[k + 2][2]) = t[k + 2][2]
    BY <1>4, <1>5, <2>1 DEF Scalars
  <2>3. /\ t[k + 1] = FinalOpen /\ t[k + 3] = FinalClose
        /\ ParseAction(t, rules) = Read("final", Dumped(t[k + 2][2]))
    BY <1>2, <1>4, <1>5, TagsDiffer
  <2> QED
    BY <2>2, <2>3
<1> DEFINE e == <<"answer", t[k + 2][2]>>
           y == RuleB(t)
           B == A \cup {e}
<1>7. y = SubSeq(t, 1, k + 1) \o <<e>> \o From(t, k + 3)
  BY <1>3, <1>4, <1>6, OneBarePair
<1>8. IsSplice(y, t, k + 1, e, k + 3, B)
  <2>1. t \in Seq(B) /\ e \in B
    <3> HIDE DEF e
    <3>1. A \subseteq B
      OBVIOUS
    <3> QED
      BY <3>1
  <2> DEFINE a == k + 1
             c == k + 3
  <2>2. a \in 0..Len(t) /\ c \in 1..Len(t) + 1
    BY <1>4
  <2>3. y = SubSeq(t, 1, a) \o <<e>> \o From(t, c)
    BY <1>7
  <2> HIDE DEF a, c, y, e, B
  <2>4. IsSplice(y, t, a, e, c, B)
    BY <2>1, <2>2, <2>3, SpliceIs
  <2> QED
    BY <2>4 DEF a, c
<1> HIDE DEF y, e, B
<1>9. /\ y \in Seq(B) /\ Len(y) = k + 3 /\ y[k + 2] = e /\ y[k + 3] = t[k + 3]
      /\ \A j \in 1..k + 1 : y[j] = t[j]
  <2>1. (k + 1) + 1 + (Len(t) - (k + 3) + 1) = k + 3 /\ (k + 1) + 1 = k + 2
        /\ Len(t) - (k + 3) + 1 = 1 /\ (k + 3) - 1 + 1 = k + 3 /\ (k + 1) + 1 + 1 = k + 3
    <3>1. Len(t) = k + 3 /\ k \in Nat
      BY <1>4
    <3> QED
      BY ONLY <3>1
  <2>2. /\ y \in Seq(B) /\ Len(y) = k + 3 /\ y[k + 2] = e
        /\ \A j \in 1..k + 1 : y[j] = t[j]
        /\ \A j \in 1..1 : y[(k + 1) + 1 + j] = t[(k + 3) - 1 + j]
    BY <1>8, <2>1 DEF IsSplice
  <2>3. y[(k + 1) + 1 + 1] = t[(k + 3) - 1 + 1]
    BY <2>2
  <2> QED
    BY <2>1, <2>2, <2>3
<1>10. e[1] = "answer" /\ e[2] = t[k + 2][2]
  BY DEF e
<1>11. e[1] \in Objects
  BY <1>10 DEF Objects
<1>12. e \notin Opens /\ Taken(FinalOpen, e)
  BY <1>10, <1>11, TagsDiffer DEF Taken, ValidPayload
<1>13. \A j \in 1..k + 3 : j \in 1..n /\ (j = k + 2 \/ y[j] = t[j])
  <2>1. \A j \in 1..k + 3 : j \in 1..k + 1 \/ j = k + 2 \/ j = k + 3
    BY <1>4
  <2> QED
    BY <1>4, <1>9, <2>1
<1>14. y # << >>
  BY <1>4, <1>9
<1>15. ThinkEnd(y) = k
  <2>1. EndsThink(t, k)
    BY <1>3, ThinkEndIs
  <2>2. k < Len(t) /\ Len(t) \in Nat /\ Len(y) \in Nat /\ k <= Len(y)
    BY <1>4, <1>9
  <2>3. EndsThink(y, k)
    BY <1>4, <1>9, <2>1, <2>2, SameThought
  <2> QED
    BY <1>9, <1>14, <2>2, <2>3, ThinkEndIs, EndsOnce
<1>16. AtMostOne(y, Opens)
  <2>1. ASSUME NEW i \in 1..Len(y), NEW j \in 1..Len(y), y[i] \in Opens, y[j] \in Opens
        PROVE  i = j
    <3>1. i \in 1..n /\ j \in 1..n /\ t[i] \in Opens /\ t[j] \in Opens
      BY <1>9, <1>12, <1>13, <2>1
    <3> QED
      BY <1>3, <3>1 DEF AtMostOne
  <2> QED
    BY <2>1 DEF AtMostOne
<1>17. ~HoldsKind(y, "huge")
  <2>1. DOMAIN y = 1..k + 3 /\ DOMAIN t = 1..n
    BY <1>9
  <2> QED
    BY <1>3, <1>9, <1>10, <1>13, <2>1 DEF HoldsKind
<1>18. ~HoldsKind(SubSeq(y, 1, k), "long")
  <2>1. IsPart(SubSeq(t, 0 + 1, k), t, 0, k - 0, A)
    BY <1>4, PartIs
  <2>2. IsPart(SubSeq(y, 0 + 1, k), y, 0, k - 0, B)
    BY <1>4, <1>9, PartIs
  <2>3. 0 + 1 = 1 /\ k - 0 = k /\ \A j \in 1..k : 0 + j = j /\ j \in 1..k + 1
    BY <1>4
  <2> DEFINE p == SubSeq(t, 1, k)
             q == SubSeq(y, 1, k)
  <2>4. p \in Seq(A) /\ Len(p) = k /\ \A j \in 1..k : p[j] = t[j]
    BY <2>1, <2>3 DEF IsPart
  <2>5. q \in Seq(B) /\ Len(q) = k /\ \A j \in 1..k : q[j] = y[j]
    BY <2>2, <2>3 DEF IsPart
  <2>6. ~HoldsKind(p, "long")
    BY <1>3
  <2> HIDE DEF p, q
  <2>7. DOMAIN p = 1..k /\ DOMAIN q = 1..k
    BY <2>4, <2>5
  <2>8. \A j \in 1..k : q[j] = p[j]
    BY <1>9, <2>3, <2>4, <2>5
  <2>9. ~HoldsKind(q, "long")
    BY <2>6, <2>7, <2>8 DEF HoldsKind
  <2> QED
    BY <2>9 DEF q
<1>19. StrictShape(y, k)
  <2>1. y[k + 1] = FinalOpen /\ y[k + 3] = CloseOf(FinalOpen) /\ FinalOpen \in Opens
    <3>1. k + 1 \in 1..k + 1
      BY <1>4
    <3> QED
      BY <1>6, <1>9, <3>1, TagsDiffer
  <2>2. Taken(y[k + 1], y[k + 2])
    BY <1>9, <1>12, <2>1
  <2> QED
    BY <1>4, <1>9, <1>14, <1>15, <1>16, <1>17, <1>18, <2>1, <2>2 DEF StrictShape
<1>20. ParseAction(y, {}) = ReadAs(y[k + 1], y[k + 2])
  BY <1>9, <1>19, ShapeRead
<1>21. y[k + 1] = FinalOpen
  <2>1. k + 1 \in 1..k + 1
    BY <1>4
  <2> QED
    BY <1>6, <1>9, <2>1
<1>22. ParseAction(y, {}) = Read("final", t[k + 2][2])
  BY <1>9, <1>10, <1>20, <1>21, TagsDiffer DEF ReadAs
<1>23. Forecast("bare_final_scalar", t) = ParseAction(y, {})
  BY DEF Forecast, y
<1> QED
  BY <1>6, <1>22, <1>23
\* One token of the search for final blocks.
SpanStep(acc, x) ==
  IF acc.open /\ x = FinalClose
    THEN [open |-> FALSE, body |-> << >>, spans |-> Append(acc.spans, acc.body)]
  ELSE IF acc.open THEN [acc EXCEPT !.body = Append(@, x)]
  ELSE [acc EXCEPT !.open = (x = FinalOpen)]
NoSpan == [open |-> FALSE, body |-> << >>, spans |-> << >>]

\* The search as a run over the text.
LEMMA SpanRun ==
  ASSUME NEW C, NEW q \in Seq(C)
  PROVE  \E r : /\ r[0] = NoSpan
                /\ \A k \in 1..Len(q) : r[k] = SpanStep(r[k - 1], q[k])
                /\ FinalSpans(q) = r[Len(q)].spans
<1> DEFINE n == Len(q)
           D == 1..n
           A == [open : BOOLEAN, body : Seq(C), spans : Seq(Seq(C))]
           base == NoSpan
           step == [p \in D \X A |-> SpanStep(p[2], q[p[1]])]
           Folded(g, s) == IF s = {} THEN base ELSE SpanStep(g[s \ {Max(s)}], q[Max(s)])
           Iter(i) == i = [s \in SUBSET D |-> Folded(i, s)]
           iter == CHOOSE i : Iter(i)
           r == [k \in 0..n |-> iter[1..k]]
<1>1. n \in Nat /\ DOMAIN q = D /\ \A k \in D : q[k] \in C
  OBVIOUS
<1>2. FinalSpans(q) = iter[D].spans
  BY <1>1, Zenon DEF FinalSpans, SpanStep, NoSpan, FoldLeft, MapThenFoldSet
<1>3. base \in A
  BY DEF NoSpan
<1>4. step \in [D \X A -> A]
  <2>1. ASSUME NEW k \in D, NEW acc \in A PROVE SpanStep(acc, q[k]) \in A
    <3> HIDE DEF n
    <3>1. q[k] \in C
      BY <1>1
    <3>2. acc.open \in BOOLEAN /\ acc.body \in Seq(C) /\ acc.spans \in Seq(Seq(C))
      OBVIOUS
    <3>3. Append(acc.body, q[k]) \in Seq(C) /\ Append(acc.spans, acc.body) \in Seq(Seq(C))
      BY <3>1, <3>2, AppendProperties
    <3>4. << >> \in Seq(C)
      OBVIOUS
    <3>5. CASE acc.open /\ q[k] = FinalClose
      BY <3>3, <3>4, <3>5 DEF SpanStep
    <3>6. CASE acc.open /\ q[k] # FinalClose
      BY <3>3, <3>6 DEF SpanStep
    <3>7. CASE ~acc.open
      BY <3>2, <3>7 DEF SpanStep
    <3> QED
      BY <3>5, <3>6, <3>7
  <2> HIDE DEF A, D
  <2> QED
    BY <2>1
<1>5. \E g : Iter(g)
  <2>1. PICK g \in [SUBSET D -> A] : IsLeftFold(g, n, base, step)
    <3> HIDE DEF step, n, A, base
    <3> QED
      BY <1>1, <1>3, <1>4, LeftFoldExists
  <2>2. ASSUME NEW s \in SUBSET D
        PROVE  g[s] = Folded(g, s)
    <3>1. s # {} => Max(s) \in D /\ s \ {Max(s)} \in SUBSET D
      BY <1>1, MaxIn
    <3> HIDE DEF A, base
    <3> QED
      BY <2>1, <3>1 DEF IsLeftFold
  <2> HIDE DEF Folded, step
  <2> QED
    BY <2>1, <2>2
<1>6. Iter(iter)
  <2> HIDE DEF Iter
  <2> QED
    BY <1>5
<1> HIDE DEF iter, step, base
<1>7. r[0] = base
  <2>1. 1..0 = {} /\ 1..0 \in SUBSET D
    OBVIOUS
  <2> QED
    BY <1>1, <1>6, <2>1
<1>8. ASSUME NEW k \in 1..n
      PROVE  r[k] = SpanStep(r[k - 1], q[k])
  <2>1. 1..k \in SUBSET D /\ 1..k # {} /\ k \in Nat \ {0} /\ k - 1 \in 0..n
    <3> HIDE DEF n
    <3> QED
      BY <1>1
  <2>2. Max(1..k) = k /\ (1..k) \ {Max(1..k)} = 1..k - 1
    BY <2>1, MaxUpTo
  <2>3. iter[1..k] = Folded(iter, 1..k)
    BY <1>6, <2>1
  <2>4. iter[1..k] = SpanStep(iter[1..k - 1], q[k])
    BY <2>1, <2>2, <2>3
  <2>5. r[k] = iter[1..k] /\ r[k - 1] = iter[1..k - 1]
    BY <2>1
  <2> QED
    BY <2>4, <2>5
<1>9. FinalSpans(q) = r[n].spans
  BY <1>1, <1>2
<1> HIDE DEF r
<1> QED
  BY <1>7, <1>8, <1>9 DEF base

\* The search of t, whose only final block begins at i and ends at c, after k
\* tokens.
SpanAt(s, t, i, c, k, A) ==
  /\ s \in [open : BOOLEAN, body : Seq(A), spans : Seq(Seq(A))]
  /\ k < i => s = NoSpan
  /\ k >= i /\ (c = 0 \/ k < c) =>
       s.open /\ s.spans = << >> /\ IsPart(s.body, t, i, k - i, A)
  /\ k >= i /\ c # 0 /\ k >= c =>
       ~s.open /\ Len(s.spans) = 1 /\ IsPart(s.spans[1], t, i, c - i - 1, A)

LEMMA SpanKeeps ==
  ASSUME NEW A, NEW t \in Seq(A), NEW i \in 1..Len(t), NEW c, NEW k \in 1..Len(t), NEW s,
         \A j \in 1..Len(t) : t[j] = FinalOpen => j = i, t[i] = FinalOpen,
         FoundAt(t, {FinalClose}, i, c), SpanAt(s, t, i, c, k - 1, A)
  PROVE  SpanAt(SpanStep(s, t[k]), t, i, c, k, A)
<1> DEFINE Z == [open : BOOLEAN, body : Seq(A), spans : Seq(Seq(A))]
           x == t[k]
           u == SpanStep(s, x)
<1>1. Len(t) \in Nat /\ k \in Nat /\ i \in Nat /\ c \in 0..Len(t) /\ x \in A
  BY DEF FoundAt
<1>2. s \in Z
  BY DEF SpanAt
<1>3. c # 0 => /\ c > i /\ t[c] = FinalClose /\ c \in 1..Len(t)
               /\ \A j \in 1..Len(t) : j > i /\ j < c => t[j] # FinalClose
  BY <1>1 DEF FoundAt
<1>4. c = 0 => \A j \in 1..Len(t) : j > i => t[j] # FinalClose
  BY DEF FoundAt
<1>5. k # i => x # FinalOpen
  OBVIOUS
<1>6. CASE k < i
  <2>1. s = NoSpan
    BY <1>1, <1>6 DEF SpanAt
  <2>2. u = NoSpan
    <3>1. (x = FinalOpen) = FALSE
      BY <1>1, <1>5, <1>6
    <3>2. u = [s EXCEPT !.open = FALSE]
      BY <2>1, <3>1 DEF SpanStep, NoSpan
    <3> QED
      BY <2>1, <3>2 DEF NoSpan
  <2> QED
    BY <1>1, <1>2, <1>6, <2>1, <2>2 DEF SpanAt
<1>7. CASE k = i
  <2>1. s = NoSpan
    BY <1>1, <1>7 DEF SpanAt
  <2>2. u = [open |-> TRUE, body |-> << >>, spans |-> << >>]
    BY <1>7, <2>1 DEF SpanStep, NoSpan
  <2>3. IsPart(<< >>, t, i, k - i, A)
    BY <1>1, <1>7 DEF IsPart
  <2>4. c = 0 \/ k < c
    BY <1>1, <1>3, <1>7
  <2>5. u \in Z
    BY <2>2
  <2> HIDE DEF u
  <2>a. SpanAt(u, t, i, c, k, A)
    BY <1>1, <1>7, <2>2, <2>3, <2>4, <2>5 DEF SpanAt
  <2> QED
    BY <2>a DEF u
<1>8. CASE k > i /\ (c = 0 \/ k < c)
  <2>1. s.open /\ s.spans = << >> /\ IsPart(s.body, t, i, k - 1 - i, A)
    <3>1. k - 1 >= i /\ (c = 0 \/ k - 1 < c)
      BY <1>1, <1>8
    <3> QED
      BY <3>1 DEF SpanAt
  <2>2. x # FinalClose
    BY <1>1, <1>3, <1>4, <1>8
  <2> DEFINE b == Append(s.body, x)
             m == k - 1 - i
  <2>3. u = [s EXCEPT !.body = b]
    BY <2>1, <2>2 DEF SpanStep
  <2>4. s.body \in Seq(A) /\ Len(s.body) = m /\ \A j \in 1..m : s.body[j] = t[i + j]
    BY <2>1 DEF IsPart
  <2>5. b \in Seq(A) /\ Len(b) = m + 1 /\ (\A j \in 1..m : b[j] = s.body[j]) /\ b[m + 1] = x
    <3> HIDE DEF m, x
    <3> QED
      BY <1>1, <2>4, AppendProperties
  <2> HIDE DEF b
  <2>6. m + 1 = k - i /\ m \in Nat /\ i + (m + 1) = k /\ i + (m + 1) <= Len(t)
    BY <1>1, <1>8
  <2>7. \A j \in 1..m + 1 : b[j] = t[i + j]
    <3>1. \A j \in 1..m + 1 : j \in 1..m \/ j = m + 1
      BY <2>6
    <3> HIDE DEF m
    <3> QED
      BY <2>4, <2>5, <2>6, <3>1
  <2>8. IsPart(b, t, i, k - i, A)
    <3>1. m + 1 \in Nat
      BY <2>6
    <3> HIDE DEF m
    <3>2. IsPart(b, t, i, m + 1, A)
      BY <1>1, <2>5, <2>6, <2>7, <3>1 DEF IsPart
    <3> QED
      BY <2>6, <3>2
  <2>9. u \in Z /\ u.body = b /\ u.open = s.open /\ u.spans = s.spans
    BY <1>2, <2>3, <2>5
  <2> HIDE DEF u
  <2>a. SpanAt(u, t, i, c, k, A)
    BY <1>1, <1>8, <2>1, <2>8, <2>9 DEF SpanAt
  <2> QED
    BY <2>a DEF u
<1>9. CASE c # 0 /\ k = c
  <2>1. s.open /\ s.spans = << >> /\ IsPart(s.body, t, i, k - 1 - i, A)
    <3>1. k - 1 >= i /\ k - 1 < c
      BY <1>1, <1>3, <1>9
    <3> QED
      BY <3>1 DEF SpanAt
  <2>2. x = FinalClose
    BY <1>3, <1>9
  <2>3. u = [open |-> FALSE, body |-> << >>, spans |-> Append(<< >>, s.body)]
    BY <2>1, <2>2 DEF SpanStep
  <2>4. s.body \in Seq(A)
    BY <2>1 DEF IsPart
  <2>5. Append(<< >>, s.body) \in Seq(Seq(A)) /\ Len(Append(<< >>, s.body)) = 1
        /\ Append(<< >>, s.body)[1] = s.body
    <3>1. << >> \in Seq(Seq(A)) /\ Len(<< >>) = 0 /\ 0 + 1 = 1
      OBVIOUS
    <3> QED
      BY <2>4, <3>1, AppendProperties
  <2>6. u \in Z /\ u.open = FALSE /\ u.spans = Append(<< >>, s.body)
    BY <2>3, <2>5
  <2>7. k - 1 - i = c - i - 1
    BY <1>1, <1>9
  <2> HIDE DEF u
  <2>a. SpanAt(u, t, i, c, k, A)
    BY <1>1, <1>3, <1>9, <2>1, <2>5, <2>6, <2>7 DEF SpanAt
  <2> QED
    BY <2>a DEF u
<1>10. CASE c # 0 /\ k > c
  <2>1. ~s.open /\ Len(s.spans) = 1 /\ IsPart(s.spans[1], t, i, c - i - 1, A)
    <3>1. k - 1 >= i /\ k - 1 >= c
      BY <1>1, <1>3, <1>10
    <3> QED
      BY <1>10, <3>1 DEF SpanAt
  <2>2. x # FinalOpen
    BY <1>1, <1>3, <1>5, <1>10
  <2>3. u = [s EXCEPT !.open = FALSE]
    BY <2>1, <2>2 DEF SpanStep
  <2>4. u \in Z /\ u.open = FALSE /\ u.spans = s.spans
    BY <1>2, <2>3
  <2> HIDE DEF u
  <2>a. SpanAt(u, t, i, c, k, A)
    BY <1>1, <1>3, <1>10, <2>1, <2>4 DEF SpanAt
  <2> QED
    BY <2>a DEF u
<1> QED
  BY <1>1, <1>3, <1>6, <1>7, <1>8, <1>9, <1>10
\* What the search finds of an only final block.
LEMMA OneSpan ==
  ASSUME NEW A, NEW t \in Seq(A), NEW i \in 1..Len(t), NEW c,
         \A j \in 1..Len(t) : t[j] = FinalOpen => j = i, t[i] = FinalOpen,
         FoundAt(t, {FinalClose}, i, c)
  PROVE  /\ c = 0 => FinalSpans(t) = << >>
         /\ c # 0 => Len(FinalSpans(t)) = 1 /\ IsPart(FinalSpans(t)[1], t, i, c - i - 1, A)
<1> PICK r : /\ r[0] = NoSpan
             /\ \A k \in 1..Len(t) : r[k] = SpanStep(r[k - 1], t[k])
             /\ FinalSpans(t) = r[Len(t)].spans
  BY SpanRun
<1> DEFINE n == Len(t)
           N == {k \in Nat : k <= n => SpanAt(r[k], t, i, c, k, A)}
<1>1. n \in Nat /\ i \in Nat /\ i > 0 /\ c \in 0..n
  BY DEF FoundAt
<1>2. 0 \in N
  <2>1. NoSpan \in [open : BOOLEAN, body : Seq(A), spans : Seq(Seq(A))]
    BY DEF NoSpan
  <2>2. SpanAt(NoSpan, t, i, c, 0, A)
    BY <1>1, <2>1 DEF SpanAt
  <2> QED
    BY <2>2
<1>3. ASSUME NEW k \in Nat, k \in N PROVE k + 1 \in N
  <2>1. CASE k + 1 <= n
    <3> DEFINE m == k + 1
    <3>1. m \in 1..n /\ m - 1 = k /\ k <= n
      BY <1>1, <2>1
    <3>2. SpanAt(r[m - 1], t, i, c, m - 1, A)
      BY <1>3, <3>1
    <3> HIDE DEF m
    <3>3. SpanAt(SpanStep(r[m - 1], t[m]), t, i, c, m, A)
      BY <3>1, <3>2, SpanKeeps
    <3>4. SpanAt(r[m], t, i, c, m, A)
      BY <3>1, <3>3
    <3> QED
      BY <3>4 DEF m
  <2>2. CASE ~(k + 1 <= n)
    BY <2>2
  <2> QED
    BY <2>1, <2>2
<1> HIDE DEF N
<1>4. Nat \subseteq N
  BY <1>2, <1>3, NatSet
<1>5. SpanAt(r[n], t, i, c, n, A)
  BY <1>1, <1>4 DEF N
<1>6. n >= i /\ (c # 0 => n >= c)
  BY <1>1
<1> QED
  BY <1>5, <1>6 DEF SpanAt

\* What the strict parser takes as an answer, the extractor takes.
LEMMA ExtractStrict ==
  ASSUME NEW A, NEW t \in Seq(A), ParseAction(t, {}).action = "final"
  PROVE  Extract(t) = Ok(ParseAction(t, {}).value)
<1> DEFINE k == ThinkEnd(t)
<1>1. StrictShape(t, k) /\ ParseAction(t, {}) = ReadAs(t[k + 1], t[k + 2])
  <2>1. ParseAction(t, {}).action # NoValue
    BY ReaderAssumption
  <2> QED
    BY <2>1, StrictIs
<1> HIDE DEF k
<1>2. t[k + 1] = FinalOpen /\ ParseAction(t, {}).value = t[k + 2][2]
  <2>1. ReadAs(t[k + 1], t[k + 2]).action = "final"
    BY <1>1
  <2> QED
    BY <1>1, <2>1, TagsDiffer DEF StrictShape, ReadAs, Read
<1>3. k \in Nat /\ Len(t) = k + 3 /\ AtMostOne(t, Opens) /\ ~HoldsKind(t, "huge")
      /\ t[k + 2][1] = "answer"
  <2>1. t[k + 2][1] # "wrapped"
    BY <1>1 DEF ReadAs, Read
  <2>2. Taken(t[k + 1], t[k + 2])
    BY <1>1 DEF StrictShape
  <2>3. t[k + 2][1] = "answer"
    BY <1>2, <2>1, <2>2, TagsDiffer DEF Taken, ValidPayload
  <2> QED
    BY <1>1, <2>3 DEF StrictShape
<1>4. FoundAt(t, {FinalClose}, k + 1, k + 3) /\ k + 1 \in 1..Len(t)
  BY <1>1, <1>2, StrictBlock, TagsDiffer
<1>5. \A j \in 1..Len(t) : t[j] = FinalOpen => j = k + 1
  BY <1>2, <1>3, <1>4, TagsDiffer DEF AtMostOne
<1> DEFINE spans == FinalSpans(t)
<1>6. Len(spans) = 1 /\ IsPart(spans[1], t, k + 1, 1, A)
  <2> DEFINE i == k + 1
             c == k + 3
  <2>1. c # 0 /\ c - i - 1 = 1
    BY <1>3
  <2>2. i \in 1..Len(t) /\ t[i] = FinalOpen /\ FoundAt(t, {FinalClose}, i, c)
        /\ \A j \in 1..Len(t) : t[j] = FinalOpen => j = i
    BY <1>2, <1>4, <1>5
  <2> HIDE DEF i, c
  <2>3. Len(spans) = 1 /\ IsPart(spans[1], t, i, c - i - 1, A)
    BY <2>1, <2>2, OneSpan
  <2> QED
    BY <2>1, <2>3 DEF i
<1> HIDE DEF spans
<1>7. Len(spans[1]) = 1 /\ spans[1][1] = t[k + 2]
  <2>1. Len(spans[1]) = 1 /\ spans[1][1] = t[(k + 1) + 1]
    BY <1>6 DEF IsPart
  <2>2. (k + 1) + 1 = k + 2
    BY <1>3
  <2> QED
    BY <2>1, <2>2
<1>8. spans # << >> /\ ~(Len(spans) > 1)
  BY <1>6, NotEmpty
<1>9. ExtractFinalTags(t) = Ok(t[k + 2][2])
  BY <1>3, <1>7, <1>8 DEF ExtractFinalTags, spans
<1>10. Holds(t, FinalOpen)
  BY <1>2, <1>4 DEF Holds
<1>11. Extract(t) = ExtractFinalTags(t)
  BY <1>3, <1>10 DEF Extract
<1> QED
  BY <1>2, <1>9, <1>11

\* What the extractor reads from a final tag is no number of the coercion.
LEMMA NoCoercion ==
  ASSUME NEW A, NEW t \in Seq(A), Holds(t, FinalOpen), Extract(t).status = "ok"
  PROVE  NumericAnswer(t) = NoValue
<1> DEFINE spans == FinalSpans(t)
           b == Body(t, FinalOpen)
<1>1. ExtractFinalTags(t).status = "ok"
  BY DEF Extract, Missing
<1>2. spans # << >> /\ Len(spans[1]) = 1 /\ spans[1][1][1] \in {"answer", "dressed"}
  BY <1>1 DEF ExtractFinalTags, Missing, Ambiguous
<1> HIDE DEF spans
<1>3. CASE Occurrences(t, {FinalOpen}) # 1
  BY <1>3 DEF NumericAnswer
<1>4. CASE Occurrences(t, {FinalOpen}) = 1
  <2>1. AtMostOne(t, {FinalOpen})
    BY <1>4, OccurrencesAre
  <2>2. PICK i \in 1..Len(t) : t[i] = FinalOpen
    BY DEF Holds
  <2>3. \A j \in 1..Len(t) : t[j] = FinalOpen => j = i
    BY <2>1, <2>2 DEF AtMostOne
  <2>4. FoundAt(t, {FinalOpen}, 0, i)
    <3>1. i \in 0..Len(t) /\ i # 0 /\ i > 0 /\ \A j \in 1..Len(t) : j < i => j # i
      BY <2>2
    <3> QED
      BY <2>2, <2>3, <3>1 DEF FoundAt
  <2> PICK c : c = Find(t, {FinalClose}, i)
    OBVIOUS
  <2>5. FoundAt(t, {FinalClose}, i, c)
    BY <2>2, FindIs
  <2>6. c # 0 /\ IsPart(spans[1], t, i, c - i - 1, A)
    BY <1>2, <2>2, <2>3, <2>5, OneSpan DEF spans
  <2>7. IsPart(b, t, i, c - i - 1, A)
    <3>1. CloseOf(FinalOpen) = FinalClose
      BY TagsDiffer
    <3> QED
      BY <2>2, <2>4, <2>5, <2>6, <3>1, BodyIs
  <2> HIDE DEF b
  <2>8. b = spans[1]
    BY <2>6, <2>7, PartsEqual
  <2>9. NumericAnswer(t) = IF Len(b) = 1 /\ b[1][1] = "number" THEN b[1][2] ELSE NoValue
    BY <1>4 DEF NumericAnswer, b
  <2>10. b[1][1] # "number"
    BY <1>2, <2>8
  <2> QED
    BY <2>9, <2>10
<1> QED
  BY <1>3, <1>4

LEMMA TextsAgree ==
  ASSUME turn \in Texts
  PROVE  ReadersAgree
<1> PICK t : t = turn
  OBVIOUS
<1> PICK A : t \in Seq(A)
  BY ReaderAssumption
<1>1. ParseAction(t, {}).action = "final" => Extract(t) = Ok(ParseAction(t, {}).value)
  BY ExtractStrict
<1>2. ParseAction(t, {}).action # NoValue => ParseAction(t, tolerate) = ParseAction(t, {})
  BY SameUnderRules
<1>3. ASSUME NEW rule \in {"unclosed_think", "bare_final_scalar"},
             ParseAction(t, {rule}).action # NoValue, ParseAction(t, {}).action = NoValue,
             ~(rule = "bare_final_scalar" /\ Respelt)
      PROVE  Forecast(rule, t) = ParseAction(t, {rule})
  <2>1. CASE rule = "unclosed_think"
    BY <1>3, <2>1, ForecastThink
  <2>2. CASE rule = "bare_final_scalar"
    <3>1. \A i \in DOMAIN t : t[i][1] # "braced" /\
            (t[i][1] = "scalar" => Dumped(t[i][2]) = t[i][2])
      BY <1>3, <2>2 DEF Respelt
    <3> QED
      BY <1>3, <2>2, <3>1, ForecastScalar
  <2> QED
    BY <2>1, <2>2
<1>4. ParseAction(t, {}).action # NoValue /\ ~Overridden(ParseAction(t, {})) =>
        <<FirstTag(t), "extract_first_block">> \in RepairLevels(t)
  BY StrictRepairs DEF Overridden
<1>5. TurnClass(t) \in {"closed_payload_valid", "unclosed_payload_valid"} =>
        <<FirstTag(t), "extract_first_block">> \in RepairLevels(t)
  BY ClassRepairs
<1> QED
  BY <1>1, <1>2, <1>3, <1>4, <1>5 DEF ReadersAgree

\* For every set of texts, the readers of a turn agree on it: the runtime's
\* parser, strict and tolerant, the extractor, the forecasts of the tolerance,
\* the funnel and the coercion (agent/parser.py, verifier/extractor.py,
\* eval_parser_rescue.py, protocol_gap.py, tolerance_rescore.py).
THEOREM ReadersCorrect == ReadSpec => []ReadersAgree
<1> DEFINE I == turn \in Texts
<1>1. rdInit => I
  BY DEF rdInit
<1>2. I /\ [rdNext]_rdVars => I'
  BY DEF rdNext, RunTurn, Rescore, rdVars
<1>3. I => ReadersAgree
  BY TextsAgree
<1> HIDE DEF I
<1> QED
  BY <1>1, <1>2, <1>3, PTL DEF ReadSpec

\* A score is the rungs of the row as it stands.
ScoreInv ==
  /\ row = NoValue => score = NoValue
  /\ score # NoValue => score = Rungs

LEMMA ScoreKeeps == ScoreInv /\ [rdNext]_rdVars => ScoreInv'
<1> SUFFICES ASSUME ScoreInv, [rdNext]_rdVars PROVE ScoreInv'
  OBVIOUS
<1>1. CASE RunTurn
  BY <1>1 DEF RunTurn, ScoreInv
<1>2. CASE Rescore
  <2>1. turn' = turn /\ tolerate' = tolerate /\ genre' = genre /\ row' = row
    BY <1>2 DEF Rescore
  <2>2. Rungs' = Rungs
    BY <2>1 DEF Rungs, Mismatch, StrictAnswer
  <2> QED
    BY <1>2, <2>1, <2>2 DEF Rescore, ScoreInv
<1>3. CASE UNCHANGED rdVars
  <2>1. Rungs' = Rungs
    BY <1>3 DEF Rungs, Mismatch, StrictAnswer, rdVars
  <2> QED
    BY <1>3, <2>1 DEF ScoreInv, rdVars
<1> QED
  BY <1>1, <1>2, <1>3 DEF rdNext

\* A turn with one token after its only final tag that is no number has no
\* numeric answer.
LEMMA NoNumber ==
  ASSUME NEW A, NEW t \in Seq(A), NEW i \in 1..Len(t), t[i] = FinalOpen,
         AtMostOne(t, Opens), t[i + 1][1] # "number"
  PROVE  NumericAnswer(t) = NoValue
<1> DEFINE b == Body(t, FinalOpen)
<1>1. \A j \in 1..Len(t) : t[j] = FinalOpen => j = i
  BY TagsDiffer DEF AtMostOne
<1>2. FoundAt(t, {FinalOpen}, 0, i)
  <2>1. i \in 0..Len(t) /\ i # 0 /\ i > 0 /\ \A j \in 1..Len(t) : j < i => j # i
    OBVIOUS
  <2> QED
    BY <1>1, <2>1 DEF FoundAt
<1> PICK c : c = Find(t, {FinalClose}, i)
  OBVIOUS
<1>3. FoundAt(t, {FinalClose}, i, c)
  BY FindIs
<1> PICK m : m = (IF c = 0 THEN Len(t) - i ELSE c - i - 1)
  OBVIOUS
<1>4. IsPart(b, t, i, m, A)
  <2>1. CloseOf(FinalOpen) = FinalClose
    BY TagsDiffer
  <2> QED
    BY <1>2, <1>3, <2>1, BodyIs
<1>5. NumericAnswer(t) = NoValue \/ (Len(b) = 1 /\ b[1][1] = "number")
  BY DEF NumericAnswer
<1> HIDE DEF b
<1>6. ASSUME Len(b) = 1 PROVE b[1] = t[i + 1]
  <2>1. m = 1 /\ \A j \in 1..m : b[j] = t[i + j]
    BY <1>4, <1>6 DEF IsPart
  <2>2. 1 \in 1..m
    BY <2>1
  <2> QED
    BY <2>1, <2>2
<1> QED
  BY <1>5, <1>6

\* A turn that the parser reads an answer of, under whatever rules, has no
\* numeric answer.
LEMMA ParserCoercion ==
  ASSUME NEW A, NEW t \in Seq(A), NEW rules, ParseAction(t, rules).value # NoValue
  PROVE  NumericAnswer(t) = NoValue
<1> DEFINE x == TextOf(t, rules)
           n == Len(t)
           B == A \cup {ThinkClose}
<1> PICK k : k = ThinkEnd(x)
  OBVIOUS
<1>1. ParseAction(t, rules).action # NoValue
  <2>1. ParseAction(t, rules).action = NoValue => ParseAction(t, rules).value = NoValue
    BY ReaderAssumption, Zenon DEF ParseAction, ParsePayload, Refused, Read
  <2> QED
    BY <2>1
<1>2. Readable(t, x) /\ ParseAction(t, rules) = Payload(x, rules)
  BY <1>1, ParseIs
<1>3. AtMostOne(t, Opens) /\ t # << >> /\ n \in Nat
  BY <1>2 DEF Readable
<1>4. x = t \/ \E at : ClosedAt(t, x, at, A)
  BY ClosedText DEF TextOf
<1> HIDE DEF x
<1>5. x \in Seq(B) /\ x # << >>
  <2>1. t \in Seq(B)
    <3>1. A \subseteq B
      OBVIOUS
    <3> QED
      BY <3>1
  <2> QED
    BY <1>3, <1>4, <2>1 DEF ClosedAt
<1> HIDE DEF B
<1>6. /\ k \in Nat /\ Len(x) = k + 3
      /\ \/ Taken(x[k + 1], x[k + 2]) /\ Payload(x, rules) = ReadAs(x[k + 1], x[k + 2])
         \/ x[k + 2][1] \in Scalars /\ x[k + 1] = FinalOpen
      /\ x[k + 1] \in Opens
  BY <1>1, <1>2, <1>5, EnvelopeRead
<1>7. x[k + 1] = FinalOpen /\ x[k + 2][1] # "number"
  <2>1. CASE x[k + 2][1] \in Scalars /\ x[k + 1] = FinalOpen
    BY <2>1 DEF Scalars
  <2>2. CASE Taken(x[k + 1], x[k + 2]) /\ Payload(x, rules) = ReadAs(x[k + 1], x[k + 2])
    <3>1. ReadAs(x[k + 1], x[k + 2]).value # NoValue
      BY <1>2, <2>2
    <3>2. x[k + 1] # ToolOpen
      BY <3>1 DEF ReadAs, Read
    <3> QED
      BY <1>6, <2>2, <3>2, TagsDiffer DEF Taken, ValidPayload
  <2> QED
    BY <1>6, <2>1, <2>2
<1>8. \E i \in 1..n : t[i] = FinalOpen /\ t[i + 1][1] # "number"
  <2>1. CASE x = t
    <3>1. k + 1 \in 1..n /\ (k + 1) + 1 = k + 2
      BY <1>6, <2>1
    <3> QED
      BY <1>7, <2>1, <3>1
  <2>2. ASSUME NEW at, ClosedAt(t, x, at, A)
        PROVE  \E i \in 1..n : t[i] = FinalOpen /\ t[i + 1][1] # "number"
    <3>1. /\ at \in 2..n /\ at = k /\ Len(x) = n + 1
          /\ \A j \in 1..n - at + 1 : x[at + j] = t[at - 1 + j]
      BY <2>2 DEF ClosedAt, Closable
    <3>2. /\ k \in 1..n /\ n - k + 1 = 3 /\ 1 \in 1..3 /\ 2 \in 1..3
          /\ k - 1 + 1 = k /\ k - 1 + 2 = k + 1
      BY <1>3, <1>6, <3>1
    <3>3. x[k + 1] = t[k] /\ x[k + 2] = t[k + 1]
      <4>1. \A j \in 1..3 : x[k + j] = t[k - 1 + j]
        BY <3>1, <3>2
      <4>2. x[k + 1] = t[k - 1 + 1] /\ x[k + 2] = t[k - 1 + 2]
        BY <3>2, <4>1
      <4> QED
        BY <3>2, <4>2
    <3> QED
      BY <1>7, <3>2, <3>3
  <2> QED
    BY <1>4, <2>1, <2>2
<1> QED
  BY <1>3, <1>8, NoNumber

\* A generation that the extractor reads an answer of has none either.
LEMMA ExtractorCoercion ==
  ASSUME NEW A, NEW t \in Seq(A), Extract(t).value # NoValue
  PROVE  NumericAnswer(t) = NoValue
<1>1. CASE Holds(t, FinalOpen)
  <2>1. Extract(t) = ExtractFinalTags(t) \/ Extract(t) = Missing
    BY <1>1 DEF Extract
  <2>2. Extract(t).status = "ok"
    BY <2>1 DEF ExtractFinalTags, Missing, Ambiguous, Ok
  <2> QED
    BY <1>1, <2>2, NoCoercion
<1>2. CASE ~Holds(t, FinalOpen)
  <2>1. Occurrences(t, {FinalOpen}) # 1
    BY <1>2, OccurrencesAre DEF Holds
  <2> QED
    BY <2>1 DEF NumericAnswer
<1> QED
  BY <1>1, <1>2

\* A row holds what the extractor, or the parser, read of the turn.
RowInv ==
  /\ turn \in Texts
  /\ row # NoValue =>
       row.answer = IF genre = "direct" THEN Extract(turn).value
                    ELSE ParseAction(turn, tolerate).value

LEMMA RowKeeps == RowInv /\ [rdNext]_rdVars => RowInv'
<1> SUFFICES ASSUME RowInv, [rdNext]_rdVars PROVE RowInv'
  OBVIOUS
<1>1. turn' = turn /\ tolerate' = tolerate /\ genre' = genre
  BY DEF rdNext, RunTurn, Rescore, rdVars
<1>2. turn' \in Texts
  BY <1>1 DEF RowInv
<1>3. CASE RunTurn
  <2>1. row'.answer = IF genre = "direct" THEN Extract(turn).value
                      ELSE ParseAction(turn, tolerate).value
    BY <1>3, Zenon DEF RunTurn
  <2> QED
    BY <1>1, <1>2, <2>1 DEF RowInv
<1>4. CASE row' = row
  BY <1>1, <1>2, <1>4 DEF RowInv
<1> QED
  BY <1>3, <1>4 DEF rdNext, Rescore, rdVars

LEMMA GapsFilled == RowInv /\ ScoreInv => CoercionFillsGaps
<1> SUFFICES ASSUME RowInv, ScoreInv, score # NoValue, row.answer # NoValue
             PROVE  score.coerce = score.strict
  BY DEF CoercionFillsGaps
<1> PICK A : turn \in Seq(A)
  BY ReaderAssumption DEF RowInv
<1>1. NumericAnswer(turn) = NoValue
  <2>1. row # NoValue
    BY DEF ScoreInv
  <2>2. CASE genre = "direct"
    BY <2>1, <2>2, ExtractorCoercion DEF RowInv
  <2>3. CASE genre # "direct"
    BY <2>1, <2>3, ParserCoercion DEF RowInv
  <2> QED
    BY <2>2, <2>3
<1>2. Verdict(NumericAnswer(turn)) # "correct"
  BY <1>1 DEF Verdict
<1>3. /\ score.strict = (Verdict(StrictAnswer) = "correct")
      /\ score.coerce = (score.strict \/ Verdict(NumericAnswer(turn)) = "correct")
  <2>1. score = Rungs
    BY DEF ScoreInv
  <2> QED
    BY <2>1, Zenon DEF Rungs
<1> QED
  BY <1>2, <1>3

\* For every set of texts, the coercion of the re-scoring counts no task that
\* the run had read an answer of (tolerance_rescore.py, score_arm): a turn in
\* whose final block the parser, under any rules, or the extractor finds an
\* answer has no number there.
THEOREM CoercionCorrect == ReadSpec => []CoercionFillsGaps
<1>1. rdInit => RowInv /\ ScoreInv
  BY DEF rdInit, RowInv, ScoreInv
<1> QED
  BY <1>1, RowKeeps, ScoreKeeps, GapsFilled, PTL DEF ReadSpec

-----------------------------------------------------------------------------
(* The first version's solver.                                              *)


\* A plan, every subtask of which fails but for its last try, fits into the
\* step limit with a step each for planner, critic and executor (5, 3 and 20 in
\* workflow.py:173-263 and planner.py).
LimitHasRoom == \A m \in RetryLimits : Subtasks * m + 3 <= StepLimit

Clean(rs) == \A i \in DOMAIN rs : rs[i] \notin {"error", "empty"}

\* While nothing was reported wrong, each finished subtask took at most
\* maxRetries steps; a plan is only made anew after a result that was rejected.
RunInv ==
  /\ phase \in {"idle", "solving", "streaming"}
  /\ status \in {"none", "planning", "executing", "reviewing", "completed", "failed"}
  /\ planned \in BOOLEAN /\ answered \in BOOLEAN
  /\ current \in 0..Subtasks /\ results \in Seq(ResultKinds)
  /\ errorCount \in Nat /\ steps \in Nat /\ maxRetries \in Nat \ {0}
  /\ phase # "idle" => maxRetries \in RetryLimits
  /\ phase = "idle" => status = "none" /\ steps = 0
  /\ answered <=> status = "completed"
  /\ status = "none" => phase = "idle"
  /\ status = "planning" /\ planned => ~Clean(results)
  /\ status = "planning" /\ ~planned => results = << >> /\ steps = 0
  /\ status \in {"executing", "reviewing", "completed"} => planned
  /\ status \in {"reviewing", "completed"} => Review(results) = "approved"
  /\ Clean(results) /\ status = "executing" =>
       /\ Len(results) = current /\ errorCount < maxRetries
       /\ current = Subtasks => errorCount = 0
       /\ steps <= 1 + current * maxRetries + errorCount
  /\ Clean(results) /\ status = "reviewing" => steps <= 2 + Subtasks * maxRetries
  /\ Clean(results) /\ status = "failed" => errorCount = maxRetries

Runs == [success : BOOLEAN, final_answer : BOOLEAN]

\* The last `kept` entries of a sequence, in its order.
IsEnd(t, s, kept) ==
  /\ Len(t) = kept
  /\ \E d \in Nat : Len(s) = d + kept /\ \A i \in 1..kept : t[i] = s[d + i]

Smaller(n, b) == IF n < b THEN n ELSE b

\* The buffer is the end of the history, and a run that succeeded has its answer.
CollectedInv ==
  /\ trajectories \in Seq(Runs) /\ returned \in Seq(Runs)
  /\ IsEnd(trajectories, returned, Smaller(Len(returned), BufferSize))
  /\ \A i \in 1..Len(returned) : returned[i].success = returned[i].final_answer
-----------------------------------------------------------------------------
LEMMA ReviewIs ==
  \A rs \in Seq(ResultKinds) :
    /\ Review(rs) = "approved" =>
         Len(rs) >= Subtasks /\ \A i \in DOMAIN rs : rs[i] \notin {"error", "empty"}
    /\ Clean(rs) /\ Len(rs) >= Subtasks => Review(rs) = "approved"
    /\ Clean(rs) => Review(rs) # "rejected"
    /\ Review(rs) \in {"approved", "needs_improvement", "rejected"}
  BY DEF Review, Clean, ContainsError, ContainsSuccess, Complete, Consistent

LEMMA CleanAppend ==
  ASSUME NEW rs \in Seq(ResultKinds), NEW r \in ResultKinds
  PROVE  /\ Append(rs, r) \in Seq(ResultKinds) /\ Len(Append(rs, r)) = Len(rs) + 1
         /\ Clean(Append(rs, r)) => Clean(rs)
<1>1. /\ Append(rs, r) \in Seq(ResultKinds) /\ Len(Append(rs, r)) = Len(rs) + 1
      /\ DOMAIN rs = 1..Len(rs) /\ DOMAIN Append(rs, r) = 1..Len(rs) + 1
      /\ \A i \in 1..Len(rs) : Append(rs, r)[i] = rs[i]
  OBVIOUS
<1> QED
  BY <1>1 DEF Clean

LEMMA Tries ==
  /\ \A c, m, e \in Nat :
       /\ c * m \in Nat /\ (c + 1) * m = c * m + m
       /\ e < m => c * m + e + 1 <= (c + 1) * m
  /\ \A c, s, m \in Nat : c < s => c * m + m <= s * m
<1>1. \A c, m \in Nat : c * m \in Nat /\ (c + 1) * m = c * m + m
  OBVIOUS
<1>2. ASSUME NEW c \in Nat, NEW m \in Nat, NEW e \in Nat, e < m
      PROVE  c * m + e + 1 <= (c + 1) * m
  <2>1. PICK p \in Nat : p = c * m /\ (c + 1) * m = p + m
    BY <1>1
  <2> QED
    BY <1>2, <2>1
<1>3. \A c, s, m \in Nat : c < s => c * m + m <= s * m
  OBVIOUS
<1> QED
  BY <1>1, <1>2, <1>3
-----------------------------------------------------------------------------
(* A run of the workflow.                                                  *)

LEMMA WorkflowStep ==
  ASSUME RunInv, Step
  PROVE  RunInv'
<1>0. /\ Subtasks \in Nat \ {0} /\ StepLimit \in Nat \ {0}
      /\ RetryLimits \subseteq Nat \ {0} /\ Registered \subseteq ResultKinds
  BY WorkflowAssumption
<1>1. /\ phase # "idle" /\ phase' = phase /\ WfNext /\ maxRetries' = maxRetries
      /\ ~Ended /\ steps' = steps + 1
  BY DEF Step, WfNext, Plan, CallTool, ToolRaises, Criticise, Execute
<1>2. CASE Plan
  <2>1. /\ status = "planning" /\ status' = "executing"
        /\ UNCHANGED <<results, answered>>
        /\ planned' = TRUE
        /\ \/ planned /\ UNCHANGED <<current, errorCount>>
           \/ current' = 0 /\ errorCount' = 0
    BY <1>2 DEF Plan, RunInv
  <2>2. CASE planned
    <3>1. ~Clean(results)'
      BY <2>1, <2>2 DEF RunInv, Clean
    <3> QED
      BY <1>0, <1>1, <2>1, <3>1 DEF RunInv
  <2>3. CASE ~planned
    <3>1. results = << >> /\ steps = 0 /\ current' = 0 /\ errorCount' = 0 /\ Len(results) = 0
      BY <2>1, <2>3 DEF RunInv
    <3>2. 0 * maxRetries = 0 /\ 0 # Subtasks
      BY <1>0 DEF RunInv
    <3> QED
      BY <1>0, <1>1, <2>1, <3>1, <3>2 DEF RunInv
  <2> QED
    BY <2>2, <2>3
<1>3. CASE CallTool
  <2>1. PICK r \in BuiltinResults \cup Registered : results' = Append(results, r)
    BY <1>3 DEF CallTool
  <2>2. /\ status = "executing" /\ status' = "executing" /\ planned' = planned
        /\ answered' = answered /\ current' = current + 1 /\ errorCount' = 0
        /\ current < Subtasks /\ planned
    BY <1>0, <1>3 DEF CallTool, RunInv, AllSubtasksCompleted
  <2>3. r \in ResultKinds
    BY <1>0 DEF BuiltinResults, ResultKinds
  <2>4. /\ results' \in Seq(ResultKinds) /\ Len(results') = Len(results) + 1
        /\ Clean(results)' => Clean(results)
    BY <2>1, <2>3, CleanAppend DEF RunInv, Clean
  <2>5. ASSUME Clean(results)
        PROVE  steps + 1 <= 1 + (current + 1) * maxRetries + 0
    <3>1. steps <= 1 + current * maxRetries + errorCount /\ errorCount < maxRetries
      BY <2>2, <2>5 DEF RunInv
    <3>2. /\ current * maxRetries \in Nat
          /\ current * maxRetries + errorCount + 1 <= (current + 1) * maxRetries
          /\ (current + 1) * maxRetries = current * maxRetries + maxRetries
      BY <2>2, <3>1, Tries DEF RunInv
    <3>3. PICK p \in Nat : p = current * maxRetries
      BY <3>2
    <3> QED
      BY <3>1, <3>2, <3>3 DEF RunInv
  <2> QED
    BY <1>0, <1>1, <2>2, <2>4, <2>5 DEF RunInv
<1>4. CASE ToolRaises
  <2>1. /\ status = "executing" /\ UNCHANGED <<planned, current, results, answered>>
        /\ errorCount' = errorCount + 1 /\ current < Subtasks /\ planned
        /\ status' = IF errorCount + 1 >= maxRetries THEN "failed" ELSE "executing"
    BY <1>0, <1>4 DEF ToolRaises, RunInv, AllSubtasksCompleted
  <2>2. Clean(results)' = Clean(results)
    BY <2>1 DEF Clean
  <2>3. PICK p \in Nat : p = current * maxRetries /\ p = current' * maxRetries'
    BY <1>1, <2>1, Tries DEF RunInv
  <2> QED
    BY <1>0, <1>1, <2>1, <2>2, <2>3 DEF RunInv
<1>5. CASE Criticise
  <2>1. /\ status = "executing" /\ current = Subtasks /\ planned
        /\ UNCHANGED <<planned, current, results, errorCount, answered>>
        /\ status' = CASE Review(results) = "approved" -> "reviewing"
                       [] Review(results) = "needs_improvement" -> "executing"
                       [] OTHER -> IF ShouldRetry THEN "planning" ELSE "failed"
    BY <1>0, <1>5 DEF Criticise, RunInv, AllSubtasksCompleted
  <2>2. Clean(results)' = Clean(results) /\ Review(results)' = Review(results)
    BY <2>1 DEF Clean, Review, ContainsError, ContainsSuccess, Complete, Consistent
  <2>3. CASE Clean(results)
    <3>1. /\ Len(results) = Subtasks /\ errorCount = 0
          /\ steps <= 1 + Subtasks * maxRetries + 0
      BY <2>1, <2>3 DEF RunInv
    <3>2. Review(results) = "approved"
      BY <1>0, <2>3, <3>1, ReviewIs DEF RunInv
    <3>3. status' = "reviewing"
      BY <2>1, <3>2
    <3>4. PICK p \in Nat : p = Subtasks * maxRetries
      BY <1>0, Tries DEF RunInv
    <3>5. steps' <= 2 + Subtasks * maxRetries'
      BY <1>1, <3>1, <3>4 DEF RunInv
    <3> QED
      BY <1>0, <1>1, <2>1, <2>2, <3>2, <3>3, <3>5 DEF RunInv
  <2>4. CASE ~Clean(results)
    <3>1. /\ status' \in {"reviewing", "executing", "planning", "failed"}
          /\ status' = "reviewing" => Review(results) = "approved"
      BY <2>1
    <3> QED
      BY <1>0, <1>1, <2>1, <2>2, <2>4, <3>1 DEF RunInv
  <2> QED
    BY <2>3, <2>4
<1>6. CASE Execute
  <2>1. /\ status = "reviewing" /\ status' = "completed" /\ answered' = TRUE
        /\ UNCHANGED <<planned, current, results, errorCount>>
    BY <1>6 DEF Execute
  <2>2. Review(results)' = Review(results)
    BY <2>1 DEF Review, ContainsError, ContainsSuccess, Complete, Consistent
  <2> QED
    BY <1>0, <1>1, <2>1, <2>2 DEF RunInv
<1> QED
  BY <1>1, <1>2, <1>3, <1>4, <1>5, <1>6 DEF WfNext

\* A run just begun.
AtStart ==
  /\ status = "planning" /\ planned = FALSE /\ current = 0 /\ results = << >>
  /\ errorCount = 0 /\ maxRetries \in RetryLimits /\ answered = FALSE /\ steps = 0
  /\ phase \in {"solving", "streaming"}

LEMMA StartIsRight == AtStart => RunInv
<1> SUFFICES ASSUME AtStart PROVE RunInv
  OBVIOUS
<1>1. /\ << >> \in Seq(ResultKinds) /\ 0 \in 0..Subtasks
      /\ 0 \in Nat /\ RetryLimits \subseteq Nat \ {0}
  BY WorkflowAssumption
<1>2. /\ current \in 0..Subtasks /\ results \in Seq(ResultKinds)
      /\ errorCount \in Nat /\ steps \in Nat /\ maxRetries \in Nat \ {0}
  BY <1>1, Zenon DEF AtStart
<1>3. /\ phase \in {"solving", "streaming"} /\ maxRetries \in RetryLimits
      /\ results = << >> /\ steps = 0 /\ status = "planning"
  BY DEF AtStart
<1>4. planned \in BOOLEAN /\ answered \in BOOLEAN /\ ~answered /\ ~planned
  BY Zenon DEF AtStart
<1> QED
  BY <1>2, <1>3, <1>4 DEF RunInv

LEMMA RunBegins ==
  ASSUME NEW r \in RetryLimits, Begin(r), phase' \in {"solving", "streaming"}
  PROVE  RunInv'
<1>1. AtStart'
  BY DEF Begin, AtStart
<1> QED
  BY <1>1, StartIsRight, PTL

\* No run is there.
AtRest ==
  /\ status = "none" /\ planned = FALSE /\ current = 0 /\ results = << >>
  /\ errorCount = 0 /\ maxRetries = 1 /\ answered = FALSE /\ steps = 0
  /\ phase = "idle"

LEMMA RestIsRight == AtRest => RunInv
<1> SUFFICES ASSUME AtRest PROVE RunInv
  OBVIOUS
<1>1. /\ << >> \in Seq(ResultKinds) /\ 0 \in 0..Subtasks
      /\ 0 \in Nat /\ 1 \in Nat \ {0}
  BY WorkflowAssumption
<1>2. /\ current \in 0..Subtasks /\ results \in Seq(ResultKinds)
      /\ errorCount \in Nat /\ steps \in Nat /\ maxRetries \in Nat \ {0}
  BY <1>1, Zenon DEF AtRest
<1>3. /\ phase = "idle" /\ steps = 0 /\ status = "none"
      /\ status \notin {"planning", "executing", "reviewing", "completed", "failed"}
  BY DEF AtRest
<1>4. planned \in BOOLEAN /\ answered \in BOOLEAN /\ ~answered
  BY Zenon DEF AtRest
<1> QED
  BY <1>2, <1>3, <1>4 DEF RunInv

LEMMA RunDiscarded ==
  ASSUME Discard, phase' = "idle"
  PROVE  RunInv'
<1>1. AtRest'
  BY DEF Discard, AtRest
<1> QED
  BY <1>1, RestIsRight, PTL

LEMMA RunKept ==
  ASSUME RunInv, UNCHANGED <<wfVars, phase>>
  PROVE  RunInv'
  BY DEF RunInv, wfVars, Clean, Review, ContainsError, ContainsSuccess, Complete, Consistent

LEMMA RunInvariant == Spec => []RunInv
<1>1. Init => RunInv
  <2>1. Init => AtRest
    BY DEF Init, WfInit, AtRest
  <2> QED
    BY <2>1, RestIsRight
<1>2. ASSUME RunInv, [Next]_vars
      PROVE  RunInv'
  <2>1. CASE Ask
    <3>1. PICK q \in Asked : Solve(q) \/ Stream(q)
      BY <2>1 DEF Ask
    <3>2. \/ UNCHANGED <<wfVars, phase>>
          \/ /\ phase' \in {"solving", "streaming"}
             /\ Begin(SettingsRetries) \/ Begin(3)
      BY <3>1 DEF Solve, Stream
    <3> QED
      BY <1>2, <3>2, RunKept, RunBegins, SolverAssumption
  <2>2. CASE Step
    BY <1>2, <2>2, WorkflowStep
  <2>3. CASE Return \/ EndStream
    BY <1>2, <2>3, RunDiscarded DEF Return, EndStream
  <2>4. CASE ResetStats \/ UNCHANGED vars
    BY <1>2, <2>4, RunKept DEF ResetStats, vars
  <2> QED
    BY <1>2, <2>1, <2>2, <2>3, <2>4 DEF Next
<1> QED
  BY <1>1, <1>2, PTL DEF Spec

\* Whatever the limits are, an answer was reviewed.
LEMMA AnswersReviewed ==
  ASSUME RunInv PROVE AnswerIsReviewed
  BY ReviewIs DEF RunInv, AnswerIsReviewed

LEMMA StepsSuffice ==
  ASSUME LimitHasRoom, RunInv PROVE StepLimitSuffices
<1> SUFFICES ASSUME Ended, Clean(results), ~answered, errorCount # maxRetries
             PROVE  FALSE
  BY DEF StepLimitSuffices, Clean
<1>0. Subtasks \in Nat \ {0} /\ StepLimit \in Nat \ {0}
  BY WorkflowAssumption
<1>1. /\ status \in {"none", "planning", "executing", "reviewing"}
      /\ steps >= StepLimit /\ steps \in Nat /\ maxRetries \in Nat
  BY DEF RunInv, Ended
<1>2. status \in {"executing", "reviewing"}
  BY <1>0, <1>1 DEF RunInv
<1>3. /\ maxRetries \in RetryLimits /\ Subtasks * maxRetries + 3 <= StepLimit
  BY <1>2 DEF RunInv, LimitHasRoom
<1>4. PICK p \in Nat : p = Subtasks * maxRetries
  BY <1>0, <1>1, Tries
<1>5. CASE status = "reviewing"
  BY <1>0, <1>1, <1>3, <1>4, <1>5 DEF RunInv
<1>6. CASE status = "executing"
  <2>1. /\ steps <= 1 + current * maxRetries + errorCount /\ errorCount < maxRetries
        /\ current \in 0..Subtasks /\ errorCount \in Nat
        /\ current = Subtasks => errorCount = 0
    BY <1>6 DEF RunInv
  <2>2. PICK c \in Nat : c = current * maxRetries
    BY <1>1, <2>1, Tries
  <2>3. CASE current = Subtasks
    BY <1>0, <1>1, <1>3, <1>4, <2>1, <2>2, <2>3
  <2>4. CASE current < Subtasks
    <3>1. c + maxRetries <= p
      BY <1>0, <1>1, <1>4, <2>1, <2>2, <2>4, Tries
    <3> QED
      BY <1>0, <1>1, <1>3, <1>4, <2>1, <2>2, <3>1
  <2> QED
    BY <1>0, <2>1, <2>3, <2>4
<1> QED
  BY <1>2, <1>5, <1>6
-----------------------------------------------------------------------------
(* The collector.                                                          *)

LEMMA EndGrows ==
  ASSUME NEW t \in Seq(Runs), NEW s \in Seq(Runs), NEW k \in Nat, IsEnd(t, s, k),
         NEW e \in Runs
  PROVE  IsEnd(Append(t, e), Append(s, e), k + 1)
<1>1. PICK d \in Nat : /\ Len(t) = k /\ Len(s) = d + k
                       /\ \A i \in 1..k : t[i] = s[d + i]
  BY DEF IsEnd
<1> DEFINE a == Append(t, e)
           z == Append(s, e)
<1>2. /\ Len(a) = k + 1 /\ a[k + 1] = e /\ \A i \in 1..k : a[i] = t[i]
      /\ Len(z) = d + (k + 1) /\ z[d + (k + 1)] = e
      /\ \A i \in 1..d + k : z[i] = s[i]
  BY <1>1
<1> HIDE DEF a, z
<1>3. ASSUME NEW i \in 1..k + 1 PROVE a[i] = z[d + i]
  <2>1. CASE i = k + 1
    BY <1>2, <2>1
  <2>2. CASE i \in 1..k
    <3>1. d + i \in 1..d + k
      BY <2>2
    <3> QED
      BY <1>1, <1>2, <2>2, <3>1
  <2>3. i = k + 1 \/ i \in 1..k
    OBVIOUS
  <2> QED
    BY <2>1, <2>2, <2>3
<1>4. IsEnd(a, z, k + 1)
  BY <1>2, <1>3 DEF IsEnd
<1> QED
  BY <1>4 DEF a, z

LEMMA EndDrops ==
  ASSUME NEW a \in Seq(Runs), NEW z, NEW k \in Nat, IsEnd(a, z, k + 1)
  PROVE  Tail(a) \in Seq(Runs) /\ IsEnd(Tail(a), z, k)
<1>1. PICK d \in Nat : /\ Len(a) = k + 1 /\ Len(z) = d + (k + 1)
                       /\ \A i \in 1..k + 1 : a[i] = z[d + i]
  BY DEF IsEnd
<1> PICK u : u = Tail(a)
  OBVIOUS
<1>2. /\ u \in Seq(Runs) /\ Len(u) = k /\ \A i \in 1..k : u[i] = a[i + 1]
  BY <1>1
<1>3. d + 1 \in Nat /\ Len(z) = (d + 1) + k
  BY <1>1
<1>4. ASSUME NEW i \in 1..k PROVE u[i] = z[(d + 1) + i]
  <2>1. i + 1 \in 1..k + 1 /\ d + (i + 1) = (d + 1) + i
    OBVIOUS
  <2> QED
    BY <1>1, <1>2, <2>1
<1> QED
  BY <1>2, <1>3, <1>4 DEF IsEnd

LEMMA SmallerIs ==
  \A n, b \in Nat :
    /\ Smaller(n, b) \in Nat /\ Smaller(n, b) <= n
    /\ n < b => Smaller(n, b) = n /\ Smaller(n + 1, b) = n + 1 /\ ~ (n + 1 > b)
    /\ ~ (n < b) => Smaller(n, b) = b /\ Smaller(n + 1, b) = b /\ b + 1 > b
  BY DEF Smaller

LEMMA OneMoreCollected ==
  ASSUME NEW t \in Seq(Runs), NEW s \in Seq(Runs), NEW b \in Nat, NEW e \in Runs,
         NEW k, k = Smaller(Len(s), b), IsEnd(t, s, k),
         NEW u, u = IF Len(t) + 1 > b THEN Tail(Append(t, e)) ELSE Append(t, e)
  PROVE  u \in Seq(Runs) /\ IsEnd(u, Append(s, e), Smaller(Len(s) + 1, b))
<1> PICK n \in Nat : n = Len(s)
  OBVIOUS
<1> DEFINE a == Append(t, e)
           z == Append(s, e)
<1>0. k \in Nat /\ k <= n
  BY SmallerIs
<1>1. Len(t) = k
  BY DEF IsEnd
<1>2. a \in Seq(Runs) /\ IsEnd(a, z, k + 1)
  BY <1>0, EndGrows
<1>5. u = IF k + 1 > b THEN Tail(a) ELSE a
  BY <1>1
<1> HIDE DEF a, z
<1>3. CASE n < b
  <2>1. k = n /\ Smaller(n + 1, b) = n + 1 /\ ~ (n + 1 > b)
    BY <1>3, SmallerIs
  <2>2. u = a /\ Smaller(n + 1, b) = k + 1
    BY <1>5, <2>1
  <2> QED
    BY <1>2, <2>2 DEF z
<1>4. CASE ~ (n < b)
  <2>1. k = b /\ u = Tail(a) /\ Smaller(n + 1, b) = b
    BY <1>4, <1>5, SmallerIs
  <2>2. Tail(a) \in Seq(Runs) /\ IsEnd(Tail(a), z, k)
    BY <1>0, <1>2, EndDrops
  <2> QED
    BY <2>1, <2>2 DEF z
<1> QED
  BY <1>3, <1>4

LEMMA CollectedInvariant == Spec => []CollectedInv
<1>0. BufferSize \in Nat
  BY SolverAssumption
<1>1. Init => CollectedInv
  <2> SUFFICES ASSUME Init PROVE CollectedInv
    OBVIOUS
  <2>1. trajectories = << >> /\ returned = << >> /\ Len(returned) = 0
    BY DEF Init
  <2>2. Smaller(0, BufferSize) = 0
    BY <1>0 DEF Smaller
  <2>3. IsEnd(trajectories, returned, 0)
    BY <2>1 DEF IsEnd
  <2> QED
    BY <2>1, <2>2, <2>3 DEF CollectedInv
<1>2. ASSUME RunInv, CollectedInv, [Next]_vars
      PROVE  CollectedInv'
  <2>1. CASE UNCHANGED <<trajectories, returned>>
    BY <1>2, <2>1 DEF CollectedInv, IsEnd
  <2>2. CASE Return
    <3> DEFINE e == Trajectory
    <3>1. /\ trajectories' = Collect(e) /\ returned' = Append(returned, e)
      BY <2>2 DEF Return
    <3>2. e \in Runs /\ e.success = e.final_answer
      BY <1>2 DEF Trajectory, RunInv, Runs
    <3> HIDE DEF e
    <3>3. /\ trajectories \in Seq(Runs) /\ returned \in Seq(Runs)
          /\ IsEnd(trajectories, returned, Smaller(Len(returned), BufferSize))
      BY <1>2 DEF CollectedInv
    <3>4. /\ returned' \in Seq(Runs) /\ Len(returned') = Len(returned) + 1
          /\ \A i \in 1..Len(returned) + 1 :
               returned'[i].success = returned'[i].final_answer
      BY <1>2, <3>1, <3>2, <3>3 DEF CollectedInv
    <3>5. trajectories' = IF Len(trajectories) + 1 > BufferSize
                          THEN Tail(Append(trajectories, e)) ELSE Append(trajectories, e)
      BY <3>1 DEF Collect
    <3>6. /\ trajectories' \in Seq(Runs)
          /\ IsEnd(trajectories', returned', Smaller(Len(returned) + 1, BufferSize))
      BY <1>0, <3>1, <3>2, <3>3, <3>5, OneMoreCollected
    <3> QED
      BY <3>4, <3>6 DEF CollectedInv, IsEnd
  <2> QED
    BY <1>2, <2>1, <2>2 DEF Next, Ask, Solve, Stream, Step, EndStream, ResetStats, vars
<1> QED
  BY <1>1, <1>2, RunInvariant, PTL DEF Spec

LEMMA EndIsSubSeq ==
  ASSUME NEW t \in Seq(Runs), NEW s \in Seq(Runs), NEW k \in Nat, IsEnd(t, s, k)
  PROVE  /\ k <= Len(s) /\ t = SubSeq(s, Len(s) - k + 1, Len(s))
         /\ \A i \in DOMAIN t : \E j \in 1..Len(s) : t[i] = s[j]
<1>1. PICK d \in Nat : /\ Len(t) = k /\ Len(s) = d + k
                       /\ \A i \in 1..k : t[i] = s[d + i]
  BY DEF IsEnd
<1> DEFINE u == SubSeq(s, d + 1, d + k)
<1>2. u \in Seq(Runs) /\ Len(u) = k /\ \A i \in 1..k : u[i] = s[d + i]
  <2>1. \A i \in d + 1..d + k : s[i] \in Runs
    BY <1>1
  <2>2. /\ (d + k) - (d + 1) + 1 = k
        /\ \A i \in 1..k : d + 1 + i - 1 = d + i
    OBVIOUS
  <2>3. u = [i \in 1..(d + k) - (d + 1) + 1 |-> s[d + 1 + i - 1]]
    BY DEF SubSeq
  <2> QED
    BY <1>1, <2>1, <2>2, <2>3
<1>3. d + k - k + 1 = d + 1
  OBVIOUS
<1> HIDE DEF u
<1>4. t = u
  BY <1>1, <1>2
<1>5. \A i \in 1..k : d + i \in 1..d + k
  OBVIOUS
<1>6. t = SubSeq(s, d + 1, d + k)
  BY <1>4 DEF u
<1>7. k <= Len(s) /\ Len(s) - k + 1 = d + 1
  BY <1>1, <1>3
<1>8. DOMAIN t = 1..k
  BY <1>1
<1>9. \A i \in 1..k : t[i] = s[d + i] /\ d + i \in 1..Len(s)
  BY <1>1, <1>5
<1>10. t = SubSeq(s, Len(s) - k + 1, Len(s))
  BY <1>1, <1>6, <1>7
<1>11. \A i \in DOMAIN t : \E j \in 1..Len(s) : t[i] = s[j]
  BY <1>8, <1>9, Zenon
<1> QED
  BY <1>7, <1>10, <1>11

LEMMA CollectedIs ==
  ASSUME CollectedInv PROVE LatestCollected
<1> PICK n \in Nat : n = Len(returned)
  BY DEF CollectedInv
<1>0. BufferSize \in Nat
  BY SolverAssumption
<1> PICK k \in Nat : k = Smaller(n, BufferSize)
  BY <1>0, SmallerIs
<1>1. /\ trajectories = SubSeq(returned, n - k + 1, n)
      /\ \A i \in DOMAIN trajectories : \E j \in 1..n : trajectories[i] = returned[j]
  BY EndIsSubSeq DEF CollectedInv
<1>2. \A i \in 1..n : returned[i].success = returned[i].final_answer
  BY DEF CollectedInv
<1>3. \A i \in DOMAIN trajectories : trajectories[i].success = trajectories[i].final_answer
  <2> SUFFICES ASSUME NEW i \in DOMAIN trajectories
               PROVE  trajectories[i].success = trajectories[i].final_answer
    OBVIOUS
  <2>1. PICK j \in 1..n : trajectories[i] = returned[j]
    BY <1>1
  <2>2. returned[j].success = returned[j].final_answer
    BY <1>2
  <2> QED
    BY <2>1, <2>2
<1>4. k = IF n < BufferSize THEN n ELSE BufferSize
  BY DEF Smaller
<1> QED
  BY <1>1, <1>3, <1>4 DEF LatestCollected
-----------------------------------------------------------------------------
(* The router.                                                             *)

LEMMA QueryType ==
  ASSUME NEW q \in Queries
  PROVE  /\ q.type \in TaskTypes /\ q.tokens \in TokenClasses
         /\ q.keywords \in 0..3 /\ q.history \in 0..3
         /\ TokenScore(q) \in 0..6 /\ TypeScore(q) \in 0..8
         /\ Score(q) \in Nat
<1>1. /\ q.type \in TaskTypes /\ q.tokens \in TokenClasses
      /\ q.keywords \in 0..3 /\ q.history \in 0..3
  BY DEF Queries
<1>2. TokenScore(q) \in 0..6
  BY <1>1 DEF TokenScore, TokenClasses
<1>3. TypeScore(q) \in 0..8
  BY <1>1 DEF TypeScore, TaskTypes
<1> QED
  BY <1>1, <1>2, <1>3 DEF Score

LEMMA TypesOrdered ==
  ASSUME NEW q \in Queries, NEW r \in Queries, TypeOrder[r.type] <= TypeOrder[q.type],
         r.type \notin WorkflowTypes, ~(q.type = "analysis" /\ r.type = "reasoning")
  PROVE  /\ q.type \notin WorkflowTypes /\ TypeScore(q) <= TypeScore(r)
         /\ TypeScore(q) = TypeScore(r) => q.type = r.type
<1>1. q.type \in TaskTypes /\ r.type \in TaskTypes
  BY QueryType
<1>2. \A t \in TaskTypes : t \notin WorkflowTypes =>
        t \in {"reasoning", "analysis", "calculation", "simple_qa"}
  BY DEF TaskTypes, WorkflowTypes
<1>3. /\ TypeOrder["proof"] = 1 /\ TypeOrder["multi_step"] = 2
      /\ TypeOrder["code_generation"] = 3 /\ TypeOrder["reasoning"] = 4
      /\ TypeOrder["analysis"] = 5 /\ TypeOrder["calculation"] = 6
      /\ TypeOrder["simple_qa"] = 7
  BY DEF TypeOrder
<1>4. r.type \in {"reasoning", "analysis", "calculation", "simple_qa"}
  BY <1>1, <1>2
<1>5. q.type \notin WorkflowTypes
  BY <1>3, <1>4 DEF WorkflowTypes
<1>6. q.type \in {"reasoning", "analysis", "calculation", "simple_qa"}
  BY <1>1, <1>2, <1>5
<1>7. TypeScore(q) <= TypeScore(r) /\ (TypeScore(q) = TypeScore(r) => q.type = r.type)
  BY <1>3, <1>4, <1>6 DEF TypeScore
<1> QED
  BY <1>5, <1>7

LEMMA TokensOrdered ==
  ASSUME NEW q \in Queries, NEW r \in Queries, TokenOrder[q.tokens] <= TokenOrder[r.tokens]
  PROVE  /\ TokenScore(q) <= TokenScore(r)
         /\ r.tokens \in {"short", "half"} => q.tokens \in {"short", "half"}
<1>1. q.tokens \in TokenClasses /\ r.tokens \in TokenClasses
  BY QueryType
<1>2. /\ TokenOrder["short"] = 1 /\ TokenOrder["half"] = 2 /\ TokenOrder["threshold"] = 3
      /\ TokenOrder["long"] = 4 /\ TokenOrder["double"] = 5
  BY DEF TokenOrder
<1> QED
  BY <1>1, <1>2 DEF TokenScore, TokenClasses

LEMMA RouteRanks ==
  ASSUME NEW q \in Queries
  PROVE  /\ q.type \in WorkflowTypes => Rank(q) = 2
         /\ q.type \notin WorkflowTypes =>
              Rank(q) = IF \/ Level(q) = "complex"
                           \/ Level(q) = "medium" /\ q.tokens \notin {"short", "half"}
                        THEN 1 ELSE 0
<1> DEFINE hard == \/ Level(q) = "complex"
                   \/ Level(q) = "medium" /\ q.tokens \notin {"short", "half"}
<1>1. Decision(q) = IF q.type \in WorkflowTypes THEN "workflow"
                    ELSE IF hard THEN "direct_max" ELSE "direct_turbo"
  BY Zenon DEF Decision
<1> HIDE DEF hard
<1>2. /\ Decision(q) = "direct_turbo" => Rank(q) = 0
      /\ Decision(q) = "direct_max" => Rank(q) = 1
      /\ Decision(q) = "workflow" => Rank(q) = 2
  BY DEF Rank
<1>3. q.type \in WorkflowTypes => Rank(q) = 2
  BY <1>1, <1>2
<1>4. q.type \notin WorkflowTypes => Rank(q) = IF hard THEN 1 ELSE 0
  BY <1>1, <1>2
<1> QED
  BY <1>3, <1>4 DEF hard

LEMMA Weaker ==
  ASSUME NEW q \in Queries, NEW r \in Queries, Extends(r, q),
         ~(q.type = "analysis" /\ r.type = "reasoning")
  PROVE  Rank(q) <= Rank(r)
<1>1. /\ TypeOrder[r.type] <= TypeOrder[q.type]
      /\ TokenOrder[q.tokens] <= TokenOrder[r.tokens]
      /\ q.keywords <= r.keywords /\ q.history <= r.history
  BY DEF Extends
<1>2. CASE r.type \in WorkflowTypes
  <2>1. Rank(r) = 2 /\ Rank(q) \in {0, 1, 2}
    BY <1>2, RouteRanks
  <2> QED
    BY <2>1
<1>3. CASE r.type \notin WorkflowTypes
  <2>1. /\ q.type \notin WorkflowTypes /\ TypeScore(q) <= TypeScore(r)
        /\ TypeScore(q) = TypeScore(r) => q.type = r.type
    BY <1>1, <1>3, TypesOrdered
  <2>2. /\ TokenScore(q) <= TokenScore(r)
        /\ r.tokens \in {"short", "half"} => q.tokens \in {"short", "half"}
    BY <1>1, TokensOrdered
  <2>3. Score(q) <= Score(r)
    BY <1>1, <2>1, <2>2, QueryType DEF Score
  <2>4. Level(q) = "complex" => Level(r) = "complex"
    BY <2>3, QueryType DEF Level
  <2>5. Level(q) = "medium" => Level(r) \in {"medium", "complex"}
    <3> SUFFICES ASSUME Level(q) = "medium", ~ (Score(r) >= 14), ~ (Score(r) >= 8 /\ ~FallsShort(r))
                 PROVE  FALSE
      BY DEF Level
    <3>1. Score(q) >= 8 /\ ~FallsShort(q)
      BY DEF Level
    <3>2. \A y \in ShortSums :
            (IF y[1] = "multi_step" THEN 7 ELSE IF y[1] = "analysis" THEN 6
             ELSE IF y[1] = "reasoning" THEN 5 ELSE IF y[1] = "calculation" THEN 2 ELSE 0)
              + y[2] + y[3] + y[4] = 8
      BY DEF ShortSums
    <3>3. Score(r) = 8 /\ FallsShort(r)
      <4>1. FallsShort(r)
        BY <2>3, <3>1, QueryType
      <4>2. Score(r) = 8
        <5>1. r.type \in {"multi_step", "analysis", "reasoning", "calculation", "simple_qa"}
          BY <4>1 DEF FallsShort, ShortSums
        <5>2. TypeScore(r) = IF r.type = "multi_step" THEN 7 ELSE IF r.type = "analysis" THEN 6
                             ELSE IF r.type = "reasoning" THEN 5
                             ELSE IF r.type = "calculation" THEN 2 ELSE 0
          BY <5>1 DEF TypeScore
        <5>3. TypeScore(r) + TokenScore(r) + r.history + r.keywords = 8
          BY <3>2, <4>1, <5>2 DEF FallsShort
        <5> QED
          BY <5>3, QueryType DEF Score
      <4> QED
        BY <4>1, <4>2
    <3>4. /\ TypeScore(q) = TypeScore(r) /\ TokenScore(q) = TokenScore(r)
          /\ q.keywords = r.keywords /\ q.history = r.history
      <4>1. Score(q) = 8
        BY <2>3, <3>1, <3>3, QueryType
      <4> QED
        BY <1>1, <2>1, <2>2, <3>3, <4>1, QueryType DEF Score
    <3>5. FallsShort(q)
      BY <2>1, <3>3, <3>4 DEF FallsShort
    <3> QED
      BY <3>1, <3>5
  <2>6. Rank(q) = 1 => Rank(r) = 1
    BY <1>3, <2>1, <2>2, <2>4, <2>5, RouteRanks
  <2>7. Rank(q) \in {0, 1} /\ Rank(r) \in {0, 1}
    BY <1>3, <2>1, RouteRanks
  <2> QED
    BY <2>6, <2>7
<1> QED
  BY <1>2, <1>3

LEMMA RoutesMonotone == RouteMonotone
  BY Weaker DEF RouteMonotone
-----------------------------------------------------------------------------
\* What an answer stands on does not depend on the limits: it was given over
\* a full set of results that the critic approved (Critic, Executor).
THEOREM AnswersCorrect == Spec => []AnswerIsReviewed
<1>1. RunInv => AnswerIsReviewed
  BY AnswersReviewed
<1> QED
  BY <1>1, RunInvariant, PTL

\* The solver gives reviewed answers, its step limit decides nothing, its
\* collector has the latest runs, and what is added to a query is sent to no
\* weaker a model but for an analysis that becomes reasoning, if the limit has
\* room for a plan whose subtasks are all retried (_run_simple, max_steps).
THEOREM SolverCorrect == LimitHasRoom => (Spec => []SolverIsSound)
<1> SUFFICES ASSUME LimitHasRoom PROVE Spec => []SolverIsSound
  OBVIOUS
<1>1. RunInv /\ CollectedInv => SolverIsSound
  BY AnswersReviewed, StepsSuffice, CollectedIs, RoutesMonotone DEF SolverIsSound
<1> QED
  BY <1>1, RunInvariant, CollectedInvariant, PTL
-----------------------------------------------------------------------------
(* What a verdict means.                                                    *)

LEMMA RatioIs ==
  ASSUME NEW t \in TypedTexts, IsNumber(t)
  PROVE  Ratio(t)[1] \in Int /\ Ratio(t)[2] \in Nat \ {0}
<1>1. CASE t.kind \in {"int", "grouped"}
  <2>1. t.n \in Int
    BY <1>1, TextAssumption
  <2>2. Ratio(t) = <<t.n, 1>>
    BY <1>1 DEF Ratio
  <2> QED
    BY <2>1, <2>2
<1>2. CASE t.kind \in {"decimal", "fraction"} /\ t.d # 0
  <2>1. t.n \in Int /\ t.d \in Int
    BY <1>2, TextAssumption
  <2>2. Ratio(t) = IF t.d < 0 THEN <<-t.n, -t.d>> ELSE <<t.n, t.d>>
    BY <1>2 DEF Ratio
  <2> QED
    BY <1>2, <2>1, <2>2
<1> QED
  BY <1>1, <1>2 DEF IsNumber

\* A multiple, divided.
LEMMA DivWhole ==
  ASSUME NEW w \in Int, NEW e \in Nat \ {0}, NEW q \in Int, w = e * q
  PROVE  w \div e = q
<1>1. w = e * (w \div e) + (w % e) /\ w \div e \in Int /\ w % e \in 0..e - 1
  OBVIOUS
<1> PICK r \in Int, s \in 0..e - 1 : r = w \div e /\ s = w % e
  BY <1>1
<1>2. e * q = e * r + s
  BY <1>1
<1> DEFINE x == q - r
<1>3. x \in Int /\ s = e * x
  BY <1>2
<1> HIDE DEF x
<1>4. ~(x >= 1)
  BY <1>3
<1>5. ~(x <= -1)
  BY <1>3
<1>6. x = 0
  BY <1>3, <1>4, <1>5
<1> QED
  BY <1>6 DEF x

LEMMA DivNegated ==
  ASSUME NEW m \in Int, NEW e \in Nat \ {0}, m % e = 0
  PROVE  (-m) \div e \in Int /\ ((-m) \div e) * e = -m
<1>1. m = e * (m \div e) + (m % e) /\ m \div e \in Int
  OBVIOUS
<1> PICK k \in Int : k = m \div e
  BY <1>1
<1>2. m = e * k
  BY <1>1
<1> PICK w \in Int : w = -m
  OBVIOUS
<1> PICK q \in Int : q = -k
  OBVIOUS
<1>3. w = e * q
  BY <1>2
<1>4. w \div e = q
  BY <1>3, DivWhole
<1>5. q * e = w
  BY <1>3
<1> QED
  BY <1>4, <1>5

\* A quotient, when it is whole.
LEMMA QuotientIs ==
  ASSUME NEW m \in Int, NEW d \in Int, d # 0, Divides(d, m)
  PROVE  Quotient(m, d) \in Int /\ Quotient(m, d) * d = m
<1>1. CASE d > 0
  <2>1. m % d = 0 /\ Quotient(m, d) = m \div d
    BY <1>1 DEF Divides, Quotient
  <2>2. m = d * (m \div d) + (m % d) /\ m \div d \in Int
    BY <1>1
  <2> QED
    BY <1>1, <2>1, <2>2
<1>2. CASE d < 0
  <2> DEFINE e == -d
  <2>1. e \in Nat \ {0} /\ m % e = 0 /\ Quotient(m, d) = (-m) \div e
    BY <1>2 DEF Divides, Quotient
  <2> PICK q : q = (-m) \div e
    OBVIOUS
  <2> HIDE DEF e
  <2>2. q \in Int /\ q * e = -m
    BY <2>1, DivNegated
  <2>3. q * d = m
    BY <2>2 DEF e
  <2> QED
    BY <2>1, <2>2, <2>3
<1> QED
  BY <1>1, <1>2
-----------------------------------------------------------------------------
LEMMA UnitIs == Unit \in Nat \ {0}
  BY TextAssumption

LEMMA QuotientValue ==
  ASSUME NEW t \in TypedTexts, t.kind \in {"decimal", "fraction"}, t.d # 0
  PROVE  /\ Quotient(Unit * t.n, t.d) \in Int
         /\ Quotient(Unit * t.n, t.d) * Ratio(t)[2] = Unit * Ratio(t)[1]
<1>1. t.n \in Int /\ t.d \in Int /\ Divides(t.d, Unit * t.n) /\ Unit \in Int
  <2>1. Unit \in Int
    BY UnitIs
  <2>2. t.n \in Int /\ t.d \in Int /\ (t.d # 0 => Divides(t.d, Unit * t.n))
    BY Zenon, TextAssumption
  <2> QED
    BY <2>1, <2>2
<1> PICK n \in Int, d \in Int, u \in Int, m \in Int :
      n = t.n /\ d = t.d /\ u = Unit /\ m = Unit * t.n
  BY <1>1
<1> PICK q : q = Quotient(m, d)
  OBVIOUS
<1>2. q \in Int /\ q * d = u * n
  BY <1>1, QuotientIs
<1>3. Ratio(t) = IF d < 0 THEN <<-n, -d>> ELSE <<n, d>>
  BY DEF Ratio
<1>4. d < 0 => q * (-d) = u * (-n)
  BY <1>2
<1> QED
  BY <1>2, <1>3, <1>4

\* The value of a text that is a number.
NumberOf(t) == ParseNumber(t)[2]
LEMMA NumberIs ==
  ASSUME NEW t \in TypedTexts, IsNumber(t)
  PROVE  /\ ParseNumber(t) = <<"number", NumberOf(t)>> /\ NumberOf(t) \in Int
         /\ NumberOf(t) * Ratio(t)[2] = Unit * Ratio(t)[1]
<1>1. CASE t.kind \in {"int", "grouped"}
  <2>1. t.n \in Int
    BY <1>1, TextAssumption
  <2> Unit \in Int
    BY UnitIs
  <2>2. ParseNumber(t) = <<"number", Unit * t.n>>
    BY <1>1 DEF ParseNumber
  <2>3. Ratio(t) = <<t.n, 1>>
    BY <1>1 DEF Ratio
  <2> QED
    BY <2>1, <2>2, <2>3 DEF NumberOf
<1>2. CASE t.kind \in {"decimal", "fraction"} /\ t.d # 0
  <2>1. ParseNumber(t) = <<"number", Quotient(Unit * t.n, t.d)>>
    BY <1>2 DEF ParseNumber
  <2> QED
    BY <1>2, <2>1, QuotientValue DEF NumberOf
<1> QED
  BY <1>1, <1>2 DEF IsNumber

LEMMA CancelPositive ==
  ASSUME NEW a \in Int, NEW b \in Int, NEW d \in Nat \ {0}
  PROVE  (a * d = b * d => a = b) /\ (a * d <= b * d <=> a <= b)
<1> DEFINE x == a - b
<1>1. x \in Int /\ a * d - b * d = x * d
  OBVIOUS
<1>2. x >= 1 => x * d >= 1
  BY <1>1
<1>3. x <= 0 => x * d <= 0
  BY <1>1
<1>4. x <= -1 => x * d <= -1
  BY <1>1
<1> QED
  BY <1>1, <1>2, <1>3, <1>4

LEMMA CancelTwo ==
  ASSUME NEW v \in Int, NEW w \in Int, NEW a \in Int, NEW b \in Int,
         NEW u \in Nat \ {0}, NEW f \in Nat \ {0}, v * f = u * a, w * f = u * b
  PROVE  a = b <=> v = w
<1>1. a = b => v * f = w * f
  OBVIOUS
<1>2. v = w => a * u = b * u
  OBVIOUS
<1> QED
  BY <1>1, <1>2, CancelPositive

\* Equal fractions, and the values they are in a unit.
LEMMA CrossMultiply ==
  ASSUME NEW v \in Int, NEW w \in Int, NEW n \in Int, NEW m \in Int, NEW u \in Nat \ {0},
         NEW d \in Nat \ {0}, NEW e \in Nat \ {0}, v * d = u * n, w * e = u * m
  PROVE  n * e = m * d <=> v = w
<1>1. v * d * e = u * (n * e)
  OBVIOUS
<1>2. w * e * d = u * (m * d)
  OBVIOUS
<1>3. d * e \in Nat \ {0} /\ v * d * e = v * (d * e) /\ w * e * d = w * (d * e)
  OBVIOUS
<1>4. PICK f \in Nat \ {0}, a \in Int, b \in Int : f = d * e /\ a = n * e /\ b = m * d
  BY <1>3
<1>5. v * f = u * a /\ w * f = u * b
  BY <1>1, <1>2, <1>3, <1>4
<1>6. a = b <=> v = w
  BY <1>5, CancelTwo
<1>7. n * e = a /\ m * d = b
  BY <1>4
<1> QED
  BY <1>6, <1>7

LEMMA SameNumberIs ==
  ASSUME NEW s \in TypedTexts, NEW t \in TypedTexts, IsNumber(s), IsNumber(t)
  PROVE  SameNumber(s, t) <=> ParseNumber(s) = ParseNumber(t)
<1>1. Ratio(s)[1] \in Int /\ Ratio(s)[2] \in Nat \ {0}
      /\ Ratio(t)[1] \in Int /\ Ratio(t)[2] \in Nat \ {0}
  BY RatioIs
<1>2. PICK n \in Int, d \in Nat \ {0}, m \in Int, e \in Nat \ {0}, u \in Nat \ {0} :
        n = Ratio(s)[1] /\ d = Ratio(s)[2] /\ m = Ratio(t)[1] /\ e = Ratio(t)[2] /\ u = Unit
  BY <1>1, UnitIs
<1>3. ParseNumber(s) = <<"number", NumberOf(s)>> /\ NumberOf(s) \in Int
      /\ ParseNumber(t) = <<"number", NumberOf(t)>> /\ NumberOf(t) \in Int
      /\ NumberOf(s) * d = u * n /\ NumberOf(t) * e = u * m
  BY <1>2, NumberIs
<1>4. PICK v \in Int, w \in Int : v = NumberOf(s) /\ w = NumberOf(t)
  BY <1>3
<1>5. v * d = u * n /\ w * e = u * m
  BY <1>3, <1>4
<1>6. n * e = m * d <=> v = w
  BY ONLY <1>5, CrossMultiply
<1>7. SameNumber(s, t) <=> n * e = m * d
  BY <1>2 DEF SameNumber
<1>8. ParseNumber(s) = ParseNumber(t) <=> v = w
  BY <1>3, <1>4
<1> QED
  BY <1>6, <1>7, <1>8

\* x counted in ds is y counted in us.
Scaled(x, d, u, y) == x * d = u * y
LEMMA ScaledSize ==
  ASSUME NEW x \in Int, NEW y \in Int, NEW d \in Nat \ {0}, NEW u \in Nat \ {0},
         Scaled(x, d, u, y)
  PROVE  /\ Size(x) \in Nat /\ Size(y) \in Nat /\ Scaled(Size(x), d, u, Size(y))
<1> USE DEF Scaled
<1>1. x < 0 => x * d < 0
  OBVIOUS
<1>2. y < 0 => u * y < 0
  OBVIOUS
<1>3. x >= 0 => x * d >= 0
  OBVIOUS
<1>4. y >= 0 => u * y >= 0
  OBVIOUS
<1>5. x < 0 <=> y < 0
  BY <1>1, <1>2, <1>3, <1>4
<1>6. (-x) * d = u * (-y)
  OBVIOUS
<1>7. CASE x < 0
  <2>1. Size(x) = -x /\ Size(y) = -y
    BY <1>5, <1>7 DEF Size
  <2> QED
    BY <1>5, <1>6, <1>7, <2>1
<1>8. CASE x >= 0
  <2>1. Size(x) = x /\ Size(y) = y
    BY <1>5, <1>8 DEF Size
  <2> QED
    BY <1>5, <1>8, <2>1
<1> QED
  BY <1>7, <1>8

LEMMA SizeIs ==
  ASSUME NEW x \in Int, NEW y \in Int
  PROVE  Distance(x, y) = Size(x - y) /\ Distance(x, 0) = Size(x) /\ Size(y - x) = Size(x - y)
BY DEF Distance, Size

\* A difference within the tolerance, in a unit and in fractions.
Tolerated(f, g, r, k, c, d, u) == f * u * r <= c * r * d + u * k * g
LEMMA ScaledTolerance ==
  ASSUME NEW p \in Nat, NEW q \in Nat, NEW f \in Nat, NEW g \in Nat, NEW r \in Nat,
         NEW k \in Nat, NEW c \in Nat, NEW d \in Nat \ {0}, NEW u \in Nat \ {0},
         Scaled(p, d, u, f), Scaled(q, d, u, g)
  PROVE  Tolerated(f, g, r, k, c, d, u) <=> p * r <= c * r + k * q
<1> USE DEF Scaled, Tolerated
<1>1. f * u * r = (p * r) * d
  <2>1. f * u * r = (u * f) * r
    OBVIOUS
  <2>2. (p * r) * d = (p * d) * r
    OBVIOUS
  <2> QED
    BY <2>1, <2>2
<1>2. u * k * g = (k * q) * d
  <2>1. u * k * g = (u * g) * k
    OBVIOUS
  <2>2. (k * q) * d = (q * d) * k
    OBVIOUS
  <2> QED
    BY <2>1, <2>2
<1>3. (c * r + k * q) * d = c * r * d + (k * q) * d
  OBVIOUS
<1>4. p * r \in Int /\ c * r + k * q \in Int
  OBVIOUS
<1> DEFINE x == p * r
           y == c * r + k * q
<1>5. x * d <= y * d <=> x <= y
  <2> x \in Int /\ y \in Int
    BY <1>4
  <2> HIDE DEF x, y
  <2> QED
    BY CancelPositive
<1>6. f * u * r = x * d
  BY <1>1
<1>7. c * r * d + u * k * g = y * d
  BY <1>2, <1>3
<1> DEFINE a == f * u * r
           b == c * r * d + u * k * g
<1>8. a <= b <=> x <= y
  <2> a = x * d /\ b = y * d
    BY <1>6, <1>7
  <2> HIDE DEF a, b, x, y
  <2> QED
    BY <1>5
<1> HIDE DEF a, b, x, y
<1>9. (a <= b) <=> (x <= y)
  BY <1>8
<1> QED
  BY <1>9 DEF a, b, x, y

LEMMA ToleranceIs == Atol \in Nat /\ Rtol[1] \in Nat /\ Rtol[2] \in Nat
BY TextAssumption

LEMMA ScaledValue ==
  ASSUME NEW v \in Int, NEW n \in Int, NEW u \in Nat \ {0}, NEW d \in Nat \ {0},
         NEW e \in Nat \ {0}, v * d = u * n
  PROVE  v * (d * e) = u * (n * e)
<1>1. v * (d * e) = (v * d) * e
  OBVIOUS
<1>2. u * (n * e) = (u * n) * e
  OBVIOUS
<1> QED
  BY <1>1, <1>2

LEMMA ScaledDistance ==
  ASSUME NEW v \in Int, NEW w \in Int, NEW a \in Int, NEW b \in Int,
         NEW u \in Nat \ {0}, NEW f \in Nat \ {0}, Scaled(v, f, u, a), Scaled(w, f, u, b)
  PROVE  /\ Distance(v, w) \in Nat /\ Distance(w, 0) \in Nat
         /\ Size(b - a) \in Nat /\ Size(b) \in Nat
         /\ Scaled(Distance(v, w), f, u, Size(b - a)) /\ Scaled(Distance(w, 0), f, u, Size(b))
<1>0. v * f = u * a /\ w * f = u * b
  BY DEF Scaled
<1>1. (v - w) * f = u * (a - b)
  <2>1. (v - w) * f = v * f - w * f
    OBVIOUS
  <2>2. u * (a - b) = u * a - u * b
    OBVIOUS
  <2> QED
    BY <1>0, <2>1, <2>2
<1>2. PICK x \in Int, y \in Int : x = v - w /\ y = a - b
  OBVIOUS
<1>3. Size(x) \in Nat /\ Size(y) \in Nat /\ Size(x) * f = u * Size(y)
  <2> Scaled(x, f, u, y)
    BY <1>1, <1>2 DEF Scaled
  <2>1. Size(x) \in Nat /\ Size(y) \in Nat /\ Scaled(Size(x), f, u, Size(y))
    BY ScaledSize
  <2> QED
    BY <2>1 DEF Scaled
<1>4. Size(w) \in Nat /\ Size(b) \in Nat /\ Size(w) * f = u * Size(b)
  <2> Scaled(w, f, u, b)
    BY <1>0 DEF Scaled
  <2>1. Size(w) \in Nat /\ Size(b) \in Nat /\ Scaled(Size(w), f, u, Size(b))
    BY ScaledSize
  <2> QED
    BY <2>1 DEF Scaled
<1>5. Distance(v, w) = Size(x) /\ Distance(w, 0) = Size(w)
  BY <1>2, SizeIs
<1>6. Size(b - a) = Size(y)
  BY <1>2, SizeIs
<1> QED
  BY <1>3, <1>4, <1>5, <1>6 DEF Scaled

LEMMA CloseNumberIs ==
  ASSUME NEW s \in TypedTexts, NEW t \in TypedTexts, IsNumber(s), IsNumber(t)
  PROVE  CloseNumber(s, t) <=> Within(NumberOf(s), NumberOf(t))
<1>1. Ratio(s)[1] \in Int /\ Ratio(s)[2] \in Nat \ {0}
      /\ Ratio(t)[1] \in Int /\ Ratio(t)[2] \in Nat \ {0}
  BY RatioIs
<1>2. PICK n \in Int, d \in Nat \ {0}, m \in Int, e \in Nat \ {0}, u \in Nat \ {0} :
        n = Ratio(s)[1] /\ d = Ratio(s)[2] /\ m = Ratio(t)[1] /\ e = Ratio(t)[2] /\ u = Unit
  BY <1>1, UnitIs
<1>3. NumberOf(s) \in Int /\ NumberOf(t) \in Int
      /\ NumberOf(s) * d = u * n /\ NumberOf(t) * e = u * m
  BY <1>2, NumberIs
<1>4. PICK v \in Int, w \in Int : v = NumberOf(s) /\ w = NumberOf(t)
  BY <1>3
<1>5. v * d = u * n /\ w * e = u * m
  BY <1>3, <1>4
<1>6. v * (d * e) = u * (n * e) /\ w * (e * d) = u * (m * d)
  BY ONLY <1>5, ScaledValue
<1>7. d * e \in Nat \ {0} /\ e * d = d * e /\ n * e \in Int /\ m * d \in Int
  OBVIOUS
<1>8. PICK f \in Nat \ {0}, a \in Int, b \in Int : f = d * e /\ a = n * e /\ b = m * d
  BY <1>7
<1>9. Scaled(v, f, u, a) /\ Scaled(w, f, u, b)
  BY <1>6, <1>7, <1>8 DEF Scaled
<1>10. PICK p \in Nat, q \in Nat, x \in Nat, g \in Nat :
         p = Distance(v, w) /\ q = Distance(w, 0) /\ x = Size(b - a) /\ g = Size(b)
         /\ Scaled(p, f, u, x) /\ Scaled(q, f, u, g)
  <2>1. /\ Distance(v, w) \in Nat /\ Distance(w, 0) \in Nat
        /\ Size(b - a) \in Nat /\ Size(b) \in Nat
        /\ Scaled(Distance(v, w), f, u, Size(b - a)) /\ Scaled(Distance(w, 0), f, u, Size(b))
    BY <1>9, ScaledDistance
  <2> QED
    BY <2>1, Zenon
<1>11. PICK c \in Nat, k \in Nat, r \in Nat : c = Atol /\ k = Rtol[1] /\ r = Rtol[2]
  BY ToleranceIs
<1>12. Tolerated(x, g, r, k, c, f, u) <=> p * r <= c * r + k * q
  BY <1>10, ScaledTolerance
<1>13. CloseNumber(s, t) <=> Tolerated(x, g, r, k, c, f, u)
  <2>1. CloseNumber(s, t) <=>
          Size(m * d - n * e) * u * r <= c * r * (d * e) + u * k * Size(m * d)
    BY <1>2, <1>11, Zenon DEF CloseNumber
  <2>2. Size(m * d - n * e) = x /\ Size(m * d) = g /\ d * e = f
    BY <1>8, <1>10, Zenon
  <2> QED
    BY <2>1, <2>2, Zenon DEF Tolerated
<1>14. Within(NumberOf(s), NumberOf(t)) <=> p * r <= c * r + k * q
  BY <1>4, <1>10, <1>11, Zenon DEF Within
<1> QED
  BY <1>12, <1>13, <1>14, Zenon
-----------------------------------------------------------------------------
(* What a group of numbers parses to.                                       *)

LevelBody(f, left) ==
  [t \in TypedTexts |-> IF left = 0 THEN Unreadable ELSE ParseText(f[left - 1], t)]
IsLevels(f, n) == f = [left \in 0..n |-> LevelBody(f, left)]

LEMMA LevelBodyOf ==
  ASSUME NEW f, NEW g, NEW k \in Nat, k # 0 => f[k - 1] = g[k - 1]
  PROVE  LevelBody(f, k) = LevelBody(g, k)
BY DEF LevelBody

LEMMA MoreLevels ==
  ASSUME NEW n \in Nat, NEW f, IsLevels(f, n)
  PROVE  \E g : IsLevels(g, n + 1)
<1> DEFINE g == [left \in 0..n + 1 |-> IF left <= n THEN f[left] ELSE LevelBody(f, left)]
<1>1. ASSUME NEW k \in 0..n + 1 PROVE g[k] = LevelBody(g, k)
  <2>1. g[k] = LevelBody(f, k)
    <3>1. CASE k <= n
      <4>1. k \in 0..n /\ g[k] = f[k]
        BY <3>1
      <4>2. f[k] = LevelBody(f, k)
        BY <4>1, Zenon DEF IsLevels
      <4> QED
        BY <4>1, <4>2
    <3>2. CASE k > n
      BY <3>2
    <3> QED
      BY <3>1, <3>2
  <2>2. k # 0 => f[k - 1] = g[k - 1]
    OBVIOUS
  <2>3. k \in Nat
    OBVIOUS
  <2> HIDE DEF g
  <2>4. LevelBody(f, k) = LevelBody(g, k)
    BY <2>2, <2>3, LevelBodyOf
  <2> QED
    BY <2>1, <2>4
<1>2. g = [left \in 0..n + 1 |-> g[left]]
  OBVIOUS
<1> HIDE DEF g
<1>3. [left \in 0..n + 1 |-> g[left]] = [left \in 0..n + 1 |-> LevelBody(g, left)]
  BY <1>1
<1>4. IsLevels(g, n + 1)
  BY <1>2, <1>3 DEF IsLevels
<1> QED
  BY <1>4

LEMMA LevelsExist == \A n \in Nat : \E f : IsLevels(f, n)
<1> DEFINE N == {n \in Nat : \E f : IsLevels(f, n)}
<1>1. 0 \in N
  <2> DEFINE f == [left \in 0..0 |-> [t \in TypedTexts |-> Unreadable]]
  <2>1. \A k \in 0..0 : f[k] = LevelBody(f, k)
    BY DEF LevelBody
  <2>2. f = [left \in 0..0 |-> f[left]]
    OBVIOUS
  <2> HIDE DEF f
  <2>3. f = [left \in 0..0 |-> LevelBody(f, left)]
    BY <2>1, <2>2
  <2> QED
    BY <2>3 DEF IsLevels
<1>2. ASSUME NEW n \in Nat, n \in N PROVE n + 1 \in N
  <2>1. PICK f : IsLevels(f, n)
    BY <1>2
  <2>2. \E g : IsLevels(g, n + 1)
    BY <2>1, MoreLevels
  <2> QED
    BY <2>2
<1>3. Nat \subseteq N
  <2> HIDE DEF N
  <2> QED
    BY <1>1, <1>2, NatSet
<1> QED
  BY <1>3

LEMMA DepthIs == MaxDepth \in Nat
BY TextAssumption

LEMMA LevelsAre ==
  ASSUME NEW k \in 0..MaxDepth + 1
  PROVE  ParseLevels[k] = LevelBody(ParseLevels, k)
<1>1. MaxDepth + 1 \in Nat
  BY DepthIs
<1>2. PICK f : IsLevels(f, MaxDepth + 1)
  BY <1>1, LevelsExist
<1>3. ParseLevels = CHOOSE h : h = [left \in 0..MaxDepth + 1 |-> LevelBody(h, left)]
  BY DEF ParseLevels, LevelBody
<1>4. ParseLevels = [left \in 0..MaxDepth + 1 |-> LevelBody(ParseLevels, left)]
  BY <1>2, <1>3 DEF IsLevels
<1> QED
  BY <1>4, Zenon

LEMMA NumberLevel ==
  ASSUME NEW t \in TypedTexts, IsNumber(t), NEW k \in 1..MaxDepth + 1
  PROVE  ParseLevels[k][t] = ParseNumber(t)
<1>1. k \in 0..MaxDepth + 1 /\ k # 0
  BY DepthIs
<1>2. ParseLevels[k] = LevelBody(ParseLevels, k)
  BY <1>1, LevelsAre
<1>3. ParseLevels[k][t] = ParseText(ParseLevels[k - 1], t)
  BY <1>1, <1>2 DEF LevelBody
<1>4. t.kind # "group"
  BY DEF IsNumber
<1> QED
  BY <1>3, <1>4 DEF ParseText, IsGroup

\* The values of the items, in order.
Parsed(t) == [i \in DOMAIN t.items |-> ParseNumber(t.items[i])]

LEMMA FlatItems ==
  ASSUME NEW t \in TypedTexts, IsFlat(t)
  PROVE  /\ t.items \in Seq(TypedTexts) /\ ItemsOf(t) = t.items
         /\ \A i \in DOMAIN t.items : t.items[i] \in TypedTexts /\ IsNumber(t.items[i])
<1>1. t.kind = "group"
  BY DEF IsFlat
<1>2. t.items \in Seq(TypedTexts)
  BY <1>1, TextAssumption
<1>3. \A i \in DOMAIN t.items : t.items[i] \in TypedTexts /\ IsNumber(t.items[i])
  BY <1>2 DEF IsFlat
<1>4. CASE Len(t.items) > 1
  <2>1. Len(t.items) \in DOMAIN t.items
    BY <1>2, <1>4
  <2>2. Last(t.items) = t.items[Len(t.items)]
    BY DEF Last
  <2>3. IsNumber(Last(t.items))
    BY <1>3, <2>1, <2>2
  <2>4. Last(t.items).kind # "empty"
    BY <2>3 DEF IsNumber
  <2> QED
    BY <1>2, <1>3, <2>4 DEF ItemsOf
<1>5. CASE ~(Len(t.items) > 1)
  BY <1>2, <1>3, <1>5 DEF ItemsOf
<1> QED
  BY <1>4, <1>5

LEMMA ReadableNumber ==
  ASSUME NEW t \in TypedTexts, IsNumber(t)
  PROVE  ParseNumber(t) # Unreadable
<1>1. ParseNumber(t) = <<"number", NumberOf(t)>>
  BY NumberIs
<1>2. "number" # "unreadable"
  OBVIOUS
<1> HIDE DEF NumberOf
<1> QED
  BY <1>1, <1>2 DEF Unreadable

LEMMA GroupIs ==
  ASSUME NEW t \in TypedTexts, IsFlat(t), Fits(t)
  PROVE  ParseValue(t) =
           IF IsGroup(t, "{", "}") THEN <<"set", ToSet(Parsed(t))>>
           ELSE IF IsGroup(t, "(", ")")
             THEN IF Parsed(t) # << >> THEN <<"tuple", Parsed(t)>> ELSE Unreadable
           ELSE ParseNumber(t)
<1>1. /\ t.items \in Seq(TypedTexts) /\ ItemsOf(t) = t.items
      /\ \A i \in DOMAIN t.items : t.items[i] \in TypedTexts /\ IsNumber(t.items[i])
  BY FlatItems
<1>2. ParseLevels[MaxDepth + 1] = LevelBody(ParseLevels, MaxDepth + 1)
  <2> MaxDepth + 1 \in 0..MaxDepth + 1
    BY DepthIs
  <2> QED
    BY LevelsAre
<1>3. ParseValue(t) = ParseText(ParseLevels[MaxDepth], t)
  <2>1. MaxDepth + 1 # 0 /\ (MaxDepth + 1) - 1 = MaxDepth
    BY DepthIs
  <2> QED
    BY <1>2, <2>1 DEF ParseValue, LevelBody
<1>4. [i \in DOMAIN t.items |-> ParseLevels[MaxDepth][t.items[i]]] = Parsed(t)
  <2>1. ASSUME NEW i \in DOMAIN t.items
        PROVE  ParseLevels[MaxDepth][t.items[i]] = ParseNumber(t.items[i])
    <3>1. t.items # << >>
      BY <1>1
    <3>2. MaxDepth \in 1..MaxDepth + 1
      BY <3>1, DepthIs DEF Fits
    <3> QED
      BY <1>1, <3>2, NumberLevel
  <2> QED
    BY <2>1 DEF Parsed
<1>5. Len(Parsed(t)) <= MaxItems /\ \A i \in DOMAIN Parsed(t) : Parsed(t)[i] # Unreadable
  <2>1. Len(Parsed(t)) = Len(t.items)
    BY <1>1 DEF Parsed
  <2>2. \A i \in DOMAIN Parsed(t) : Parsed(t)[i] # Unreadable
    BY <1>1, ReadableNumber DEF Parsed
  <2> QED
    BY <2>1, <2>2 DEF Fits
<1>6. ParseText(ParseLevels[MaxDepth], t) =
        LET parsed == Parsed(t)
            readable == /\ Len(parsed) <= MaxItems
                        /\ \A i \in DOMAIN parsed : parsed[i] # Unreadable
        IN  IF IsGroup(t, "{", "}")
              THEN IF readable THEN <<"set", ToSet(parsed)>> ELSE Unreadable
            ELSE IF IsGroup(t, "(", ")")
              THEN IF readable /\ parsed # << >> THEN <<"tuple", parsed>> ELSE Unreadable
            ELSE ParseNumber(t)
  BY <1>1, <1>4, Zenon DEF ParseText
<1> QED
  BY <1>3, <1>5, <1>6, Zenon

LEMMA SameItemIs ==
  ASSUME NEW s \in TypedTexts, NEW t \in TypedTexts, IsFlat(s), IsFlat(t),
         NEW i \in DOMAIN s.items, NEW j \in DOMAIN t.items
  PROVE  SameNumber(s.items[i], t.items[j]) <=> Parsed(s)[i] = Parsed(t)[j]
<1>1. /\ s.items[i] \in TypedTexts /\ IsNumber(s.items[i])
      /\ t.items[j] \in TypedTexts /\ IsNumber(t.items[j])
  BY FlatItems
<1>2. Parsed(s)[i] = ParseNumber(s.items[i]) /\ Parsed(t)[j] = ParseNumber(t.items[j])
  BY DEF Parsed
<1> QED
  BY <1>1, <1>2, SameNumberIs

LEMMA AmongIs ==
  ASSUME NEW s \in TypedTexts, NEW t \in TypedTexts, IsFlat(s), IsFlat(t)
  PROVE  AmongItems(s, t) <=> ToSet(Parsed(s)) \subseteq ToSet(Parsed(t))
<1>1. \A i \in DOMAIN s.items, j \in DOMAIN t.items :
        SameNumber(s.items[i], t.items[j]) <=> Parsed(s)[i] = Parsed(t)[j]
  BY SameItemIs
<1>2. DOMAIN Parsed(s) = DOMAIN s.items /\ DOMAIN Parsed(t) = DOMAIN t.items
  BY DEF Parsed
<1>3. /\ \A x : x \in ToSet(Parsed(s)) <=> \E i \in DOMAIN s.items : x = Parsed(s)[i]
      /\ \A x : x \in ToSet(Parsed(t)) <=> \E i \in DOMAIN t.items : x = Parsed(t)[i]
  BY <1>2 DEF ToSet
<1> QED
  BY <1>1, <1>3 DEF AmongItems

LEMMA SameItemsIs ==
  ASSUME NEW s \in TypedTexts, NEW t \in TypedTexts, IsFlat(s), IsFlat(t)
  PROVE  /\ SameItems(s, t) <=> Parsed(s) = Parsed(t)
         /\ Parsed(s) = << >> <=> s.items = << >>
<1>1. s.items \in Seq(TypedTexts) /\ t.items \in Seq(TypedTexts)
  BY FlatItems
<1>2. \A i \in DOMAIN s.items, j \in DOMAIN t.items :
        SameNumber(s.items[i], t.items[j]) <=> Parsed(s)[i] = Parsed(t)[j]
  BY SameItemIs
<1>3. /\ DOMAIN Parsed(s) = 1..Len(s.items) /\ DOMAIN Parsed(t) = 1..Len(t.items)
      /\ Parsed(s) = [i \in 1..Len(s.items) |-> Parsed(s)[i]]
      /\ Parsed(t) = [i \in 1..Len(t.items) |-> Parsed(t)[i]]
      /\ DOMAIN s.items = 1..Len(s.items) /\ DOMAIN t.items = 1..Len(t.items)
      /\ Len(Parsed(s)) = Len(s.items) /\ Len(Parsed(t)) = Len(t.items)
  BY <1>1 DEF Parsed
<1>4. ASSUME SameItems(s, t) PROVE Parsed(s) = Parsed(t)
  <2>1. Len(s.items) = Len(t.items)
    BY <1>4 DEF SameItems
  <2>2. \A i \in 1..Len(s.items) : Parsed(s)[i] = Parsed(t)[i]
    BY <1>2, <1>3, <1>4, <2>1 DEF SameItems
  <2> QED
    BY <1>3, <2>1, <2>2
<1>5. ASSUME Parsed(s) = Parsed(t) PROVE SameItems(s, t)
  <2>1. Len(s.items) = Len(t.items)
    BY <1>3, <1>5
  <2> QED
    BY <1>2, <1>3, <1>5, <2>1 DEF SameItems
<1>6. Parsed(s) = << >> <=> s.items = << >>
  <2>1. Len(s.items) \in Nat
    BY <1>1
  <2>2. s.items = << >> <=> Len(s.items) = 0
    BY <1>1
  <2>3. Parsed(s) = << >> => Len(s.items) = 0
    BY <1>3
  <2>4. Len(s.items) = 0 => Parsed(s) = << >>
    BY <1>3
  <2> QED
    BY <2>2, <2>3, <2>4
<1> QED
  BY <1>4, <1>5, <1>6
-----------------------------------------------------------------------------
(* The typed verifiers, type by type.                                       *)

DecidedAs(type, s, t) ==
  /\ Verify(type, s, t) \in {"correct", "incorrect"}
  /\ Verify(type, s, t) = "correct" <=> Equal(s, t)

\* Both parse to values of the type.
LEMMA VerifyParsed ==
  ASSUME NEW type, NEW s, NEW t, NEW p, NEW r, type # "real",
         ParseAs(type, s) = <<Kind(type), p>>, ParseAs(type, t) = <<Kind(type), r>>,
         Kind(type) \in {"number", "set", "tuple", "interval"}
  PROVE  Verify(type, s, t) = IF p = r THEN "correct" ELSE "incorrect"
<1>1. <<Kind(type), p>> # Unreadable /\ <<Kind(type), r>> # Unreadable
  BY DEF Unreadable
<1>2. ParseAs(type, s)[1] = Kind(type) /\ ParseAs(type, t)[1] = Kind(type)
  OBVIOUS
<1>3. ParseAs(type, s) # Unreadable /\ ParseAs(type, t) # Unreadable
  BY <1>1, Zenon
<1>4. ParseAs(type, s) = ParseAs(type, t) <=> p = r
  OBVIOUS
<1> QED
  BY <1>2, <1>3, <1>4, Zenon DEF Verify

LEMMA ExactDecided ==
  ASSUME NEW s \in TypedTexts, NEW t \in TypedTexts, answerType \in {"integer", "rational"},
         Denotes(s), Denotes(t)
  PROVE  DecidedAs(answerType, s, t)
<1>1. \A u \in {s, t} : IsNumber(u) /\ ParseAs(answerType, u) = ParseNumber(u)
  <2> SUFFICES ASSUME NEW u \in {s, t}
               PROVE  IsNumber(u) /\ ParseAs(answerType, u) = ParseNumber(u)
    OBVIOUS
  <2> Denotes(u)
    OBVIOUS
  <2>1. CASE answerType = "integer"
    <3>1. u.kind \in {"int", "grouped"}
      BY <2>1 DEF Denotes
    <3> QED
      BY <2>1, <3>1 DEF IsNumber, ParseAs, ParseInteger, ParseNumber
  <2>2. CASE answerType = "rational"
    <3>1. IsNumber(u)
      BY <2>2 DEF Denotes
    <3> QED
      BY <2>2, <3>1 DEF ParseAs
  <2> QED
    BY <2>1, <2>2
<1>2. /\ ParseAs(answerType, s) = <<"number", NumberOf(s)>>
      /\ ParseAs(answerType, t) = <<"number", NumberOf(t)>>
  BY <1>1, NumberIs
<1>3. Kind(answerType) = "number" /\ answerType # "real"
  BY DEF Kind
<1>4. Verify(answerType, s, t) = IF NumberOf(s) = NumberOf(t) THEN "correct" ELSE "incorrect"
  <2> Kind(answerType) \in {"number", "set", "tuple", "interval"}
    BY <1>3
  <2>1. /\ ParseAs(answerType, s) = <<Kind(answerType), NumberOf(s)>>
        /\ ParseAs(answerType, t) = <<Kind(answerType), NumberOf(t)>>
    BY <1>2, <1>3, Zenon
  <2> HIDE DEF NumberOf
  <2> QED
    BY <1>3, <2>1, VerifyParsed
<1>5. Equal(s, t) <=> ParseNumber(s) = ParseNumber(t)
  <2>1. Equal(s, t) <=> SameNumber(s, t)
    BY DEF Equal
  <2> QED
    BY <1>1, <2>1, SameNumberIs
<1>6. ParseNumber(s) = ParseNumber(t) <=> NumberOf(s) = NumberOf(t)
  <2>1. ParseNumber(s) = <<"number", NumberOf(s)>> /\ ParseNumber(t) = <<"number", NumberOf(t)>>
    BY <1>1, NumberIs
  <2> HIDE DEF NumberOf
  <2> QED
    BY <2>1
<1> QED
  BY <1>4, <1>5, <1>6 DEF DecidedAs

LEMMA RealDecided ==
  ASSUME NEW s \in TypedTexts, NEW t \in TypedTexts, answerType = "real",
         Denotes(s), Denotes(t)
  PROVE  DecidedAs(answerType, s, t)
<1>1. IsNumber(s) /\ IsNumber(t)
  BY DEF Denotes
<1>2. ParseNumber(s) = <<"number", NumberOf(s)>> /\ ParseNumber(t) = <<"number", NumberOf(t)>>
  BY <1>1, NumberIs
<1>3. ParseAs("real", s) = ParseNumber(s) /\ ParseAs("real", t) = ParseNumber(t)
  BY DEF ParseAs
<1>4. ParseNumber(s) # Unreadable /\ ParseNumber(t) # Unreadable
  BY <1>1, ReadableNumber
<1>5. /\ ParseNumber(s)[1] = "number" /\ ParseNumber(s)[2] = NumberOf(s)
      /\ ParseNumber(t)[1] = "number" /\ ParseNumber(t)[2] = NumberOf(t)
  <2> HIDE DEF NumberOf
  <2> QED
    BY <1>2
<1>6. Kind("real") = "number"
  BY DEF Kind
<1>7. Verify("real", s, t) =
        IF Within(NumberOf(s), NumberOf(t)) THEN "correct" ELSE "incorrect"
  BY <1>3, <1>4, <1>5, <1>6, Zenon DEF Verify
<1>8. Equal(s, t) <=> CloseNumber(s, t)
  BY DEF Equal
<1>9. CloseNumber(s, t) <=> Within(NumberOf(s), NumberOf(t))
  BY <1>1, CloseNumberIs
<1> QED
  BY <1>7, <1>8, <1>9 DEF DecidedAs

LEMMA GroupDecided ==
  ASSUME NEW s \in TypedTexts, NEW t \in TypedTexts, answerType \in {"set", "tuple"},
         Denotes(s), Denotes(t)
  PROVE  DecidedAs(answerType, s, t)
<1>1. CASE answerType = "set"
  <2>1. /\ IsFlat(s) /\ IsGroup(s, "{", "}") /\ Fits(s)
        /\ IsFlat(t) /\ IsGroup(t, "{", "}") /\ Fits(t)
    BY <1>1 DEF Denotes
  <2>2. ParseValue(s) = <<"set", ToSet(Parsed(s))>> /\ ParseValue(t) = <<"set", ToSet(Parsed(t))>>
    BY <2>1, GroupIs
  <2>3. ParseAs("set", s) = ParseValue(s) /\ ParseAs("set", t) = ParseValue(t) /\ Kind("set") = "set"
    BY DEF ParseAs, Kind
  <2>4. Verify("set", s, t) = IF ToSet(Parsed(s)) = ToSet(Parsed(t)) THEN "correct" ELSE "incorrect"
    BY <2>2, <2>3, VerifyParsed
  <2>5. Equal(s, t) <=> AmongItems(s, t) /\ AmongItems(t, s)
    BY <1>1 DEF Equal
  <2>6. /\ AmongItems(s, t) <=> ToSet(Parsed(s)) \subseteq ToSet(Parsed(t))
        /\ AmongItems(t, s) <=> ToSet(Parsed(t)) \subseteq ToSet(Parsed(s))
    BY <2>1, AmongIs
  <2>7. Equal(s, t) <=> ToSet(Parsed(s)) = ToSet(Parsed(t))
    BY <2>5, <2>6, Zenon
  <2> QED
    BY <1>1, <2>4, <2>7 DEF DecidedAs
<1>2. CASE answerType = "tuple"
  <2>1. /\ IsFlat(s) /\ IsGroup(s, "(", ")") /\ Fits(s) /\ s.items # << >>
        /\ IsFlat(t) /\ IsGroup(t, "(", ")") /\ Fits(t) /\ t.items # << >>
    BY <1>2 DEF Denotes
  <2>2. ~IsGroup(s, "{", "}") /\ ~IsGroup(t, "{", "}")
    BY <2>1 DEF IsGroup
  <2>3. Parsed(s) # << >> /\ Parsed(t) # << >>
    BY <2>1, SameItemsIs
  <2>4. ParseValue(s) = <<"tuple", Parsed(s)>> /\ ParseValue(t) = <<"tuple", Parsed(t)>>
    BY <2>1, <2>2, <2>3, GroupIs, Zenon
  <2>5. ParseAs("tuple", s) = ParseValue(s) /\ ParseAs("tuple", t) = ParseValue(t)
        /\ Kind("tuple") = "tuple"
    BY DEF ParseAs, Kind
  <2>6. Verify("tuple", s, t) = IF Parsed(s) = Parsed(t) THEN "correct" ELSE "incorrect"
    BY <2>4, <2>5, VerifyParsed
  <2>7. Equal(s, t) <=> SameItems(s, t)
    BY <1>2 DEF Equal
  <2>8. Equal(s, t) <=> Parsed(s) = Parsed(t)
    BY <2>1, <2>7, SameItemsIs
  <2> QED
    BY <1>2, <2>6, <2>8 DEF DecidedAs
<1> QED
  BY <1>1, <1>2

LEMMA IntervalIs ==
  ASSUME NEW t \in TypedTexts, answerType = "interval", Denotes(t)
  PROVE  /\ ParseInterval(t) =
              <<"interval", <<t.open = "(", t.close = ")", Parsed(t)[1], Parsed(t)[2]>>>>
         /\ IsFlat(t) /\ t.open \in {"(", "["} /\ t.close \in {")", "]"}
         /\ Parsed(t) = <<Parsed(t)[1], Parsed(t)[2]>>
<1>1. IsFlat(t) /\ Len(t.items) = 2 /\ t.open # "{" /\ t.close # "}" /\ t.kind = "group"
  BY DEF Denotes, IsFlat
<1>2. t.open \in {"(", "["} /\ t.close \in {")", "]"}
  BY <1>1, TextAssumption
<1>3. /\ t.items \in Seq(TypedTexts) /\ ItemsOf(t) = t.items
      /\ \A i \in DOMAIN t.items : t.items[i] \in TypedTexts /\ IsNumber(t.items[i])
  BY <1>1, FlatItems
<1>4. DOMAIN t.items = 1..2
  <2>1. PICK q \in Seq(TypedTexts) : q = t.items
    BY <1>3
  <2>2. DOMAIN q = 1..Len(q)
    OBVIOUS
  <2> QED
    BY <1>1, <2>1, <2>2
<1>5. \A i \in 1..2 : ParseNumber(t.items[i]) # Unreadable
  BY <1>3, <1>4, ReadableNumber
<1>6. Parsed(t)[1] = ParseNumber(t.items[1]) /\ Parsed(t)[2] = ParseNumber(t.items[2])
  BY <1>4 DEF Parsed
<1>7. Parsed(t) = <<Parsed(t)[1], Parsed(t)[2]>>
  BY <1>4 DEF Parsed
<1>8. ParseInterval(t) =
        <<"interval", <<t.open = "(", t.close = ")",
                        ParseNumber(t.items[1]), ParseNumber(t.items[2])>>>>
  BY <1>1, <1>2, <1>3, <1>5, Zenon DEF ParseInterval
<1> QED
  BY <1>1, <1>2, <1>6, <1>7, <1>8, Zenon

LEMMA IntervalDecided ==
  ASSUME NEW s \in TypedTexts, NEW t \in TypedTexts, answerType = "interval",
         Denotes(s), Denotes(t)
  PROVE  DecidedAs(answerType, s, t)
<1>1. /\ ParseInterval(s) =
           <<"interval", <<s.open = "(", s.close = ")", Parsed(s)[1], Parsed(s)[2]>>>>
      /\ IsFlat(s) /\ s.open \in {"(", "["} /\ s.close \in {")", "]"}
      /\ Parsed(s) = <<Parsed(s)[1], Parsed(s)[2]>>
  BY IntervalIs
<1>2. /\ ParseInterval(t) =
           <<"interval", <<t.open = "(", t.close = ")", Parsed(t)[1], Parsed(t)[2]>>>>
      /\ IsFlat(t) /\ t.open \in {"(", "["} /\ t.close \in {")", "]"}
      /\ Parsed(t) = <<Parsed(t)[1], Parsed(t)[2]>>
  BY IntervalIs
<1>3. ParseAs("interval", s) = ParseInterval(s) /\ ParseAs("interval", t) = ParseInterval(t)
      /\ Kind("interval") = "interval"
  BY DEF ParseAs, Kind
<1>4. PICK p, r : /\ p = <<s.open = "(", s.close = ")", Parsed(s)[1], Parsed(s)[2]>>
                  /\ r = <<t.open = "(", t.close = ")", Parsed(t)[1], Parsed(t)[2]>>
  OBVIOUS
<1>5. Verify("interval", s, t) = IF p = r THEN "correct" ELSE "incorrect"
  <2>1. ParseAs("interval", s) = <<"interval", p>> /\ ParseAs("interval", t) = <<"interval", r>>
    BY <1>1, <1>2, <1>3, <1>4, Zenon
  <2> QED
    BY <1>3, <2>1, VerifyParsed
<1>6. p = r <=> /\ (s.open = "(") = (t.open = "(") /\ (s.close = ")") = (t.close = ")")
                /\ Parsed(s)[1] = Parsed(t)[1] /\ Parsed(s)[2] = Parsed(t)[2]
  <2>1. /\ p[1] = (s.open = "(") /\ p[2] = (s.close = ")")
        /\ p[3] = Parsed(s)[1] /\ p[4] = Parsed(s)[2]
    BY <1>4
  <2>2. /\ r[1] = (t.open = "(") /\ r[2] = (t.close = ")")
        /\ r[3] = Parsed(t)[1] /\ r[4] = Parsed(t)[2]
    BY <1>4
  <2> QED
    BY <1>4, <2>1, <2>2, Zenon
<1>7. /\ (s.open = "(") = (t.open = "(") <=> s.open = t.open
      /\ (s.close = ")") = (t.close = ")") <=> s.close = t.close
  BY <1>1, <1>2
<1>8. Parsed(s) = Parsed(t) <=> Parsed(s)[1] = Parsed(t)[1] /\ Parsed(s)[2] = Parsed(t)[2]
  BY <1>1, <1>2, Zenon
<1>9. SameItems(s, t) <=> Parsed(s) = Parsed(t)
  BY <1>1, <1>2, SameItemsIs
<1>10. Equal(s, t) <=> s.open = t.open /\ s.close = t.close /\ SameItems(s, t)
  BY Zenon DEF Equal
<1> QED
  BY <1>5, <1>6, <1>7, <1>8, <1>9, <1>10, Zenon DEF DecidedAs
-----------------------------------------------------------------------------
(* The comparator, and the loop over the forms.                             *)

SamePoints(s, t) == answerType = "expression" => Confirmed(s, t)
Judged(verdict, s, t) ==
  /\ verdict \in {"correct", "incorrect"} \cup NotMade
  /\ verdict = "correct" => Equal(s, t) \/ Near(s, t)
  /\ verdict \notin NotMade /\ Equal(s, t) /\ SamePoints(s, t) => verdict = "correct"

LEMMA CutIsNotMade ==
  ASSUME answerType = "expression",
         NEW verdict \in {"invalid_prediction", "invalid_reference"}, NEW s, NEW t
  PROVE  Judged(verdict, s, t)
BY DEF Judged, NotMade

LEMMA WordJudged ==
  ASSUME NEW s \in Operands, NEW t \in Operands, answerType = "expression",
         "word" \in {s.is, t.is}, Denotes(s), Denotes(t), NEW effort
  PROVE  Judged(CompareExpressions(s, t, effort), s, t)
<1>1. s.is \in {"word", "value"} /\ t.is \in {"word", "value"}
  BY DEF Denotes
<1>2. CompareExpressions(s, t, effort) = IF s = t THEN "correct" ELSE "incorrect"
  BY <1>1 DEF CompareExpressions
<1>3. Equal(s, t) <=> s = t
  BY DEF Equal
<1> QED
  BY <1>2, <1>3 DEF Judged

\* The samples that agree are those within the tolerance.
LEMMA AgreeIsClose ==
  ASSUME NEW s \in Operands, NEW t \in Operands, s.is = "value", t.is = "value",
         NEW S \in SUBSET Points, \A x \in S : NoFloat \notin {s.at[x], t.at[x]}
  PROVE  AgreeAt(s, t, S) <=> SampledClose(s, t, S)
<1>1. s.at \in [Points -> Int \cup {NoFloat}] /\ t.at \in [Points -> Int \cup {NoFloat}]
  BY FormsAssumption
<1>2. \A x \in S : s.at[x] \in Int /\ t.at[x] \in Int
  BY <1>1
<1>3. \A a, b \in Int : Distance(a, b) = Size(a - b) /\ Distance(b, 0) = Size(b)
  BY DEF Distance, Size
<1>4. \A x, y \in S :
        /\ Distance(s.at[x], t.at[x]) = Size(s.at[x] - t.at[x])
        /\ Distance(t.at[y], 0) = Size(t.at[y])
  BY <1>2, <1>3
<1>5. \A x, y \in S :
        WithinCross(Distance(s.at[x], t.at[x]), Distance(t.at[y], 0)) <=>
          Size(s.at[x] - t.at[x]) * CrossRtol[2] <=
            CrossAtol * CrossRtol[2] + CrossRtol[1] * Size(t.at[y])
  <2> SUFFICES ASSUME NEW x \in S, NEW y \in S
               PROVE  WithinCross(Distance(s.at[x], t.at[x]), Distance(t.at[y], 0)) <=>
                        Size(s.at[x] - t.at[x]) * CrossRtol[2] <=
                          CrossAtol * CrossRtol[2] + CrossRtol[1] * Size(t.at[y])
    OBVIOUS
  <2> QED
    BY <1>4, Zenon DEF WithinCross
<1> QED
  BY <1>5, Zenon DEF AgreeAt, SampledClose

\* What comparing two values of different strings returns.
LEMMA ValuesCompared ==
  ASSUME NEW s \in Operands, NEW t \in Operands, answerType = "expression",
         s.is = "value", t.is = "value", NEW effort \in Efforts
  PROVE  LET verdict == CompareValues(s, t, effort)
         IN  /\ verdict \in {"correct", "incorrect", "invalid_prediction"}
             /\ verdict = "correct" => s.function = t.function \/ Near(s, t)
             /\ s.function = t.function /\ Confirmed(s, t) => verdict = "correct"
<1> DEFINE verdict == CompareValues(s, t, effort)
           settled == effort.settled \/ (s.written /\ t.written)
           S == Evaluated(s, t, effort.draws)
<1>1. S \in SUBSET Points /\ \A x \in S : NoFloat \notin {s.at[x], t.at[x]}
  BY DEF Evaluated, Efforts, Draws
<1>2. AgreeAt(s, t, S) <=> SampledClose(s, t, S)
  BY <1>1, AgreeIsClose
<1>3. verdict = IF settled /\ s.function = t.function
                  THEN IF s.domain = t.domain \/ ~effort.singular THEN "correct" ELSE "incorrect"
                ELSE IF settled /\ s.function[1] = t.function[1] THEN "incorrect"
                ELSE IF s.symbols # t.symbols THEN "incorrect"
                ELSE IF S = {} THEN "invalid_prediction"
                ELSE IF AgreeAt(s, t, S) THEN "correct" ELSE "incorrect"
  BY DEF CompareValues
<1> HIDE DEF verdict, S
<1>4. verdict \in {"correct", "incorrect", "invalid_prediction"}
  BY <1>3, Zenon
<1>5. ASSUME verdict = "correct", s.function # t.function
      PROVE  Near(s, t)
  <2>1. /\ ~(settled /\ s.function[1] = t.function[1]) /\ s.symbols = t.symbols
        /\ S # {} /\ SampledClose(s, t, S)
    BY <1>2, <1>3, <1>5
  <2>2. ~(s.written /\ t.written)
    BY <2>1, FormsAssumption
  <2>3. S \in Draws
    BY <1>1, <2>1 DEF Draws
  <2> QED
    BY <2>1, <2>2, <2>3 DEF Near
<1>6. ASSUME s.function = t.function, Confirmed(s, t)
      PROVE  verdict = "correct"
  <2>1. s.domain = t.domain /\ s.symbols = t.symbols
        /\ \A x \in Points : SampledClose(s, t, {x})
    BY <1>6 DEF Confirmed
  <2>2. CASE settled
    BY <1>3, <1>6, <2>1, <2>2
  <2>3. CASE ~settled
    <3>1. effort.draws \in SUBSET Points /\ effort.draws # {}
      BY DEF Efforts, Draws
    <3>2. \A x \in Points : NoFloat \notin {s.at[x], t.at[x]}
      BY <2>1 DEF SampledClose
    <3>3. S = effort.draws
      BY <3>1, <3>2 DEF S, Evaluated
    <3>4. SampledClose(s, t, S)
      BY <2>1, <3>1, <3>3 DEF SampledClose
    <3> QED
      BY <1>2, <1>3, <2>1, <2>3, <3>1, <3>3, <3>4
  <2> QED
    BY <2>2, <2>3
<1> QED
  BY <1>4, <1>5, <1>6 DEF verdict

LEMMA ValueJudged ==
  ASSUME NEW s \in Operands, NEW t \in Operands, answerType = "expression",
         s.is = "value", t.is = "value", NEW effort \in Efforts
  PROVE  Judged(CompareExpressions(s, t, effort), s, t)
<1>1. BothParse(s, t, effort.cut) \in {"ok", "invalid_prediction", "invalid_reference"}
  <2>1. \A i \in DOMAIN Stages : Stages[i] \notin {s.is, t.is}
    BY DEF Stages
  <2> QED
    BY <2>1 DEF BothParse
<1>2. SameString(s, t) <=> s.canon = t.canon
  BY DEF SameString
<1>3. CompareExpressions(s, t, effort) =
        IF BothParse(s, t, effort.cut) # "ok" THEN BothParse(s, t, effort.cut)
        ELSE IF s.canon = t.canon THEN "correct" ELSE CompareValues(s, t, effort)
  BY <1>2 DEF CompareExpressions
<1>4. s.canon = t.canon => s.function = t.function
  BY FormsAssumption
<1>5. Equal(s, t) <=> s.function = t.function
  BY DEF Equal
<1>6. CASE BothParse(s, t, effort.cut) # "ok"
  BY <1>1, <1>3, <1>6, CutIsNotMade
<1>7. CASE BothParse(s, t, effort.cut) = "ok" /\ s.canon = t.canon
  BY <1>3, <1>4, <1>5, <1>7 DEF Judged
<1>8. CASE BothParse(s, t, effort.cut) = "ok" /\ s.canon # t.canon
  <2>1. CompareExpressions(s, t, effort) = CompareValues(s, t, effort)
    BY <1>3, <1>8
  <2>2. SamePoints(s, t) <=> Confirmed(s, t)
    BY DEF SamePoints
  <2>3. "invalid_prediction" \in NotMade
    BY DEF NotMade
  <2> QED
    BY <1>5, <2>1, <2>2, <2>3, ValuesCompared DEF Judged
<1> QED
  BY <1>6, <1>7, <1>8

AnswersOf(type) == IF type = "expression" THEN Operands ELSE TypedTexts

\* What comparing two answers returns, when each denotes something.
LEMMA StatusJudged ==
  ASSUME answerType \in AnswerTypes, prediction \in AnswersOf(answerType),
         NEW form \in AnswersOf(answerType), Denotes(prediction), Denotes(form),
         NEW verdict \in Statuses(form)
  PROVE  Judged(verdict, prediction, form)
<1>1. CASE answerType = "expression"
  <2>1. prediction \in Operands /\ form \in Operands
    BY <1>1 DEF AnswersOf
  <2>2. \A effort \in Efforts : Judged(CompareExpressions(prediction, form, effort),
                                       prediction, form)
    <3> SUFFICES ASSUME NEW effort \in Efforts
                 PROVE  Judged(CompareExpressions(prediction, form, effort), prediction, form)
      OBVIOUS
    <3>1. CASE "word" \in {prediction.is, form.is}
      BY <1>1, <2>1, <3>1, WordJudged
    <3>2. CASE "word" \notin {prediction.is, form.is}
      <4>1. prediction.is = "value" /\ form.is = "value"
        BY <1>1, <3>2 DEF Denotes
      <4> QED
        BY <1>1, <2>1, <4>1, ValueJudged
    <3> QED
      BY <3>1, <3>2
  <2>3. verdict \in {"timeout", "internal_error"} => Judged(verdict, prediction, form)
    BY DEF Judged, NotMade
  <2>4. \/ verdict \in {"timeout", "internal_error"}
        \/ \E effort \in Efforts : verdict = CompareExpressions(prediction, form, effort)
    BY <1>1 DEF Statuses
  <2> QED
    BY <2>2, <2>3, <2>4
<1>2. CASE answerType # "expression"
  <2>1. prediction \in TypedTexts /\ form \in TypedTexts
    BY <1>2 DEF AnswersOf
  <2>2. verdict = Verify(answerType, prediction, form)
    BY <1>2 DEF Statuses
  <2>3. answerType \in {"integer", "rational", "real", "set", "tuple", "interval"}
    BY <1>2 DEF AnswerTypes
  <2>4. DecidedAs(answerType, prediction, form)
    BY <2>1, <2>3, ExactDecided, RealDecided, GroupDecided, IntervalDecided
  <2> QED
    BY <1>2, <2>2, <2>4 DEF DecidedAs, Judged, NotMade
<1> QED
  BY <1>1, <1>2

Closing == {"correct", "invalid_reference"}
VerdictTypes ==
  /\ answerType \in AnswerTypes
  /\ prediction \in AnswersOf(answerType) /\ forms \in Seq(AnswersOf(answerType))
  /\ tried \in Seq(VerifierStatus) /\ Len(tried) <= Len(forms)
  /\ best \in {NoStatus} \cup (VerifierStatus \ Closing)
  /\ result \in {NoStatus} \cup VerifierStatus
TriedForms == \A i \in 1..Len(tried) : tried[i] \in Statuses(forms[i])
EndedAtOnce == \A i \in 1..Len(tried) : tried[i] \in Closing => result = tried[i]
ResultIs ==
  result # NoStatus =>
    \/ Len(tried) > 0 /\ result = tried[Len(tried)] /\ result \in Closing
    \/ Len(tried) = Len(forms) /\ result = best
VerdictInv == VerdictTypes /\ TriedForms /\ EndedAtOnce /\ ResultIs

LEMMA VerdictStart == vInit => VerdictInv
<1> SUFFICES ASSUME vInit PROVE VerdictInv
  OBVIOUS
<1>1. /\ answerType \in AnswerTypes /\ prediction \in AnswersOf(answerType)
      /\ forms \in UNION {[1..n -> AnswersOf(answerType)] : n \in 1..MaxForms}
      /\ tried = << >> /\ best = NoStatus /\ result = NoStatus
  BY Zenon DEF vInit, AnswersOf
<1>2. MaxForms \in Nat
  BY FormsAssumption
<1>3. PICK n \in 1..MaxForms : forms \in [1..n -> AnswersOf(answerType)]
  BY <1>1
<1>4. forms \in Seq(AnswersOf(answerType)) /\ Len(forms) \in Nat
  BY <1>2, <1>3
<1> QED
  BY <1>1, <1>4 DEF VerdictInv, VerdictTypes, TriedForms, EndedAtOnce, ResultIs

LEMMA TriedMore ==
  ASSUME VerdictInv, NEW verdict \in VerifierStatus, TryForm(verdict)
  PROVE  VerdictInv'
<1>1. /\ result = NoStatus /\ Len(tried) < Len(forms) /\ verdict \in Statuses(forms[Len(tried) + 1])
      /\ tried' = Append(tried, verdict) /\ UNCHANGED <<answerType, prediction, forms>>
  BY DEF TryForm, NextForm
<1>2. \/ verdict \in Closing /\ result' = verdict /\ best' = best
      \/ verdict \notin Closing /\ best' \in {best, verdict} /\ result' = result
  BY DEF TryForm, Closing
<1>3. PICK n \in Nat : n = Len(tried)
  BY DEF VerdictInv, VerdictTypes
<1>4. /\ Len(tried') = n + 1 /\ tried'[n + 1] = verdict /\ tried' \in Seq(VerifierStatus)
      /\ \A i \in 1..n : tried'[i] = tried[i]
  <2>1. tried \in Seq(VerifierStatus)
    BY DEF VerdictInv, VerdictTypes
  <2> QED
    BY <1>1, <1>3, <2>1
<1>5. NoStatus \notin VerifierStatus /\ Closing \subseteq VerifierStatus
  BY FormsAssumption DEF Closing, VerifierStatus
<1>6. \A i \in 1..n : tried[i] \notin Closing
  BY <1>1, <1>3, <1>5 DEF VerdictInv, EndedAtOnce
<1>7. \A i \in 1..n + 1 : i \in 1..n \/ i = n + 1
  BY <1>3
<1>8. VerdictTypes'
  <2>1. Len(forms) \in Nat
    BY DEF VerdictInv, VerdictTypes
  <2>2. Len(tried') <= Len(forms')
    BY <1>1, <1>3, <1>4, <2>1
  <2>3. AnswersOf(answerType)' = AnswersOf(answerType)
    BY <1>1 DEF AnswersOf
  <2> QED
    BY <1>1, <1>2, <1>4, <1>5, <2>2, <2>3 DEF VerdictInv, VerdictTypes
<1>9. TriedForms'
  <2>1. ASSUME NEW i \in 1..n + 1 PROVE tried'[i] \in Statuses(forms[i])
    <3>1. CASE i \in 1..n
      BY <1>3, <1>4, <3>1 DEF VerdictInv, TriedForms
    <3>2. CASE i = n + 1
      BY <1>1, <1>3, <1>4, <3>2
    <3> QED
      BY <1>7, <3>1, <3>2
  <2>2. ASSUME NEW i \in 1..n + 1 PROVE tried'[i] \in Statuses(forms[i])'
    BY <1>1, <2>1 DEF Statuses
  <2>3. TriedForms' <=> \A i \in 1..Len(tried') : tried'[i] \in Statuses(forms[i])'
    BY DEF TriedForms
  <2> QED
    BY <1>4, <2>2, <2>3
<1>10. EndedAtOnce'
  BY <1>1, <1>2, <1>4, <1>6, <1>7 DEF EndedAtOnce
<1>11. ResultIs'
  BY <1>1, <1>2, <1>3, <1>4 DEF ResultIs
<1> QED
  BY <1>8, <1>9, <1>10, <1>11 DEF VerdictInv

LEMMA BestReturned ==
  ASSUME VerdictInv, ReturnBest
  PROVE  VerdictInv'
<1>1. /\ result = NoStatus /\ Len(tried) = Len(forms) /\ result' = best
      /\ UNCHANGED <<answerType, prediction, forms, tried, best>>
  BY DEF ReturnBest
<1>2. NoStatus \notin Closing
  BY FormsAssumption DEF Closing, VerifierStatus
<1>3. \A i \in 1..Len(tried) : tried[i] \notin Closing
  BY <1>1, <1>2 DEF VerdictInv, EndedAtOnce
<1>4. VerdictTypes'
  BY <1>1 DEF VerdictInv, VerdictTypes, AnswersOf
<1>5. TriedForms'
  BY <1>1 DEF VerdictInv, TriedForms, Statuses
<1>6. EndedAtOnce' /\ ResultIs'
  BY <1>1, <1>3 DEF EndedAtOnce, ResultIs
<1> QED
  BY <1>4, <1>5, <1>6 DEF VerdictInv

LEMMA VerdictFollows == VerdictInv => VerdictMeansEqual
<1> SUFFICES ASSUME VerdictInv, result # NoStatus, Denotes(prediction),
                    \A i \in DOMAIN forms : Denotes(forms[i])
             PROVE  /\ result = "correct" => \E i \in DOMAIN forms :
                                             Equal(prediction, forms[i]) \/ Near(prediction, forms[i])
                    /\ (/\ \A i \in DOMAIN tried : tried[i] \notin NotMade
                        /\ \E i \in DOMAIN forms :
                             Equal(prediction, forms[i]) /\ SamePoints(prediction, forms[i]))
                       => result = "correct"
  BY Zenon DEF VerdictMeansEqual, SamePoints
<1>1. VerdictTypes /\ TriedForms /\ EndedAtOnce /\ ResultIs
  BY DEF VerdictInv
<1>2. PICK n \in Nat, m \in Nat :
        /\ n = Len(tried) /\ m = Len(forms) /\ n <= m
        /\ DOMAIN tried = 1..n /\ DOMAIN forms = 1..m
        /\ \A i \in 1..m : forms[i] \in AnswersOf(answerType)
        /\ \A i \in 1..n : tried[i] \in VerifierStatus
  BY <1>1 DEF VerdictTypes
<1>3. \A i \in 1..n : i \in DOMAIN forms /\ Judged(tried[i], prediction, forms[i])
  <2> SUFFICES ASSUME NEW i \in 1..n
               PROVE  i \in DOMAIN forms /\ Judged(tried[i], prediction, forms[i])
    OBVIOUS
  <2>1. i \in DOMAIN forms /\ i \in 1..m
    BY <1>2
  <2>2. tried[i] \in Statuses(forms[i]) /\ Denotes(forms[i])
    BY <1>1, <1>2, <2>1 DEF TriedForms
  <2>3. answerType \in AnswerTypes /\ prediction \in AnswersOf(answerType)
    BY <1>1 DEF VerdictTypes
  <2> QED
    BY <1>2, <2>1, <2>2, <2>3, StatusJudged
<1>4. \/ n > 0 /\ result = tried[n] /\ result \in Closing
      \/ n = m /\ result = best
  BY <1>1, <1>2 DEF ResultIs
<1>5. best # "correct"
  <2> "correct" \in VerifierStatus
    BY DEF VerifierStatus
  <2> QED
    BY <1>1, FormsAssumption DEF VerdictTypes, Closing
<1>6. ASSUME result = "correct"
      PROVE  \E i \in DOMAIN forms : Equal(prediction, forms[i]) \/ Near(prediction, forms[i])
  <2>1. n \in 1..n /\ tried[n] = "correct"
    BY <1>2, <1>4, <1>5, <1>6
  <2> QED
    BY <1>3, <2>1 DEF Judged
<1>7. ASSUME \A i \in DOMAIN tried : tried[i] \notin NotMade,
             NEW j \in DOMAIN forms, Equal(prediction, forms[j]), SamePoints(prediction, forms[j])
      PROVE  result = "correct"
  <2>1. CASE n = m
    <3>1. j \in 1..n /\ j \in DOMAIN tried
      BY <1>2, <2>1
    <3>2. tried[j] = "correct"
      BY <1>3, <1>7, <3>1 DEF Judged
    <3> QED
      BY <1>1, <1>2, <3>1, <3>2 DEF EndedAtOnce, Closing
  <2>2. CASE n > 0 /\ result = tried[n] /\ result \in Closing
    <3>1. n \in 1..n /\ n \in DOMAIN tried
      BY <1>2, <2>2
    <3> QED
      BY <1>3, <1>7, <2>2, <3>1 DEF Judged, Closing
  <2> QED
    BY <1>4, <2>1, <2>2
<1> QED
  BY <1>6, <1>7

\* The verdict on a prediction and forms that each denote something: correct
\* means equal to one of the forms, or an expression within the tolerance of
\* one at the points of a sample; and a prediction equal to one of them is
\* correct unless a comparison was not made (verify_answer, verifier/service.py,
\* and compare_expressions, verifier/symbolic.py).
THEOREM VerificationCorrect == VerifySpec => []VerdictMeansEqual
<1>1. vInit => VerdictInv
  BY VerdictStart
<1>2. VerdictInv /\ [vNext]_vVars => VerdictInv'
  <2> SUFFICES ASSUME VerdictInv, [vNext]_vVars PROVE VerdictInv'
    OBVIOUS
  <2>1. CASE \E verdict \in VerifierStatus : TryForm(verdict)
    BY <2>1, TriedMore
  <2>2. CASE ReturnBest
    BY <2>2, BestReturned
  <2>3. CASE UNCHANGED vVars
    BY <2>3 DEF vVars, VerdictInv, VerdictTypes, TriedForms, EndedAtOnce, ResultIs,
                AnswersOf, Statuses
  <2> QED
    BY <2>1, <2>2, <2>3 DEF vNext
<1>3. VerdictInv => VerdictMeansEqual
  BY VerdictFollows
<1> QED
  BY <1>1, <1>2, <1>3, PTL DEF VerifySpec
=============================================================================
