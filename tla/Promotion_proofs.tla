--------------------------- MODULE Promotion_proofs --------------------------
(***************************************************************************)
(* Proofs about the promotion of a harness.  Of HarnessRegistry, for any   *)
(* number of handles and specs, with crashes and failing writes anywhere:  *)
(* no ledger in memory or on the path names a champion that was not        *)
(* promoted on a passing decision, no version names two specs, and the     *)
(* records and the champion are what the events tell; with one handle, the *)
(* file has every call that returned.  Of Gate, for any outcomes, draws   *)
(* and policy: the decision follows the candidate, and no improvement is   *)
(* one in both directions.                                                 *)
(***************************************************************************)
EXTENDS HarnessRegistry, Gate, FoldTheorems, TLAPS

\* What every ledger keeps.  The second conjunct is why a champion stays
\* justified: only candidates are gated, so a promoted record keeps the
\* decision it was promoted on, and a rollback can only find such records.
Sound(l) ==
  /\ l.champion # None =>
       l.champion \in Known(l) /\ l.records[l.champion].state = "promoted"
  /\ \A s \in Known(l) :
       l.records[s].state = "promoted" => l.records[s].gate \in Passing
  /\ \A s, t \in Known(l) : VersionOf[s] = VersionOf[t] => s = t

AllSound ==
  /\ \A h \in Handles : Sound(mem[h])
  /\ disk \notin {None, Torn} => Sound(disk)
  /\ tmp \notin {None, Torn} => Sound(tmp)
-----------------------------------------------------------------------------
LEMMA EmptyType == EmptyLedger \in Ledger /\ Known(EmptyLedger) = {}
<1>1. << >> \in [{} -> Record] /\ DOMAIN << >> = {}
  OBVIOUS
<1>2. [{} -> Record] \in {[S -> Record] : S \in SUBSET Specs}
  OBVIOUS
<1>3. << >> \in Seq(RegistryEvent)
  OBVIOUS
<1> QED
  BY <1>1, <1>2, <1>3 DEF EmptyLedger, Ledger, Known

LEMMA KnownType ==
  ASSUME NEW l \in Ledger
  PROVE  /\ Known(l) \subseteq Specs
         /\ l.records \in [Known(l) -> Record]
         /\ l.champion \in Specs \cup {None}
         /\ l.events \in Seq(RegistryEvent)
<1>1. PICK S \in SUBSET Specs : l.records \in [S -> Record]
  BY DEF Ledger
<1> QED
  BY <1>1 DEF Ledger, Known

LEMMA MutatedType ==
  ASSUME NEW l \in Ledger, NEW s \in Specs, NEW record \in Record,
         NEW champion \in Specs \cup {None}, NEW e \in RegistryEvent
  PROVE  LET m == Mutated(l, s, record, champion, e)
         IN  /\ m \in Ledger
             /\ Known(m) = Known(l) \cup {s}
             /\ m.champion = champion
             /\ m.records[s] = record
             /\ \A x \in Known(l) \ {s} : m.records[x] = l.records[x]
<1> DEFINE S == Known(l) \cup {s}
           f == [x \in S |-> IF x = s THEN record ELSE l.records[x]]
<1>1. S \in SUBSET Specs /\ l.events \in Seq(RegistryEvent)
  BY KnownType
<1>2. f \in [S -> Record]
  BY KnownType
<1>3. f \in UNION {[T -> Record] : T \in SUBSET Specs}
  BY <1>1, <1>2
<1>4. Append(l.events, e) \in Seq(RegistryEvent)
  BY <1>1
<1>5. Mutated(l, s, record, champion, e) =
        [champion |-> champion, records |-> f, events |-> Append(l.events, e)]
  BY DEF Mutated
<1>6. f[s] = record /\ \A x \in Known(l) \ {s} : f[x] = l.records[x]
  OBVIOUS
<1>7. DOMAIN f = S
  OBVIOUS
<1> HIDE DEF f
<1>8. Mutated(l, s, record, champion, e) \in Ledger
  BY <1>3, <1>4, <1>5 DEF Ledger
<1>9. Known(Mutated(l, s, record, champion, e)) = DOMAIN f
  BY <1>5 DEF Known
<1>10. /\ Mutated(l, s, record, champion, e).champion = champion
       /\ Mutated(l, s, record, champion, e).records = f
  BY <1>5
<1> QED
  BY <1>6, <1>7, <1>8, <1>9, <1>10
-----------------------------------------------------------------------------
\* What the five operations have in common, so that the rest of the proof
\* need not open them: which record is set, and who is champion after.
Change(l, s, record, champion) ==
  /\ record \in Record
  /\ champion \in Specs \cup {None}
  /\ champion \in {l.champion, s}
  /\ s \in Known(l) \/ \A x \in Known(l) : VersionOf[x] # VersionOf[s]
  /\ record.state = "promoted" => record.gate \in Passing
  /\ champion = s => record.state = "promoted"

LEMMA ChangeSound ==
  ASSUME NEW l \in Ledger, Sound(l), NEW s \in Specs, NEW record, NEW champion,
         Change(l, s, record, champion), NEW e \in RegistryEvent
  PROVE  /\ Mutated(l, s, record, champion, e) \in Ledger
         /\ Sound(Mutated(l, s, record, champion, e))
<1> DEFINE m == Mutated(l, s, record, champion, e)
<1>1. /\ m \in Ledger
      /\ Known(m) = Known(l) \cup {s}
      /\ m.champion = champion
      /\ m.records[s] = record
      /\ \A x \in Known(l) \ {s} : m.records[x] = l.records[x]
  BY MutatedType DEF Change
<1> HIDE DEF m
<1>2. m.champion # None =>
        m.champion \in Known(m) /\ m.records[m.champion].state = "promoted"
  BY <1>1 DEF Change, Sound
<1>3. \A x \in Known(m) :
        m.records[x].state = "promoted" => m.records[x].gate \in Passing
  BY <1>1 DEF Change, Sound
<1>4. \A x, y \in Known(m) : VersionOf[x] = VersionOf[y] => x = y
  BY <1>1 DEF Change, Sound
<1>5. Sound(m)
  BY <1>2, <1>3, <1>4 DEF Sound
<1> QED
  BY <1>1, <1>5 DEF m

\* Every operation that mutates is such a change.
LEMMA OperationChanges ==
  ASSUME TypeOK, AllSound, NEW h \in Handles, Operate(h)
  PROVE  \/ UNCHANGED <<disk, tmp, mem, pc, op, begun, unsaved>> /\ acked' \subseteq RegistryEvent
         \/ \E action \in Action, s \in Specs : \E record, champion :
              /\ Change(mem[h], s, record, champion)
              /\ Mutate(h, action, s, record, champion)
<1> DEFINE l == mem[h]
<1>1. l \in Ledger /\ Sound(l)
  BY DEF TypeOK, AllSound
<1>2. /\ Known(l) \subseteq Specs
      /\ l.records \in [Known(l) -> Record]
      /\ l.champion \in Specs \cup {None}
      /\ l.events \in Seq(RegistryEvent)
  BY <1>1, KnownType
<1>3. PICK s \in Specs : \/ RegisterAgain(h, s)
                         \/ Register(h, s)
                         \/ \E d \in Decisions : RecordGate(h, s, d)
                         \/ Promote(h, s)
                         \/ Rollback(h, s)
  BY DEF Operate
<1>4. CASE RegisterAgain(h, s)
  <2>1. Happened(l) \subseteq RegistryEvent
    BY <1>2 DEF Happened
  <2> QED
    BY <1>4, <2>1 DEF RegisterAgain, TypeOK
<1>5. CASE Register(h, s)
  <2> DEFINE record == [state |-> "candidate", gate |-> None]
  <2>1. record \in Record
    BY DEF Record, HarnessState
  <2>2. s \notin Known(l) /\ l.champion # s
    BY <1>1, <1>5, RegistryAssumption DEF Register, Sound
  <2>3. Change(l, s, record, l.champion)
    BY <1>2, <1>5, <2>1, <2>2 DEF Register, Change
  <2>4. Mutate(h, "register", s, record, l.champion)
    BY <1>5 DEF Register
  <2> QED
    BY <2>3, <2>4 DEF Action
<1>6. CASE \E d \in Decisions : RecordGate(h, s, d)
  <2>1. PICK d \in Decisions : RecordGate(h, s, d)
    BY <1>6
  <2> DEFINE record ==
        [state |-> IF d \in Passing THEN "candidate" ELSE "rejected",
         gate |-> d]
             action == IF d \in Passing THEN "gate" ELSE "reject"
  <2>2. record \in Record
    BY DEF Record, HarnessState
  <2>3. s \in Known(l) /\ l.champion # s
    BY <1>1, <2>1, RegistryAssumption DEF RecordGate, Sound
  <2>4. Change(l, s, record, l.champion)
    BY <1>2, <2>2, <2>3 DEF Change
  <2>5. Mutate(h, action, s, record, l.champion) /\ action \in Action
    BY <2>1 DEF RecordGate, Action
  <2> QED
    BY <2>4, <2>5
<1>7. CASE Promote(h, s)
  <2> DEFINE record == [l.records[s] EXCEPT !.state = "promoted"]
  <2>1. s \in Known(l) /\ l.records[s].gate \in Passing
    BY <1>7 DEF Promote
  <2>2. /\ record \in Record
        /\ record.state = "promoted"
        /\ record.gate = l.records[s].gate
    BY <1>2, <2>1 DEF Record, HarnessState
  <2>3. Change(l, s, record, s)
    BY <1>2, <2>1, <2>2 DEF Change
  <2>4. Mutate(h, "promote", s, record, s)
    BY <1>7 DEF Promote
  <2> QED
    BY <2>3, <2>4 DEF Action
<1>8. CASE Rollback(h, s)
  <2>1. /\ s \in Known(l)
        /\ l.records[s].state = "promoted"
        /\ l.records[s] \in Record
        /\ l.records[s].gate \in Passing
    BY <1>1, <1>2, <1>8 DEF Rollback, Sound
  <2>2. Change(l, s, l.records[s], s)
    BY <2>1 DEF Change
  <2>3. Mutate(h, "rollback", s, l.records[s], s)
    BY <1>8 DEF Rollback
  <2> QED
    BY <2>2, <2>3 DEF Action
<1> QED
  BY <1>3, <1>4, <1>5, <1>6, <1>7, <1>8
-----------------------------------------------------------------------------
LEMMA InvInit == Init => TypeOK /\ AllSound
<1> SUFFICES ASSUME Init PROVE TypeOK /\ AllSound
  OBVIOUS
<1>1. EmptyLedger.champion = None
  BY DEF EmptyLedger
<1>2. Sound(EmptyLedger)
  BY <1>1, EmptyType DEF Sound
<1>3. TypeOK
  BY EmptyType DEF Init, TypeOK
<1>4. AllSound
  BY <1>2 DEF Init, AllSound
<1> QED
  BY <1>3, <1>4

LEMMA InvNext == TypeOK /\ AllSound /\ [Next]_vars => TypeOK' /\ AllSound'
<1> SUFFICES ASSUME TypeOK, AllSound, [Next]_vars PROVE TypeOK' /\ AllSound'
  OBVIOUS
<1>0. Sound(EmptyLedger)
  BY EmptyType DEF Sound, EmptyLedger
<1>1. CASE UNCHANGED vars
  BY <1>1 DEF vars, TypeOK, AllSound
<1>2. ASSUME NEW h \in Handles, Open(h)
      PROVE  TypeOK' /\ AllSound'
  <2>1. TypeOK'
    BY <1>2, EmptyType DEF Open, TypeOK
  <2>2. AllSound'
    BY <1>0, <1>2 DEF Open, TypeOK, AllSound
  <2> QED
    BY <2>1, <2>2
<1>3. ASSUME NEW h \in Handles, Operate(h)
      PROVE  TypeOK' /\ AllSound'
  <2>1. CASE /\ UNCHANGED <<disk, tmp, mem, pc, op, begun, unsaved>>
             /\ acked' \subseteq RegistryEvent
    BY <2>1 DEF TypeOK, AllSound
  <2>2. ASSUME NEW action \in Action, NEW s \in Specs, NEW record, NEW champion,
               Change(mem[h], s, record, champion),
               Mutate(h, action, s, record, champion)
        PROVE  TypeOK' /\ AllSound'
    <3> DEFINE e == [action |-> action, spec |-> s, at |-> begun]
    <3>1. e \in RegistryEvent
      BY DEF RegistryEvent, TypeOK
    <3>2. mem[h] \in Ledger /\ Sound(mem[h])
      BY DEF TypeOK, AllSound
    <3>3. /\ Mutated(mem[h], s, record, champion, e) \in Ledger
          /\ Sound(Mutated(mem[h], s, record, champion, e))
      BY <2>2, <3>1, <3>2, ChangeSound
    <3>4. /\ mem' = [mem EXCEPT
                       ![h] = Mutated(mem[h], s, record, champion, e)]
          /\ op' = [op EXCEPT ![h] = e]
          /\ pc' = [pc EXCEPT ![h] = "saving"]
          /\ begun' = begun + 1
          /\ UNCHANGED <<disk, tmp, acked, unsaved>>
      BY <2>2 DEF Mutate
    <3> HIDE DEF e
    <3>5. TypeOK'
      BY <3>1, <3>3, <3>4 DEF TypeOK
    <3>6. AllSound'
      BY <3>3, <3>4 DEF AllSound, TypeOK
    <3> QED
      BY <3>5, <3>6
  <2> QED
    BY <1>3, <2>1, <2>2, OperationChanges
<1>4. ASSUME NEW h \in Handles, WriteTmp(h)
      PROVE  TypeOK' /\ AllSound'
  <2>1. TypeOK'
    BY <1>4 DEF WriteTmp, TypeOK
  <2>2. AllSound'
    BY <1>4 DEF WriteTmp, TypeOK, AllSound
  <2> QED
    BY <2>1, <2>2
<1>5. ASSUME NEW h \in Handles, Replace(h)
      PROVE  TypeOK' /\ AllSound'
  <2>1. TypeOK'
    BY <1>5 DEF Replace, TypeOK
  <2>2. AllSound'
    BY <1>5 DEF Replace, AllSound
  <2> QED
    BY <2>1, <2>2
<1>6. ASSUME NEW h \in Handles, SaveFails(h)
      PROVE  TypeOK' /\ AllSound'
  <2>1. TypeOK'
    BY <1>6 DEF SaveFails, TypeOK
  <2>2. AllSound'
    BY <1>6 DEF SaveFails, AllSound
  <2> QED
    BY <2>1, <2>2
<1>7. ASSUME NEW h \in Handles, Crash(h)
      PROVE  TypeOK' /\ AllSound'
  <2>1. TypeOK'
    BY <1>7, EmptyType DEF Crash, TypeOK
  <2>2. AllSound'
    BY <1>0, <1>7 DEF Crash, TypeOK, AllSound
  <2> QED
    BY <2>1, <2>2
<1> QED
  BY <1>1, <1>2, <1>3, <1>4, <1>5, <1>6, <1>7 DEF Next

LEMMA Invariant == Spec => [](TypeOK /\ AllSound)
  BY InvInit, InvNext, PTL DEF Spec

\* Every reachable state of the registry is well typed.
THEOREM RegistryTypeCorrect == Spec => []TypeOK
  BY Invariant, PTL

\* No ledger, in memory or on the path, names a champion that was not
\* promoted on a passing gate decision: promote's and record_gate's guards
\* together, across crashes, failed saves and handles overwriting each other.
THEOREM ChampionCorrect == Spec => []ChampionJustified
<1>1. TypeOK /\ AllSound => ChampionJustified
  BY DEF AllSound, Sound, ChampionJustified, Ledgers
<1> QED
  BY <1>1, Invariant, PTL

\* register never lets one harness_version name two specs in a ledger.
THEOREM VersionsCorrect == Spec => []VersionsUnique
<1>1. TypeOK /\ AllSound => VersionsUnique
  BY DEF AllSound, Sound, VersionsUnique, Ledgers
<1> QED
  BY <1>1, Invariant, PTL
-----------------------------------------------------------------------------
(* What the ledger says.                                                    *)

Moves(l) == {i \in DOMAIN l.events : l.events[i].action \in {"promote", "rollback"}}

\* The state the events of a spec tell.
StateTold(l, s) ==
  IF At(l, s, {"promote"}) # {} THEN "promoted"
  ELSE IF At(l, s, {"reject"}) # {} THEN "rejected" ELSE "candidate"

\* What every ledger keeps.  The first conjunct is why a registration is the
\* first event of its spec.
Told(l) ==
  /\ \A i \in DOMAIN l.events : l.events[i].spec \in Known(l)
  /\ \A s \in Known(l) : \E i \in DOMAIN l.events : At(l, s, {"register"}) = {i}
  /\ \A s \in Known(l) : l.records[s].state = StateTold(l, s)
  /\ Moves(l) = {} => l.champion = None
  /\ Moves(l) # {} => \E i \in Moves(l) : /\ \A j \in Moves(l) : j <= i
                                          /\ l.champion = l.events[i].spec

AllTold ==
  /\ \A h \in Handles : Told(mem[h])
  /\ disk \notin {None, Torn} => Told(disk)
  /\ tmp \notin {None, Torn} => Told(tmp)
-----------------------------------------------------------------------------
LEMMA EmptyTold == Told(EmptyLedger)
BY EmptyType DEF Told, EmptyLedger, Moves

\* The place of the next event.
Fresh(l) == Len(l.events) + 1

\* m has one event more than l: one more of its spec and its action.
Grows(l, m, e) ==
  /\ Fresh(l) \in DOMAIN m.events /\ m.events[Fresh(l)] = e /\ Fresh(l) \in Nat
  /\ \A i \in DOMAIN l.events :
       i \in DOMAIN m.events /\ m.events[i] = l.events[i] /\ i \in Nat /\ i < Fresh(l)
  /\ \A x, actions :
       e.spec # x \/ e.action \notin actions => At(m, x, actions) = At(l, x, actions)
  /\ \A x, actions :
       e.spec = x /\ e.action \in actions =>
         At(m, x, actions) = At(l, x, actions) \cup {Fresh(l)}
  /\ e.action \notin {"promote", "rollback"} => Moves(m) = Moves(l)
  /\ e.action \in {"promote", "rollback"} => Moves(m) = Moves(l) \cup {Fresh(l)}
  /\ Happened(m) = Happened(l) \cup {e}
  /\ DOMAIN m.events = DOMAIN l.events \cup {Fresh(l)}

LEMMA EventsGrow ==
  ASSUME NEW l \in Ledger, NEW m, NEW e \in RegistryEvent,
         m.events = Append(l.events, e)
  PROVE  Grows(l, m, e)
<1> DEFINE n == Fresh(l)
<1>1. l.events \in Seq(RegistryEvent)
  BY KnownType
<1>2. /\ n \in DOMAIN m.events /\ m.events[n] = e /\ n \in Nat
      /\ \A i \in DOMAIN l.events :
           i \in DOMAIN m.events /\ m.events[i] = l.events[i] /\ i \in Nat /\ i < n
      /\ DOMAIN m.events = DOMAIN l.events \cup {n}
  BY <1>1 DEF Fresh
<1> HIDE DEF n
<1>3. ASSUME NEW x, NEW actions, e.spec # x \/ e.action \notin actions
      PROVE  At(m, x, actions) = At(l, x, actions)
  BY <1>2, <1>3 DEF At
<1>4. ASSUME NEW x, NEW actions, e.spec = x /\ e.action \in actions
      PROVE  At(m, x, actions) = At(l, x, actions) \cup {n}
  BY <1>2, <1>4 DEF At
<1>5. /\ e.action \notin {"promote", "rollback"} => Moves(m) = Moves(l)
      /\ e.action \in {"promote", "rollback"} => Moves(m) = Moves(l) \cup {n}
  BY <1>2 DEF Moves
<1>6. Happened(m) = Happened(l) \cup {e}
  BY <1>2 DEF Happened
<1> QED
  BY <1>2, <1>3, <1>4, <1>5, <1>6 DEF n, Grows

\* What the five operations have in common for the story they tell: only a
\* new spec is registered, only a candidate is rejected, a promotion promotes,
\* and nothing else changes a state or the champion.
Tells(l, action, s, record, champion) ==
  /\ s \notin Known(l) <=> action = "register"
  /\ \/ action = "register" /\ record.state = "candidate"
     \/ action = "promote" /\ record.state = "promoted"
     \/ action = "reject" /\ record.state = "rejected" /\ l.records[s].state = "candidate"
     \/ action \in {"gate", "rollback"} /\ record.state = l.records[s].state
  /\ champion = IF action \in {"promote", "rollback"} THEN s ELSE l.champion

LEMMA TellsTold ==
  ASSUME NEW l \in Ledger, Told(l), NEW s \in Specs, NEW record \in Record,
         NEW champion \in Specs \cup {None}, NEW e \in RegistryEvent, e.spec = s,
         Tells(l, e.action, s, record, champion)
  PROVE  Told(Mutated(l, s, record, champion, e))
<1> DEFINE m == Mutated(l, s, record, champion, e)
           n == Fresh(l)
<1>1. /\ Known(m) = Known(l) \cup {s} /\ m.champion = champion /\ m.records[s] = record
      /\ \A x \in Known(l) \ {s} : m.records[x] = l.records[x]
  BY MutatedType
<1>2. m.events = Append(l.events, e)
  BY DEF Mutated
<1> HIDE DEF m
<1>3. Grows(l, m, e)
  BY <1>2, EventsGrow
<1>4. /\ n \in DOMAIN m.events /\ m.events[n] = e /\ n \in Nat
      /\ \A i \in DOMAIN l.events :
           i \in DOMAIN m.events /\ m.events[i] = l.events[i] /\ i \in Nat /\ i < n
      /\ \A x, actions :
           e.spec # x \/ e.action \notin actions => At(m, x, actions) = At(l, x, actions)
      /\ \A x, actions :
           e.spec = x /\ e.action \in actions =>
             At(m, x, actions) = At(l, x, actions) \cup {n}
      /\ e.action \notin {"promote", "rollback"} => Moves(m) = Moves(l)
      /\ e.action \in {"promote", "rollback"} => Moves(m) = Moves(l) \cup {n}
      /\ DOMAIN m.events = DOMAIN l.events \cup {n}
  BY <1>3, Zenon DEF Grows
<1> HIDE DEF n
<1>5. \A i \in DOMAIN m.events : m.events[i].spec \in Known(m)
  BY <1>1, <1>4 DEF Told
<1>6. s \notin Known(l) => \A actions : At(l, s, actions) = {}
  BY DEF Told, At
<1>7. ASSUME NEW x \in Known(m)
      PROVE  \E i \in DOMAIN m.events : At(m, x, {"register"}) = {i}
  <2>1. CASE x = s /\ s \notin Known(l)
    <3>1. At(m, x, {"register"}) = {n}
      BY <1>4, <1>6, <2>1 DEF Tells
    <3> QED
      BY <1>4, <3>1
  <2>2. CASE x # s \/ s \in Known(l)
    <3>1. x \in Known(l) /\ At(m, x, {"register"}) = At(l, x, {"register"})
      BY <1>1, <1>4, <2>2 DEF Tells
    <3> QED
      BY <1>4, <3>1 DEF Told
  <2> QED
    BY <2>1, <2>2
<1>8. ASSUME NEW x \in Known(m)
      PROVE  m.records[x].state = StateTold(m, x)
  <2> DEFINE A(a) == At(l, x, {a})
             B(a) == At(m, x, {a})
  <2>1. CASE x # s
    <3>1. B("promote") = A("promote") /\ B("reject") = A("reject")
      BY <1>4, <2>1
    <3> QED
      BY <1>1, <2>1, <3>1 DEF Told, StateTold
  <2>2. CASE x = s
    <3>1. s \in Known(l) => l.records[s].state = StateTold(l, s)
      BY DEF Told
    <3>2. CASE e.action = "register"
      <4>1. B("promote") = {} /\ B("reject") = {}
        BY <1>4, <1>6, <2>2, <3>2 DEF Tells
      <4> QED
        BY <1>1, <2>2, <3>2, <4>1 DEF Tells, StateTold
    <3>3. CASE e.action = "promote"
      <4>1. n \in B("promote")
        BY <1>4, <2>2, <3>3
      <4> QED
        BY <1>1, <2>2, <3>3, <4>1 DEF Tells, StateTold
    <3>4. CASE e.action = "reject"
      <4>1. A("promote") = {}
        BY <2>2, <3>1, <3>4 DEF Tells, StateTold
      <4>2. B("promote") = {} /\ n \in B("reject")
        BY <1>4, <2>2, <3>4, <4>1
      <4> QED
        BY <1>1, <2>2, <3>4, <4>2 DEF Tells, StateTold
    <3>5. CASE e.action \in {"gate", "rollback"}
      <4>1. B("promote") = A("promote") /\ B("reject") = A("reject")
        BY <1>4, <2>2, <3>5
      <4> QED
        BY <1>1, <2>2, <3>1, <3>5, <4>1 DEF Tells, StateTold
    <3> QED
      BY <3>2, <3>3, <3>4, <3>5 DEF Tells
  <2> QED
    BY <2>1, <2>2
<1>9. /\ Moves(m) = {} => m.champion = None
      /\ Moves(m) # {} => \E i \in Moves(m) : /\ \A j \in Moves(m) : j <= i
                                              /\ m.champion = m.events[i].spec
  <2>1. CASE e.action \in {"promote", "rollback"}
    <3>1. n \in Moves(m) /\ m.champion = m.events[n].spec
      BY <1>1, <1>4, <2>1 DEF Tells
    <3>2. \A j \in Moves(m) : j <= n
      BY <1>4 DEF Moves
    <3> QED
      BY <3>1, <3>2
  <2>2. CASE e.action \notin {"promote", "rollback"}
    <3>1. Moves(m) = Moves(l) /\ m.champion = l.champion
      BY <1>1, <1>4, <2>2 DEF Tells
    <3>2. \A i \in Moves(l) : m.events[i] = l.events[i]
      BY <1>4 DEF Moves
    <3> QED
      BY <3>1, <3>2 DEF Told
  <2> QED
    BY <2>1, <2>2
<1>10. Told(m)
  BY <1>5, <1>7, <1>8, <1>9 DEF Told
<1> QED
  BY <1>10 DEF m
-----------------------------------------------------------------------------
\* When an operation may be: what its guards ask of the ledger before it.
Permits(l, action, s, record) ==
  /\ action = "register" => \A x \in Known(l) : VersionOf[x] # VersionOf[s]
  /\ action \in {"gate", "reject", "promote"} => l.records[s].state = "candidate"
  /\ action = "promote" => l.records[s].gate \in Passing
  /\ action = "rollback" => l.records[s].state = "promoted" /\ l.champion # s
  /\ record.gate \in Passing => \/ action = "gate"
                                \/ s \in Known(l) /\ record.gate = l.records[s].gate

\* Every operation that mutates tells what it does, when it may.
LEMMA OperationTells ==
  ASSUME TypeOK, NEW h \in Handles, Operate(h)
  PROVE  \/ UNCHANGED <<disk, tmp, mem, begun>>
         \/ \E action \in Action, s \in Specs, record \in Record,
               champion \in Specs \cup {None} :
              /\ Tells(mem[h], action, s, record, champion)
              /\ Permits(mem[h], action, s, record)
              /\ Mutate(h, action, s, record, champion)
<1> DEFINE l == mem[h]
<1>1. /\ Known(l) \subseteq Specs
      /\ l.records \in [Known(l) -> Record]
      /\ l.champion \in Specs \cup {None}
  BY KnownType DEF TypeOK
<1>2. PICK s \in Specs : \/ RegisterAgain(h, s)
                         \/ Register(h, s)
                         \/ \E d \in Decisions : RecordGate(h, s, d)
                         \/ Promote(h, s)
                         \/ Rollback(h, s)
  BY DEF Operate
<1>3. CASE RegisterAgain(h, s)
  BY <1>3 DEF RegisterAgain
<1>4. CASE Register(h, s)
  <2> DEFINE record == [state |-> "candidate", gate |-> None]
  <2>1. record \in Record /\ record.state = "candidate"
    BY DEF Record, HarnessState
  <2>2. Tells(l, "register", s, record, l.champion)
    BY <1>4, <2>1 DEF Register, Tells
  <2>4. Permits(l, "register", s, record)
    BY <1>4, RegistryAssumption DEF Register, Permits
  <2>3. Mutate(h, "register", s, record, l.champion) /\ "register" \in Action
    BY <1>4 DEF Register, Action
  <2> QED
    BY <1>1, <2>1, <2>2, <2>3, <2>4
<1>5. CASE \E d \in Decisions : RecordGate(h, s, d)
  <2>1. PICK d \in Decisions : RecordGate(h, s, d)
    BY <1>5
  <2> DEFINE record ==
        [state |-> IF d \in Passing THEN "candidate" ELSE "rejected",
         gate |-> d]
             action == IF d \in Passing THEN "gate" ELSE "reject"
  <2>2. record \in Record
    BY DEF Record, HarnessState
  <2>3. s \in Known(l) /\ l.records[s].state = "candidate"
    BY <2>1 DEF RecordGate
  <2>4. Tells(l, action, s, record, l.champion)
    BY <2>3 DEF Tells
  <2>5. Permits(l, action, s, record)
    BY <2>3 DEF Permits
  <2>6. Mutate(h, action, s, record, l.champion) /\ action \in Action
    BY <2>1 DEF RecordGate, Action
  <2> QED
    BY <1>1, <2>2, <2>4, <2>5, <2>6
<1>6. CASE Promote(h, s)
  <2> DEFINE record == [l.records[s] EXCEPT !.state = "promoted"]
  <2>1. s \in Known(l)
    BY <1>6 DEF Promote
  <2>2. record \in Record /\ record.state = "promoted"
    BY <1>1, <2>1 DEF Record, HarnessState
  <2>3. Tells(l, "promote", s, record, s)
    BY <2>1, <2>2 DEF Tells
  <2>4. Permits(l, "promote", s, record)
    BY <1>1, <1>6, <2>1 DEF Promote, Permits, Record
  <2>5. Mutate(h, "promote", s, record, s) /\ "promote" \in Action
    BY <1>6 DEF Promote, Action
  <2> QED
    BY <2>2, <2>3, <2>4, <2>5
<1>7. CASE Rollback(h, s)
  <2>1. s \in Known(l) /\ l.records[s] \in Record
    BY <1>1, <1>7 DEF Rollback
  <2>2. Tells(l, "rollback", s, l.records[s], s)
    BY <2>1 DEF Tells
  <2>3. Permits(l, "rollback", s, l.records[s])
    BY <1>7, <2>1 DEF Rollback, Permits
  <2>4. Mutate(h, "rollback", s, l.records[s], s) /\ "rollback" \in Action
    BY <1>7 DEF Rollback, Action
  <2> QED
    BY <2>1, <2>2, <2>3, <2>4
<1> QED
  BY <1>2, <1>3, <1>4, <1>5, <1>6, <1>7

LEMMA ToldInit == Init => AllTold
BY EmptyTold DEF Init, AllTold

LEMMA ToldNext == TypeOK /\ AllTold /\ [Next]_vars => AllTold'
<1> SUFFICES ASSUME TypeOK, AllTold, [Next]_vars PROVE AllTold'
  OBVIOUS
<1>1. CASE UNCHANGED vars
  BY <1>1 DEF vars, AllTold
<1>2. ASSUME NEW h \in Handles, Operate(h) PROVE AllTold'
  <2>1. CASE UNCHANGED <<disk, tmp, mem>>
    BY <2>1 DEF AllTold
  <2>2. ASSUME NEW action \in Action, NEW s \in Specs, NEW record \in Record,
               NEW champion \in Specs \cup {None},
               Tells(mem[h], action, s, record, champion),
               Mutate(h, action, s, record, champion)
        PROVE  AllTold'
    <3> DEFINE e == [action |-> action, spec |-> s, at |-> begun]
    <3>1. e \in RegistryEvent /\ e.action = action /\ e.spec = s
      BY DEF RegistryEvent, TypeOK
    <3>2. mem[h] \in Ledger /\ Told(mem[h])
      BY DEF TypeOK, AllTold
    <3>3. mem' = [mem EXCEPT ![h] = Mutated(mem[h], s, record, champion, e)]
          /\ UNCHANGED <<disk, tmp>>
      BY <2>2 DEF Mutate
    <3> HIDE DEF e
    <3>4. Told(Mutated(mem[h], s, record, champion, e))
      BY <2>2, <3>1, <3>2, TellsTold
    <3> QED
      BY <3>3, <3>4 DEF AllTold, TypeOK
  <2> QED
    BY <1>2, <2>1, <2>2, OperationTells
<1>3. ASSUME NEW h \in Handles, Open(h) PROVE AllTold'
  BY <1>3, EmptyTold DEF Open, TypeOK, AllTold
<1>4. ASSUME NEW h \in Handles, WriteTmp(h) PROVE AllTold'
  BY <1>4 DEF WriteTmp, AllTold
<1>5. ASSUME NEW h \in Handles, Replace(h) PROVE AllTold'
  BY <1>5 DEF Replace, AllTold
<1>6. ASSUME NEW h \in Handles, SaveFails(h) PROVE AllTold'
  BY <1>6 DEF SaveFails, AllTold
<1>7. ASSUME NEW h \in Handles, Crash(h) PROVE AllTold'
  BY <1>7, EmptyTold DEF Crash, TypeOK, AllTold
<1> QED
  BY <1>1, <1>2, <1>3, <1>4, <1>5, <1>6, <1>7 DEF Next

LEMMA AlwaysTold == Spec => []AllTold
<1>1. Spec => []TypeOK
  BY RegistryTypeCorrect
<1> QED
  BY <1>1, ToldInit, ToldNext, PTL DEF Spec

LEMMA ToldMatches == AllTold => LedgerMatchesEvents
<1> SUFFICES ASSUME AllTold, NEW l \in Ledgers
             PROVE  /\ \A s \in Specs : Cardinality(At(l, s, {"register"})) =
                                          IF s \in Known(l) THEN 1 ELSE 0
                    /\ \A s \in Known(l) : l.records[s].state = StateTold(l, s)
                    /\ IF Moves(l) = {} THEN l.champion = None
                       ELSE \E i \in Moves(l) : /\ \A j \in Moves(l) : j <= i
                                                /\ l.champion = l.events[i].spec
  BY DEF LedgerMatchesEvents, StateTold, Moves
<1>1. Told(l)
  BY DEF AllTold, Ledgers
<1>2. ASSUME NEW s \in Specs
      PROVE  Cardinality(At(l, s, {"register"})) = IF s \in Known(l) THEN 1 ELSE 0
  <2>1. CASE s \in Known(l)
    <3>1. PICK i : At(l, s, {"register"}) = {i}
      BY <1>1, <2>1 DEF Told
    <3> QED
      BY <2>1, <3>1, FS_Singleton
  <2>2. CASE s \notin Known(l)
    <3>1. At(l, s, {"register"}) = {}
      BY <1>1, <2>2 DEF Told, At
    <3> QED
      BY <2>2, <3>1, FS_EmptySet
  <2> QED
    BY <2>1, <2>2
<1> QED
  BY <1>1, <1>2 DEF Told

\* For any number of handles that overwrite one another's files, crash, and
\* fail to save: the records and the champion of every ledger are what its
\* own events tell (LedgerMatchesEvents).
THEOREM LedgerCorrect == Spec => []LedgerMatchesEvents
BY AlwaysTold, ToldMatches, PTL

\* For any number of handles: every ledger is what happened (LedgerIsTrue).
THEOREM LedgerTrue == Spec => []LedgerIsTrue
<1>1. LedgerMatchesEvents /\ ChampionJustified => LedgerIsTrue
  BY DEF LedgerIsTrue
<1> QED
  BY <1>1, LedgerCorrect, ChampionCorrect, PTL
-----------------------------------------------------------------------------
(* The events of a ledger are lawful (EventLedger).                         *)

\* Events of l before event i about its spec.
Earlier(l, i, actions) ==
  {j \in 1 .. i - 1 : l[j].spec = l[i].spec /\ l[j].action \in actions}
MovesTo(l, n) == {j \in 1..n : l[j].action \in {"promote", "rollback"}}

LEMMA LawfulMeans ==
  ASSUME NEW l, NEW i
  PROVE  History!Lawful(l, i) <=>
           /\ \A j \in 1 .. i - 1 : l[j].at < l[i].at
           /\ l[i].action = "register" =>
                \A j \in 1 .. i - 1 :
                  l[j].action = "register" => VersionOf[l[j].spec] # VersionOf[l[i].spec]
           /\ l[i].action # "register" => Earlier(l, i, {"register"}) # {}
           /\ l[i].action \in {"gate", "reject", "promote"} =>
                Earlier(l, i, {"promote", "reject"}) = {}
           /\ l[i].action = "promote" => Earlier(l, i, {"gate"}) # {}
           /\ l[i].action = "rollback" =>
                /\ Earlier(l, i, {"promote"}) # {}
                /\ ~History!Serves(l, i - 1, l[i].spec)
BY DEF History!Lawful, Earlier

LEMMA ServesMeans ==
  ASSUME NEW l, NEW n, NEW s
  PROVE  History!Serves(l, n, s) <=>
           IF MovesTo(l, n) = {} THEN s = None
           ELSE \E i \in MovesTo(l, n) : l[i].spec = s /\ \A j \in MovesTo(l, n) : j <= i
BY DEF History!Serves, MovesTo

\* Whether an event is lawful depends on the events up to it.
LEMMA LawfulAlike ==
  ASSUME NEW k, NEW l, NEW i \in Nat \ {0}, \A j \in 1..i : k[j] = l[j],
         History!Lawful(l, i)
  PROVE  History!Lawful(k, i)
<1>1. \A j \in 1 .. i - 1 : k[j] = l[j] /\ k[i] = l[i]
  OBVIOUS
<1>2. \A actions : Earlier(k, i, actions) = Earlier(l, i, actions)
  BY <1>1 DEF Earlier
<1>3. MovesTo(k, i - 1) = MovesTo(l, i - 1)
  BY <1>1 DEF MovesTo
<1>4. \A j \in MovesTo(l, i - 1) : k[j] = l[j]
  BY <1>1 DEF MovesTo
<1>5. History!Serves(k, i - 1, k[i].spec) <=> History!Serves(l, i - 1, l[i].spec)
  BY <1>1, <1>3, <1>4, ServesMeans
<1> QED
  BY <1>1, <1>2, <1>5, LawfulMeans

\* What every ledger keeps: its events are lawful, and a passing decision in a
\* record comes from an event.
Legal(l) ==
  /\ \A i \in DOMAIN l.events : History!Lawful(l.events, i)
  /\ \A s \in Known(l) : l.records[s].gate \in Passing => At(l, s, {"gate"}) # {}
Dated(l, n) == \A i \in DOMAIN l.events : l.events[i].at < n

LEMMA EmptyLegal == Legal(EmptyLedger) /\ \A n : Dated(EmptyLedger, n)
<1>1. DOMAIN EmptyLedger.events = {}
  BY DEF EmptyLedger
<1> QED
  BY <1>1, EmptyType DEF Legal, Dated

LEMMA TellsLegal ==
  ASSUME NEW l \in Ledger, Told(l), Legal(l), NEW s \in Specs, NEW record \in Record,
         NEW champion \in Specs \cup {None}, NEW e \in RegistryEvent, e.spec = s,
         Tells(l, e.action, s, record, champion), Permits(l, e.action, s, record),
         Dated(l, e.at)
  PROVE  Legal(Mutated(l, s, record, champion, e))
<1> DEFINE m == Mutated(l, s, record, champion, e)
           n == Fresh(l)
<1>1. l.events \in Seq(RegistryEvent) /\ Len(l.events) \in Nat
  BY KnownType
<1>2. m.events = Append(l.events, e)
  BY DEF Mutated
<1>3. Grows(l, m, e)
  BY <1>2, EventsGrow
<1>4. /\ Known(m) = Known(l) \cup {s} /\ m.records[s] = record
      /\ \A x \in Known(l) \ {s} : m.records[x] = l.records[x]
  BY MutatedType
<1>5. /\ n = Len(l.events) + 1 /\ m.events[n] = e /\ 1 .. n - 1 = DOMAIN l.events
      /\ \A j \in 1 .. n - 1 : m.events[j] = l.events[j]
      /\ DOMAIN m.events = (1 .. n - 1) \cup {n}
  BY <1>1, <1>2, <1>3 DEF Fresh, Grows
<1> HIDE DEF m, n
<1>6. \A actions : Earlier(m.events, n, actions) = At(l, s, actions)
  BY <1>5 DEF Earlier, At
<1>7. MovesTo(m.events, n - 1) = Moves(l)
  BY <1>5 DEF MovesTo, Moves
<1>8. History!Lawful(m.events, n)
  <2>1. \A j \in 1 .. n - 1 : m.events[j].at < e.at
    BY <1>5 DEF Dated
  <2>2. ASSUME e.action = "register", NEW j \in 1 .. n - 1
        PROVE  VersionOf[m.events[j].spec] # VersionOf[e.spec]
    BY <1>5, <2>2 DEF Told, Permits
  <2>3. ASSUME e.action # "register" PROVE At(l, s, {"register"}) # {}
    BY <2>3 DEF Told, Tells
  <2>4. ASSUME e.action \in {"gate", "reject", "promote"}
        PROVE  At(l, s, {"promote", "reject"}) = {}
    <3>1. s \in Known(l) /\ l.records[s].state = "candidate"
      BY <2>4 DEF Tells, Permits
    <3>2. At(l, s, {"promote"}) = {} /\ At(l, s, {"reject"}) = {}
      BY <3>1 DEF Told, StateTold
    <3> QED
      BY <3>2 DEF At
  <2>5. ASSUME e.action = "promote" PROVE At(l, s, {"gate"}) # {}
    BY <2>5 DEF Tells, Permits, Legal
  <2>6. ASSUME e.action = "rollback"
        PROVE  At(l, s, {"promote"}) # {} /\ ~History!Serves(m.events, n - 1, s)
    <3>1. s \in Known(l) /\ l.records[s].state = "promoted" /\ l.champion # s
      BY <2>6 DEF Tells, Permits
    <3>2. At(l, s, {"promote"}) # {}
      BY <3>1 DEF Told, StateTold
    <3>3. Moves(l) # {}
      BY <3>2 DEF At, Moves
    <3>4. PICK i \in Moves(l) : (\A j \in Moves(l) : j <= i) /\ l.champion = l.events[i].spec
      BY <3>3 DEF Told
    <3>5. \A j \in Moves(l) : j \in Nat /\ m.events[j] = l.events[j]
      BY <1>1, <1>5 DEF Moves
    <3>6. ASSUME NEW j \in Moves(l), m.events[j].spec = s, \A x \in Moves(l) : x <= j
          PROVE  FALSE
      <4>1. j = i
        BY <3>4, <3>5, <3>6
      <4> QED
        BY <3>1, <3>4, <3>5, <3>6, <4>1
    <3> QED
      BY <1>7, <3>2, <3>3, <3>6, ServesMeans
  <2> QED
    BY <1>5, <1>6, <2>1, <2>2, <2>3, <2>4, <2>5, <2>6, LawfulMeans
<1>9. ASSUME NEW i \in DOMAIN l.events PROVE History!Lawful(m.events, i)
  <2>1. i \in Nat \ {0} /\ \A j \in 1..i : m.events[j] = l.events[j]
    BY <1>1, <1>5
  <2>2. History!Lawful(l.events, i)
    BY DEF Legal
  <2> QED
    BY <2>1, <2>2, LawfulAlike
<1>10. ASSUME NEW x \in Known(m), m.records[x].gate \in Passing
       PROVE  At(m, x, {"gate"}) # {}
  <2>1. CASE x = s /\ e.action = "gate"
    BY <1>3, <2>1 DEF Grows
  <2>2. CASE ~(x = s /\ e.action = "gate")
    <3>1. At(m, x, {"gate"}) = At(l, x, {"gate"})
      BY <1>3, <2>2 DEF Grows
    <3>2. x \in Known(l) /\ l.records[x].gate \in Passing
      BY <1>4, <1>10, <2>2 DEF Permits
    <3> QED
      BY <3>1, <3>2 DEF Legal
  <2> QED
    BY <2>1, <2>2
<1> QED
  BY <1>5, <1>8, <1>9, <1>10 DEF Legal, m

AllLegal ==
  /\ \A h \in Handles : Legal(mem[h]) /\ Dated(mem[h], begun)
  /\ disk \notin {None, Torn} => Legal(disk) /\ Dated(disk, begun)
  /\ tmp \notin {None, Torn} => Legal(tmp) /\ Dated(tmp, begun)

LEMMA LegalInit == Init => AllLegal
BY EmptyLegal DEF Init, AllLegal

LEMMA LegalNext == TypeOK /\ AllTold /\ AllLegal /\ [Next]_vars => AllLegal'
<1> SUFFICES ASSUME TypeOK, AllTold, AllLegal, [Next]_vars PROVE AllLegal'
  OBVIOUS
<1>1. CASE UNCHANGED vars
  BY <1>1 DEF vars, AllLegal
<1>2. ASSUME NEW h \in Handles, Operate(h) PROVE AllLegal'
  <2>1. CASE UNCHANGED <<disk, tmp, mem, begun>>
    BY <2>1 DEF AllLegal
  <2>2. ASSUME NEW action \in Action, NEW s \in Specs, NEW record \in Record,
               NEW champion \in Specs \cup {None},
               Tells(mem[h], action, s, record, champion),
               Permits(mem[h], action, s, record),
               Mutate(h, action, s, record, champion)
        PROVE  AllLegal'
    <3> DEFINE e == [action |-> action, spec |-> s, at |-> begun]
               m == Mutated(mem[h], s, record, champion, e)
    <3>1. e \in RegistryEvent /\ e.action = action /\ e.spec = s /\ e.at = begun
      BY DEF RegistryEvent, TypeOK
    <3>2. mem[h] \in Ledger /\ Told(mem[h]) /\ Legal(mem[h]) /\ Dated(mem[h], e.at)
      BY <3>1 DEF TypeOK, AllTold, AllLegal
    <3>3. /\ mem' = [mem EXCEPT ![h] = m] /\ begun' = begun + 1
          /\ UNCHANGED <<disk, tmp>>
      BY <2>2 DEF Mutate
    <3>4. Happened(m) = Happened(mem[h]) \cup {e}
      <4>1. m.events = Append(mem[h].events, e)
        BY DEF Mutated
      <4> HIDE DEF m, e
      <4>2. Grows(mem[h], m, e)
        BY <3>1, <3>2, <4>1, EventsGrow
      <4> QED
        BY <4>2 DEF Grows
    <3> HIDE DEF e
    <3>5. Legal(m)
      BY <2>2, <3>1, <3>2, TellsLegal
    <3> HIDE DEF m
    <3>6. \A l \in Ledger : Dated(l, begun) => Dated(l, begun + 1)
      <4>1. ASSUME NEW l \in Ledger, Dated(l, begun), NEW i \in DOMAIN l.events
            PROVE  l.events[i].at < begun + 1
        <5>1. l.events[i] \in RegistryEvent
          BY KnownType
        <5>2. l.events[i].at \in Nat /\ begun \in Nat
          BY <5>1 DEF RegistryEvent, TypeOK
        <5> QED
          BY <4>1, <5>2 DEF Dated
      <4> QED
        BY <4>1 DEF Dated
    <3>7. Dated(m, begun + 1)
      <4>1. ASSUME NEW x \in Happened(mem[h]) \cup {e} PROVE x.at < begun + 1
        <5>1. CASE x = e
          BY <3>1, <5>1 DEF TypeOK
        <5>2. CASE x \in Happened(mem[h])
          BY <3>2, <3>6, <3>1, <5>2 DEF Happened, Dated
        <5> QED
          BY <5>1, <5>2
      <4> QED
        BY <3>4, <4>1 DEF Happened, Dated
    <3>8. \A g \in Handles : Legal(mem'[g]) /\ Dated(mem'[g], begun')
      BY <3>3, <3>5, <3>6, <3>7 DEF AllLegal, TypeOK
    <3>9. /\ disk \notin {None, Torn} => Dated(disk, begun')
          /\ tmp \notin {None, Torn} => Dated(tmp, begun')
      BY <3>3, <3>6 DEF AllLegal, TypeOK
    <3> QED
      BY <3>3, <3>8, <3>9 DEF AllLegal
  <2> QED
    BY <1>2, <2>1, <2>2, OperationTells
<1>3. ASSUME NEW h \in Handles, Open(h) PROVE AllLegal'
  BY <1>3, EmptyLegal DEF Open, TypeOK, AllLegal
<1>4. ASSUME NEW h \in Handles, WriteTmp(h) PROVE AllLegal'
  BY <1>4 DEF WriteTmp, AllLegal
<1>5. ASSUME NEW h \in Handles, Replace(h) PROVE AllLegal'
  BY <1>5 DEF Replace, AllLegal
<1>6. ASSUME NEW h \in Handles, SaveFails(h) PROVE AllLegal'
  BY <1>6 DEF SaveFails, AllLegal
<1>7. ASSUME NEW h \in Handles, Crash(h) PROVE AllLegal'
  BY <1>7, EmptyLegal DEF Crash, TypeOK, AllLegal
<1> QED
  BY <1>1, <1>2, <1>3, <1>4, <1>5, <1>6, <1>7 DEF Next

\* For any number of handles, crashes and failed saves: the events of every
\* ledger, in memory or on the path, are lawful and in the order of the calls,
\* and every passing decision in a record was recorded by an event.
THEOREM LawfulCorrect == Spec => []AllLegal
<1>1. Spec => [](TypeOK /\ AllTold)
  BY RegistryTypeCorrect, AlwaysTold, PTL
<1> QED
  BY <1>1, LegalInit, LegalNext, PTL DEF Spec
-----------------------------------------------------------------------------
(* One handle at a time.                                                   *)

OnDisk == IF disk = None THEN {} ELSE Happened(disk)

\* What the only handle h keeps: its memory has what the file has, and what
\* it has more was lost by a failed save or is being saved; an event being
\* saved is later than every event of a call that returned or failed.
Backed(h) ==
  /\ disk # Torn
  /\ pc[h] = "written" => tmp = mem[h]
  /\ acked \subseteq unsaved \cup OnDisk
  /\ pc[h] # "closed" => /\ OnDisk \subseteq Happened(mem[h])
                         /\ Happened(mem[h]) \subseteq OnDisk \cup unsaved \cup {op[h]}
  /\ pc[h] \in {"closed", "idle"} => op[h] = None
  /\ op[h] # None => /\ op[h] \in Happened(mem[h])
                     /\ \A e \in acked \cup unsaved : e.at < op[h].at
  /\ \A e \in acked \cup unsaved \cup OnDisk \cup Happened(mem[h]) : e.at < begun
  /\ \A e \in acked \cap unsaved : e.action = "register"

LEMMA TornIsNoLedger == Torn \notin Ledger
<1>1. SUFFICES ASSUME Torn \in Ledger PROVE FALSE
  OBVIOUS
<1>2. DOMAIN Torn = {"champion", "records", "events"}
  BY <1>1 DEF Ledger
<1>3. DOMAIN Torn = {"torn"}
  BY DEF Torn
<1> QED
  BY <1>2, <1>3

LEMMA EmptyHappened == Happened(EmptyLedger) = {}
BY DEF Happened, EmptyLedger

LEMMA HappenedType ==
  ASSUME NEW l \in Ledger
  PROVE  Happened(l) \subseteq RegistryEvent /\ None \notin Happened(l)
BY KnownType, EventAssumption DEF Happened

\* An operation is a repeated register or a mutation of an idle handle.
LEMMA OperationMutates ==
  ASSUME NEW h \in Handles, Operate(h)
  PROVE  \/ \E s \in Specs : RegisterAgain(h, s)
         \/ \E action \in Action, s \in Specs : \E record, champion :
              pc[h] = "idle" /\ Mutate(h, action, s, record, champion)
<1>1. PICK s \in Specs : \/ RegisterAgain(h, s)
                         \/ Register(h, s)
                         \/ \E d \in Decisions : RecordGate(h, s, d)
                         \/ Promote(h, s)
                         \/ Rollback(h, s)
  BY DEF Operate
<1>2. CASE Register(h, s)
  <2>1. "register" \in Action
    BY DEF Action
  <2> QED
    BY <1>2, <2>1 DEF Register
<1>3. CASE \E d \in Decisions : RecordGate(h, s, d)
  <2>1. PICK d \in Decisions : RecordGate(h, s, d)
    BY <1>3
  <2>2. (IF d \in Passing THEN "gate" ELSE "reject") \in Action
    BY DEF Action
  <2> QED
    BY <2>1, <2>2 DEF RecordGate
<1>4. CASE Promote(h, s)
  <2>1. "promote" \in Action
    BY DEF Action
  <2> QED
    BY <1>4, <2>1 DEF Promote
<1>5. CASE Rollback(h, s)
  <2>1. "rollback" \in Action
    BY DEF Action
  <2> QED
    BY <1>5, <2>1 DEF Rollback
<1> QED
  BY <1>1, <1>2, <1>3, <1>4, <1>5

LEMMA BackedInit == ASSUME NEW h, Handles = {h} PROVE Init => Backed(h)
BY EmptyHappened, EventAssumption DEF Init, Backed, OnDisk

LEMMA BackedNext ==
  ASSUME NEW h, Handles = {h}
  PROVE  TypeOK /\ Backed(h) /\ [Next]_vars => Backed(h)'
<1> SUFFICES ASSUME TypeOK, Backed(h), [Next]_vars PROVE Backed(h)'
  OBVIOUS
<1>0. /\ mem \in [{h} -> Ledger] /\ pc \in [{h} -> {"closed", "idle", "saving", "written"}]
      /\ op \in [{h} -> RegistryEvent \cup {None}] /\ begun \in Nat
      /\ acked \subseteq RegistryEvent /\ unsaved \subseteq RegistryEvent
  BY DEF TypeOK
<1>a. Happened(mem[h]) \subseteq RegistryEvent /\ None \notin Happened(mem[h])
  BY <1>0, HappenedType
<1>1. CASE UNCHANGED vars
  BY <1>1 DEF vars, Backed, OnDisk
<1>2. CASE Open(h)
  <2>1. /\ pc[h] = "closed" /\ disk # Torn /\ op'[h] = None
        /\ mem'[h] = IF disk = None THEN EmptyLedger ELSE disk
        /\ pc'[h] \in {"saving", "idle"}
        /\ UNCHANGED <<disk, tmp, begun, acked, unsaved>>
    BY <1>0, <1>2 DEF Open
  <2>2. Happened(mem'[h]) = OnDisk
    BY <2>1, EmptyHappened DEF OnDisk
  <2> QED
    BY <2>1, <2>2 DEF Backed, OnDisk
<1>3. CASE \E s \in Specs : RegisterAgain(h, s)
  <2>1. /\ pc[h] = "idle" /\ acked \subseteq acked'
        /\ \A e \in acked' : e \in acked \/ (e \in Happened(mem[h]) /\ e.action = "register")
        /\ UNCHANGED <<disk, tmp, mem, pc, op, begun, unsaved>>
    BY <1>3 DEF RegisterAgain
  <2>2. Happened(mem[h]) \subseteq OnDisk \cup unsaved
    BY <1>a, <2>1 DEF Backed
  <2> QED
    BY <2>1, <2>2 DEF Backed, OnDisk
<1>4. CASE \E action \in Action, s \in Specs : \E record, champion :
             pc[h] = "idle" /\ Mutate(h, action, s, record, champion)
  <2>0. PICK action \in Action, s \in Specs : \E record, champion :
          pc[h] = "idle" /\ Mutate(h, action, s, record, champion)
    BY <1>4
  <2>1. PICK record, champion :
          pc[h] = "idle" /\ Mutate(h, action, s, record, champion)
    BY <2>0
  <2> DEFINE e == [action |-> action, spec |-> s, at |-> begun]
             m == Mutated(mem[h], s, record, champion, e)
  <2>2. e \in RegistryEvent /\ e.at = begun
    BY <1>0, <2>1 DEF RegistryEvent
  <2>3. /\ mem'[h] = m /\ op'[h] = e /\ pc'[h] = "saving" /\ begun' = begun + 1
        /\ UNCHANGED <<disk, tmp, acked, unsaved>>
    BY <1>0, <2>1 DEF Mutate
  <2>4. m.events = Append(mem[h].events, e)
    BY DEF Mutated
  <2> HIDE DEF m, e
  <2>5. Happened(m) = Happened(mem[h]) \cup {e}
    BY <1>0, <2>2, <2>4, EventsGrow DEF Grows
  <2>6. Happened(mem[h]) \subseteq OnDisk \cup unsaved
    BY <1>a, <2>1 DEF Backed
  <2>7. \A x \in acked \cup unsaved \cup OnDisk \cup Happened(mem[h]) : x.at < begun
    BY DEF Backed
  <2>8. \A x \in acked \cup unsaved : x.at \in Nat
    BY <1>0 DEF RegistryEvent
  <2>9. ASSUME NEW x \in acked' \cup unsaved' \cup OnDisk' \cup Happened(mem'[h])
        PROVE  x.at < begun'
    <3>1. x = e \/ x \in acked \cup unsaved \cup OnDisk \cup Happened(mem[h])
      BY <2>3, <2>5 DEF OnDisk
    <3>2. x \in RegistryEvent
      <4>1. OnDisk \subseteq Happened(mem[h])
        BY <2>1 DEF Backed
      <4> QED
        BY <1>0, <1>a, <2>2, <3>1, <4>1
    <3>3. x.at \in Nat
      BY <3>2 DEF RegistryEvent
    <3>4. x.at = begun \/ x.at < begun
      BY <2>2, <2>7, <3>1
    <3> QED
      BY <1>0, <2>3, <3>3, <3>4
  <2>10. /\ op'[h] \in Happened(mem'[h])
         /\ \A x \in acked' \cup unsaved' : x.at < op'[h].at
    BY <2>2, <2>3, <2>5, <2>7
  <2>11. /\ OnDisk' \subseteq Happened(mem'[h])
         /\ Happened(mem'[h]) \subseteq OnDisk' \cup unsaved' \cup {op'[h]}
    BY <2>1, <2>3, <2>5, <2>6 DEF Backed, OnDisk
  <2>12. /\ disk' # Torn /\ acked' \subseteq unsaved' \cup OnDisk'
         /\ \A x \in acked' \cap unsaved' : x.action = "register"
    BY <2>3 DEF Backed, OnDisk
  <2> QED
    BY <2>3, <2>9, <2>10, <2>11, <2>12 DEF Backed
<1>5. CASE WriteTmp(h)
  <2>1. /\ pc[h] = "saving" /\ tmp' = mem[h] /\ pc'[h] = "written"
        /\ UNCHANGED <<disk, mem, op, begun, acked, unsaved>>
    BY <1>0, <1>5 DEF WriteTmp
  <2> QED
    BY <2>1 DEF Backed, OnDisk
<1>6. CASE Replace(h)
  <2>1. /\ pc[h] = "written" /\ tmp # None /\ disk' = mem[h] /\ pc'[h] = "idle"
        /\ acked' = acked \cup ({op[h]} \ {None}) /\ op'[h] = None
        /\ UNCHANGED <<mem, begun, unsaved>> /\ tmp = mem[h]
    BY <1>0, <1>6 DEF Replace, Backed
  <2>2. OnDisk' = Happened(mem[h]) /\ disk' # Torn
    BY <1>0, <2>1, TornIsNoLedger DEF OnDisk
  <2>3. op[h] # None => /\ op[h] \in Happened(mem[h]) /\ op[h].at \in Nat
                        /\ \A e \in unsaved : e.at < op[h].at
    BY <1>0, <1>a DEF Backed, RegistryEvent
  <2>4. op[h] # None => op[h] \notin unsaved
    <3>1. op[h] # None => ~(op[h].at < op[h].at)
      BY <2>3
    <3> QED
      BY <2>3, <3>1
  <2>5. acked' \subseteq unsaved' \cup OnDisk' /\ OnDisk \subseteq OnDisk'
    BY <2>1, <2>2, <2>3 DEF Backed
  <2>6. \A e \in acked' \cup unsaved' \cup OnDisk' \cup Happened(mem'[h]) : e.at < begun'
    BY <2>1, <2>2, <2>3 DEF Backed
  <2>7. \A e \in acked' \cap unsaved' : e.action = "register"
    BY <2>1, <2>4 DEF Backed
  <2> QED
    BY <2>1, <2>2, <2>5, <2>6, <2>7 DEF Backed
<1>7. CASE SaveFails(h)
  <2>1. /\ pc[h] \in {"saving", "written"} /\ op'[h] = None
        /\ pc'[h] = IF op[h] = None THEN "closed" ELSE "idle"
        /\ unsaved' = unsaved \cup ({op[h]} \ {None})
        /\ UNCHANGED <<disk, mem, begun, acked>>
    BY <1>0, <1>7 DEF SaveFails
  <2>2. op[h] # None => /\ op[h] \in Happened(mem[h]) /\ op[h].at \in Nat
                        /\ \A e \in acked : e.at < op[h].at
    BY <1>0 DEF Backed, RegistryEvent
  <2>3. op[h] # None => op[h] \notin acked
    <3>1. op[h] # None => ~(op[h].at < op[h].at)
      BY <2>2
    <3> QED
      BY <2>2, <3>1
  <2>4. \A e \in acked' \cup unsaved' \cup OnDisk' \cup Happened(mem'[h]) : e.at < begun'
    BY <2>1, <2>2 DEF Backed, OnDisk
  <2>5. \A e \in acked' \cap unsaved' : e.action = "register"
    BY <2>1, <2>3 DEF Backed
  <2>6. pc'[h] # "closed" => /\ OnDisk' \subseteq Happened(mem'[h])
                             /\ Happened(mem'[h]) \subseteq OnDisk' \cup unsaved'
    BY <2>1 DEF Backed, OnDisk
  <2>7. disk' # Torn /\ acked' \subseteq unsaved' \cup OnDisk' /\ pc'[h] # "written"
    BY <2>1 DEF Backed, OnDisk
  <2> QED
    BY <2>1, <2>4, <2>5, <2>6, <2>7 DEF Backed
<1>8. CASE Crash(h)
  <2>1. /\ pc'[h] = "closed" /\ mem'[h] = EmptyLedger /\ op'[h] = None
        /\ UNCHANGED <<disk, begun, acked, unsaved>>
    BY <1>0, <1>8 DEF Crash
  <2> QED
    BY <2>1, EmptyHappened DEF Backed, OnDisk
<1> QED
  BY <1>1, <1>2, <1>3, <1>4, <1>5, <1>6, <1>7, <1>8, OperationMutates DEF Next

LEMMA AlwaysBacked == ASSUME NEW h, Handles = {h} PROVE Spec => []Backed(h)
<1>1. Spec => []TypeOK
  BY RegistryTypeCorrect
<1>2. Init => Backed(h)
  BY BackedInit
<1>3. TypeOK /\ Backed(h) /\ [Next]_vars => Backed(h)'
  BY BackedNext
<1> QED
  BY <1>1, <1>2, <1>3, PTL DEF Spec

\* With one handle on the path, whatever crashes and whichever saves fail: the
\* file has the event of every call that returned, but for a register answered
\* from a save that had failed (ReturnedIsFileBacked).
THEOREM ReturnedCorrect ==
  ASSUME NEW h, Handles = {h}
  PROVE  Spec => []ReturnedIsFileBacked
<1>1. Backed(h) => ReturnedIsFileBacked
  BY DEF Backed, OnDisk, ReturnedIsFileBacked
<1> QED
  BY <1>1, AlwaysBacked, PTL

\* How the memory of the only handle runs ahead of the file: the file's events
\* are its first, and after them come those whose save failed, and the one
\* being saved, which is the last.
FileLog == IF Saved THEN disk.events ELSE << >>
Ahead(h) ==
  LET l == mem[h].events
  IN  /\ pc[h] # "closed" =>
           /\ Len(FileLog) <= Len(l)
           /\ \A i \in 1..Len(FileLog) : l[i] = FileLog[i]
           /\ \A i \in Len(FileLog) + 1 .. Len(l) :
                l[i] \in unsaved \/ (i = Len(l) /\ l[i] = op[h])
      /\ op[h] # None => /\ pc[h] \in {"saving", "written"}
                         /\ Len(FileLog) < Len(l)
                         /\ l[Len(l)] = op[h]
      /\ pc[h] \in {"saving", "written"} /\ op[h] = None =>
           disk = None /\ mem[h] = EmptyLedger

LEMMA FileLogType ==
  ASSUME TypeOK
  PROVE  /\ FileLog \in Seq(RegistryEvent) /\ Len(FileLog) \in Nat
         /\ DOMAIN FileLog = 1..Len(FileLog)
<1>1. Saved => disk.events \in Seq(RegistryEvent)
  BY KnownType DEF Saved, TypeOK
<1>2. FileLog \in Seq(RegistryEvent)
  BY <1>1 DEF FileLog
<1> QED
  BY <1>2

LEMMA AheadInit == ASSUME NEW h, Handles = {h} PROVE Init => Ahead(h)
BY DEF Init, Ahead

LEMMA AheadNext ==
  ASSUME NEW h, Handles = {h}
  PROVE  TypeOK /\ Backed(h) /\ Ahead(h) /\ [Next]_vars => Ahead(h)'
<1> SUFFICES ASSUME TypeOK, Backed(h), Ahead(h), [Next]_vars PROVE Ahead(h)'
  OBVIOUS
<1>0. /\ mem \in [{h} -> Ledger] /\ pc \in [{h} -> {"closed", "idle", "saving", "written"}]
      /\ op \in [{h} -> RegistryEvent \cup {None}] /\ begun \in Nat
      /\ mem[h].events \in Seq(RegistryEvent) /\ Len(mem[h].events) \in Nat
  BY KnownType DEF TypeOK
<1>a. Len(FileLog) \in Nat
  BY FileLogType
<1>b. UNCHANGED disk => UNCHANGED FileLog
  BY DEF FileLog, Saved
<1>1. CASE UNCHANGED vars
  BY <1>1, <1>b DEF vars, Ahead
<1>2. CASE Open(h)
  <2>1. /\ op'[h] = None /\ UNCHANGED <<disk, FileLog>> /\ disk # Torn
        /\ mem'[h] = IF disk = None THEN EmptyLedger ELSE disk
        /\ pc'[h] = IF disk = None THEN "saving" ELSE "idle"
    BY <1>0, <1>2, <1>b DEF Open
  <2>2. CASE disk = None
    <3>1. FileLog = << >> /\ mem'[h].events = << >>
      BY <2>1, <2>2 DEF FileLog, Saved, EmptyLedger
    <3> QED
      BY <2>1, <2>2, <3>1 DEF Ahead
  <2>3. CASE disk # None
    <3>1. mem'[h].events = FileLog
      BY <2>1, <2>3 DEF FileLog, Saved
    <3> QED
      BY <1>a, <2>1, <2>3, <3>1 DEF Ahead
  <2> QED
    BY <2>2, <2>3
<1>3. CASE \E s \in Specs : RegisterAgain(h, s)
  BY <1>3, <1>b DEF RegisterAgain, Ahead
<1>4. CASE \E action \in Action, s \in Specs : \E record, champion :
             pc[h] = "idle" /\ Mutate(h, action, s, record, champion)
  <2>1. PICK action \in Action, s \in Specs : \E record, champion :
          pc[h] = "idle" /\ Mutate(h, action, s, record, champion)
    BY <1>4
  <2>2. PICK record, champion :
          pc[h] = "idle" /\ Mutate(h, action, s, record, champion)
    BY <2>1
  <2> DEFINE l == mem[h].events
             e == [action |-> action, spec |-> s, at |-> begun]
             k == mem'[h].events
  <2>3. /\ k = Append(l, e) /\ op'[h] = e /\ pc'[h] = "saving"
        /\ UNCHANGED <<disk, FileLog, unsaved>>
    BY <1>0, <1>b, <2>2 DEF Mutate, Mutated
  <2>4. e \in RegistryEvent
    BY <1>0 DEF RegistryEvent
  <2>5. /\ l \in Seq(RegistryEvent) /\ Len(l) \in Nat /\ Len(k) = Len(l) + 1
        /\ k[Len(k)] = e /\ \A i \in 1..Len(l) : k[i] = l[i]
    BY <1>0, <2>3, <2>4
  <2>6. \A i \in 1..Len(l) : l[i] # None
    BY <2>5, EventAssumption
  <2>7. /\ Len(FileLog) <= Len(l)
        /\ \A i \in 1..Len(FileLog) : l[i] = FileLog[i]
        /\ \A i \in Len(FileLog) + 1 .. Len(l) : l[i] \in unsaved
    <3>1. op[h] = None
      BY <2>2 DEF Backed
    <3> QED
      BY <1>a, <2>2, <2>5, <2>6, <3>1 DEF Ahead
  <2>8. k = mem'[h].events
    OBVIOUS
  <2> HIDE DEF l, e, k
  <2>9. /\ Len(FileLog') <= Len(k)
        /\ \A i \in 1..Len(FileLog') : k[i] = FileLog'[i]
    BY <1>a, <2>3, <2>5, <2>7
  <2>10. ASSUME NEW i \in Len(FileLog') + 1 .. Len(k)
         PROVE  k[i] \in unsaved' \/ (i = Len(k) /\ k[i] = op'[h])
    BY <1>a, <2>3, <2>5, <2>7
  <2>11. e # None
    BY <2>4, EventAssumption
  <2>12. Len(FileLog') < Len(k)
    BY <1>a, <2>3, <2>5, <2>7
  <2> QED
    BY <2>3, <2>5, <2>8, <2>9, <2>10, <2>11, <2>12 DEF Ahead
<1>5. CASE WriteTmp(h)
  BY <1>0, <1>5, <1>b DEF WriteTmp, Ahead
<1>6. CASE Replace(h)
  <2>1. /\ disk' = mem[h] /\ pc'[h] = "idle" /\ op'[h] = None /\ UNCHANGED <<mem, unsaved>>
    BY <1>0, <1>6 DEF Replace, Backed
  <2>2. disk' # None /\ disk' # Torn
    BY <1>0, <1>6, <2>1, TornIsNoLedger DEF Replace
  <2>3. FileLog' = mem'[h].events
    BY <2>1, <2>2 DEF FileLog, Saved
  <2> QED
    BY <1>0, <2>1, <2>3 DEF Ahead
<1>7. CASE SaveFails(h)
  <2>1. /\ op'[h] = None /\ UNCHANGED <<disk, mem, FileLog>> /\ pc'[h] \in {"closed", "idle"}
        /\ op[h] # None => op[h] \in unsaved'
        /\ unsaved \subseteq unsaved' /\ (pc'[h] # "closed" => op[h] # None)
        /\ pc[h] # "closed"
    BY <1>0, <1>7, <1>b DEF SaveFails
  <2> QED
    BY <2>1 DEF Ahead
<1>8. CASE Crash(h)
  BY <1>0, <1>8, <1>b DEF Crash, Ahead
<1> QED
  BY <1>1, <1>2, <1>3, <1>4, <1>5, <1>6, <1>7, <1>8, OperationMutates DEF Next

LEMMA AlwaysAhead == ASSUME NEW h, Handles = {h} PROVE Spec => []Ahead(h)
<1>1. TypeOK /\ Backed(h) /\ Ahead(h) /\ [Next]_vars => Ahead(h)'
  BY AheadNext
<1>2. Init => Ahead(h)
  BY AheadInit
<1> QED
  BY <1>1, <1>2, RegistryTypeCorrect, AlwaysBacked, PTL DEF Spec
-----------------------------------------------------------------------------
(* Refinement: with one handle the file implements EventLedger.            *)

FileServing == IF Saved THEN disk.champion ELSE None

LEMMA HistoryStutters ==
  ASSUME UNCHANGED <<disk, acked, unsaved>> PROVE UNCHANGED History!vars
BY DEF History!vars, Saved

\* What the ledger that h saves says.
LEMMA ServesChampion ==
  ASSUME NEW l \in Ledger, Told(l)
  PROVE  History!Serves(l.events, Len(l.events), l.champion)
<1>1. l.events \in Seq(RegistryEvent) /\ DOMAIN l.events = 1..Len(l.events)
  BY KnownType
<1>2. MovesTo(l.events, Len(l.events)) = Moves(l)
  BY <1>1 DEF MovesTo, Moves
<1> QED
  BY <1>2, ServesMeans DEF Told

HistoryInv(h) == TypeOK /\ AllTold /\ AllLegal /\ Backed(h) /\ Ahead(h)

\* An event that is being saved is in the file, returned and failed nowhere.
LEMMA SavedIsNew ==
  ASSUME NEW h, Handles = {h}, HistoryInv(h), op[h] # None
  PROVE  op[h] \notin History!Logged \cup acked \cup unsaved
<1> DEFINE l == mem[h].events
           n == Len(l)
<1> USE DEF HistoryInv
<1>1. l \in Seq(RegistryEvent) /\ n \in Nat /\ DOMAIN l = 1..n
  BY KnownType DEF TypeOK
<1>2. Len(FileLog) \in Nat /\ DOMAIN FileLog = 1..Len(FileLog)
  BY FileLogType
<1>3. /\ pc[h] # "closed" /\ Len(FileLog) < n /\ l[n] = op[h]
      /\ \A i \in 1..Len(FileLog) : l[i] = FileLog[i]
  BY DEF Ahead
<1>4. \A i \in 1..n : l[i].at \in Nat
  <2>1. ASSUME NEW i \in 1..n PROVE l[i] \in RegistryEvent
    BY <1>1
  <2> QED
    BY <2>1 DEF RegistryEvent
<1>5. History!Lawful(l, n)
  BY <1>1, <1>2, <1>3 DEF AllLegal, Legal
<1> HIDE DEF l, n
<1>6. \A i \in 1 .. n - 1 : l[i].at < l[n].at
  BY <1>5, LawfulMeans
<1>7. ASSUME NEW i \in DOMAIN FileLog PROVE FileLog[i] # op[h]
  <2>1. i \in 1 .. n - 1 /\ FileLog[i] = l[i] /\ i \in 1..n /\ n \in 1..n
    BY <1>1, <1>2, <1>3
  <2>2. l[i].at < l[n].at /\ l[i].at \in Nat /\ l[n].at \in Nat
    BY <1>4, <1>6, <2>1
  <2>3. l[i] # l[n]
    BY <2>2
  <2> QED
    BY <1>3, <2>1, <2>3
<1>8. op[h] \notin History!Logged
  BY <1>7 DEF History!Logged, FileLog
<1>9. \A e \in acked \cup unsaved : e.at < op[h].at
  BY DEF Backed
<1>10. op[h].at \in Nat
  BY <1>1, <1>3, <1>4 DEF TypeOK, RegistryEvent
<1> QED
  BY <1>8, <1>9, <1>10

LEMMA ReplaceSaves ==
  ASSUME NEW h, Handles = {h}, HistoryInv(h), Replace(h)
  PROVE  [History!Next]_(History!vars)
<1> DEFINE l == mem[h].events
           n == Len(l)
<1> USE DEF HistoryInv
<1>1. /\ mem[h] \in Ledger /\ Told(mem[h]) /\ Legal(mem[h])
      /\ l \in Seq(RegistryEvent) /\ n \in Nat /\ DOMAIN l = 1..n
  BY KnownType DEF TypeOK, AllTold, AllLegal
<1>2. /\ pc[h] = "written" /\ tmp # None /\ disk' = mem[h]
      /\ acked' = acked \cup ({op[h]} \ {None}) /\ UNCHANGED unsaved
  BY DEF Replace, Backed
<1>3. disk' # None /\ disk' # Torn
  BY <1>1, <1>2, TornIsNoLedger DEF Replace, Backed
<1>4. FileLog' = l /\ FileServing' = mem[h].champion
  BY <1>2, <1>3 DEF FileLog, FileServing, Saved
<1>5. Len(FileLog) \in Nat /\ DOMAIN FileLog = 1..Len(FileLog)
  BY FileLogType
<1>6. CASE op[h] = None
  <2>1. disk = None /\ mem[h] = EmptyLedger
    BY <1>2, <1>6 DEF Ahead
  <2>2. FileLog = << >> /\ FileServing = None /\ FileLog' = << >> /\ FileServing' = None
    BY <1>4, <2>1 DEF FileLog, FileServing, Saved, EmptyLedger
  <2>3. UNCHANGED <<FileLog, FileServing, acked, unsaved>>
    BY <1>2, <1>6, <2>2
  <2> QED
    BY <2>3 DEF History!vars, FileLog, FileServing
<1>7. CASE op[h] # None
  <2>1. /\ Len(FileLog) < n /\ l[n] = op[h]
        /\ \A i \in 1..Len(FileLog) : l[i] = FileLog[i]
        /\ \A i \in Len(FileLog) + 1 .. n : l[i] \in unsaved \/ i = n
    BY <1>2, <1>7 DEF Ahead
  <2>2. \A i \in 1..n : History!Lawful(l, i)
    BY <1>1 DEF Legal
  <2>3. History!Serves(l, n, mem[h].champion)
    BY <1>1, ServesChampion
  <2>4. op[h] \notin acked \cup unsaved
    BY <1>7, SavedIsNew
  <2>5. acked' = acked \cup {op[h]}
    BY <1>2, <1>7
  <2> HIDE DEF l, n
  <2>6. \A i \in Len(FileLog) + 1 .. n :
          History!Lawful(l, i) /\ (i < n => l[i] \in unsaved)
    BY <1>1, <1>5, <2>1, <2>2
  <2>7. n = Len(l)
    BY DEF n
  <2>8. /\ Len(FileLog') > Len(FileLog)
        /\ \A i \in DOMAIN FileLog : FileLog'[i] = FileLog[i]
        /\ \A i \in Len(FileLog) + 1 .. Len(FileLog') :
             /\ History!Lawful(FileLog', i)
             /\ i < Len(FileLog') => FileLog'[i] \in unsaved
        /\ History!Serves(FileLog', Len(FileLog'), FileServing')
        /\ FileLog'[Len(FileLog')] \notin acked \cup unsaved
        /\ acked' = acked \cup {FileLog'[Len(FileLog')]}
        /\ UNCHANGED unsaved
    BY <1>1, <1>2, <1>4, <1>5, <2>1, <2>3, <2>4, <2>5, <2>6, <2>7
  <2>9. History!Save
    BY <2>8 DEF History!Save, FileLog, FileServing
  <2> QED
    BY <2>9 DEF History!Next
<1> QED
  BY <1>6, <1>7

LEMMA HistoryNext ==
  ASSUME NEW h, Handles = {h}
  PROVE  HistoryInv(h) /\ [Next]_vars => [History!Next]_(History!vars)
<1> SUFFICES ASSUME HistoryInv(h), [Next]_vars PROVE [History!Next]_(History!vars)
  OBVIOUS
<1>1. CASE UNCHANGED vars
  BY <1>1, HistoryStutters DEF vars
<1>2. CASE Open(h) \/ WriteTmp(h) \/ Crash(h)
  BY <1>2, HistoryStutters DEF Open, WriteTmp, Crash
<1>3. ASSUME NEW s \in Specs, RegisterAgain(h, s) PROVE [History!Next]_(History!vars)
  <2> DEFINE l == mem[h]
  <2>1. /\ s \in Known(l) /\ pc[h] = "idle" /\ UNCHANGED <<disk, unsaved>>
        /\ acked' = acked \cup {e \in Happened(l) : e.action = "register" /\ e.spec = s}
    BY <1>3 DEF RegisterAgain
  <2>2. PICK i \in DOMAIN l.events : At(l, s, {"register"}) = {i}
    BY <2>1 DEF HistoryInv, AllTold, Told
  <2>3. l.events[i].action = "register" /\ l.events[i].spec = s
    BY <2>2 DEF At
  <2>4. {e \in Happened(l) : e.action = "register" /\ e.spec = s} = {l.events[i]}
    BY <2>2, <2>3 DEF At, Happened
  <2>5. l.events[i] \in History!Logged \cup unsaved
    <3>1. l.events[i] \in OnDisk \cup unsaved
      <4>1. l.events[i] \in Happened(l) /\ None \notin Happened(l)
        BY HappenedType DEF Happened, HistoryInv, TypeOK
      <4> QED
        BY <2>1, <4>1 DEF HistoryInv, Backed
    <3> QED
      BY <3>1 DEF OnDisk, Happened, History!Logged, Saved, HistoryInv, Backed
  <2>6. UNCHANGED <<FileLog, FileServing>>
    BY <2>1 DEF FileLog, FileServing, Saved
  <2>7. History!Repeat(l.events[i])
    BY <2>1, <2>3, <2>4, <2>6 DEF History!Repeat, FileLog, FileServing
  <2> QED
    BY <2>5, <2>7 DEF History!Next
<1>4. ASSUME NEW action, NEW s, NEW record, NEW champion,
             Mutate(h, action, s, record, champion)
      PROVE  [History!Next]_(History!vars)
  BY <1>4, HistoryStutters DEF Mutate
<1>5. CASE Replace(h)
  BY <1>5, ReplaceSaves
<1>6. CASE SaveFails(h)
  <2>1. UNCHANGED <<disk, acked>> /\ unsaved' = unsaved \cup ({op[h]} \ {None})
    BY <1>6 DEF SaveFails
  <2>2. CASE op[h] = None
    BY <2>1, <2>2, HistoryStutters
  <2>3. CASE op[h] # None
    <3>1. op[h] \notin History!Logged \cup acked \cup unsaved
      BY <2>3, SavedIsNew
    <3>2. UNCHANGED <<FileLog, FileServing>>
      BY <2>1 DEF FileLog, FileServing, Saved
    <3>3. History!Fail(op[h])
      BY <2>1, <2>3, <3>1, <3>2 DEF History!Fail, FileLog, FileServing
    <3>4. op[h] \in unsaved'
      BY <2>1, <2>3
    <3> QED
      BY <3>3, <3>4 DEF History!Next
  <2> QED
    BY <2>2, <2>3
<1> QED
  BY <1>1, <1>2, <1>3, <1>4, <1>5, <1>6, OperationMutates DEF Next

LEMMA HistoryInit == Init => History!Init
BY DEF Init, History!Init, Saved

\* With one handle on the path, for any specs and calls and whatever crashes or
\* fails to be saved, the file is an append-only lawful log: every step of the
\* registry saves events, fails a call, repeats a register, or leaves the log
\* as it is (ImplementsEventLedger).
THEOREM RegistryImplementsLedger ==
  ASSUME NEW h, Handles = {h}
  PROVE  Spec => ImplementsEventLedger
<1>1. HistoryInv(h) /\ [Next]_vars => [History!Next]_(History!vars)
  BY HistoryNext
<1>2. TypeOK /\ AllTold /\ AllLegal /\ Backed(h) /\ Ahead(h) => HistoryInv(h)
  BY DEF HistoryInv
<1> QED
  BY <1>1, <1>2, HistoryInit, RegistryTypeCorrect, AlwaysTold, LawfulCorrect,
     AlwaysBacked, AlwaysAhead, PTL DEF Spec, ImplementsEventLedger, History!Spec
-----------------------------------------------------------------------------
(* The gate.                                                               *)

\* The sum of differences of -1, 0 and 1 is how many are 1, less how many -1.
Differing(f, S, d) == {x \in S : f[x] = d}

LEMMA SignedSum ==
  ASSUME NEW S, IsFiniteSet(S), NEW f \in [S -> {-1, 0, 1}]
  PROVE  /\ Cardinality(Differing(f, S, 1)) \in Nat
         /\ Cardinality(Differing(f, S, -1)) \in Nat
         /\ SumFunction(f) =
              Cardinality(Differing(f, S, 1)) - Cardinality(Differing(f, S, -1))
<1>1. f \in [S -> Int]
  OBVIOUS
<1>2. PICK g : IsSumOf(g, S, f) /\ g[S] = SumFunction(f)
  BY <1>1, SumOver
<1> DEFINE C(T, d) == Cardinality(Differing(f, T, d))
           F == {T \in SUBSET S : g[T] = C(T, 1) - C(T, -1)}
<1>3. ASSUME NEW T \in SUBSET S, NEW d
      PROVE  IsFiniteSet(Differing(f, T, d)) /\ C(T, d) \in Nat
  <2>1. Differing(f, T, d) \in SUBSET S
    BY DEF Differing
  <2> QED
    BY <2>1, FS_Subset, FS_CardinalityType
<1>4. {} \in F
  <2>1. \A d : Differing(f, {}, d) = {}
    BY DEF Differing
  <2>2. C({}, 1) = 0 /\ C({}, -1) = 0
    BY <2>1, FS_EmptySet
  <2> QED
    BY <1>2, <2>2 DEF IsSumOf
<1>5. ASSUME NEW T \in SUBSET S, NEW x \in S, T \in F, x \notin T
      PROVE  T \cup {x} \in F
  <2>1. ASSUME NEW d
        PROVE  C(T \cup {x}, d) = C(T, d) + (IF f[x] = d THEN 1 ELSE 0)
    <3>1. CASE f[x] = d
      <4>1. Differing(f, T \cup {x}, d) = Differing(f, T, d) \cup {x}
            /\ x \notin Differing(f, T, d)
        BY <1>5, <3>1 DEF Differing
      <4>2. Cardinality(Differing(f, T, d) \cup {x}) = C(T, d) + 1
        BY <1>3, <4>1, FS_AddElement
      <4> QED
        BY <3>1, <4>1, <4>2
    <3>2. CASE f[x] # d
      <4>1. Differing(f, T \cup {x}, d) = Differing(f, T, d)
        BY <3>2 DEF Differing
      <4> QED
        BY <1>3, <3>2, <4>1
    <3> QED
      BY <3>1, <3>2
  <2>2. C(T \cup {x}, 1) = C(T, 1) + (IF f[x] = 1 THEN 1 ELSE 0)
        /\ C(T \cup {x}, -1) = C(T, -1) + (IF f[x] = -1 THEN 1 ELSE 0)
    BY <2>1
  <2>3. g[T \cup {x}] = g[T] + f[x] /\ g[T] \in Int /\ T \cup {x} \in SUBSET S
    BY <1>2, <1>5 DEF IsSumOf
  <2>4. C(T, 1) \in Nat /\ C(T, -1) \in Nat
    BY <1>3
  <2>5. f[x] \in {-1, 0, 1} /\ g[T] = C(T, 1) - C(T, -1)
    BY <1>5
  <2> HIDE DEF C
  <2>6. g[T \cup {x}] = C(T \cup {x}, 1) - C(T \cup {x}, -1)
    BY <2>2, <2>3, <2>4, <2>5
  <2> QED
    BY <2>3, <2>6
<1>6. SUBSET S \subseteq F
  <2> HIDE DEF F
  <2> QED
    BY <1>4, <1>5, FiniteSetSet
<1> QED
  BY <1>2, <1>3, <1>6

\* How many subsets of 1..n have at most m elements.
Few(n, m) == Cardinality(SubsetsUpTo(n, m))

\* With one more element: those without it, and those with it.
LEMMA Pascal ==
  ASSUME NEW n \in Nat, NEW m \in Nat
  PROVE  /\ Few(n, m) \in Nat /\ Few(n, m - 1) \in Nat
         /\ Few(n + 1, m) = Few(n, m) + Few(n, m - 1)
         /\ Few(n, m - 1) <= Few(n, m)
<1> DEFINE A == SubsetsUpTo(n, m)
           B == SubsetsUpTo(n, m - 1)
           W == {T \in SubsetsUpTo(n + 1, m) : n + 1 \in T}
           w == [s \in B |-> s \cup {n + 1}]
<1>1. ASSUME NEW k \in Nat PROVE IsFiniteSet(SUBSET (1..k))
  BY UpToFinite, FS_SUBSET
<1>2. ASSUME NEW k \in Nat, NEW j PROVE IsFiniteSet(SubsetsUpTo(k, j))
  BY <1>1, FS_Subset DEF SubsetsUpTo
<1>3. \A s \in SUBSET (1..n + 1) : IsFiniteSet(s) /\ Cardinality(s) \in Nat
  <2>1. n + 1 \in Nat
    OBVIOUS
  <2>2. IsFiniteSet(1..n + 1)
    BY <2>1, UpToFinite
  <2> QED
    BY <2>2, FS_Subset, FS_CardinalityType
<1>4. SUBSET (1..n) \subseteq SUBSET (1..n + 1) /\ \A s \in SUBSET (1..n) : n + 1 \notin s
  OBVIOUS
<1>5. \A s \in SUBSET (1..n) : /\ s \cup {n + 1} \in SUBSET (1..n + 1)
                                /\ Cardinality(s \cup {n + 1}) = Cardinality(s) + 1
                                /\ Cardinality(s) \in Nat
  BY <1>3, <1>4, FS_AddElement
<1>6. \A s \in SUBSET (1..n + 1) : /\ s \ {n + 1} \in SUBSET (1..n)
                                    /\ (n + 1 \notin s => s \in SUBSET (1..n))
                                    /\ (n + 1 \in s => s = (s \ {n + 1}) \cup {n + 1})
  OBVIOUS
<1>7. SubsetsUpTo(n + 1, m) = A \cup W /\ A \cap W = {}
  BY <1>4, <1>6 DEF SubsetsUpTo
<1>8. w \in [B -> W]
  BY <1>5 DEF SubsetsUpTo
<1>9. \A s, t \in B : w[s] = w[t] => s = t
  BY <1>4 DEF SubsetsUpTo
<1>10. \A t \in W : \E s \in B : w[s] = t
  <2> SUFFICES ASSUME NEW t \in W PROVE \E s \in B : w[s] = t
    OBVIOUS
  <2> DEFINE s == t \ {n + 1}
  <2>1. t \in SUBSET (1..n + 1) /\ n + 1 \in t /\ Cardinality(t) <= m
    BY DEF SubsetsUpTo
  <2>2. s \in SUBSET (1..n) /\ t = s \cup {n + 1}
    BY <1>6, <2>1
  <2>3. Cardinality(t) = Cardinality(s) + 1 /\ Cardinality(s) \in Nat
    BY <1>5, <2>2
  <2>4. s \in B
    BY <2>1, <2>2, <2>3 DEF SubsetsUpTo
  <2> QED
    BY <2>2, <2>4
<1>11. IsFiniteSet(A) /\ IsFiniteSet(B) /\ B \subseteq A
  <2>1. B \subseteq A
    <3>1. \A c \in Nat : c <= m - 1 => c <= m
      OBVIOUS
    <3>2. \A s \in SUBSET (1..n) : Cardinality(s) <= m - 1 => Cardinality(s) <= m
      BY <1>5, <3>1
    <3> QED
      BY <3>2, Zenon DEF SubsetsUpTo
  <2> HIDE DEF A, B
  <2>2. IsFiniteSet(A) /\ IsFiniteSet(B)
    BY <1>2 DEF A, B
  <2> QED
    BY <2>1, <2>2
<1> HIDE DEF A, B, W, w
<1>12. IsFiniteSet(W) /\ Cardinality(W) = Cardinality(B)
  BY <1>8, <1>9, <1>10, <1>11, ImageSize
<1>13. Cardinality(A \cup W) = Cardinality(A) + Cardinality(W) /\ Cardinality(A) \in Nat
  BY <1>7, <1>11, <1>12, DisjointSizes
<1>14. Cardinality(B) <= Cardinality(A) /\ Cardinality(B) \in Nat
  BY <1>11, FS_Subset, FS_CardinalityType
<1> QED
  BY <1>7, <1>12, <1>13, <1>14 DEF Few, A, B

\* All subsets of 1..n have at most n elements, and there are 2^n.
LEMMA AllSubsets ==
  ASSUME NEW n \in Nat
  PROVE  /\ 2^n \in Nat /\ Few(n, n) = 2^n
         /\ 2^(n + 1) = 2 * 2^n
<1>1. ASSUME NEW k \in Nat, NEW j \in Nat, k <= j
      PROVE  Few(k, j) = 2^k /\ 2^k \in Nat
  <2>1. IsFiniteSet(1..k) /\ Cardinality(1..k) = k
    BY UpToFinite
  <2>2. \A s \in SUBSET (1..k) : Cardinality(s) <= k /\ Cardinality(s) \in Nat
    BY <2>1, FS_Subset, FS_CardinalityType
  <2>3. SubsetsUpTo(k, j) = SUBSET (1..k)
    BY <1>1, <2>2 DEF SubsetsUpTo
  <2>4. IsFiniteSet(SUBSET (1..k)) /\ Cardinality(SUBSET (1..k)) = 2^Cardinality(1..k)
    BY <2>1, FS_SUBSET
  <2>5. Cardinality(SUBSET (1..k)) \in Nat
    BY <2>4, FS_CardinalityType
  <2>6. 2^Cardinality(1..k) = 2^k
    BY <2>1
  <2> QED
    BY <2>3, <2>4, <2>5, <2>6 DEF Few
<1>2. Few(n, n) = 2^n /\ 2^n \in Nat /\ Few(n, n + 1) = 2^n /\ Few(n + 1, n + 1) = 2^(n + 1)
  BY <1>1
<1>3. Few(n + 1, n + 1) = Few(n, n + 1) + Few(n, n + 1 - 1)
  <2>1. n + 1 \in Nat
    OBVIOUS
  <2> QED
    BY <2>1, Pascal
<1>4. n + 1 - 1 = n
  OBVIOUS
<1>5. Few(n, n + 1 - 1) = Few(n, n)
  BY <1>4
<1> QED
  BY <1>2, <1>3, <1>5

\* The two steps of the test that a better candidate makes: one discordant
\* task fewer or one more, away from the lesser count or into it.
LEMMA TailSteps ==
  ASSUME NEW n \in Nat, NEW m \in Nat
  PROVE  /\ Few(n + 1, m) <= 2 * Few(n, m)
         /\ 2 * Few(n, m) <= Few(n + 1, m + 1)
<1>1. m + 1 \in Nat /\ m + 1 - 1 = m
  OBVIOUS
<1>2. /\ Few(n, m) \in Nat /\ Few(n, m - 1) \in Nat
      /\ Few(n + 1, m) = Few(n, m) + Few(n, m - 1)
      /\ Few(n, m - 1) <= Few(n, m)
  BY Pascal
<1>3. /\ Few(n, m + 1) \in Nat
      /\ Few(n + 1, m + 1) = Few(n, m + 1) + Few(n, m + 1 - 1)
      /\ Few(n, m + 1 - 1) <= Few(n, m + 1)
  BY <1>1, Pascal
<1>4. Few(n, m + 1 - 1) = Few(n, m)
  BY <1>1
<1> QED
  BY <1>2, <1>3, <1>4

\* Significance of two counts, as Significant has it.
Telling(i, r) ==
  i + r # 0 /\ 200 * BinomialTail(i, r) <= Alpha * 2^(i + r)

LEMMA Halves ==
  \A a, p, t, u \in Nat :
    /\ (200 * t <= a * (2 * p) /\ 2 * u <= t) => 200 * u <= a * p
    /\ (200 * u <= a * p /\ t <= 2 * u) => 200 * t <= a * (2 * p)
<1>1. \A a, p \in Nat : a * (2 * p) = 2 * (a * p) /\ a * p \in Nat
  OBVIOUS
<1> SUFFICES ASSUME NEW a \in Nat, NEW p \in Nat, NEW t \in Nat, NEW u \in Nat
             PROVE  /\ (200 * t <= a * (2 * p) /\ 2 * u <= t) => 200 * u <= a * p
                    /\ (200 * u <= a * p /\ t <= 2 * u) => 200 * t <= a * (2 * p)
  OBVIOUS
<1>2. PICK q \in Nat : q = a * p /\ a * (2 * p) = 2 * q
  BY <1>1
<1> QED
  BY <1>2

\* Two counts are as telling the other way round.  When fewer go against the
\* difference, or more go with it, it stays significant.
LEMMA TellingGrows ==
  ASSUME NEW i \in Nat, NEW r \in Nat
  PROVE  /\ Telling(i, r) <=> Telling(r, i)
         /\ (Telling(i, r + 1) /\ i > r) => Telling(i, r)
         /\ (Telling(i, r) /\ i > r) => Telling(i + 1, r)
<1>1. Alpha \in Nat
  BY GateAssumption
<1>2. \A a, b \in Nat :
        BinomialTail(a, b) = Few(a + b, IF a <= b THEN a ELSE b)
  BY DEF BinomialTail, Few
<1>3. Telling(i, r) <=> Telling(r, i)
  <2>1. BinomialTail(i, r) = BinomialTail(r, i)
    <3>1. i + r = r + i /\ (IF i <= r THEN i ELSE r) = (IF r <= i THEN r ELSE i)
      OBVIOUS
    <3> QED
      BY <1>2, <3>1
  <2>2. i + r = r + i
    OBVIOUS
  <2>3. 2^(i + r) = 2^(r + i)
    BY <2>2
  <2> QED
    BY <2>1, <2>2, <2>3 DEF Telling
<1>4. PICK n \in Nat : n = i + r
  OBVIOUS
<1>5. PICK p \in Nat : p = 2^n /\ 2^(n + 1) = 2 * p
  BY AllSubsets
<1>6. i > r => /\ BinomialTail(i, r) = Few(n, r)
               /\ BinomialTail(i, r + 1) = Few(n + 1, r + 1)
               /\ BinomialTail(i + 1, r) = Few(n + 1, r)
  <2>1. i > r => /\ (IF i <= r THEN i ELSE r) = r
                 /\ (IF i <= r + 1 THEN i ELSE r + 1) = r + 1
                 /\ (IF i + 1 <= r THEN i + 1 ELSE r) = r
    OBVIOUS
  <2>2. i + r = n /\ i + (r + 1) = n + 1 /\ i + 1 + r = n + 1 /\ i + 1 \in Nat /\ r + 1 \in Nat
    BY <1>4
  <2> QED
    BY <1>2, <2>1, <2>2
<1>7. i + (r + 1) = n + 1 /\ i + 1 + r = n + 1 /\ (i > r => n # 0)
  BY <1>4
<1>8. 2^(i + r) = p /\ 2^(i + (r + 1)) = 2 * p /\ 2^(i + 1 + r) = 2 * p
  BY <1>4, <1>5, <1>7
<1>9. PICK u \in Nat : u = Few(n, r)
  BY Pascal
<1>10. Few(n + 1, r) \in Nat /\ Few(n + 1, r + 1) \in Nat
  <2>1. n + 1 \in Nat /\ r + 1 \in Nat
    OBVIOUS
  <2> QED
    BY <2>1, Pascal
<1>11. Few(n + 1, r) <= 2 * u /\ 2 * u <= Few(n + 1, r + 1)
  BY <1>9, TailSteps
<1>12. ASSUME i > r, Telling(i, r + 1) PROVE Telling(i, r)
  <2>1. 200 * Few(n + 1, r + 1) <= Alpha * (2 * p)
    BY <1>6, <1>8, <1>12 DEF Telling
  <2>2. 200 * u <= Alpha * p
    BY <1>1, <1>10, <1>11, <2>1, Halves
  <2> QED
    BY <1>4, <1>6, <1>7, <1>8, <1>9, <1>12, <2>2 DEF Telling
<1>13. ASSUME i > r, Telling(i, r) PROVE Telling(i + 1, r)
  <2>1. 200 * u <= Alpha * p
    BY <1>6, <1>8, <1>9, <1>13 DEF Telling
  <2>2. 200 * Few(n + 1, r) <= Alpha * (2 * p)
    BY <1>1, <1>10, <1>11, <2>1, Halves
  <2> QED
    BY <1>4, <1>6, <1>7, <1>8, <1>13, <2>2 DEF Telling
<1> QED
  BY <1>3, <1>12, <1>13

LEMMA SignedOrder ==
  ASSUME NEW S, IsFiniteSet(S), NEW f \in [S -> {-1, 0, 1}], NEW h \in [S -> {-1, 0, 1}],
         \A x \in S : f[x] <= h[x]
  PROVE  /\ SumFunction(f) \in Int /\ SumFunction(f) <= SumFunction(h)
         /\ SumFunction(h) \in Int /\ SumFunction(h) <= Cardinality(S)
<1>1. /\ Cardinality(Differing(f, S, 1)) \in Nat /\ Cardinality(Differing(f, S, -1)) \in Nat
      /\ SumFunction(f) = Cardinality(Differing(f, S, 1)) - Cardinality(Differing(f, S, -1))
  BY SignedSum
<1>2. /\ Cardinality(Differing(h, S, 1)) \in Nat /\ Cardinality(Differing(h, S, -1)) \in Nat
      /\ SumFunction(h) = Cardinality(Differing(h, S, 1)) - Cardinality(Differing(h, S, -1))
  BY SignedSum
<1>3. /\ Differing(f, S, 1) \in SUBSET Differing(h, S, 1)
      /\ Differing(h, S, -1) \in SUBSET Differing(f, S, -1)
  <2>1. \A a, b \in {-1, 0, 1} : a <= b => (a = 1 => b = 1) /\ (b = -1 => a = -1)
    OBVIOUS
  <2>2. \A x \in S : (f[x] = 1 => h[x] = 1) /\ (h[x] = -1 => f[x] = -1)
    BY <2>1
  <2> QED
    BY <2>2 DEF Differing
<1>4. \A d : Differing(f, S, d) \in SUBSET S /\ Differing(h, S, d) \in SUBSET S
  BY DEF Differing
<1>5. \A d : IsFiniteSet(Differing(f, S, d)) /\ IsFiniteSet(Differing(h, S, d))
  BY <1>4, FS_Subset
<1>6. /\ Cardinality(Differing(f, S, 1)) <= Cardinality(Differing(h, S, 1))
      /\ Cardinality(Differing(h, S, -1)) <= Cardinality(Differing(f, S, -1))
  BY <1>3, <1>5, FS_Subset
<1>7. Cardinality(Differing(h, S, 1)) <= Cardinality(S) /\ Cardinality(S) \in Nat
  BY <1>4, FS_Subset, FS_CardinalityType
<1> QED
  BY <1>1, <1>2, <1>6, <1>7

Outcomes == [1..Rows -> PairedOutcome]

LEMMA DeltasType ==
  ASSUME NEW o \in Outcomes
  PROVE  /\ Deltas(o) \in [1..Rows -> {-1, 0, 1}]
         /\ \A i \in 1..Rows :
              Deltas(o)[i] = One(o[i].candidate) - One(o[i].champion)
<1>1. DOMAIN o = 1..Rows /\ \A i \in 1..Rows : o[i] \in PairedOutcome
  BY DEF Outcomes
<1>2. \A i \in 1..Rows : o[i].candidate \in BOOLEAN /\ o[i].champion \in BOOLEAN
  BY <1>1 DEF PairedOutcome
<1>3. \A a, b \in BOOLEAN : One(a) - One(b) \in {-1, 0, 1}
  BY DEF One
<1>4. \A i \in 1..Rows : One(o[i].candidate) - One(o[i].champion) \in {-1, 0, 1}
  BY <1>2, <1>3
<1> QED
  BY <1>1, <1>4, Zenon DEF Deltas

\* The rate's sign and the test are of the two counts.
LEMMA Counts ==
  ASSUME NEW o \in Outcomes
  PROVE  /\ Improved(o) = Cardinality(Differing(Deltas(o), 1..Rows, 1))
         /\ Regressed(o) = Cardinality(Differing(Deltas(o), 1..Rows, -1))
         /\ Improved(o) \in Nat /\ Regressed(o) \in Nat
         /\ Total(Deltas(o)) = Improved(o) - Regressed(o)
         /\ Significant(o) <=> Telling(Improved(o), Regressed(o))
<1>1. DOMAIN o = 1..Rows
  BY DEF Outcomes
<1>2. /\ Improved(o) = Cardinality(Differing(Deltas(o), 1..Rows, 1))
      /\ Regressed(o) = Cardinality(Differing(Deltas(o), 1..Rows, -1))
  BY <1>1 DEF Improved, Regressed, Differing
<1>3. IsFiniteSet(1..Rows) /\ Deltas(o) \in [1..Rows -> {-1, 0, 1}]
  BY GateAssumption, UpToFinite, DeltasType
<1>4. /\ Improved(o) \in Nat /\ Regressed(o) \in Nat
      /\ Total(Deltas(o)) = Improved(o) - Regressed(o)
  BY <1>2, <1>3, SignedSum DEF Total
<1> QED
  BY <1>2, <1>4 DEF Significant, Telling

LEMMA SwapCounts ==
  ASSUME NEW o \in Outcomes
  PROVE  /\ Swapped(o) \in Outcomes
         /\ Improved(Swapped(o)) = Regressed(o) /\ Regressed(Swapped(o)) = Improved(o)
<1> DEFINE q == Swapped(o)
<1>1. \A i \in 1..Rows : o[i] \in PairedOutcome /\ DOMAIN o = 1..Rows
  BY DEF Outcomes
<1>2. q \in Outcomes /\ \A i \in 1..Rows : q[i].champion = o[i].candidate /\ q[i].candidate = o[i].champion
  BY <1>1 DEF Outcomes, Swapped, PairedOutcome
<1> HIDE DEF q
<1>3. \A a, b \in BOOLEAN : /\ One(b) - One(a) = 1 <=> One(a) - One(b) = -1
                            /\ One(b) - One(a) = -1 <=> One(a) - One(b) = 1
  BY DEF One
<1>4. \A i \in 1..Rows : o[i].candidate \in BOOLEAN /\ o[i].champion \in BOOLEAN
  BY <1>1 DEF PairedOutcome
<1>5. \A i \in 1..Rows : /\ Deltas(q)[i] = One(o[i].champion) - One(o[i].candidate)
                         /\ Deltas(o)[i] = One(o[i].candidate) - One(o[i].champion)
  BY <1>2, DeltasType
<1>6. \A i \in 1..Rows : /\ Deltas(q)[i] = 1 <=> Deltas(o)[i] = -1
                         /\ Deltas(q)[i] = -1 <=> Deltas(o)[i] = 1
  BY <1>3, <1>4, <1>5
<1>7. /\ Differing(Deltas(q), 1..Rows, 1) = Differing(Deltas(o), 1..Rows, -1)
      /\ Differing(Deltas(q), 1..Rows, -1) = Differing(Deltas(o), 1..Rows, 1)
  BY <1>6 DEF Differing
<1> QED
  BY <1>2, <1>7, Counts DEF q

LEMMA OneWay ==
  ASSUME NEW o \in Outcomes, SignificantImprovement(o)
  PROVE  SignificantRegression(Swapped(o))
<1>1. /\ Improved(o) \in Nat /\ Regressed(o) \in Nat
      /\ Total(Deltas(o)) = Improved(o) - Regressed(o)
      /\ Significant(o) <=> Telling(Improved(o), Regressed(o))
  BY Counts
<1>2. Swapped(o) \in Outcomes
  BY SwapCounts
<1>3. /\ Total(Deltas(Swapped(o))) = Improved(Swapped(o)) - Regressed(Swapped(o))
      /\ Significant(Swapped(o)) <=> Telling(Improved(Swapped(o)), Regressed(Swapped(o)))
  BY <1>2, Counts
<1>4. Improved(Swapped(o)) = Regressed(o) /\ Regressed(Swapped(o)) = Improved(o)
  BY SwapCounts
<1>5. Telling(Improved(o), Regressed(o)) <=> Telling(Regressed(o), Improved(o))
  BY <1>1, TellingGrows
<1>6. Significant(o) /\ Total(Deltas(o)) > 0
  BY DEF SignificantImprovement
<1>7. Significant(Swapped(o))
  BY <1>1, <1>3, <1>4, <1>5, <1>6
<1>8. Total(Deltas(Swapped(o))) < 0
  BY <1>1, <1>3, <1>4, <1>6
<1> QED
  BY <1>7, <1>8 DEF SignificantRegression

\* One more task the candidate solves.
Better(o, q) ==
  \E i \in 1..Rows : ~o[i].candidate /\ q = [o EXCEPT ![i].candidate = TRUE]

DiffersAt(d, e, R, i, c) ==
  i \in R /\ d[i] = c /\ e[i] # c /\ \A j \in R : j # i => d[j] = e[j]

LEMMA OneMore ==
  ASSUME NEW R, IsFiniteSet(R), NEW d, NEW e, NEW i, NEW c, DiffersAt(d, e, R, i, c)
  PROVE  Cardinality(Differing(d, R, c)) = Cardinality(Differing(e, R, c)) + 1
<1>1. \A x : x \in Differing(d, R, c) <=> x \in Differing(e, R, c) \/ x = i
  BY DEF Differing, DiffersAt
<1>2. Differing(d, R, c) = Differing(e, R, c) \cup {i} /\ i \notin Differing(e, R, c)
  <2>1. i \notin Differing(e, R, c)
    BY DEF Differing, DiffersAt
  <2> QED
    BY <1>1, <2>1
<1>3. Differing(e, R, c) \in SUBSET R
  BY DEF Differing, DiffersAt
<1> QED
  BY <1>2, <1>3, FS_Subset, FS_AddElement

LEMMA BetterCounts ==
  ASSUME NEW o \in Outcomes, NEW q, Better(o, q)
  PROVE  /\ q \in Outcomes
         /\ \A i \in 1..Rows : Deltas(o)[i] <= Deltas(q)[i]
         /\ \/ Improved(q) = Improved(o) /\ Regressed(o) = Regressed(q) + 1
            \/ Improved(q) = Improved(o) + 1 /\ Regressed(q) = Regressed(o)
<1>1. PICK i \in 1..Rows : ~o[i].candidate /\ q = [o EXCEPT ![i].candidate = TRUE]
  BY DEF Better
<1>2. \A j \in 1..Rows : o[j] \in PairedOutcome
  BY DEF Outcomes
<1>3. /\ q \in Outcomes
      /\ q[i].candidate = TRUE /\ q[i].champion = o[i].champion
      /\ \A j \in 1..Rows : j # i => q[j] = o[j]
  BY <1>1, <1>2 DEF Outcomes, PairedOutcome
<1> DEFINE d == Deltas(o)
           e == Deltas(q)
           R == 1..Rows
<1>4. d \in [R -> {-1, 0, 1}] /\ e \in [R -> {-1, 0, 1}]
  BY <1>3, DeltasType
<1>5. \A j \in R : j # i => e[j] = d[j]
  BY <1>3, DeltasType
<1>6. e[i] = d[i] + 1 /\ d[i] \in {-1, 0}
  <2>1. e[i] = One(TRUE) - One(o[i].champion) /\ d[i] = One(FALSE) - One(o[i].champion)
    BY <1>1, <1>2, <1>3, DeltasType DEF One
  <2>2. PICK c \in {0, 1} : c = One(o[i].champion) /\ One(TRUE) = 1 /\ One(FALSE) = 0
    BY DEF One
  <2>3. e[i] = 1 - c /\ d[i] = 0 - c
    BY <2>1, <2>2
  <2> HIDE DEF d, e
  <2> QED
    BY <2>2, <2>3
<1>7. /\ Improved(o) = Cardinality(Differing(d, R, 1)) /\ Regressed(o) = Cardinality(Differing(d, R, -1))
      /\ Improved(q) = Cardinality(Differing(e, R, 1)) /\ Regressed(q) = Cardinality(Differing(e, R, -1))
      /\ Regressed(q) \in Nat
  BY <1>3, Counts
<1>8. i \in R /\ IsFiniteSet(R)
  BY GateAssumption, UpToFinite
<1>11. \A j \in R : d[j] <= e[j]
  BY <1>4, <1>5, <1>6
<1> HIDE DEF d, e, R
<1>12. CASE d[i] = -1
  <2>1. e[i] = 0
    BY <1>6, <1>12
  <2>2. Differing(e, R, 1) = Differing(d, R, 1)
    BY <1>5, <1>12, <2>1 DEF Differing
  <2>3. DiffersAt(d, e, R, i, -1)
    BY <1>5, <1>8, <1>12, <2>1 DEF DiffersAt
  <2>4. Cardinality(Differing(d, R, -1)) = Cardinality(Differing(e, R, -1)) + 1
    BY <1>8, <2>3, OneMore
  <2> QED
    BY <1>3, <1>7, <1>11, <2>2, <2>4 DEF d, e, R
<1>13. CASE d[i] = 0
  <2>1. e[i] = 1
    BY <1>6, <1>13
  <2>2. Differing(e, R, -1) = Differing(d, R, -1)
    BY <1>5, <1>13, <2>1 DEF Differing
  <2>3. DiffersAt(e, d, R, i, 1)
    BY <1>5, <1>8, <1>13, <2>1 DEF DiffersAt
  <2>4. Cardinality(Differing(e, R, 1)) = Cardinality(Differing(d, R, 1)) + 1
    BY <1>8, <2>3, OneMore
  <2> QED
    BY <1>3, <1>7, <1>11, <2>2, <2>4 DEF d, e, R
<1> QED
  BY <1>6, <1>12, <1>13

\* Neither verdict of the test turns against the better one.
LEMMA TestFollows ==
  ASSUME NEW o \in Outcomes, NEW q, Better(o, q)
  PROVE  /\ SignificantRegression(q) => SignificantRegression(o)
         /\ SignificantImprovement(o) => SignificantImprovement(q)
         /\ Total(Deltas(o)) \in Int /\ Total(Deltas(q)) \in Int
         /\ Total(Deltas(o)) <= Total(Deltas(q))
<1>1. q \in Outcomes
  BY BetterCounts
<1>2. PICK a \in Nat, b \in Nat, c \in Nat, d \in Nat :
        a = Improved(o) /\ b = Regressed(o) /\ c = Improved(q) /\ d = Regressed(q)
  BY <1>1, Counts
<1>3. /\ Total(Deltas(o)) = a - b /\ (Significant(o) <=> Telling(a, b))
      /\ Total(Deltas(q)) = c - d /\ (Significant(q) <=> Telling(c, d))
  BY <1>1, <1>2, Counts
<1>4. /\ SignificantRegression(o) <=> a - b < 0 /\ Telling(a, b)
      /\ SignificantRegression(q) <=> c - d < 0 /\ Telling(c, d)
      /\ SignificantImprovement(o) <=> a - b > 0 /\ Telling(a, b)
      /\ SignificantImprovement(q) <=> c - d > 0 /\ Telling(c, d)
  BY <1>3 DEF SignificantRegression, SignificantImprovement
<1>5. \/ c = a /\ b = d + 1
      \/ c = a + 1 /\ d = b
  BY <1>2, BetterCounts
<1>6. a - b < 0 /\ Telling(c, d) /\ c - d < 0 => Telling(a, b)
  <2> SUFFICES ASSUME a < b, Telling(c, d), c < d PROVE Telling(a, b)
    OBVIOUS
  <2>1. Telling(d, c)
    BY TellingGrows
  <2>2. CASE c = a /\ b = d + 1
    <3>1. Telling(d + 1, c)
      BY <2>1, TellingGrows
    <3>2. Telling(b, a)
      BY <2>2, <3>1
    <3> QED
      BY <3>2, TellingGrows
  <2>3. CASE c = a + 1 /\ d = b
    <3>1. Telling(b, a + 1)
      BY <2>1, <2>3
    <3>2. Telling(b, a)
      BY <3>1, TellingGrows
    <3> QED
      BY <3>2, TellingGrows
  <2> QED
    BY <1>5, <2>2, <2>3
<1>7. a - b > 0 /\ Telling(a, b) => Telling(c, d)
  <2> SUFFICES ASSUME a > b, Telling(a, b) PROVE Telling(c, d)
    OBVIOUS
  <2>2. CASE c = a /\ b = d + 1
    <3>1. Telling(c, d + 1) /\ c > d
      BY <2>2
    <3> QED
      BY <3>1, TellingGrows
  <2>3. CASE c = a + 1 /\ d = b
    <3>1. Telling(a + 1, b)
      BY TellingGrows
    <3> QED
      BY <2>3, <3>1
  <2> QED
    BY <1>5, <2>2, <2>3
<1>8. (c - d < 0 => a - b < 0) /\ (a - b > 0 => c - d > 0) /\ a - b <= c - d
  BY <1>5
<1> QED
  BY <1>3, <1>4, <1>6, <1>7, <1>8

\* The interval's lower end exists, and follows the outcomes.
LEMMA LowerEnd ==
  ASSUME NEW o \in Outcomes, NEW q \in Outcomes,
         \A i \in 1..Rows : Deltas(o)[i] <= Deltas(q)[i]
  PROVE  CiLow(o) \in Int /\ CiLow(q) \in Int /\ CiLow(o) <= CiLow(q)
<1> DEFINE R == 1..Rows
           K == DOMAIN Draws
           f == [k \in K |-> [i \in R |-> Deltas(o)[Draws[k][i]]]]
           h == [k \in K |-> [i \in R |-> Deltas(q)[Draws[k][i]]]]
           Reached(s) == {v \in -Rows..Rows : Cardinality(UpTo(s, v)) >= Lower}
           s == Samples(o)
           t == Samples(q)
<1>1. /\ IsFiniteSet(R) /\ Cardinality(R) = Rows /\ Rows \in Nat
      /\ IsFiniteSet(K) /\ Cardinality(K) \in Nat /\ Lower \in 1..Cardinality(K)
      /\ \A k \in K : Draws[k] \in [R -> R]
  <2>1. Draws \in Seq([R -> R]) /\ Rows \in Nat /\ Lower \in DOMAIN Draws
    BY GateAssumption
  <2>2. Len(Draws) \in Nat /\ K = 1..Len(Draws) /\ \A k \in K : Draws[k] \in [R -> R]
    BY <2>1
  <2> HIDE DEF K, R
  <2>3. IsFiniteSet(K) /\ Cardinality(K) = Len(Draws)
    BY <2>2, UpToFinite
  <2>4. IsFiniteSet(R) /\ Cardinality(R) = Rows
    BY <2>1, UpToFinite DEF R
  <2> QED
    BY <2>1, <2>2, <2>3, <2>4 DEF K
<1>2. Deltas(o) \in [R -> {-1, 0, 1}] /\ Deltas(q) \in [R -> {-1, 0, 1}]
  BY DeltasType
<1> HIDE DEF R
<1>3. \A k \in K : /\ f[k] \in [R -> {-1, 0, 1}] /\ h[k] \in [R -> {-1, 0, 1}]
                   /\ \A i \in R : f[k][i] <= h[k][i]
  BY <1>1, <1>2 DEF R
<1>4. /\ DOMAIN s = K /\ DOMAIN t = K
      /\ \A k \in K : s[k] = SumFunction(f[k]) /\ t[k] = SumFunction(h[k])
  BY DEF Samples, Total, R
<1> HIDE DEF f, h, K, s, t
<1>5. ASSUME NEW k \in K
      PROVE  s[k] \in Int /\ t[k] \in Int /\ s[k] <= t[k] /\ s[k] <= Rows /\ t[k] <= Rows
  <2>1. /\ SumFunction(f[k]) \in Int /\ SumFunction(f[k]) <= SumFunction(h[k])
        /\ SumFunction(h[k]) \in Int /\ SumFunction(h[k]) <= Cardinality(R)
    BY <1>1, <1>3, SignedOrder
  <2> QED
    BY <1>1, <1>4, <2>1
<1>6. \A v : UpTo(s, v) \in SUBSET K /\ UpTo(t, v) \in SUBSET K
  BY <1>4 DEF UpTo
<1>7. \A v : /\ IsFiniteSet(UpTo(s, v)) /\ IsFiniteSet(UpTo(t, v))
             /\ Cardinality(UpTo(s, v)) \in Nat /\ Cardinality(UpTo(t, v)) \in Nat
  BY <1>1, <1>6, FS_Subset, FS_CardinalityType
<1>8. UpTo(s, Rows) = K /\ UpTo(t, Rows) = K
  BY <1>4, <1>5 DEF UpTo
<1>9. \A v \in Int : UpTo(t, v) \in SUBSET UpTo(s, v)
  BY <1>4, <1>5 DEF UpTo
<1>10. \A v \in Int : Cardinality(UpTo(t, v)) <= Cardinality(UpTo(s, v))
  BY <1>7, <1>9, FS_Subset
<1>11. Rows \in Reached(s) /\ Rows \in Reached(t) /\ Reached(t) \subseteq Reached(s)
  BY <1>1, <1>7, <1>8, <1>10
<1>12. \A u : Reached(u) \subseteq -Rows..Rows
  OBVIOUS
<1>13. CiLow(o) = Min(Reached(s)) /\ CiLow(q) = Min(Reached(t))
  BY Zenon DEF CiLow, s, t
<1> HIDE DEF Reached
<1>14. ASSUME NEW A, A \subseteq -Rows..Rows, A # {}
       PROVE  Min(A) \in A /\ \A x \in A : Min(A) <= x
  <2> DEFINE N == {x + Rows : x \in A}
  <2>0. \A x \in A : x \in Int /\ x + Rows \in Nat
    <3>1. \A x \in -Rows..Rows : x \in Int /\ x + Rows \in Nat
      BY <1>1
    <3> QED
      BY <1>14, <3>1
  <2>1. N \subseteq Nat /\ N # {}
    BY <1>14, <2>0
  <2>2. PICK y \in N : \A z \in N : y <= z
    BY <2>1, NatMin
  <2>3. PICK x \in A : y = x + Rows
    BY <2>2
  <2>4. \A z \in A : x <= z
    <3>1. \A z \in A : x + Rows <= z + Rows
      BY <2>2, <2>3
    <3> HIDE DEF N
    <3> QED
      BY <1>1, <2>0, <3>1
  <2> QED
    BY <2>4 DEF Min
<1>15. /\ Min(Reached(s)) \in Reached(s) /\ \A x \in Reached(s) : Min(Reached(s)) <= x
       /\ Min(Reached(t)) \in Reached(t)
  BY <1>11, <1>12, <1>14
<1> QED
  BY <1>1, <1>11, <1>12, <1>13, <1>15

\* What a better candidate does to the gate's decision.
LEMMA GateFollows ==
  ASSUME NEW o \in Outcomes, NEW q, Better(o, q) \/ q = o,
         NEW champion \in Int, NEW a \in Int, NEW b \in Int, b <= a,
         NEW mode, Passed(mode, o, champion, a)
  PROVE  Passed(mode, q, champion, b)
<1>1. MaxDelta \in Int /\ MaxRegression \in Int /\ CiLowerBound \in Int /\ Rows \in Int
  BY GateAssumption
<1>2. /\ CiLow(o) \in Int /\ CiLow(q) \in Int /\ CiLow(o) <= CiLow(q)
      /\ Total(Deltas(o)) \in Int /\ Total(Deltas(q)) \in Int
      /\ Total(Deltas(o)) <= Total(Deltas(q))
      /\ SignificantRegression(q) => SignificantRegression(o)
      /\ SignificantImprovement(o) => SignificantImprovement(q)
  <2>1. CASE Better(o, q)
    <3>1. q \in Outcomes /\ \A i \in 1..Rows : Deltas(o)[i] <= Deltas(q)[i]
      BY <2>1, BetterCounts
    <3> QED
      BY <2>1, <3>1, LowerEnd, TestFollows
  <2>2. CASE q = o
    <3>0. \A i \in 1..Rows : Deltas(o)[i] \in {-1, 0, 1}
      BY DeltasType
    <3>1. \A i \in 1..Rows : Deltas(o)[i] <= Deltas(o)[i]
      <4>1. \A x \in {-1, 0, 1} : x <= x
        OBVIOUS
      <4> QED
        BY <3>0, <4>1
    <3>2. CiLow(o) \in Int
      BY <3>1, LowerEnd
    <3>3. Total(Deltas(o)) \in Int
      BY Counts
    <3> QED
      BY <2>2, <3>2, <3>3
  <2> QED
    BY <2>1, <2>2
<1>3. Floors(q, champion, b)
  <2>1. Floors(o, champion, a)
    BY DEF Passed
  <2>2. a - champion <= MaxDelta => b - champion <= MaxDelta
    BY <1>1
  <2>3. PICK m \in Int, c \in Int : m = -MaxRegression * Rows /\ c = CiLowerBound * Rows
    BY <1>1
  <2>4. 100 * Total(Deltas(o)) >= m /\ 100 * CiLow(o) >= c /\ ~ (a - champion > MaxDelta)
    BY <2>1, <2>3 DEF Floors, GuardFails
  <2>5. 100 * Total(Deltas(q)) >= m /\ 100 * CiLow(q) >= c /\ ~ (b - champion > MaxDelta)
    BY <1>1, <1>2, <2>3, <2>4
  <2> QED
    BY <2>3, <2>5 DEF Floors, GuardFails
<1> QED
  BY <1>2, <1>3 DEF Passed

GateType ==
  outcomes \in Outcomes /\ champion_metric \in Int /\ candidate_metric \in Int

LEMMA GateTyped == GateSpec => []GateType
<1>1. Metrics \subseteq Int
  BY GateAssumption
<1>2. gInit => GateType
  BY <1>1 DEF gInit, GateType, Outcomes
<1>3. GateType /\ [gNext]_gVars => GateType'
  <2> SUFFICES ASSUME GateType, [gNext]_gVars PROVE GateType'
    OBVIOUS
  <2>1. ASSUME NEW i \in 1..Rows, Solve(i) PROVE GateType'
    <3>1. Better(outcomes, outcomes') /\ UNCHANGED <<champion_metric, candidate_metric>>
      BY <2>1 DEF Solve, Better
    <3> QED
      BY <3>1, BetterCounts DEF GateType
  <2>2. ASSUME NEW m \in Metrics, Economise(m) PROVE GateType'
    BY <1>1, <2>2 DEF Economise, GateType
  <2>3. CASE UNCHANGED gVars
    BY <2>3 DEF GateType, gVars
  <2> QED
    BY <2>1, <2>2, <2>3 DEF gNext
<1> QED
  BY <1>2, <1>3, PTL DEF GateSpec

\* Where a candidate is promoted as a significant improvement, its champion in
\* its place fails the gate, whatever the policy, the metrics and the resamples
\* (evaluate_gate, lines 105-144).
THEOREM OneWayCorrect == GateSpec => []ImprovementIsOneWay
<1>1. GateType => ImprovementIsOneWay
  BY OneWay DEF GateType, ImprovementIsOneWay, Passes, Passed
<1> QED
  BY <1>1, GateTyped, PTL

\* No task more that a candidate solves, and no better metric, turns a gate it
\* passes into one it fails, in either mode (evaluate_gate, lines 97-144).
THEOREM BetterCorrect == GateSpec => BetterNeverFails
<1> DEFINE Step == \A mode \in {"non_regression", "significant_improvement"} :
                     Passes(mode) => Passes(mode)'
<1>1. GateType /\ gNext => Step
  <2> SUFFICES ASSUME GateType, gNext, NEW mode, Passes(mode) PROVE Passes(mode)'
    OBVIOUS
  <2>1. ASSUME NEW i \in 1..Rows, Solve(i) PROVE Passes(mode)'
    <3>1. /\ Better(outcomes, outcomes')
          /\ champion_metric' = champion_metric /\ candidate_metric' = candidate_metric
      BY <2>1 DEF Solve, Better
    <3>2. Passed(mode, outcomes, champion_metric, candidate_metric)
      BY DEF Passes
    <3>3. Passed(mode, outcomes', champion_metric, candidate_metric)
      BY <3>1, <3>2, GateFollows DEF GateType
    <3> QED
      BY <3>1, <3>3 DEF Passes, Passed, Floors, GuardFails
  <2>2. ASSUME NEW m \in Metrics, Economise(m) PROVE Passes(mode)'
    <3>1. /\ outcomes' = outcomes /\ champion_metric' = champion_metric
          /\ candidate_metric' = m /\ m \in Int /\ m <= candidate_metric
      BY <2>2, GateAssumption DEF Economise, GateType
    <3>2. Passed(mode, outcomes, champion_metric, candidate_metric)
      BY DEF Passes
    <3>3. Passed(mode, outcomes, champion_metric, m)
      BY <3>1, <3>2, GateFollows DEF GateType
    <3> QED
      BY <3>1, <3>3 DEF Passes
  <2> QED
    BY <2>1, <2>2 DEF gNext
<1>2. GateType /\ [gNext]_gVars => [Step]_gVars
  BY <1>1
<1> QED
  BY <1>2, GateTyped, PTL DEF GateSpec, BetterNeverFails
=============================================================================
