----------------------------- MODULE MCPromotion ----------------------------
(* The promotion of a harness: a behaviour is one of the registry, or of    *)
(* the gate's paired outcomes; the other part keeps its initial state.      *)
(* Three specs, two of one version; fixed bootstrap draws, as a fixed seed  *)
(* gives.                                                                   *)
EXTENDS HarnessRegistry, Gate, TLC

CONSTANTS s1, s2, s3, v1, v2, h1

MCVersionOf == [s \in Specs |-> IF s = s1 THEN v1 ELSE v2]

\* The two specs of one version are interchangeable.
SpecSymmetry == Permutations({s2, s3})

MCDraws ==
  << <<1, 1, 3, 4, 4>>, <<2, 3, 3, 5, 1>>, <<4, 4, 2, 1, 5>>, <<5, 5, 2, 2, 3>> >>
\* An interval that may reach nine tenths below.
MCBound == -90

VARIABLE part  \* which of the two this behaviour is about

AllInit ==
  /\ part \in {"registry", "gate"}
  /\ Init
  /\ IF part = "gate" THEN gInit
     ELSE /\ outcomes = [i \in 1..Rows |-> [champion |-> FALSE, candidate |-> FALSE]]
          /\ champion_metric = 0 /\ candidate_metric = 2

AllNext ==
  /\ UNCHANGED part
  /\ \/ part = "registry" /\ Next /\ UNCHANGED gVars
     \/ part = "gate" /\ gNext /\ UNCHANGED vars

AllSpec == AllInit /\ [][AllNext]_<<part, vars, gVars>>
=============================================================================
