-------------------------- MODULE Training_proofs --------------------------
(***************************************************************************)
(* Proofs about what is made before and during a training, for any number  *)
(* of tasks, rows, records, builds, runs and kills: the dataset build, the *)
(* task sets, the SFT runs, a batch of rollouts and its reward, and the    *)
(* first version's trainer.                                                *)
(***************************************************************************)
EXTENDS SftRun, VerlRollout, RlTraining, TaskPools, PoolBuild, SourceSft, SympyDemos,
        FoldTheorems, SequenceTheorems
-----------------------------------------------------------------------------
(* The dataset build.                                                       *)

\* Keys that are different integers put the tasks in an order.
LEMMA SortedByKeys ==
  ASSUME NEW S, IsFiniteSet(S), NEW key, \A t \in S : key[t] \in Int,
         \A t, u \in S : key[t] = key[u] => t = u
  PROVE  /\ DOMAIN SortedBy(S, key) = 1..Cardinality(S) /\ Cardinality(S) \in Nat
         /\ SortedBy(S, key) \in [1..Cardinality(S) -> S]
         /\ \A i \in 1..Cardinality(S) : SortedBy(S, key)[i] \in S
         /\ \A t \in S : \E i \in 1..Cardinality(S) : SortedBy(S, key)[i] = t
         /\ \A i, j \in 1..Cardinality(S) : SortedBy(S, key)[i] = SortedBy(S, key)[j] => i = j
<1> DEFINE R == {p \in S \X S : key[p[1]] < key[p[2]]}
<1>0. Cardinality(S) \in Nat
  BY FS_CardinalityType
<1>1. \A a, b \in S : <<a, b>> \in R <=> key[a] < key[b]
  OBVIOUS
<1>2. IsOrder(R, S)
  BY <1>1 DEF IsOrder
<1>3. SortedBy(S, key) = OrderOf(R, S)
  <2>1. \A x \in S : {u \in S : <<u, x>> \in R} = {u \in S : key[u] < key[x]}
    OBVIOUS
  <2>2. \A x \in S : RankIn(R, S, x) = Cardinality({u \in S : key[u] < key[x]})
    BY <2>1 DEF RankIn
  <2> HIDE DEF R
  <2> DEFINE at(i) == CHOOSE x \in S : RankIn(R, S, x) = i - 1
             by(i) == CHOOSE t \in S : Cardinality({u \in S : key[u] < key[t]}) = i - 1
  <2>3. \A i : at(i) = by(i)
    BY <2>2
  <2>4. /\ OrderOf(R, S) = [i \in 1..Cardinality(S) |-> at(i)]
        /\ SortedBy(S, key) = [i \in 1..Cardinality(S) |-> by(i)]
    BY DEF OrderOf, SortedBy
  <2> HIDE DEF at, by
  <2> QED
    BY <2>3, <2>4
<1> HIDE DEF R
<1> PICK n, q : n = Cardinality(S) /\ q = OrderOf(R, S)
  OBVIOUS
<1>4. /\ n \in Nat /\ q \in [1..n -> S] /\ \A x \in S : \E i \in 1..n : q[i] = x
      /\ \A i, j \in 1..n : q[i] = q[j] => i = j
  BY <1>2, InItsOrder
<1> QED
  BY <1>0, <1>3, <1>4

LEMMA PoolIds == PoolTasks \subseteq Nat /\ IsFiniteSet(PoolTasks)
<1>1. Cardinality(PoolTasks) \in Nat
  BY PoolAssumption, FS_CardinalityType
<1> QED
  BY <1>1, PoolAssumption

\* A group's winner is one of it, and of its evaluation tasks if it has any
\* the first.
LEMMA WinnerIn ==
  ASSUME NEW M, M \subseteq Nat, M # {}
  PROVE  /\ Winner(M) \in M
         /\ M \cap evalTasks # {} => Winner(M) \in evalTasks
         /\ \A m \in M \cap evalTasks : Winner(M) <= m
<1> PICK G : G = IF M \cap evalTasks # {} THEN M \cap evalTasks ELSE M
  OBVIOUS
<1>1. G \subseteq Nat /\ G # {} /\ G \subseteq M
  OBVIOUS
<1>2. \E x \in G : \A y \in G : x <= y
  BY <1>1, NatMin
<1>3. Min(G) \in G /\ \A y \in G : Min(G) <= y
  BY <1>2, Zenon DEF Min
<1>4. Winner(M) = Min(G)
  BY DEF Winner
<1> QED
  BY <1>1, <1>3, <1>4

WinnersOf(W, L) == W = {Winner({u \in L : text[u] = text[t]}) : t \in L}

\* The winners of the exact groups: one of each text, and every evaluation
\* task has one before it.
LEMMA ExactOnes ==
  ASSUME PoolTasks \subseteq Nat, NEW L \in SUBSET PoolTasks, NEW W, WinnersOf(W, L)
  PROVE  /\ W \subseteq L
         /\ \A v, w \in W : text[v] = text[w] => v = w
         /\ \A t \in L \cap evalTasks : \E w \in W \cap evalTasks : w <= t
<1> DEFINE same(t) == {u \in L : text[u] = text[t]}
<1>1. ASSUME NEW t \in L
      PROVE  /\ Winner(same(t)) \in same(t)
             /\ t \in evalTasks => Winner(same(t)) \in evalTasks /\ Winner(same(t)) <= t
  <2> PICK M : M = same(t)
    OBVIOUS
  <2>1. M \subseteq Nat /\ M # {} /\ t \in M
    OBVIOUS
  <2>2. /\ Winner(M) \in M
        /\ M \cap evalTasks # {} => Winner(M) \in evalTasks
        /\ \A m \in M \cap evalTasks : Winner(M) <= m
    BY <2>1, WinnerIn
  <2> QED
    BY <2>1, <2>2
<1>2. PICK won : /\ \A w : w \in W <=> \E t \in L : w = won[t]
                 /\ \A t \in L : won[t] = Winner(same(t))
  <2> DEFINE won == [t \in L |-> Winner(same(t))]
  <2>1. \A t \in L : won[t] = Winner(same(t))
    OBVIOUS
  <2>2. \A w : w \in W <=> \E t \in L : w = Winner(same(t))
    BY DEF WinnersOf
  <2> HIDE DEF won, same
  <2> QED
    BY <2>1, <2>2
<1>3. \A t \in L : won[t] \in L /\ text[won[t]] = text[t]
  BY <1>1, <1>2
<1>4. \A t \in L : t \in evalTasks => won[t] \in evalTasks /\ won[t] <= t
  BY <1>1, <1>2
<1>5. W \subseteq L
  BY <1>2, <1>3
<1>6. \A v, w \in W : text[v] = text[w] => v = w
  <2> SUFFICES ASSUME NEW s \in L, NEW t \in L, text[won[s]] = text[won[t]]
               PROVE  won[s] = won[t]
    BY <1>2
  <2>1. text[s] = text[t]
    BY <1>3
  <2>2. same(s) = same(t)
    BY <2>1
  <2> HIDE DEF same
  <2> QED
    BY <1>2, <2>2
<1>7. \A t \in L \cap evalTasks : \E w \in W \cap evalTasks : w <= t
  BY <1>2, <1>4
<1> QED
  BY <1>5, <1>6, <1>7

LEMMA LeastOf ==
  ASSUME NEW a \in Int, NEW b \in Int
  PROVE  Min({a, b}) \in {a, b} /\ Min({a, b}) <= b
<1>1. \E x \in {a, b} : \A y \in {a, b} : x <= y
  OBVIOUS
<1>2. Min({a, b}) \in {a, b} /\ \A y \in {a, b} : Min({a, b}) <= y
  BY <1>1, Zenon DEF Min
<1> QED
  BY <1>2

LEMMA OrderOfAll ==
  ASSUME NEW K, K \subseteq PoolTasks
  PROVE  Range(InOrder(K)) \subseteq K
<1>3. PoolTasks \subseteq Nat /\ IsFiniteSet(PoolTasks)
  BY PoolIds
<1>4. IsFiniteSet(K) /\ K \subseteq Nat
  BY <1>3, FS_Subset
<1> PICK key : key = [t \in K |-> t]
  OBVIOUS
<1>0. \A t \in K : key[t] = t
  OBVIOUS
<1>5. (\A t \in K : key[t] \in Int) /\ \A t, u \in K : key[t] = key[u] => t = u
  <2>1. \A t \in K : t \in Int
    BY <1>4
  <2> QED
    BY <1>0, <2>1, Zenon
<1>6. /\ DOMAIN SortedBy(K, key) = 1..Cardinality(K)
      /\ \A i \in 1..Cardinality(K) : SortedBy(K, key)[i] \in K
  BY <1>4, <1>5, SortedByKeys
<1> QED
  BY <1>6 DEF Range, InOrder

\* A slice takes its tasks from the items.
LEMMA SliceOf ==
  ASSUME NEW K, K \subseteq PoolTasks, NEW items \in Seq(K), NEW a \in Nat, NEW b \in Nat
  PROVE  Range(Slice(items, a, b)) \subseteq K
<1> PICK l \in Nat : l = Len(items)
  OBVIOUS
<1> PICK m \in Nat : m = Min({b, l}) /\ m <= l
  <2>1. Min({b, l}) \in {b, l} /\ Min({b, l}) <= l
    BY LeastOf, b \in Int, l \in Int
  <2> QED
    BY <2>1
<1> PICK S : S = {items[i] : i \in (a + 1)..m}
  OBVIOUS
<1>1. \A i \in (a + 1)..m : i \in 1..l
  OBVIOUS
<1>2. S \subseteq K
  BY <1>1
<1>3. Range(InOrder(S)) \subseteq S
  BY <1>2, OrderOfAll
<1>4. Slice(items, a, b) = InOrder(S)
  BY DEF Slice
<1> QED
  BY <1>2, <1>3, <1>4

LEMMA ShareNat ==
  ASSUME NEW n \in Nat, NEW s \in Nat
  PROVE  Share(n, s) \in Nat
<1> PICK m \in Nat : m = n * s
  OBVIOUS
<1>1. m \div 100 \in Nat
  OBVIOUS
<1> QED
  BY <1>1 DEF Share

\* The splits are cut from what the loop kept.
LEMMA CutOfKept ==
  ASSUME NEW K, K \subseteq PoolTasks, NEW items \in Seq(K), NEW name \in SplitNames
  PROVE  /\ Range(Splits(K, items)[name]) \subseteq K
         /\ DOMAIN Splits(K, items) = SplitNames
<1>1. TrainShare \in Nat /\ DevShare \in Nat
  BY PoolAssumption
<1> PICK l \in Nat : l = Len(items)
  OBVIOUS
<1> PICK train \in Nat, more \in Nat : train = Share(l, TrainShare) /\ more = Share(l, DevShare)
  BY <1>1, ShareNat
<1> PICK dev \in Nat : dev = train + more
  OBVIOUS
<1>2. Splits(K, items) =
        [train |-> Slice(items, 0, train), sft_dev |-> Slice(items, train, dev),
         rl_dev |-> Slice(items, dev, l), frozen_eval |-> InOrder(K \cap evalTasks)]
  BY DEF Splits
<1>3. /\ Range(Slice(items, 0, train)) \subseteq K
      /\ Range(Slice(items, train, dev)) \subseteq K
      /\ Range(Slice(items, dev, l)) \subseteq K
  BY SliceOf
<1>4. Range(InOrder(K \cap evalTasks)) \subseteq K
  <2> PICK J : J = K \cap evalTasks
    OBVIOUS
  <2>1. J \subseteq PoolTasks /\ J \subseteq K
    OBVIOUS
  <2>2. Range(InOrder(J)) \subseteq J
    BY <2>1, OrderOfAll
  <2> QED
    BY <2>1, <2>2
<1>5. /\ DOMAIN Splits(K, items) = {"train", "sft_dev", "rl_dev", "frozen_eval"}
      /\ Splits(K, items)["train"] = Slice(items, 0, train)
      /\ Splits(K, items)["sft_dev"] = Slice(items, train, dev)
      /\ Splits(K, items)["rl_dev"] = Slice(items, dev, l)
      /\ Splits(K, items)["frozen_eval"] = InOrder(K \cap evalTasks)
  BY <1>2
<1> QED
  BY <1>3, <1>4, <1>5 DEF SplitNames
-----------------------------------------------------------------------------
LEMMA ItemsIn ==
  ASSUME NEW n \in Nat, NEW J, NEW K, J \subseteq K, NEW s \in [1..n -> J]
  PROVE  s \in Seq(K)
OBVIOUS

LEMMA RangeIn ==
  ASSUME NEW A, NEW q \in Seq(A)
  PROVE  Range(q) \subseteq A
BY DEF Range

Alike(t, u) == {text[t], text[u]} \in near

LEMMA AlikeBothWays == \A t, u : Alike(t, u) <=> Alike(u, t)
<1>1. \A t, u : {text[t], text[u]} = {text[u], text[t]}
  OBVIOUS
<1> QED
  BY <1>1 DEF Alike

\* The exact groups' winners have texts of their own, and every evaluation
\* task that was loaded has one of them before it.
TextsOK == \A t \in PoolTasks : text[t] \in Int

WinnersDiffer ==
  /\ loaded \subseteq PoolTasks /\ exactKept \in Seq(PoolTasks)
  /\ \A t, u \in Range(exactKept) : text[t] = text[u] => t = u
  /\ \A i, j \in DOMAIN exactKept : exactKept[i] = exactKept[j] => i = j
  /\ \A t \in loaded \cap evalTasks : \E w \in Range(exactKept) \cap evalTasks : w <= t

\* The near loop drops an evaluation task for an earlier one, and what it
\* keeps is like nothing else that is left.
LoopKeeps ==
  /\ cursor \in Nat \ {0} /\ nearKept \subseteq Range(exactKept)
  /\ \A w \in Range(exactKept) \cap evalTasks :
       \E e \in (Range(exactKept) \cap evalTasks) \ removedIds : e <= w
  /\ \A i \in DOMAIN exactKept :
       exactKept[i] \in (IF i < cursor THEN removedIds \cup nearKept ELSE PoolTasks \ nearKept)
  /\ \A t \in nearKept : /\ t \notin removedIds
                         /\ \A c \in Range(exactKept) : c # t /\ Alike(c, t) => c \in removedIds

\* No two tasks of the files have equal or near texts.
Apart(files) ==
  LET kept == UNION {Range(files[name]) : name \in SplitNames}
  IN  \A t, u \in kept : t # u => text[t] # text[u] /\ {text[t], text[u]} \notin near

FilesApart ==
  /\ DOMAIN cut = SplitNames /\ DOMAIN manifestFile = SplitNames
  /\ cut = [name \in SplitNames |-> cut[name]]
  /\ manifestFile = [name \in SplitNames |-> manifestFile[name]]
  /\ splitFiles = [name \in SplitNames |-> splitFiles[name]]
  /\ Apart(cut) /\ Apart(manifestFile)
  /\ building \in SplitNames \cup {"manifest"} => cursor > Len(exactKept)

GreenIsTrue ==
  /\ verdict = "audited" => splitFiles = manifestFile
  /\ verdict = "prepared" =>
       splitFiles["frozen_eval"] = manifestFile["frozen_eval"] /\ taskList = pinned

PoolInv == TextsOK /\ WinnersDiffer /\ LoopKeeps /\ FilesApart /\ GreenIsTrue

LEMMA PoolInvSound == PoolInv => PoolIsSound
<1> SUFFICES ASSUME PoolInv PROVE PoolIsSound
  OBVIOUS
<1> USE DEF PoolInv
<1>1. verdict = "audited" => Apart(splitFiles)
  BY DEF FilesApart, GreenIsTrue
<1>2. GreenMeansOneBuild
  <2> HIDE DEF PoolInv
  <2>1. GreenIsTrue
    BY DEF PoolInv
  <2> QED
    BY <1>1, <2>1, Zenon DEF GreenIsTrue, GreenMeansOneBuild, Apart
<1>3. ASSUME building \in SplitNames \cup {"manifest"}, NEW t \in loaded \cap evalTasks
      PROVE  \E kept \in nearKept \cap evalTasks : kept <= t
  <2>0. loaded \subseteq PoolTasks /\ exactKept \in Seq(PoolTasks) /\ PoolTasks \subseteq Nat
    BY PoolIds DEF WinnersDiffer
  <2>1. PICK w \in Range(exactKept) \cap evalTasks : w <= t
    BY <1>3 DEF WinnersDiffer
  <2>2. PICK e \in (Range(exactKept) \cap evalTasks) \ removedIds : e <= w
    BY DEF LoopKeeps
  <2>3. PICK i \in DOMAIN exactKept : exactKept[i] = e
    BY DEF Range
  <2>4. i < cursor
    BY <1>3, <2>0, <2>3 DEF FilesApart, LoopKeeps
  <2>5. e \in nearKept
    BY <2>2, <2>3, <2>4 DEF LoopKeeps
  <2>6. e \in Nat /\ w \in Nat /\ t \in Nat
    <3>1. Range(exactKept) \subseteq PoolTasks
      BY <2>0, RangeIn
    <3> QED
      BY <2>0, <3>1
  <2>7. e <= t
    BY <2>1, <2>2, <2>6
  <2> QED
    BY <2>5, <2>7
<1> QED
  BY <1>2, <1>3 DEF PoolIsSound, EvaluationSurvives, Represented

LEMMA PoolStarts == poolInit => PoolInv
<1> SUFFICES ASSUME poolInit PROVE PoolInv
  OBVIOUS
<1>0. TextsOK
  <2>0. PoolTexts \subseteq Int
    BY PoolAssumption
  <2>1. text \in [PoolTasks -> PoolTexts]
    BY DEF poolInit
  <2> QED
    BY <2>0, <2>1 DEF TextsOK
<1>1. WinnersDiffer /\ LoopKeeps
  BY DEF poolInit, WinnersDiffer, LoopKeeps, Range
<1>2. GreenIsTrue
  BY DEF poolInit, GreenIsTrue
<1>3. Apart(cut)
  <2>1. \A name \in SplitNames : cut[name] = << >>
    BY DEF poolInit, NoSplits
  <2>2. \A name \in SplitNames : Range(cut[name]) = {}
    BY <2>1 DEF Range
  <2> QED
    BY <2>2 DEF Apart
<1>4. Apart(manifestFile)
  <2>1. \A name \in SplitNames : manifestFile[name] = <<0>>
    BY DEF poolInit, NoFiles, Absent
  <2>2. \A name \in SplitNames : Range(manifestFile[name]) = {0}
    BY <2>1 DEF Range
  <2>3. UNION {Range(manifestFile[name]) : name \in SplitNames} \subseteq {0}
    BY <2>2
  <2> QED
    BY <2>3 DEF Apart
<1>5. FilesApart
  BY <1>3, <1>4 DEF poolInit, FilesApart, NoSplits, NoFiles, SplitNames
<1> QED
  BY <1>0, <1>1, <1>2, <1>5 DEF PoolInv

LEMMA ApartStays ==
  ASSUME text' = text, near' = near, NEW f
  PROVE  Apart(f)' = Apart(f)
BY DEF Apart

LEMMA FilesStay ==
  ASSUME FilesApart, text' = text, near' = near, cut' = cut, splitFiles' = splitFiles,
         manifestFile' = manifestFile,
         building' \in SplitNames \cup {"manifest"} => cursor' > Len(exactKept')
  PROVE  FilesApart'
<1>1. Apart(cut)' /\ Apart(manifestFile)'
  <2> PICK f, g : f = cut /\ g = manifestFile
    OBVIOUS
  <2>1. Apart(f) /\ Apart(g)
    BY DEF FilesApart
  <2>2. Apart(f)' /\ Apart(g)'
    BY <2>1, ApartStays
  <2> QED
    BY <2>2
<1> QED
  BY <1>1 DEF FilesApart

LEMMA PoolStaysLoad == ASSUME PoolInv, LoadSources PROVE PoolInv'
<1> USE DEF PoolInv
<1> PICK L : L = loaded'
  OBVIOUS
<1> PICK W : WinnersOf(W, L)
  BY DEF WinnersOf
<1>1. L \in SUBSET PoolTasks
  BY DEF LoadSources, Canonicalized
<1>2. /\ W \subseteq L
      /\ \A v, w \in W : text[v] = text[w] => v = w
      /\ \A t \in L \cap evalTasks : \E w \in W \cap evalTasks : w <= t
  BY <1>1, PoolIds, ExactOnes
<1>3. exactKept' = SortedBy(W, text)
  <2>1. {Winner(SameText(t)) : t \in loaded'} = W
    BY DEF WinnersOf, SameText
  <2> QED
    BY <2>1 DEF LoadSources, ExactWinners
<1>4. /\ exactKept' \in Seq(PoolTasks) /\ Range(exactKept') = W
      /\ \A i, j \in DOMAIN exactKept' : exactKept'[i] = exactKept'[j] => i = j
  <2>1. IsFiniteSet(W) /\ W \subseteq PoolTasks
    BY <1>1, <1>2, PoolIds, FS_Subset
  <2>2. \A t \in W : text[t] \in Int
    BY <2>1 DEF TextsOK
  <2> PICK n : n = Cardinality(W)
    OBVIOUS
  <2>3. /\ DOMAIN SortedBy(W, text) = 1..n /\ n \in Nat
        /\ SortedBy(W, text) \in [1..n -> W]
        /\ \A t \in W : \E i \in 1..n : SortedBy(W, text)[i] = t
        /\ \A i, j \in 1..n : SortedBy(W, text)[i] = SortedBy(W, text)[j] => i = j
    BY <1>2, <2>1, <2>2, SortedByKeys
  <2> PICK q : q = SortedBy(W, text)
    OBVIOUS
  <2>5. q \in [1..n -> W] /\ Range(q) = W
    BY <2>3 DEF Range
  <2> QED
    BY <1>3, <2>1, <2>3, <2>5
<1>5. /\ text' = text /\ evalTasks' = evalTasks /\ near' = near
      /\ cursor' = 1 /\ removedIds' = {} /\ nearKept' = {}
  BY DEF LoadSources, buildInputs
<1>6. WinnersDiffer'
  BY <1>1, <1>2, <1>4, <1>5 DEF WinnersDiffer
<1>7. LoopKeeps'
  <2>1. \A w \in W : w <= w
    BY <1>1, <1>2, PoolIds
  <2>2. DOMAIN exactKept' = 1..Len(exactKept') /\ Len(exactKept') \in Nat
    BY <1>4
  <2>3. \A i \in DOMAIN exactKept' : ~(i < 1)
    BY <2>2
  <2> QED
    BY <1>4, <1>5, <2>1, <2>3 DEF LoopKeeps
<1>8. FilesApart'
  <2>1. /\ cut' = cut /\ splitFiles' = splitFiles /\ manifestFile' = manifestFile
        /\ building' \notin SplitNames \cup {"manifest"}
    BY DEF LoadSources, disk, SplitNames
  <2> QED
    BY <1>5, <2>1, FilesStay
<1>9. GreenIsTrue'
  BY DEF LoadSources, GreenIsTrue, disk, buildInputs
<1>10. TextsOK'
  BY <1>5 DEF TextsOK
<1> QED
  BY <1>6, <1>7, <1>8, <1>9, <1>10

\* One round of the near loop.
LEMMA PoolStaysRound == ASSUME PoolInv, NearRound PROVE PoolInv'
<1> USE DEF PoolInv
<1>1. /\ text' = text /\ evalTasks' = evalTasks /\ near' = near
      /\ loaded' = loaded /\ exactKept' = exactKept /\ cursor' = cursor + 1
  BY DEF NearRound, buildInputs
<1> PICK X : X = Range(exactKept)
  OBVIOUS
<1> PICK n \in Nat : n = Len(exactKept) /\ DOMAIN exactKept = 1..n
  BY DEF WinnersDiffer
<1> PICK c \in Nat \ {0} : c = cursor /\ c <= n
  BY DEF LoopKeeps, NearRound
<1> PICK task : task = exactKept[c]
  OBVIOUS
<1>2. X \subseteq PoolTasks /\ PoolTasks \subseteq Nat /\ task \in X
  <2>1. X \subseteq PoolTasks /\ PoolTasks \subseteq Nat
    BY RangeIn, PoolIds DEF WinnersDiffer
  <2>2. c \in DOMAIN exactKept
    OBVIOUS
  <2> QED
    BY <2>1, <2>2 DEF Range
<1>3. WinnersDiffer'
  BY <1>1 DEF WinnersDiffer
<1>4. FilesApart'
  <2>1. /\ cut' = cut /\ splitFiles' = splitFiles /\ manifestFile' = manifestFile
        /\ building' = "dedup"
    BY DEF NearRound, disk
  <2>2. building' \notin SplitNames \cup {"manifest"}
    BY <2>1 DEF SplitNames
  <2> QED
    BY <1>1, <2>1, <2>2, FilesStay
<1>5. GreenIsTrue'
  BY DEF NearRound, GreenIsTrue, disk, buildInputs
<1>6. TextsOK'
  BY <1>1 DEF TextsOK
<1>7. \A i \in DOMAIN exactKept : i < c + 1 <=> i < c \/ i = c
  OBVIOUS
<1>8. LoopKeeps'
  <2>1. CASE task \in removedIds
    <3>1. removedIds' = removedIds /\ nearKept' = nearKept
      BY <2>1 DEF NearRound
    <3>2. \A i \in DOMAIN exactKept :
            exactKept[i] \in (IF i < c + 1 THEN removedIds \cup nearKept ELSE PoolTasks \ nearKept)
      BY <1>7, <2>1 DEF LoopKeeps
    <3> QED
      BY <1>1, <3>1, <3>2 DEF LoopKeeps, Alike
  <2>2. CASE task \notin removedIds
    <3> PICK K : K = {task} \cup Candidates(task)
      OBVIOUS
    <3> PICK w : w = Winner(K)
      OBVIOUS
    <3>1. /\ K \subseteq X /\ task \in K /\ K \cap removedIds = {}
          /\ \A u \in X : u # task /\ Alike(u, task) /\ u \notin removedIds => u \in K
          /\ \A u \in K : u # task => Alike(u, task)
      BY <1>2, <2>2 DEF Candidates, Alike
    <3>2. /\ w \in K /\ (K \cap evalTasks # {} => w \in evalTasks)
          /\ \A m \in K \cap evalTasks : w <= m
      <4>1. K \subseteq Nat /\ K # {}
        BY <1>2, <3>1
      <4> QED
        BY <4>1, WinnerIn
    <3>3. /\ removedIds' = removedIds \cup (K \ {w})
          /\ nearKept' = IF w = task THEN nearKept \cup {task} ELSE nearKept
      BY <2>2 DEF NearRound
    <3>4. \A i \in DOMAIN exactKept :
            exactKept[i] \in (IF i < c + 1 THEN removedIds' \cup nearKept' ELSE PoolTasks \ nearKept')
      <4> TAKE i \in DOMAIN exactKept
      <4>1. i < c => exactKept[i] \in removedIds' \cup nearKept'
        BY <3>3 DEF LoopKeeps
      <4>2. i = c => exactKept[i] \in removedIds' \cup nearKept'
        BY <3>1, <3>3
      <4>3. ~(i < c) /\ i # c => exactKept[i] \in PoolTasks \ nearKept'
        <5>1. i # c => exactKept[i] # task
          BY DEF WinnersDiffer
        <5> QED
          BY <3>3, <5>1 DEF LoopKeeps
      <4> QED
        BY <1>7, <4>1, <4>2, <4>3
    <3>5. \A t \in nearKept : t \notin K
      <4> SUFFICES ASSUME NEW t \in nearKept, t \in K PROVE FALSE
        OBVIOUS
      <4>1. task \notin nearKept
        BY DEF LoopKeeps
      <4>2. Alike(task, t)
        BY <3>1, <4>1, AlikeBothWays
      <4> QED
        BY <1>2, <2>2, <4>1, <4>2 DEF LoopKeeps
    <3>6. nearKept' \subseteq X /\ \A t \in nearKept' : t \notin removedIds'
      <4>1. nearKept \subseteq X /\ \A t \in nearKept : t \notin removedIds
        BY DEF LoopKeeps
      <4> QED
        BY <1>2, <2>2, <3>3, <3>5, <4>1
    <3>7. ASSUME NEW t \in nearKept', NEW u \in X, u # t, Alike(u, t)
          PROVE  u \in removedIds'
      <4>1. CASE t \in nearKept
        BY <3>3, <3>7, <4>1 DEF LoopKeeps
      <4>2. CASE t \notin nearKept
        <5>1. t = task /\ w = task
          BY <3>3, <4>2
        <5> QED
          BY <3>1, <3>3, <3>7, <5>1
      <4> QED
        BY <4>1, <4>2
    <3>8. ASSUME NEW v \in X \cap evalTasks
          PROVE  \E e \in (X \cap evalTasks) \ removedIds' : e <= v
      <4>1. PICK e \in (X \cap evalTasks) \ removedIds : e <= v
        BY DEF LoopKeeps
      <4>2. CASE e \in K
        <5>1. w \in evalTasks /\ w <= e /\ w \in X /\ w \notin removedIds'
          BY <3>1, <3>2, <3>3, <4>2
        <5>2. w \in Nat /\ e \in Nat /\ v \in Nat
          BY <1>2, <5>1
        <5>3. w <= v
          BY <4>1, <5>1, <5>2
        <5> QED
          BY <5>1, <5>3
      <4>3. CASE e \notin K
        BY <3>3, <4>1, <4>3
      <4> QED
        BY <4>2, <4>3
    <3>9. cursor' \in Nat \ {0}
      BY <1>1
    <3>10. \A t \in nearKept' : \A u \in X : u # t /\ Alike(u, t)' => u \in removedIds'
      BY <1>1, <3>7 DEF Alike
    <3>11. Range(exactKept') = X /\ cursor' = c + 1
      BY <1>1
    <3> QED
      BY <1>1, <3>4, <3>6, <3>8, <3>9, <3>10, <3>11 DEF LoopKeeps
  <2> QED
    BY <2>1, <2>2
<1> QED
  BY <1>3, <1>4, <1>5, <1>6, <1>8

LEMMA PoolStaysAssign == ASSUME PoolInv, AssignSplits PROVE PoolInv'
<1> USE DEF PoolInv
<1>1. /\ text' = text /\ evalTasks' = evalTasks /\ near' = near /\ UNCHANGED loop
      /\ splitFiles' = splitFiles /\ manifestFile' = manifestFile
      /\ taskList' = taskList /\ verdict' = verdict /\ pinned' = pinned
      /\ cursor > Len(exactKept)
  BY DEF AssignSplits, buildInputs, disk
<1>2. TextsOK' /\ WinnersDiffer' /\ LoopKeeps'
  BY <1>1 DEF TextsOK, WinnersDiffer, LoopKeeps, loop, Alike
<1>3. GreenIsTrue'
  BY <1>1 DEF GreenIsTrue
<1> PICK K : K = nearKept
  OBVIOUS
<1>4. K \subseteq PoolTasks /\ IsFiniteSet(K)
  <2>1. Range(exactKept) \subseteq PoolTasks /\ IsFiniteSet(PoolTasks)
    BY RangeIn, PoolIds DEF WinnersDiffer
  <2>2. K \subseteq PoolTasks
    BY <2>1 DEF LoopKeeps
  <2> QED
    BY <2>1, <2>2, FS_Subset
<1>5. PICK shuffled \in SetToSeqs(K \ evalTasks) : cut' = Splits(K, shuffled)
  BY DEF AssignSplits
<1>6. shuffled \in Seq(K)
  <2> PICK J : J = K \ evalTasks
    OBVIOUS
  <2>1. J \subseteq K /\ IsFiniteSet(J)
    BY <1>4, FS_Subset
  <2> PICK n \in Nat : n = Cardinality(J)
    BY <2>1, FS_CardinalityType
  <2>2. shuffled \in [1..n -> J]
    BY <1>5 DEF SetToSeqs
  <2> QED
    BY <2>1, <2>2, ItemsIn
<1>7. \A name \in SplitNames : Range(cut'[name]) \subseteq K
  BY <1>4, <1>5, <1>6, CutOfKept
<1>8. \A t, u \in K : t # u => text[t] # text[u] /\ {text[t], text[u]} \notin near
  <2> SUFFICES ASSUME NEW t \in K, NEW u \in K, t # u
               PROVE  text[t] # text[u] /\ ~Alike(t, u)
    BY DEF Alike
  <2>1. t \in Range(exactKept) /\ u \in Range(exactKept) /\ t \notin removedIds
    BY DEF LoopKeeps
  <2>2. text[t] # text[u]
    BY <2>1 DEF WinnersDiffer
  <2>3. ~Alike(t, u)
    BY <2>1 DEF LoopKeeps
  <2> QED
    BY <2>2, <2>3
<1>9. Apart(cut)'
  <2> PICK U : U = UNION {Range(cut'[name]) : name \in SplitNames}
    OBVIOUS
  <2>1. U \subseteq K
    BY <1>7
  <2>2. \A t, u \in U : t # u => text[t] # text[u] /\ {text[t], text[u]} \notin near
    BY <1>8, <2>1
  <2> QED
    BY <1>1, <2>2 DEF Apart
<1>10. DOMAIN cut' = SplitNames /\ cut' = [name \in SplitNames |-> cut'[name]]
  BY <1>5 DEF Splits, SplitNames
<1>11. Apart(manifestFile)'
  <2> PICK g : g = manifestFile
    OBVIOUS
  <2>1. Apart(g)'
    BY <1>1, ApartStays DEF FilesApart
  <2> QED
    BY <1>1, <2>1
<1>12. FilesApart'
  BY <1>1, <1>9, <1>10, <1>11 DEF FilesApart, loop
<1> QED
  BY <1>2, <1>3, <1>12

LEMMA LoopEnds ==
  ASSUME ProcessEnds, UNCHANGED buildInputs, PoolInv
  PROVE  TextsOK' /\ WinnersDiffer' /\ LoopKeeps' /\ building' \notin SplitNames \cup {"manifest"}
<1>1. /\ text' = text /\ loaded' = {} /\ exactKept' = << >> /\ cursor' = 1
      /\ removedIds' = {} /\ nearKept' = {} /\ building' = "idle"
  BY DEF ProcessEnds, buildInputs
<1>2. TextsOK' /\ WinnersDiffer'
  BY <1>1 DEF TextsOK, WinnersDiffer, Range, PoolInv
<1>3. LoopKeeps'
  BY <1>1 DEF LoopKeeps, Range
<1>4. building' \notin SplitNames \cup {"manifest"}
  BY <1>1 DEF SplitNames
<1> QED
  BY <1>2, <1>3, <1>4

LEMMA NothingCut == Apart(NoSplits) /\ DOMAIN NoSplits = SplitNames
                    /\ NoSplits = [name \in SplitNames |-> NoSplits[name]]
<1>1. \A name \in SplitNames : Range(NoSplits[name]) = {}
  BY DEF NoSplits, Range
<1> QED
  BY <1>1 DEF Apart, NoSplits

LEMMA PoolStaysWrite == ASSUME PoolInv, WriteSplit PROVE PoolInv'
<1> USE DEF PoolInv
<1>1. /\ text' = text /\ evalTasks' = evalTasks /\ near' = near /\ UNCHANGED loop
      /\ manifestFile' = manifestFile /\ cut' = cut /\ verdict' = "none"
      /\ building \in SplitNames
  BY DEF WriteSplit, buildInputs
<1>2. TextsOK' /\ WinnersDiffer' /\ LoopKeeps'
  BY <1>1 DEF TextsOK, WinnersDiffer, LoopKeeps, loop, Alike
<1>3. GreenIsTrue'
  BY <1>1 DEF GreenIsTrue
<1>4. splitFiles' = [name \in SplitNames |-> splitFiles'[name]]
  BY DEF WriteSplit, FilesApart
<1>5. Apart(cut)' /\ Apart(manifestFile)'
  <2> PICK f, g : f = cut /\ g = manifestFile
    OBVIOUS
  <2>1. Apart(f)' /\ Apart(g)'
    BY <1>1, ApartStays DEF FilesApart
  <2> QED
    BY <1>1, <2>1
<1>6. cursor > Len(exactKept)
  BY <1>1 DEF FilesApart
<1>7. FilesApart'
  BY <1>1, <1>4, <1>5, <1>6 DEF FilesApart, loop
<1> QED
  BY <1>2, <1>3, <1>7

LEMMA PoolStaysManifest == ASSUME PoolInv, WriteManifest PROVE PoolInv'
<1> USE DEF PoolInv
<1>1. /\ text' = text /\ near' = near /\ UNCHANGED buildInputs /\ splitFiles' = splitFiles
      /\ manifestFile' = cut /\ cut' = NoSplits /\ verdict' = "none" /\ ProcessEnds
  BY DEF WriteManifest, buildInputs, ProcessEnds
<1>2. TextsOK' /\ WinnersDiffer' /\ LoopKeeps' /\ building' \notin SplitNames \cup {"manifest"}
  BY <1>1, LoopEnds
<1>3. GreenIsTrue'
  BY <1>1 DEF GreenIsTrue
<1>4. Apart(cut)' /\ Apart(manifestFile)'
  <2> PICK f, g : f = cut /\ g = NoSplits
    OBVIOUS
  <2>1. Apart(f) /\ Apart(g)
    BY NothingCut DEF FilesApart
  <2>2. Apart(f)' /\ Apart(g)'
    BY <1>1, <2>1, ApartStays
  <2> QED
    BY <1>1, <2>2
<1>5. FilesApart'
  BY <1>1, <1>2, <1>4, NothingCut DEF FilesApart
<1> QED
  BY <1>2, <1>3, <1>5

LEMMA PoolStaysStops == ASSUME PoolInv, BuildStops PROVE PoolInv'
<1> USE DEF PoolInv
<1>1. /\ text' = text /\ near' = near /\ UNCHANGED buildInputs /\ UNCHANGED disk
      /\ cut' = NoSplits /\ verdict' = verdict /\ taskList' = taskList /\ ProcessEnds
  BY DEF BuildStops, buildInputs, ProcessEnds
<1>2. TextsOK' /\ WinnersDiffer' /\ LoopKeeps' /\ building' \notin SplitNames \cup {"manifest"}
  BY <1>1, LoopEnds
<1>3. GreenIsTrue'
  BY <1>1 DEF GreenIsTrue, buildInputs, disk
<1>4. Apart(cut)' /\ Apart(manifestFile)'
  <2> PICK f, g : f = manifestFile /\ g = NoSplits
    OBVIOUS
  <2>1. Apart(f) /\ Apart(g)
    BY NothingCut DEF FilesApart
  <2>2. Apart(f)' /\ Apart(g)'
    BY <1>1, <2>1, ApartStays
  <2> QED
    BY <1>1, <2>2 DEF disk
<1>5. FilesApart'
  BY <1>1, <1>2, <1>4, NothingCut DEF FilesApart, disk
<1> QED
  BY <1>2, <1>3, <1>5

LEMMA PoolStaysChecked == ASSUME PoolInv, Audit \/ Prepare PROVE PoolInv'
<1> USE DEF PoolInv
<1>1. /\ text' = text /\ evalTasks' = evalTasks /\ near' = near /\ pinned' = pinned
      /\ UNCHANGED loop
      /\ manifestFile' = manifestFile /\ splitFiles' = splitFiles /\ cut' = cut
      /\ building' = building
  BY DEF Audit, Prepare, buildInputs, disk
<1>2. TextsOK' /\ WinnersDiffer' /\ LoopKeeps'
  BY <1>1 DEF TextsOK, WinnersDiffer, LoopKeeps, loop, Alike
<1>3. FilesApart'
  <2>1. cursor' = cursor /\ exactKept' = exactKept
    BY <1>1 DEF loop
  <2>2. building' \in SplitNames \cup {"manifest"} => cursor' > Len(exactKept')
    BY <1>1, <2>1 DEF FilesApart
  <2> QED
    BY <1>1, <2>2, FilesStay
<1>4. GreenIsTrue'
  <2>1. CASE Audit
    <3>1. AuditClean => splitFiles = manifestFile
      BY DEF AuditClean, HashesAgree, FilesApart
    <3> QED
      BY <1>1, <2>1, <3>1 DEF Audit, GreenIsTrue
  <2>2. CASE Prepare
    <3>1. PICK force \in BOOLEAN :
            LET ids == splitFiles["frozen_eval"]
                frozen == SubSeq(ids, 1, FrozenCount)
            IN  IF PoolChecked(ids) /\ TaskListChecked(frozen) /\ TaskListWritable(frozen, force)
                THEN taskList' = frozen /\ verdict' = "prepared"
                ELSE verdict' = "none" /\ UNCHANGED taskList
      BY <2>2 DEF Prepare
    <3> QED
      BY <1>1, <3>1 DEF GreenIsTrue, PoolChecked, TaskListChecked
  <2> QED
    BY <2>1, <2>2
<1> QED
  BY <1>2, <1>3, <1>4

LEMMA PoolStays == PoolInv /\ [poolNext]_poolVars => PoolInv'
<1> SUFFICES ASSUME PoolInv, [poolNext]_poolVars PROVE PoolInv'
  OBVIOUS
<1>1. CASE UNCHANGED poolVars
  <2>1. /\ UNCHANGED buildInputs /\ UNCHANGED disk /\ UNCHANGED loop /\ cut' = cut
        /\ taskList' = taskList /\ verdict' = verdict /\ building' = building
    BY <1>1 DEF poolVars
  <2>2. TextsOK' /\ WinnersDiffer' /\ LoopKeeps' /\ GreenIsTrue'
    BY <2>1 DEF PoolInv, TextsOK, WinnersDiffer, LoopKeeps, GreenIsTrue, Alike, loop, disk, buildInputs
  <2>3. FilesApart'
    <3>1. building' \in SplitNames \cup {"manifest"} => cursor' > Len(exactKept')
      BY <2>1 DEF PoolInv, FilesApart, loop
    <3> QED
      BY <2>1, <3>1, FilesStay DEF PoolInv, disk, buildInputs
  <2> QED
    BY <2>2, <2>3 DEF PoolInv
<1> QED
  BY <1>1, PoolStaysLoad, PoolStaysRound, PoolStaysAssign, PoolStaysWrite,
     PoolStaysManifest, PoolStaysStops, PoolStaysChecked DEF poolNext

\* A green light means one build's files, no two of whose tasks have equal or
\* near texts, and no evaluation task gives way to a training task.
THEOREM PoolCorrect == poolSpec => []PoolIsSound
<1> QED
  BY PoolStarts, PoolStays, PoolInvSound, PTL DEF poolSpec
-----------------------------------------------------------------------------
(* The task sets of the two diagnostics.                                    *)

\* Taking away positions past rank n leaves the first n ranks as they were.
Stays(E, F, n) == \A i \in E : Place(E, i) <= n => i \in F

Within(G, k) == {j \in G : j <= k}

\* Of those up to i that were taken away, j is the first.
FirstTaken(E, F, i, j) ==
  /\ j \in E /\ j \notin F /\ j <= i
  /\ \A k \in E : k <= i /\ k \notin F => j <= k

\* The rank of a position that was taken away, when i is behind it.
LEMMA TakenBefore ==
  ASSUME NEW E, E \subseteq Nat, NEW F \in SUBSET E, NEW i \in F, NEW j,
         FirstTaken(E, F, i, j)
  PROVE  \E T \in SUBSET E : /\ j \notin T /\ Within(E, j) = T \cup {j}
                             /\ i \notin T /\ T \cup {i} \in SUBSET Within(F, i)
<1> DEFINE T == {k \in E : k < j}
<1>0. /\ j \in E /\ j \notin F /\ j <= i
      /\ \A k \in E : k <= i /\ k \notin F => j <= k
  BY DEF FirstTaken
<1>1. /\ i \in Nat /\ j \in Nat /\ i # j /\ i \in E
      /\ \A k \in E : k \in Nat
  BY <1>0
<1>2. /\ \A k \in E : k <= j <=> k < j \/ k = j
      /\ \A k \in E : k < j => k # i /\ k # j /\ k <= i /\ ~(j <= k)
      /\ i <= i
  BY <1>0, <1>1
<1>3. j \notin T /\ i \notin T /\ T \in SUBSET E
  BY <1>0, <1>2, Zenon
<1>4. Within(E, j) = T \cup {j}
  BY <1>0, <1>2, Zenon DEF Within
<1>5. \A k \in T : k \in F /\ k <= i
  BY <1>0, <1>2, Zenon
<1>6. T \cup {i} \in SUBSET Within(F, i)
  BY <1>2, <1>5, Zenon DEF Within
<1> QED
  BY <1>3, <1>4, <1>6

LEMMA UpToGrows ==
  ASSUME NEW E, E \subseteq Nat, NEW F \in SUBSET E, NEW i \in Nat
  PROVE  /\ Within(E, i) \in SUBSET E /\ Within(F, i) \in SUBSET E
         /\ \A j \in E : j <= i => Within(E, j) \in SUBSET Within(E, i)
         /\ (\A j \in E : j <= i => j \in F) => Within(F, i) = Within(E, i)
<1>1. \A j, k \in E : k <= j /\ j <= i => k <= i
  OBVIOUS
<1>2. \A j \in E : j <= i => Within(E, j) \in SUBSET Within(E, i)
  BY <1>1, Zenon DEF Within
<1>3. Within(E, i) \in SUBSET E /\ Within(F, i) \in SUBSET E
  BY Zenon DEF Within
<1>4. (\A j \in E : j <= i => j \in F) => Within(F, i) = Within(E, i)
  BY Zenon DEF Within
<1> QED
  BY <1>2, <1>3, <1>4

LEMMA PlacesKept ==
  ASSUME NEW E, E \subseteq Nat, IsFiniteSet(E), NEW F \in SUBSET E,
         NEW n \in Nat, Stays(E, F, n), NEW i \in Nat, NEW m \in 0..n
  PROVE  i \in F /\ Place(F, i) = m <=> i \in E /\ Place(E, i) = m
<1>1. \A T \in SUBSET E : IsFiniteSet(T) /\ Cardinality(T) \in Nat
  BY FS_Subset, FS_CardinalityType
<1>2. \A T \in SUBSET E : \A U \in SUBSET T : Cardinality(U) <= Cardinality(T)
  BY <1>1, FS_Subset
<1>3. \A G, k : Place(G, k) = Cardinality(Within(G, k))
  BY DEF Place, Within
<1>4. /\ Within(E, i) \in SUBSET E /\ Within(F, i) \in SUBSET E
      /\ \A j \in E : j <= i => Within(E, j) \in SUBSET Within(E, i)
      /\ (\A j \in E : j <= i => j \in F) => Within(F, i) = Within(E, i)
  BY UpToGrows
<1>5. ASSUME i \in E, Place(E, i) = m PROVE i \in F /\ Place(F, i) = m
  <2>1. ASSUME NEW j \in E, j <= i PROVE j \in F
    <3>1. Cardinality(Within(E, j)) <= Cardinality(Within(E, i))
      BY <1>2, <1>4, <2>1
    <3>2. Cardinality(Within(E, j)) \in Nat
      BY <1>1, <1>4, <2>1
    <3>3. Place(E, j) <= n
      BY <1>3, <1>5, <3>1, <3>2
    <3> QED
      BY <3>3 DEF Stays
  <2>2. Within(F, i) = Within(E, i) /\ i <= i
    BY <1>4, <2>1
  <2> QED
    BY <1>3, <1>5, <2>1, <2>2
<1>6. ASSUME i \in F, Place(F, i) = m PROVE i \in E /\ Place(E, i) = m
  <2> DEFINE G == {j \in E : j <= i /\ j \notin F}
  <2>1. CASE G = {}
    <3>1. \A j \in E : j <= i => j \in F
      BY <2>1
    <3> QED
      BY <1>3, <1>4, <1>6, <3>1
  <2>2. CASE G # {}
    <3>1. PICK j \in G : \A k \in G : j <= k
      <4>1. G \subseteq Nat
        OBVIOUS
      <4> HIDE DEF G
      <4> QED
        BY <2>2, <4>1, NatMin
    <3>2. FirstTaken(E, F, i, j)
      BY <3>1 DEF FirstTaken
    <3>3. PICK T \in SUBSET E : /\ j \notin T /\ Within(E, j) = T \cup {j}
                               /\ i \notin T /\ T \cup {i} \in SUBSET Within(F, i)
      BY <1>6, <3>2, TakenBefore
    <3>4. /\ IsFiniteSet(T) /\ Cardinality(T) \in Nat
          /\ Cardinality(T \cup {i}) <= Cardinality(Within(F, i))
      BY <1>1, <1>2, <1>4, <3>3
    <3>5. /\ Cardinality(T \cup {j}) = Cardinality(T) + 1
          /\ Cardinality(T \cup {i}) = Cardinality(T) + 1
      BY <3>3, <3>4, FS_AddElement
    <3>6. Place(E, j) = Cardinality(T) + 1 /\ Cardinality(T) + 1 <= Place(F, i)
      BY <1>3, <3>3, <3>4, <3>5
    <3>7. ~(Place(E, j) <= n)
      BY <3>2 DEF Stays, FirstTaken
    <3> QED
      BY <1>6, <3>4, <3>6, <3>7
  <2> QED
    BY <2>1, <2>2
<1> QED
  BY <1>5, <1>6
-----------------------------------------------------------------------------
RankingOK == \A k \in DOMAIN Layers : DOMAIN ranking[k] \subseteq Nat /\ IsFiniteSet(DOMAIN ranking[k])

\* Spending a task outside the sets leaves them as they were.
LEMMA DrawsSettled ==
  ASSUME RankingOK, NEW U, NEW V, U \subseteq V,
         (Draw(U, 1, APer) \cup Draw(U, APer + 1, BPer)) \cap V = {}
  PROVE  Draw(V, 1, APer) = Draw(U, 1, APer) /\ Draw(V, APer + 1, BPer) = Draw(U, APer + 1, BPer)
<1> PICK a \in Nat, b \in Nat : a = APer /\ b = BPer
  BY TaskPoolAssumption
<1> PICK n \in Nat : n = a + b
  OBVIOUS
<1>1. ASSUME NEW k \in DOMAIN Layers
      PROVE  \A i, m \in Nat : m <= n =>
               (i \in Eligible(k, V) /\ Place(Eligible(k, V), i) = m
                  <=> i \in Eligible(k, U) /\ Place(Eligible(k, U), i) = m)
  <2> PICK E, F : E = Eligible(k, U) /\ F = Eligible(k, V)
    OBVIOUS
  <2>1. E \subseteq Nat /\ F \in SUBSET E
    BY DEF RankingOK, Eligible
  <2>2. IsFiniteSet(E)
    <3>1. E \in SUBSET DOMAIN ranking[k]
      BY DEF Eligible
    <3> QED
      BY <3>1, FS_Subset DEF RankingOK
  <2>3. Stays(E, F, n)
    <3> SUFFICES ASSUME NEW i \in E, Place(E, i) <= n PROVE i \in F
      BY DEF Stays
    <3>1. Place(E, i) \in Nat \ {0}
      <4> PICK T : T = {j \in E : j <= i}
        OBVIOUS
      <4>1. i \in T /\ T \in SUBSET E
        BY <2>1
      <4>2. IsFiniteSet(T) /\ Cardinality(T) \in Nat
        BY <2>2, <4>1, FS_Subset, FS_CardinalityType
      <4>3. Cardinality(T) # 0
        BY <4>1, <4>2, FS_EmptySet
      <4> QED
        BY <4>2, <4>3 DEF Place
    <3> PICK p \in Nat \ {0} : p = Place(E, i)
      BY <3>1
    <3>2. p \in 1..1 + a - 1 \/ p \in a + 1..(a + 1) + b - 1
      OBVIOUS
    <3>3. ranking[k][i] \in Draw(U, 1, APer) \cup Draw(U, APer + 1, BPer)
      BY <3>2 DEF Draw
    <3> QED
      BY <3>3 DEF Eligible
  <2>4. ASSUME NEW i \in Nat, NEW m \in Nat, m <= n
        PROVE  i \in F /\ Place(F, i) = m <=> i \in E /\ Place(E, i) = m
    <3>1. m \in 0..n
      BY <2>4
    <3> QED
      BY <2>1, <2>2, <2>3, <3>1, PlacesKept
  <2> QED
    BY <2>4
<1> DEFINE part(k, used, ranks) ==
             {ranking[k][i] : i \in {j \in Eligible(k, used) :
                Place(Eligible(k, used), j) \in ranks}}
<1>2. ASSUME NEW ranks \in SUBSET (0..n), NEW k \in DOMAIN Layers
      PROVE  part(k, V, ranks) = part(k, U, ranks)
  <2>1. \A i, m : i \in Eligible(k, V) /\ m \in ranks /\ Place(Eligible(k, V), i) = m
          <=> i \in Eligible(k, U) /\ m \in ranks /\ Place(Eligible(k, U), i) = m
    <3>1. \A m \in ranks : m \in Nat /\ m <= n
      OBVIOUS
    <3>2. \A used : Eligible(k, used) \subseteq Nat
      BY DEF RankingOK, Eligible
    <3> QED
      BY <1>1, <3>1, <3>2
  <2>2. {j \in Eligible(k, V) : Place(Eligible(k, V), j) \in ranks}
          = {j \in Eligible(k, U) : Place(Eligible(k, U), j) \in ranks}
    BY <2>1
  <2> QED
    BY <2>2
<1>3. \A used, first, size :
        Draw(used, first, size) = UNION {part(k, used, first..first + size - 1) : k \in DOMAIN Layers}
  BY DEF Draw
<1> PICK ra \in SUBSET (0..n), rb \in SUBSET (0..n) :
       ra = 1..1 + a - 1 /\ rb = a + 1..(a + 1) + b - 1
  OBVIOUS
<1> HIDE DEF part
<1>5. \A k \in DOMAIN Layers : part(k, V, ra) = part(k, U, ra) /\ part(k, V, rb) = part(k, U, rb)
  BY <1>2
<1>6. /\ {part(k, V, ra) : k \in DOMAIN Layers} = {part(k, U, ra) : k \in DOMAIN Layers}
      /\ {part(k, V, rb) : k \in DOMAIN Layers} = {part(k, U, rb) : k \in DOMAIN Layers}
  BY <1>5, Zenon
<1>7. \A used : /\ Draw(used, 1, a) = UNION {part(k, used, ra) : k \in DOMAIN Layers}
                /\ Draw(used, a + 1, b) = UNION {part(k, used, rb) : k \in DOMAIN Layers}
  BY <1>3
<1> QED
  BY <1>6, <1>7
-----------------------------------------------------------------------------
(* The strata of an ordered pool are disjoint.                              *)

LEMMA MinTwo ==
  ASSUME NEW a \in Int, NEW b \in Int
  PROVE  Min({a, b}) \in {a, b} /\ Min({a, b}) <= a /\ Min({a, b}) <= b
<1>1. \E x \in {a, b} : \A y \in {a, b} : x <= y
  OBVIOUS
<1>2. Min({a, b}) \in {a, b} /\ \A y \in {a, b} : Min({a, b}) <= y
  BY <1>1, Zenon DEF Min
<1> QED
  BY <1>2

\* Where a stratum of n tasks begins and ends.
First(n, k) == (k - 1) * (n \div Strata) + Min({k - 1, n % Strata})
Size(n, k) == (n \div Strata) + (IF k <= n % Strata THEN 1 ELSE 0)

LEMMA StrataApart ==
  ASSUME NEW n \in Nat
  PROVE  /\ \A k \in 1..Strata : /\ First(n, k) \in Nat /\ Size(n, k) \in Nat
                                 /\ First(n, k) + Size(n, k) <= n
         /\ \A j, k \in 1..Strata : j < k => First(n, j) + Size(n, j) <= First(n, k)
<1> PICK s \in Nat \ {0} : s = Strata
  BY TaskPoolAssumption
<1>2. \A d \in Nat : \A k \in 1..s : (k - 1) * d \in Nat /\ (k - 1) * d + d = k * d
  <2> TAKE d \in Nat
  <2> TAKE k \in 1..s
  <2> PICK c \in Nat : c = k - 1 /\ k = c + 1
    OBVIOUS
  <2>1. (c + 1) * d = c * d + d /\ c * d \in Nat
    BY Distributes
  <2> QED
    BY <2>1
<1>3. \A d \in Nat : \A a, b \in Nat : a <= b => a * d <= b * d
  <2> TAKE d \in Nat
  <2> TAKE a \in Nat, b \in Nat
  <2> HAVE a <= b
  <2> PICK c \in Nat : b = a + c
    OBVIOUS
  <2>1. (a + c) * d = a * d + c * d /\ c * d \in Nat /\ a * d \in Nat
    BY Distributes
  <2> QED
    BY <2>1
<1> PICK d \in Nat, e \in 0..s - 1 : d = n \div s /\ e = n % s /\ n = s * d + e
  BY DivMod
<1>0. \A k \in 1..s : /\ k - 1 \in Nat
                      /\ Min({k - 1, e}) \in Nat /\ Min({k - 1, e}) <= k - 1
                      /\ Min({k - 1, e}) <= e /\ Min({k - 1, e}) \in {k - 1, e}
  <2> TAKE k \in 1..s
  <2> PICK c \in Nat : c = k - 1
    OBVIOUS
  <2>1. Min({c, e}) \in {c, e} /\ Min({c, e}) <= c /\ Min({c, e}) <= e
    BY MinTwo, c \in Int, e \in Int
  <2> QED
    BY <2>1
<1>1. \A k \in 1..s : /\ First(n, k) = (k - 1) * d + Min({k - 1, e})
                      /\ Size(n, k) = d + (IF k <= e THEN 1 ELSE 0)
  BY DEF First, Size
<1>5. ASSUME NEW k \in 1..s
      PROVE  /\ First(n, k) \in Nat /\ Size(n, k) \in Nat
             /\ First(n, k) + Size(n, k) <= n
  <2> PICK m \in Nat : m = Min({k - 1, e}) /\ m <= e /\ m <= k - 1 /\ m \in {k - 1, e}
    BY <1>0
  <2> PICK x \in Nat, y \in Nat, z \in Nat : x = (k - 1) * d /\ y = k * d /\ z = s * d
    OBVIOUS
  <2>1. First(n, k) = x + m /\ Size(n, k) = d + (IF k <= e THEN 1 ELSE 0)
    BY <1>1
  <2>2. x + d = y /\ y <= z /\ n = z + e
    BY <1>2, <1>3
  <2> QED
    BY <2>1, <2>2
<1>6. ASSUME NEW j \in 1..s, NEW k \in 1..s, j < k
      PROVE  First(n, j) + Size(n, j) <= First(n, k)
  <2> PICK m \in Nat : m = Min({k - 1, e}) /\ m \in {k - 1, e} /\ m <= k - 1 /\ m <= e
    BY <1>0
  <2> PICK l \in Nat : l = Min({j - 1, e}) /\ l \in {j - 1, e} /\ l <= j - 1 /\ l <= e
    BY <1>0
  <2> PICK x \in Nat, y \in Nat, z \in Nat : x = (j - 1) * d /\ y = j * d /\ z = (k - 1) * d
    OBVIOUS
  <2>1. First(n, j) = x + l /\ Size(n, j) = d + (IF j <= e THEN 1 ELSE 0) /\ First(n, k) = z + m
    BY <1>1
  <2>2. x + d = y
    BY <1>2
  <2>3. j <= k - 1
    BY <1>6
  <2>4. y <= z
    BY <1>3, <2>3, j \in Nat, k - 1 \in Nat
  <2> QED
    BY <2>1, <2>2, <2>3, <2>4
<1> QED
  BY <1>5, <1>6

LEMMA ByDifficultyOrders ==
  ASSUME NEW S, IsFiniteSet(S), S \subseteq FrozenPool
  PROVE  \E R : IsOrder(R, S) /\ ByDifficulty(S) = OrderOf(R, S)
<1> DEFINE R == {p \in S \X S : Before(p[1], p[2])}
<1>1. IsOrder(R, S)
  <2>1. \A a \in S : a \in Nat /\ Difficulty[a] \in Nat
    BY TaskPoolAssumption
  <2>2. /\ \A a \in S : ~Before(a, a)
        /\ \A a, b, c \in S : Before(a, b) /\ Before(b, c) => Before(a, c)
        /\ \A a, b \in S : a # b => Before(a, b) \/ Before(b, a)
    BY <2>1 DEF Before
  <2>3. \A a, b \in S : <<a, b>> \in R <=> Before(a, b)
    OBVIOUS
  <2> QED
    BY <2>2, <2>3 DEF IsOrder
<1>2. ByDifficulty(S) = OrderOf(R, S)
  <2>1. \A x \in S : {u \in S : <<u, x>> \in R} = {u \in S : Before(u, x)}
    OBVIOUS
  <2>2. \A x \in S : RankIn(R, S, x) = Cardinality({u \in S : Before(u, x)})
    BY <2>1 DEF RankIn
  <2> HIDE DEF R
  <2> DEFINE at(i) == CHOOSE x \in S : RankIn(R, S, x) = i - 1
             by(i) == CHOOSE t \in S : Cardinality({u \in S : Before(u, t)}) = i - 1
  <2>3. \A i : at(i) = by(i)
    BY <2>2
  <2>4. /\ OrderOf(R, S) = [i \in 1..Cardinality(S) |-> at(i)]
        /\ ByDifficulty(S) = [i \in 1..Cardinality(S) |-> by(i)]
    BY DEF OrderOf, ByDifficulty
  <2> HIDE DEF at, by
  <2> QED
    BY <2>3, <2>4
<1> QED
  BY <1>1, <1>2

\* numpy splits the ordered pool into parts without a task in common.
LEMMA StrataDisjoint ==
  ASSUME NEW S, IsFiniteSet(S), S \subseteq FrozenPool
  PROVE  /\ \A k \in 1..Strata : Range(Stratum(ByDifficulty(S), k)) \subseteq S
         /\ \A j, k \in 1..Strata : j # k =>
              Range(Stratum(ByDifficulty(S), j)) \cap Range(Stratum(ByDifficulty(S), k)) = {}
<1> PICK n \in Nat : n = Cardinality(S)
  BY FS_CardinalityType
<1> PICK R : IsOrder(R, S) /\ ByDifficulty(S) = OrderOf(R, S)
  BY ByDifficultyOrders
<1> PICK q : q = ByDifficulty(S)
  OBVIOUS
<1>3. /\ q \in [1..n -> S]
      /\ \A i, j \in 1..n : q[i] = q[j] => i = j
  BY InItsOrder
<1>4. q \in Seq(S) /\ Len(q) = n
  BY <1>3
<1>5. /\ \A k \in 1..Strata : /\ First(n, k) \in Nat /\ Size(n, k) \in Nat
                              /\ First(n, k) + Size(n, k) <= n
      /\ \A j, k \in 1..Strata : j < k => First(n, j) + Size(n, j) <= First(n, k)
  BY <1>3, StrataApart
<1>6. ASSUME NEW k \in 1..Strata
      PROVE  \A x \in Range(Stratum(q, k)) : \E i \in 1..n :
               x = q[i] /\ First(n, k) < i /\ i <= First(n, k) + Size(n, k)
  <2> PICK f \in Nat, z \in Nat : f = First(n, k) /\ z = Size(n, k) /\ f + z <= n
    BY <1>5
  <2>1. Stratum(q, k) = SubSeq(q, f + 1, f + z)
    BY <1>4 DEF Stratum, First, Size
  <2> PICK a \in Int, b \in Int : a = f + 1 /\ b = f + z
    OBVIOUS
  <2>2. \A i \in a..b : q[i] \in S
    BY <1>3
  <2>3. /\ SubSeq(q, a, b) \in Seq(S)
        /\ Len(SubSeq(q, a, b)) = IF a <= b THEN b - a + 1 ELSE 0
        /\ \A i \in 1..b - a + 1 : SubSeq(q, a, b)[i] = q[a + i - 1]
    BY <2>2, SubSeqProperties
  <2>4. DOMAIN SubSeq(q, a, b) = 1..z
    BY <2>3
  <2>5. ASSUME NEW i \in 1..z PROVE SubSeq(q, a, b)[i] = q[f + i] /\ f + i \in 1..n
    <3>1. a + i - 1 = f + i /\ i \in 1..b - a + 1 /\ f + i \in 1..n
      OBVIOUS
    <3> QED
      BY <2>3, <3>1
  <2>6. \A i \in 1..z : f < f + i /\ f + i <= f + z
    OBVIOUS
  <2>7. \A x \in Range(Stratum(q, k)) : \E i \in 1..z : x = SubSeq(q, a, b)[i]
    BY <2>1, <2>4, Zenon DEF Range
  <2>8. ASSUME NEW x \in Range(Stratum(q, k))
        PROVE  \E i \in 1..n : x = q[i] /\ f < i /\ i <= f + z
    <3>1. PICK i \in 1..z : x = SubSeq(q, a, b)[i]
      BY <2>7
    <3> WITNESS f + i \in 1..n
    <3> QED
      BY <2>5, <2>6, <3>1
  <2> QED
    BY <2>8
<1>7. \A k \in 1..Strata : Range(Stratum(q, k)) \subseteq S
  BY <1>3, <1>6
<1>8. ASSUME NEW j \in 1..Strata, NEW k \in 1..Strata, j < k
      PROVE  Range(Stratum(q, j)) \cap Range(Stratum(q, k)) = {}
  <2> SUFFICES ASSUME NEW x, x \in Range(Stratum(q, j)), x \in Range(Stratum(q, k)) PROVE FALSE
    OBVIOUS
  <2>1. PICK i \in 1..n : x = q[i] /\ i <= First(n, j) + Size(n, j)
    BY <1>6
  <2>2. PICK l \in 1..n : x = q[l] /\ First(n, k) < l
    BY <1>6
  <2>3. i = l
    BY <1>3, <2>1, <2>2
  <2>4. First(n, j) \in Nat /\ Size(n, j) \in Nat /\ First(n, k) \in Nat
        /\ First(n, j) + Size(n, j) <= First(n, k)
    BY <1>5, <1>8
  <2> QED
    BY <2>1, <2>2, <2>3, <2>4
<1>9. \A j, k \in 1..Strata : j # k => j < k \/ k < j
  BY TaskPoolAssumption
<1> QED
  BY <1>7, <1>8, <1>9

\* A round's formal set takes FormalPer tasks of every stratum, its pilot
\* PilotPer of those.
LEMMA RoundCounts ==
  ASSUME BuildRound
  PROVE  /\ Cardinality(formal') = Strata * FormalPer
         /\ pilot' \subseteq formal' /\ Cardinality(pilot') = Strata * PilotPer
<1> PICK n \in Nat \ {0}, p \in Nat, r \in Nat : n = Strata /\ p = FormalPer /\ r = PilotPer
  BY TaskPoolAssumption
<1> PICK S : S = FrozenPool \ SpentFirst
  OBVIOUS
<1> DEFINE C(k) == Range(Stratum(ByDifficulty(S), k))
<1>1. S \subseteq FrozenPool /\ IsFiniteSet(S)
  BY TaskPoolAssumption, FS_Subset
<1>2. /\ \A k \in 1..n : C(k) \subseteq S
      /\ \A j, k \in 1..n : j # k => C(j) \cap C(k) = {}
  BY <1>1, StrataDisjoint
<1>3. PICK pick : /\ \A k \in 1..n : pick[k] \in Samples(Stratum(ByDifficulty(S), k))
                  /\ formal' = UNION {pick[k][1] : k \in 1..n}
                  /\ pilot' = UNION {pick[k][2] : k \in 1..n}
  BY DEF BuildRound
<1>4. \A k \in 1..n : /\ pick[k][1] \subseteq C(k) /\ Cardinality(pick[k][1]) = p
                      /\ pick[k][2] \subseteq pick[k][1] /\ Cardinality(pick[k][2]) = r
  BY <1>3 DEF Samples, kSubset
<1> HIDE DEF C
<1>5. \A k \in 1..n : IsFiniteSet(pick[k][1]) /\ IsFiniteSet(pick[k][2])
  <2> TAKE k \in 1..n
  <2>1. pick[k][1] \subseteq S /\ pick[k][2] \subseteq S
    BY <1>2, <1>4
  <2> QED
    BY <1>1, <2>1, FS_Subset
<1>6. \A j, k \in 1..n : j # k => pick[j][1] \cap pick[k][1] = {} /\ pick[j][2] \cap pick[k][2] = {}
  BY <1>2, <1>4
<1> PICK f : \A k \in 1..n : f[k] = pick[k][1]
  <2> WITNESS [k \in 1..n |-> pick[k][1]]
  <2> QED
    OBVIOUS
<1> PICK g : \A k \in 1..n : g[k] = pick[k][2]
  <2> WITNESS [k \in 1..n |-> pick[k][2]]
  <2> QED
    OBVIOUS
<1>7. Cardinality(formal') = n * p
  <2>1. /\ \A k \in 1..n : IsFiniteSet(f[k]) /\ Cardinality(f[k]) = p
        /\ \A j, k \in 1..n : j # k => f[j] \cap f[k] = {}
    BY <1>4, <1>5, <1>6
  <2> PICK V : V = formal'
    OBVIOUS
  <2>2. \A x : x \in V <=> \E k \in 1..n : x \in f[k]
    BY <1>3
  <2>3. IsMadeOf(V, f, n, p)
    BY <2>1, <2>2 DEF IsMadeOf
  <2>4. Cardinality(V) = n * p
    BY <2>3, UnionSize
  <2> QED
    BY <2>4
<1>8. Cardinality(pilot') = n * r
  <2>1. /\ \A k \in 1..n : IsFiniteSet(g[k]) /\ Cardinality(g[k]) = r
        /\ \A j, k \in 1..n : j # k => g[j] \cap g[k] = {}
    BY <1>4, <1>5, <1>6
  <2> PICK V : V = pilot'
    OBVIOUS
  <2>2. \A x : x \in V <=> \E k \in 1..n : x \in g[k]
    BY <1>3
  <2>3. IsMadeOf(V, g, n, r)
    BY <2>1, <2>2 DEF IsMadeOf
  <2>4. Cardinality(V) = n * r
    BY <2>3, UnionSize
  <2> QED
    BY <2>4
<1>9. pilot' \subseteq formal'
  BY <1>3, <1>4
<1> QED
  BY <1>7, <1>8, <1>9
-----------------------------------------------------------------------------
\* The round runs on the sets it has, and what the study drew before is then
\* spent on the round only if it is in its files.
RoundKnown ==
  /\ roundRan => formal # {}
  /\ roundFirst => roundRan

\* The study's sets are the draw from what was not spent at the time.
StudyDrawn ==
  aPool # {} => \E U \in SUBSET Used : /\ aPool = Draw(U, 1, APer)
                                       /\ bPool = Draw(U, APer + 1, BPer)

TaskPoolInv == RankingOK /\ RoundKnown /\ StudyDrawn /\ StudyIsFresh

LEMMA TaskPoolStarts == taskPoolInit => TaskPoolInv
<1> SUFFICES ASSUME taskPoolInit PROVE TaskPoolInv
  OBVIOUS
<1>1. RankingOK
  <2> SUFFICES ASSUME NEW k \in DOMAIN Layers
               PROVE  DOMAIN ranking[k] \subseteq Nat /\ IsFiniteSet(DOMAIN ranking[k])
    BY DEF RankingOK
  <2>1. PICK l \in DOMAIN Layers : ranking[k] \in SetToSeqs(LayerTasks(l))
    BY DEF taskPoolInit
  <2>2. IsFiniteSet(LayerTasks(l))
    <3>1. LayerTasks(l) \subseteq FrozenPool
      BY DEF LayerTasks
    <3> QED
      BY <3>1, TaskPoolAssumption, FS_Subset
  <2> PICK n \in Nat : n = Cardinality(LayerTasks(l))
    BY <2>2, FS_CardinalityType
  <2>3. DOMAIN ranking[k] = 1..n
    BY <2>1 DEF SetToSeqs
  <2> QED
    BY <2>3, UpToFinite
<1>2. Cardinality(formal) = 0 /\ Cardinality(pilot) = 0
  BY FS_EmptySet DEF taskPoolInit
<1>3. RoundKnown /\ StudyDrawn
  BY DEF taskPoolInit, RoundKnown, StudyDrawn
<1>4. StudyIsFresh
  BY <1>2 DEF taskPoolInit, StudyIsFresh
<1> QED
  BY <1>1, <1>3, <1>4 DEF TaskPoolInv

\* What is spent stays spent.
LEMMA SpentStays ==
  ASSUME RoundKnown, taskPoolNext
  PROVE  Used \subseteq Used'
<1>1. CASE BuildRound
  <2>1. ~roundRan /\ ~roundRan'
    BY <1>1 DEF BuildRound, RoundKnown
  <2> QED
    BY <1>1, <2>1 DEF BuildRound, Used
<1>2. CASE RunRound
  BY <1>2 DEF RunRound, Used
<1>3. CASE Preflight
  BY <1>3 DEF Preflight, Used
<1>4. CASE BuildStudy
  BY <1>4 DEF BuildStudy, Used
<1> QED
  BY <1>1, <1>2, <1>3, <1>4 DEF taskPoolNext

LEMMA DrawStays ==
  ASSUME ranking' = ranking, numeric' = numeric, NEW U, NEW a, NEW b
  PROVE  Draw(U, a, b)' = Draw(U, a, b)
BY DEF Draw, Eligible

LEMMA DrawnStays ==
  ASSUME ranking' = ranking, numeric' = numeric, aPool' = aPool, bPool' = bPool,
         Used \subseteq Used', StudyDrawn
  PROVE  StudyDrawn'
<1> SUFFICES ASSUME aPool' # {}
             PROVE  \E U \in SUBSET Used' : /\ aPool' = Draw(U, 1, APer)'
                                           /\ bPool' = Draw(U, APer + 1, BPer)'
  BY DEF StudyDrawn
<1>1. PICK U \in SUBSET Used : aPool = Draw(U, 1, APer) /\ bPool = Draw(U, APer + 1, BPer)
  BY DEF StudyDrawn
<1>2. U \in SUBSET Used'
  OBVIOUS
<1>3. Draw(U, 1, APer)' = Draw(U, 1, APer) /\ Draw(U, APer + 1, BPer)' = Draw(U, APer + 1, BPer)
  BY DrawStays
<1> QED
  BY <1>1, <1>2, <1>3

LEMMA TaskPoolStays == TaskPoolInv /\ [taskPoolNext]_taskPoolVars => TaskPoolInv'
<1> SUFFICES ASSUME TaskPoolInv, [taskPoolNext]_taskPoolVars PROVE TaskPoolInv'
  OBVIOUS
<1> USE DEF TaskPoolInv
<1>0. CASE UNCHANGED taskPoolVars
  <2>1. RankingOK' /\ RoundKnown' /\ StudyIsFresh'
    BY <1>0 DEF taskPoolVars, RankingOK, RoundKnown, StudyIsFresh
  <2>2. StudyDrawn'
    <3>1. /\ ranking' = ranking /\ numeric' = numeric /\ aPool' = aPool /\ bPool' = bPool
          /\ Used' = Used
      BY <1>0 DEF taskPoolVars, Used
    <3> QED
      BY <3>1, DrawnStays
  <2> QED
    BY <2>1, <2>2
<1>9. CASE taskPoolNext
  <2>1. ranking' = ranking /\ numeric' = numeric
    BY <1>9 DEF taskPoolNext, BuildRound, RunRound, Preflight, BuildStudy
  <2>2. RankingOK'
    BY <2>1 DEF RankingOK
  <2>3. RoundKnown'
    BY <1>9 DEF taskPoolNext, BuildRound, RunRound, Preflight, BuildStudy, RoundKnown
  <2>4. StudyDrawn'
    <3>1. Used \subseteq Used'
      BY <1>9, SpentStays
    <3>2. CASE BuildStudy
      <4>1. Used' = Used
        BY <3>2 DEF BuildStudy, Used
      <4>2. aPool' = Draw(Used, 1, APer)' /\ bPool' = Draw(Used, APer + 1, BPer)'
        BY <2>1, <3>2, <4>1 DEF BuildStudy, Draw, Eligible
      <4> QED
        BY <4>1, <4>2 DEF StudyDrawn
    <3>3. CASE aPool' = aPool /\ bPool' = bPool
      BY <2>1, <3>1, <3>3, DrawnStays
    <3> QED
      BY <1>9, <3>2, <3>3 DEF taskPoolNext, BuildRound, RunRound, Preflight
  <2>5. StudyIsFresh'
    <3>1. CASE BuildRound
      <4>1. /\ Cardinality(formal') = Strata * FormalPer
            /\ pilot' \subseteq formal' /\ Cardinality(pilot') = Strata * PilotPer
        BY <3>1, RoundCounts
      <4>2. ~roundFirst'
        BY <3>1 DEF BuildRound, RoundKnown
      <4>3. aPool' \cap bPool' = {}
        BY <3>1 DEF BuildRound, StudyIsFresh
      <4> QED
        BY <4>1, <4>2, <4>3 DEF StudyIsFresh
    <3>2. CASE RunRound
      BY <3>2 DEF RunRound, StudyIsFresh
    <3>3. CASE Preflight
      BY <3>3 DEF Preflight, StudyIsFresh
    <3>4. CASE BuildStudy
      <4>1. roundFirst' => (aPool' \cup bPool') \cap formal = {}
        BY <3>4 DEF BuildStudy, RoundKnown, Used
      <4>2. aPool' \cap bPool' = {} /\ formal' = formal /\ pilot' = pilot
        BY <3>4 DEF BuildStudy
      <4> QED
        BY <4>1, <4>2 DEF StudyIsFresh
    <3> QED
      BY <1>9, <3>1, <3>2, <3>3, <3>4 DEF taskPoolNext
  <2> QED
    BY <2>2, <2>3, <2>4, <2>5
<1> QED
  BY <1>0, <1>9

LEMMA TaskPoolAlways == taskPoolSpec => []TaskPoolInv
<1> QED
  BY TaskPoolStarts, TaskPoolStays, PTL DEF taskPoolSpec

\* A round that ran before the study was drawn shares no task with it; the
\* round's sets have their sizes and the pilot is a part of the formal set.
THEOREM FreshCorrect == taskPoolSpec => []StudyIsFresh
<1>1. TaskPoolInv => StudyIsFresh
  BY DEF TaskPoolInv
<1> QED
  BY <1>1, TaskPoolAlways, PTL

\* Built again, the study's sets are the same unless one of their tasks has
\* been spent.
THEOREM SettledCorrect == taskPoolSpec => StudySetsSettled
<1>1. ASSUME TaskPoolInv, [taskPoolNext]_taskPoolVars
      PROVE  [aPool # {} /\ <<aPool, bPool>> # <<aPool', bPool'>>
                => (aPool \cup bPool) \cap Used # {}]_taskPoolVars
  <2> SUFFICES ASSUME taskPoolNext, aPool # {}, <<aPool, bPool>> # <<aPool', bPool'>>,
                      (aPool \cup bPool) \cap Used = {}
               PROVE  FALSE
    BY <1>1
  <2>1. BuildStudy
    BY DEF taskPoolNext, BuildRound, RunRound, Preflight
  <2>2. PICK U \in SUBSET Used : aPool = Draw(U, 1, APer) /\ bPool = Draw(U, APer + 1, BPer)
    BY <1>1 DEF TaskPoolInv, StudyDrawn
  <2>3. RankingOK
    BY <1>1 DEF TaskPoolInv
  <2>4. /\ Draw(Used, 1, APer) = Draw(U, 1, APer)
        /\ Draw(Used, APer + 1, BPer) = Draw(U, APer + 1, BPer)
    BY <2>2, <2>3, DrawsSettled
  <2> QED
    BY <2>1, <2>2, <2>4 DEF BuildStudy
<1> QED
  BY <1>1, TaskPoolAlways, PTL DEF taskPoolSpec, StudySetsSettled
-----------------------------------------------------------------------------
(* The SFT runs: a finished adapter is never lost.                          *)

Adapter == [run : Nat, config : SftConfigs \cup {0}, complete : BOOLEAN]
Model == [run : Nat, weights : BOOLEAN, tokenizer : Nat]

\* The type invariant.
SftTypeOK ==
  /\ trainFile \in Nat /\ splitManifest \in Nat /\ freezes \in Nat
  /\ sftPin \in Nat /\ trainData \in Nat /\ trainings \in Nat
  /\ freezing \in {"idle", "manifest"}
  /\ sftPrepared \in BOOLEAN /\ everComplete \in BOOLEAN
  /\ adapterTmp \in Adapter /\ adapterDir \in Adapter
  /\ adapterOld \in Adapter /\ merged \in Model
  /\ training \in {"idle", "loading", "saving", "completing", "replacing",
                   "clearing", "trained", "merging", "merged"}
  /\ overrides \in SUBSET {"pin", "output_dir"}
  /\ trainConfig \in SftConfigs \cup {0}

\* Files of a freeze only get newer.  A run starts when the pinned freeze has
\* been written, so data it loads that is not the pinned one is newer, and
\* then no preparation can be in order any more; unless its pin is overridden.
FreezesGrow ==
  /\ trainFile = freezes /\ splitManifest <= trainFile
  /\ sftPrepared => trainFile = sftPin
  /\ At("loading") /\ "pin" \notin overrides => trainFile >= sftPin
  /\ At("saving") /\ "pin" \notin overrides =>
       sftPin <= trainData /\ trainData <= trainFile

\* What each step of the replacement may rely on: whatever has a place of its
\* own is whole, and the temporary directory is whole when the renames begin.
PlacesAreWhole ==
  /\ Exists(adapterDir) => adapterDir.complete
  /\ Exists(adapterOld) => adapterOld.complete
  /\ At("completing") => adapterTmp.run = trainings
  /\ At("replacing") => adapterTmp.complete /\ adapterTmp.run = trainings
  /\ training \in {"completing", "replacing", "clearing"} => ~Redirected
  /\ training \in {"clearing", "trained", "merging", "merged"} =>
       Redirected \/ (adapterDir.complete /\ adapterDir.run = trainings)
  /\ training \in {"merging", "merged"} =>
       adapterDir.complete /\ merged.run = adapterDir.run
  /\ everComplete => adapterDir.complete \/ adapterOld.complete

SftInv == SftTypeOK /\ FreezesGrow /\ PlacesAreWhole
-----------------------------------------------------------------------------
LEMMA NoAdapterType ==
  NoAdapter \in Adapter /\ ~NoAdapter.complete /\ NoModel \in Model
BY DEF NoAdapter, Adapter, NoModel, Model

LEMMA SftInitial == sftInit => SftInv
<1> SUFFICES ASSUME sftInit PROVE SftInv
  OBVIOUS
<1>1. SftTypeOK
  <2>1. sftPin \in Nat
    BY SftAssumption DEF sftInit
  <2> QED
    BY <2>1, NoAdapterType DEF sftInit, SftTypeOK
<1>2. FreezesGrow
  BY DEF sftInit, FreezesGrow, At
<1>3. PlacesAreWhole
  BY DEF sftInit, PlacesAreWhole, Exists, At
<1> QED
  BY <1>1, <1>2, <1>3 DEF SftInv

\* The freeze and the preparation leave the adapters alone.
LEMMA FreezeStep ==
  ASSUME SftInv, FreezeBegins \/ FreezeEnds \/ FreezeKilled \/ PrepareSft
  PROVE  SftInv'
<1> USE DEF SftInv
<1>1. UNCHANGED <<adapterVars, merged, processVars, everComplete, sftPin>>
  BY DEF FreezeBegins, FreezeEnds, FreezeKilled, PrepareSft
<1>2. PlacesAreWhole'
  BY <1>1 DEF PlacesAreWhole, Exists, At, Redirected, adapterVars, processVars
<1>3. SftTypeOK'
  <2>1. CASE FreezeBegins
    <3>1. trainFile' \in Nat /\ freezes' \in Nat
      BY <2>1 DEF FreezeBegins, SftTypeOK
    <3>2. freezing' = "manifest" /\ sftPrepared' = FALSE /\ splitManifest' = splitManifest
      BY <2>1 DEF FreezeBegins
    <3> QED
      BY <1>1, <3>1, <3>2 DEF SftTypeOK, adapterVars, processVars
  <2>2. CASE FreezeEnds
    BY <1>1, <2>2 DEF FreezeEnds, SftTypeOK, adapterVars, processVars
  <2>3. CASE FreezeKilled
    BY <1>1, <2>3 DEF FreezeKilled, SftTypeOK, adapterVars, processVars
  <2>4. CASE PrepareSft
    BY <1>1, <2>4 DEF PrepareSft, SftTypeOK, adapterVars, processVars
  <2> QED
    BY <2>1, <2>2, <2>3, <2>4
<1>4. FreezesGrow'
  <2> USE <1>1 DEF SftTypeOK, FreezesGrow, At, processVars
  <2>1. CASE FreezeBegins
    BY <2>1 DEF FreezeBegins
  <2>2. CASE FreezeEnds
    BY <2>2 DEF FreezeEnds
  <2>3. CASE FreezeKilled
    BY <2>3 DEF FreezeKilled
  <2>4. CASE PrepareSft
    BY <2>4 DEF PrepareSft, SftDataChecked
  <2> QED
    BY <2>1, <2>2, <2>3, <2>4
<1> QED
  BY <1>2, <1>3, <1>4

\* Up to the renames: the data a run trains on, and the directory it fills.
LEMMA TrainingStep ==
  ASSUME SftInv,
         \/ \E c \in SftConfigs, given \in SUBSET {"pin", "output_dir"} :
              StartTraining(c, given)
         \/ Train \/ SaveElsewhere \/ SaveBegins \/ SaveEnds
  PROVE  SftInv'
<1> USE DEF SftInv, SftTypeOK
<1>1. CASE \E c \in SftConfigs, given \in SUBSET {"pin", "output_dir"} :
             StartTraining(c, given)
  <2>1. PICK c \in SftConfigs, given \in SUBSET {"pin", "output_dir"} :
          StartTraining(c, given)
    BY <1>1
  <2>2. SftTypeOK'
    BY <2>1 DEF StartTraining, dataVars, adapterVars
  <2>3. FreezesGrow'
    BY <2>1 DEF StartTraining, FreezesGrow, At, dataVars
  <2>4. PlacesAreWhole'
    BY <2>1 DEF StartTraining, PlacesAreWhole, Exists, At, adapterVars
  <2> QED
    BY <2>2, <2>3, <2>4
<1>2. CASE Train
  <2>1. SftTypeOK'
    BY <1>2 DEF Train, Goes, dataVars, adapterVars
  <2>2. FreezesGrow'
    BY <1>2 DEF Train, Goes, FreezesGrow, At, dataVars
  <2>3. PlacesAreWhole'
    BY <1>2 DEF Train, Goes, PlacesAreWhole, Exists, At, adapterVars
  <2> QED
    BY <2>1, <2>2, <2>3
<1>5. CASE SaveElsewhere
  <2>1. SftTypeOK'
    BY <1>5 DEF SaveElsewhere, Goes, dataVars, adapterVars
  <2>2. FreezesGrow'
    BY <1>5 DEF SaveElsewhere, Goes, FreezesGrow, At, dataVars
  <2>3. PlacesAreWhole'
    BY <1>5 DEF SaveElsewhere, Goes, PlacesAreWhole, Exists, At, Redirected, adapterVars
  <2> QED
    BY <2>1, <2>2, <2>3
<1>3. CASE SaveBegins
  <2>1. SftTypeOK'
    BY <1>3 DEF SaveBegins, Goes, dataVars, Adapter
  <2>2. FreezesGrow'
    BY <1>3 DEF SaveBegins, Goes, FreezesGrow, At, dataVars
  <2>3. PlacesAreWhole'
    BY <1>3 DEF SaveBegins, Goes, PlacesAreWhole, Exists, At, Redirected
  <2> QED
    BY <2>1, <2>2, <2>3
<1>4. CASE SaveEnds
  <2>1. SftTypeOK'
    BY <1>4 DEF SaveEnds, Goes, dataVars, Adapter
  <2>2. FreezesGrow'
    BY <1>4 DEF SaveEnds, Goes, FreezesGrow, At, dataVars
  <2>3. PlacesAreWhole'
    BY <1>4 DEF SaveEnds, Goes, PlacesAreWhole, Exists, At, Adapter, Redirected
  <2> QED
    BY <2>1, <2>2, <2>3
<1> QED
  BY <1>1, <1>2, <1>3, <1>4, <1>5

\* The renames, the merge and the end of the process.
LEMMA ReplacementStep ==
  ASSUME SftInv,
         \/ ClearOld \/ MoveAside \/ PutInPlace \/ ClearBackup
         \/ MergeBegins \/ MergeWeights \/ MergeTokenizer \/ TrainingEnds
  PROVE  SftInv'
<1> USE DEF SftInv
<1>1. SftTypeOK'
  <2> USE NoAdapterType DEF SftTypeOK, Goes, dataVars, adapterVars, processVars
  <2>1. CASE ClearOld
    BY <2>1 DEF ClearOld
  <2>2. CASE MoveAside
    BY <2>2 DEF MoveAside
  <2>3. CASE PutInPlace
    BY <2>3 DEF PutInPlace
  <2>4. CASE ClearBackup
    BY <2>4 DEF ClearBackup
  <2>5. CASE MergeBegins
    BY <2>5 DEF MergeBegins, Adapter, Model
  <2>6. CASE MergeWeights
    BY <2>6 DEF MergeWeights, Model
  <2>7. CASE MergeTokenizer
    BY <2>7 DEF MergeTokenizer, Model
  <2>8. CASE TrainingEnds
    BY <2>8 DEF TrainingEnds
  <2> QED
    BY <2>1, <2>2, <2>3, <2>4, <2>5, <2>6, <2>7, <2>8
<1>2. FreezesGrow'
  <2>1. UNCHANGED <<trainFile, freezes, splitManifest, sftPrepared, sftPin>>
    BY DEF ClearOld, MoveAside, PutInPlace, ClearBackup, MergeBegins, MergeWeights,
           MergeTokenizer, TrainingEnds, dataVars
  <2>2. ~At("loading")' /\ ~At("saving")'
    BY DEF ClearOld, MoveAside, PutInPlace, ClearBackup, MergeBegins, MergeWeights,
           MergeTokenizer, TrainingEnds, At, Goes, processVars
  <2> QED
    BY <2>1, <2>2 DEF FreezesGrow
<1>3. PlacesAreWhole'
  <2> USE NoAdapterType
      DEF PlacesAreWhole, Exists, At, Goes, Redirected, adapterVars, processVars
  <2>1. CASE ClearOld
    BY <2>1 DEF ClearOld, ClearsOld
  <2>2. CASE MoveAside
    BY <2>2 DEF MoveAside
  <2>3. CASE PutInPlace
    BY <2>3 DEF PutInPlace
  <2>4. CASE ClearBackup
    BY <2>4 DEF ClearBackup
  <2>5. CASE MergeBegins
    BY <2>5 DEF MergeBegins, Adapter, Model
  <2>6. CASE MergeWeights
    BY <2>6 DEF MergeWeights, Model
  <2>7. CASE MergeTokenizer
    BY <2>7 DEF MergeTokenizer, Model
  <2>8. CASE TrainingEnds
    BY <2>8 DEF TrainingEnds
  <2> QED
    BY <2>1, <2>2, <2>3, <2>4, <2>5, <2>6, <2>7, <2>8
<1> QED
  BY <1>1, <1>2, <1>3

LEMMA SftInductive == SftInv /\ [sftNext]_sftVars => SftInv'
<1> SUFFICES ASSUME SftInv, [sftNext]_sftVars PROVE SftInv'
  OBVIOUS
<1>1. CASE FreezeBegins \/ FreezeEnds \/ FreezeKilled \/ PrepareSft
  BY <1>1, FreezeStep
<1>2. CASE \/ \E c \in SftConfigs, given \in SUBSET {"pin", "output_dir"} :
                StartTraining(c, given)
           \/ Train \/ SaveElsewhere \/ SaveBegins \/ SaveEnds
  BY <1>2, TrainingStep
<1>3. CASE \/ ClearOld \/ MoveAside \/ PutInPlace \/ ClearBackup
           \/ MergeBegins \/ MergeWeights \/ MergeTokenizer \/ TrainingEnds
  BY <1>3, ReplacementStep
<1>4. CASE UNCHANGED sftVars
  BY <1>4 DEF SftInv, SftTypeOK, FreezesGrow, PlacesAreWhole, Exists, At, Redirected, sftVars,
              dataVars, adapterVars, processVars
<1> QED
  BY <1>1, <1>2, <1>3, <1>4 DEF sftNext

LEMMA SftInvImplies == SftInv => AdapterSurvives
BY DEF SftInv, SftTypeOK, FreezesGrow, PlacesAreWhole, AdapterSurvives, At, Redirected

\* However often the freeze, the preparation and the training are killed and
\* run again, a finished adapter is in one of its places, each place holds a
\* whole one, and a prepared run trains on the pinned data.
THEOREM AdapterCorrect == sftSpec => []AdapterSurvives
<1>1. sftInit => SftInv
  BY SftInitial
<1>2. SftInv /\ [sftNext]_sftVars => SftInv'
  BY SftInductive
<1>3. SftInv => AdapterSurvives
  BY SftInvImplies
<1> QED
  BY <1>1, <1>2, <1>3, PTL DEF sftSpec
-----------------------------------------------------------------------------
(* A batch of rollouts and its reward.                                      *)

\* An id is a task and a suffix.
IdsOf(b) == Range(b) \X (Nat \ {0})

\* As many ids as tasks, each its task's own and no two the same.
GivesIds(ids, b, k) ==
  /\ ids \in Seq(IdsOf(b)) /\ Len(ids) = k
  /\ \A i \in 1..k : ids[i][1] = b[i]
  /\ \A i, j \in 1..k : ids[i] = ids[j] => i = j

\* Of one suffix more than there are ids, one is free: the loop of reset ends.
LEMMA SuffixFree ==
  ASSUME NEW A, NEW ids \in Seq(A), NEW task
  PROVE  \E n \in 1..(Len(ids) + 1) :
           /\ <<task, n>> \notin Range(ids)
           /\ \A m \in 1..(n - 1) : <<task, m>> \in Range(ids)
<1> DEFINE L == Len(ids)
           D == 1..L
           M == 1..(L + 1)
           R == Range(ids)
           N == {n \in M : <<task, n>> \notin R}
           T == {<<task, n>> : n \in M}
<1>1. L \in Nat /\ L + 1 \in Nat /\ DOMAIN ids = D /\ ids \in [D -> R]
  BY DEF Range
<1>2. IsFiniteSet(D) /\ Cardinality(D) = L /\ IsFiniteSet(M) /\ Cardinality(M) = L + 1
  <2> HIDE DEF L
  <2>1. \A k \in Nat : IsFiniteSet(1..k) /\ Cardinality(1..k) = k
    BY UpToFinite
  <2> QED
    BY <1>1, <2>1
<1>3. IsFiniteSet(R) /\ Cardinality(R) <= L
  <2>1. ids \in Surjection(D, R)
    BY <1>1 DEF Surjection, Range
  <2> HIDE DEF D, R, L
  <2> QED
    BY <1>2, <2>1, FS_Surjection
<1>4. IsFiniteSet(T) /\ Cardinality(T) = L + 1
  <2> DEFINE f == [n \in M |-> <<task, n>>]
  <2>1. /\ f \in [M -> T]
        /\ \A i, j \in M : f[i] = f[j] => i = j
        /\ \A t \in T : \E i \in M : f[i] = t
    OBVIOUS
  <2> HIDE DEF f, T, M, L
  <2> QED
    BY <1>2, <2>1, ImageSize
<1>5. N # {}
  <2> SUFFICES ASSUME N = {} PROVE FALSE
    OBVIOUS
  <2>1. T \in SUBSET R
    OBVIOUS
  <2> HIDE DEF T, R, N, L
  <2>2. Cardinality(T) <= Cardinality(R)
    BY <1>3, <2>1, FS_Subset
  <2>3. Cardinality(R) \in Nat
    BY <1>3, FS_CardinalityType
  <2> QED
    BY <1>1, <1>3, <1>4, <2>2, <2>3
<1>6. N \subseteq Nat
  BY <1>1
<1> HIDE DEF N
<1>7. PICK n \in N : \A m \in N : n <= m
  BY <1>5, <1>6, NatMin
<1>8. \A m \in 1..(n - 1) : m \in M /\ ~(n <= m)
  BY <1>1, <1>7 DEF N
<1> QED
  BY <1>7, <1>8 DEF N

LEMMA IdAdded ==
  ASSUME NEW A, NEW ids \in Seq(A), NEW task
  PROVE  \E n \in Nat \ {0} : /\ NextId(ids, task) = Append(ids, <<task, n>>)
                              /\ <<task, n>> \notin Range(ids)
<1> DEFINE free(n) == <<task, n>> \notin Range(ids)
           suffix == CHOOSE n \in 1..(Len(ids) + 1) :
                       free(n) /\ \A m \in 1..(n - 1) : ~free(m)
<1>1. \E n \in 1..(Len(ids) + 1) : free(n) /\ \A m \in 1..(n - 1) : ~free(m)
  BY SuffixFree
<1>2. suffix \in 1..(Len(ids) + 1) /\ free(suffix)
  BY <1>1
<1>3. NextId(ids, task) = Append(ids, <<task, suffix>>)
  BY DEF NextId
<1> HIDE DEF suffix
<1>4. suffix \in Nat \ {0}
  BY <1>2
<1> QED
  BY <1>2, <1>3, <1>4

LEMMA IdsGrow ==
  ASSUME NEW A, NEW b \in Seq(A), NEW k \in 1..Len(b), NEW ids, GivesIds(ids, b, k - 1)
  PROVE  GivesIds(NextId(ids, b[k]), b, k)
<1>1. /\ ids \in Seq(IdsOf(b)) /\ Len(ids) = k - 1 /\ k \in Nat /\ k \in DOMAIN b
      /\ \A i \in 1..k - 1 : ids[i][1] = b[i]
      /\ \A i, j \in 1..k - 1 : ids[i] = ids[j] => i = j
  BY DEF GivesIds
<1>2. PICK n \in Nat \ {0} : /\ NextId(ids, b[k]) = Append(ids, <<b[k], n>>)
                             /\ <<b[k], n>> \notin Range(ids)
  BY <1>1, IdAdded
<1> DEFINE new == <<b[k], n>>
<1>3. new \in IdsOf(b) /\ new[1] = b[k]
  <2>1. b[k] \in Range(b)
    BY <1>1 DEF Range
  <2> QED
    BY <2>1 DEF IdsOf
<1>4. \A i \in 1..k - 1 : ids[i] \in Range(ids)
  BY <1>1 DEF Range
<1>5. NextId(ids, b[k]) = Append(ids, new) /\ new \notin Range(ids)
  BY <1>2
<1> HIDE DEF new
<1>6. /\ Append(ids, new) \in Seq(IdsOf(b)) /\ Len(Append(ids, new)) = k
      /\ \A i \in 1..k - 1 : Append(ids, new)[i] = ids[i]
      /\ Append(ids, new)[k] = new
  BY <1>1, <1>3
<1>7. \A i \in 1..k : i \in 1..k - 1 \/ i = k
  BY <1>1
<1> QED
  BY <1>1, <1>3, <1>4, <1>5, <1>6, <1>7 DEF GivesIds

LEMMA EnvIdsRun ==
  ASSUME NEW A, NEW b \in Seq(A)
  PROVE  \E r : /\ r[0] = << >>
                /\ \A k \in 1..Len(b) : r[k] = NextId(r[k - 1], b[k])
                /\ EnvIds(b) = r[Len(b)]
<1> DEFINE n == Len(b)
           D == 1..n
           S == Seq(IdsOf(b))
           step == [p \in D \X S |-> NextId(p[2], b[p[1]])]
           Body(g, s) == IF s = {} THEN << >> ELSE NextId(g[s \ {Max(s)}], b[Max(s)])
           Iter(i) == i = [s \in SUBSET D |-> Body(i, s)]
           iter == CHOOSE i : Iter(i)
           r == [k \in 0..n |-> iter[1..k]]
<1>1. n \in Nat /\ DOMAIN b = D
  OBVIOUS
<1>2. EnvIds(b) = iter[D]
  BY <1>1, Zenon DEF EnvIds, FoldLeft, MapThenFoldSet
<1>3. << >> \in S
  OBVIOUS
<1>4. step \in [D \X S -> S]
  <2>1. ASSUME NEW k \in D, NEW ids \in S PROVE NextId(ids, b[k]) \in S
    <3>1. PICK m \in Nat \ {0} : NextId(ids, b[k]) = Append(ids, <<b[k], m>>)
      BY IdAdded
    <3>2. b[k] \in Range(b)
      BY <1>1 DEF Range
    <3> QED
      BY <3>1, <3>2 DEF IdsOf
  <2> HIDE DEF S, D
  <2> QED
    BY <2>1
<1>5. \E g : Iter(g)
  <2>1. PICK g \in [SUBSET D -> S] : IsLeftFold(g, n, << >>, step)
    <3> HIDE DEF step, n, S
    <3> QED
      BY <1>1, <1>3, <1>4, LeftFoldExists
  <2>2. ASSUME NEW s \in SUBSET D
        PROVE  g[s] = Body(g, s)
    <3>1. s # {} => Max(s) \in D /\ s \ {Max(s)} \in SUBSET D
      BY <1>1, MaxIn
    <3> QED
      BY <2>1, <3>1 DEF IsLeftFold
  <2> HIDE DEF Body, step
  <2> QED
    BY <2>1, <2>2
<1>6. Iter(iter)
  <2> HIDE DEF Iter
  <2> QED
    BY <1>5
<1> HIDE DEF iter, step
<1>7. r[0] = << >>
  <2>1. 1..0 = {} /\ 1..0 \in SUBSET D
    OBVIOUS
  <2> QED
    BY <1>1, <1>6, <2>1
<1>8. ASSUME NEW k \in 1..n
      PROVE  r[k] = NextId(r[k - 1], b[k])
  <2>1. 1..k \in SUBSET D /\ 1..k # {} /\ k \in Nat \ {0} /\ k - 1 \in 0..n
    BY <1>1
  <2>2. Max(1..k) = k /\ (1..k) \ {Max(1..k)} = 1..k - 1
    BY <2>1, MaxUpTo
  <2>3. iter[1..k] = Body(iter, 1..k)
    BY <1>6, <2>1
  <2>4. iter[1..k] = NextId(iter[1..k - 1], b[k])
    BY <2>1, <2>2, <2>3
  <2>5. r[k] = iter[1..k] /\ r[k - 1] = iter[1..k - 1]
    BY <2>1
  <2> QED
    BY <2>4, <2>5
<1>9. EnvIds(b) = r[n]
  BY <1>1, <1>2
<1> HIDE DEF r
<1> QED
  BY <1>7, <1>8, <1>9

\* Each row of a batch gets an id of its task, and no two the same.
LEMMA EnvIdsGiven ==
  ASSUME NEW A, NEW b \in Seq(A)
  PROVE  GivesIds(EnvIds(b), b, Len(b))
<1>1. PICK r : /\ r[0] = << >>
               /\ \A k \in 1..Len(b) : r[k] = NextId(r[k - 1], b[k])
               /\ EnvIds(b) = r[Len(b)]
  BY EnvIdsRun
<1> DEFINE N == {k \in Nat : k <= Len(b) => GivesIds(r[k], b, k)}
<1>2. 0 \in N
  <2>1. << >> \in Seq(IdsOf(b)) /\ Len(<< >>) = 0 /\ 1..0 = {}
    OBVIOUS
  <2>2. GivesIds(<< >>, b, 0)
    BY <2>1 DEF GivesIds
  <2>3. GivesIds(r[0], b, 0)
    BY <1>1, <2>2
  <2> QED
    BY <2>3
<1>3. ASSUME NEW k \in Nat, k \in N PROVE k + 1 \in N
  <2> SUFFICES ASSUME k + 1 <= Len(b) PROVE GivesIds(r[k + 1], b, k + 1)
    OBVIOUS
  <2>1. k + 1 \in 1..Len(b) /\ (k + 1) - 1 = k
    OBVIOUS
  <2>2. GivesIds(r[(k + 1) - 1], b, (k + 1) - 1)
    BY <1>3, <2>1
  <2>3. r[k + 1] = NextId(r[(k + 1) - 1], b[k + 1])
    BY <1>1, <2>1
  <2> QED
    BY <2>1, <2>2, <2>3, IdsGrow
<1> HIDE DEF N
<1>4. Nat \subseteq N
  BY <1>2, <1>3, NatSet
<1>5. Len(b) \in Nat
  OBVIOUS
<1> QED
  BY <1>1, <1>4, <1>5 DEF N
-----------------------------------------------------------------------------
EnvRecord ==
  [steps : Nat, tool_calls : Nat, python_seconds : Nat, invalid_actions : Nat,
   successes : Nat, final : {None, "right", "wrong"},
   reason : {None, "final", "max_steps", "python_time_budget"}]
Wons == BOOLEAN \cup {None}
TransitionRecord == [reward : Int, done : BOOLEAN, won : Wons]
StepRecord == [active : BOOLEAN, done : BOOLEAN, reward : Int, won : Wons]

\* The records of a row with environment e: it is active up to the step that
\* ends it, and that one step is paid.
Ended(c) == \E k \in DOMAIN c : c[k].done
Told(c, e) ==
  /\ \A k, m \in DOMAIN c : k < m /\ c[k].done => c[m].done
  /\ \A k \in DOMAIN c : c[k].active <=> \A m \in 1..k - 1 : ~c[m].done
  /\ \A k \in DOMAIN c : c[k].active /\ c[k].done =>
       c[k].reward = Reward(e) /\ c[k].won = Correct(e)
  /\ \A k \in DOMAIN c : ~(c[k].active /\ c[k].done) => c[k].reward = 0
  /\ Ended(c) => Terminated(e)

\* Between the steps a row that has not terminated has taken each of them;
\* in a step, those whose coroutine returned are one ahead.
Between(e, n, c) ==
  /\ Terminated(e) <=> Ended(c)
  /\ ~Terminated(e) => e.steps = n
Returned(e, n, t, c) ==
  /\ t \in TransitionRecord /\ (t.done <=> Terminated(e))
  /\ Ended(c) => t.reward = 0
  /\ ~Ended(c) => t.reward = Pay(e) /\ t.won = Correct(e)
  /\ ~Terminated(e) => e.steps = n
RowFits(ph, n, e, at, t, c) ==
  /\ Told(c, e)
  /\ ~Terminated(e) => e.steps < MaxSteps
  /\ ph \in {"between", "finished"} => Between(e, n, c)
  /\ ph = "finished" => Terminated(e)
  /\ ph = "stepping" =>
       /\ at = "done" => Returned(e, n, t, c)
       /\ at # "done" => Between(e, n - 1, c)
       /\ at \in {"python", "sympy"} => ~Terminated(e)
RowOk(i) == RowFits(phase, step_index, env[i], rows[i], transitions[i], collected[i])

RowPlaces == {"ready", "done", "python", "sympy"}
RolloutType ==
  /\ batch \in Batches /\ offered = Len(batch) /\ environments = EnvIds(batch)
  /\ env \in [1..Len(batch) -> EnvRecord]
  /\ rows \in [1..Len(batch) -> RowPlaces]
  /\ terminal \in [1..Len(batch) -> Wons]
  /\ transitions \in [1..Len(batch) -> TransitionRecord \cup {None}]
  /\ collected \in [1..Len(batch) -> Seq(StepRecord)]
  /\ DOMAIN conversations = 1..Len(batch)
  /\ step_index \in 0..MaxSteps
  /\ phase \in {"between", "stepping", "finished", "raised"}

RolloutInv ==
  phase # "reset" =>
    /\ RolloutType
    /\ phase # "raised" => \A i \in 1..Len(batch) : RowOk(i)

LEMMA BatchRows ==
  ASSUME NEW b \in Batches
  PROVE  /\ b \in Seq(STRING) /\ Len(b) \in Nat \ {0} /\ DOMAIN b = 1..Len(b)
         /\ GivesIds(EnvIds(b), b, Len(b))
         /\ DOMAIN EnvIds(b) = 1..Len(b) /\ Len(EnvIds(b)) = Len(b)
<1>1. b \in Seq(STRING) /\ b # << >>
  BY RolloutAssumption
<1>2. GivesIds(EnvIds(b), b, Len(b))
  BY <1>1, EnvIdsGiven
<1>3. EnvIds(b) \in Seq(IdsOf(b)) /\ Len(EnvIds(b)) = Len(b)
  BY <1>2 DEF GivesIds
<1> HIDE DEF IdsOf
<1> QED
  BY <1>1, <1>2, <1>3

\* The rewards are whole numbers.
LEMMA UnitType == Unit \in Nat \ {0}
<1>1. AtLeastOne(MaxToolCalls) \in Nat \ {0} /\ AtLeastOne(MaxPythonSeconds) \in Nat \ {0}
  BY RolloutAssumption DEF AtLeastOne
<1> DEFINE a == AtLeastOne(MaxToolCalls)
           b == AtLeastOne(MaxPythonSeconds)
<1> HIDE DEF a, b
<1>2. a \in Nat \ {0} /\ b \in Nat \ {0} => a * b \in Nat \ {0}
  OBVIOUS
<1> QED
  BY <1>1, <1>2 DEF Unit, a, b

LEMMA CostType ==
  ASSUME NEW used \in Nat, NEW limit \in Nat, NEW weight \in Nat
  PROVE  Cost(used, limit, weight) \in Nat
<1>1. CASE limit = 0
  BY <1>1 DEF Cost
<1>2. CASE limit # 0
  <2>1. Unit \in Nat /\ limit \in Nat \ {0}
    BY <1>2, UnitType
  <2> PICK u : u = Unit \div limit
    OBVIOUS
  <2>2. u \in Nat
    BY <2>1, DivMod
  <2>3. weight * used * u \in Nat
    BY <2>2
  <2> QED
    BY <1>2, <2>3 DEF Cost
<1> QED
  BY <1>1, <1>2

LEMMA RewardType ==
  ASSUME NEW e \in EnvRecord
  PROVE  Reward(e) \in Int /\ Pay(e) \in Int
<1> DEFINE a == Cost(e.tool_calls, MaxToolCalls, Config.tool_weight)
           b == Cost(e.python_seconds, MaxPythonSeconds, Config.python_weight)
<1>1. /\ Config.tool_weight \in Nat /\ Config.python_weight \in Nat
      /\ Config.invalid_weight \in Nat /\ Config.invalid_cap \in Nat
      /\ Config.tool_success_bonus \in Nat
      /\ Config.clip_min \in Int /\ Config.clip_max \in Int
      /\ MaxToolCalls \in Nat /\ MaxPythonSeconds \in Nat
  BY RolloutAssumption
<1>2. e.tool_calls \in Nat /\ e.python_seconds \in Nat /\ e.invalid_actions \in Nat
  BY DEF EnvRecord
<1>3. a \in Nat /\ b \in Nat
  BY <1>1, <1>2, CostType
<1> HIDE DEF a, b
<1>4. Penalty(e) \in Int
  <2>1. Least(e.invalid_actions, Config.invalid_cap) \in Nat
    BY <1>1, <1>2 DEF Least
  <2> PICK k \in Nat : k = Least(e.invalid_actions, Config.invalid_cap)
    BY <2>1
  <2> QED
    BY <1>1, UnitType DEF Penalty
<1>5. SuccessBonus(e) \in Int
  BY <1>1, UnitType DEF SuccessBonus
<1>6. \A t \in Int : Clip(t) \in Int
  BY <1>1, UnitType DEF Clip, Least, Most
<1> DEFINE t == (IF Correct(e) THEN 100 * Unit - a - b ELSE 0) - Penalty(e) + SuccessBonus(e)
<1>7. t \in Int
  BY <1>3, <1>4, <1>5, UnitType
<1>8. Reward(e) = Clip(t)
  BY DEF Reward, a, b
<1> HIDE DEF t
<1> QED
  BY <1>6, <1>7, <1>8 DEF Pay

LEMMA RolloutInitial == rolloutInit => RolloutInv
BY DEF rolloutInit, RolloutInv

LEMMA ResetStep ==
  ASSUME NEW b \in Batches, Reset(b)
  PROVE  RolloutInv'
<1> PICK ids : ids = EnvIds(b)
  OBVIOUS
<1>1. /\ batch' = b /\ offered' = Len(b) /\ environments' = ids
      /\ env' = Each(ids, NewEnv) /\ conversations' = Each(ids, << >>)
      /\ terminal' = Each(ids, None) /\ rows' = Each(ids, "done")
      /\ transitions' = Each(ids, None) /\ collected' = Each(ids, << >>)
      /\ step_index' = 0 /\ phase' = "between"
  BY DEF Reset
<1>2. DOMAIN ids = 1..Len(b) /\ MaxSteps \in Nat \ {0}
  BY BatchRows, RolloutAssumption
<1>3. /\ NewEnv \in EnvRecord /\ NewEnv.reason = None /\ NewEnv.steps = 0
      /\ << >> \in Seq(StepRecord) /\ DOMAIN << >> = {}
  BY DEF NewEnv, EnvRecord
<1>4. RolloutType'
  BY <1>1, <1>2, <1>3 DEF RolloutType, Each, RowPlaces, Wons
<1>5. ASSUME NEW i \in 1..Len(b) PROVE RowOk(i)'
  <2>1. env'[i] = NewEnv /\ rows'[i] = "done" /\ collected'[i] = << >>
    BY <1>1, <1>2 DEF Each
  <2>2. Told(<< >>, NewEnv) /\ ~Ended(<< >>)
    BY <1>3 DEF Told, Ended
  <2>3. ~Terminated(NewEnv) /\ NewEnv.steps < MaxSteps
    BY <1>2, <1>3 DEF Terminated
  <2>4. RowFits("between", 0, NewEnv, "done", transitions'[i], << >>)
    BY <1>3, <2>2, <2>3 DEF RowFits, Between
  <2> QED
    BY <1>1, <2>1, <2>4 DEF RowOk
<1> QED
  BY <1>1, <1>4, <1>5 DEF RolloutInv

LEMMA StepBeginStep ==
  ASSUME RolloutInv, StepBegin
  PROVE  RolloutInv'
<1>1. /\ phase = "between" /\ step_index < MaxSteps
      /\ step_index' = step_index + 1 /\ phase' = "stepping"
      /\ rows' = Each(rows, "ready") /\ transitions' = Each(rows, None)
      /\ UNCHANGED <<batch, offered, environments, env, conversations, terminal, collected>>
  BY DEF StepBegin, setup
<1>2. RolloutType /\ \A i \in 1..Len(batch) : RowOk(i)
  BY <1>1 DEF RolloutInv
<1>3. step_index \in Nat /\ step_index + 1 \in 0..MaxSteps /\ (step_index + 1) - 1 = step_index
  BY <1>1, <1>2, RolloutAssumption DEF RolloutType
<1>4. /\ DOMAIN rows = 1..Len(batch)
      /\ \A i \in 1..Len(batch) : rows'[i] = "ready" /\ transitions'[i] = None
  BY <1>1, <1>2 DEF RolloutType, Each
<1>5. RolloutType'
  BY <1>1, <1>2, <1>3, <1>4 DEF RolloutType, RowPlaces, Each
<1>6. ASSUME NEW i \in 1..Len(batch) PROVE RowOk(i)'
  <2>1. RowFits("between", step_index, env[i], rows[i], transitions[i], collected[i])
    BY <1>1, <1>2 DEF RowOk
  <2>2. RowFits("stepping", step_index + 1, env[i], "ready", None, collected[i])
    BY <1>3, <2>1 DEF RowFits
  <2> QED
    BY <1>1, <1>4, <2>2 DEF RowOk
<1> QED
  BY <1>1, <1>5, <1>6 DEF RolloutInv

\* A row that terminated in an earlier step is paid nothing more.
LEMMA NoOpStep ==
  ASSUME RolloutInv, NEW i \in Rows, NoOp(i)
  PROVE  RolloutInv'
<1>t. PICK t : t = Transition(0, TRUE, terminal[i])
  OBVIOUS
<1>0. transitions' = [transitions EXCEPT ![i] = Transition(0, TRUE, terminal[i])]
  BY DEF NoOp
<1>9. transitions' = [transitions EXCEPT ![i] = t]
  BY <1>t, <1>0, Zenon
<1>1. /\ phase = "stepping" /\ rows[i] = "ready" /\ Terminated(env[i])
      /\ rows' = [rows EXCEPT ![i] = "done"]
      /\ UNCHANGED <<batch, offered, environments, env, conversations, terminal,
                     step_index, collected, phase>>
  BY DEF NoOp, Turn, setup
<1>2. RolloutType /\ \A j \in 1..Len(batch) : RowOk(j)
  BY <1>1 DEF RolloutInv
<1>3. i \in 1..Len(batch)
  BY <1>2, BatchRows DEF Rows, RolloutType
<1>4. t \in TransitionRecord /\ t.done /\ t.reward = 0
  <2>1. terminal[i] \in Wons
    BY <1>2, <1>3 DEF RolloutType
  <2> PICK w \in Wons : w = terminal[i]
    BY <2>1
  <2>2. t = [reward |-> 0, done |-> TRUE, won |-> w]
    BY <1>t DEF Transition
  <2> QED
    BY <2>2 DEF TransitionRecord
<1>5. /\ rows'[i] = "done" /\ transitions'[i] = t
      /\ \A j \in 1..Len(batch) : j # i => rows'[j] = rows[j] /\ transitions'[j] = transitions[j]
  BY <1>1, <1>2, <1>3, <1>9 DEF RolloutType
<1>6. RolloutType'
  BY <1>1, <1>2, <1>3, <1>4, <1>9 DEF RolloutType, RowPlaces
<1>7. ASSUME NEW j \in 1..Len(batch), j # i PROVE RowOk(j)'
  BY <1>1, <1>2, <1>5, <1>7 DEF RowOk
<1>8. RowOk(i)'
  <2>1. RowFits("stepping", step_index, env[i], "ready", transitions[i], collected[i])
    BY <1>1, <1>2, <1>3 DEF RowOk
  <2>2. Ended(collected[i])
    BY <1>1, <2>1 DEF RowFits, Between
  <2>3. RowFits("stepping", step_index, env[i], "done", t, collected[i])
    BY <1>1, <1>4, <2>1, <2>2 DEF RowFits, Returned
  <2> QED
    BY <1>1, <1>5, <2>3 DEF RowOk
<1> QED
  BY <1>1, <1>6, <1>7, <1>8 DEF RolloutInv

\* The end of a row's turn, with a state one step on.
LEMMA EndRowStep ==
  ASSUME RolloutInv, NEW i \in Rows, phase = "stepping", rows[i] # "done",
         ~Terminated(env[i]), NEW e \in EnvRecord, NEW said, EndRow(i, e, said),
         e.steps = env[i].steps + 1, ~Terminated(e) => e.steps < MaxSteps
  PROVE  RolloutInv'
<1>1. /\ env' = [env EXCEPT ![i] = e]
      /\ terminal' = [terminal EXCEPT ![i] = IF Terminated(e) THEN Correct(e) ELSE @]
      /\ transitions' = [transitions EXCEPT ![i] =
                           Transition(Pay(e), Terminated(e), Correct(e))]
      /\ rows' = [rows EXCEPT ![i] = "done"]
      /\ DOMAIN conversations' = DOMAIN conversations
      /\ UNCHANGED <<batch, offered, environments, step_index, collected, phase>>
  BY DEF EndRow, setup
<1>2. RolloutType /\ \A j \in 1..Len(batch) : RowOk(j)
  BY DEF RolloutInv
<1>3. i \in 1..Len(batch)
  BY <1>2, BatchRows DEF Rows, RolloutType
<1> PICK t : t = Transition(Pay(e), Terminated(e), Correct(e))
  OBVIOUS
<1>4. /\ t \in TransitionRecord /\ (t.done <=> Terminated(e)) /\ t.reward = Pay(e)
      /\ t.won = Correct(e)
  <2>1. Terminated(e) \in BOOLEAN /\ Correct(e) \in BOOLEAN /\ Pay(e) \in Int
    BY RewardType DEF Terminated, Correct
  <2> QED
    BY <2>1 DEF Transition, TransitionRecord, Wons
<1>5. /\ rows'[i] = "done" /\ transitions'[i] = t /\ env'[i] = e
      /\ \A j \in 1..Len(batch) : j # i =>
           rows'[j] = rows[j] /\ transitions'[j] = transitions[j] /\ env'[j] = env[j]
  BY <1>1, <1>2, <1>3 DEF RolloutType
<1>6. RolloutType'
  <2>1. Correct(e) \in Wons
    BY DEF Correct, Wons
  <2>2. terminal' \in [1..Len(batch) -> Wons]
    BY <1>1, <1>2, <1>3, <2>1 DEF RolloutType
  <2> QED
    BY <1>1, <1>2, <1>3, <1>4, <2>2 DEF RolloutType, RowPlaces
<1>7. ASSUME NEW j \in 1..Len(batch), j # i PROVE RowOk(j)'
  BY <1>1, <1>2, <1>5, <1>7 DEF RowOk
<1>8. RowOk(i)'
  <2>1. RowFits("stepping", step_index, env[i], rows[i], transitions[i], collected[i])
    BY <1>2, <1>3 DEF RowOk
  <2>2. /\ Between(env[i], step_index - 1, collected[i]) /\ Told(collected[i], env[i])
    BY <2>1 DEF RowFits
  <2>3. ~Ended(collected[i]) /\ e.steps = step_index
    <3>1. step_index \in Int
      BY <1>2, RolloutAssumption DEF RolloutType
    <3> QED
      BY <2>2, <3>1 DEF Between
  <2>4. Told(collected[i], e)
    BY <2>2, <2>3 DEF Told, Ended
  <2>5. RowFits("stepping", step_index, e, "done", t, collected[i])
    BY <1>4, <2>3, <2>4 DEF RowFits, Returned
  <2> QED
    BY <1>1, <1>5, <2>5 DEF RowOk
<1> QED
  BY <1>1, <1>6, <1>7, <1>8 DEF RolloutInv

\* What the budget says after a step keeps the counters.
LEMMA ExhaustedType ==
  ASSUME NEW e \in EnvRecord
  PROVE  /\ Exhausted(e) \in EnvRecord /\ Exhausted(e).steps = e.steps
         /\ ~Terminated(Exhausted(e)) => e.steps < MaxSteps
<1> DEFINE r == IF e.steps >= MaxSteps THEN "max_steps"
                ELSE IF e.python_seconds > 0 /\ e.python_seconds >= MaxPythonSeconds
                THEN "python_time_budget" ELSE None
           x == [e EXCEPT !.reason = r]
<1>1. r \in {None, "final", "max_steps", "python_time_budget"}
  OBVIOUS
<1>2. r = None => ~(e.steps >= MaxSteps)
  BY RolloutAssumption
<1>3. Exhausted(e) = x
  BY DEF Exhausted
<1> HIDE DEF r
<1>4. x \in EnvRecord /\ x.steps = e.steps /\ x.reason = r
  BY <1>1 DEF EnvRecord
<1>5. e.steps \in Nat /\ MaxSteps \in Nat
  BY RolloutAssumption DEF EnvRecord
<1> HIDE DEF x
<1> QED
  BY <1>2, <1>3, <1>4, <1>5 DEF Terminated

LEMMA RowAnswersStep ==
  ASSUME RolloutInv, NEW i \in Rows, NEW v \in {"right", "wrong"}, RowAnswers(i, v)
  PROVE  RolloutInv'
<1>1. /\ phase = "stepping" /\ rows[i] = "ready" /\ ~Terminated(env[i])
      /\ EndRow(i, Answer(env[i], v), <<"assistant">>)
  BY DEF RowAnswers, Turn
<1>2. env[i] \in EnvRecord
  BY <1>1, BatchRows DEF RolloutInv, RolloutType, Rows
<1> PICK e : e = env[i]
  OBVIOUS
<1> PICK a : a = Answer(e, v)
  OBVIOUS
<1>3. a \in EnvRecord /\ a.steps = e.steps + 1 /\ Terminated(a)
  <2> PICK n \in Nat : n = e.steps + 1
    BY <1>2 DEF EnvRecord
  <2>1. a = [e EXCEPT !.steps = n, !.final = v, !.reason = "final"]
    BY DEF Answer
  <2>2. a \in EnvRecord /\ a.steps = n /\ a.reason = "final"
    BY <1>2, <2>1 DEF EnvRecord
  <2> QED
    BY <2>2, RolloutAssumption DEF Terminated
<1>4. EndRow(i, a, <<"assistant">>)
  BY <1>1
<1> QED
  BY <1>1, <1>3, <1>4, EndRowStep

LEMMA RowRefusedStep ==
  ASSUME RolloutInv, NEW i \in Rows, RowRefused(i)
  PROVE  RolloutInv'
<1>1. /\ phase = "stepping" /\ rows[i] = "ready" /\ ~Terminated(env[i])
      /\ EndRow(i, Refuse(env[i]), <<"assistant">>)
  BY DEF RowRefused, Turn
<1>2. env[i] \in EnvRecord
  BY <1>1, BatchRows DEF RolloutInv, RolloutType, Rows
<1> PICK e : e = env[i]
  OBVIOUS
<1> PICK x : x = [e EXCEPT !.steps = @ + 1, !.invalid_actions = @ + 1]
  OBVIOUS
<1>3. x \in EnvRecord /\ x.steps = e.steps + 1
  <2>1. e.steps + 1 \in Nat /\ e.invalid_actions + 1 \in Nat
    BY <1>2 DEF EnvRecord
  <2> PICK n \in Nat, k \in Nat : n = e.steps + 1 /\ k = e.invalid_actions + 1
    BY <2>1
  <2>2. x = [e EXCEPT !.steps = n, !.invalid_actions = k]
    OBVIOUS
  <2>3. x \in EnvRecord /\ x.steps = n
    BY <1>2, <2>2 DEF EnvRecord
  <2> QED
    BY <2>3
<1> PICK a : a = Exhausted(x)
  OBVIOUS
<1>4. /\ a \in EnvRecord /\ a.steps = e.steps + 1
      /\ ~Terminated(a) => a.steps < MaxSteps
  BY <1>3, ExhaustedType
<1>5. EndRow(i, a, <<"assistant">>)
  BY <1>1 DEF Refuse
<1> QED
  BY <1>1, <1>4, <1>5, EndRowStep

LEMMA ToolAnswersStep ==
  ASSUME RolloutInv, NEW i \in Rows, NEW ok \in BOOLEAN, NEW s \in RunTimes \cup {0},
         ToolAnswers(i, ok, s)
  PROVE  RolloutInv'
<1>1. /\ phase = "stepping" /\ rows[i] \in {"python", "sympy"}
      /\ EndRow(i, Called(env[i], ok, s), << >>)
  BY DEF ToolAnswers
<1>2. env[i] \in EnvRecord /\ i \in 1..Len(batch)
  BY <1>1, BatchRows DEF RolloutInv, RolloutType, Rows
<1>3. ~Terminated(env[i]) /\ s \in Nat
  BY <1>1, <1>2, RolloutAssumption DEF RolloutInv, RowOk, RowFits
<1> PICK e : e = env[i]
  OBVIOUS
<1> PICK x : x = [e EXCEPT !.steps = @ + 1, !.tool_calls = @ + 1,
                           !.python_seconds = @ + s,
                           !.successes = IF ok THEN @ + 1 ELSE @]
  OBVIOUS
<1>4. x \in EnvRecord /\ x.steps = e.steps + 1
  <2>0. /\ e.steps \in Nat /\ e.tool_calls \in Nat /\ e.python_seconds \in Nat
        /\ e.successes \in Nat /\ s \in Nat
    BY <1>2, <1>3 DEF EnvRecord
  <2>1. /\ e.steps + 1 \in Nat /\ e.tool_calls + 1 \in Nat /\ e.python_seconds + s \in Nat
        /\ (IF ok THEN e.successes + 1 ELSE e.successes) \in Nat
    BY <2>0
  <2> QED
    BY <1>2, <2>1 DEF EnvRecord
<1> PICK a : a = Exhausted(x)
  OBVIOUS
<1>5. /\ a \in EnvRecord /\ a.steps = e.steps + 1
      /\ ~Terminated(a) => a.steps < MaxSteps
  BY <1>4, ExhaustedType
<1>6. EndRow(i, a, << >>)
  BY <1>1 DEF Called
<1> QED
  BY <1>1, <1>3, <1>5, <1>6, EndRowStep

\* A row waits for its tool, or the step is given up.
LEMMA WaitStep ==
  ASSUME RolloutInv,
         \E i \in Rows : RowRaises(i) \/ \E t \in {"python", "sympy"} : RowCalls(i, t)
  PROVE  RolloutInv'
<1>1. CASE \E i \in Rows : RowRaises(i)
  <2>1. /\ phase = "stepping" /\ phase' = "raised"
        /\ UNCHANGED <<batch, offered, environments, env, conversations, terminal, rows,
                       transitions, step_index, collected>>
    BY <1>1 DEF RowRaises, setup
  <2> QED
    BY <2>1 DEF RolloutInv, RolloutType
<1>2. ASSUME NEW i \in Rows, NEW t \in {"python", "sympy"}, RowCalls(i, t)
      PROVE  RolloutInv'
  <2>1. /\ phase = "stepping" /\ rows[i] = "ready" /\ ~Terminated(env[i])
        /\ DOMAIN conversations' = DOMAIN conversations
        /\ rows' = [rows EXCEPT ![i] = t]
        /\ UNCHANGED <<batch, offered, environments, env, terminal, transitions,
                       step_index, collected, phase>>
    BY <1>2 DEF RowCalls, Turn, setup
  <2>2. RolloutType /\ (\A j \in 1..Len(batch) : RowOk(j)) /\ i \in 1..Len(batch)
    BY <2>1, BatchRows DEF RolloutInv, RolloutType, Rows
  <2>3. /\ rows'[i] = t
        /\ \A j \in 1..Len(batch) : j # i => rows'[j] = rows[j]
    BY <2>1, <2>2 DEF RolloutType
  <2>4. RolloutType'
    BY <2>1, <2>2 DEF RolloutType, RowPlaces
  <2>5. ASSUME NEW j \in 1..Len(batch), j # i PROVE RowOk(j)'
    BY <2>1, <2>2, <2>3, <2>5 DEF RowOk
  <2>6. RowOk(i)'
    <3>1. RowFits("stepping", step_index, env[i], "ready", transitions[i], collected[i])
      BY <2>1, <2>2 DEF RowOk
    <3>2. RowFits("stepping", step_index, env[i], t, transitions[i], collected[i])
      BY <2>1, <3>1 DEF RowFits
    <3> QED
      BY <2>1, <2>3, <3>2 DEF RowOk
  <2> QED
    BY <2>1, <2>4, <2>5, <2>6 DEF RolloutInv
<1> QED
  BY <1>1, <1>2

LEMMA FinishStep ==
  ASSUME RolloutInv, Finish
  PROVE  RolloutInv'
<1>1. /\ phase = "between" /\ phase' = "finished"
      /\ step_index = MaxSteps \/ \A i \in Rows : Terminated(env[i])
      /\ UNCHANGED <<batch, offered, environments, env, conversations, terminal, rows,
                     transitions, step_index, collected>>
  BY DEF Finish, setup
<1>2. RolloutType /\ (\A i \in 1..Len(batch) : RowOk(i)) /\ Rows = 1..Len(batch)
  BY <1>1, BatchRows DEF RolloutInv, RolloutType, Rows
<1>3. ASSUME NEW i \in 1..Len(batch) PROVE RowOk(i)'
  <2>1. RowFits("between", step_index, env[i], rows[i], transitions[i], collected[i])
    BY <1>1, <1>2 DEF RowOk
  <2>2. Terminated(env[i])
    <3>1. env[i].steps \in Nat /\ MaxSteps \in Nat
      BY <1>2, RolloutAssumption DEF RolloutType, EnvRecord
    <3> QED
      BY <1>1, <1>2, <2>1, <3>1 DEF RowFits, Between
  <2>3. RowFits("finished", step_index, env[i], rows[i], transitions[i], collected[i])
    BY <2>1, <2>2 DEF RowFits
  <2> QED
    BY <1>1, <2>3 DEF RowOk
<1> QED
  BY <1>1, <1>2, <1>3 DEF RolloutInv, RolloutType

\* The record of a step is the row's: it is active up to the step that ends
\* it, and paid in that one.
LEMMA RecordKept ==
  ASSUME NEW e \in EnvRecord, NEW n \in Nat, NEW c \in Seq(StepRecord),
         NEW t, Returned(e, n, t, c), Told(c, e), NEW was \in BOOLEAN, was <=> Ended(c),
         NEW r, r = [active |-> ~was, done |-> t.done, reward |-> t.reward, won |-> t.won]
  PROVE  /\ Append(c, r) \in Seq(StepRecord)
         /\ Told(Append(c, r), e) /\ Between(e, n, Append(c, r))
<1> DEFINE k == Len(c) + 1
           a == Append(c, r)
<1>1. /\ t \in TransitionRecord /\ (t.done <=> Terminated(e))
      /\ Ended(c) => t.reward = 0
      /\ ~Ended(c) => t.reward = Pay(e) /\ t.won = Correct(e)
      /\ ~Terminated(e) => e.steps = n
  BY DEF Returned
<1>2. /\ r \in StepRecord /\ r.active = ~was /\ r.done = t.done
      /\ r.reward = t.reward /\ r.won = t.won
  BY <1>1 DEF TransitionRecord, StepRecord
<1>3. /\ Len(c) \in Nat /\ DOMAIN c = 1..Len(c) /\ k \in Nat
      /\ \A m \in 1..Len(c) : m \in Nat /\ m < k /\ m # k
      /\ \A m \in 1..k : m \in 1..Len(c) \/ m = k
      /\ 1..k - 1 = 1..Len(c) /\ k \in 1..k
  OBVIOUS
<1> HIDE DEF StepRecord
<1>4. /\ a \in Seq(StepRecord) /\ DOMAIN a = 1..k /\ a[k] = r
      /\ \A m \in 1..Len(c) : a[m] = c[m]
  BY <1>2, <1>3
<1> HIDE DEF a, k
<1>5. /\ \A m, l \in 1..Len(c) : m < l /\ c[m].done => c[l].done
      /\ \A m \in 1..Len(c) : c[m].active <=> \A l \in 1..m - 1 : ~c[l].done
      /\ \A m \in 1..Len(c) : c[m].active /\ c[m].done =>
           c[m].reward = Reward(e) /\ c[m].won = Correct(e)
      /\ \A m \in 1..Len(c) : ~(c[m].active /\ c[m].done) => c[m].reward = 0
      /\ Ended(c) => Terminated(e)
      /\ Ended(c) <=> \E m \in 1..Len(c) : c[m].done
  BY <1>3 DEF Told, Ended
<1>6. Ended(a) <=> Terminated(e)
  BY <1>1, <1>2, <1>3, <1>4, <1>5 DEF Ended
<1>7. Between(e, n, a)
  BY <1>1, <1>6 DEF Between
<1>8. \A m, l \in 1..k : m < l /\ a[m].done => a[l].done
  <2> SUFFICES ASSUME NEW m \in 1..k, NEW l \in 1..k, m < l, a[m].done PROVE a[l].done
    OBVIOUS
  <2>1. m \in 1..Len(c)
    BY <1>3
  <2>2. l \in 1..Len(c) \/ l = k
    BY <1>3
  <2> QED
    BY <1>1, <1>2, <1>4, <1>5, <2>1, <2>2
<1>9. \A m \in 1..k : a[m].active <=> \A l \in 1..m - 1 : ~a[l].done
  <2>1. ASSUME NEW m \in 1..Len(c)
        PROVE  a[m].active <=> \A l \in 1..m - 1 : ~a[l].done
    <3>1. \A l \in 1..m - 1 : l \in 1..Len(c)
      BY <1>3
    <3> QED
      BY <1>4, <1>5, <3>1
  <2>2. a[k].active <=> \A l \in 1..k - 1 : ~a[l].done
    BY <1>2, <1>3, <1>4, <1>5
  <2> QED
    BY <1>3, <2>1, <2>2
<1>10. \A m \in 1..k : a[m].active /\ a[m].done =>
         a[m].reward = Reward(e) /\ a[m].won = Correct(e)
  <2>1. a[k].active /\ a[k].done => a[k].reward = Reward(e) /\ a[k].won = Correct(e)
    BY <1>1, <1>2, <1>4 DEF Pay
  <2> QED
    BY <1>3, <1>4, <1>5, <2>1
<1>11. \A m \in 1..k : ~(a[m].active /\ a[m].done) => a[m].reward = 0
  <2>1. ~(a[k].active /\ a[k].done) => a[k].reward = 0
    BY <1>1, <1>2, <1>4 DEF Pay
  <2> QED
    BY <1>3, <1>4, <1>5, <2>1
<1>12. Told(a, e)
  BY <1>4, <1>6, <1>8, <1>9, <1>10, <1>11 DEF Told
<1> QED
  BY <1>4, <1>7, <1>12 DEF a

LEMMA StepEndStep ==
  ASSUME RolloutInv, StepEnd
  PROVE  RolloutInv'
<1> DEFINE record(i) == [active |-> ~WasDone(i), done |-> transitions[i].done,
                         reward |-> transitions[i].reward, won |-> transitions[i].won]
<1>1. /\ phase = "stepping" /\ phase' = "between" /\ \A i \in Rows : rows[i] = "done"
      /\ collected' = [i \in Rows |-> Append(collected[i], record(i))]
      /\ UNCHANGED <<batch, offered, environments, env, conversations, terminal, rows,
                     transitions, step_index>>
  BY DEF StepEnd, setup
<1>2. RolloutType /\ (\A i \in 1..Len(batch) : RowOk(i)) /\ Rows = 1..Len(batch)
  BY <1>1, BatchRows DEF RolloutInv, RolloutType, Rows
<1>3. ASSUME NEW i \in 1..Len(batch)
      PROVE  collected'[i] \in Seq(StepRecord) /\ RowOk(i)'
  <2>1. /\ env[i] \in EnvRecord /\ step_index \in Nat /\ collected[i] \in Seq(StepRecord)
    BY <1>2, RolloutAssumption DEF RolloutType
  <2>2. RowFits("stepping", step_index, env[i], "done", transitions[i], collected[i])
    BY <1>1, <1>2 DEF RowOk
  <2>3. /\ Told(collected[i], env[i])
        /\ Returned(env[i], step_index, transitions[i], collected[i])
        /\ ~Terminated(env[i]) => env[i].steps < MaxSteps
    BY <2>2 DEF RowFits
  <2> PICK was \in BOOLEAN : was = WasDone(i)
    BY DEF WasDone
  <2> PICK r : r = record(i)
    OBVIOUS
  <2> PICK a : a = Append(collected[i], r)
    OBVIOUS
  <2>4. was <=> Ended(collected[i])
    BY DEF WasDone, Ended
  <2>5. r = [active |-> ~was, done |-> transitions[i].done,
             reward |-> transitions[i].reward, won |-> transitions[i].won]
    OBVIOUS
  <2>6. a \in Seq(StepRecord) /\ Told(a, env[i]) /\ Between(env[i], step_index, a)
    BY <2>1, <2>3, <2>4, <2>5, RecordKept
  <2>7. collected'[i] = a
    BY <1>1, <1>2
  <2>8. RowFits("between", step_index, env[i], rows[i], transitions[i], a)
    BY <2>3, <2>6 DEF RowFits
  <2> QED
    BY <1>1, <2>6, <2>7, <2>8 DEF RowOk
<1>4. RolloutType'
  <2>1. collected' \in [1..Len(batch) -> Seq(StepRecord)]
    BY <1>1, <1>2, <1>3
  <2> QED
    BY <1>1, <1>2, <2>1 DEF RolloutType
<1> QED
  BY <1>1, <1>3, <1>4 DEF RolloutInv

LEMMA RolloutInductive ==
  ASSUME RolloutInv, [rolloutNext]_rolloutVars
  PROVE  RolloutInv'
<1>1. CASE \E b \in Batches : Reset(b)
  BY <1>1, ResetStep
<1>2. CASE StepBegin
  BY <1>2, StepBeginStep
<1>3. CASE StepEnd
  BY <1>3, StepEndStep
<1>4. CASE Finish
  BY <1>4, FinishStep
<1>5. ASSUME NEW i \in Rows,
             \/ NoOp(i) \/ RowRefused(i) \/ RowRaises(i)
             \/ \E v \in {"right", "wrong"} : RowAnswers(i, v)
             \/ \E t \in {"python", "sympy"} : RowCalls(i, t)
             \/ \E ok \in BOOLEAN, s \in RunTimes \cup {0} : ToolAnswers(i, ok, s)
      PROVE  RolloutInv'
  BY <1>5, NoOpStep, RowRefusedStep, RowAnswersStep, ToolAnswersStep, WaitStep
<1>6. CASE UNCHANGED rolloutVars
  <2>1. UNCHANGED <<batch, offered, environments, env, conversations, terminal, rows,
                    transitions, step_index, collected, phase>>
    BY <1>6 DEF rolloutVars, setup
  <2> QED
    BY <2>1 DEF RolloutInv, RolloutType, RowOk
<1> QED
  BY <1>1, <1>2, <1>3, <1>4, <1>5, <1>6 DEF rolloutNext

\* A row that has ended was active up to one step, and that step ended it.
LEMMA LastActive ==
  ASSUME NEW e, NEW c \in Seq(StepRecord), Told(c, e), Ended(c)
  PROVE  \E k \in DOMAIN c : /\ c[k].active /\ c[k].done
                             /\ \A m \in DOMAIN c : c[m].active => m <= k
                             /\ \A m \in DOMAIN c : m # k => ~(c[m].active /\ c[m].done)
<1> DEFINE N == {k \in DOMAIN c : c[k].done}
<1>1. DOMAIN c = 1..Len(c) /\ Len(c) \in Nat
  OBVIOUS
<1>2. N \subseteq Nat /\ N # {}
  BY <1>1 DEF Ended
<1>3. PICK k \in N : \A m \in N : k <= m
  BY <1>2, NatMin
<1>4. k \in 1..Len(c) /\ c[k].done /\ \A m \in 1..Len(c) : c[m].done => k <= m
  BY <1>1, <1>3
<1> HIDE DEF StepRecord
<1>5. \A m \in DOMAIN c : c[m].active <=> \A l \in 1..m - 1 : ~c[l].done
  BY DEF Told
<1>6. c[k].active
  <2>1. \A l \in 1..k - 1 : l \in 1..Len(c) /\ ~(k <= l)
    BY <1>1, <1>4
  <2> QED
    BY <1>1, <1>4, <1>5, <2>1
<1>7. ASSUME NEW m \in 1..Len(c), c[m].active PROVE m <= k
  <2>1. ~(k \in 1..m - 1)
    BY <1>1, <1>4, <1>5, <1>7
  <2> QED
    BY <1>4, <2>1
<1>8. \A m \in 1..Len(c) : m # k => ~(c[m].active /\ c[m].done)
  BY <1>4, <1>7
<1> QED
  BY <1>1, <1>4, <1>6, <1>7, <1>8

\* Over the whole rollout a row is paid its reward once, when it has ended.
LEMMA PaidOnce ==
  ASSUME NEW e \in EnvRecord, NEW c \in Seq(StepRecord), Told(c, e)
  PROVE  SumFunction([k \in DOMAIN c |-> c[k].reward]) = IF Ended(c) THEN Reward(e) ELSE 0
<1> DEFINE D == 1..Len(c)
           f == [k \in D |-> c[k].reward]
<1>1. DOMAIN c = D /\ Len(c) \in Nat /\ \A k \in D : c[k] \in StepRecord
  OBVIOUS
<1>2. IsFiniteSet(D)
  BY <1>1, UpToFinite
<1>3. f \in [D -> Int]
  BY <1>1 DEF StepRecord
<1>4. \A k \in D : c[k].active /\ c[k].done => f[k] = Reward(e)
  BY <1>1 DEF Told
<1>5. \A k \in D : ~(c[k].active /\ c[k].done) => f[k] = 0
  BY <1>1 DEF Told
<1>6. CASE Ended(c)
  <2>1. PICK k \in D : /\ c[k].active /\ c[k].done
                       /\ \A m \in D : m # k => ~(c[m].active /\ c[m].done)
    BY <1>1, <1>6, LastActive
  <2>2. f[k] = Reward(e) /\ \A m \in D : m # k => f[m] = 0
    BY <1>4, <1>5, <2>1
  <2> HIDE DEF f, D
  <2>3. SumFunction(f) = f[k]
    BY <1>2, <1>3, <2>2, SumOne
  <2> QED
    BY <1>1, <1>6, <2>2, <2>3 DEF f
<1>7. CASE ~Ended(c)
  <2>1. \A k \in D : f[k] = 0
    BY <1>1, <1>5, <1>7 DEF Ended
  <2> HIDE DEF f, D
  <2>2. SumFunction(f) = 0
    BY <1>2, <1>3, <2>1, SumZeros
  <2> QED
    BY <1>1, <1>7, <2>2 DEF f
<1> QED
  BY <1>6, <1>7

LEMMA SuccessTold ==
  ASSUME NEW i, NEW e, collected[i] \in Seq(StepRecord), Told(collected[i], e), Ended(collected[i])
  PROVE  Success(i) = Correct(e)
<1> PICK c : c = collected[i]
  OBVIOUS
<1>1. PICK k \in DOMAIN c : /\ c[k].active /\ c[k].done
                            /\ \A m \in DOMAIN c : c[m].active => m <= k
  BY LastActive
<1> DEFINE A == {m \in DOMAIN c : c[m].active}
           last == CHOOSE m \in A : \A l \in A : l <= m
<1>2. k \in A /\ \A l \in A : l <= k
  BY <1>1
<1>3. A \subseteq Int
  OBVIOUS
<1>4. last \in A /\ \A l \in A : l <= last
  BY <1>2
<1>5. last = k
  <2> HIDE DEF A, last
  <2> QED
    BY <1>2, <1>3, <1>4
<1>6. Success(i) = c[last].won
  BY DEF Success, ActiveSteps
<1>7. c[k].won = Correct(e)
  BY <1>1 DEF Told
<1> QED
  BY <1>5, <1>6, <1>7

LEMMA JudgedNow ==
  ASSUME RolloutInv
  PROVE  EachRowJudgedOnce
<1> SUFFICES ASSUME phase # "reset" PROVE EachRowJudgedOnce
  BY DEF EachRowJudgedOnce
<1>1. RolloutType /\ (phase # "raised" => \A i \in 1..Len(batch) : RowOk(i))
      /\ Rows = 1..Len(batch) /\ offered = Len(environments)
      /\ GivesIds(environments, batch, Len(batch))
  BY BatchRows DEF RolloutInv, RolloutType, Rows
<1>2. Cardinality(Range(environments)) = Len(environments)
  <2> PICK ids : ids = environments
    OBVIOUS
  <2>1. /\ ids \in Seq(IdsOf(batch)) /\ Len(ids) = Len(batch)
        /\ \A i, j \in 1..Len(batch) : ids[i] = ids[j] => i = j
    BY <1>1 DEF GivesIds
  <2> DEFINE D == 1..Len(ids)
             T == Range(ids)
  <2> HIDE DEF IdsOf
  <2>2. DOMAIN ids = D /\ Len(ids) \in Nat /\ ids \in [D -> T]
        /\ \A t \in T : \E i \in D : ids[i] = t
    BY <2>1 DEF Range
  <2>3. IsFiniteSet(D) /\ Cardinality(D) = Len(ids)
    <3> PICK n : n = Len(ids)
      OBVIOUS
    <3> QED
      BY <2>2, UpToFinite
  <2> HIDE DEF D, T
  <2>4. \A i, j \in D : ids[i] = ids[j] => i = j
    BY <2>1 DEF D
  <2>5. Cardinality(T) = Cardinality(D)
    <3>1. /\ IsFiniteSet(D) /\ ids \in [D -> T]
          /\ \A t \in T : \E i \in D : ids[i] = t
      BY <2>2, <2>3
    <3> QED
      BY <2>4, <3>1, ImageSize
  <2> QED
    BY <2>3, <2>5 DEF T
<1>3. \A i \in Rows : environments[i][1] = batch[i]
  BY <1>1 DEF GivesIds
<1>4. ASSUME phase \in {"between", "finished"}, NEW i \in Rows
      PROVE  /\ Paid(i) = IF Terminated(env[i]) THEN Reward(env[i]) ELSE 0
             /\ phase = "finished" => Terminated(env[i]) /\ (Success(i) <=> Correct(env[i]))
  <2>1. env[i] \in EnvRecord /\ collected[i] \in Seq(StepRecord)
    BY <1>1 DEF RolloutType
  <2>2. RowFits(phase, step_index, env[i], rows[i], transitions[i], collected[i])
    BY <1>1, <1>4 DEF RowOk
  <2>3. /\ Told(collected[i], env[i]) /\ (Terminated(env[i]) <=> Ended(collected[i]))
        /\ phase = "finished" => Terminated(env[i])
    BY <1>4, <2>2 DEF RowFits, Between
  <2> PICK c : c = collected[i]
    OBVIOUS
  <2>4. Paid(i) = IF Ended(c) THEN Reward(env[i]) ELSE 0
    <3>1. Paid(i) = SumFunction([k \in DOMAIN c |-> c[k].reward])
      BY DEF Paid
    <3> QED
      BY <2>1, <2>3, <3>1, PaidOnce
  <2>5. phase = "finished" => Success(i) = Correct(env[i])
    BY <2>1, <2>3, SuccessTold
  <2> QED
    BY <2>3, <2>4, <2>5
<1> QED
  BY <1>1, <1>2, <1>3, <1>4 DEF EachRowJudgedOnce

\* Each row of a batch is judged once: its own environment, its reward paid
\* once, the verdict of its answer logged (reset, step, success_evaluator).
THEOREM JudgedCorrect == rolloutSpec => []EachRowJudgedOnce
<1>1. rolloutInit => RolloutInv
  BY RolloutInitial
<1>2. RolloutInv /\ [rolloutNext]_rolloutVars => RolloutInv'
  BY RolloutInductive
<1>3. RolloutInv => EachRowJudgedOnce
  BY JudgedNow
<1> QED
  BY <1>1, <1>2, <1>3, PTL DEF rolloutSpec

\* Room for the bonus: tools cost nothing, and the clip is wider than all
\* that the reward can be (true of R4_DEFAULT, reward/functions.py).
BonusHasRoom ==
  /\ Config.tool_weight = 0 /\ Config.python_weight = 0
  /\ Config.clip_min <= 0 - Config.invalid_weight * Config.invalid_cap
  /\ 100 + Config.tool_success_bonus <= Config.clip_max

LEMMA ProductOrder ==
  ASSUME NEW a \in Int, NEW b \in Int, a <= b, NEW c \in Nat
  PROVE  a * c <= b * c
OBVIOUS

LEMMA PenaltyOrder ==
  ASSUME NEW e \in EnvRecord, NEW f \in EnvRecord, e.invalid_actions <= f.invalid_actions
  PROVE  /\ Penalty(e) \in Int /\ Penalty(f) \in Int /\ 0 <= Penalty(e)
         /\ Penalty(e) <= Penalty(f)
         /\ Penalty(f) <= Config.invalid_weight * Config.invalid_cap * Unit
<1> DEFINE k == Least(e.invalid_actions, Config.invalid_cap)
           m == Least(f.invalid_actions, Config.invalid_cap)
           w == Config.invalid_weight
           c == Config.invalid_cap
<1>1. w \in Nat /\ c \in Nat /\ Unit \in Nat
  BY RolloutAssumption, UnitType
<1>2. k \in Nat /\ m \in Nat /\ k <= m /\ m <= c
  BY RolloutAssumption DEF Least, EnvRecord
<1>3. Penalty(e) = w * k * Unit /\ Penalty(f) = w * m * Unit
  BY DEF Penalty
<1> PICK u \in Nat : u = Unit
  BY <1>1
<1> HIDE DEF k, m, w, c
<1>4. \A a, b \in Nat : a <= b => w * a \in Nat /\ w * b \in Nat /\ w * a <= w * b
  BY <1>1
<1>5. \A a, b \in Nat : a <= b => a * u \in Nat /\ b * u \in Nat /\ a * u <= b * u
  OBVIOUS
<1>6. /\ w * k \in Nat /\ w * m \in Nat /\ w * c \in Nat
      /\ w * k <= w * m /\ w * m <= w * c
  BY <1>1, <1>2, <1>4
<1>7. /\ (w * k) * u \in Nat /\ (w * m) * u \in Nat
      /\ (w * k) * u <= (w * m) * u /\ (w * m) * u <= (w * c) * u
  BY <1>5, <1>6
<1> QED
  BY <1>3, <1>7 DEF w, c

\* Room between the bounds of the clip, in the units of the reward.
LEMMA BoundsInUnits ==
  /\ Config.tool_success_bonus * Unit \in Nat
  /\ Config.clip_min * Unit \in Int /\ Config.clip_max * Unit \in Int
  /\ BonusHasRoom =>
       /\ Config.clip_min * Unit <= 0 - Config.invalid_weight * Config.invalid_cap * Unit
       /\ 100 * Unit + Config.tool_success_bonus * Unit <= Config.clip_max * Unit
<1> PICK u \in Nat : u = Unit
  BY UnitType
<1> PICK lo \in Int, hi \in Int, b \in Nat, w \in Nat, c \in Nat :
      /\ lo = Config.clip_min /\ hi = Config.clip_max /\ b = Config.tool_success_bonus
      /\ w = Config.invalid_weight /\ c = Config.invalid_cap
  BY RolloutAssumption
<1> PICK p \in Nat : p = w * c
  OBVIOUS
<1>1. b * u \in Nat /\ lo * u \in Int /\ hi * u \in Int /\ p * u \in Nat
  OBVIOUS
<1>2. lo <= 0 - p => lo * u <= 0 - p * u
  <2> PICK m \in Int : m = 0 - p
    OBVIOUS
  <2>1. ASSUME lo <= 0 - p PROVE lo * u <= m * u
    <3>1. lo <= m
      BY <2>1
    <3> QED
      BY <3>1, ProductOrder
  <2>2. m * u = 0 - p * u
    OBVIOUS
  <2> QED
    BY <2>1, <2>2
<1>3. 100 + b <= hi => 100 * u + b * u <= hi * u
  <2>1. ASSUME 100 + b <= hi PROVE (100 + b) * u <= hi * u
    BY <2>1, ProductOrder
  <2>2. (100 + b) * u = 100 * u + b * u
    OBVIOUS
  <2> QED
    BY <2>1, <2>2
<1> QED
  BY <1>1, <1>2, <1>3 DEF BonusHasRoom

LEMMA ClipOrder ==
  ASSUME NEW a \in Int, NEW b \in Int, a <= b
  PROVE  Clip(a) \in Int /\ Clip(b) \in Int /\ Clip(a) <= Clip(b)
<1> PICK lo \in Int, hi \in Int : lo = Config.clip_min * Unit /\ hi = Config.clip_max * Unit
  BY BoundsInUnits
<1>1. \A t : Clip(t) = Least(Most(t, lo), hi)
  BY DEF Clip
<1> QED
  BY <1>1 DEF Least, Most

\* No answer is paid no more than a wrong one with no more invalid actions
\* and the bonus at least as likely.
LEMMA UnansweredOrder ==
  ASSUME NEW e \in EnvRecord, NEW f \in EnvRecord, e.final = None, f.final = "wrong",
         e.invalid_actions >= f.invalid_actions,
         e.successes > 0 => f.successes > 0
  PROVE  Reward(e) <= Reward(f)
<1>1. ~Correct(e) /\ ~Correct(f)
  BY RolloutAssumption DEF Correct
<1>2. f.invalid_actions <= e.invalid_actions
  BY DEF EnvRecord
<1>3. Penalty(e) \in Int /\ Penalty(f) \in Int /\ Penalty(f) <= Penalty(e)
  BY <1>2, PenaltyOrder
<1>4. SuccessBonus(e) \in Int /\ SuccessBonus(f) \in Int /\ SuccessBonus(e) <= SuccessBonus(f)
  BY BoundsInUnits DEF SuccessBonus
<1> PICK p \in Int, q \in Int, s \in Int, t \in Int :
      p = Penalty(e) /\ q = Penalty(f) /\ s = SuccessBonus(e) /\ t = SuccessBonus(f)
  BY <1>3, <1>4
<1>5. Reward(e) = Clip(0 - p + s) /\ Reward(f) = Clip(0 - q + t)
  BY <1>1 DEF Reward
<1> QED
  BY <1>3, <1>4, <1>5, ClipOrder

\* With room for it, the bonus is paid whole.
LEMMA BonusWhole ==
  ASSUME BonusHasRoom, NEW e \in EnvRecord, NEW f \in EnvRecord, e.final = f.final,
         e.invalid_actions = f.invalid_actions, e.successes > 0, f.successes = 0
  PROVE  Reward(e) = Reward(f) + Config.tool_success_bonus * Unit
<1>1. Correct(e) <=> Correct(f)
  BY DEF Correct
<1>2. e.invalid_actions <= f.invalid_actions /\ f.invalid_actions <= e.invalid_actions
  BY DEF EnvRecord
<1>3. /\ Penalty(e) = Penalty(f) /\ Penalty(f) \in Int /\ 0 <= Penalty(f)
      /\ Penalty(f) <= Config.invalid_weight * Config.invalid_cap * Unit
  <2>1. Penalty(e) = Penalty(f)
    BY DEF Penalty
  <2> QED
    BY <1>2, <2>1, PenaltyOrder
<1>4. SuccessBonus(e) = Config.tool_success_bonus * Unit /\ SuccessBonus(f) = 0
  BY DEF SuccessBonus
<1>5. \A used, limit \in Nat : Cost(used, limit, 0) = 0
  <2> SUFFICES ASSUME NEW used \in Nat, NEW limit \in Nat PROVE Cost(used, limit, 0) = 0
    OBVIOUS
  <2>1. CASE limit = 0
    BY <2>1 DEF Cost
  <2>2. CASE limit # 0
    <3> PICK d : d = Unit \div limit
      OBVIOUS
    <3>1. Unit \in Nat /\ limit \in Nat \ {0}
      BY <2>2, UnitType
    <3>2. d \in Nat
      BY <3>1, DivMod
    <3>3. 0 * used * d = 0
      BY <3>2
    <3> QED
      BY <2>2, <3>3 DEF Cost
  <2> QED
    BY <2>1, <2>2
<1>6. \A g \in EnvRecord :
        /\ Cost(g.tool_calls, MaxToolCalls, Config.tool_weight) = 0
        /\ Cost(g.python_seconds, MaxPythonSeconds, Config.python_weight) = 0
  <2> SUFFICES ASSUME NEW g \in EnvRecord
               PROVE  /\ Cost(g.tool_calls, MaxToolCalls, Config.tool_weight) = 0
                      /\ Cost(g.python_seconds, MaxPythonSeconds, Config.python_weight) = 0
    OBVIOUS
  <2>1. /\ g.tool_calls \in Nat /\ g.python_seconds \in Nat
        /\ MaxToolCalls \in Nat /\ MaxPythonSeconds \in Nat
    BY RolloutAssumption DEF EnvRecord
  <2>2. Config.tool_weight = 0 /\ Config.python_weight = 0
    BY DEF BonusHasRoom
  <2> QED
    BY <1>5, <2>1, <2>2
<1> PICK u \in Nat : u = Unit
  BY UnitType
<1> PICK lo \in Int, hi \in Int, b \in Nat, p \in Int :
      /\ lo = Config.clip_min * Unit /\ hi = Config.clip_max * Unit
      /\ b = Config.tool_success_bonus * Unit /\ p = Penalty(f)
  BY <1>3, BoundsInUnits
<1>7. lo <= 0 - p /\ 0 <= p /\ 100 * u + b <= hi
  <2>1. lo <= 0 - Config.invalid_weight * Config.invalid_cap * Unit
    BY BoundsInUnits
  <2>2. Config.invalid_weight * Config.invalid_cap * Unit \in Int
    BY RolloutAssumption, UnitType
  <2>3. 100 * Unit + Config.tool_success_bonus * Unit <= hi
    BY BoundsInUnits
  <2> QED
    BY <1>3, <2>1, <2>2, <2>3
<1> PICK r \in Int : r = IF Correct(f) THEN 100 * u ELSE 0
  OBVIOUS
<1>8. Reward(e) = Clip(r - p + b) /\ Reward(f) = Clip(r - p)
  <2>1. Reward(e) = Clip((IF Correct(f) THEN 100 * u - 0 - 0 ELSE 0) - p + b)
    BY <1>1, <1>3, <1>4, <1>6 DEF Reward
  <2>2. Reward(f) = Clip((IF Correct(f) THEN 100 * u - 0 - 0 ELSE 0) - p + 0)
    BY <1>4, <1>6 DEF Reward
  <2>3. (IF Correct(f) THEN 100 * u - 0 - 0 ELSE 0) = r
    OBVIOUS
  <2> QED
    BY <2>1, <2>2, <2>3
<1>9. \A t : Clip(t) = Least(Most(t, lo), hi)
  BY DEF Clip
<1>10. 0 <= r /\ r <= 100 * u
  OBVIOUS
<1> QED
  BY <1>7, <1>8, <1>9, <1>10 DEF Least, Most

LEMMA FinishedPay ==
  ASSUME RolloutInv, phase = "finished", NEW i \in Rows
  PROVE  env[i] \in EnvRecord /\ Paid(i) = Reward(env[i])
<1>1. RolloutType /\ i \in 1..Len(batch)
  BY BatchRows DEF RolloutInv, RolloutType, Rows
<1>2. env[i] \in EnvRecord
  BY <1>1 DEF RolloutType
<1>3. EachRowJudgedOnce
  BY JudgedNow
<1> QED
  BY <1>2, <1>3 DEF EachRowJudgedOnce

\* Whatever the weights, running out never pays more than a wrong answer
\* (no_final_answer_verdict, compute_reward).
THEOREM UnansweredCorrect == rolloutSpec => []UnansweredPaysNoMore
<1>1. RolloutInv => UnansweredPaysNoMore
  BY FinishedPay, UnansweredOrder DEF UnansweredPaysNoMore
<1> QED
  BY <1>1, RolloutInitial, RolloutInductive, PTL DEF rolloutSpec

\* Where the clip leaves room for it, as in R4, the bonus of a tool call that
\* worked is paid whole, and answering beats running out (compute_reward).
THEOREM RewardCorrect == BonusHasRoom => (rolloutSpec => []RewardOrder)
<1> SUFFICES ASSUME BonusHasRoom PROVE rolloutSpec => []RewardOrder
  OBVIOUS
<1>1. RolloutInv => UnansweredPaysNoMore
  BY FinishedPay, UnansweredOrder DEF UnansweredPaysNoMore
<1>2. RolloutInv => ToolUsePays
  BY FinishedPay, BonusWhole DEF ToolUsePays
<1>3. RolloutInv => RewardOrder
  BY <1>1, <1>2 DEF RewardOrder
<1> QED
  BY <1>3, RolloutInitial, RolloutInductive, PTL DEF rolloutSpec
-----------------------------------------------------------------------------
(* The first version's trainer.                                             *)

LEMMA ProductsOrder ==
  ASSUME NEW b \in Nat, NEW n \in Nat
  PROVE  \A k \in Nat : k <= n => k * b \in Nat /\ k * b <= n * b
OBVIOUS

LEMMA Quotient ==
  ASSUME NEW m \in Nat, NEW b \in Nat \ {0}
  PROVE  \E q \in Nat, r \in 0..b - 1 : q = m \div b /\ m = b * q + r
BY DivMod

LEMMA MaxOfTwo ==
  ASSUME NEW a \in Int, NEW b \in Int
  PROVE  Max({a, b}) = IF a >= b THEN a ELSE b
<1> DEFINE m == Max({a, b})
<1>1. \E x \in {a, b} : \A y \in {a, b} : x >= y
  OBVIOUS
<1>2. m \in {a, b} /\ \A y \in {a, b} : m >= y
  BY <1>1 DEF Max
<1> HIDE DEF m
<1> QED
  BY <1>2 DEF m

LEMMA RewardParts ==
  ASSUME NEW t \in Trajectory
  PROVE  /\ EfficiencyReward(t) \in 0..100 /\ SafetyReward(t) \in 0..60
         /\ ConsistencyReward(t) \in 0..40
         /\ t.success => AccuracyReward(t) \in 200..300
         /\ ~t.success => AccuracyReward(t) \in (0 - 100)..0
<1>1. /\ t.steps \in Nat /\ t.tools \in Nat /\ t.errors \in Nat /\ t.matched \in 0..4
      /\ t.success \in BOOLEAN
  BY DEF Trajectory
<1>2. EfficiencyReward(t) \in 0..100
  <2> PICK m \in Int, l \in Int : m = 50 - 5 * (t.steps - 5) /\ l = 50 - 10 * (t.tools - 2)
    BY <1>1
  <2>0. Max({0, m}) = (IF 0 >= m THEN 0 ELSE m) /\ Max({0, l}) = (IF 0 >= l THEN 0 ELSE l)
    BY MaxOfTwo
  <2> DEFINE p == CASE t.steps = 0 -> 0 [] t.steps \in 1..5 -> 50 [] t.steps > 5 -> Max({0, m})
             q == IF t.tools <= 2 THEN 50 ELSE Max({0, l})
  <2>1. p \in 0..50
    BY <1>1, <2>0
  <2>2. q \in 0..50
    BY <1>1, <2>0
  <2>3. EfficiencyReward(t) = p + q
    BY DEF EfficiencyReward
  <2> HIDE DEF p, q
  <2> QED
    BY <2>1, <2>2, <2>3
<1>3. SafetyReward(t) \in 0..60
  <2> PICK w \in {0, 1} : w = When(t.revisits, 1)
    BY DEF When
  <2> PICK m : m = Max({0, 10 - 2 * t.errors - w})
    OBVIOUS
  <2>1. m \in 0..10
    BY <1>1, MaxOfTwo
  <2> QED
    BY <2>1 DEF SafetyReward
<1>4. ConsistencyReward(t) \in 0..40
  BY <1>1 DEF ConsistencyReward
<1>5. When(t.calculated, 40) \in {0, 40} /\ When(t.proved, 40) \in {0, 40}
      /\ When(t.medium, 20) \in {0, 20}
  BY DEF When
<1>6. /\ t.success => AccuracyReward(t) \in 200..300
      /\ ~t.success => AccuracyReward(t) \in (0 - 100)..0
  BY <1>5 DEF AccuracyReward
<1> QED
  BY <1>2, <1>3, <1>4, <1>6

LEMMA CompositeType ==
  ASSUME NEW t \in Trajectory
  PROVE  /\ CompositeReward(t) \in Int
         /\ t.success => CompositeReward(t) >= 200
         /\ ~t.success => CompositeReward(t) <= 200
<1> PICK a, b, c, d : /\ a = AccuracyReward(t) /\ b = EfficiencyReward(t)
                      /\ c = SafetyReward(t) /\ d = ConsistencyReward(t)
  OBVIOUS
<1>1. t.success \in BOOLEAN
  BY DEF Trajectory
<1>2. /\ b \in 0..100 /\ c \in 0..60 /\ d \in 0..40
      /\ t.success => a \in 200..300
      /\ ~t.success => a \in (0 - 100)..0
  BY RewardParts
<1>3. CompositeReward(t) = a + b + c + d
  BY DEF CompositeReward
<1> QED
  BY <1>1, <1>2, <1>3

\* How far k batches reach into a dataset of n items.
Reach(k, n) == IF k * MiniBatch <= n THEN k * MiniBatch ELSE n
Rewards(ds) == [i \in DOMAIN ds |-> CompositeReward(ds[i])]
FirstSum(v, m) == SumFunction([i \in 1..m |-> v[i]])

\* The metrics of a batch, told by what the batches before it reach.
BatchOf(m, ds, k) ==
  /\ m.size = Reach(k, Len(ds)) - Reach(k - 1, Len(ds))
  /\ m.reward = FirstSum(Rewards(ds), Reach(k, Len(ds)))
                  - FirstSum(Rewards(ds), Reach(k - 1, Len(ds)))

LEMMA BatchCount ==
  ASSUME NEW L \in Nat, NEW n, n = (L + MiniBatch - 1) \div MiniBatch
  PROVE  /\ n \in Nat /\ Reach(n, L) = L /\ Reach(0, L) = 0
         /\ \A k \in 0..n : Reach(k, L) \in 0..L
         /\ \A k \in 1..n : (k - 1) * MiniBatch < L
<1> PICK b \in Nat \ {0} : b = MiniBatch
  BY RlAssumption
<1> PICK m \in Nat : m = L + b - 1
  OBVIOUS
<1>1. PICK q \in Nat, r \in 0..b - 1 : q = m \div b /\ m = b * q + r
  BY Quotient
<1>2. n \in Nat /\ m = b * n + r
  BY <1>1
<1>3. n * b >= L /\ (n * b = L + b - 1 - r)
  BY <1>2
<1>4. \A k \in Nat : k <= n => k * b \in Nat /\ k * b <= n * b
  BY <1>2, ProductsOrder
<1>5. \A k \in 1..n : (k - 1) * b < L
  <2> SUFFICES ASSUME NEW k \in 1..n PROVE (k - 1) * b < L
    OBVIOUS
  <2>1. k \in Nat /\ k <= n /\ k * b \in Nat /\ k * b <= n * b
    BY <1>2, <1>4
  <2>2. (k - 1) * b = k * b - b
    BY <2>1
  <2> QED
    BY <1>3, <2>1, <2>2
<1>6. \A k \in 0..n : Reach(k, L) \in 0..L
  <2> SUFFICES ASSUME NEW k \in 0..n PROVE Reach(k, L) \in 0..L
    OBVIOUS
  <2>1. k * b \in Nat
    BY <1>2, <1>4
  <2> QED
    BY <2>1 DEF Reach
<1>7. Reach(n, L) = L
  BY <1>2, <1>3 DEF Reach
<1>8. Reach(0, L) = 0
  BY DEF Reach
<1> QED
  BY <1>2, <1>5, <1>6, <1>7, <1>8

\* The items from a up to z.
LEMMA PartItems ==
  ASSUME NEW A, NEW ds \in Seq(A), NEW a \in 0..Len(ds), NEW z \in a..Len(ds)
  PROVE  /\ SubSeq(ds, a + 1, z) \in Seq(A) /\ Len(SubSeq(ds, a + 1, z)) = z - a
         /\ \A i \in 1..z - a : SubSeq(ds, a + 1, z)[i] = ds[a + i]
<1> PICK f \in Int : f = a + 1
  OBVIOUS
<1>1. z \in Int /\ \A i \in f..z : ds[i] \in A
  OBVIOUS
<1>2. /\ SubSeq(ds, f, z) \in Seq(A)
      /\ Len(SubSeq(ds, f, z)) = IF f <= z THEN z - f + 1 ELSE 0
      /\ \A i \in 1..z - f + 1 : SubSeq(ds, f, z)[i] = ds[f + i - 1]
  BY <1>1, SubSeqProperties
<1>3. \A i \in 1..z - a : f + i - 1 = a + i /\ i \in 1..z - f + 1
  OBVIOUS
<1> QED
  BY <1>2, <1>3

\* The last item of a batch that begins after a.
LEMMA BatchEnd ==
  \A a \in Nat, b \in Nat \ {0}, L \in Nat :
    LET z == IF a + b <= L THEN a + b ELSE L
    IN  a < L => Min({a + b, L}) = z /\ z \in a..L
<1> SUFFICES ASSUME NEW a \in Nat, NEW b \in Nat \ {0}, NEW L \in Nat, a < L
             PROVE  LET z == IF a + b <= L THEN a + b ELSE L
                    IN  Min({a + b, L}) = z /\ z \in a..L
  OBVIOUS
<1> PICK c \in Nat : c = a + b
  OBVIOUS
<1> DEFINE P == {c, L}
<1>1. \E x \in P : \A y \in P : x <= y
  OBVIOUS
<1> PICK z : z = Min(P)
  OBVIOUS
<1>2. z \in P /\ \A y \in P : z <= y
  <2>1. z = CHOOSE x \in P : \A y \in P : x <= y
    BY DEF Min
  <2> HIDE DEF P
  <2> QED
    BY <1>1, <2>1
<1>3. z = IF c <= L THEN c ELSE L
  BY <1>2
<1> QED
  BY <1>3

\* What a batch of the trainer holds: the items between two reaches.
LEMMA BatchItems ==
  ASSUME NEW ds \in Seq(Trajectory), NEW n, n = (Len(ds) + MiniBatch - 1) \div MiniBatch,
         NEW k \in 0..n - 1
  PROVE  LET a == Reach(k, Len(ds))
             z == Reach(k + 1, Len(ds))
         IN  /\ k * MiniBatch = a /\ a \in 0..Len(ds) /\ z \in a..Len(ds)
             /\ Min({(k + 1) * MiniBatch, Len(ds)}) = z
<1> PICK L \in Nat : L = Len(ds)
  OBVIOUS
<1> PICK b \in Nat \ {0} : b = MiniBatch
  BY RlAssumption
<1>1. n \in Nat
  BY BatchCount
<1>2. k \in Nat /\ k + 1 \in 1..n /\ (k + 1) - 1 = k
  BY <1>1
<1>3. k * b < L
  BY <1>2, BatchCount
<1>4. \A q \in Nat : q * b \in Nat /\ (q + 1) * b = q * b + b
  OBVIOUS
<1>5. k * b \in Nat /\ (k + 1) * b = k * b + b
  BY <1>2, <1>4
<1> DEFINE z == IF k * b + b <= L THEN k * b + b ELSE L
<1>7. Min({k * b + b, L}) = z /\ z \in (k * b)..L
  BY <1>3, <1>5, BatchEnd
<1>8. Reach(k, L) = k * b /\ Reach(k + 1, L) = z
  BY <1>3, <1>5 DEF Reach
<1>9. k * b \in 0..L
  BY <1>3, <1>5
<1> HIDE DEF z
<1> QED
  BY <1>5, <1>7, <1>8, <1>9

MetricsRecord == [episode : Nat, size : Nat, reward : Int, successes : Nat]

LEMMA MetricsFields == \A m \in MetricsRecord : m.size \in Int /\ m.reward \in Int
BY DEF MetricsRecord

\* The sums a batch's metrics keep.
LEMMA SumOfType ==
  ASSUME NEW items \in Seq(Trajectory)
  PROVE  /\ SumOf(items, CompositeReward) \in Int
         /\ SumOf(items, LAMBDA t : When(t.success, 1)) \in Nat
<1> DEFINE D == 1..Len(items)
           f == [i \in D |-> CompositeReward(items[i])]
           h == [i \in D |-> When(items[i].success, 1)]
<1>1. DOMAIN items = D /\ IsFiniteSet(D) /\ \A i \in D : items[i] \in Trajectory
  BY UpToFinite
<1>2. f \in [D -> Int] /\ h \in [D -> Nat] /\ h \in [D -> Int]
  <2>1. \A i \in D : CompositeReward(items[i]) \in Int
    BY <1>1, CompositeType
  <2>2. \A i \in D : When(items[i].success, 1) \in Nat
    BY DEF When
  <2> HIDE DEF D
  <2> QED
    BY <2>1, <2>2
<1>3. /\ SumOf(items, CompositeReward) = SumFunction(f)
      /\ SumOf(items, LAMBDA t : When(t.success, 1)) = SumFunction(h)
  BY <1>1 DEF SumOf
<1> HIDE DEF f, h, D
<1>4. PICK g : IsSumOf(g, D, f) /\ g[D] = SumFunction(f)
  BY <1>1, <1>2, SumOver
<1>5. SumFunction(f) \in Int
  BY <1>4 DEF IsSumOf
<1>6. PICK k : IsSumOf(k, D, h) /\ k[D] = SumFunction(h)
  BY <1>1, <1>2, SumOver
<1>7. SumFunction(h) \in Nat
  BY <1>1, <1>2, <1>6, SumNat
<1> QED
  BY <1>3, <1>5, <1>7
-----------------------------------------------------------------------------
Checkpoint == [episode : Nat, metrics : Seq(MetricsRecord), overlaid : BOOLEAN]

\* The counter counts the metrics, and each knows its place.
Counts(h, n) == n = Len(h) /\ \A i \in 1..Len(h) : h[i].episode = i - 1

\* The last k metrics are those of the first k batches of a dataset.
BatchesOf(h, ds, k) ==
  k <= Len(h) /\ \A j \in 1..k : BatchOf(h[Len(h) - k + j], ds, j)

RlType ==
  /\ dataset \in Seq(Trajectory) /\ batchStart \in Nat /\ episode \in Nat
  /\ metricsHistory \in Seq(MetricsRecord) /\ overlaid \in BOOLEAN
  /\ \A n \in DOMAIN checkpoints : checkpoints[n] \in Checkpoint

RlInv ==
  /\ RlType
  /\ ~overlaid => Counts(metricsHistory, episode)
  /\ \A n \in DOMAIN checkpoints :
       ~checkpoints[n].overlaid => Counts(checkpoints[n].metrics, checkpoints[n].episode)
  /\ trainer = "batches" =>
       batchStart <= NumBatches /\ BatchesOf(metricsHistory, dataset, batchStart)

LEMMA RlInitial == rlInit => RlInv
<1> SUFFICES ASSUME rlInit PROVE RlInv
  OBVIOUS
<1>1. dataset \in Seq(Trajectory)
  <2>1. PICK n \in DatasetSizes : dataset \in [1..n -> Trajectories]
    BY DEF rlInit
  <2>2. n \in Nat /\ Trajectories \subseteq Trajectory
    BY RlAssumption
  <2>3. dataset \in [1..n -> Trajectory]
    BY <2>1, <2>2
  <2> HIDE DEF Trajectory
  <2> QED
    BY <2>2, <2>3
<1>2. /\ batchStart = 0 /\ episode = 0 /\ metricsHistory = << >> /\ overlaid = FALSE
      /\ DOMAIN checkpoints = {} /\ trainer = "idle"
  BY DEF rlInit, NoCheckpoints
<1>3. << >> \in Seq(MetricsRecord) /\ Counts(<< >>, 0)
  BY DEF Counts
<1> QED
  BY <1>1, <1>2, <1>3 DEF RlInv, RlType

\* A batch's metrics are those of its part of the dataset.
LEMMA MetricsFit ==
  ASSUME dataset \in Seq(Trajectory), episode \in Nat, batchStart \in Nat,
         batchStart < NumBatches, NEW m,
         m = Metrics(SubSeq(dataset, batchStart * MiniBatch + 1,
                            Min({(batchStart + 1) * MiniBatch, Len(dataset)})))
  PROVE  m \in MetricsRecord /\ m.episode = episode /\ BatchOf(m, dataset, batchStart + 1)
<1> PICK n : n = NumBatches
  OBVIOUS
<1> PICK k : k = batchStart
  OBVIOUS
<1> PICK ds \in Seq(Trajectory) : ds = dataset
  OBVIOUS
<1> PICK L \in Nat : L = Len(ds)
  OBVIOUS
<1>1. n = (Len(ds) + MiniBatch - 1) \div MiniBatch
  BY DEF NumBatches
<1>2. n \in Nat
  BY <1>1, BatchCount
<1>3. k \in 0..n - 1
  BY <1>2
<1> PICK a : a = Reach(k, L)
  OBVIOUS
<1> PICK z : z = Reach(k + 1, L)
  OBVIOUS
<1>4. /\ k * MiniBatch = a /\ a \in 0..L /\ z \in a..L
      /\ Min({(k + 1) * MiniBatch, L}) = z
  BY <1>1, <1>3, BatchItems
<1> PICK items : items = SubSeq(ds, a + 1, z)
  OBVIOUS
<1>5. m = Metrics(items)
  BY <1>4
<1>6. items \in Seq(Trajectory) /\ Len(items) = z - a
      /\ \A i \in 1..z - a : items[i] = ds[a + i]
  BY <1>4, PartItems
<1> PICK s : s = SumOf(items, CompositeReward)
  OBVIOUS
<1> PICK t : t = SumOf(items, LAMBDA u : When(u.success, 1))
  OBVIOUS
<1>7. s \in Int /\ t \in Nat
  BY <1>6, SumOfType
<1>8. m = [episode |-> episode, size |-> Len(items), reward |-> s, successes |-> t]
  BY <1>5 DEF Metrics
<1>9. s = FirstSum(Rewards(ds), z) - FirstSum(Rewards(ds), a)
  <2> DEFINE v == Rewards(ds)
  <2>1. v \in [1..L -> Int]
    BY CompositeType DEF Rewards
  <2>2. s = SumFunction([i \in 1..z - a |-> v[a + i]])
    <3>1. DOMAIN items = 1..z - a /\ \A i \in 1..z - a : a + i \in DOMAIN ds
      BY <1>4, <1>6
    <3>2. s = SumFunction([i \in 1..z - a |-> CompositeReward(items[i])])
      BY <3>1 DEF SumOf
    <3>3. \A i \in 1..z - a : v[a + i] = CompositeReward(items[i])
      BY <1>6, <3>1 DEF Rewards
    <3> HIDE DEF v
    <3> QED
      BY <3>2, <3>3
  <2> HIDE DEF v
  <2>3. SumFunction([i \in 1..z - a |-> v[a + i]]) =
          SumFunction([i \in 1..z |-> v[i]]) - SumFunction([i \in 1..a |-> v[i]])
    BY <1>4, <2>1, SumPart
  <2> QED
    BY <2>2, <2>3 DEF FirstSum, v
<1>10. m \in MetricsRecord /\ m.episode = episode /\ m.size = z - a /\ m.reward = s
  <2>1. Len(items) \in Nat
    BY <1>6
  <2> QED
    BY <1>6, <1>7, <1>8, <2>1 DEF MetricsRecord
<1>11. (k + 1) - 1 = k
  BY <1>3
<1> QED
  BY <1>9, <1>10, <1>11 DEF BatchOf

LEMMA ShuffleStep ==
  ASSUME RlInv, Shuffle
  PROVE  RlInv'
<1>1. /\ batchStart' = 0
      /\ UNCHANGED <<episode, metricsHistory, checkpoints, overlaid>>
  BY DEF Shuffle
<1>2. PICK order \in Bijection(DOMAIN dataset, DOMAIN dataset) :
        dataset' = [i \in DOMAIN dataset |-> dataset[order[i]]]
  BY DEF Shuffle
<1>3. dataset \in Seq(Trajectory) /\ metricsHistory \in Seq(MetricsRecord)
  BY DEF RlInv, RlType
<1>4. dataset' \in Seq(Trajectory) /\ Len(dataset') \in Nat
  <2>1. \A i \in 1..Len(dataset) : order[i] \in 1..Len(dataset)
    BY <1>2, <1>3 DEF Bijection, Injection
  <2>2. dataset' \in [1..Len(dataset) -> Trajectory] /\ Len(dataset) \in Nat
    BY <1>2, <1>3, <2>1
  <2> HIDE DEF Trajectory
  <2> QED
    BY <2>2
<1>5. NumBatches' \in Nat
  <2> PICK n : n = NumBatches'
    OBVIOUS
  <2> PICK L \in Nat : L = Len(dataset')
    BY <1>4
  <2>1. n = (L + MiniBatch - 1) \div MiniBatch
    BY DEF NumBatches
  <2> QED
    BY <2>1, BatchCount
<1>6. 0 <= NumBatches' /\ BatchesOf(metricsHistory, dataset', 0)
  BY <1>3, <1>5 DEF BatchesOf
<1> QED
  BY <1>1, <1>4, <1>6 DEF RlInv, RlType

LEMMA TrainBatchStep ==
  ASSUME RlInv, TrainBatch
  PROVE  RlInv'
<1> PICK m : m = Metrics(SubSeq(dataset, batchStart * MiniBatch + 1,
                                Min({(batchStart + 1) * MiniBatch, Len(dataset)})))
  OBVIOUS
<1>1. /\ trainer = "batches" /\ batchStart < NumBatches
      /\ metricsHistory' = Append(metricsHistory, m)
      /\ episode' = episode + 1 /\ batchStart' = batchStart + 1
      /\ UNCHANGED <<dataset, checkpoints, trainer, overlaid>>
  BY DEF TrainBatch
<1>2. /\ dataset \in Seq(Trajectory) /\ batchStart \in Nat /\ episode \in Nat
      /\ metricsHistory \in Seq(MetricsRecord) /\ overlaid \in BOOLEAN
      /\ BatchesOf(metricsHistory, dataset, batchStart)
      /\ ~overlaid => Counts(metricsHistory, episode)
  BY <1>1 DEF RlInv, RlType
<1>3. m \in MetricsRecord /\ m.episode = episode /\ BatchOf(m, dataset, batchStart + 1)
  BY <1>1, <1>2, MetricsFit
<1> PICK h \in Seq(MetricsRecord) : h = metricsHistory
  BY <1>2
<1> PICK k \in Nat : k = batchStart
  BY <1>2
<1> PICK a : a = Append(h, m)
  OBVIOUS
<1> HIDE DEF MetricsRecord
<1>4. /\ a \in Seq(MetricsRecord) /\ Len(a) = Len(h) + 1 /\ a[Len(h) + 1] = m
      /\ \A i \in 1..Len(h) : a[i] = h[i]
  BY <1>3
<1>5. BatchesOf(a, dataset, k + 1)
  <2>1. k <= Len(h) /\ \A j \in 1..k : BatchOf(h[Len(h) - k + j], dataset, j)
    BY <1>2 DEF BatchesOf
  <2>2. ASSUME NEW j \in 1..k + 1
        PROVE  BatchOf(a[Len(a) - (k + 1) + j], dataset, j)
    <3>1. CASE j = k + 1
      <4>1. Len(a) - (k + 1) + j = Len(h) + 1
        BY <1>4, <3>1
      <4> QED
        BY <1>3, <1>4, <3>1, <4>1
    <3>2. CASE j # k + 1
      <4>1. /\ j \in 1..k /\ Len(a) - (k + 1) + j = Len(h) - k + j
            /\ Len(h) - k + j \in 1..Len(h)
        BY <1>4, <2>1, <3>2
      <4> QED
        BY <1>4, <2>1, <4>1
    <3> QED
      BY <3>1, <3>2
  <2>3. k + 1 <= Len(a)
    BY <1>4, <2>1
  <2> QED
    BY <2>2, <2>3 DEF BatchesOf
<1>6. ~overlaid => Counts(a, episode + 1)
  <2> SUFFICES ASSUME ~overlaid PROVE Counts(a, episode + 1)
    OBVIOUS
  <2>1. episode = Len(h) /\ \A i \in 1..Len(h) : h[i].episode = i - 1
    BY <1>2 DEF Counts
  <2>2. \A i \in 1..Len(a) : i \in 1..Len(h) \/ i = Len(h) + 1
    BY <1>4
  <2> QED
    BY <1>3, <1>4, <2>1, <2>2 DEF Counts
<1>7. NumBatches' = NumBatches /\ batchStart + 1 <= NumBatches
  <2> PICK n : n = NumBatches
    OBVIOUS
  <2> PICK L \in Nat : L = Len(dataset)
    BY <1>2
  <2>1. n = (L + MiniBatch - 1) \div MiniBatch
    BY DEF NumBatches
  <2>2. n \in Nat
    BY <2>1, BatchCount
  <2>3. NumBatches' = NumBatches
    BY <1>1 DEF NumBatches
  <2> QED
    BY <1>1, <2>2, <2>3
<1> QED
  BY <1>1, <1>2, <1>4, <1>5, <1>6, <1>7 DEF RlInv, RlType

LEMMA CheckpointKept ==
  ASSUME RlInv, NEW n, NEW count \in Nat, ~overlaid => Counts(metricsHistory, count),
         checkpoints' = WithCheckpoint(n, count)
  PROVE  \A k \in DOMAIN checkpoints' :
           /\ checkpoints'[k] \in Checkpoint
           /\ ~checkpoints'[k].overlaid =>
                Counts(checkpoints'[k].metrics, checkpoints'[k].episode)
<1> SUFFICES ASSUME NEW k \in DOMAIN checkpoints'
             PROVE  /\ checkpoints'[k] \in Checkpoint
                    /\ ~checkpoints'[k].overlaid =>
                         Counts(checkpoints'[k].metrics, checkpoints'[k].episode)
  OBVIOUS
<1> DEFINE new == [episode |-> count, metrics |-> metricsHistory, overlaid |-> overlaid]
<1>1. /\ k \in DOMAIN checkpoints \cup {n}
      /\ checkpoints'[k] = IF k = n THEN new ELSE checkpoints[k]
  BY DEF WithCheckpoint
<1>2. /\ new \in Checkpoint /\ new.overlaid = overlaid
      /\ new.metrics = metricsHistory /\ new.episode = count
  BY DEF RlInv, RlType, Checkpoint
<1> HIDE DEF new
<1>3. k # n => checkpoints[k] \in Checkpoint /\
        (~checkpoints[k].overlaid => Counts(checkpoints[k].metrics, checkpoints[k].episode))
  BY <1>1 DEF RlInv, RlType
<1> QED
  BY <1>1, <1>2, <1>3

LEMMA EndEpochStep ==
  ASSUME RlInv, EndEpoch
  PROVE  RlInv'
<1>1. /\ trainer' \in {"raised", "epoch"}
      /\ UNCHANGED <<dataset, batchStart, episode, metricsHistory, overlaid>>
      /\ checkpoints' = checkpoints \/ checkpoints' = WithCheckpoint(epoch + 1, episode)
  BY DEF EndEpoch
<1>2. \A n \in DOMAIN checkpoints' :
        /\ checkpoints'[n] \in Checkpoint
        /\ ~checkpoints'[n].overlaid =>
             Counts(checkpoints'[n].metrics, checkpoints'[n].episode)
  <2>1. CASE checkpoints' = checkpoints
    BY <2>1 DEF RlInv, RlType
  <2>2. CASE checkpoints' = WithCheckpoint(epoch + 1, episode)
    <3>1. episode \in Nat /\ (~overlaid => Counts(metricsHistory, episode))
      BY DEF RlInv, RlType
    <3> PICK n : n = epoch + 1
      OBVIOUS
    <3> QED
      BY <2>2, <3>1, CheckpointKept
  <2> QED
    BY <1>1, <2>1, <2>2
<1> QED
  BY <1>1, <1>2 DEF RlInv, RlType

LEMMA SaveResultsStep ==
  ASSUME RlInv, SaveResults
  PROVE  RlInv'
<1>1. /\ trainer' = "raised"
      /\ UNCHANGED <<dataset, batchStart, episode, metricsHistory, overlaid>>
      /\ checkpoints' = WithCheckpoint(0, Len(metricsHistory))
  BY DEF SaveResults
<1>2. /\ Len(metricsHistory) \in Nat
      /\ ~overlaid => Counts(metricsHistory, Len(metricsHistory))
  BY DEF RlInv, RlType, Counts
<1>3. \A n \in DOMAIN checkpoints' :
        /\ checkpoints'[n] \in Checkpoint
        /\ ~checkpoints'[n].overlaid =>
             Counts(checkpoints'[n].metrics, checkpoints'[n].episode)
  BY <1>1, <1>2, CheckpointKept
<1> QED
  BY <1>1, <1>3 DEF RlInv, RlType

LEMMA LoadStep ==
  ASSUME RlInv, NEW n \in DOMAIN checkpoints, LoadCheckpoint(n)
  PROVE  RlInv'
<1> PICK c : c = checkpoints[n]
  OBVIOUS
<1>1. /\ trainer = "idle" /\ episode' = c.episode
      /\ metricsHistory' = metricsHistory \o c.metrics
      /\ overlaid' = (overlaid \/ metricsHistory # << >> \/ c.overlaid)
      /\ UNCHANGED <<dataset, batchStart, checkpoints, trainer>>
  BY DEF LoadCheckpoint, RestoredEpisode
<1>2. /\ c \in Checkpoint /\ metricsHistory \in Seq(MetricsRecord)
      /\ ~c.overlaid => Counts(c.metrics, c.episode)
  BY DEF RlInv, RlType
<1>3. c.episode \in Nat /\ c.metrics \in Seq(MetricsRecord) /\ c.overlaid \in BOOLEAN
  BY <1>2 DEF Checkpoint
<1> HIDE DEF MetricsRecord
<1>4. metricsHistory \o c.metrics \in Seq(MetricsRecord)
  BY <1>2, <1>3
<1>5. metricsHistory = << >> => metricsHistory \o c.metrics = c.metrics
  BY <1>3
<1>6. ~overlaid' => Counts(metricsHistory', episode')
  BY <1>1, <1>2, <1>5
<1>7. overlaid' \in BOOLEAN
  BY <1>1
<1> QED
  BY <1>1, <1>3, <1>4, <1>6, <1>7 DEF RlInv, RlType

LEMMA RlInductive ==
  ASSUME RlInv, [rlNext]_rlVars
  PROVE  RlInv'
<1>1. ASSUME NEW n \in EpochCounts, StartTrain(n) PROVE RlInv'
  BY <1>1 DEF StartTrain, RlInv, RlType
<1>2. CASE TrainReturns
  BY <1>2 DEF TrainReturns, RlInv, RlType
<1>3. CASE NewTrainer
  <2>1. Counts(<< >>, 0) /\ << >> \in Seq(MetricsRecord)
    BY DEF Counts
  <2> QED
    BY <1>3, <2>1 DEF NewTrainer, RlInv, RlType
<1>4. CASE UNCHANGED rlVars
  <2>1. UNCHANGED <<dataset, batchStart, episode, metricsHistory, checkpoints, trainer,
                    overlaid>> /\ NumBatches' = NumBatches
    BY <1>4 DEF rlVars, NumBatches
  <2> QED
    BY <2>1 DEF RlInv, RlType
<1>5. CASE Shuffle
  BY <1>5, ShuffleStep
<1>6. CASE TrainBatch
  BY <1>6, TrainBatchStep
<1>7. CASE EndEpoch
  BY <1>7, EndEpochStep
<1>8. CASE SaveResults
  BY <1>8, SaveResultsStep
<1>9. CASE \E n \in DOMAIN checkpoints : LoadCheckpoint(n)
  BY <1>9, LoadStep
<1> QED
  BY <1>1, <1>2, <1>3, <1>4, <1>5, <1>6, <1>7, <1>8, <1>9 DEF rlNext

LEMMA SeqIn ==
  ASSUME NEW A, NEW s \in Seq(A)
  PROVE  \A i \in 1..Len(s) : s[i] \in A
OBVIOUS

IsEnd(q, h, n, A) ==
  h \in Seq(A) /\ n \in Nat /\ n <= Len(h) /\ q = SubSeq(h, Len(h) - n + 1, Len(h))

HasLast(q, h, n, A) ==
  q \in Seq(A) /\ Len(q) = n /\ \A i \in 1..n : q[i] = h[Len(h) - n + i]

LEMMA EndItems ==
  ASSUME NEW A, NEW h, NEW n, NEW q, IsEnd(q, h, n, A)
  PROVE  HasLast(q, h, n, A)
<1>0. h \in Seq(A) /\ n \in Nat /\ n <= Len(h) /\ q = SubSeq(h, Len(h) - n + 1, Len(h))
  BY DEF IsEnd
<1> DEFINE z == Len(h)
           a == z - n
           part == SubSeq(h, a + 1, z)
<1>1. z \in Nat /\ a \in 0..z /\ z \in a..z /\ z - a = n /\ z - n + 1 = a + 1
  BY <1>0
<1>2. q = part
  BY <1>0, <1>1
<1> HIDE DEF part
<1>3. part \in Seq(A) /\ Len(part) = z - a /\ \A i \in 1..z - a : part[i] = h[a + i]
  BY <1>0, <1>1, PartItems DEF part
<1> QED
  BY <1>1, <1>2, <1>3 DEF HasLast

\* The metrics of an epoch's batches add up to its dataset's.
LEMMA EpochAddsUp ==
  ASSUME NEW ds \in Seq(Trajectory), NEW h \in Seq(MetricsRecord), NEW n,
         n = (Len(ds) + MiniBatch - 1) \div MiniBatch, BatchesOf(h, ds, n),
         NEW own, own = SubSeq(h, Len(h) - n + 1, Len(h))
  PROVE  /\ SumOf(own, LAMBDA m : m.size) = Len(ds)
         /\ SumOf(own, LAMBDA m : m.reward) = SumOf(ds, CompositeReward)
<1> PICK L \in Nat : L = Len(ds)
  OBVIOUS
<1>1. /\ n \in Nat /\ Reach(n, L) = L /\ Reach(0, L) = 0
      /\ \A k \in 0..n : Reach(k, L) \in 0..L
  <2>1. n = (L + MiniBatch - 1) \div MiniBatch
    OBVIOUS
  <2> QED
    BY <2>1, BatchCount
<1>2. n <= Len(h) /\ \A j \in 1..n : BatchOf(h[Len(h) - n + j], ds, j)
  BY DEF BatchesOf
<1> PICK a : a = Len(h) - n
  OBVIOUS
<1>3. a \in 0..Len(h) /\ Len(h) \in a..Len(h) /\ Len(h) - a = n
  BY <1>1, <1>2
<1> HIDE DEF MetricsRecord
<1>4. own \in Seq(MetricsRecord) /\ Len(own) = n /\ \A i \in 1..n : own[i] = h[a + i]
  <2>1. n \in Nat /\ n <= Len(h)
    BY <1>1, <1>2
  <2>2. IsEnd(own, h, n, MetricsRecord)
    BY <2>1 DEF IsEnd
  <2>3. HasLast(own, h, n, MetricsRecord)
    BY <2>2, EndItems
  <2> QED
    BY <2>3 DEF HasLast
<1> DEFINE v == Rewards(ds)
<1>5. v \in [1..L -> Int] /\ DOMAIN ds = 1..L
  BY CompositeType DEF Rewards
<1>6. \A m \in 0..L : FirstSum(v, m) \in Int
  <2> SUFFICES ASSUME NEW m \in 0..L PROVE FirstSum(v, m) \in Int
    OBVIOUS
  <2>1. L \in m..L
    OBVIOUS
  <2> HIDE DEF v
  <2> QED
    BY <1>5, <2>1, SumPart DEF FirstSum
<1> DEFINE g == [k \in 0..n |-> Reach(k, L)]
           w == [k \in 0..n |-> FirstSum(v, Reach(k, L))]
           r == [i \in 1..n |-> own[i].size]
           s == [i \in 1..n |-> own[i].reward]
<1>7. \A j \in 1..n : /\ own[j].size = Reach(j, L) - Reach(j - 1, L)
                      /\ own[j].reward = FirstSum(v, Reach(j, L)) - FirstSum(v, Reach(j - 1, L))
  <2> SUFFICES ASSUME NEW j \in 1..n PROVE BatchOf(own[j], ds, j)
    BY DEF BatchOf
  <2>1. own[j] = h[Len(h) - n + j]
    BY <1>4
  <2> QED
    BY <1>2, <2>1
<1> HIDE DEF v
<1>8. g \in [0..n -> Int] /\ w \in [0..n -> Int]
  BY <1>1, <1>6
<1>9. r \in [1..n -> Int] /\ s \in [1..n -> Int]
  <2>1. \A i \in 1..n : own[i] \in MetricsRecord
    BY <1>4, SeqIn
  <2>2. \A i \in 1..n : own[i].size \in Int /\ own[i].reward \in Int
    BY <2>1, MetricsFields, Zenon
  <2> QED
    BY <2>2
<1>10. ASSUME NEW j \in 1..n
       PROVE  r[j] = g[j] - g[j - 1] /\ s[j] = w[j] - w[j - 1]
  <2>1. j \in 0..n /\ j - 1 \in 0..n
    BY <1>1
  <2> QED
    BY <1>7, <2>1
<1>11. g[n] = L /\ g[0] = 0 /\ w[n] = FirstSum(v, L) /\ w[0] = FirstSum(v, 0)
  BY <1>1
<1>12. FirstSum(v, 0) = 0
  <2> DEFINE f == [i \in 1..0 |-> v[i]]
  <2>1. IsFiniteSet(1..0) /\ f \in [1..0 -> Int] /\ \A y \in 1..0 : f[y] = 0
    BY UpToFinite
  <2> HIDE DEF f
  <2>2. SumFunction(f) = 0
    BY <2>1, SumZeros
  <2> QED
    BY <2>2 DEF f, FirstSum
<1> HIDE DEF g, w, r, s
<1>13. SumFunction(r) = L /\ SumFunction(s) = FirstSum(v, L)
  <2>1. SumFunction(r) = g[n] - g[0]
    BY <1>1, <1>8, <1>9, <1>10, Telescope
  <2>2. SumFunction(s) = w[n] - w[0]
    BY <1>1, <1>8, <1>9, <1>10, Telescope
  <2>3. FirstSum(v, L) \in Int
    BY <1>6
  <2> QED
    BY <1>11, <1>12, <2>1, <2>2, <2>3
<1>14. DOMAIN own = 1..n
  BY <1>4
<1>15. SumOf(own, LAMBDA m : m.size) = SumFunction(r) /\
       SumOf(own, LAMBDA m : m.reward) = SumFunction(s)
  BY <1>14 DEF SumOf, r, s
<1>16. SumOf(ds, CompositeReward) = FirstSum(v, L)
  <2>1. SumOf(ds, CompositeReward) = SumFunction(v)
    BY DEF SumOf, Rewards, v
  <2>2. v = [i \in 1..L |-> v[i]]
    BY <1>5
  <2> QED
    BY <2>1, <2>2 DEF FirstSum
<1> QED
  BY <1>13, <1>15, <1>16

\* Each epoch trains every item once, its metrics add up to the dataset's, and
\* the counter counts them across restarts (train, load_checkpoint).
THEOREM EpochCorrect == rlSpec => []EpochTrainsAll
<1>1. RlInv => EpochTrainsAll
  <2> SUFFICES ASSUME RlInv PROVE EpochTrainsAll
    OBVIOUS
  <2>1. ASSUME trainer = "batches", batchStart = NumBatches,
               NEW own, own = SubSeq(metricsHistory, Len(metricsHistory) - NumBatches + 1,
                                     Len(metricsHistory))
        PROVE  /\ SumOf(own, LAMBDA m : m.size) = Len(dataset)
               /\ SumOf(own, LAMBDA m : m.reward) = SumOf(dataset, CompositeReward)
    <3> PICK n : n = NumBatches
      OBVIOUS
    <3>1. /\ dataset \in Seq(Trajectory) /\ metricsHistory \in Seq(MetricsRecord)
          /\ BatchesOf(metricsHistory, dataset, n)
      BY <2>1 DEF RlInv, RlType
    <3>2. n = (Len(dataset) + MiniBatch - 1) \div MiniBatch
      BY DEF NumBatches
    <3> QED
      BY <2>1, <3>1, <3>2, EpochAddsUp
  <2>2. ~overlaid => /\ episode = Len(metricsHistory)
                     /\ \A i \in DOMAIN metricsHistory : metricsHistory[i].episode = i - 1
    BY DEF RlInv, RlType, Counts
  <2> QED
    BY <2>1, <2>2 DEF EpochTrainsAll
<1> QED
  BY <1>1, RlInitial, RlInductive, PTL DEF rlSpec

\* No failed trajectory is paid more than a successful one, whatever its
\* length, tools, errors and wording (create_default_reward_function).
THEOREM SuccessCorrect == rlSpec => []SuccessPaysMost
<1>1. RlInv => SuccessPaysMost
  <2> SUFFICES ASSUME RlInv, NEW i \in DOMAIN dataset, NEW j \in DOMAIN dataset,
                      dataset[i].success, ~dataset[j].success
               PROVE  CompositeReward(dataset[i]) >= CompositeReward(dataset[j])
    BY DEF SuccessPaysMost
  <2>1. dataset[i] \in Trajectory /\ dataset[j] \in Trajectory
    BY DEF RlInv, RlType
  <2> PICK t, u : t = dataset[i] /\ u = dataset[j]
    OBVIOUS
  <2>2. /\ CompositeReward(t) \in Int /\ CompositeReward(u) \in Int
        /\ CompositeReward(t) >= 200 /\ CompositeReward(u) <= 200
    BY <2>1, CompositeType
  <2> QED
    BY <2>2
<1> QED
  BY <1>1, RlInitial, RlInductive, PTL DEF rlSpec
-----------------------------------------------------------------------------
(* Demonstrations of a source.                                             *)

Outcomes == {"canonicalize", "duplicate_task", "missing_solution",
             "source_solution_empty", "source_solution_reserved_protocol_tag",
             "accepted_strict", "strict_refused", "accepted_terminal",
             "terminal_refused"}
Diagnostics == [row : 1..SourceRows, task : SourceTasks \cup {NoTask},
                outcome : Outcomes]

\* The rows, and the orders they are read in, are what was loaded.
SourceLoaded ==
  /\ mode \in {"direct", "python_tir"}
  /\ \A r \in 1..SourceRows :
       /\ Task(r) \in SourceTasks \cup {NoTask}
       /\ Task(r) # NoTask =>
            Solution(r) \in IF mode = "direct" THEN Solutions ELSE TirSolutions
  /\ sortOrder \in [1..SourceRows -> 1..SourceRows]
  /\ \A i, j \in 1..SourceRows : sortOrder[i] = sortOrder[j] => i = j
  /\ \A r \in 1..SourceRows : \E i \in 1..SourceRows : sortOrder[i] = r
  /\ batchSize \in Nat \ {0}

\* The rows of `seen` that a demonstration was made of: one for each task that
\* has a fit row among them.
OneForEachTask(retained, seen) ==
  /\ retained \subseteq seen
  /\ \A r \in retained : Fit(r)
  /\ \A r, s \in retained : r # s => Task(r) # Task(s)
  /\ \A r \in seen : Fit(r) => \E s \in retained : Task(s) = Task(r)

AcceptedLine(line, r) == line.row = r /\ line.task = Task(r) /\ Accepted(line.outcome)

\* Of a task whose rows were found alike twice, the lines say accepted of r.
AcceptedIn(made, r) ==
  Explained(Task(r)) => \E i \in 1..Len(made) : AcceptedLine(made[i], r)

\* What materialize_direct_records has made of the rows `seen`.
MadeOf(done, seen) ==
  /\ OneForEachTask(done.retained, seen)
  /\ done.made \in Seq(Diagnostics) /\ Len(done.made) = Cardinality(seen)
  /\ \A r \in done.retained : AcceptedIn(done.made, r)

LEMMA AppendFacts ==
  ASSUME NEW S, NEW s \in Seq(S), NEW e \in S
  PROVE  /\ Append(s, e) \in Seq(S) /\ Len(Append(s, e)) = Len(s) + 1
         /\ \A i \in 1..Len(s) : Append(s, e)[i] = s[i]
         /\ Append(s, e)[Len(s) + 1] = e
OBVIOUS

LEMMA AcceptedAppend ==
  ASSUME NEW made \in Seq(Diagnostics), NEW e \in Diagnostics, NEW r,
         AcceptedIn(made, r) \/ (Explained(Task(r)) => AcceptedLine(e, r))
  PROVE  AcceptedIn(Append(made, e), r)
<1> DEFINE a == Append(made, e)
<1>1. /\ a \in Seq(Diagnostics) /\ Len(a) = Len(made) + 1
      /\ \A i \in 1..Len(made) : a[i] = made[i]
      /\ a[Len(made) + 1] = e
  BY AppendFacts
<1> HIDE DEF a
<1>2. \A i \in 1..Len(made) : i \in 1..Len(a)
  BY <1>1
<1>3. Len(made) + 1 \in 1..Len(a)
  BY <1>1
<1>4. AcceptedIn(a, r)
  <2>1. CASE AcceptedIn(made, r)
    BY <1>1, <1>2, <2>1 DEF AcceptedIn
  <2>2. CASE Explained(Task(r)) => AcceptedLine(e, r)
    BY <1>1, <1>3, <2>2 DEF AcceptedIn
  <2> QED
    BY <2>1, <2>2
<1> QED
  BY <1>4 DEF a

LEMMA OutcomeIs ==
  ASSUME SourceLoaded, mode = "direct", NEW row \in 1..SourceRows, NEW done
  PROVE  LET outcome == Disposition(row, done)
         IN  /\ outcome \in Outcomes
             /\ Retains(row, outcome) =>
                  /\ Fit(row) /\ (Explained(Task(row)) => Accepted(outcome))
                  /\ ~ \E r \in done.retained : Task(r) = Task(row)
             /\ Fit(row) /\ ~Retains(row, outcome) =>
                  \E r \in done.retained : Task(r) = Task(row)
<1> DEFINE outcome == Disposition(row, done)
<1>1. outcome \in Outcomes
  BY DEF Disposition, Classified, Outcomes
<1>2. ASSUME Retains(row, outcome)
      PROVE  /\ Fit(row) /\ (Explained(Task(row)) => Accepted(outcome))
             /\ ~ \E r \in done.retained : Task(r) = Task(row)
  <2>1. /\ outcome \notin {"canonicalize", "duplicate_task", "missing_solution"}
        /\ MakesTrace(Solution(row))
    BY <1>2 DEF Retains
  <2>2. /\ Task(row) # NoTask
        /\ ~ \E r \in done.retained : Task(r) = Task(row)
        /\ outcome = Classified(Solution(row))
    BY <2>1 DEF Disposition
  <2>3. ASSUME Explained(Task(row)) PROVE Accepted(outcome)
    <3>1. Solution(row).explained = Solution(row).traced
      BY <2>3 DEF Explained
    <3> QED
      BY <2>1, <2>2, <3>1 DEF MakesTrace, Resolves, Classified, Accepted
  <2> QED
    BY <2>1, <2>2, <2>3 DEF Fit
<1>3. ASSUME Fit(row), ~Retains(row, outcome)
      PROVE  \E r \in done.retained : Task(r) = Task(row)
  <2>1. Task(row) # NoTask /\ MakesTrace(Solution(row))
    BY <1>3 DEF Fit
  <2>2. outcome \in {"canonicalize", "duplicate_task", "missing_solution"}
    BY <1>3, <2>1 DEF Retains
  <2>3. Solution(row).text # "not_a_string"
    BY <2>1 DEF MakesTrace
  <2>4. Classified(Solution(row)) \notin {"canonicalize", "duplicate_task", "missing_solution"}
    BY DEF Classified
  <2> QED
    BY <2>1, <2>2, <2>3, <2>4 DEF Disposition
<1> QED
  BY <1>1, <1>2, <1>3

LEMMA OneMoreRow ==
  ASSUME SourceLoaded, mode = "direct", NEW seen \in SUBSET (1..SourceRows),
         NEW row \in (1..SourceRows) \ seen, NEW done, MadeOf(done, seen)
  PROVE  MadeOf(MaterializeRow(done, row), seen \cup {row})
<1> DEFINE outcome == Disposition(row, done)
           line == [row |-> row, task |-> Task(row), outcome |-> outcome]
           next == MaterializeRow(done, row)
<1>1. /\ outcome \in Outcomes
      /\ Retains(row, outcome) =>
           /\ Fit(row) /\ (Explained(Task(row)) => Accepted(outcome))
           /\ ~ \E r \in done.retained : Task(r) = Task(row)
      /\ Fit(row) /\ ~Retains(row, outcome) =>
           \E r \in done.retained : Task(r) = Task(row)
  BY OutcomeIs
<1>2. /\ next.retained = IF Retains(row, outcome) THEN done.retained \cup {row}
                         ELSE done.retained
      /\ next.made = Append(done.made, line)
  BY DEF MaterializeRow
<1> HIDE DEF next, outcome
<1>3. /\ line \in Diagnostics /\ line.row = row /\ line.task = Task(row)
      /\ line.outcome = outcome
  BY <1>1 DEF SourceLoaded, Diagnostics
<1> HIDE DEF line
<1>4. OneForEachTask(next.retained, seen \cup {row})
  <2>1. OneForEachTask(done.retained, seen)
    BY DEF MadeOf
  <2>2. CASE Retains(row, outcome)
    BY <1>1, <1>2, <2>1, <2>2 DEF OneForEachTask
  <2>3. CASE ~Retains(row, outcome)
    BY <1>1, <1>2, <2>1, <2>3 DEF OneForEachTask
  <2> QED
    BY <2>2, <2>3
<1>5. next.made \in Seq(Diagnostics) /\ Len(next.made) = Cardinality(seen) + 1
  BY <1>2, <1>3, AppendFacts DEF MadeOf
<1>6. Cardinality(seen \cup {row}) = Cardinality(seen) + 1
  <2>1. IsFiniteSet(seen)
    BY SourceAssumption, UpToFinite, FS_Subset
  <2> QED
    BY <2>1, FS_AddElement
<1>7. \A r \in next.retained : AcceptedIn(next.made, r)
  <2> SUFFICES ASSUME NEW r \in next.retained PROVE AcceptedIn(next.made, r)
    OBVIOUS
  <2>1. done.made \in Seq(Diagnostics)
    BY DEF MadeOf
  <2>2. AcceptedIn(done.made, r) \/ (Explained(Task(r)) => AcceptedLine(line, r))
    BY <1>1, <1>2, <1>3 DEF MadeOf, AcceptedLine
  <2> QED
    BY <1>2, <1>3, <2>1, <2>2, AcceptedAppend
<1>8. MadeOf(next, seen \cup {row})
  BY <1>4, <1>5, <1>6, <1>7 DEF MadeOf
<1> QED
  BY <1>8 DEF next

LEMMA BatchRun ==
  ASSUME SourceLoaded, mode = "direct", NEW part \in SUBSET (1..SourceRows)
  PROVE  \E r : /\ r[0] = [retained |-> {}, made |-> << >>]
                /\ \A k \in 1..SourceRows :
                     r[k] = IF sortOrder[k] \in part
                            THEN MaterializeRow(r[k - 1], sortOrder[k]) ELSE r[k - 1]
                /\ Materialize(part) = r[SourceRows]
<1> DEFINE n == SourceRows
           D == 1..n
           A == [retained : SUBSET D, made : Seq(Diagnostics)]
           base == [retained |-> {}, made |-> << >>]
           Take(done, row) == IF row \in part THEN MaterializeRow(done, row) ELSE done
           step == [p \in D \X A |-> Take(p[2], sortOrder[p[1]])]
           Body(g, s) == IF s = {} THEN base ELSE Take(g[s \ {Max(s)}], sortOrder[Max(s)])
           Iter(i) == i = [s \in SUBSET D |-> Body(i, s)]
           iter == CHOOSE i : Iter(i)
           r == [k \in 0..n |-> iter[1..k]]
<1>1. n \in Nat /\ DOMAIN sortOrder = D /\ \A k \in D : sortOrder[k] \in D
  BY SourceAssumption DEF SourceLoaded
<1>2. Materialize(part) = iter[D]
  BY <1>1, Zenon DEF Materialize, FoldLeft, MapThenFoldSet
<1>3. base \in A
  OBVIOUS
<1>4. step \in [D \X A -> A]
  <2>1. ASSUME NEW k \in D, NEW done \in A PROVE Take(done, sortOrder[k]) \in A
    <3> DEFINE row == sortOrder[k]
               outcome == Disposition(row, done)
    <3>1. row \in D
      BY <1>1
    <3>2. outcome \in Outcomes
      BY <3>1, OutcomeIs
    <3> DEFINE line == [row |-> row, task |-> Task(row), outcome |-> outcome]
    <3>3. line \in Diagnostics
      BY <3>1, <3>2 DEF SourceLoaded, Diagnostics
    <3>4. MaterializeRow(done, row)
            = [retained |-> IF Retains(row, outcome) THEN done.retained \cup {row}
                            ELSE done.retained,
               made |-> Append(done.made, line)]
      BY DEF MaterializeRow
    <3> HIDE DEF line, outcome, row
    <3>5. done.retained \in SUBSET D /\ Append(done.made, line) \in Seq(Diagnostics)
      BY <3>3, AppendFacts
    <3>6. MaterializeRow(done, row) \in A
      BY <3>1, <3>4, <3>5
    <3> QED
      BY <3>6 DEF row
  <2> HIDE DEF A, D, Take
  <2> QED
    BY <2>1
<1>5. \E g : Iter(g)
  <2>1. PICK g \in [SUBSET D -> A] : IsLeftFold(g, n, base, step)
    <3> HIDE DEF step, n, A, base
    <3> QED
      BY <1>1, <1>3, <1>4, LeftFoldExists
  <2>2. ASSUME NEW s \in SUBSET D
        PROVE  g[s] = Body(g, s)
    <3>1. s # {} => Max(s) \in D /\ s \ {Max(s)} \in SUBSET D
      BY <1>1, MaxIn
    <3> HIDE DEF Take, A, base
    <3> QED
      BY <2>1, <3>1 DEF IsLeftFold
  <2> HIDE DEF Body, step
  <2> QED
    BY <2>1, <2>2
<1>6. Iter(iter)
  <2> HIDE DEF Iter
  <2> QED
    BY <1>5
<1> HIDE DEF iter, step, Take, base
<1>7. r[0] = base
  <2>1. 1..0 = {} /\ 1..0 \in SUBSET D
    OBVIOUS
  <2> QED
    BY <1>1, <1>6, <2>1
<1>8. ASSUME NEW k \in 1..n
      PROVE  r[k] = Take(r[k - 1], sortOrder[k])
  <2>1. 1..k \in SUBSET D /\ 1..k # {} /\ k \in Nat \ {0} /\ k - 1 \in 0..n
    <3> HIDE DEF n
    <3> QED
      BY <1>1
  <2>2. Max(1..k) = k /\ (1..k) \ {Max(1..k)} = 1..k - 1
    BY <2>1, MaxUpTo
  <2>3. iter[1..k] = Body(iter, 1..k)
    BY <1>6, <2>1
  <2>4. iter[1..k] = Take(iter[1..k - 1], sortOrder[k])
    BY <2>1, <2>2, <2>3
  <2>5. r[k] = iter[1..k] /\ r[k - 1] = iter[1..k - 1]
    BY <2>1
  <2> QED
    BY <2>4, <2>5
<1>9. Materialize(part) = r[n]
  BY <1>1, <1>2
<1> HIDE DEF r
<1> QED
  BY <1>7, <1>8, <1>9 DEF Take, base

\* What a batch makes is of its rows.
LEMMA BatchMakes ==
  ASSUME SourceLoaded, mode = "direct", NEW part \in SUBSET (1..SourceRows)
  PROVE  MadeOf(Materialize(part), part)
<1> DEFINE n == SourceRows
           Read(k) == {r \in part : \E j \in 1..k : sortOrder[j] = r}
<1>0. n \in Nat /\ \A k \in 1..n : sortOrder[k] \in 1..n
  BY SourceAssumption DEF SourceLoaded
<1>1. PICK r : /\ r[0] = [retained |-> {}, made |-> << >>]
               /\ \A k \in 1..n :
                    r[k] = IF sortOrder[k] \in part
                           THEN MaterializeRow(r[k - 1], sortOrder[k]) ELSE r[k - 1]
               /\ Materialize(part) = r[n]
  BY BatchRun
<1> DEFINE N == {k \in Nat : k <= n => MadeOf(r[k], Read(k))}
<1>2. 0 \in N
  <2>1. Read(0) = {}
    OBVIOUS
  <2>2. MadeOf(r[0], {})
    BY <1>1, FS_EmptySet DEF MadeOf, OneForEachTask
  <2> QED
    BY <2>1, <2>2
<1>3. ASSUME NEW k \in Nat, k \in N PROVE k + 1 \in N
  <2> SUFFICES ASSUME k + 1 <= n PROVE MadeOf(r[k + 1], Read(k + 1))
    OBVIOUS
  <2> DEFINE row == sortOrder[k + 1]
  <2>1. /\ k + 1 \in 1..n /\ (k + 1) - 1 = k /\ row \in 1..n
        /\ \A j \in 1..k : j \in 1..n /\ j # k + 1
        /\ \A j \in 1..k + 1 : j \in 1..k \/ j = k + 1
        /\ \A j \in 1..k : j \in 1..k + 1
    BY <1>0
  <2>2. MadeOf(r[k], Read(k))
    BY <1>3, <1>0
  <2>3. r[k + 1] = IF row \in part THEN MaterializeRow(r[k], row) ELSE r[k]
    BY <1>1, <2>1
  <2>4. row \notin Read(k)
    BY <2>1 DEF SourceLoaded
  <2>5. \A x : x \in Read(k + 1) <=> (x \in Read(k) \/ (x = row /\ row \in part))
    BY <2>1
  <2>6. Read(k) \in SUBSET (1..n)
    OBVIOUS
  <2> HIDE DEF Read, row, n
  <2>7. CASE row \in part
    <3>1. Read(k + 1) = Read(k) \cup {row}
      BY <2>5, <2>7
    <3>2. row \in (1..n) \ Read(k)
      BY <2>1, <2>4
    <3>3. MadeOf(MaterializeRow(r[k], row), Read(k) \cup {row})
      BY <2>2, <2>6, <3>2, OneMoreRow DEF n
    <3> QED
      BY <2>3, <2>7, <3>1, <3>3
  <2>8. CASE row \notin part
    <3>1. Read(k + 1) = Read(k)
      BY <2>5, <2>8
    <3> QED
      BY <2>2, <2>3, <2>8, <3>1
  <2> QED
    BY <2>7, <2>8
<1>4. MadeOf(r[n], Read(n))
  <2> HIDE DEF N
  <2>1. Nat \subseteq N
    BY <1>2, <1>3, NatSet
  <2> QED
    BY <1>0, <2>1 DEF N
<1>5. Read(n) = part
  BY DEF SourceLoaded
<1> QED
  BY <1>1, <1>4, <1>5

\* One line is rewritten, not before any accepted one of the task.
LEMMA RelabelIs ==
  ASSUME NEW x \in Seq(Diagnostics), NEW task
  PROVE  \/ Relabel(x, task) = x
         \/ \E j \in 1..Len(x) :
              /\ x[j].task = task
              /\ \A i \in 1..Len(x) : x[i].task = task /\ Accepted(x[i].outcome) => i <= j
              /\ Relabel(x, task) \in Seq(Diagnostics) /\ Len(Relabel(x, task)) = Len(x)
              /\ \A i \in 1..Len(x) : i # j => Relabel(x, task)[i] = x[i]
<1> DEFINE of == {i \in DOMAIN x : x[i].task = task /\ Accepted(x[i].outcome)}
           j == CHOOSE i \in of : \A k \in of : k <= i
           y == [x EXCEPT ![j].outcome = "duplicate_task"]
<1>1. /\ Len(x) \in Nat /\ DOMAIN x = 1..Len(x)
      /\ \A i \in 1..Len(x) : x[i] \in Diagnostics
  OBVIOUS
<1>2. Relabel(x, task) = IF of = {} THEN x ELSE y
  BY DEF Relabel
<1>3. CASE of # {}
  <2>1. of \in SUBSET (1..Len(x))
    BY <1>1
  <2>2. \E i \in of : \A k \in of : k <= i
    <3> HIDE DEF of
    <3>1. Max(of) \in of /\ \A k \in of : Max(of) >= k
      BY <1>1, <1>3, <2>1, MaxIn
    <3>2. PICK m \in of : \A k \in of : m >= k
      BY <3>1
    <3>3. \A k \in of : k \in 1..Len(x)
      BY <2>1
    <3>4. \A k \in of : k <= m
      BY <1>1, <3>2, <3>3
    <3> QED
      BY <3>4
  <2>3. j \in of /\ \A k \in of : k <= j
    <3> HIDE DEF of
    <3> QED
      BY <2>2
  <2> HIDE DEF j
  <2>4. /\ j \in 1..Len(x) /\ x[j].task = task
        /\ \A i \in 1..Len(x) : x[i].task = task /\ Accepted(x[i].outcome) => i <= j
    BY <1>1, <2>3
  <2>5. [x[j] EXCEPT !.outcome = "duplicate_task"] \in Diagnostics
    BY <1>1, <2>4 DEF Diagnostics, Outcomes
  <2>6. y = [x EXCEPT ![j] = [x[j] EXCEPT !.outcome = "duplicate_task"]]
    OBVIOUS
  <2> HIDE DEF y, of
  <2>7. y \in Seq(Diagnostics) /\ Len(y) = Len(x) /\ \A i \in 1..Len(x) : i # j => y[i] = x[i]
    BY <1>1, <2>4, <2>5, <2>6
  <2> QED
    BY <1>2, <1>3, <2>4, <2>7
<1>4. CASE of = {}
  BY <1>2, <1>4
<1> QED
  BY <1>3, <1>4

\* The lines of d but for some after b that are of a task of T's rows, as far as
\* the tasks were found alike twice.
Rewrites(x, d, b, T) ==
  /\ x \in Seq(Diagnostics) /\ Len(x) = Len(d)
  /\ \A i \in 1..Len(d) :
       /\ Explained(d[i].task)
       /\ i <= b \/ (\A r \in T : d[i].task # Task(r))
       => x[i] = d[i]

LEMMA OneMoreRewritten ==
  ASSUME NEW d \in Seq(Diagnostics), NEW b \in Nat, NEW x, NEW T, Rewrites(x, d, b, T),
         NEW r, \A s \in T : Task(s) # Task(r),
         Explained(Task(r)) =>
           \E i \in 1..Len(d) : b < i /\ d[i].task = Task(r) /\ Accepted(d[i].outcome)
  PROVE  Rewrites(Relabel(x, Task(r)), d, b, T \cup {r})
<1> DEFINE y == Relabel(x, Task(r))
<1>0. x \in Seq(Diagnostics) /\ Len(x) = Len(d) /\ Len(d) \in Nat
  BY DEF Rewrites
<1>1. CASE y = x
  BY <1>1 DEF Rewrites
<1>2. CASE y # x
  <2>1. PICK j \in 1..Len(x) :
          /\ x[j].task = Task(r)
          /\ \A k \in 1..Len(x) : x[k].task = Task(r) /\ Accepted(x[k].outcome) => k <= j
          /\ y \in Seq(Diagnostics) /\ Len(y) = Len(x)
          /\ \A k \in 1..Len(x) : k # j => y[k] = x[k]
    BY <1>0, <1>2, RelabelIs
  <2> HIDE DEF y
  <2>2. ASSUME Explained(Task(r)) PROVE ~ (j <= b)
    <3>1. PICK i \in 1..Len(d) : b < i /\ d[i].task = Task(r) /\ Accepted(d[i].outcome)
      BY <2>2
    <3>2. x[i] = d[i]
      BY <2>2, <3>1 DEF Rewrites
    <3>3. i <= j
      BY <1>0, <2>1, <3>1, <3>2
    <3> QED
      BY <1>0, <2>1, <3>1, <3>3
  <2>3. ASSUME NEW k \in 1..Len(d), Explained(d[k].task),
               k <= b \/ (\A s \in T \cup {r} : d[k].task # Task(s))
        PROVE  y[k] = d[k]
    <3>1. x[k] = d[k]
      BY <2>3 DEF Rewrites
    <3>2. k # j
      <4>1. CASE k <= b
        BY <2>1, <2>2, <2>3, <3>1, <4>1
      <4>2. CASE \A s \in T \cup {r} : d[k].task # Task(s)
        BY <2>1, <3>1, <4>2
      <4> QED
        BY <2>3, <4>1, <4>2
    <3> QED
      BY <1>0, <2>1, <3>1, <3>2
  <2>4. Rewrites(y, d, b, T \cup {r})
    BY <1>0, <2>1, <2>3 DEF Rewrites
  <2> QED
    BY <2>4 DEF y
<1> QED
  BY <1>1, <1>2

\* The fold over the repeated rows, as a function of the set of them.
LEMMA RelabelRun ==
  ASSUME NEW S, IsFiniteSet(S), NEW d \in Seq(Diagnostics)
  PROVE  \E g, c : /\ g[{}] = d
                   /\ \A T \in SUBSET S : T # {} =>
                        c[T] \in T /\ g[T] = Relabel(g[T \ {c[T]}], Task(c[T]))
                   /\ RelabelAll(d, S) = g[S]
<1> DEFINE A == Seq(Diagnostics)
           c == [T \in SUBSET S |-> CHOOSE x \in T : TRUE]
           step == [p \in S \X A |-> Relabel(p[2], Task(p[1]))]
           Body(g, s) == IF s = {} THEN d
                         ELSE Relabel(g[s \ {CHOOSE x \in s : TRUE}],
                                      Task(CHOOSE x \in s : TRUE))
           Iter(h) == h = [s \in SUBSET S |-> Body(h, s)]
           iter == CHOOSE h : Iter(h)
<1>1. RelabelAll(d, S) = iter[S]
  BY Zenon DEF RelabelAll, FoldSet, MapThenFoldSet
<1>2. \A T \in SUBSET S : T # {} => c[T] \in T
  OBVIOUS
<1>3. step \in [S \X A -> A]
  <2>1. ASSUME NEW x \in A, NEW r \in S PROVE Relabel(x, Task(r)) \in A
    BY RelabelIs
  <2> HIDE DEF A
  <2> QED
    BY <2>1
<1>4. \E g : Iter(g)
  <2>1. PICK g \in [SUBSET S -> A] : IsFold(g, S, d, c, step)
    <3> HIDE DEF step, c
    <3> QED
      BY <1>2, <1>3, FoldExists
  <2>2. ASSUME NEW s \in SUBSET S PROVE g[s] = Body(g, s)
    <3>1. s # {} => c[s] \in S /\ s \ {c[s]} \in SUBSET S
      BY <1>2
    <3>2. c[s] = CHOOSE x \in s : TRUE
      OBVIOUS
    <3>3. g[s] = IF s = {} THEN d ELSE step[<<c[s], g[s \ {c[s]}]>>]
      BY <2>1 DEF IsFold
    <3> HIDE DEF c, A
    <3> QED
      BY <2>1, <3>1, <3>2, <3>3
  <2> HIDE DEF Body, step, c
  <2> QED
    BY <2>1, <2>2
<1>5. Iter(iter)
  <2> HIDE DEF Iter
  <2> QED
    BY <1>4
<1> HIDE DEF iter, step
<1>6. iter[{}] = d
  BY <1>5
<1>7. ASSUME NEW T \in SUBSET S, T # {}
      PROVE  c[T] \in T /\ iter[T] = Relabel(iter[T \ {c[T]}], Task(c[T]))
  BY <1>2, <1>5, <1>7
<1> HIDE DEF c
<1> QED
  BY <1>1, <1>6, <1>7

LEMMA AllRewritten ==
  ASSUME NEW S, IsFiniteSet(S), NEW d \in Seq(Diagnostics), NEW b \in Nat,
         \A r, s \in S : r # s => Task(r) # Task(s),
         \A r \in S : Explained(Task(r)) =>
            \E i \in 1..Len(d) : b < i /\ d[i].task = Task(r) /\ Accepted(d[i].outcome)
  PROVE  Rewrites(RelabelAll(d, S), d, b, S)
<1>1. PICK g, c : /\ g[{}] = d
                  /\ \A T \in SUBSET S : T # {} =>
                       c[T] \in T /\ g[T] = Relabel(g[T \ {c[T]}], Task(c[T]))
                  /\ RelabelAll(d, S) = g[S]
  BY RelabelRun
<1> DEFINE N == {m \in Nat : \A T \in SUBSET S : Cardinality(T) = m => Rewrites(g[T], d, b, T)}
<1>2. \A T \in SUBSET S : IsFiniteSet(T) /\ Cardinality(T) \in Nat
  BY FS_Subset, FS_CardinalityType
<1>3. 0 \in N
  <2> SUFFICES ASSUME NEW T \in SUBSET S, Cardinality(T) = 0 PROVE Rewrites(g[T], d, b, T)
    OBVIOUS
  <2>1. T = {}
    BY <1>2, FS_EmptySet
  <2> QED
    BY <1>1, <2>1 DEF Rewrites
<1>4. ASSUME NEW m \in Nat, m \in N PROVE m + 1 \in N
  <2> SUFFICES ASSUME NEW T \in SUBSET S, Cardinality(T) = m + 1
               PROVE  Rewrites(g[T], d, b, T)
    OBVIOUS
  <2>1. T # {}
    BY <1>2, FS_EmptySet
  <2> DEFINE r == c[T]
             U == T \ {r}
  <2>2. r \in T /\ g[T] = Relabel(g[U], Task(r))
    BY <1>1, <2>1
  <2>3. U \in SUBSET S /\ Cardinality(U) = m
    <3>1. Cardinality(U) = Cardinality(T) - 1
      BY <1>2, <2>2, FS_RemoveElement
    <3> QED
      BY <3>1
  <2>4. Rewrites(g[U], d, b, U)
    BY <1>4, <2>3
  <2>5. T = U \cup {r} /\ r \in S /\ \A s \in U : Task(s) # Task(r)
    BY <2>2
  <2>7. Explained(Task(r)) =>
          \E i \in 1..Len(d) : b < i /\ d[i].task = Task(r) /\ Accepted(d[i].outcome)
    BY <2>5
  <2> HIDE DEF U, r, N
  <2>6. Rewrites(Relabel(g[U], Task(r)), d, b, U \cup {r})
    BY <2>4, <2>5, <2>7, OneMoreRewritten
  <2> QED
    BY <2>2, <2>5, <2>6
<1>5. Cardinality(S) \in N
  <2> HIDE DEF N
  <2> QED
    BY <1>2, <1>3, <1>4, NatSet
<1> QED
  BY <1>1, <1>5

SeenRows ==
  IF mode = "direct" THEN {r \in 1..SourceRows : r < start}
  ELSE {r \in 1..SourceRows : \E j \in 1..SourceRows : j < start /\ sortOrder[j] = r}

\* What was read so far has made what the whole source makes in the end.
SourceInv ==
  /\ SourceLoaded
  /\ start \in Nat \ {0} /\ rejected \in Nat
  /\ materializing \in {"running", "written", "no_records", "raised"}
  /\ OneForEachTask(selected, SeenRows)
  /\ materializing # "raised" =>
       rejected + Cardinality(selected) = Cardinality(SeenRows)
  /\ materializing \in {"written", "no_records"} => start > SourceRows
  /\ mode = "direct" =>
       /\ diagnostics \in Seq(Diagnostics) /\ Len(diagnostics) = Cardinality(SeenRows)
       /\ \A r \in selected : AcceptedIn(diagnostics, r)

LEMMA OrdersAreWhole ==
  ASSUME NEW n \in Nat, NEW q \in SetToSeqs(1..n)
  PROVE  /\ q \in [1..n -> 1..n]
         /\ \A i, j \in 1..n : q[i] = q[j] => i = j
         /\ \A r \in 1..n : \E i \in 1..n : q[i] = r
<1> DEFINE D == 1..n
           T == {r \in D : \E i \in D : q[i] = r}
<1>1. IsFiniteSet(D) /\ Cardinality(D) = n
  BY UpToFinite
<1>2. q \in [D -> D] /\ \A i, j \in D : q[i] = q[j] => i = j
  <2> HIDE DEF D
  <2>1. q \in {f \in [1..Cardinality(D) -> D] :
                 \A i, j \in 1..Cardinality(D) : i # j => f[i] # f[j]}
    BY DEF SetToSeqs, D
  <2>2. D = 1..Cardinality(D)
    BY <1>1 DEF D
  <2> QED
    BY <2>1, <2>2
<1>3. q \in [D -> T]
  BY <1>2
<1>4. IsFiniteSet(T) /\ Cardinality(T) = Cardinality(D)
  <2> HIDE DEF D
  <2>1. \A t \in T : \E i \in D : q[i] = t
    OBVIOUS
  <2> HIDE DEF T
  <2> QED
    BY <1>1, <1>2, <1>3, <2>1, ImageSize
<1>5. T = D
  <2>1. T \in SUBSET D
    OBVIOUS
  <2> HIDE DEF T, D
  <2> QED
    BY <1>1, <1>4, <2>1, FS_Subset
<1> QED
  BY <1>2, <1>5

LEMMA SourceBegins == sourceInit => SourceInv
<1> SUFFICES ASSUME sourceInit PROVE SourceInv
  OBVIOUS
<1>0. SourceRows \in Nat \ {0} /\ BatchSizes \subseteq Nat \ {0}
  BY SourceAssumption
<1>1. /\ mode \in {"direct", "python_tir"} /\ start = 1 /\ selected = {}
      /\ diagnostics = << >> /\ rejected = 0 /\ materializing = "running"
      /\ sourceRows \in [1..SourceRows ->
           RowsOf(IF mode = "direct" THEN Solutions ELSE TirSolutions)]
      /\ sortOrder \in SetToSeqs(1..SourceRows)
      /\ batchSize \in (IF mode = "direct" THEN BatchSizes ELSE {SourceRows})
  BY DEF sourceInit
<1>2. ASSUME NEW r \in 1..SourceRows
      PROVE  /\ Task(r) \in SourceTasks \cup {NoTask}
             /\ Task(r) # NoTask =>
                  Solution(r) \in IF mode = "direct" THEN Solutions ELSE TirSolutions
  BY <1>1 DEF RowsOf, Task, Solution
<1>3. SourceLoaded
  <2>1. /\ sortOrder \in [1..SourceRows -> 1..SourceRows]
        /\ \A i, j \in 1..SourceRows : sortOrder[i] = sortOrder[j] => i = j
        /\ \A r \in 1..SourceRows : \E i \in 1..SourceRows : sortOrder[i] = r
    BY <1>0, <1>1, OrdersAreWhole
  <2>2. batchSize \in Nat \ {0}
    BY <1>0, <1>1
  <2> QED
    BY <1>1, <1>2, <2>1, <2>2 DEF SourceLoaded
<1>4. SeenRows = {}
  BY <1>0, <1>1 DEF SeenRows
<1>5. OneForEachTask({}, {})
  BY DEF OneForEachTask
<1>6. Cardinality({}) = 0
  BY FS_EmptySet
<1>7. diagnostics \in Seq(Diagnostics) /\ Len(diagnostics) = 0
  BY <1>1
<1> QED
  BY <1>1, <1>3, <1>4, <1>5, <1>6, <1>7 DEF SourceInv

\* The rows and what is true of any set of them do not change.
LEMMA SameSource ==
  ASSUME SourceLoaded, UNCHANGED <<mode, sourceRows, sortOrder, batchSize>>
  PROVE  /\ SourceLoaded'
         /\ OneForEachTask(selected', SeenRows') => OneForEachTask(selected, SeenRows)'
         /\ (\A r \in selected' : AcceptedIn(diagnostics', r)) =>
              (\A r \in selected : AcceptedIn(diagnostics, r))'
<1>1. SourceLoaded'
  BY DEF SourceLoaded, Task, Solution
<1>2. OneForEachTask(selected', SeenRows') => OneForEachTask(selected, SeenRows)'
  BY DEF OneForEachTask, Fit, Task, Solution
<1>3. (\A r \in selected' : AcceptedIn(diagnostics', r)) =>
        (\A r \in selected : AcceptedIn(diagnostics, r))'
  BY DEF AcceptedIn, AcceptedLine, Explained, Task, Solution
<1> QED
  BY <1>1, <1>2, <1>3

\* Two batches that have no row in common.
LEMMA SelectionGrows ==
  ASSUME NEW seen, NEW part, NEW old, NEW made, NEW again, NEW new,
         OneForEachTask(old, seen), OneForEachTask(made, part),
         again = {r \in made : \E s \in old : Task(s) = Task(r)},
         new = old \cup (made \ again)
  PROVE  OneForEachTask(new, seen \cup part)
  BY DEF OneForEachTask

SelectedFrom(seen, part, old, made, again) ==
  /\ IsFiniteSet(seen) /\ IsFiniteSet(part) /\ seen \cap part = {}
  /\ old \subseteq seen /\ made \subseteq part /\ again \subseteq made

LEMMA SelectionCounts ==
  ASSUME NEW seen, NEW part, NEW old, NEW made, NEW again,
         SelectedFrom(seen, part, old, made, again),
         NEW n \in Nat, n + Cardinality(old) = Cardinality(seen)
  PROVE  /\ n + Cardinality(part \ made) + Cardinality(again) \in Nat
         /\ n + Cardinality(part \ made) + Cardinality(again)
              + Cardinality(old \cup (made \ again)) = Cardinality(seen \cup part)
<1>0. /\ IsFiniteSet(seen) /\ IsFiniteSet(part) /\ seen \cap part = {}
      /\ old \subseteq seen /\ made \subseteq part /\ again \subseteq made
  BY DEF SelectedFrom
<1> DEFINE kept == made \ again
           left == part \ made
<1>1. /\ IsFiniteSet(old) /\ IsFiniteSet(made) /\ IsFiniteSet(again)
      /\ IsFiniteSet(kept) /\ IsFiniteSet(left)
  <2>1. made \in SUBSET part /\ again \in SUBSET part /\ kept \in SUBSET part /\ left \in SUBSET part
    BY <1>0
  <2> QED
    BY <1>0, <2>1, FS_Subset
<1>2. /\ kept \cup again = made /\ kept \cap again = {}
      /\ left \cup made = part /\ left \cap made = {}
      /\ old \cap kept = {}
  BY <1>0
<1> HIDE DEF kept, left
<1>3. /\ Cardinality(made) = Cardinality(kept) + Cardinality(again)
      /\ Cardinality(kept) \in Nat /\ Cardinality(again) \in Nat
  BY <1>1, <1>2, DisjointSizes
<1>4. /\ Cardinality(part) = Cardinality(left) + Cardinality(made)
      /\ Cardinality(left) \in Nat
  BY <1>1, <1>2, DisjointSizes
<1>5. /\ Cardinality(old \cup kept) = Cardinality(old) + Cardinality(kept)
      /\ Cardinality(old) \in Nat
  BY <1>1, <1>2, DisjointSizes
<1>6. /\ Cardinality(seen \cup part) = Cardinality(seen) + Cardinality(part)
      /\ Cardinality(seen) \in Nat
  BY <1>0, DisjointSizes
<1>7. /\ n + Cardinality(left) + Cardinality(again) \in Nat
      /\ n + Cardinality(left) + Cardinality(again) + Cardinality(old \cup kept)
           = Cardinality(seen \cup part)
  BY <1>3, <1>4, <1>5, <1>6
<1> QED
  BY <1>7 DEF kept, left

LEMMA Concatenated ==
  ASSUME NEW S, NEW s \in Seq(S), NEW t \in Seq(S)
  PROVE  /\ s \o t \in Seq(S) /\ Len(s \o t) = Len(s) + Len(t)
         /\ \A i \in 1..Len(s) : (s \o t)[i] = s[i]
         /\ \A i \in 1..Len(t) : (s \o t)[Len(s) + i] = t[i]
OBVIOUS

AllAcceptedIn(lines, set) == \A r \in set : AcceptedIn(lines, r)
TasksDiffer(set) == \A r, s \in set : r # s => Task(r) # Task(s)

\* The lines of a batch after those of the batches before it.
LEMMA LinesGrow ==
  ASSUME NEW old \in Seq(Diagnostics), NEW new \in Seq(Diagnostics),
         NEW before, AllAcceptedIn(old, before),
         NEW made, IsFiniteSet(made), AllAcceptedIn(new, made), TasksDiffer(made),
         NEW again \in SUBSET made,
         NEW x, x = RelabelAll(old \o new, again)
  PROVE  /\ x \in Seq(Diagnostics) /\ Len(x) = Len(old) + Len(new)
         /\ AllAcceptedIn(x, before \cup (made \ again))
<1>0. /\ \A r \in before : AcceptedIn(old, r)
      /\ \A r \in made : AcceptedIn(new, r)
      /\ \A r, s \in made : r # s => Task(r) # Task(s)
  BY DEF AllAcceptedIn, TasksDiffer
<1> DEFINE d == old \o new
           b == Len(old)
           m == Len(new)
<1>1. /\ d \in Seq(Diagnostics) /\ Len(d) = b + m
      /\ \A i \in 1..b : d[i] = old[i]
      /\ \A i \in 1..m : d[b + i] = new[i]
  BY Concatenated
<1>2. b \in Nat /\ m \in Nat
  OBVIOUS
<1>3. x = RelabelAll(d, again)
  OBVIOUS
<1> HIDE DEF d, b, m
<1>4. \A i \in 1..m : b + i \in 1..b + m /\ b < b + i
  BY <1>2
<1>5. \A i \in 1..b : i \in 1..b + m /\ i <= b
  BY <1>2
<1>6. ASSUME NEW r \in made, Explained(Task(r))
      PROVE  \E i \in 1..Len(d) : b < i /\ AcceptedLine(d[i], r)
  <2>1. PICK i \in 1..m : AcceptedLine(new[i], r)
    BY <1>0, <1>6 DEF AcceptedIn, m
  <2>2. b + i \in 1..Len(d) /\ b < b + i /\ d[b + i] = new[i]
    BY <1>1, <1>4
  <2> QED
    BY <2>1, <2>2
<1>7. Rewrites(x, d, b, again)
  <2>1. IsFiniteSet(again)
    BY FS_Subset
  <2>2. \A r, s \in again : r # s => Task(r) # Task(s)
    BY <1>0
  <2>3. \A r \in again : Explained(Task(r)) =>
          \E i \in 1..Len(d) : b < i /\ d[i].task = Task(r) /\ Accepted(d[i].outcome)
    BY <1>6 DEF AcceptedLine
  <2> QED
    BY <1>1, <1>2, <1>3, <2>1, <2>2, <2>3, AllRewritten
<1>8. x \in Seq(Diagnostics) /\ Len(x) = Len(d)
  BY <1>7 DEF Rewrites
<1>9. ASSUME NEW r \in before PROVE AcceptedIn(x, r)
  <2> SUFFICES ASSUME Explained(Task(r))
               PROVE  \E i \in 1..Len(x) : AcceptedLine(x[i], r)
    BY DEF AcceptedIn
  <2>1. PICK i \in 1..b : AcceptedLine(old[i], r)
    BY <1>0 DEF AcceptedIn, b
  <2>2. i \in 1..Len(d) /\ i <= b /\ d[i] = old[i] /\ d[i].task = Task(r)
    BY <1>1, <1>5, <2>1 DEF AcceptedLine
  <2>3. x[i] = d[i]
    BY <1>7, <2>2 DEF Rewrites
  <2> QED
    BY <1>8, <2>1, <2>2, <2>3
<1>10. ASSUME NEW r \in made \ again PROVE AcceptedIn(x, r)
  <2> SUFFICES ASSUME Explained(Task(r))
               PROVE  \E i \in 1..Len(x) : AcceptedLine(x[i], r)
    BY DEF AcceptedIn
  <2>1. PICK i \in 1..Len(d) : b < i /\ AcceptedLine(d[i], r)
    BY <1>6
  <2>2. d[i].task = Task(r) /\ \A s \in again : d[i].task # Task(s)
    BY <1>0, <2>1 DEF AcceptedLine
  <2>3. x[i] = d[i]
    BY <1>7, <2>2 DEF Rewrites
  <2> QED
    BY <1>8, <2>1, <2>3
<1>11. Len(d) = Len(old) + Len(new)
  BY <1>1 DEF b, m
<1> QED
  BY <1>8, <1>9, <1>10, <1>11 DEF AllAcceptedIn

LEMMA RowsAreFinite ==
  ASSUME NEW S \in SUBSET (1..SourceRows)
  PROVE  IsFiniteSet(S) /\ Cardinality(S) \in Nat
<1>1. IsFiniteSet(1..SourceRows)
  BY SourceAssumption, UpToFinite
<1> QED
  BY <1>1, FS_Subset, FS_CardinalityType

LEMMA DirectBatchKeeps ==
  ASSUME SourceInv, DirectBatch PROVE SourceInv'
<1> DEFINE part == {r \in 1..SourceRows : start <= r /\ r < start + batchSize}
           result == Materialize(part)
           made == result.retained
           again == {r \in made : \E s \in selected : Task(s) = Task(r)}
<1>1. /\ SourceLoaded /\ mode = "direct" /\ materializing = "running"
      /\ start \in Nat \ {0} /\ batchSize \in Nat \ {0} /\ rejected \in Nat
      /\ UNCHANGED <<mode, sourceRows, sortOrder, batchSize, materializing>>
  BY DEF SourceInv, DirectBatch, SourceLoaded
<1>2. /\ selected' = selected \cup (made \ again)
      /\ diagnostics' = RelabelAll(diagnostics \o result.made, again)
      /\ rejected' = rejected + Cardinality(part \ made) + Cardinality(again)
      /\ start' = start + batchSize
  BY DEF DirectBatch
<1>3. /\ part \in SUBSET (1..SourceRows) /\ SeenRows \in SUBSET (1..SourceRows)
      /\ SeenRows \cap part = {}
  BY <1>1 DEF SeenRows
<1>4. SeenRows' = SeenRows \cup part
  BY <1>1, <1>2, SourceAssumption DEF SeenRows
<1>5. start' \in Nat \ {0}
  BY <1>1, <1>2
<1> HIDE DEF part, result
<1>6. /\ OneForEachTask(made, part)
      /\ result.made \in Seq(Diagnostics) /\ Len(result.made) = Cardinality(part)
      /\ \A r \in made : AcceptedIn(result.made, r)
  BY <1>1, <1>3, BatchMakes DEF MadeOf, result
<1> HIDE DEF made
<1>7. /\ OneForEachTask(selected, SeenRows)
      /\ rejected + Cardinality(selected) = Cardinality(SeenRows)
      /\ diagnostics \in Seq(Diagnostics) /\ Len(diagnostics) = Cardinality(SeenRows)
      /\ \A r \in selected : AcceptedIn(diagnostics, r)
  BY <1>1 DEF SourceInv
<1>8. OneForEachTask(selected', SeenRows')
  BY <1>2, <1>4, <1>6, <1>7, SelectionGrows
<1>9. /\ selected \in SUBSET SeenRows /\ made \in SUBSET part /\ again \in SUBSET made
      /\ \A r, s \in made : r # s => Task(r) # Task(s)
  BY <1>6, <1>7 DEF OneForEachTask
<1>10. /\ IsFiniteSet(SeenRows) /\ IsFiniteSet(part) /\ IsFiniteSet(made)
       /\ Cardinality(SeenRows) \in Nat /\ Cardinality(part) \in Nat
  <2>1. made \in SUBSET (1..SourceRows)
    BY <1>3, <1>9
  <2> QED
    BY <1>3, <2>1, RowsAreFinite
<1> HIDE DEF again
<1>11. rejected' \in Nat /\ rejected' + Cardinality(selected') = Cardinality(SeenRows')
  <2>1. /\ rejected + Cardinality(part \ made) + Cardinality(again) \in Nat
        /\ rejected + Cardinality(part \ made) + Cardinality(again)
             + Cardinality(selected \cup (made \ again)) = Cardinality(SeenRows \cup part)
    <3>1. SelectedFrom(SeenRows, part, selected, made, again)
      BY <1>3, <1>9, <1>10 DEF SelectedFrom
    <3> QED
      BY <1>1, <1>7, <3>1, SelectionCounts
  <2> QED
    BY <1>2, <1>4, <2>1
<1>12. /\ diagnostics' \in Seq(Diagnostics)
       /\ Len(diagnostics') = Len(diagnostics) + Len(result.made)
       /\ \A r \in selected' : AcceptedIn(diagnostics', r)
  <2>1. /\ AllAcceptedIn(diagnostics, selected) /\ AllAcceptedIn(result.made, made)
        /\ TasksDiffer(made)
    BY <1>6, <1>7, <1>9 DEF AllAcceptedIn, TasksDiffer
  <2>2. result.made \in Seq(Diagnostics) /\ diagnostics \in Seq(Diagnostics)
    BY <1>6, <1>7
  <2> DEFINE x == RelabelAll(diagnostics \o result.made, again)
  <2>3. /\ x \in Seq(Diagnostics) /\ Len(x) = Len(diagnostics) + Len(result.made)
        /\ AllAcceptedIn(x, selected \cup (made \ again))
    BY <1>9, <1>10, <2>1, <2>2, LinesGrow
  <2>4. diagnostics' = x /\ selected' = selected \cup (made \ again)
    BY <1>2
  <2> HIDE DEF x
  <2> QED
    BY <2>3, <2>4 DEF AllAcceptedIn
<1>13. Len(diagnostics') = Cardinality(SeenRows')
  <2>1. Cardinality(SeenRows \cup part) = Cardinality(SeenRows) + Cardinality(part)
    BY <1>3, <1>10, DisjointSizes
  <2> QED
    BY <1>4, <1>6, <1>7, <1>12, <2>1
<1>14. /\ SourceLoaded' /\ OneForEachTask(selected, SeenRows)'
       /\ (\A r \in selected : AcceptedIn(diagnostics, r))'
  BY <1>1, <1>8, <1>12, SameSource
<1> QED
  BY <1>1, <1>5, <1>11, <1>12, <1>13, <1>14 DEF SourceInv

LEMMA TirRowKeeps ==
  ASSUME SourceInv, TirRow PROVE SourceInv'
<1> DEFINE row == sortOrder[start]
           refused == Task(row) = NoTask \/ \E s \in selected : Task(s) = Task(row)
           outcome == IF refused THEN "refused" ELSE TirOutcome(Solution(row))
<1>1. /\ SourceLoaded /\ mode = "python_tir" /\ materializing = "running"
      /\ start \in Nat \ {0} /\ start <= SourceRows /\ rejected \in Nat
      /\ SourceRows \in Nat
      /\ UNCHANGED <<mode, sourceRows, sortOrder, batchSize, diagnostics>>
  BY SourceAssumption DEF SourceInv, TirRow
<1>2. /\ selected' = (IF Accepted(outcome) THEN selected \cup {row} ELSE selected)
      /\ rejected' = (IF outcome = "refused" THEN rejected + 1 ELSE rejected)
      /\ materializing' = (IF outcome = "raised" THEN "raised" ELSE "running")
      /\ start' = start + 1
  BY DEF TirRow
<1>3. start \in 1..SourceRows /\ row \in 1..SourceRows
  <2>1. start \in 1..SourceRows
    BY <1>1
  <2> QED
    BY <1>1, <2>1 DEF SourceLoaded
<1>4. SeenRows \in SUBSET (1..SourceRows) /\ row \notin SeenRows
  <2>1. ASSUME row \in SeenRows PROVE FALSE
    <3>1. PICK j \in 1..SourceRows : j < start /\ sortOrder[j] = row
      BY <1>1, <2>1 DEF SeenRows
    <3>2. j = start
      BY <1>1, <1>3, <3>1 DEF SourceLoaded
    <3> QED
      BY <1>3, <3>1, <3>2
  <2> QED
    BY <2>1 DEF SeenRows
<1>5. SeenRows' = SeenRows \cup {row}
  <2>1. \A j \in 1..SourceRows : j < start + 1 <=> (j < start \/ j = start)
    BY <1>1
  <2>2. ASSUME NEW r
        PROVE  r \in SeenRows' <=> r \in SeenRows \cup {row}
    BY <1>1, <1>2, <1>3, <2>1 DEF SeenRows
  <2> QED
    BY <2>2
<1>6. outcome \in {"refused", "raised", "accepted_strict"}
  BY DEF TirOutcome
<1>7. Accepted(outcome) <=> outcome = "accepted_strict"
  BY <1>6 DEF Accepted
<1>8. /\ outcome = "accepted_strict" => Fit(row) /\ ~ \E s \in selected : Task(s) = Task(row)
      /\ Fit(row) /\ outcome # "accepted_strict" => \E s \in selected : Task(s) = Task(row)
  BY <1>1, <1>6, <1>7 DEF Fit
<1> HIDE DEF row, outcome
<1>9. OneForEachTask(selected, SeenRows)
  BY DEF SourceInv
<1>10. OneForEachTask(selected', SeenRows')
  <2>1. CASE outcome = "accepted_strict"
    BY <1>2, <1>5, <1>7, <1>8, <1>9, <2>1 DEF OneForEachTask
  <2>2. CASE outcome # "accepted_strict"
    BY <1>2, <1>5, <1>7, <1>8, <1>9, <2>2 DEF OneForEachTask
  <2> QED
    BY <2>1, <2>2
<1>11. rejected' \in Nat
  BY <1>1, <1>2
<1>12. materializing' # "raised" =>
         rejected' + Cardinality(selected') = Cardinality(SeenRows')
  <2> SUFFICES ASSUME outcome # "raised"
               PROVE  rejected' + Cardinality(selected') = Cardinality(SeenRows')
    BY <1>2
  <2>1. /\ selected \in SUBSET (1..SourceRows) /\ row \notin selected
        /\ rejected + Cardinality(selected) = Cardinality(SeenRows)
    BY <1>1, <1>4, <1>9 DEF SourceInv, OneForEachTask
  <2>2. /\ IsFiniteSet(selected) /\ Cardinality(selected) \in Nat
        /\ IsFiniteSet(SeenRows) /\ Cardinality(SeenRows) \in Nat
    BY <1>4, <2>1, RowsAreFinite
  <2>3. /\ Cardinality(SeenRows \cup {row}) = Cardinality(SeenRows) + 1
        /\ Cardinality(selected \cup {row}) = Cardinality(selected) + 1
    BY <1>4, <2>1, <2>2, FS_AddElement
  <2>4. CASE outcome = "refused"
    <3>1. rejected' = rejected + 1 /\ selected' = selected
      BY <1>2, <1>7, <2>4
    <3> QED
      BY <1>1, <1>5, <2>1, <2>2, <2>3, <3>1
  <2>5. CASE outcome = "accepted_strict"
    <3>1. rejected' = rejected /\ selected' = selected \cup {row}
      BY <1>2, <1>7, <2>5
    <3> QED
      BY <1>1, <1>5, <2>1, <2>2, <2>3, <3>1
  <2> QED
    BY <1>6, <2>4, <2>5
<1>13. start' \in Nat \ {0} /\ materializing' \in {"raised", "running"}
  BY <1>1, <1>2
<1>14. SourceLoaded' /\ OneForEachTask(selected, SeenRows)'
  BY <1>1, <1>10, SameSource
<1> QED
  BY <1>1, <1>11, <1>12, <1>13, <1>14 DEF SourceInv

LEMMA WriteSourceKeeps ==
  ASSUME SourceInv, WriteSource \/ UNCHANGED sourceVars PROVE SourceInv'
<1>1. /\ UNCHANGED <<mode, sourceRows, sortOrder, batchSize, start, selected,
                     diagnostics, rejected>>
      /\ SeenRows' = SeenRows
  BY DEF WriteSource, sourceVars, SeenRows
<1>2. /\ materializing' # "raised" => materializing # "raised"
      /\ materializing' \in {"running", "written", "no_records", "raised"}
      /\ materializing' \in {"written", "no_records"} => start > SourceRows
  BY DEF WriteSource, sourceVars, SourceInv
<1>3. /\ SourceLoaded /\ OneForEachTask(selected', SeenRows')
      /\ mode = "direct" => \A r \in selected' : AcceptedIn(diagnostics', r)
  BY <1>1 DEF SourceInv
<1>4. /\ SourceLoaded' /\ OneForEachTask(selected, SeenRows)'
      /\ mode = "direct" => (\A r \in selected : AcceptedIn(diagnostics, r))'
  BY <1>1, <1>3, SameSource
<1> QED
  BY <1>1, <1>2, <1>4 DEF SourceInv

LEMMA NothingLost ==
  ASSUME SourceInv PROVE BatchesLoseNothing
<1>1. /\ SourceLoaded /\ OneForEachTask(selected, SeenRows)
      /\ SourceRows \in Nat
  BY SourceAssumption DEF SourceInv
<1>2. SeenRows \subseteq 1..SourceRows
  BY DEF SeenRows
<1>3. ASSUME mode = "direct", NEW r \in selected
      PROVE  Solution(r).traced.strict \notin {"incorrect", "timeout", "ambiguous"}
  <2>1. MakesTrace(Solution(r))
    BY <1>1, <1>3 DEF OneForEachTask, Fit
  <2> QED
    BY <2>1 DEF MakesTrace, Resolves
<1>4. ASSUME materializing \in {"written", "no_records"}
      PROVE  /\ {Task(r) : r \in selected} =
                  {Task(r) : r \in {s \in 1..SourceRows : Fit(s)}}
             /\ \A r, s \in selected : r # s => Task(r) # Task(s)
             /\ rejected + Cardinality(selected) = SourceRows
             /\ mode = "direct" =>
                  /\ Len(diagnostics) = SourceRows
                  /\ \A r \in selected : Explained(Task(r)) =>
                       \E i \in DOMAIN diagnostics :
                         diagnostics[i].row = r /\ Accepted(diagnostics[i].outcome)
  <2>1. start > SourceRows /\ start \in Nat
    BY <1>4 DEF SourceInv
  <2>2. \A r \in 1..SourceRows : r \in SeenRows
    <3>1. \A j \in 1..SourceRows : j < start
      BY <1>1, <2>1
    <3> QED
      BY <1>1, <3>1 DEF SeenRows, SourceLoaded
  <2>3. SeenRows = 1..SourceRows
    BY <1>2, <2>2
  <2>4. Cardinality(SeenRows) = SourceRows
    BY <1>1, <2>3, UpToFinite
  <2>5. {Task(r) : r \in selected} = {Task(r) : r \in {s \in 1..SourceRows : Fit(s)}}
    <3>1. \A r \in selected : r \in 1..SourceRows /\ Fit(r)
      BY <1>1, <2>3 DEF OneForEachTask
    <3>2. \A r \in 1..SourceRows : Fit(r) => \E s \in selected : Task(s) = Task(r)
      BY <1>1, <2>3 DEF OneForEachTask
    <3> QED
      BY <3>1, <3>2
  <2>6. \A r, s \in selected : r # s => Task(r) # Task(s)
    BY <1>1 DEF OneForEachTask
  <2>7. rejected + Cardinality(selected) = SourceRows
    BY <1>4, <2>4 DEF SourceInv
  <2>8. ASSUME mode = "direct"
        PROVE  /\ Len(diagnostics) = SourceRows
               /\ \A r \in selected : Explained(Task(r)) =>
                    \E i \in DOMAIN diagnostics :
                      diagnostics[i].row = r /\ Accepted(diagnostics[i].outcome)
    <3>1. /\ diagnostics \in Seq(Diagnostics) /\ Len(diagnostics) = SourceRows
          /\ \A r \in selected : AcceptedIn(diagnostics, r)
      BY <2>4, <2>8 DEF SourceInv
    <3>2. DOMAIN diagnostics = 1..Len(diagnostics)
      BY <3>1
    <3> QED
      BY <3>1, <3>2 DEF AcceptedIn, AcceptedLine
  <2> QED
    BY <2>5, <2>6, <2>7, <2>8
<1> QED
  BY <1>3, <1>4 DEF BatchesLoseNothing

\* Whatever the batch size and the order of the rows, and whatever the verifier
\* says of a solution the first and the second time, the tasks of the rows whose
\* own check found them right are demonstrated, each once, each row is accounted
\* for, and the diagnostics agree where the two verdicts did
\* (materialize_direct_records_batched, materialize_python_tir_records).
THEOREM BatchesCorrect == sourceSpec => []BatchesLoseNothing
<1>1. SourceInv /\ [sourceNext]_sourceVars => SourceInv'
  BY DirectBatchKeeps, TirRowKeeps, WriteSourceKeeps DEF sourceNext
<1> QED
  BY <1>1, SourceBegins, NothingLost, PTL DEF sourceSpec
-----------------------------------------------------------------------------
(* Demonstrations with a SymPy call.                                        *)

OneMoreOf(seen, e) == IF e \in Range(seen) THEN seen ELSE Append(seen, e)

LEMMA DistinctRun ==
  ASSUME NEW C, NEW q \in Seq(C)
  PROVE  \E r : /\ r[0] = << >>
                /\ \A k \in 1..Len(q) : r[k] = OneMoreOf(r[k - 1], q[k])
                /\ Distinct(q) = r[Len(q)]
<1> DEFINE n == Len(q)
           D == 1..n
           A == Seq(C)
           base == << >>
           step == [p \in D \X A |-> OneMoreOf(p[2], q[p[1]])]
           Body(g, s) == IF s = {} THEN base ELSE OneMoreOf(g[s \ {Max(s)}], q[Max(s)])
           Iter(i) == i = [s \in SUBSET D |-> Body(i, s)]
           iter == CHOOSE i : Iter(i)
           r == [k \in 0..n |-> iter[1..k]]
<1>1. n \in Nat /\ DOMAIN q = D /\ \A k \in D : q[k] \in C
  OBVIOUS
<1>2. Distinct(q) = iter[D]
  BY <1>1, Zenon DEF Distinct, OneMoreOf, FoldLeft, MapThenFoldSet
<1>3. base \in A
  OBVIOUS
<1>4. step \in [D \X A -> A]
  <2>1. ASSUME NEW k \in D, NEW seen \in A PROVE OneMoreOf(seen, q[k]) \in A
    <3> HIDE DEF n
    <3>1. q[k] \in C
      BY <1>1
    <3> QED
      BY <3>1, AppendFacts DEF OneMoreOf
  <2> HIDE DEF A, D
  <2> QED
    BY <2>1
<1>5. \E g : Iter(g)
  <2>1. PICK g \in [SUBSET D -> A] : IsLeftFold(g, n, base, step)
    <3> HIDE DEF step, n, A, base
    <3> QED
      BY <1>1, <1>3, <1>4, LeftFoldExists
  <2>2. ASSUME NEW s \in SUBSET D
        PROVE  g[s] = Body(g, s)
    <3>1. s # {} => Max(s) \in D /\ s \ {Max(s)} \in SUBSET D
      BY <1>1, MaxIn
    <3> HIDE DEF A, base
    <3> QED
      BY <2>1, <3>1 DEF IsLeftFold
  <2> HIDE DEF Body, step
  <2> QED
    BY <2>1, <2>2
<1>6. Iter(iter)
  <2> HIDE DEF Iter
  <2> QED
    BY <1>5
<1> HIDE DEF iter, step, base
<1>7. r[0] = base
  <2>1. 1..0 = {} /\ 1..0 \in SUBSET D
    OBVIOUS
  <2> QED
    BY <1>1, <1>6, <2>1
<1>8. ASSUME NEW k \in 1..n
      PROVE  r[k] = OneMoreOf(r[k - 1], q[k])
  <2>1. 1..k \in SUBSET D /\ 1..k # {} /\ k \in Nat \ {0} /\ k - 1 \in 0..n
    <3> HIDE DEF n
    <3> QED
      BY <1>1
  <2>2. Max(1..k) = k /\ (1..k) \ {Max(1..k)} = 1..k - 1
    BY <2>1, MaxUpTo
  <2>3. iter[1..k] = Body(iter, 1..k)
    BY <1>6, <2>1
  <2>4. iter[1..k] = OneMoreOf(iter[1..k - 1], q[k])
    BY <2>1, <2>2, <2>3
  <2>5. r[k] = iter[1..k] /\ r[k - 1] = iter[1..k - 1]
    BY <2>1
  <2> QED
    BY <2>4, <2>5
<1>9. Distinct(q) = r[n]
  BY <1>1, <1>2
<1> HIDE DEF r
<1> QED
  BY <1>7, <1>8, <1>9 DEF base

\* d holds the first k elements of q, each once, in the order in which they
\* first stand there.
FirstsOf(d, q, k) ==
  /\ \A j \in 1..Len(d) : \E m \in 1..k : q[m] = d[j]
  /\ \A m \in 1..k : \E j \in 1..Len(d) : d[j] = q[m]
  /\ \A i, j \in 1..Len(d) : i < j =>
       \E m \in 1..k : q[m] = d[i] /\ \A o \in 1..m : q[o] # d[j]

LEMMA OneMoreFirst ==
  ASSUME NEW C, NEW q \in Seq(C), NEW k \in 1..Len(q), NEW d \in Seq(C),
         FirstsOf(d, q, k - 1)
  PROVE  OneMoreOf(d, q[k]) \in Seq(C) /\ FirstsOf(OneMoreOf(d, q[k]), q, k)
<1>1. q[k] \in C /\ k \in Nat /\ Len(d) \in Nat /\ DOMAIN d = 1..Len(d)
  OBVIOUS
<1>2. CASE q[k] \in Range(d)
  <2>1. OneMoreOf(d, q[k]) = d
    BY <1>2 DEF OneMoreOf
  <2>2. \E j \in 1..Len(d) : d[j] = q[k]
    BY <1>1, <1>2 DEF Range
  <2>3. \A m \in 1..k : m \in 1..k - 1 \/ m = k
    BY <1>1
  <2>4. \A m \in 1..k - 1 : m \in 1..k
    BY <1>1
  <2>5. \A j \in 1..Len(d) : \E m \in 1..k : q[m] = d[j]
    BY <2>4 DEF FirstsOf
  <2>6. \A m \in 1..k : \E j \in 1..Len(d) : d[j] = q[m]
    BY <2>2, <2>3 DEF FirstsOf
  <2>7. ASSUME NEW i \in 1..Len(d), NEW j \in 1..Len(d), i < j
        PROVE  \E m \in 1..k : q[m] = d[i] /\ \A o \in 1..m : q[o] # d[j]
    <3>1. PICK m \in 1..k - 1 : q[m] = d[i] /\ \A o \in 1..m : q[o] # d[j]
      BY <2>7 DEF FirstsOf
    <3>2. m \in 1..k
      BY <2>4
    <3> QED
      BY <3>1, <3>2
  <2> QED
    BY <2>1, <2>5, <2>6, <2>7 DEF FirstsOf
<1>3. CASE q[k] \notin Range(d)
  <2> DEFINE x == Append(d, q[k])
             n == Len(d)
  <2>1. OneMoreOf(d, q[k]) = x
    BY <1>3 DEF OneMoreOf
  <2>2. \A j \in 1..n : d[j] # q[k]
    BY <1>1, <1>3 DEF Range
  <2>3. /\ x \in Seq(C) /\ Len(x) = n + 1 /\ \A i \in 1..n : x[i] = d[i]
        /\ x[n + 1] = q[k]
    BY <1>1, AppendFacts
  <2> HIDE DEF x
  <2>4. \A m \in 1..k : m \in 1..k - 1 \/ m = k
    BY <1>1
  <2>5. \A m \in 1..k - 1 : m \in 1..k
    BY <1>1
  <2>6. \A j \in 1..n + 1 : j \in 1..n \/ j = n + 1
    BY <1>1
  <2>7. ASSUME NEW j \in 1..Len(x) PROVE \E m \in 1..k : q[m] = x[j]
    <3>1. CASE j \in 1..n
      <4>1. PICK m \in 1..k - 1 : q[m] = d[j]
        BY <3>1 DEF FirstsOf
      <4> QED
        BY <2>3, <2>5, <3>1, <4>1
    <3>2. CASE j = n + 1
      BY <1>1, <2>3, <3>2
    <3> QED
      BY <2>3, <2>6, <3>1, <3>2
  <2>8. ASSUME NEW m \in 1..k PROVE \E j \in 1..Len(x) : x[j] = q[m]
    <3>1. \A j \in 1..n : j \in 1..Len(x)
      BY <1>1, <2>3
    <3>2. n + 1 \in 1..Len(x)
      BY <1>1, <2>3
    <3>3. CASE m \in 1..k - 1
      <4>1. PICK j \in 1..n : d[j] = q[m]
        BY <3>3 DEF FirstsOf
      <4> QED
        BY <2>3, <3>1, <4>1
    <3>4. CASE m = k
      BY <2>3, <3>2, <3>4
    <3> QED
      BY <2>4, <3>3, <3>4
  <2>9. ASSUME NEW i \in 1..Len(x), NEW j \in 1..Len(x), i < j
        PROVE  \E m \in 1..k : q[m] = x[i] /\ \A o \in 1..m : q[o] # x[j]
    <3>1. i \in 1..n
      BY <1>1, <2>3, <2>9
    <3>2. CASE j \in 1..n
      <4>1. PICK m \in 1..k - 1 : q[m] = d[i] /\ \A o \in 1..m : q[o] # d[j]
        BY <2>9, <3>1, <3>2 DEF FirstsOf
      <4> QED
        BY <2>3, <2>5, <3>1, <3>2, <4>1
    <3>3. CASE j = n + 1
      <4>1. PICK m \in 1..k - 1 : q[m] = d[i]
        BY <3>1 DEF FirstsOf
      <4>2. \A o \in 1..m : o \in 1..k - 1
        BY <1>1
      <4>3. \A o \in 1..m : q[o] # q[k]
        BY <2>2, <4>2 DEF FirstsOf
      <4>4. m \in 1..k /\ x[i] = q[m] /\ x[j] = q[k]
        BY <2>3, <2>5, <3>1, <3>3, <4>1
      <4> QED
        BY <4>3, <4>4
    <3> QED
      BY <2>3, <2>6, <3>2, <3>3
  <2> QED
    BY <2>1, <2>3, <2>7, <2>8, <2>9 DEF FirstsOf
<1> QED
  BY <1>2, <1>3

LEMMA DistinctIs ==
  ASSUME NEW C, NEW q \in Seq(C)
  PROVE  Distinct(q) \in Seq(C) /\ FirstsOf(Distinct(q), q, Len(q))
<1>1. PICK r : /\ r[0] = << >>
               /\ \A k \in 1..Len(q) : r[k] = OneMoreOf(r[k - 1], q[k])
               /\ Distinct(q) = r[Len(q)]
  BY DistinctRun
<1> DEFINE N == {k \in Nat : k <= Len(q) => r[k] \in Seq(C) /\ FirstsOf(r[k], q, k)}
<1>2. 0 \in N
  <2>1. r[0] \in Seq(C) /\ Len(r[0]) = 0
    BY <1>1
  <2>2. FirstsOf(r[0], q, 0)
    BY <2>1 DEF FirstsOf
  <2> QED
    BY <2>1, <2>2
<1>3. ASSUME NEW k \in Nat, k \in N PROVE k + 1 \in N
  <2>1. CASE k + 1 <= Len(q)
    <3>1. k + 1 \in 1..Len(q) /\ (k + 1) - 1 = k /\ k <= Len(q)
      BY <2>1
    <3>2. r[k] \in Seq(C) /\ FirstsOf(r[k], q, (k + 1) - 1)
      BY <1>3, <3>1
    <3>3. r[k + 1] = OneMoreOf(r[k], q[k + 1])
      BY <1>1, <3>1
    <3> QED
      BY <3>1, <3>2, <3>3, OneMoreFirst
  <2>2. CASE ~(k + 1 <= Len(q))
    BY <2>2
  <2> QED
    BY <2>1, <2>2
<1> HIDE DEF N
<1>4. Nat \subseteq N
  BY <1>2, <1>3, NatSet
<1> QED
  BY <1>1, <1>4 DEF N

\* Which calls a problem supports, and what scores best.
BuiltSpans(p) == {s \in Range(Spans(p)) : Converts(s) /\ Builds(Operation(p), s)}
ScoresOf(p, c) == {Score(s) : s \in {t \in BuiltSpans(p) : t.call = c}}
CallsOf(p) == {s.call : s \in BuiltSpans(p)}
OthersOf(p, c) ==
  {other \in CallsOf(p) \ {c} : Max(ScoresOf(p, other)) >= Max(ScoresOf(p, c))}

LEMMA OutrankingIs ==
  ASSUME NEW p \in Problems
  PROVE  Outranking[p] = [c \in CallsOf(p) |-> Cardinality(OthersOf(p, c))]
BY Zenon DEF Outranking, OthersOf, CallsOf, ScoresOf, BuiltSpans

LEMMA ScoreIs ==
  ASSUME NEW s \in Bodies
  PROVE  Score(s) \in 0..13
<1>1. s.operators \in Nat /\ s.length \in Nat
  BY DEF Bodies
<1>2. \A n \in Nat, k \in Nat : Min({n, k}) \in Nat /\ Min({n, k}) <= k
  <2> SUFFICES ASSUME NEW n \in Nat, NEW k \in Nat
               PROVE  Min({n, k}) \in Nat /\ Min({n, k}) <= k
    OBVIOUS
  <2>1. \E x \in {n, k} : \A y \in {n, k} : x =< y
    OBVIOUS
  <2>2. Min({n, k}) \in {n, k} /\ \A y \in {n, k} : Min({n, k}) =< y
    BY <2>1, Zenon DEF Min
  <2> QED
    BY <2>2
<1>3. s.length \div 8 \in Nat
  BY <1>1, DivMod
<1> DEFINE a == Min({s.operators, 4})
           b == Min({s.length \div 8, 3})
<1>4. a \in 0..4 /\ b \in 0..3
  BY <1>1, <1>2, <1>3
<1>5. Score(s) = (IF s.equation # "none" THEN 4 ELSE 0) + a
                   + (IF s.symbols > 0 THEN 2 ELSE 0) + b
  BY DEF Score
<1> HIDE DEF a, b
<1> QED
  BY <1>4, <1>5

LEMMA SpansAreBodies ==
  ASSUME NEW p \in Problems
  PROVE  /\ Spans(p) \in Seq(Bodies) /\ Built(p) \subseteq 1..Len(Spans(p))
         /\ IsFiniteSet(Built(p))
<1>1. p.delimited \in Seq(Bodies) /\ p.bare \in Seq(Bodies)
  BY DemoAssumption
<1>2. Distinct(p.delimited) \in Seq(Bodies)
  BY <1>1, DistinctIs
<1>3. Spans(p) \in Seq(Bodies)
  BY <1>1, <1>2 DEF Spans
<1>4. Built(p) \subseteq 1..Len(Spans(p)) /\ Len(Spans(p)) \in Nat
  BY <1>3 DEF Built
<1>5. IsFiniteSet(1..Len(Spans(p)))
  BY <1>4, UpToFinite
<1> QED
  BY <1>3, <1>4, <1>5, FS_Subset

LEMMA RankedIs ==
  ASSUME NEW p \in Problems
  PROVE  \E n \in Nat :
           /\ Ranked(p) \in [1..n -> Built(p)]
           /\ \A i, j \in 1..n : i < j =>
                Score(Spans(p)[Ranked(p)[i]]) >= Score(Spans(p)[Ranked(p)[j]])
           /\ \A x \in Built(p) : \E i \in 1..n : Ranked(p)[i] = x
<1> DEFINE S == Built(p)
           spans == Spans(p)
           R == {e \in S \X S : IsBetter(spans, e[1], e[2])}
<1>1. spans \in Seq(Bodies) /\ S \subseteq 1..Len(spans) /\ IsFiniteSet(S)
  BY SpansAreBodies
<1>2. \A i \in S : spans[i] \in Bodies
  BY <1>1
<1> HIDE DEF spans, S
<1>3. \A i \in S : i \in Nat /\ Score(spans[i]) \in Nat
  <2>1. \A i \in S : Score(spans[i]) \in 0..13
    BY <1>2, ScoreIs
  <2> QED
    BY <1>1, <2>1
<1>4. \A a, b \in S : <<a, b>> \in R <=> IsBetter(spans, a, b)
  OBVIOUS
<1> HIDE DEF R
<1>5. IsOrder(R, S)
  BY <1>3, <1>4 DEF IsOrder, IsBetter
<1>6. Ranked(p) = OrderOf(R, S)
  <2>1. \A x \in S : {u \in S : <<u, x>> \in R} = {u \in S : IsBetter(spans, u, x)}
    BY <1>4
  <2>2. \A x \in S : RankIn(R, S, x) = Cardinality({u \in S : IsBetter(spans, u, x)})
    BY <2>1 DEF RankIn
  <2> DEFINE at(i) == CHOOSE x \in S : RankIn(R, S, x) = i - 1
             by(i) == CHOOSE t \in S : Cardinality({u \in S : IsBetter(spans, u, t)}) = i - 1
  <2>3. \A i : at(i) = by(i)
    BY <2>2
  <2>4. /\ OrderOf(R, S) = [i \in 1..Cardinality(S) |-> at(i)]
        /\ Ranked(p) = [i \in 1..Cardinality(S) |-> by(i)]
    BY DEF OrderOf, Ranked, S, spans
  <2> HIDE DEF at, by
  <2> QED
    BY <2>3, <2>4
<1> DEFINE n == Cardinality(S)
           q == OrderOf(R, S)
<1>7. /\ n \in Nat /\ q \in [1..n -> S]
      /\ \A i, j \in 1..n : i < j => <<q[i], q[j]>> \in R
      /\ \A x \in S : \E i \in 1..n : q[i] = x
  BY <1>1, <1>5, InItsOrder
<1> HIDE DEF n, q
<1>8. ASSUME NEW i \in 1..n, NEW j \in 1..n, i < j
      PROVE  Score(spans[q[i]]) >= Score(spans[q[j]])
  <2>1. q[i] \in S /\ q[j] \in S /\ IsBetter(spans, q[i], q[j])
    BY <1>4, <1>7, <1>8
  <2> QED
    BY <1>3, <2>1 DEF IsBetter
<1>9. Ranked(p) = q
  BY <1>6 DEF q
<1> QED
  BY <1>7, <1>8, <1>9 DEF S, spans

\* The distinct calls, best first.
Calls(p) ==
  Distinct([k \in DOMAIN Ranked(p) |-> Spans(p)[Ranked(p)[k]].call])

LEMMA MaxOf ==
  ASSUME NEW S \in SUBSET (0..13), S # {}
  PROVE  Max(S) \in S /\ \A y \in S : Max(S) >= y
<1> DEFINE R == {m \in Nat : \A y \in S : m >= y}
<1>1. 13 \in R
  OBVIOUS
<1>2. PICK m \in R : \A k \in R : m <= k
  <2> HIDE DEF R
  <2>1. R \subseteq Nat
    BY DEF R
  <2> QED
    BY <1>1, <2>1, NatMin
<1>3. m \in S
  <2> SUFFICES ASSUME m \notin S PROVE FALSE
    OBVIOUS
  <2>1. PICK y \in S : TRUE
    OBVIOUS
  <2>2. \A x \in S : m > x /\ x \in Nat
    BY <1>2
  <2>3. m - 1 \in R
    BY <1>2, <2>1, <2>2
  <2> QED
    BY <1>2, <2>3
<1>4. \E x \in S : \A y \in S : x >= y
  BY <1>2, <1>3
<1> QED
  BY <1>4, Zenon DEF Max

\* The scores of a call's spans have a best one.
LEMMA BestScore ==
  ASSUME NEW p \in Problems, NEW c \in CallsOf(p)
  PROVE  /\ \E s \in BuiltSpans(p) : s.call = c /\ Score(s) = Max(ScoresOf(p, c))
         /\ \A s \in BuiltSpans(p) : s.call = c => Max(ScoresOf(p, c)) >= Score(s)
         /\ Max(ScoresOf(p, c)) \in Nat
<1>1. Spans(p) \in Seq(Bodies)
  BY SpansAreBodies
<1>2. \A s \in BuiltSpans(p) : s \in Bodies
  BY <1>1 DEF BuiltSpans, Range
<1>3. \A s \in BuiltSpans(p) : Score(s) \in 0..13
  BY <1>2, ScoreIs
<1>4. ScoresOf(p, c) \in SUBSET (0..13)
  BY <1>3 DEF ScoresOf
<1>5. ScoresOf(p, c) # {}
  BY DEF CallsOf, ScoresOf
<1>6. /\ Max(ScoresOf(p, c)) \in ScoresOf(p, c)
      /\ \A y \in ScoresOf(p, c) : Max(ScoresOf(p, c)) >= y
  BY <1>4, <1>5, MaxOf
<1> DEFINE m == Max(ScoresOf(p, c))
<1> HIDE DEF m
<1>7. m \in ScoresOf(p, c) /\ \A y \in ScoresOf(p, c) : m >= y
  BY <1>6 DEF m
<1>8. m \in Nat
  BY <1>4, <1>7
<1>9. \E s \in BuiltSpans(p) : s.call = c /\ Score(s) = m
  BY <1>7 DEF ScoresOf
<1>10. \A s \in BuiltSpans(p) : s.call = c => m >= Score(s)
  BY <1>7 DEF ScoresOf
<1> QED
  BY <1>8, <1>9, <1>10 DEF m

\* The distinct calls are those of the built spans, each once, and none before
\* another that scores better.
LEMMA CallsInOrder ==
  ASSUME NEW p \in Problems
  PROVE  /\ Calls(p) \in Seq(Nat)
         /\ \A j \in 1..Len(Calls(p)) : Calls(p)[j] \in CallsOf(p)
         /\ \A c \in CallsOf(p) : \E j \in 1..Len(Calls(p)) : Calls(p)[j] = c
         /\ \A i, j \in 1..Len(Calls(p)) : i < j =>
              /\ Calls(p)[i] # Calls(p)[j]
              /\ Max(ScoresOf(p, Calls(p)[i])) >= Max(ScoresOf(p, Calls(p)[j]))
<1> DEFINE spans == Spans(p)
           ranked == Ranked(p)
           d == Calls(p)
<1>1. spans \in Seq(Bodies) /\ Built(p) \subseteq 1..Len(spans)
  BY SpansAreBodies
<1>2. PICK n \in Nat :
        /\ ranked \in [1..n -> Built(p)]
        /\ \A i, j \in 1..n : i < j => Score(spans[ranked[i]]) >= Score(spans[ranked[j]])
        /\ \A x \in Built(p) : \E i \in 1..n : ranked[i] = x
  BY RankedIs
<1> DEFINE q == [k \in DOMAIN Ranked(p) |-> spans[ranked[k]].call]
<1>3. \A x \in Built(p) : spans[x] \in BuiltSpans(p)
  BY <1>1 DEF Built, BuiltSpans, Range
<1>4. \A s \in BuiltSpans(p) : \E x \in Built(p) : spans[x] = s
  BY <1>1 DEF Built, BuiltSpans, Range
<1>5. \A x \in Built(p) : spans[x] \in Bodies /\ spans[x].call \in Nat
  <2>1. \A x \in Built(p) : spans[x] \in Bodies
    BY <1>1
  <2> QED
    BY <2>1 DEF Bodies
<1>6. d = Distinct(q)
  BY DEF Calls
<1> HIDE DEF spans, ranked, d
<1>7. DOMAIN Ranked(p) = 1..n
  BY <1>2 DEF ranked
<1>8. \A k \in 1..n : q[k] = spans[ranked[k]].call /\ ranked[k] \in Built(p)
  BY <1>2, <1>7
<1>9. q \in [1..n -> Nat]
  BY <1>5, <1>7, <1>8
<1> HIDE DEF q
<1>10. q \in Seq(Nat) /\ Len(q) = n
  BY <1>9
<1>11. d \in Seq(Nat) /\ FirstsOf(d, q, n)
  BY <1>6, <1>10, DistinctIs
<1>12. Len(d) \in Nat
  BY <1>11
<1>13. \A k \in 1..n : spans[ranked[k]] \in BuiltSpans(p) /\ q[k] \in CallsOf(p)
  BY <1>3, <1>8 DEF CallsOf
<1>14. \A j \in 1..Len(d) : d[j] \in CallsOf(p)
  BY <1>11, <1>13 DEF FirstsOf
<1>15. ASSUME NEW c \in CallsOf(p) PROVE \E j \in 1..Len(d) : d[j] = c
  <2>1. PICK s \in BuiltSpans(p) : s.call = c
    BY DEF CallsOf
  <2>2. PICK k \in 1..n : spans[ranked[k]] = s
    BY <1>2, <1>4
  <2>3. q[k] = c
    BY <1>8, <2>1, <2>2
  <2> QED
    BY <1>11, <2>3 DEF FirstsOf
<1>16. ASSUME NEW i \in 1..Len(d), NEW j \in 1..Len(d), i < j
       PROVE  d[i] # d[j] /\ Max(ScoresOf(p, d[i])) >= Max(ScoresOf(p, d[j]))
  <2>1. PICK m \in 1..n : q[m] = d[i] /\ \A o \in 1..m : q[o] # d[j]
    BY <1>11, <1>16 DEF FirstsOf
  <2>2. m \in 1..m
    BY <1>2
  <2>3. d[i] # d[j]
    BY <2>1, <2>2
  <2>4. d[i] \in CallsOf(p) /\ d[j] \in CallsOf(p)
    BY <1>14
  <2>5. PICK s \in BuiltSpans(p) : s.call = d[j] /\ Score(s) = Max(ScoresOf(p, d[j]))
    BY <2>4, BestScore
  <2>6. PICK k \in 1..n : spans[ranked[k]] = s
    BY <1>2, <1>4
  <2>7. q[k] = d[j]
    BY <1>8, <2>5, <2>6
  <2>8. m < k
    <3>1. k \notin 1..m
      BY <2>1, <2>7
    <3> QED
      BY <1>2, <3>1
  <2>9. Score(spans[ranked[m]]) >= Score(s)
    BY <1>2, <2>6, <2>8
  <2>10. spans[ranked[m]] \in BuiltSpans(p) /\ spans[ranked[m]].call = d[i]
    BY <1>8, <1>13, <2>1
  <2>11. Max(ScoresOf(p, d[i])) >= Score(spans[ranked[m]])
    BY <2>4, <2>10, BestScore
  <2>12. Score(spans[ranked[m]]) \in Int /\ Score(s) \in Int
    <3>1. ranked[m] \in Built(p) /\ ranked[k] \in Built(p)
      BY <1>8
    <3> QED
      BY <1>5, <2>6, <3>1, ScoreIs
  <2>13. Max(ScoresOf(p, d[i])) \in Nat
    BY <2>4, BestScore
  <2> DEFINE a == Max(ScoresOf(p, d[i]))
             b == Max(ScoresOf(p, d[j]))
             u == Score(spans[ranked[m]])
             v == Score(s)
  <2>14. a >= u /\ u >= v /\ v = b /\ a \in Nat /\ u \in Int /\ v \in Int
    BY <2>5, <2>9, <2>11, <2>12, <2>13
  <2> HIDE DEF a, b, u, v
  <2>15. a >= b
    BY <2>14
  <2> QED
    BY <2>3, <2>15 DEF a, b
<1> QED
  BY <1>11, <1>14, <1>15, <1>16 DEF d

LEMMA UpToIs ==
  ASSUME NEW q \in Seq(Nat), NEW limit \in Nat \ {0}
  PROVE  \E n \in Nat :
           /\ n <= Len(q) /\ n <= limit /\ (n = Len(q) \/ n = limit)
           /\ UpTo(q, limit) \in Seq(Nat) /\ Len(UpTo(q, limit)) = n
           /\ \A i \in 1..n : UpTo(q, limit)[i] = q[i]
<1> DEFINE n == Min({Len(q), limit})
<1>1. \E x \in {Len(q), limit} : \A y \in {Len(q), limit} : x =< y
  OBVIOUS
<1>2. n \in {Len(q), limit} /\ \A y \in {Len(q), limit} : n =< y
  BY <1>1, Zenon DEF Min
<1>3. UpTo(q, limit) = SubSeq(q, 1, n)
  BY DEF UpTo
<1> HIDE DEF n
<1>4. n \in Nat /\ n <= Len(q) /\ n <= limit /\ (n = Len(q) \/ n = limit)
  BY <1>2
<1> DEFINE u == SubSeq(q, 1, n)
<1>5. u \in Seq(Nat) /\ Len(u) = n /\ \A i \in 1..n : u[i] = q[i]
  BY <1>4
<1> HIDE DEF u
<1>6. UpTo(q, limit) = u
  BY <1>3 DEF u
<1> QED
  BY <1>4, <1>5, <1>6

\* A call that is none of the candidates has as many above it as there are
\* candidates at most.
LEMMA Outranked ==
  ASSUME NEW p \in Problems, NEW limit \in Nat \ {0}
  PROVE  /\ CandidatesOf(p, limit) \in Seq(Nat)
         /\ CandidatesOf(p, 1) # << >> => Len(CandidatesOf(p, limit)) >= 1
         /\ \A i \in 1..Len(CandidatesOf(p, limit)) :
              CandidatesOf(p, limit)[i] \in DOMAIN Outranking[p]
         /\ \A c \in DOMAIN Outranking[p] :
              \/ \E i \in 1..Len(CandidatesOf(p, limit)) : CandidatesOf(p, limit)[i] = c
              \/ Outranking[p][c] >= limit
<1> DEFINE d == Calls(p)
           calls == CandidatesOf(p, limit)
<1>1. \A k \in Nat \ {0} : CandidatesOf(p, k) = UpTo(d, k)
  BY DEF CandidatesOf, Calls
<1>2. /\ d \in Seq(Nat) /\ Len(d) \in Nat
      /\ \A j \in 1..Len(d) : d[j] \in CallsOf(p)
      /\ \A c \in CallsOf(p) : \E j \in 1..Len(d) : d[j] = c
      /\ \A i, j \in 1..Len(d) : i < j =>
           /\ d[i] # d[j]
           /\ Max(ScoresOf(p, d[i])) >= Max(ScoresOf(p, d[j]))
  BY CallsInOrder
<1>3. DOMAIN Outranking[p] = CallsOf(p)
  BY OutrankingIs
<1> HIDE DEF d
<1>c. calls = UpTo(d, limit)
  BY <1>1
<1> HIDE DEF calls
<1>4. PICK n \in Nat :
        /\ n <= Len(d) /\ n <= limit /\ (n = Len(d) \/ n = limit)
        /\ calls \in Seq(Nat) /\ Len(calls) = n /\ \A i \in 1..n : calls[i] = d[i]
  BY <1>2, <1>c, UpToIs
<1>5. CandidatesOf(p, 1) # << >> => Len(d) >= 1
  <2>1. PICK m \in Nat : m <= Len(d) /\ UpTo(d, 1) \in Seq(Nat) /\ Len(UpTo(d, 1)) = m
    BY <1>2, UpToIs
  <2>2. CandidatesOf(p, 1) = UpTo(d, 1)
    BY <1>1
  <2> DEFINE u == UpTo(d, 1)
  <2> HIDE DEF u
  <2>3. u # << >> => m >= 1
    <3>1. u \in Seq(Nat) /\ Len(u) = m
      BY <2>1 DEF u
    <3> QED
      BY <3>1
  <2> QED
    BY <1>2, <2>1, <2>2, <2>3 DEF u
<1>6. CandidatesOf(p, 1) # << >> => Len(calls) >= 1
  BY <1>2, <1>4, <1>5
<1>7. \A i \in 1..Len(calls) : calls[i] \in CallsOf(p)
  BY <1>2, <1>4
<1>8. ASSUME NEW c \in CallsOf(p), \A i \in 1..Len(calls) : calls[i] # c
      PROVE  Outranking[p][c] >= limit
  <2>1. PICK j \in 1..Len(d) : d[j] = c
    BY <1>2
  <2>2. n = limit /\ limit < j
    <3>1. j \notin 1..n
      BY <1>4, <1>8, <2>1
    <3> QED
      BY <1>2, <1>4, <3>1
  <2> DEFINE I == 1..limit
             T == {d[i] : i \in I}
             f == [i \in I |-> d[i]]
  <2>3. \A i \in I : i \in 1..Len(d) /\ i < j
    BY <1>2, <2>2
  <2>4. \A i, k \in I : f[i] = f[k] => i = k
    <3> SUFFICES ASSUME NEW i \in I, NEW k \in I, d[i] = d[k], i # k PROVE FALSE
      OBVIOUS
    <3>1. i < k \/ k < i
      OBVIOUS
    <3> QED
      BY <1>2, <2>3, <3>1
  <2>5. IsFiniteSet(I) /\ Cardinality(I) = limit
    BY UpToFinite
  <2>6. IsFiniteSet(T) /\ Cardinality(T) = Cardinality(I)
    <3>1. f \in [I -> T] /\ \A t \in T : \E i \in I : f[i] = t
      OBVIOUS
    <3> HIDE DEF f, I, T
    <3> QED
      BY <2>4, <2>5, <3>1, ImageSize
  <2>7. T \subseteq OthersOf(p, c)
    <3> SUFFICES ASSUME NEW i \in I PROVE d[i] \in OthersOf(p, c)
      OBVIOUS
    <3>1. i \in 1..Len(d) /\ i < j
      BY <2>3
    <3> QED
      BY <1>2, <2>1, <3>1 DEF OthersOf
  <2>8. IsFiniteSet(OthersOf(p, c))
    <3>1. IsFiniteSet(CallsOf(p))
      <4> DEFINE J == 1..Len(d)
                 g == [k \in J |-> d[k]]
                 U == {d[k] : k \in J}
      <4>1. IsFiniteSet(J)
        BY <1>2, UpToFinite
      <4>2. IsFiniteSet(U)
        <5>1. g \in [J -> U] /\ \A t \in U : \E i \in J : g[i] = t
          OBVIOUS
        <5>2. \A i, k \in J : g[i] = g[k] => i = k
          <6> SUFFICES ASSUME NEW i \in J, NEW k \in J, d[i] = d[k], i # k PROVE FALSE
            OBVIOUS
          <6>1. i < k \/ k < i
            BY <1>2
          <6> QED
            BY <1>2, <6>1
        <5> HIDE DEF g, J, U
        <5> QED
          BY <4>1, <5>1, <5>2, ImageSize
      <4>3. CallsOf(p) = U
        BY <1>2
      <4> QED
        BY <4>2, <4>3
    <3>2. OthersOf(p, c) \subseteq CallsOf(p)
      BY DEF OthersOf
    <3> QED
      BY <3>1, <3>2, FS_Subset
  <2>9. Outranking[p][c] = Cardinality(OthersOf(p, c))
    BY OutrankingIs
  <2>10. Cardinality(OthersOf(p, c)) \in Nat /\ Cardinality(T) <= Cardinality(OthersOf(p, c))
    <3> HIDE DEF T
    <3> QED
      BY <2>7, <2>8, FS_Subset, FS_CardinalityType
  <2> HIDE DEF T
  <2> QED
    BY <2>5, <2>6, <2>9, <2>10
<1> QED
  BY <1>3, <1>4, <1>6, <1>7, <1>8 DEF calls

\* Evenly spaced places are places.
LEMMA StratifiedIn ==
  ASSUME NEW C, NEW q \in Seq(C), NEW n \in Nat \ {0}
  PROVE  Stratified(q, n) \in Seq(C)
<1>1. CASE n >= Len(q)
  BY <1>1 DEF Stratified
<1>2. CASE ~(n >= Len(q))
  <2> PICK L \in Nat : L = Len(q)
    OBVIOUS
  <2>1. n < L
    BY <1>2
  <2>2. ASSUME NEW k \in 1..n PROVE q[((k - 1) * L) \div n + 1] \in C
    <3> PICK m \in Nat : m = k - 1
      OBVIOUS
    <3>1. m < n /\ m * L \in Nat
      BY Distributes
    <3>2. m * L < L * n
      <4> PICK o \in Nat : n = m + (o + 1)
        <5> WITNESS n - m - 1 \in Nat
        <5> QED
          BY <3>1
      <4>1. (m + (o + 1)) * L = m * L + (o + 1) * L /\ (o + 1) * L = o * L + L /\ o * L \in Nat
        BY Distributes
      <4>2. n * L = L * n
        OBVIOUS
      <4> QED
        BY <2>1, <3>1, <4>1, <4>2
    <3>3. (m * L) \div n \in Nat /\ (m * L) \div n < L
      BY <3>1, <3>2, DivMod
    <3> DEFINE d == (m * L) \div n
    <3> HIDE DEF d
    <3>4. d \in Nat /\ d < L
      BY <3>3 DEF d
    <3>5. d + 1 \in 1..Len(q)
      BY <3>4
    <3>6. q[d + 1] \in C
      BY <3>5
    <3> QED
      BY <3>6 DEF d
  <2> DEFINE s == [k \in 1..n |-> q[((k - 1) * L) \div n + 1]]
  <2>3. s \in [1..n -> C]
    BY <2>2
  <2>4. Stratified(q, n) = s
    BY <1>2 DEF Stratified
  <2> HIDE DEF s
  <2> QED
    BY <2>3, <2>4
<1> QED
  BY <1>1, <1>2

LEMMA AscendingIn ==
  ASSUME NEW S, S \subseteq 1..PoolSize
  PROVE  Ascending(S) \in Seq(S)
<1> DEFINE R == {e \in S \X S : e[1] < e[2]}
<1>1. IsFiniteSet(S) /\ \A a, b \in S : <<a, b>> \in R <=> a < b
  <2>1. IsFiniteSet(1..PoolSize)
    BY DemoAssumption, UpToFinite
  <2> QED
    BY <2>1, FS_Subset
<1> HIDE DEF R
<1>2. IsOrder(R, S)
  BY <1>1, DemoAssumption DEF IsOrder
<1>3. Ascending(S) = OrderOf(R, S)
  <2>1. \A x \in S : {u \in S : <<u, x>> \in R} = {u \in S : u < x}
    BY <1>1
  <2>2. \A x \in S : RankIn(R, S, x) = Cardinality({u \in S : u < x})
    BY <2>1 DEF RankIn
  <2> DEFINE at(i) == CHOOSE x \in S : RankIn(R, S, x) = i - 1
             by(i) == CHOOSE t \in S : Cardinality({u \in S : u < t}) = i - 1
  <2>3. \A i : at(i) = by(i)
    BY <2>2
  <2>4. /\ OrderOf(R, S) = [i \in 1..Cardinality(S) |-> at(i)]
        /\ Ascending(S) = [i \in 1..Cardinality(S) |-> by(i)]
    BY DEF OrderOf, Ascending
  <2> HIDE DEF at, by
  <2> QED
    BY <2>3, <2>4
<1> DEFINE n == Cardinality(S)
           q == OrderOf(R, S)
<1>4. n \in Nat /\ q \in [1..n -> S]
  BY <1>1, <1>2, InItsOrder
<1> HIDE DEF n, q
<1>5. Ascending(S) = q
  BY <1>3 DEF q
<1> QED
  BY <1>4, <1>5

SettledRow ==
  [index : 1..PoolSize, outcome : {"accepted", "rejected", "quarantined"},
   limit : Nat \ {0}, late : BOOLEAN]

\* What the file of finished records says of one holds.
SettledRight(e) ==
  LET others == Outranking[problems[e.index]]
  IN  /\ e.outcome = "accepted" => DOMAIN others \cap verified # {}
      /\ e.outcome = "rejected" /\ ~e.late =>
           \A c \in DOMAIN others \cap verified : others[c] >= e.limit

FileIsRight(file) ==
  /\ file \in Seq(SettledRow)
  /\ \A j, k \in 1..Len(file) : j # k => file[j].index # file[k].index
  /\ \A k \in 1..Len(file) : SettledRight(file[k])

IndicesOf(file) == {file[k].index : k \in DOMAIN file}

\* The records with a candidate, and the candidates of the one at hand.
Bearing == {i \in 1..PoolSize : CandidatesOf(problems[i], 1) # << >>}
CallsNow == CandidatesOf(problems[sampled[position]], candidateLimit)

\* All records before the place in the sample are done, that at hand is not,
\* and its candidates so far ran and did not verify, or one was late.
DemoInv ==
  /\ problems \in [1..PoolSize -> Problems]
  /\ censusRows = NoRows \/ censusRows \in Seq(Bearing)
  /\ gate \in {"idle", "record", "candidate", "summary"}
  /\ gate # "idle" =>
       /\ sampled \in Seq(Bearing) /\ position \in Nat \ {0}
       /\ candidateLimit \in Nat \ {0}
       /\ \A k \in 1..Len(sampled) : k < position => sampled[k] \in Done
  /\ gate = "candidate" =>
       /\ position <= Len(sampled) /\ sampled[position] \notin Done
       /\ attempt \in 1..Len(CallsNow) /\ late \in BOOLEAN
       /\ ~late => \A i \in 1..Len(CallsNow) : i < attempt => CallsNow[i] \notin verified
  /\ gate = "summary" => position > Len(sampled)
  /\ summaryOf \subseteq Done
  /\ FileIsRight(doneFile)

LEMMA DoneIs == Done = IndicesOf(doneFile) /\ Done' = IndicesOf(doneFile')
BY DEF Done, IndicesOf

\* A record settled that was not: one line more, and one index more is done.
LEMMA OneMoreSettled ==
  ASSUME NEW file, FileIsRight(file), NEW e \in SettledRow, SettledRight(e),
         e.index \notin IndicesOf(file)
  PROVE  /\ FileIsRight(Append(file, e))
         /\ IndicesOf(Append(file, e)) = IndicesOf(file) \cup {e.index}
<1> DEFINE x == Append(file, e)
           n == Len(file)
<1>1. /\ file \in Seq(SettledRow) /\ n \in Nat
      /\ \A j, k \in 1..n : j # k => file[j].index # file[k].index
      /\ \A k \in 1..n : SettledRight(file[k])
  BY DEF FileIsRight
<1>2. /\ x \in Seq(SettledRow) /\ Len(x) = n + 1 /\ \A i \in 1..n : x[i] = file[i]
      /\ x[n + 1] = e
  BY <1>1, AppendFacts
<1>3. DOMAIN x = 1..n + 1 /\ DOMAIN file = 1..n
  BY <1>1, <1>2
<1> HIDE DEF x
<1>4. \A j \in 1..n + 1 : j \in 1..n \/ j = n + 1
  BY <1>1
<1>5. \A j \in 1..n : j \in 1..n + 1 /\ j # n + 1
  BY <1>1
<1>6. \A j \in 1..n : file[j].index # e.index
  BY <1>3 DEF IndicesOf
<1>7. \A j, k \in 1..n + 1 : j # k => x[j].index # x[k].index
  BY <1>1, <1>2, <1>4, <1>6
<1>8. \A k \in 1..n + 1 : SettledRight(x[k])
  BY <1>1, <1>2, <1>4
<1>9. FileIsRight(x)
  BY <1>2, <1>7, <1>8 DEF FileIsRight
<1>10. IndicesOf(x) = IndicesOf(file) \cup {e.index}
  <2>1. n + 1 \in 1..n + 1
    BY <1>1
  <2>2. \A i \in IndicesOf(x) : i \in IndicesOf(file) \/ i = e.index
    BY <1>2, <1>3, <1>4 DEF IndicesOf
  <2>3. \A i \in IndicesOf(file) : i \in IndicesOf(x)
    BY <1>2, <1>3, <1>5 DEF IndicesOf
  <2>4. e.index \in IndicesOf(x)
    BY <1>2, <1>3, <2>1 DEF IndicesOf
  <2> QED
    BY <2>2, <2>3, <2>4
<1> QED
  BY <1>9, <1>10 DEF x

\* The pool and what verifies stay, so a right file stays right.
LEMMA RightStays ==
  ASSUME UNCHANGED <<problems, verified>>
  PROVE  (\A f : f = doneFile' => (FileIsRight(f) <=> FileIsRight(doneFile)'))
BY DEF FileIsRight, SettledRight

LEMMA NextToJudge ==
  ASSUME sampled \in Seq(Bearing), position \in Nat \ {0},
         NEW k, k = ToJudge(position)
  PROVE  /\ k \in Nat \ {0} /\ k <= Len(sampled) + 1
         /\ k <= Len(sampled) => sampled[k] \notin Done
         /\ \A j \in 1..Len(sampled) : j < k => j < position \/ sampled[j] \in Done
<1> DEFINE n == Len(sampled)
           S == {j \in position..n : sampled[j] \notin Done} \cup {n + 1}
<1>1. n \in Nat /\ S \subseteq Nat /\ S # {}
  OBVIOUS
<1>2. k = Min(S)
  BY DEF ToJudge
<1> HIDE DEF S
<1>3. \E x \in S : \A y \in S : x =< y
  BY <1>1, NatMin
<1>4. k \in S /\ \A y \in S : k =< y
  BY <1>2, <1>3, Zenon DEF Min
<1>5. n + 1 \in S /\ \A j \in S : (j \in position..n /\ sampled[j] \notin Done) \/ j = n + 1
  BY DEF S
<1>6. k \in Nat \ {0} /\ k <= n + 1
  BY <1>1, <1>4, <1>5
<1>7. k <= n => sampled[k] \notin Done
  BY <1>1, <1>4, <1>5
<1>8. ASSUME NEW j \in 1..n, j < k, ~(j < position) PROVE sampled[j] \in Done
  <2>1. j \notin S
    BY <1>1, <1>4, <1>6, <1>8
  <2>2. j \in position..n
    BY <1>1, <1>8
  <2> QED
    BY <2>1, <2>2 DEF S
<1> QED
  BY <1>6, <1>7, <1>8

LEMMA DemoBegins == demoInit => DemoInv
<1> SUFFICES ASSUME demoInit PROVE DemoInv
  OBVIOUS
<1>1. doneFile = << >> /\ summaryOf = {} /\ gate = "idle" /\ censusRows = NoRows
  BY DEF demoInit
<1>2. FileIsRight(doneFile)
  BY <1>1 DEF FileIsRight
<1> QED
  BY <1>1, <1>2 DEF demoInit, DemoInv

\* A step that leaves the pool, the file and the summary alone keeps what is
\* said of them.
LEMMA FileStays ==
  ASSUME DemoInv, UNCHANGED <<problems, verified, doneFile>>
  PROVE  FileIsRight(doneFile)' /\ Done' = Done /\ Bearing' = Bearing
<1>1. FileIsRight(doneFile')
  BY DEF DemoInv
<1> QED
  BY <1>1, RightStays DEF Done, Bearing

LEMMA BearingIs ==
  ASSUME DemoInv
  PROVE  /\ Bearing \subseteq 1..PoolSize
         /\ \A i \in Bearing : problems[i] \in Problems
BY DEF DemoInv, Bearing

LEMMA CensusKeeps ==
  ASSUME DemoInv, RunCensus
  PROVE  DemoInv'
<1>1. censusRows' = Ascending(Bearing)
  BY DEF RunCensus, Bearing
<1>2. censusRows' \in Seq(Bearing)
  <2>1. Bearing \subseteq 1..PoolSize
    BY BearingIs
  <2> HIDE DEF Bearing
  <2> QED
    BY <1>1, <2>1, AscendingIn
<1>3. UNCHANGED <<problems, verified, gate, sampled, position, attempt, candidateLimit,
                  late, doneFile, summaryOf>> /\ gate = "idle"
  BY DEF RunCensus
<1>4. FileIsRight(doneFile)' /\ Done' = Done /\ Bearing' = Bearing
  BY <1>3, FileStays
<1> QED
  BY <1>2, <1>3, <1>4 DEF DemoInv

LEMMA StartKeeps ==
  ASSUME DemoInv, NEW sample \in GateSamples, NEW limit \in Limits, StartGate(sample, limit)
  PROVE  DemoInv'
<1>1. censusRows \in Seq(Bearing) /\ sample \in Nat \ {0} /\ limit \in Nat \ {0}
  BY DemoAssumption DEF DemoInv, StartGate
<1>2. sampled' \in Seq(Bearing)
  BY <1>1, StratifiedIn DEF StartGate
<1>3. UNCHANGED <<problems, verified, censusRows, doneFile, summaryOf>>
      /\ position' = 1 /\ candidateLimit' = limit /\ gate' = "record"
  BY DEF StartGate
<1>4. FileIsRight(doneFile)' /\ Done' = Done /\ Bearing' = Bearing
  BY <1>3, FileStays
<1>5. \A k \in 1..Len(sampled') : ~(k < position')
  BY <1>3
<1> QED
  BY <1>1, <1>2, <1>3, <1>4, <1>5 DEF DemoInv

LEMMA EndKeeps ==
  ASSUME DemoInv, FinishGate \/ GateKilled
  PROVE  DemoInv'
<1>1. UNCHANGED <<problems, verified, censusRows, doneFile>> /\ gate' = "idle"
  BY DEF FinishGate, GateKilled, GateEnds
<1>2. FileIsRight(doneFile)' /\ Done' = Done /\ Bearing' = Bearing
  BY <1>1, FileStays
<1>3. summaryOf' \subseteq Done
  <2>1. CASE GateKilled
    BY <2>1 DEF GateKilled, DemoInv
  <2>2. CASE FinishGate
    <3>1. /\ sampled \in Seq(Bearing) /\ position \in Nat \ {0} /\ position > Len(sampled)
          /\ \A k \in 1..Len(sampled) : k < position => sampled[k] \in Done
      BY <2>2 DEF FinishGate, DemoInv
    <3>2. \A k \in DOMAIN sampled : sampled[k] \in Done
      BY <3>1
    <3> QED
      BY <2>2, <3>2 DEF FinishGate, Range
  <2> QED
    BY <2>1, <2>2
<1> QED
  BY <1>1, <1>2, <1>3 DEF DemoInv

\* What a line more means for the file.
LEMMA LineKeeps ==
  ASSUME DemoInv, UNCHANGED <<problems, verified>>, NEW e \in SettledRow, SettledRight(e),
         e.index \notin Done, doneFile' = Append(doneFile, e)
  PROVE  FileIsRight(doneFile)' /\ Done' = Done \cup {e.index} /\ Bearing' = Bearing
<1>1. FileIsRight(doneFile) /\ e.index \notin IndicesOf(doneFile)
  BY DoneIs DEF DemoInv
<1>2. /\ FileIsRight(Append(doneFile, e))
      /\ IndicesOf(Append(doneFile, e)) = IndicesOf(doneFile) \cup {e.index}
  BY <1>1, OneMoreSettled
<1> QED
  BY <1>2, DoneIs, RightStays DEF Bearing

LEMMA RecordKeeps ==
  ASSUME DemoInv, NextRecord
  PROVE  DemoInv'
<1> PICK k : k = ToJudge(position)
  OBVIOUS
<1>1. /\ sampled \in Seq(Bearing) /\ position \in Nat \ {0} /\ candidateLimit \in Nat \ {0}
      /\ \A j \in 1..Len(sampled) : j < position => sampled[j] \in Done
      /\ summaryOf \subseteq Done
  BY DEF DemoInv, NextRecord
<1>2. /\ k \in Nat \ {0} /\ k <= Len(sampled) + 1
      /\ k <= Len(sampled) => sampled[k] \notin Done
      /\ \A j \in 1..Len(sampled) : j < k => sampled[j] \in Done
  BY <1>1, NextToJudge
<1>3. UNCHANGED <<problems, verified, censusRows, sampled, candidateLimit, summaryOf>>
      /\ gate = "record"
  BY DEF NextRecord
<1>4. CASE k > Len(sampled) /\ gate' = "summary" /\ position' = k /\ UNCHANGED doneFile
  <2>1. FileIsRight(doneFile)' /\ Done' = Done /\ Bearing' = Bearing
    BY <1>3, <1>4, FileStays
  <2> QED
    BY <1>1, <1>2, <1>3, <1>4, <2>1 DEF DemoInv
<1>5. CASE /\ k <= Len(sampled) /\ position' = k + 1 /\ UNCHANGED gate
           /\ doneFile' = Append(doneFile, [index |-> sampled[k], outcome |-> "quarantined",
                                            limit |-> candidateLimit, late |-> FALSE])
  <2> DEFINE e == [index |-> sampled[k], outcome |-> "quarantined",
                   limit |-> candidateLimit, late |-> FALSE]
  <2>1. k \in 1..Len(sampled) /\ sampled[k] \in Bearing
    BY <1>1, <1>2, <1>5
  <2>2. e \in SettledRow /\ e.index = sampled[k] /\ e.outcome = "quarantined"
    BY <1>1, <2>1, BearingIs DEF SettledRow
  <2>3. doneFile' = Append(doneFile, e)
    BY <1>5
  <2> HIDE DEF e
  <2>4. SettledRight(e)
    BY <2>2 DEF SettledRight
  <2>5. FileIsRight(doneFile)' /\ Done' = Done \cup {sampled[k]} /\ Bearing' = Bearing
    BY <1>2, <1>3, <1>5, <2>2, <2>3, <2>4, LineKeeps
  <2>6. \A j \in 1..Len(sampled) : j < k + 1 => j < k \/ j = k
    BY <1>2
  <2>7. \A j \in 1..Len(sampled) : j < position' => sampled[j] \in Done'
    BY <1>2, <1>5, <2>5, <2>6
  <2> QED
    BY <1>1, <1>2, <1>3, <1>5, <2>5, <2>7 DEF DemoInv
<1>6. CASE /\ k <= Len(sampled) /\ gate' = "candidate" /\ position' = k /\ attempt' = 1
           /\ late' = FALSE /\ UNCHANGED doneFile
  <2>1. FileIsRight(doneFile)' /\ Done' = Done /\ Bearing' = Bearing
    BY <1>3, <1>6, FileStays
  <2> DEFINE calls == CandidatesOf(problems[sampled[k]], candidateLimit)
  <2>2. CallsNow' = calls
    BY <1>3, <1>6 DEF CallsNow
  <2>3. sampled[k] \in Bearing
    BY <1>1, <1>2, <1>6
  <2>4. calls \in Seq(Nat) /\ Len(calls) >= 1
    <3>1. problems[sampled[k]] \in Problems /\ CandidatesOf(problems[sampled[k]], 1) # << >>
      BY <2>3, BearingIs DEF Bearing
    <3> QED
      BY <1>1, <3>1, Outranked
  <2> HIDE DEF calls
  <2>5. attempt' \in 1..Len(CallsNow') /\ \A i \in 1..Len(CallsNow') : ~(i < attempt')
    BY <1>6, <2>2, <2>4
  <2>6. late' \in BOOLEAN /\ position' <= Len(sampled')
        /\ sampled'[position'] \notin Done' /\ position' \in Nat \ {0}
    BY <1>2, <1>3, <1>6, <2>1
  <2>7. \A j \in 1..Len(sampled') : j < position' => sampled'[j] \in Done'
    BY <1>2, <1>3, <1>6, <2>1
  <2> QED
    BY <1>1, <1>3, <1>6, <2>1, <2>5, <2>6, <2>7 DEF DemoInv
<1> QED
  BY <1>4, <1>5, <1>6 DEF NextRecord

LEMMA TryKeeps ==
  ASSUME DemoInv, NEW inTime \in BOOLEAN, TryCandidate(inTime)
  PROVE  DemoInv'
<1> DEFINE index == sampled[position]
           calls == CandidatesOf(problems[index], candidateLimit)
           p == problems[index]
<1>1. /\ sampled \in Seq(Bearing) /\ position \in Nat \ {0} /\ candidateLimit \in Nat \ {0}
      /\ \A j \in 1..Len(sampled) : j < position => sampled[j] \in Done
      /\ summaryOf \subseteq Done
      /\ position <= Len(sampled) /\ index \notin Done
      /\ attempt \in 1..Len(CallsNow) /\ late \in BOOLEAN
      /\ ~late => \A i \in 1..Len(CallsNow) : i < attempt => CallsNow[i] \notin verified
  BY DEF DemoInv, TryCandidate
<1>2. CallsNow = calls
  BY DEF CallsNow
<1>3. index \in Bearing /\ index \in 1..PoolSize /\ p \in Problems
  <2>1. index \in Bearing
    BY <1>1
  <2> HIDE DEF index
  <2> QED
    BY <2>1, BearingIs
<1>4. /\ calls \in Seq(Nat)
      /\ \A i \in 1..Len(calls) : calls[i] \in DOMAIN Outranking[p]
      /\ \A c \in DOMAIN Outranking[p] :
           \/ \E i \in 1..Len(calls) : calls[i] = c
           \/ Outranking[p][c] >= candidateLimit
  BY <1>1, <1>3, Outranked
<1>5. UNCHANGED <<problems, verified, censusRows, sampled, candidateLimit, summaryOf>>
      /\ gate = "candidate" /\ late' = (late \/ ~inTime)
  BY DEF TryCandidate
<1>6. late' \in BOOLEAN /\ (~late' => ~late /\ inTime)
  BY <1>1, <1>5
<1> DEFINE e(outcome) == [index |-> index, outcome |-> outcome,
                          limit |-> candidateLimit, late |-> late']
<1>7. \/ inTime /\ calls[attempt] \in verified /\ Settle(index, "accepted")
      \/ /\ ~ (inTime /\ calls[attempt] \in verified) /\ attempt = Len(calls)
         /\ Settle(index, "rejected")
      \/ /\ ~ (inTime /\ calls[attempt] \in verified) /\ attempt # Len(calls)
         /\ attempt' = attempt + 1 /\ UNCHANGED <<gate, position, doneFile>>
  BY DEF TryCandidate, GivesUp
<1> HIDE DEF calls, index, p
<1>8. p = problems[index] /\ index = sampled[position]
  BY DEF p, index
<1>9. ASSUME NEW outcome \in {"accepted", "rejected"}, SettledRight(e(outcome)),
             Settle(index, outcome)
      PROVE  DemoInv'
  <2> DEFINE line == e(outcome)
  <2>1. line \in SettledRow /\ line.index = index
    BY <1>1, <1>3, <1>6 DEF SettledRow
  <2>2. doneFile' = Append(doneFile, line) /\ gate' = "record" /\ position' = position + 1
    BY <1>9 DEF Settle
  <2>3. SettledRight(line)
    BY <1>9
  <2> HIDE DEF line
  <2>4. FileIsRight(doneFile)' /\ Done' = Done \cup {index} /\ Bearing' = Bearing
    BY <1>1, <1>5, <2>1, <2>2, <2>3, LineKeeps
  <2>5. \A j \in 1..Len(sampled) : j < position + 1 => j < position \/ j = position
    BY <1>1
  <2>6. \A j \in 1..Len(sampled) : j < position' => sampled[j] \in Done'
    BY <1>1, <1>8, <2>2, <2>4, <2>5
  <2>7. position' \in Nat \ {0}
    BY <1>1, <2>2
  <2> QED
    BY <1>1, <1>5, <2>2, <2>4, <2>6, <2>7 DEF DemoInv
<1>10. CASE inTime /\ calls[attempt] \in verified /\ Settle(index, "accepted")
  <2>1. calls[attempt] \in DOMAIN Outranking[p]
    BY <1>1, <1>2, <1>4
  <2>2. SettledRight(e("accepted"))
    BY <1>8, <1>10, <2>1 DEF SettledRight
  <2> HIDE DEF e
  <2> QED
    BY <1>9, <1>10, <2>2
<1>11. CASE /\ ~ (inTime /\ calls[attempt] \in verified) /\ attempt = Len(calls)
            /\ Settle(index, "rejected")
  <2>1. ASSUME ~late', NEW c \in DOMAIN Outranking[p] \cap verified
        PROVE  Outranking[p][c] >= candidateLimit
    <3>1. \A i \in 1..Len(calls) : i < attempt \/ i = attempt
      BY <1>4, <1>11
    <3>2. \A i \in 1..Len(calls) : calls[i] \notin verified
      BY <1>1, <1>2, <1>6, <1>11, <2>1, <3>1
    <3> QED
      BY <1>4, <3>2
  <2>2. SettledRight(e("rejected"))
    <3> DEFINE line == e("rejected")
    <3>1. line.index = index /\ line.outcome = "rejected" /\ line.limit = candidateLimit
          /\ line.late = late'
      OBVIOUS
    <3> HIDE DEF line, e
    <3> QED
      BY <1>8, <2>1, <3>1 DEF SettledRight, line
  <2> HIDE DEF e
  <2> QED
    BY <1>9, <1>11, <2>2
<1>12. CASE /\ ~ (inTime /\ calls[attempt] \in verified) /\ attempt # Len(calls)
            /\ attempt' = attempt + 1 /\ UNCHANGED <<gate, position, doneFile>>
  <2>1. FileIsRight(doneFile)' /\ Done' = Done /\ Bearing' = Bearing
    BY <1>5, <1>12, FileStays
  <2>2. CallsNow' = CallsNow
    BY <1>5, <1>12 DEF CallsNow
  <2>3. Len(calls) \in Nat
    BY <1>4
  <2>4. attempt' \in 1..Len(CallsNow')
    BY <1>1, <1>2, <1>12, <2>2, <2>3
  <2>5. \A i \in 1..Len(calls) : i < attempt + 1 => i < attempt \/ i = attempt
    BY <1>1, <1>2
  <2>6. ~late' => \A i \in 1..Len(CallsNow') : i < attempt' => CallsNow'[i] \notin verified
    BY <1>1, <1>2, <1>6, <1>12, <2>2, <2>5
  <2>7. position' = position /\ sampled'[position'] \notin Done'
    BY <1>1, <1>5, <1>8, <1>12, <2>1
  <2> QED
    BY <1>1, <1>5, <1>6, <1>12, <2>1, <2>4, <2>6, <2>7 DEF DemoInv
<1> QED
  BY <1>7, <1>10, <1>11, <1>12

LEMMA DemoStays == DemoInv /\ [demoNext]_demoVars => DemoInv'
<1> SUFFICES ASSUME DemoInv, [demoNext]_demoVars PROVE DemoInv'
  OBVIOUS
<1>1. CASE UNCHANGED demoVars
  <2>1. UNCHANGED <<problems, verified, censusRows, gate, sampled, position, attempt,
                    candidateLimit, late, doneFile, summaryOf>>
    BY <1>1 DEF demoVars
  <2>2. FileIsRight(doneFile)' /\ Done' = Done /\ Bearing' = Bearing
    BY <2>1, FileStays
  <2>3. CallsNow' = CallsNow
    BY <2>1 DEF CallsNow
  <2> QED
    BY <2>1, <2>2, <2>3 DEF DemoInv
<1> QED
  BY <1>1, CensusKeeps, StartKeeps, RecordKeeps, EndKeeps, TryKeeps DEF demoNext

LEMMA InvSettles == DemoInv => GateSettlesOnce
<1> SUFFICES ASSUME DemoInv PROVE GateSettlesOnce
  OBVIOUS
<1>1. /\ doneFile \in Seq(SettledRow) /\ DOMAIN doneFile = 1..Len(doneFile)
      /\ \A j, k \in 1..Len(doneFile) : j # k => doneFile[j].index # doneFile[k].index
      /\ \A k \in 1..Len(doneFile) : SettledRight(doneFile[k])
      /\ summaryOf \subseteq Done
  BY DEF DemoInv, FileIsRight
<1> QED
  BY <1>1 DEF GateSettlesOnce, SettledRight

\* However often it is interrupted and run again with another sample or more
\* candidates, the gate settles an index once and whole (sympy_pool_gate.py,
\* run), an accepted record has a call that verifies, and a rejected one has no
\* verifying call among the best that its run was allowed to try, for any pool,
\* verdicts, samples and limits.
THEOREM GateCorrect == demoSpec => []GateSettlesOnce
<1>1. DemoInv /\ [demoNext]_demoVars => DemoInv'
  BY DemoStays
<1> QED
  BY <1>1, DemoBegins, InvSettles, PTL DEF demoSpec
=============================================================================
