-------------------------- MODULE Backtest_proofs ---------------------------
(***************************************************************************)
(* Theorems about a backtest request, for all documents, histories and     *)
(* timeframes.                                                             *)
(***************************************************************************)
EXTENDS Backtest, Sums, SequenceTheorems

-----------------------------------------------------------------------------
(* The merge of the timeframes.                                            *)

LEMMA ProductLess ==
    ASSUME NEW m \in Nat \ {0}, NEW i \in Int, NEW j \in Int, i < j
    PROVE  i * m < j * m
  BY SMTT(30)

LEMMA CloseOfFacts ==
    ASSUME NEW tf \in Timeframes
    PROVE  /\ \A i \in Nat : CloseOf(tf, i) \in Nat
           /\ \A i, j \in Nat : i < j => CloseOf(tf, i) < CloseOf(tf, j)
           /\ Minutes[tf] \in Nat \ {0}
<1>1. Minutes[tf] \in Nat \ {0}
  BY BacktestAssumption
<1> QED
  BY <1>1, ProductLess DEF CloseOf

(* The time of a candle is so many minutes before its close.               *)
Offset(tf) == IF labels = "close" THEN 0 ELSE Minutes[tf]

LEMMA LabelFacts ==
    ASSUME NEW tf \in Timeframes
    PROVE  /\ \A i \in Nat \ {0} : Label(tf, i) \in Nat /\ Label(tf, i) = CloseOf(tf, i) - Offset(tf)
           /\ \A i, j \in Nat \ {0} : i < j => Label(tf, i) < Label(tf, j)
<1>1. \A i \in Nat \ {0} : CloseOf(tf, i - 1) \in Nat /\ CloseOf(tf, i - 1) = CloseOf(tf, i) - Minutes[tf]
  <2> SUFFICES ASSUME NEW i \in Nat \ {0}
               PROVE  CloseOf(tf, i - 1) \in Nat /\ CloseOf(tf, i - 1) = CloseOf(tf, i) - Minutes[tf]
    OBVIOUS
  <2>1. Minutes[tf] \in Nat /\ i - 1 \in Nat
    BY CloseOfFacts
  <2>2. (i - 1) * Minutes[tf] = i * Minutes[tf] - Minutes[tf]
    BY <2>1, SMTT(30)
  <2> QED
    BY <2>1, <2>2, CloseOfFacts DEF CloseOf
<1>2. \A i \in Nat \ {0} : Label(tf, i) \in Nat /\ Label(tf, i) = CloseOf(tf, i) - Offset(tf)
  <2> SUFFICES ASSUME NEW i \in Nat \ {0}
               PROVE  Label(tf, i) \in Nat /\ Label(tf, i) = CloseOf(tf, i) - Offset(tf)
    OBVIOUS
  <2>1. CloseOf(tf, i) \in Nat
    BY CloseOfFacts
  <2> QED
    BY <1>1, <2>1 DEF Label, Offset
<1>3. \A i, j \in Nat \ {0} : i < j => CloseOf(tf, i) < CloseOf(tf, j)
  BY CloseOfFacts
<1>4. \A i \in Nat \ {0} : CloseOf(tf, i) \in Nat
  BY CloseOfFacts
<1>5. Offset(tf) \in Nat
  BY CloseOfFacts DEF Offset
<1> HIDE DEF Offset
<1> QED
  BY <1>2, <1>3, <1>4, <1>5

CandleType == [open : Int, high : Int, low : Int, close : Int, volume : Int, day : Int]

Seen(tf) == Len(replayed[tf])

(* The order of the merge (backtest/runner.go mergeByTime).                *)
Precedes(a, i, b, j) ==
    \/ Label(a, i) < Label(b, j)
    \/ (Label(a, i) = Label(b, j) /\ Minutes[a] <= Minutes[b])

HistoryType ==
    /\ supplied \subseteq Timeframes
    /\ replayed \in [Timeframes -> Seq(CandleType)]
    /\ turn \in {NoTurn} \cup supplied

(* What was replayed precedes what is still to come, and the candle of the *)
(* turn is the last of all.                                                *)
MergeInv ==
    /\ \A a, b \in supplied : Seen(a) > 0 /\ b \in Remaining => Precedes(a, Seen(a), b, Seen(b) + 1)
    /\ turn # NoTurn =>
          /\ Seen(turn) > 0
          /\ \A a \in supplied : Seen(a) > 0 => Precedes(a, Seen(a), turn, Seen(turn))

NextCandle(tf, shape) ==
    [open |-> shape.open, high |-> shape.high, low |-> shape.low, close |-> shape.close,
     volume |-> shape.volume, day |-> Label(tf, Seen(tf) + 1) \div DayLength]

LEMMA SeenNat ==
    ASSUME HistoryType
    PROVE  \A tf \in Timeframes : Seen(tf) \in Nat
  BY DEF HistoryType, Seen

LEMMA NextCandleType ==
    ASSUME NEW tf \in Timeframes, NEW shape \in Shapes, HistoryType
    PROVE  NextCandle(tf, shape) \in CandleType
<1>1. {shape.open, shape.high, shape.low, shape.close, shape.volume} \subseteq Int
  BY BacktestAssumption
<1>2. Label(tf, Seen(tf) + 1) \in Nat
  BY SeenNat, LabelFacts
<1>3. Label(tf, Seen(tf) + 1) \div DayLength \in Int
  BY <1>2, BacktestAssumption
<1> QED
  BY <1>1, <1>3 DEF NextCandle, CandleType

(* One candle of one timeframe is appended.                                *)
LEMMA ReplayEffect ==
    ASSUME HistoryType, NEW tf \in Timeframes, Replay(tf)
    PROVE  /\ tf \in supplied /\ supplied' = supplied /\ turn' = tf
           /\ \E shape \in Shapes :
                 replayed' = [replayed EXCEPT ![tf] = Append(@, NextCandle(tf, shape))]
           /\ Seen(tf)' = Seen(tf) + 1 /\ replayed' \in [Timeframes -> Seq(CandleType)]
           /\ \A x \in Timeframes \ {tf} : replayed'[x] = replayed[x]
<1>1. PICK shape \in Shapes : replayed' = [replayed EXCEPT ![tf] = Append(@, NextCandle(tf, shape))]
  BY DEF Replay, NextCandle, Seen
<1>2. NextCandle(tf, shape) \in CandleType
  BY NextCandleType
<1>3. tf \in supplied /\ supplied' = supplied /\ turn' = tf
  BY DEF Replay, Remaining
<1> HIDE DEF NextCandle
<1>4. replayed'[tf] = Append(replayed[tf], NextCandle(tf, shape))
  BY <1>1 DEF HistoryType
<1>5. replayed'[tf] \in Seq(CandleType) /\ Seen(tf)' = Seen(tf) + 1
  BY <1>2, <1>4 DEF HistoryType, Seen
<1>6. replayed' \in [Timeframes -> Seq(CandleType)] /\ \A x \in Timeframes \ {tf} : replayed'[x] = replayed[x]
  BY <1>1, <1>5 DEF HistoryType
<1> QED
  BY <1>1, <1>3, <1>5, <1>6

LEMMA InitHistory == Init => HistoryType /\ MergeInv
  BY DEF Init, HistoryType, MergeInv, Seen

LEMMA HistoryStep == HistoryType /\ [Next]_vars => HistoryType'
<1> SUFFICES ASSUME HistoryType, [Next]_vars PROVE HistoryType'
  OBVIOUS
<1>1. ASSUME NEW tf \in Timeframes, Replay(tf) PROVE HistoryType'
  BY <1>1, ReplayEffect DEF HistoryType
<1>2. CASE Refuse \/ Accept \/ Finish \/ UNCHANGED vars
  BY <1>2 DEF Refuse, Accept, Finish, vars, HistoryType
<1> QED
  BY <1>1, <1>2 DEF Next

LEMMA MergeStep ==
    ASSUME HistoryType, MergeInv, [Next]_vars
    PROVE  MergeInv'
<1>1. ASSUME NEW tf \in Timeframes, Replay(tf) PROVE MergeInv'
  <2>n. \A a \in Timeframes : Seen(a) \in Nat /\ Minutes[a] \in Nat \ {0}
    BY SeenNat, CloseOfFacts
  <2>e. /\ tf \in supplied /\ supplied' = supplied /\ turn' = tf /\ Seen(tf)' = Seen(tf) + 1
        /\ \A x \in Timeframes : x # tf => Seen(x)' = Seen(x)
        /\ supplied \subseteq Timeframes /\ labels' = labels
    BY <1>1, ReplayEffect DEF Seen, HistoryType, Replay
  <2>r. \A b \in Timeframes : b # tf => (b \in Remaining' <=> b \in Remaining)
    BY <2>e DEF Remaining, Seen, CloseOf
  <2>1. tf \in Remaining
    BY <1>1 DEF Replay
  <2>2. \A b \in Remaining : Precedes(tf, Seen(tf) + 1, b, Seen(b) + 1)
    BY <1>1 DEF Replay, Due, LabelOfNext, Seen, Precedes
  <2>3. Label(tf, Seen(tf) + 1) < Label(tf, Seen(tf) + 2)
    BY <2>n, LabelFacts
  <2>4. Precedes(tf, Seen(tf) + 1, tf, Seen(tf) + 2)
    BY <2>3 DEF Precedes
  <2>5. ASSUME NEW a \in supplied, Seen(a) > 0 PROVE Precedes(a, Seen(a), tf, Seen(tf) + 1)
    BY <2>1, <2>e, <2>5 DEF MergeInv
  <2>6. ASSUME NEW a \in supplied, Seen(a) > 0 PROVE Precedes(a, Seen(a), tf, Seen(tf) + 2)
    <3>1. /\ Label(a, Seen(a)) \in Nat /\ Label(tf, Seen(tf) + 1) \in Nat
          /\ Label(tf, Seen(tf) + 2) \in Nat
      BY <2>6, <2>n, <2>e, LabelFacts
    <3> QED
      BY <2>3, <2>5, <2>6, <3>1 DEF Precedes
  <2>7. Seen(tf) + 1 + 1 = Seen(tf) + 2
    BY <2>n
  <2>8. ASSUME NEW a \in supplied, NEW b \in supplied, Seen(a)' > 0, b \in Remaining'
        PROVE  Precedes(a, Seen(a)', b, Seen(b)' + 1)
    <3>1. CASE a = tf /\ b = tf
      BY <2>4, <2>7, <2>e, <3>1
    <3>2. CASE a = tf /\ b # tf
      BY <2>2, <2>8, <2>e, <2>r, <3>2
    <3>3. CASE a # tf /\ b = tf
      BY <2>6, <2>7, <2>8, <2>e, <3>3
    <3>4. CASE a # tf /\ b # tf
      BY <2>8, <2>e, <2>r, <3>4 DEF MergeInv
    <3> QED
      BY <3>1, <3>2, <3>3, <3>4
  <2>9. ASSUME NEW a \in supplied, Seen(a)' > 0 PROVE Precedes(a, Seen(a)', tf, Seen(tf)')
    <3>1. CASE a = tf
      BY <2>e, <2>n, <3>1 DEF Precedes
    <3>2. CASE a # tf
      BY <2>5, <2>9, <2>e, <3>2
    <3> QED
      BY <3>1, <3>2
  <2>10. Seen(tf)' > 0
    BY <2>e, <2>n
  <2>11. \A a, b \in supplied : Seen(a)' > 0 /\ b \in Remaining' => Precedes(a, Seen(a), b, Seen(b) + 1)'
    BY <2>8, <2>e DEF Precedes, Label, CloseOf
  <2>12. \A a \in supplied : Seen(a)' > 0 => Precedes(a, Seen(a), tf, Seen(tf))'
    BY <2>9, <2>e DEF Precedes, Label, CloseOf
  <2> QED
    BY <2>e, <2>10, <2>11, <2>12 DEF MergeInv
<1>2. CASE Refuse \/ Accept \/ Finish \/ UNCHANGED vars
  BY <1>2 DEF Refuse, Accept, Finish, vars, MergeInv, Seen, Precedes, Label, CloseOf, Remaining
<1> QED
  BY <1>1, <1>2 DEF Next

(* When the strategy evaluates its candle the indicators have seen exactly *)
(* the candles that have closed by then, or so many minutes later as the   *)
(* times of the request put them, for any set of timeframes and history.   *)
THEOREM LooksNoFurtherAhead == Spec => []LookAheadExact
<1>1. HistoryType /\ MergeInv => LookAheadExact
  <2> DEFINE At == CloseOf(turn, Seen(turn))
             Past(x, i) == \/ CloseOf(x, i) < At + Ahead(x)
                           \/ (CloseOf(x, i) = At + Ahead(x) /\ Minutes[x] < Minutes[turn])
  <2> SUFFICES ASSUME HistoryType, MergeInv, turn # NoTurn, NEW tf \in supplied \ {turn}
               PROVE  /\ \A i \in 1 .. Seen(tf) : Past(tf, i)
                      /\ tf \in Remaining => ~Past(tf, Seen(tf) + 1)
    BY DEF LookAheadExact, Seen
  <2>1. /\ turn \in Timeframes /\ tf \in Timeframes /\ turn \in supplied
        /\ Seen(turn) \in Nat /\ Seen(tf) \in Nat /\ Seen(turn) > 0
    BY SeenNat DEF HistoryType, MergeInv
  <2>2. Minutes[tf] # Minutes[turn] /\ Minutes[tf] \in Nat /\ Minutes[turn] \in Nat
    BY <2>1, BacktestAssumption
  <2>3. ASSUME NEW i \in Nat \ {0}
        PROVE  /\ CloseOf(tf, i) \in Nat /\ At \in Nat /\ Label(tf, i) \in Nat
               /\ Label(turn, Seen(turn)) \in Nat
               /\ Label(tf, i) - Label(turn, Seen(turn)) = CloseOf(tf, i) - (At + Ahead(tf))
    <3>1. CloseOf(tf, i) \in Nat /\ At \in Nat
      BY <2>1, CloseOfFacts
    <3>2. /\ Label(tf, i) \in Nat /\ Label(tf, i) = CloseOf(tf, i) - Offset(tf)
          /\ Label(turn, Seen(turn)) \in Nat /\ Label(turn, Seen(turn)) = At - Offset(turn)
      BY <2>1, LabelFacts
    <3> HIDE DEF At
    <3> QED
      BY <2>2, <3>1, <3>2 DEF Ahead, Offset
  <2>4. ASSUME NEW i \in 1 .. Seen(tf) PROVE Past(tf, i)
    <3>0. i \in Nat \ {0} /\ Seen(tf) > 0 /\ (i = Seen(tf) \/ i < Seen(tf))
      BY <2>1
    <3>1. Precedes(tf, Seen(tf), turn, Seen(turn))
      BY <2>1, <3>0 DEF MergeInv
    <3>2. i = Seen(tf) \/ Label(tf, i) < Label(tf, Seen(tf))
      BY <2>1, <3>0, LabelFacts
    <3>3. Label(tf, Seen(tf)) \in Nat
      BY <2>1, <3>0, <2>3
    <3>4. Label(tf, i) < Label(turn, Seen(turn))
          \/ (Label(tf, i) = Label(turn, Seen(turn)) /\ Minutes[tf] < Minutes[turn])
      BY <2>2, <2>3, <3>0, <3>1, <3>2, <3>3 DEF Precedes
    <3>5. Ahead(tf) \in Int
      BY <2>2 DEF Ahead
    <3> HIDE DEF At
    <3> QED
      BY <2>3, <3>0, <3>4, <3>5
  <2>5. ASSUME tf \in Remaining, Past(tf, Seen(tf) + 1) PROVE FALSE
    <3>0. Seen(tf) + 1 \in Nat \ {0}
      BY <2>1
    <3>1. Precedes(turn, Seen(turn), tf, Seen(tf) + 1)
      BY <2>1, <2>5 DEF MergeInv
    <3>2. Ahead(tf) \in Int
      BY <2>2 DEF Ahead
    <3> HIDE DEF At
    <3> QED
      BY <2>2, <2>3, <2>5, <3>0, <3>1, <3>2 DEF Precedes
  <2> QED
    BY <2>4, <2>5
<1>2. HistoryType /\ MergeInv /\ [Next]_vars => MergeInv'
  BY MergeStep
<1> QED
  BY <1>1, <1>2, InitHistory, HistoryStep, PTL DEF Spec
-----------------------------------------------------------------------------
(* Condition trees.                                                        *)

(* What every parsed tree is.                                              *)
WellTreed(tree) ==
    /\ DOMAIN tree \in SUBSET Nat /\ IsFiniteSet(DOMAIN tree)
    /\ tree # Nil => 1 \in DOMAIN tree
    /\ \A n \in DOMAIN tree :
          /\ tree[n].kind \in {"all", "any", "not", "rule", "empty"}
          /\ tree[n].kids \in Seq({m \in DOMAIN tree : m > n})
          /\ tree[n].kind = "not" => Len(tree[n].kids) = 1

LEMMA BelowClosed ==
    ASSUME NEW D \in SUBSET Nat, IsFiniteSet(D), NEW kids,
           \A m \in D : \A i \in 1 .. Len(kids[m]) : kids[m][i] \in D /\ kids[m][i] > m,
           NEW n \in D
    PROVE  /\ Below(D, kids, n) \subseteq D /\ n \in Below(D, kids, n)
           /\ \A m \in Below(D, kids, n) : \A i \in 1 .. Len(kids[m]) : kids[m][i] \in Below(D, kids, n)
<1> DEFINE V == SUBSET D
           Eq(f) == f = [m \in D |-> {m} \cup UNION {f[kids[m][i]] : i \in 1 .. Len(kids[m])}]
           down == CHOOSE f : Eq(f)
           step == [m \in D |-> [f \in [D -> V] |-> {m} \cup UNION {f[kids[m][i]] : i \in 1 .. Len(kids[m])}]]
<1>1. step \in [D -> [[D -> V] -> V]]
  BY ZenonT(60)
<1>2. ASSUME NEW m \in D, NEW f \in [D -> V], NEW g \in [D -> V], \A k \in D : k > m => f[k] = g[k]
      PROVE  step[m][f] = step[m][g]
  <2>1. \A i \in 1 .. Len(kids[m]) : f[kids[m][i]] = g[kids[m][i]]
    BY <1>2
  <2>2. {f[kids[m][i]] : i \in 1 .. Len(kids[m])} = {g[kids[m][i]] : i \in 1 .. Len(kids[m])}
    BY <2>1
  <2> QED
    BY <2>2
<1>3. PICK f \in [D -> V] : \A m \in D : f[m] = step[m][f]
  <2> HIDE DEF step
  <2>1. V # {}
    OBVIOUS
  <2>2. \A m \in D : \A f, g \in [D -> V] :
           (\A k \in D : k > m => f[k] = g[k]) => step[m][f] = step[m][g]
    BY <1>2
  <2> HIDE DEF V
  <2>3. LooksAbove(step, D, V)
    BY <1>1, <2>1, <2>2 DEF LooksAbove
  <2> QED
    BY <2>3, DownwardRecursion
<1>4. Eq(f)
  <2>1. \A m \in D : f[m] = {m} \cup UNION {f[kids[m][i]] : i \in 1 .. Len(kids[m])}
    BY <1>3
  <2> QED
    BY <2>1
<1>5. Eq(down)
  <2> HIDE DEF Eq
  <2> QED
    BY <1>4
<1> DEFINE Closed(m) == /\ down[m] \subseteq D /\ m \in down[m]
                        /\ \A k \in down[m] : \A i \in 1 .. Len(kids[k]) : kids[k][i] \in down[m]
<1>6. {m \in D : Closed(m)} = D
  <2> DEFINE F == {m \in D : Closed(m)}
  <2>1. ASSUME NEW m \in D, \A k \in D : k > m => k \in F PROVE m \in F
    <3>1. down[m] = {m} \cup UNION {down[kids[m][i]] : i \in 1 .. Len(kids[m])}
      <4> HIDE DEF down
      <4> QED
        BY <1>5
    <3>2. \A i \in 1 .. Len(kids[m]) : Closed(kids[m][i])
      <4> HIDE DEF Closed
      <4> QED
        BY <2>1
    <3> HIDE DEF down
    <3>3. down[m] \subseteq D /\ m \in down[m]
      BY <3>1, <3>2
    <3>4. ASSUME NEW k \in down[m], NEW i \in 1 .. Len(kids[k]) PROVE kids[k][i] \in down[m]
      <4>1. CASE k = m
        BY <3>1, <3>2, <3>4, <4>1
      <4>2. CASE k # m
        <5>1. PICK j \in 1 .. Len(kids[m]) : k \in down[kids[m][j]]
          BY <3>1, <4>2
        <5>2. kids[k][i] \in down[kids[m][j]]
          BY <3>2, <3>4, <5>1
        <5> QED
          BY <3>1, <5>2
      <4> QED
        BY <4>1, <4>2
    <3> QED
      BY <3>3, <3>4
  <2>2. F \in SUBSET D
    OBVIOUS
  <2> HIDE DEF F
  <2>3. F = D
    BY <2>1, <2>2, DownwardInduction
  <2> QED
    BY <2>3 DEF F
<1>7. Below(D, kids, n) = down[n]
  BY DEF Below
<1>8. Closed(n)
  <2> HIDE DEF Closed
  <2> QED
    BY <1>6
<1> HIDE DEF down
<1> QED
  BY <1>7, <1>8

LEMMA RawNodesClosed ==
    ASSUME NEW rawTree, IsTree(rawTree), rawTree # Nil
    PROVE  /\ RawNodes(rawTree) \subseteq DOMAIN rawTree /\ 1 \in RawNodes(rawTree)
           /\ \A m \in DOMAIN rawTree : /\ KidsOf(rawTree[m]) \in Seq(DOMAIN rawTree)
                                        /\ \A i \in 1 .. Len(KidsOf(rawTree[m])) : KidsOf(rawTree[m])[i] > m
           /\ \A m \in RawNodes(rawTree) : \A i \in 1 .. Len(KidsOf(rawTree[m])) :
                 KidsOf(rawTree[m])[i] \in RawNodes(rawTree)
<1> DEFINE D == DOMAIN rawTree
           kids == [n \in D |-> KidsOf(rawTree[n])]
<1>1. D \in SUBSET Nat /\ IsFiniteSet(D) /\ 1 \in D
  BY DEF IsTree
<1>2. ASSUME NEW m \in D
      PROVE  kids[m] \in Seq(D) /\ \A i \in 1 .. Len(kids[m]) : kids[m][i] \in D /\ kids[m][i] > m
  <2> DEFINE above == {k \in D : k > m}
  <2>1. kids[m] \in Seq(above)
    BY DEF IsTree
  <2>2. \A k \in above : k \in D /\ k > m
    OBVIOUS
  <2> HIDE DEF above, kids, D
  <2>3. \A i \in 1 .. Len(kids[m]) : kids[m][i] \in above
    BY <2>1
  <2> QED
    BY <2>1, <2>2, <2>3
<1>3. RawNodes(rawTree) = Below(D, kids, 1)
  BY DEF RawNodes
<1>4. /\ RawNodes(rawTree) \subseteq D /\ 1 \in RawNodes(rawTree)
      /\ \A m \in RawNodes(rawTree) : \A i \in 1 .. Len(kids[m]) : kids[m][i] \in RawNodes(rawTree)
  <2>1. \A m \in D : \A i \in 1 .. Len(kids[m]) : kids[m][i] \in D /\ kids[m][i] > m
    BY <1>2
  <2> HIDE DEF D, kids
  <2> QED
    BY <1>1, <1>3, <2>1, BelowClosed
<1>5. \A m \in D : kids[m] = KidsOf(rawTree[m])
  OBVIOUS
<1> HIDE DEF kids
<1> QED
  BY <1>2, <1>4, <1>5

LEMMA RawNodesIn ==
    ASSUME NEW rawTree, IsTree(rawTree)
    PROVE  RawNodes(rawTree) \subseteq DOMAIN rawTree
<1>1. CASE rawTree = Nil
  BY <1>1 DEF RawNodes
<1> QED
  BY <1>1, RawNodesClosed

LEMMA NotHasOneKid ==
    ASSUME NEW raw
    PROVE  /\ KindOf(raw) \in {"all", "any", "not", "rule", "empty"}
           /\ KindOf(raw) = "not" => Len(KidsOf(raw)) = 1
  BY DEF KindOf, KidsOf

LEMMA ParsedTree ==
    ASSUME NEW rawTree, IsTree(rawTree), NEW flatLast
    PROVE  WellTreed(UnmarshalCondition(rawTree, flatLast))
<1> DEFINE D == DOMAIN rawTree
           kids == [n \in D |-> KidsOf(rawTree[n])]
           tree == UnmarshalCondition(rawTree, flatLast)
<1>0. DOMAIN tree = RawNodes(rawTree)
  BY DEF UnmarshalCondition
<1>1. CASE rawTree = Nil
  <2>1. DOMAIN tree = {}
    BY <1>0, <1>1 DEF RawNodes
  <2>2. tree = Nil
    BY <2>1 DEF UnmarshalCondition, Nil, EmptyMap
  <2> HIDE DEF tree
  <2>3. WellTreed(tree)
    BY <2>1, <2>2, FS_EmptySet DEF WellTreed
  <2> QED
    BY <2>3 DEF tree
<1>2. CASE rawTree # Nil
  <2>1. D \in SUBSET Nat /\ IsFiniteSet(D)
    BY DEF IsTree
  <2>2. \A m \in D : kids[m] = KidsOf(rawTree[m])
    OBVIOUS
  <2>3. \A m \in D : kids[m] \in Seq(D) /\ \A i \in 1 .. Len(kids[m]) : kids[m][i] > m
    BY <1>2, <2>2, RawNodesClosed
  <2>4. /\ RawNodes(rawTree) \subseteq D /\ 1 \in RawNodes(rawTree)
        /\ \A m \in RawNodes(rawTree) : \A i \in 1 .. Len(kids[m]) : kids[m][i] \in RawNodes(rawTree)
    BY <1>2, <2>2, RawNodesClosed
  <2>5. IsFiniteSet(RawNodes(rawTree))
    BY <2>1, <2>4, FS_Subset
  <2>6. ASSUME NEW n \in RawNodes(rawTree)
        PROVE  /\ tree[n].kind = KindOf(rawTree[n]) /\ tree[n].kids = kids[n]
               /\ kids[n] = KidsOf(rawTree[n])
    BY <2>4 DEF UnmarshalCondition
  <2>7. ASSUME NEW n \in RawNodes(rawTree)
        PROVE  kids[n] \in Seq({m \in RawNodes(rawTree) : m > n})
    <3> DEFINE above == {m \in RawNodes(rawTree) : m > n}
    <3> HIDE DEF kids, D
    <3>1. kids[n] \in Seq(D) /\ \A i \in 1 .. Len(kids[n]) : kids[n][i] \in above
      BY <2>3, <2>4
    <3> HIDE DEF above
    <3>2. kids[n] \in Seq(above)
      BY <3>1
    <3> QED
      BY <3>2 DEF above
  <2> HIDE DEF tree, kids
  <2>8. \A n \in DOMAIN tree :
          /\ tree[n].kind \in {"all", "any", "not", "rule", "empty"}
          /\ tree[n].kids \in Seq({m \in DOMAIN tree : m > n})
          /\ tree[n].kind = "not" => Len(tree[n].kids) = 1
    BY <1>0, <2>6, <2>7, NotHasOneKid
  <2>9. WellTreed(tree)
    BY <1>0, <2>1, <2>4, <2>5, <2>8 DEF WellTreed
  <2> QED
    BY <2>9 DEF tree
<1> QED
  BY <1>1, <1>2

LEMMA FirstUnlikeFacts ==
    ASSUME NEW neutral, NEW k \in Nat, NEW results, DOMAIN results = 1 .. k
    PROVE  \/ (\A i \in 1 .. k : results[i] = neutral) /\ FirstUnlike(neutral, results) = neutral
           \/ \E i \in 1 .. k : results[i] # neutral /\ FirstUnlike(neutral, results) = results[i]
<1> DEFINE unlike == {i \in DOMAIN results : results[i] # neutral}
           first == CHOOSE i \in unlike : \A j \in unlike : i <= j
<1>1. CASE unlike = {}
  BY <1>1 DEF FirstUnlike
<1>2. CASE unlike # {}
  <2>1. unlike \in SUBSET Nat /\ unlike \subseteq 1 .. k
    OBVIOUS
  <2>2. first \in unlike
    <3> HIDE DEF unlike
    <3> QED
      BY <1>2, <2>1, LeastNatural
  <2>3. FirstUnlike(neutral, results) = results[first]
    BY <1>2 DEF FirstUnlike
  <2> HIDE DEF first
  <2> QED
    BY <2>1, <2>2, <2>3
<1> QED
  BY <1>1, <1>2

Verdicts == {"true", "false", "error"}

LEMMA NegatedIn == ASSUME NEW r PROVE Negated(r) \in Verdicts
  BY DEF Negated, Truth, Verdicts

(* What the recursion of EvaluateNode makes of the values of the kids.     *)
Results(node, f) == [i \in 1 .. Len(node.kids) |-> f[node.kids[i]]]

NodeVerdict(node, f, read) ==
    CASE node.kind = "all" -> FirstUnlike("true", Results(node, f))
      [] node.kind = "any" -> FirstUnlike("false", Results(node, f))
      [] node.kind = "not" -> Negated(f[node.kids[1]])
      [] node.kind = "rule" -> read
      [] node.kind = "empty" -> "error"

Solves(value, tree, leaf) ==
    value = [m \in DOMAIN tree |-> NodeVerdict(tree[m], value, leaf[m])]

KidsAbove(tree) ==
    \A m \in DOMAIN tree : /\ Len(tree[m].kids) \in Nat
                           /\ \A i \in 1 .. Len(tree[m].kids) : tree[m].kids[i] \in DOMAIN tree /\ tree[m].kids[i] > m

LEMMA TreeKids ==
    ASSUME NEW tree, WellTreed(tree)
    PROVE  KidsAbove(tree)
<1> SUFFICES ASSUME NEW m \in DOMAIN tree
             PROVE  /\ Len(tree[m].kids) \in Nat
                    /\ \A i \in 1 .. Len(tree[m].kids) : tree[m].kids[i] \in DOMAIN tree /\ tree[m].kids[i] > m
  BY DEF KidsAbove
<1> DEFINE above == {k \in DOMAIN tree : k > m}
<1>1. tree[m].kids \in Seq(above)
  BY DEF WellTreed
<1>2. \A k \in above : k \in DOMAIN tree /\ k > m
  OBVIOUS
<1> HIDE DEF above
<1> QED
  BY <1>1, <1>2

LEMMA VerdictIn ==
    ASSUME NEW tree, WellTreed(tree), NEW m \in DOMAIN tree, NEW V, Verdicts \subseteq V,
           NEW f \in [DOMAIN tree -> V], NEW read \in V
    PROVE  NodeVerdict(tree[m], f, read) \in V
<1>1. /\ Len(tree[m].kids) \in Nat
      /\ \A i \in 1 .. Len(tree[m].kids) : tree[m].kids[i] \in DOMAIN tree
  BY TreeKids DEF KidsAbove
<1> DEFINE n == Len(tree[m].kids)
           results == Results(tree[m], f)
<1>2. \A i \in 1 .. n : results[i] \in V
  BY <1>1 DEF Results
<1>3. n \in Nat /\ DOMAIN results = 1 .. n
  BY <1>1 DEF Results
<1>4. FirstUnlike("true", results) \in V /\ FirstUnlike("false", results) \in V
  <2>1. "true" \in V /\ "false" \in V
    BY DEF Verdicts
  <2> HIDE DEF results, n
  <2> QED
    BY <1>2, <1>3, <2>1, FirstUnlikeFacts
<1>5. Negated(f[tree[m].kids[1]]) \in V /\ "error" \in V
  BY NegatedIn DEF Verdicts
<1>6. tree[m].kind \in {"all", "any", "not", "rule", "empty"}
  BY DEF WellTreed
<1> QED
  BY <1>4, <1>5, <1>6 DEF NodeVerdict

LEMMA VerdictLooksAbove ==
    ASSUME NEW tree, WellTreed(tree), NEW m \in DOMAIN tree, NEW f, NEW g, NEW read,
           \A k \in DOMAIN tree : k > m => f[k] = g[k]
    PROVE  NodeVerdict(tree[m], f, read) = NodeVerdict(tree[m], g, read)
<1> DEFINE n == Len(tree[m].kids)
<1>1. \A i \in 1 .. n : f[tree[m].kids[i]] = g[tree[m].kids[i]]
  BY TreeKids DEF KidsAbove
<1>2. Results(tree[m], f) = Results(tree[m], g)
  BY <1>1 DEF Results
<1>3. tree[m].kind = "not" => f[tree[m].kids[1]] = g[tree[m].kids[1]]
  <2>1. tree[m].kind = "not" => n = 1
    BY DEF WellTreed
  <2> QED
    BY <1>1, <2>1
<1> QED
  BY <1>2, <1>3 DEF NodeVerdict

LEMMA VerdictsExist ==
    ASSUME NEW tree, WellTreed(tree), NEW leaf
    PROVE  \E value : Solves(value, tree, leaf)
<1> DEFINE D == DOMAIN tree
           V == Verdicts \cup {leaf[m] : m \in D}
           step == [m \in D |-> [f \in [D -> V] |-> NodeVerdict(tree[m], f, leaf[m])]]
<1>1. D \in SUBSET Nat /\ IsFiniteSet(D) /\ V # {}
  BY DEF WellTreed, Verdicts
<1>2. ASSUME NEW m \in D, NEW f \in [D -> V] PROVE NodeVerdict(tree[m], f, leaf[m]) \in V
  <2>1. Verdicts \subseteq V /\ leaf[m] \in V
    OBVIOUS
  <2> HIDE DEF V
  <2> QED
    BY <2>1, VerdictIn
<1>3. \A m \in D : \A f, g \in [D -> V] :
          (\A k \in D : k > m => f[k] = g[k]) => step[m][f] = step[m][g]
  BY VerdictLooksAbove
<1>4. step \in [D -> [[D -> V] -> V]]
  <2> HIDE DEF V, D
  <2> QED
    BY <1>2
<1>5. PICK value \in [D -> V] : \A m \in D : value[m] = step[m][value]
  <2> HIDE DEF V, D, step
  <2>1. LooksAbove(step, D, V)
    BY <1>1, <1>3, <1>4 DEF LooksAbove
  <2> QED
    BY <2>1, DownwardRecursion
<1>6. \A m \in D : value[m] = NodeVerdict(tree[m], value, leaf[m])
  BY <1>5
<1>7. Solves(value, tree, leaf)
  BY <1>6 DEF Solves
<1> QED
  BY <1>7

HoldsNode(node, f, read) ==
    \/ node.kind = "all" /\ \A i \in DOMAIN node.kids : f[node.kids[i]]
    \/ node.kind = "any" /\ \E i \in DOMAIN node.kids : f[node.kids[i]]
    \/ node.kind = "not" /\ ~f[node.kids[1]]
    \/ node.kind = "rule" /\ read

IsHolding(f, tree, leaf) == f = [m \in DOMAIN tree |-> HoldsNode(tree[m], f, leaf[m])]

LEMMA KidsIndexed ==
    ASSUME NEW tree, WellTreed(tree), NEW m \in DOMAIN tree
    PROVE  /\ DOMAIN tree[m].kids = 1 .. Len(tree[m].kids)
           /\ tree[m].kind = "not" => 1 \in DOMAIN tree[m].kids
<1>2. tree[m].kind = "not" => Len(tree[m].kids) = 1
  BY Zenon DEF WellTreed
<1> DEFINE above == {k \in DOMAIN tree : k > m}
<1>1. tree[m].kids \in Seq(above)
  BY DEF WellTreed
<1> HIDE DEF above
<1> QED
  BY <1>1, <1>2

LEMMA HoldsLooksAbove ==
    ASSUME NEW tree, WellTreed(tree), NEW m \in DOMAIN tree, NEW f, NEW g, NEW read,
           \A k \in DOMAIN tree : k > m => f[k] = g[k]
    PROVE  HoldsNode(tree[m], f, read) = HoldsNode(tree[m], g, read)
<1>1. \A i \in DOMAIN tree[m].kids : f[tree[m].kids[i]] = g[tree[m].kids[i]]
  BY TreeKids, KidsIndexed DEF KidsAbove
<1>3. tree[m].kind = "not" => f[tree[m].kids[1]] = g[tree[m].kids[1]]
  <2>1. tree[m].kind = "not" => 1 \in DOMAIN tree[m].kids
    BY KidsIndexed
  <2> QED
    BY <1>1, <2>1
<1> QED
  BY <1>1, <1>3 DEF HoldsNode

LEMMA HoldingExists ==
    ASSUME NEW tree, WellTreed(tree), NEW leaf
    PROVE  \E h : IsHolding(h, tree, leaf)
<1> DEFINE D == DOMAIN tree
           step == [m \in D |-> [f \in [D -> BOOLEAN] |-> HoldsNode(tree[m], f, leaf[m])]]
<1>1. D \in SUBSET Nat /\ IsFiniteSet(D) /\ BOOLEAN # {}
  BY DEF WellTreed
<1>3. \A m \in D : \A f, g \in [D -> BOOLEAN] :
          (\A k \in D : k > m => f[k] = g[k]) => step[m][f] = step[m][g]
  BY HoldsLooksAbove
<1>4. step \in [D -> [[D -> BOOLEAN] -> BOOLEAN]]
  BY DEF HoldsNode
<1>5. PICK h \in [D -> BOOLEAN] : \A m \in D : h[m] = step[m][h]
  <2> HIDE DEF D, step
  <2>1. LooksAbove(step, D, BOOLEAN)
    BY <1>1, <1>3, <1>4 DEF LooksAbove
  <2> QED
    BY <2>1, DownwardRecursion
<1>6. \A m \in D : h[m] = HoldsNode(tree[m], h, leaf[m])
  BY <1>5
<1>7. IsHolding(h, tree, leaf)
  BY <1>6 DEF IsHolding
<1> QED
  BY <1>7

LEMMA EvaluateSolves ==
    ASSUME NEW tree, WellTreed(tree), NEW leaf, NEW n
    PROVE  \E value : Solves(value, tree, leaf) /\ EvaluateNode(tree, n, leaf) = value[n]
<1> DEFINE value == CHOOSE v : v = [m \in DOMAIN tree |-> NodeVerdict(tree[m], v, leaf[m])]
<1>1. EvaluateNode(tree, n, leaf) = value[n]
  BY DEF EvaluateNode, NodeVerdict, Results
<1>2. Solves(value, tree, leaf)
  BY VerdictsExist DEF Solves
<1> HIDE DEF value
<1> QED
  BY <1>1, <1>2

LEMMA HoldsSolves ==
    ASSUME NEW tree, WellTreed(tree), NEW leaf
    PROVE  \E h : IsHolding(h, tree, leaf) /\ (Holds(tree, leaf) <=> h[1])
<1> DEFINE h == CHOOSE f : f = [m \in DOMAIN tree |-> HoldsNode(tree[m], f, leaf[m])]
<1>1. Holds(tree, leaf) <=> h[1]
  BY DEF Holds, HoldsNode
<1>2. IsHolding(h, tree, leaf)
  BY HoldingExists DEF IsHolding
<1> HIDE DEF h
<1> QED
  BY <1>1, <1>2

LEMMA RuleVerdict ==
    ASSUME NEW rule, NEW ctx
    PROVE  evaluateRule(rule, ctx) \in Verdicts
<1>1. \A b : Truth(b) \in Verdicts
  BY DEF Truth, Verdicts
<1>2. \A sig, operator, threshold, prev : matchOperator(sig, operator, threshold, prev) \in Verdicts
  <2>1. "error" \in Verdicts
    BY DEF Verdicts
  <2> QED
    BY <1>1, <2>1 DEF matchOperator
<1>3. "error" \in Verdicts
  BY DEF Verdicts
<1> QED
  BY <1>1, <1>2, <1>3 DEF evaluateRule

(* A leaf that has a reading keeps it.                                     *)
Agree(tree, known, leaf) ==
    \A n \in DOMAIN tree : tree[n].kind = "rule" =>
        /\ known[n] \in Verdicts
        /\ known[n] = "true" => leaf[n]
        /\ known[n] = "false" => ~leaf[n]

LEMMA VerdictSound ==
    ASSUME NEW tree, WellTreed(tree), NEW known, NEW leaf, Agree(tree, known, leaf),
           NEW value, Solves(value, tree, known), NEW h, IsHolding(h, tree, leaf)
    PROVE  \A m \in DOMAIN tree : (value[m] = "true" => h[m]) /\ (value[m] = "false" => ~h[m])
<1> DEFINE D == DOMAIN tree
           Sound(m) == /\ value[m] \in Verdicts
                       /\ (value[m] = "true" => h[m]) /\ (value[m] = "false" => ~h[m])
           F == {m \in D : Sound(m)}
<1>1. ASSUME NEW m \in D, \A k \in D : k > m => k \in F PROVE m \in F
  <2> DEFINE n == Len(tree[m].kids)
             results == Results(tree[m], value)
  <2>1. n \in Nat /\ DOMAIN results = 1 .. n /\ DOMAIN tree[m].kids = 1 .. n
    BY TreeKids, KidsIndexed DEF KidsAbove, Results
  <2>2. \A i \in 1 .. n : results[i] = value[tree[m].kids[i]]
    BY DEF Results
  <2>3. \A i \in 1 .. n : Sound(tree[m].kids[i])
    <3> HIDE DEF Sound
    <3> QED
      BY <1>1, TreeKids DEF KidsAbove
  <2>4. value[m] = NodeVerdict(tree[m], value, known[m]) /\ (h[m] <=> HoldsNode(tree[m], h, leaf[m]))
    BY DEF Solves, IsHolding
  <2>5. CASE tree[m].kind = "all"
    <3>1. value[m] = FirstUnlike("true", results)
      BY <2>4, <2>5 DEF NodeVerdict
    <3>2. h[m] <=> \A i \in 1 .. n : h[tree[m].kids[i]]
      BY <2>1, <2>4, <2>5 DEF HoldsNode
    <3>3. \/ (\A i \in 1 .. n : results[i] = "true") /\ value[m] = "true"
          \/ \E i \in 1 .. n : results[i] # "true" /\ value[m] = results[i]
      <4> HIDE DEF n, results
      <4>1. \/ (\A i \in 1 .. n : results[i] = "true") /\ FirstUnlike("true", results) = "true"
            \/ \E i \in 1 .. n : results[i] # "true" /\ FirstUnlike("true", results) = results[i]
        BY ONLY <2>1, FirstUnlikeFacts
      <4> QED
        BY <3>1, <4>1
    <3> HIDE DEF n, results
    <3> QED
      BY <2>2, <2>3, <3>2, <3>3 DEF Verdicts
  <2>6. CASE tree[m].kind = "any"
    <3>1. value[m] = FirstUnlike("false", results)
      BY <2>4, <2>6 DEF NodeVerdict
    <3>2. h[m] <=> \E i \in 1 .. n : h[tree[m].kids[i]]
      BY <2>1, <2>4, <2>6 DEF HoldsNode
    <3>3. \/ (\A i \in 1 .. n : results[i] = "false") /\ value[m] = "false"
          \/ \E i \in 1 .. n : results[i] # "false" /\ value[m] = results[i]
      <4> HIDE DEF n, results
      <4>1. \/ (\A i \in 1 .. n : results[i] = "false") /\ FirstUnlike("false", results) = "false"
            \/ \E i \in 1 .. n : results[i] # "false" /\ FirstUnlike("false", results) = results[i]
        BY ONLY <2>1, FirstUnlikeFacts
      <4> QED
        BY <3>1, <4>1
    <3> HIDE DEF n, results
    <3> QED
      BY <2>2, <2>3, <3>2, <3>3 DEF Verdicts
  <2>7. CASE tree[m].kind = "not"
    <3>1. value[m] = Negated(value[tree[m].kids[1]])
      BY <2>4, <2>7 DEF NodeVerdict
    <3>2. h[m] <=> ~h[tree[m].kids[1]]
      BY <2>4, <2>7 DEF HoldsNode
    <3>3. 1 \in 1 .. n
      BY <2>1, <2>7, KidsIndexed
    <3> HIDE DEF n, results
    <3> QED
      BY <2>3, <3>1, <3>2, <3>3 DEF Negated, Truth, Verdicts
  <2>8. CASE tree[m].kind = "rule"
    BY <2>4, <2>8 DEF NodeVerdict, HoldsNode, Agree
  <2>9. CASE tree[m].kind = "empty"
    BY <2>4, <2>9 DEF NodeVerdict, Verdicts
  <2> QED
    BY <2>5, <2>6, <2>7, <2>8, <2>9 DEF WellTreed
<1>2. F = D
  <2>1. F \in SUBSET D
    OBVIOUS
  <2>2. D \in SUBSET Nat /\ IsFiniteSet(D)
    BY DEF WellTreed
  <2> HIDE DEF F, D
  <2> QED
    BY <1>1, <2>1, <2>2, DownwardInduction
<1> QED
  BY <1>2

(* An entry tree that evaluates to true holds whatever the leaves without  *)
(* a reading would say.                                                    *)
LEMMA TrueHolds ==
    ASSUME NEW tree, WellTreed(tree), NEW ctx, Evaluate(tree, ctx) = "true",
           NEW leaf \in Completions(LeafValues(tree, ctx))
    PROVE  Holds(tree, leaf)
<1> DEFINE known == LeafValues(tree, ctx)
<1>1. Agree(tree, known, leaf)
  <2>1. DOMAIN known = {m \in DOMAIN tree : tree[m].kind = "rule"}
    BY DEF LeafValues
  <2>3. \A n \in DOMAIN known : known[n] \in Verdicts
    BY RuleVerdict DEF LeafValues
  <2> HIDE DEF known
  <2>2. PICK guess : leaf = [n \in DOMAIN known |->
                                IF n \in {k \in DOMAIN known : known[k] = "error"} THEN guess[n] ELSE known[n] = "true"]
    BY DEF Completions, known
  <2> QED
    BY <2>1, <2>2, <2>3 DEF Agree
<1>2. tree # Nil /\ EvaluateNode(tree, 1, known) = "true"
  BY DEF Evaluate
<1>3. 1 \in DOMAIN tree
  BY <1>2 DEF WellTreed
<1> HIDE DEF known
<1>4. PICK value : Solves(value, tree, known) /\ value[1] = "true"
  BY <1>2, EvaluateSolves
<1>5. PICK h : IsHolding(h, tree, leaf) /\ (Holds(tree, leaf) <=> h[1])
  BY HoldsSolves
<1> QED
  BY <1>1, <1>3, <1>4, <1>5, VerdictSound

-----------------------------------------------------------------------------
(* The series the strategy reads.                                          *)

LEMMA ExtractFound ==
    ASSUME NEW tree, DOMAIN tree \subseteq Nat, NEW field,
           NEW n \in DOMAIN tree, tree[n].kind = "rule", Given(tree[n].rule[field])
    PROVE  Given(extractShorthand(tree, field))
<1> DEFINE having == {m \in DOMAIN tree : tree[m].kind = "rule" /\ Given(tree[m].rule[field])}
<1>1. having # {} /\ having \in SUBSET Nat
  OBVIOUS
<1>2. PICK least \in having : \A m \in having : least <= m
  <2> HIDE DEF having
  <2> QED
    BY <1>1, LeastNatural
<1> DEFINE first == CHOOSE k \in having : \A m \in having : k <= m
<1>3. first \in having
  <2> HIDE DEF having
  <2> QED
    BY <1>2
<1>4. extractShorthand(tree, field) = tree[first].rule[field]
  BY <1>1 DEF extractShorthand
<1> HIDE DEF first
<1> QED
  BY <1>3, <1>4

LEMMA ValidParts ==
    ASSUME NEW s, Valid(s)
    PROVE  SizingValid(s) /\ SymbolsValid(s)
  BY Zenon DEF Valid

LEMMA SymbolsNumbered ==
    ASSUME NEW s, SymbolsValid(s)
    PROVE  Len(s.symbols) > 0
  BY Zenon DEF SymbolsValid

LEMMA KeyFields ==
    ASSUME NEW a, NEW b, NEW c, NEW d, NEW e
    PROVE  Key(a, b, c, d, e).symbol = a /\ Key(a, b, c, d, e).timeframe = b
  BY DEF Key

LEMMA LeafKeyFields ==
    ASSUME NEW r, NEW symbol, NEW default
    PROVE  /\ LeafKey(r, symbol, default).symbol = symbol
           /\ LeafKey(r, symbol, default).timeframe = TimeframeOf(r, default)
           /\ RefKey(r, symbol, default).symbol = symbol
           /\ RefKey(r, symbol, default).timeframe = TimeframeOf(r, default)
<1>1. \E p, q, x : LeafKey(r, symbol, default) = Key(symbol, TimeframeOf(r, default), p, q, x)
  BY DEF LeafKey
<1>2. \E p, q, x : RefKey(r, symbol, default) = Key(symbol, TimeframeOf(r, default), p, q, x)
  BY Zenon DEF RefKey
<1> QED
  BY <1>1, <1>2, KeyFields

LEMMA LeafKeys ==
    ASSUME NEW s, NEW symbol, NEW key \in LeavesOf(s, symbol)
    PROVE  key.symbol = symbol
  BY LeafKeyFields DEF LeavesOf, collectLeaves

(* A leaf's own series and the one it compares with are collected.         *)
LEMMA LeafCollected ==
    ASSUME NEW s, NEW symbol, NEW rule \in Rules(s.entry) \cup Rules(s.exit), ~IsShorthand(rule)
    PROVE  /\ LeafKey(rule, symbol, s.timeframe) \in LeavesOf(s, symbol)
           /\ Given(rule.compareTo) => RefKey(rule, symbol, s.timeframe) \in LeavesOf(s, symbol)
  BY DEF LeavesOf, collectLeaves

CacheParts == {"instances", "latest", "lastUpdate", "refCount"}

(* While candles are replayed every series of the strategy is subscribed   *)
(* and has a value from the first candle of its timeframe on.              *)
SeriesInv ==
    /\ phase = "requested" => \A tf \in Timeframes : replayed[tf] = <<>>
    /\ Replaying =>
          /\ DOMAIN cache = CacheParts
          /\ LeavesOf(strategy, symbolOf(strategy)) \subseteq DOMAIN cache.instances
          /\ RequiredTimeframes(strategy) \subseteq supplied
          /\ \A key \in LeavesOf(strategy, symbolOf(strategy)) :
                replayed[key.timeframe] # <<>> => CanGet(cache, key)
          /\ strategy.sizing.type = "risk_based" =>
                \/ Given(extractShorthand(strategy.exit, "stopLoss"))
                \/ Given(extractShorthand(strategy.exit, "trailingSL"))

LEMMA InitSeries == Init => SeriesInv
  BY DEF Init, SeriesInv, Replaying

(* A risk-based strategy that validates has the stop its sizing needs.     *)
LEMMA RiskHasStop ==
    ASSUME NEW s, SizingValid(s), DOMAIN s.exit \subseteq Nat, s.sizing.type = "risk_based"
    PROVE  Given(extractShorthand(s.exit, "stopLoss")) \/ Given(extractShorthand(s.exit, "trailingSL"))
<1>1. PICK r \in Rules(s.exit) : Given(r.stopLoss) \/ Given(r.trailingSL)
  BY DEF SizingValid, treeHasStopDistance
<1>2. PICK n \in DOMAIN s.exit : s.exit[n].kind = "rule" /\ r = s.exit[n].rule
  BY DEF Rules
<1>3. Given(s.exit[n].rule["stopLoss"]) \/ Given(s.exit[n].rule["trailingSL"])
  BY <1>1, <1>2
<1> QED
  BY <1>2, <1>3, ExtractFound

LEMMA ParsedTrees ==
    ASSUME NEW d \in Documents, NEW flatLast
    PROVE  WellTreed(Parse(d, flatLast).entry) /\ WellTreed(Parse(d, flatLast).exit)
<1>1. IsTree(d.entry) /\ IsTree(d.exit) /\ {"entry", "exit"} \subseteq DOMAIN d
  BY DocumentsAssumption
<1>2. /\ Parse(d, flatLast).entry = UnmarshalCondition(d.entry, flatLast)
      /\ Parse(d, flatLast).exit = UnmarshalCondition(d.exit, flatLast)
  BY <1>1 DEF Parse
<1> QED
  BY <1>1, <1>2, ParsedTree

LEMMA AcceptSeries ==
    ASSUME HistoryType, SeriesInv, document \in Documents, Accept
    PROVE  SeriesInv'
<1>1. PICK flatLast \in SUBSET {"period"} :
          /\ Runnable(Parse(document, flatLast))
          /\ strategy' = Parse(document, flatLast)
          /\ cache' = Subscribed(SeriesOf(strategy'))
  BY DEF Accept
<1>2. /\ phase = "requested" /\ phase' = "replaying" /\ replayed' = replayed /\ supplied' = supplied
  BY DEF Accept
<1>3. SizingValid(strategy') /\ SymbolsValid(strategy') /\ RequiredTimeframes(strategy') \subseteq supplied
  BY <1>1, ValidParts DEF Runnable
<1>4. LeavesOf(strategy', symbolOf(strategy')) \subseteq SeriesOf(strategy')
  <2>1. Len(strategy'.symbols) > 0
    BY <1>3, SymbolsNumbered
  <2>2. 1 \in 1 .. Len(strategy'.symbols)
    BY <2>1
  <2> QED
    BY <2>2 DEF SeriesOf, symbolOf
<1>5. DOMAIN cache' = CacheParts /\ DOMAIN cache'.instances = SeriesOf(strategy')
  BY <1>1 DEF Subscribed, NewCache, CacheParts
<1>6. \A key \in LeavesOf(strategy', symbolOf(strategy')) : replayed[key.timeframe] = <<>>
  <2>1. \A key \in LeavesOf(strategy', symbolOf(strategy')) : key.timeframe \in RequiredTimeframes(strategy')
    BY DEF RequiredTimeframes
  <2> QED
    BY <1>2, <1>3, <2>1 DEF SeriesInv, HistoryType
<1>7. strategy'.sizing.type = "risk_based" =>
          \/ Given(extractShorthand(strategy'.exit, "stopLoss"))
          \/ Given(extractShorthand(strategy'.exit, "trailingSL"))
  <2>1. DOMAIN strategy'.exit \subseteq Nat
    BY <1>1, ParsedTrees DEF WellTreed
  <2> QED
    BY <1>3, <2>1, RiskHasStop
<1> QED
  BY <1>2, <1>3, <1>4, <1>5, <1>6, <1>7 DEF SeriesInv

LEMMA CandleInCache ==
    ASSUME NEW before, DOMAIN before = CacheParts, NEW symbol, NEW tf, NEW c, NEW now
    PROVE  LET after == CacheOnCandleClose(before, symbol, tf, c, now)
           IN  /\ DOMAIN after = CacheParts /\ DOMAIN after.instances = DOMAIN before.instances
               /\ \A key : CanGet(after, key) <=>
                     \/ CanGet(before, key)
                     \/ (key \in DOMAIN before.instances /\ key.symbol = symbol /\ key.timeframe = tf)
  BY DEF CacheOnCandleClose, CacheParts, CanGet, Bound

LEMMA ReplaySeries ==
    ASSUME HistoryType, SeriesInv, NEW tf \in Timeframes, Replay(tf)
    PROVE  SeriesInv'
<1>1. phase = "replaying" /\ phase' = phase /\ supplied' = supplied /\ strategy' = strategy
  BY DEF Replay
<1>2. PICK c, now : cache' = CacheOnCandleClose(cache, symbolOf(strategy), tf, c, now)
  BY DEF Replay
<1>3. /\ DOMAIN cache' = CacheParts /\ DOMAIN cache'.instances = DOMAIN cache.instances
      /\ \A key : CanGet(cache', key) <=>
            \/ CanGet(cache, key)
            \/ (key \in DOMAIN cache.instances /\ key.symbol = symbolOf(strategy) /\ key.timeframe = tf)
  <2>1. DOMAIN cache = CacheParts
    BY <1>1 DEF SeriesInv, Replaying
  <2> QED
    BY <1>2, <2>1, CandleInCache
<1>4. \A x \in Timeframes \ {tf} : replayed'[x] = replayed[x]
  BY ReplayEffect
<1>5. \A key \in LeavesOf(strategy, symbolOf(strategy)) :
          /\ key \in DOMAIN cache.instances /\ key.symbol = symbolOf(strategy)
          /\ key.timeframe \in Timeframes
  BY <1>1, LeafKeys DEF SeriesInv, Replaying, RequiredTimeframes, HistoryType
<1>6. ASSUME NEW key \in LeavesOf(strategy, symbolOf(strategy)), replayed'[key.timeframe] # <<>>
      PROVE  CanGet(cache', key)
  BY <1>1, <1>3, <1>4, <1>5, <1>6 DEF SeriesInv, Replaying
<1> QED
  BY <1>1, <1>3, <1>6 DEF SeriesInv, Replaying

LEMMA SeriesStep ==
    ASSUME HistoryType, SeriesInv, document \in Documents, [Next]_vars
    PROVE  SeriesInv'
<1>1. CASE Accept
  BY <1>1, AcceptSeries
<1>2. ASSUME NEW tf \in Timeframes, Replay(tf) PROVE SeriesInv'
  BY <1>2, ReplaySeries
<1>3. CASE Finish
  BY <1>3 DEF Finish, SeriesInv, Replaying
<1>4. CASE Refuse
  BY <1>4 DEF Refuse, SeriesInv, Replaying
<1>5. CASE UNCHANGED vars
  BY <1>5 DEF vars, SeriesInv, Replaying
<1> QED
  BY <1>1, <1>2, <1>3, <1>4, <1>5 DEF Next

(* No leaf of a running strategy is still warming up once each of its      *)
(* timeframes has had a candle, and a risk-based one has a stop, for every *)
(* document that parses (collectLeaves subscribes what resolver.go reads). *)
THEOREM EveryLeafResolves == Spec => []LeavesResolve
<1>1. HistoryType /\ SeriesInv => LeavesResolve
  <2> SUFFICES ASSUME HistoryType, SeriesInv, Replaying,
                      \A tf \in RequiredTimeframes(strategy) : replayed[tf] # <<>>,
                      NEW rule \in Rules(strategy.entry) \cup Rules(strategy.exit), ~IsShorthand(rule)
               PROVE  /\ CanGet(cache, LeafKey(rule, symbolOf(strategy), strategy.timeframe))
                      /\ Given(rule.compareTo) =>
                            CanGet(cache, RefKey(rule, symbolOf(strategy), strategy.timeframe))
    BY DEF LeavesResolve, SeriesInv
  <2>1. \A key \in LeavesOf(strategy, symbolOf(strategy)) : CanGet(cache, key)
    BY DEF SeriesInv, RequiredTimeframes
  <2> QED
    BY <2>1, LeafCollected
<1>2. Init => document \in Documents
  BY DEF Init
<1>3. document \in Documents /\ [Next]_vars => (document \in Documents)'
  BY DEF Next, Refuse, Accept, Finish, Replay, vars
<1>4. HistoryType /\ SeriesInv /\ document \in Documents /\ [Next]_vars => SeriesInv'
  BY SeriesStep
<1> QED
  BY <1>1, <1>2, <1>3, <1>4, InitHistory, InitSeries, HistoryStep, PTL DEF Spec

-----------------------------------------------------------------------------
(* The trades, and the entry that opens one.                               *)

States == {"ACTIVE", "EXPIRED", "CLOSED", "STOPPED", "TARGET_HIT"}

TradeType == [state : States, entryPrice : Int, highWaterMark : Int, entryTime : Int, exitTime : Int,
              holdingDays : Int, pnl : Int]

EntryInv == Replaying => WellTreed(strategy.entry)

TradesInv == trades \in Seq(TradeType)

LEMMA ExceptInSeq ==
    ASSUME NEW S, NEW s \in Seq(S), NEW i \in DOMAIN s, NEW e \in S
    PROVE  [s EXCEPT ![i] = e] \in Seq(S) /\ Len([s EXCEPT ![i] = e]) = Len(s)
<1> DEFINE t == [s EXCEPT ![i] = e]
<1>1. Len(s) \in Nat /\ DOMAIN s = 1 .. Len(s) /\ \A j \in 1 .. Len(s) : s[j] \in S
  OBVIOUS
<1>2. DOMAIN t = 1 .. Len(s) /\ \A j \in 1 .. Len(s) : t[j] \in S
  BY <1>1
<1>3. t = [j \in 1 .. Len(s) |-> t[j]]
  BY <1>2
<1> HIDE DEF t
<1>4. t \in Seq(S) /\ Len(t) = Len(s)
  BY <1>1, <1>2, <1>3
<1> QED
  BY <1>4 DEF t

LEMMA ManagedTrade ==
    ASSUME NEW t \in TradeType, NEW high \in Int, NEW newDay \in Int
    PROVE  [t EXCEPT !.highWaterMark = max2(@, high), !.holdingDays = @ + newDay] \in TradeType
<1>1. max2(t.highWaterMark, high) \in Int /\ t.holdingDays + newDay \in Int
  BY DEF TradeType, max2
<1> QED
  BY <1>1 DEF TradeType

LEMMA ExpiredTrade ==
    ASSUME NEW t \in TradeType
    PROVE  [t EXCEPT !.state = "EXPIRED"] \in TradeType
  BY DEF TradeType, States

LEMMA ClosedTrade ==
    ASSUME NEW t \in TradeType, NEW c \in CandleType, NEW time \in Int, NEW reason
    PROVE  closeTrade(t, c, time, reason) \in TradeType
<1>1. stateForReason(reason) \in States
  BY DEF stateForReason, States
<1>2. c.close - t.entryPrice - TradeCost \in Int
  BY BacktestAssumption DEF TradeType, CandleType
<1> QED
  BY <1>1, <1>2 DEF closeTrade, TradeType

LEMMA OpenedTrade ==
    ASSUME NEW c \in CandleType, NEW time \in Int
    PROVE  Opened(c, time) \in TradeType
  BY BacktestAssumption DEF Opened, TradeType, CandleType, States

LEMMA ManageTyped ==
    ASSUME TradesInv, NEW newCache, NEW c \in CandleType, NEW time \in Int, NEW newDay \in Int,
           manageOpenTrade(newCache, c, time, newDay)
    PROVE  TradesInv' /\ Len(trades') = Len(trades)
<1>1. c.high \in Int
  BY DEF CandleType
<1>2. \A i \in DOMAIN trades : trades[i] \in TradeType
  BY DEF TradesInv
<1>3. PICK i \in DOMAIN trades : \E e \in TradeType : trades' = [trades EXCEPT ![i] = e]
  <2>1. PICK i \in Held :
            LET trade == [trades[i] EXCEPT !.highWaterMark = max2(@, c.high), !.holdingDays = @ + newDay]
            IN  \/ trades' = [trades EXCEPT ![i] = trade]
                \/ trades' = [trades EXCEPT ![i] = [trade EXCEPT !.state = "EXPIRED"]]
                \/ \E reason : trades' = [trades EXCEPT ![i] = closeTrade(trade, c, time, reason)]
    BY ZenonT(30) DEF manageOpenTrade
  <2> DEFINE trade == [trades[i] EXCEPT !.highWaterMark = max2(@, c.high), !.holdingDays = @ + newDay]
  <2>2. i \in DOMAIN trades /\ trade \in TradeType
    BY <1>1, <1>2, ManagedTrade DEF Held
  <2> HIDE DEF trade
  <2>3. \/ trades' = [trades EXCEPT ![i] = trade]
        \/ trades' = [trades EXCEPT ![i] = [trade EXCEPT !.state = "EXPIRED"]]
        \/ \E reason : trades' = [trades EXCEPT ![i] = closeTrade(trade, c, time, reason)]
    BY <2>1 DEF trade
  <2> QED
    BY <2>2, <2>3, ExpiredTrade, ClosedTrade
<1>4. PICK e \in TradeType : trades' = [trades EXCEPT ![i] = e]
  BY <1>3
<1>5. [trades EXCEPT ![i] = e] \in Seq(TradeType) /\ Len([trades EXCEPT ![i] = e]) = Len(trades)
  BY ExceptInSeq DEF TradesInv
<1> QED
  BY <1>4, <1>5 DEF TradesInv

LEMMA EnterTyped ==
    ASSUME TradesInv, NEW newCache, NEW c \in CandleType, NEW time \in Int, tryEntry(newCache, c, time)
    PROVE  /\ TradesInv'
           /\ \/ trades' = trades
              \/ Evaluate(strategy.entry, Context(newCache, c, NoTrade)) = "true"
<1>1. CASE trades' = Append(trades, Opened(c, time))
  <2>1. Opened(c, time) \in TradeType
    BY OpenedTrade
  <2> QED
    BY <1>1, <2>1 DEF tryEntry, TradesInv
<1>2. CASE trades' = trades
  BY <1>2 DEF TradesInv
<1> QED
  BY <1>1, <1>2 DEF tryEntry

(* A trade is added by the entry rule on the candle just replayed only.    *)
LEMMA ReplayTrades ==
    ASSUME HistoryType, TradesInv, NEW tf \in Timeframes, Replay(tf)
    PROVE  /\ TradesInv'
           /\ Len(trades') > Len(trades) =>
                 Evaluate(strategy.entry, Context(cache', LastCandle', NoTrade)) = "true"
<1>n. Len(trades) \in Nat
  BY DEF TradesInv
<1>t. Label(tf, Seen(tf) + 1) \in Int
  BY SeenNat, LabelFacts
<1>1. PICK shape \in Shapes :
          /\ replayed' = [replayed EXCEPT ![tf] = Append(@, NextCandle(tf, shape))]
          /\ IF tf = strategy.timeframe
             THEN \E newDay \in {0, 1} :
                     \/ tryEntry(cache', NextCandle(tf, shape), Label(tf, Seen(tf) + 1))
                     \/ manageOpenTrade(cache', NextCandle(tf, shape), Label(tf, Seen(tf) + 1), newDay)
             ELSE trades' = trades
  BY DEF Replay, NextCandle, Seen
<1>c. NextCandle(tf, shape) \in CandleType
  BY NextCandleType
<1> HIDE DEF NextCandle
<1>2. CASE tf = strategy.timeframe
  <2>1. PICK newDay \in {0, 1} :
            \/ tryEntry(cache', NextCandle(tf, shape), Label(tf, Seen(tf) + 1))
            \/ manageOpenTrade(cache', NextCandle(tf, shape), Label(tf, Seen(tf) + 1), newDay)
    BY <1>1, <1>2
  <2>2. LastCandle' = NextCandle(tf, shape)
    <3>1. strategy' = strategy
      BY DEF Replay
    <3>2. replayed'[tf] = Append(replayed[tf], NextCandle(tf, shape)) /\ replayed[tf] \in Seq(CandleType)
      BY <1>1 DEF HistoryType
    <3>3. replayed'[tf][Len(replayed'[tf])] = NextCandle(tf, shape)
      BY <1>c, <3>2
    <3> QED
      BY <1>2, <3>1, <3>3 DEF LastCandle
  <2>3. CASE tryEntry(cache', NextCandle(tf, shape), Label(tf, Seen(tf) + 1))
    BY <1>c, <1>n, <1>t, <2>2, <2>3, EnterTyped
  <2>4. CASE manageOpenTrade(cache', NextCandle(tf, shape), Label(tf, Seen(tf) + 1), newDay)
    <3>1. newDay \in Int
      OBVIOUS
    <3> QED
      BY <1>c, <1>n, <1>t, <2>4, <3>1, ManageTyped
  <2> QED
    BY <2>1, <2>3, <2>4
<1>3. CASE tf # strategy.timeframe
  BY <1>1, <1>3, <1>n DEF TradesInv
<1> QED
  BY <1>2, <1>3

LEMMA EntryStep ==
    ASSUME EntryInv, document \in Documents, [Next]_vars
    PROVE  EntryInv'
<1>1. CASE Accept
  BY <1>1, ParsedTrees DEF Accept, EntryInv
<1>2. ASSUME NEW tf \in Timeframes, Replay(tf) PROVE EntryInv'
  BY <1>2 DEF Replay, EntryInv, Replaying
<1>3. CASE Refuse \/ Finish \/ UNCHANGED vars
  BY <1>3 DEF Refuse, Finish, vars, EntryInv, Replaying
<1> QED
  BY <1>1, <1>2, <1>3 DEF Next

LEMMA TradesStep ==
    ASSUME HistoryType, TradesInv, EntryInv, [Next]_vars
    PROVE  /\ TradesInv'
           /\ Len(trades') > Len(trades) =>
                 /\ WellTreed(strategy.entry)
                 /\ Evaluate(strategy.entry, Context(cache', LastCandle', NoTrade)) = "true"
<1>n. Len(trades) \in Nat
  BY DEF TradesInv
<1>1. ASSUME NEW tf \in Timeframes, Replay(tf) PROVE EntryInv' /\ WellTreed(strategy.entry)
  BY <1>1 DEF Replay, EntryInv, Replaying
<1>2. CASE Accept \/ Refuse \/ Finish \/ UNCHANGED vars
  <2>1. trades' = trades
    BY <1>2 DEF Accept, Refuse, Finish, vars
  <2> QED
    BY <1>n, <2>1 DEF TradesInv
<1> QED
  BY <1>1, <1>2, ReplayTrades DEF Next

(* No trade is opened on a reading that is missing, for every document,    *)
(* every tree and every history: an error of a leaf never makes an entry   *)
(* true that some value of that leaf would make false (condition.go        *)
(* EvaluateNode).                                                          *)
THEOREM NoEntryOnAnError == Spec => NoTradeOnMissingData
<1> DEFINE Covered == Len(trades') > Len(trades) =>
              LET consulted == LeafValues(strategy.entry, Context(cache', LastCandle', NoTrade))
              IN  \A leaf \in Completions(consulted) : Holds(strategy.entry, leaf)
           Inv == HistoryType /\ TradesInv /\ EntryInv /\ document \in Documents
<1>1. Init => Inv
  <2>1. Init => TradesInv /\ EntryInv /\ document \in Documents
    BY DEF Init, TradesInv, EntryInv, Replaying
  <2> QED
    BY <2>1, InitHistory
<1>2. Inv /\ [Next]_vars => Inv'
  <2>1. document \in Documents /\ [Next]_vars => (document \in Documents)'
    BY DEF Next, Refuse, Accept, Finish, Replay, vars
  <2> QED
    BY <2>1, HistoryStep, EntryStep, TradesStep
<1>3. Inv /\ [Next]_vars => Covered
  BY TradesStep, TrueHolds
<1>4. Inv /\ [Next]_vars => [Covered]_vars
  BY <1>3
<1> HIDE DEF Inv, Covered
<1>5. Spec => [][Covered]_vars
  BY <1>1, <1>2, <1>4, PTL DEF Spec
<1> QED
  BY <1>5 DEF NoTradeOnMissingData, Covered

-----------------------------------------------------------------------------
(* The report.                                                             *)

(* One trade of the loop of Compute.                                       *)
Keep(q, t) == IF Completed(t) THEN Append(q, t) ELSE q

LEMMA KeptFacts ==
    ASSUME NEW ts \in Seq(TradeType)
    PROVE  /\ CompletedOf(ts) \in Seq(TradeType)
           /\ Len(CompletedOf(ts)) + Cardinality({i \in DOMAIN ts : ts[i].state \in {"ACTIVE", "EXPIRED"}}) = Len(ts)
<1> DEFINE n == Len(ts)
           V == Seq(TradeType)
           Eq(f) == f = [i \in 0 .. n |-> IF i = 0 THEN <<>> ELSE Keep(f[i - 1], ts[i])]
           kept == CHOOSE f : Eq(f)
           step == [i \in 1 .. n |-> [q \in V |-> Keep(q, ts[i])]]
           HeldIn(i) == {j \in 1 .. i : ts[j].state \in {"ACTIVE", "EXPIRED"}}
<1>0. n \in Nat /\ DOMAIN ts = 1 .. n /\ \A i \in 1 .. n : ts[i] \in TradeType
  OBVIOUS
<1>1. LooksBack(step, n, V, <<>>)
  <2>1. \A i \in 1 .. n : \A q \in V : Keep(q, ts[i]) \in V
    BY <1>0 DEF Keep
  <2>2. <<>> \in V
    OBVIOUS
  <2> HIDE DEF n, V
  <2> QED
    BY <1>0, <2>1, <2>2 DEF LooksBack
<1>2. PICK f \in [0 .. n -> V] : f[0] = <<>> /\ \A i \in 1 .. n : f[i] = step[i][f[i - 1]]
  <2> HIDE DEF n, V, step
  <2> QED
    BY <1>1, IndexRecursion
<1>3. Eq(f)
  <2> HIDE DEF n, V
  <2>1. \A i \in 1 .. n : f[i - 1] \in V
    BY <1>0
  <2>2. \A i \in 1 .. n : f[i] = Keep(f[i - 1], ts[i])
    BY <1>2, <2>1
  <2> QED
    BY <1>0, <1>2, <2>2
<1>4. Eq(kept)
  <2> HIDE DEF Eq
  <2> QED
    BY <1>3
<1>5. kept[0] = <<>> /\ \A i \in 1 .. n : kept[i] = Keep(kept[i - 1], ts[i])
  <2> HIDE DEF kept, n
  <2> QED
    BY <1>0, <1>4
<1> DEFINE Good(i) == kept[i] \in V /\ IsFiniteSet(HeldIn(i)) /\ Len(kept[i]) + Cardinality(HeldIn(i)) = i
           F == {i \in 0 .. n : Good(i)}
<1>6. 0 \in F
  <2>1. HeldIn(0) = {}
    OBVIOUS
  <2>2. <<>> \in V /\ Len(<<>>) = 0
    OBVIOUS
  <2>3. IsFiniteSet({}) /\ Cardinality({}) = 0
    BY FS_EmptySet
  <2> HIDE DEF kept, HeldIn, n, V
  <2>4. kept[0] = <<>> /\ 0 \in 0 .. n
    BY <1>0, <1>5
  <2>5. kept[0] \in V
    BY <2>2, <2>4
  <2>6. Len(kept[0]) = 0 /\ Cardinality(HeldIn(0)) = 0 /\ IsFiniteSet(HeldIn(0))
    BY <2>1, <2>2, <2>3, <2>4
  <2> QED
    BY <2>4, <2>5, <2>6
<1>7. ASSUME NEW i \in 1 .. n, i - 1 \in F PROVE i \in F
  <2>0. Good(i - 1) /\ i \in Nat
    BY <1>0, <1>7
  <2>t. ts[i] \in TradeType
    BY <1>0
  <2>k. kept[i] = Keep(kept[i - 1], ts[i])
    BY <1>5
  <2>f. Cardinality(HeldIn(i - 1)) \in Nat
    BY <2>0, FS_CardinalityType
  <2>1. CASE Completed(ts[i])
    <3>1. HeldIn(i) = HeldIn(i - 1)
      BY <2>1 DEF Completed
    <3> HIDE DEF kept, HeldIn, n
    <3>2. kept[i] \in V /\ Len(kept[i]) = Len(kept[i - 1]) + 1 /\ Len(kept[i - 1]) \in Nat
      BY <2>0, <2>1, <2>t, <2>k DEF Keep
    <3> HIDE DEF V
    <3> QED
      BY <2>0, <2>f, <3>1, <3>2, SMTT(40)
  <2>2. CASE ~Completed(ts[i])
    <3>1. ts[i].state \in {"ACTIVE", "EXPIRED"}
      BY <2>2, <2>t DEF Completed, TradeType, States
    <3>2. HeldIn(i) = HeldIn(i - 1) \cup {i} /\ i \notin HeldIn(i - 1)
      BY <2>0, <3>1
    <3> HIDE DEF kept, HeldIn, n
    <3>3. IsFiniteSet(HeldIn(i)) /\ Cardinality(HeldIn(i)) = Cardinality(HeldIn(i - 1)) + 1
      BY <2>0, <3>2, FS_AddElement
    <3>4. kept[i] = kept[i - 1] /\ Len(kept[i - 1]) \in Nat
      BY <2>0, <2>2, <2>k DEF Keep
    <3> HIDE DEF V
    <3> QED
      BY <2>0, <2>f, <3>3, <3>4
  <2> QED
    BY <2>1, <2>2
<1>8. n \in F
  <2>1. F \in SUBSET (0 .. n)
    OBVIOUS
  <2> HIDE DEF F, n
  <2>2. F = 0 .. n
    BY <1>0, <1>6, <1>7, <2>1, IndexInduction
  <2> QED
    BY <1>0, <2>2
<1>9. CompletedOf(ts) = kept[n]
  BY DEF CompletedOf, Keep
<1>10. {i \in DOMAIN ts : ts[i].state \in {"ACTIVE", "EXPIRED"}} = HeldIn(n)
  BY <1>0
<1>11. kept[n] \in Seq(TradeType) /\ Len(kept[n]) + Cardinality(HeldIn(n)) = n
  <2> HIDE DEF kept, HeldIn, n
  <2> QED
    BY <1>8
<1> HIDE DEF kept
<1> QED
  BY <1>9, <1>10, <1>11, ZenonT(30)

Accumulates(f, n, x) == \A i \in 1 .. n : f[i] = f[i - 1] + x[i]

LEMMA RunningSum ==
    ASSUME NEW n, NEW first, NEW x, n \in Nat, first \in Int, \A i \in 1 .. n : x[i] \in Int
    PROVE  \E f \in [0 .. n -> Int] : f[0] = first /\ Accumulates(f, n, x)
<1> DEFINE V == Int
           step == [i \in 1 .. n |-> [v \in V |-> v + x[i]]]
<1>1. LooksBack(step, n, V, first)
  BY DEF LooksBack
<1>2. PICK f \in [0 .. n -> V] : f[0] = first /\ \A i \in 1 .. n : f[i] = step[i][f[i - 1]]
  <2> HIDE DEF step, V
  <2>1. \E f \in [0 .. n -> V] : f[0] = first /\ \A i \in 1 .. n : f[i] = step[i][f[i - 1]]
    BY ONLY <1>1, IndexRecursion
  <2> QED
    BY <2>1
<1>3. \A i \in 1 .. n : f[i - 1] \in Int
  OBVIOUS
<1> QED
  BY <1>2, <1>3 DEF Accumulates

LEMMA RunningSame ==
    ASSUME NEW n \in Nat, NEW x, NEW f, NEW g, f[0] = g[0], Accumulates(f, n, x), Accumulates(g, n, x)
    PROVE  \A i \in 0 .. n : f[i] = g[i]
<1> USE DEF Accumulates
<1> DEFINE F == {i \in 0 .. n : f[i] = g[i]}
<1>1. 0 \in F
  OBVIOUS
<1>2. ASSUME NEW i \in 1 .. n, i - 1 \in F PROVE i \in F
  <2>1. i \in 0 .. n
    OBVIOUS
  <2> QED
    BY <1>2, <2>1
<1>3. F = 0 .. n
  <2>1. F \in SUBSET (0 .. n)
    OBVIOUS
  <2> HIDE DEF F
  <2> QED
    BY <1>1, <1>2, <2>1, IndexInduction
<1> QED
  BY <1>3

(* The points of the equity, from the capital on.                          *)
IsEquity(e, pnls) ==
    e \in [0 .. Len(pnls) -> Int] /\ e[0] = Capital /\ Accumulates(e, Len(pnls), pnls)

LEMMA EquityExists ==
    ASSUME NEW pnls \in Seq(Int)
    PROVE  \E e : IsEquity(e, pnls)
<1>1. Len(pnls) \in Nat /\ Capital \in Int /\ \A i \in 1 .. Len(pnls) : pnls[i] \in Int
  BY BacktestAssumption
<1>2. PICK e \in [0 .. Len(pnls) -> Int] : e[0] = Capital /\ Accumulates(e, Len(pnls), pnls)
  BY <1>1, RunningSum
<1> QED
  BY <1>2 DEF IsEquity

(* A sum is what the running sum rose by.                                  *)
LEMMA SumIsRise ==
    ASSUME NEW pnls \in Seq(Int), NEW e \in [0 .. Len(pnls) -> Int], Accumulates(e, Len(pnls), pnls)
    PROVE  SumOver(pnls) = e[Len(pnls)] - e[0]
<1> DEFINE n == Len(pnls)
           Eq(f) == f = [i \in 0 .. n |-> IF i = 0 THEN 0 ELSE f[i - 1] + pnls[i]]
           total == CHOOSE f : Eq(f)
           g == [i \in 0 .. n |-> e[i] - e[0]]
<1>0. n \in Nat /\ e[0] \in Int /\ \A i \in 1 .. n : pnls[i] \in Int
  OBVIOUS
<1>1. g[0] = 0 /\ Accumulates(g, n, pnls)
  <2> HIDE DEF n
  <2>e. e \in [0 .. n -> Int] /\ Accumulates(e, n, pnls)
    BY DEF n
  <2>1. \A i \in 1 .. n : e[i] = e[i - 1] + pnls[i] /\ e[i - 1] \in Int
    BY <1>0, <2>e, SMTT(40) DEF Accumulates
  <2>2. 0 \in 0 .. n /\ \A i \in 1 .. n : i \in 0 .. n /\ i - 1 \in 0 .. n
    BY <1>0
  <2> QED
    BY <1>0, <2>1, <2>2 DEF Accumulates
<1>2. Eq(g)
  <2> HIDE DEF n
  <2>1. g = [i \in 0 .. n |-> g[i]]
    OBVIOUS
  <2> HIDE DEF g
  <2>2. \A i \in 0 .. n : g[i] = IF i = 0 THEN 0 ELSE g[i - 1] + pnls[i]
    BY <1>0, <1>1 DEF Accumulates
  <2> QED
    BY <2>1, <2>2
<1>3. Eq(total)
  <2> HIDE DEF Eq, g
  <2> QED
    BY <1>2
<1>4. total[0] = 0 /\ Accumulates(total, n, pnls)
  <2> HIDE DEF total, n
  <2> QED
    BY <1>0, <1>3 DEF Accumulates
<1>5. total[n] = g[n]
  <2> HIDE DEF total, g, n
  <2>0. total[0] = g[0]
    BY <1>1, <1>4
  <2>1. \A i \in 0 .. n : total[i] = g[i]
    BY <1>0, <1>1, <1>4, <2>0, RunningSame
  <2> QED
    BY <1>0, <2>1, SMTT(40)
<1>6. SumOver(pnls) = total[n]
  BY DEF SumOver
<1>7. g[n] = e[n] - e[0]
  <2> HIDE DEF n
  <2> QED
    BY <1>0
<1> HIDE DEF total, g
<1> QED
  BY <1>5, <1>6, <1>7

LEMMA SumOfGains ==
    ASSUME NEW pnls \in Seq(Int), NEW e, IsEquity(e, pnls)
    PROVE  SumOver(pnls) = e[Len(pnls)] - Capital
  BY SumIsRise DEF IsEquity

LEMMA CurveFacts ==
    ASSUME NEW ts \in Seq(TradeType), NEW e, IsEquity(e, PnLs(CompletedOf(ts)))
    PROVE  LET curve == EquityCurve(ts, Capital)
               n == Len(CompletedOf(ts))
           IN  /\ n \in Nat /\ Len(PnLs(CompletedOf(ts))) = n
               /\ Len(curve) = n + 1 /\ DOMAIN curve = 1 .. n + 1
               /\ \A i \in 1 .. n + 1 : curve[i].equity = e[i - 1]
<1> DEFINE done == CompletedOf(ts)
           n == Len(done)
           Eq(f) == f = [i \in 0 .. n |-> IF i = 0 THEN Capital ELSE f[i - 1] + done[i].pnl]
           equity == CHOOSE f : Eq(f)
           time(t) == IF t.exitTime = NoExit THEN t.entryTime ELSE t.exitTime
           rest == [i \in 1 .. n |-> [time |-> time(done[i]), equity |-> equity[i], pnl |-> done[i].pnl]]
           first == [time |-> NoExit, equity |-> Capital, pnl |-> 0]
<1>0. done \in Seq(TradeType) /\ n \in Nat
  <2>1. CompletedOf(ts) \in Seq(TradeType)
    BY KeptFacts
  <2> HIDE DEF done
  <2>2. done \in Seq(TradeType)
    BY <2>1 DEF done
  <2> QED
    BY <2>2
<1>p. Len(PnLs(done)) = n /\ \A i \in 1 .. n : PnLs(done)[i] = done[i].pnl
  BY <1>0 DEF PnLs
<1>1. e \in [0 .. n -> Int] /\ e[0] = Capital /\ \A i \in 1 .. n : e[i] = e[i - 1] + done[i].pnl
  BY <1>p DEF IsEquity, Accumulates
<1>2. Eq(e)
  <2> HIDE DEF n, done
  <2>1. \A i \in 0 .. n : e[i] = IF i = 0 THEN Capital ELSE e[i - 1] + done[i].pnl
    BY <1>0, <1>1
  <2> QED
    BY <1>1, <2>1
<1>3. Eq(equity)
  <2> HIDE DEF Eq
  <2> QED
    BY <1>2
<1>4. equity[0] = Capital /\ \A i \in 1 .. n : equity[i] = equity[i - 1] + done[i].pnl
  <2> HIDE DEF equity, n, done
  <2> QED
    BY <1>0, <1>3
<1>5. \A i \in 0 .. n : equity[i] = e[i]
  <2> DEFINE x == [i \in 1 .. n |-> done[i].pnl]
  <2>1. \A i \in 1 .. n : x[i] = done[i].pnl
    OBVIOUS
  <2> HIDE DEF x, equity, n, done
  <2>2. equity[0] = e[0] /\ Accumulates(equity, n, x) /\ Accumulates(e, n, x)
    BY <1>1, <1>4, <2>1 DEF Accumulates
  <2> QED
    BY <1>0, <2>2, RunningSame
<1>6. EquityCurve(ts, Capital) = <<first>> \o rest
  BY DEF EquityCurve
<1>7. /\ Len(<<first>> \o rest) = n + 1 /\ DOMAIN (<<first>> \o rest) = 1 .. n + 1
      /\ (<<first>> \o rest)[1] = first
      /\ \A i \in 2 .. n + 1 : (<<first>> \o rest)[i] = rest[i - 1]
  <2> DEFINE P == {rest[i] : i \in 1 .. n} \cup {first}
  <2>1. rest \in Seq(P) /\ Len(rest) = n /\ <<first>> \in Seq(P) /\ Len(<<first>>) = 1 /\ <<first>>[1] = first
    <3>1. \A i \in 1 .. n : rest[i] \in P
      OBVIOUS
    <3>2. rest = [i \in 1 .. n |-> rest[i]]
      OBVIOUS
    <3> HIDE DEF rest, first, n
    <3> QED
      BY <1>0, <3>1, <3>2, SMTT(40)
  <2> HIDE DEF rest, first, n, P
  <2> QED
    BY <1>0, <2>1
<1>8. first.equity = Capital /\ \A i \in 1 .. n : rest[i].equity = equity[i]
  OBVIOUS
<1> HIDE DEF rest, first, equity
<1>9. ASSUME NEW i \in 1 .. n + 1 PROVE (<<first>> \o rest)[i].equity = e[i - 1]
  <2> HIDE DEF n, done
  <2>1. CASE i = 1
    BY <1>1, <1>7, <1>8, <2>1
  <2>2. CASE i # 1
    <3>1. i \in 2 .. n + 1 /\ i - 1 \in 1 .. n /\ i - 1 \in 0 .. n
      BY <1>0, <2>2
    <3> QED
      BY <1>5, <1>7, <1>8, <3>1
  <2> QED
    BY <2>1, <2>2
<1> QED
  BY <1>0, <1>p, <1>6, <1>7, <1>9

(* The fall from q to v in percent of q.                                   *)
FallFrom(q, v) == ((q - v) * 100) \div q

LEMMA FallFacts ==
    ASSUME NEW q \in Nat \ {0}, NEW v \in Int
    PROVE  FallFrom(q, v) \in Int /\ FallFrom(q, q) = 0
  BY DEF FallFrom

RunType == [equity : Int, peak : Nat \ {0}, maxDD : Int]

(* What one step of the pass makes of r.                                   *)
Follows(next, r, pnl) ==
    /\ next \in RunType /\ next.equity = r.equity + pnl
    /\ \/ next.peak = r.peak /\ next.equity <= r.peak
       \/ next.peak = next.equity /\ next.equity > r.peak
    /\ \/ next.maxDD = r.maxDD /\ FallFrom(next.peak, next.equity) <= r.maxDD
       \/ next.maxDD = FallFrom(next.peak, next.equity) /\ FallFrom(next.peak, next.equity) > r.maxDD

LEMMA StepFacts ==
    ASSUME NEW r \in RunType, NEW pnl \in Int
    PROVE  Follows(Step(r, pnl), r, pnl)
<1> DEFINE equity == r.equity + pnl
           peak == IF equity > r.peak THEN equity ELSE r.peak
           fall == FallFrom(peak, equity)
<1>1. r.equity \in Int /\ r.peak \in Nat \ {0} /\ r.maxDD \in Int
  BY DEF RunType
<1>2. equity \in Int /\ peak \in Nat \ {0}
  BY <1>1
<1>3. fall \in Int
  <2> HIDE DEF equity, peak
  <2> QED
    BY <1>2, FallFacts
<1>4. Step(r, pnl) = [equity |-> equity, peak |-> peak, maxDD |-> IF fall > r.maxDD THEN fall ELSE r.maxDD]
  BY <1>2 DEF Step, FallFrom
<1> HIDE DEF fall
<1>5. /\ Step(r, pnl).equity = equity /\ Step(r, pnl).peak = peak
      /\ Step(r, pnl).maxDD = IF fall > r.maxDD THEN fall ELSE r.maxDD
  <2> HIDE DEF equity, peak
  <2> QED
    BY <1>4
<1>6. Step(r, pnl) \in RunType
  <2> HIDE DEF equity, peak
  <2> QED
    BY <1>1, <1>2, <1>3, <1>4 DEF RunType
<1>7. FallFrom(Step(r, pnl).peak, Step(r, pnl).equity) = fall
  <2> HIDE DEF equity, peak
  <2> QED
    BY <1>5 DEF fall
<1>8. \/ Step(r, pnl).maxDD = r.maxDD /\ fall <= r.maxDD
      \/ Step(r, pnl).maxDD = fall /\ fall > r.maxDD
  BY <1>1, <1>3, <1>5
<1> QED
  BY <1>1, <1>5, <1>6, <1>7, <1>8 DEF Follows

(* The highest point up to b.                                              *)
IsTop(q, e, b) == (\E k \in 0 .. b : q = e[k]) /\ \A k \in 0 .. b : e[k] <= q

(* d is the worst fall, in percent, from a highest point up to n.          *)
IsWorstFall(d, e, top, n) ==
    /\ \E b \in 0 .. n : d = FallFrom(top[b], e[b])
    /\ \A b \in 0 .. n : FallFrom(top[b], e[b]) <= d

LEMMA OnePassFacts ==
    ASSUME NEW pnls \in Seq(Int), NEW e, IsEquity(e, pnls)
    PROVE  LET n == Len(pnls)
               pass == OnePass(pnls, Capital)
           IN  /\ pass.equity = e[n]
               /\ \E top : /\ \A b \in 0 .. n : IsTop(top[b], e, b) /\ top[b] \in Nat \ {0}
                           /\ IsWorstFall(pass.maxDD, e, top, n)
<1> DEFINE n == Len(pnls)
           V == RunType
           first == [equity |-> Capital, peak |-> Capital, maxDD |-> 0]
           Eq(f) == f = [i \in 0 .. n |-> IF i = 0 THEN first ELSE Step(f[i - 1], pnls[i])]
           run == CHOOSE f : Eq(f)
           step == [i \in 1 .. n |-> [r \in V |-> Step(r, pnls[i])]]
<1>0. n \in Nat /\ Capital \in Nat \ {0} /\ \A i \in 1 .. n : pnls[i] \in Int
  BY BacktestAssumption
<1>1. LooksBack(step, n, V, first)
  <2>1. \A i \in 1 .. n : \A r \in V : Step(r, pnls[i]) \in V
    BY <1>0, StepFacts DEF Follows
  <2>2. first \in V
    BY <1>0 DEF RunType
  <2> HIDE DEF n, V, first
  <2> QED
    BY <1>0, <2>1, <2>2 DEF LooksBack
<1>2. PICK f \in [0 .. n -> V] : f[0] = first /\ \A i \in 1 .. n : f[i] = step[i][f[i - 1]]
  <2> HIDE DEF n, V, first, step
  <2> QED
    BY <1>1, IndexRecursion
<1>3. Eq(f)
  <2> HIDE DEF n, V, first
  <2>1. \A i \in 1 .. n : f[i - 1] \in V
    BY <1>0
  <2>2. \A i \in 1 .. n : f[i] = Step(f[i - 1], pnls[i])
    BY <1>2, <2>1
  <2> QED
    BY <1>0, <1>2, <2>2
<1>4. Eq(run)
  <2> HIDE DEF Eq
  <2> QED
    BY <1>3
<1>5. run[0] = first /\ \A i \in 1 .. n : run[i] = Step(run[i - 1], pnls[i])
  <2> HIDE DEF run, n, first
  <2> QED
    BY <1>0, <1>4
<1>e. e \in [0 .. n -> Int] /\ e[0] = Capital /\ \A i \in 1 .. n : e[i] = e[i - 1] + pnls[i]
  BY DEF IsEquity, Accumulates
<1> DEFINE top == [b \in 0 .. n |-> run[b].peak]
           Good(i) == /\ run[i] \in RunType /\ run[i].equity = e[i]
                      /\ IsTop(top[i], e, i) /\ IsWorstFall(run[i].maxDD, e, top, i)
                      /\ \A b \in 0 .. i : top[b] \in Nat \ {0}
           F == {i \in 0 .. n : Good(i)}
<1>6. 0 \in F
  <2>1. first \in RunType /\ first.equity = Capital /\ first.peak = Capital /\ first.maxDD = 0
    BY <1>0 DEF RunType
  <2>2. 0 \in 0 .. n /\ 0 .. 0 = {0}
    BY <1>0
  <2>3. top[0] = Capital
    <3> HIDE DEF run, first, n
    <3> QED
      BY <1>5, <2>1, <2>2
  <2> HIDE DEF run, first, n, top
  <2>4. IsTop(top[0], e, 0)
    BY <1>0, <1>e, <2>2, <2>3 DEF IsTop
  <2>5. FallFrom(top[0], e[0]) = 0
    BY <1>0, <1>e, <2>3, FallFacts
  <2>6. IsWorstFall(0, e, top, 0)
    BY <2>2, <2>5 DEF IsWorstFall
  <2> QED
    BY <1>0, <1>5, <1>e, <2>1, <2>2, <2>3, <2>4, <2>6
<1>7. ASSUME NEW i \in 1 .. n, i - 1 \in F PROVE i \in F
  <2>0. i \in Nat /\ i \in 0 .. n /\ i - 1 \in 0 .. n /\ i - 1 \in Nat /\ 0 .. i = (0 .. i - 1) \cup {i}
    BY <1>0
  <2>1. /\ run[i - 1] \in RunType /\ run[i - 1].equity = e[i - 1]
        /\ IsTop(top[i - 1], e, i - 1) /\ IsWorstFall(run[i - 1].maxDD, e, top, i - 1)
        /\ \A b \in 0 .. i - 1 : top[b] \in Nat \ {0}
    <3> HIDE DEF run, n
    <3> QED
      BY <1>7, <2>0
  <2>2. pnls[i] \in Int /\ run[i] = Step(run[i - 1], pnls[i]) /\ e[i] = e[i - 1] + pnls[i] /\ e[i] \in Int
    BY <1>0, <1>5, <1>e, SMTT(30)
  <2>3. top[i] = run[i].peak /\ top[i - 1] = run[i - 1].peak
    BY <2>0
  <2> HIDE DEF run, n, top
  <2>4. /\ run[i] \in RunType /\ run[i].equity = e[i]
        /\ \/ run[i].peak = run[i - 1].peak /\ e[i] <= run[i - 1].peak
           \/ run[i].peak = e[i] /\ e[i] > run[i - 1].peak
        /\ \/ run[i].maxDD = run[i - 1].maxDD /\ FallFrom(top[i], e[i]) <= run[i - 1].maxDD
           \/ run[i].maxDD = FallFrom(top[i], e[i]) /\ FallFrom(top[i], e[i]) > run[i - 1].maxDD
    <3>1. Follows(run[i], run[i - 1], pnls[i])
      BY <2>1, <2>2, StepFacts
    <3> QED
      BY <2>1, <2>2, <2>3, <3>1 DEF Follows
  <2>5. run[i - 1].peak \in Int /\ run[i - 1].maxDD \in Int /\ run[i].maxDD \in Int /\ run[i].peak \in Nat \ {0}
    BY <2>1, <2>4 DEF RunType
  <2>6. \A k \in 0 .. i - 1 : e[k] \in Int
    BY <1>0, <1>e, <2>0
  <2>7. IsTop(top[i], e, i)
    <3>1. PICK k \in 0 .. i - 1 : top[i - 1] = e[k]
      BY <2>1 DEF IsTop
    <3>2. \A c \in 0 .. i - 1 : e[c] <= top[i - 1]
      BY <2>1 DEF IsTop
    <3>3. CASE top[i] = top[i - 1] /\ e[i] <= top[i - 1]
      BY <2>0, <3>1, <3>2, <3>3 DEF IsTop
    <3>4. CASE top[i] = e[i] /\ e[i] > top[i - 1]
      <4>1. \A c \in 0 .. i - 1 : e[c] <= e[i]
        BY <2>2, <2>3, <2>5, <2>6, <3>2, <3>4, SMTT(40)
      <4>2. e[i] <= e[i]
        BY <2>2
      <4> QED
        BY <2>0, <3>4, <4>1, <4>2 DEF IsTop
    <3> QED
      BY <2>3, <2>4, <3>3, <3>4
  <2>8. IsWorstFall(run[i].maxDD, e, top, i)
    <3>1. FallFrom(top[i], e[i]) \in Int
      BY <2>2, <2>3, <2>5, FallFacts
    <3>2. \A b \in 0 .. i - 1 : FallFrom(top[b], e[b]) <= run[i - 1].maxDD
      BY <2>1 DEF IsWorstFall
    <3>3. PICK b \in 0 .. i - 1 : run[i - 1].maxDD = FallFrom(top[b], e[b])
      BY <2>1 DEF IsWorstFall
    <3>4. \A c \in 0 .. i - 1 : FallFrom(top[c], e[c]) \in Int
      <4> SUFFICES ASSUME NEW c \in 0 .. i - 1 PROVE FallFrom(top[c], e[c]) \in Int
        OBVIOUS
      <4> QED
        BY <2>1, <2>6, FallFacts
    <3>5. CASE run[i].maxDD = run[i - 1].maxDD /\ FallFrom(top[i], e[i]) <= run[i - 1].maxDD
      BY <2>0, <3>2, <3>3, <3>5 DEF IsWorstFall
    <3>6. CASE run[i].maxDD = FallFrom(top[i], e[i]) /\ FallFrom(top[i], e[i]) > run[i - 1].maxDD
      <4>1. \A c \in 0 .. i - 1 : FallFrom(top[c], e[c]) <= run[i].maxDD
        BY <2>5, <3>1, <3>2, <3>4, <3>6
      <4>2. FallFrom(top[i], e[i]) <= run[i].maxDD
        BY <3>1, <3>6
      <4> QED
        BY <2>0, <3>6, <4>1, <4>2 DEF IsWorstFall
    <3> QED
      BY <2>4, <3>5, <3>6
  <2> QED
    BY <2>0, <2>1, <2>3, <2>4, <2>5, <2>7, <2>8
<1>8. F = 0 .. n
  <2>1. F \in SUBSET (0 .. n)
    OBVIOUS
  <2> HIDE DEF F, n
  <2> QED
    BY <1>0, <1>6, <1>7, <2>1, IndexInduction
<1>9. OnePass(pnls, Capital) = run[n]
  BY DEF OnePass
<1>10. \A b \in 0 .. n : Good(b) /\ top[b] = run[b].peak
  <2> HIDE DEF Good, run, n
  <2> QED
    BY <1>8
<1> HIDE DEF run, n, top
<1>11. \A b \in 0 .. n : IsTop(top[b], e, b) /\ top[b] \in Nat \ {0}
  BY <1>0, <1>10
<1>12. n \in 0 .. n
  BY <1>0
<1>13. run[n].equity = e[n] /\ IsWorstFall(run[n].maxDD, e, top, n)
  BY <1>10, <1>12
<1> QED
  BY <1>9, <1>11, <1>13 DEF n

LEMMA ComputeFields ==
    ASSUME NEW ts, NEW done, done = CompletedOf(ts)
    PROVE  LET m == Compute(ts, Capital, Benchmark)
           IN  /\ Len(done) = 0 => m.drawdown = 0 /\ m.gain = 0 /\ m.totalTrades = 0
               /\ Len(done) # 0 => /\ m.drawdown = OnePass(PnLs(done), Capital).maxDD
                                   /\ m.gain = OnePass(PnLs(done), Capital).equity - Capital
                                   /\ m.totalTrades = Len(done)
<1>1. CASE Len(done) = 0
  BY <1>1 DEF Compute, NoMetrics
<1>2. CASE Len(done) # 0
  <2>1. Capital # 0
    BY BacktestAssumption, SMTT(30)
  <2> QED
    BY <1>2, <2>1 DEF Compute
<1> QED
  BY <1>1, <1>2

(* worst is the worst of the falls from each highest point of the curve.   *)
FallsExactly(curve, worst) ==
    LET fallen == {p \in (DOMAIN curve) \X (DOMAIN curve) :
                      /\ p[1] <= p[2]
                      /\ \A k \in 1 .. p[2] : curve[k].equity <= curve[p[1]].equity}
        falls == {((curve[p[1]].equity - curve[p[2]].equity) * 100) \div curve[p[1]].equity : p \in fallen}
    IN  worst \in falls /\ \A fall \in falls : fall <= worst

LEMMA CurveFalls ==
    ASSUME NEW n, n \in Nat, NEW e, \A k \in 0 .. n : e[k] \in Int, NEW top, NEW worst,
           \A b \in 0 .. n : IsTop(top[b], e, b) /\ top[b] \in Nat \ {0}, IsWorstFall(worst, e, top, n),
           NEW curve, DOMAIN curve = 1 .. n + 1, \A i \in 1 .. n + 1 : curve[i].equity = e[i - 1]
    PROVE  FallsExactly(curve, worst)
<1> DEFINE fallen == {p \in (DOMAIN curve) \X (DOMAIN curve) :
                         /\ p[1] <= p[2]
                         /\ \A k \in 1 .. p[2] : curve[k].equity <= curve[p[1]].equity}
           FallOf(p) == ((curve[p[1]].equity - curve[p[2]].equity) * 100) \div curve[p[1]].equity
<1>0. \A i \in 1 .. n + 1 : i \in Nat /\ i - 1 \in 0 .. n
  OBVIOUS
<1>1. \A p \in fallen : p[1] \in 1 .. n + 1 /\ p[2] \in 1 .. n + 1 /\ p[1] <= p[2]
  OBVIOUS
<1>2. ASSUME NEW p \in fallen PROVE FallOf(p) = FallFrom(top[p[2] - 1], e[p[2] - 1])
  <2>1. p[1] - 1 \in 0 .. n /\ p[2] - 1 \in 0 .. n /\ p[1] - 1 \in 0 .. p[2] - 1
    BY <1>0, <1>1
  <2>2. \A k \in 0 .. p[2] - 1 : e[k] <= e[p[1] - 1]
    <3> SUFFICES ASSUME NEW k \in 0 .. p[2] - 1 PROVE e[k] <= e[p[1] - 1]
      OBVIOUS
    <3>1. k + 1 \in 1 .. p[2] /\ k + 1 \in 1 .. n + 1 /\ (k + 1) - 1 = k
      BY <1>0, <1>1
    <3>2. curve[k + 1].equity <= curve[p[1]].equity
      BY <3>1
    <3>3. curve[k + 1].equity = e[k] /\ curve[p[1]].equity = e[p[1] - 1]
      BY <1>1, <3>1
    <3> QED
      BY <3>2, <3>3
  <2>3. PICK k \in 0 .. p[2] - 1 : top[p[2] - 1] = e[k]
    BY <2>1 DEF IsTop
  <2>4. e[p[1] - 1] <= top[p[2] - 1]
    BY <2>1 DEF IsTop
  <2>5. e[k] \in Int /\ e[p[1] - 1] \in Int
    <3>1. k \in 0 .. n
      BY <2>1
    <3> QED
      BY <2>1, <3>1
  <2>6. top[p[2] - 1] = e[p[1] - 1]
    BY <2>2, <2>3, <2>4, <2>5
  <2>7. curve[p[1]].equity = e[p[1] - 1] /\ curve[p[2]].equity = e[p[2] - 1]
    BY <1>1
  <2> QED
    BY <2>6, <2>7 DEF FallFrom
<1>3. ASSUME NEW b \in 0 .. n PROVE \E p \in fallen : p[2] - 1 = b
  <2>1. PICK a \in 0 .. b : top[b] = e[a]
    BY DEF IsTop
  <2>2. \A k \in 0 .. b : e[k] <= e[a]
    BY <2>1 DEF IsTop
  <2>3. a + 1 \in 1 .. n + 1 /\ b + 1 \in 1 .. n + 1 /\ a + 1 <= b + 1 /\ (a + 1) - 1 = a /\ (b + 1) - 1 = b
    BY <2>1
  <2>4. \A k \in 1 .. b + 1 : curve[k].equity <= curve[a + 1].equity
    <3> SUFFICES ASSUME NEW k \in 1 .. b + 1 PROVE curve[k].equity <= curve[a + 1].equity
      OBVIOUS
    <3>1. k \in 1 .. n + 1 /\ k - 1 \in 0 .. b
      OBVIOUS
    <3> QED
      BY <2>2, <2>3, <3>1
  <2>5. <<a + 1, b + 1>> \in fallen
    BY <2>3, <2>4
  <2> QED
    BY <2>3, <2>5
<1> HIDE DEF fallen, FallOf
<1>4. \E p \in fallen : worst = FallOf(p)
  BY <1>2, <1>3, ZenonT(60) DEF IsWorstFall
<1>5. \A p \in fallen : FallOf(p) <= worst
  BY <1>0, <1>1, <1>2 DEF IsWorstFall
<1> QED
  BY <1>4, <1>5 DEF fallen, FallOf, FallsExactly

ReportInv ==
    phase = "done" => /\ report.metrics = Compute(trades, Capital, Benchmark)
                      /\ report.curve = EquityCurve(trades, Capital)

LEMMA ReportExact ==
    ASSUME TradesInv, ReportInv, phase = "done"
    PROVE  MetricsExact
<1> DEFINE done == CompletedOf(trades)
           pnls == PnLs(done)
           n == Len(done)
           m == Compute(trades, Capital, Benchmark)
           curve == EquityCurve(trades, Capital)
<1>1. done \in Seq(TradeType) /\ n + Cardinality(Held) = Len(trades)
  BY KeptFacts DEF TradesInv, Held
<1>2. pnls \in Seq(Int) /\ Len(pnls) = n /\ n \in Nat
  <2> HIDE DEF done
  <2>a. n \in Nat /\ \A i \in 1 .. n : done[i] \in TradeType
    BY <1>1
  <2>0. n \in Nat /\ \A i \in 1 .. n : done[i].pnl \in Int
    BY <2>a DEF TradeType
  <2> HIDE DEF n
  <2>1. [i \in 1 .. n |-> done[i].pnl] \in Seq(Int) /\ Len([i \in 1 .. n |-> done[i].pnl]) = n
    BY <2>0
  <2> QED
    BY <2>0, <2>1 DEF PnLs, n
<1>3. PICK e : IsEquity(e, pnls)
  BY <1>2, EquityExists
<1>4. e \in [0 .. n -> Int] /\ e[0] = Capital
  BY <1>2, <1>3 DEF IsEquity
<1>5. OnePass(pnls, Capital).equity = e[n]
  BY <1>2, <1>3, OnePassFacts
<1>6. PICK top : /\ \A b \in 0 .. n : IsTop(top[b], e, b) /\ top[b] \in Nat \ {0}
                 /\ IsWorstFall(OnePass(pnls, Capital).maxDD, e, top, n)
  BY <1>2, <1>3, OnePassFacts
<1>7. /\ Len(curve) = n + 1 /\ DOMAIN curve = 1 .. n + 1
      /\ \A i \in 1 .. n + 1 : curve[i].equity = e[i - 1]
  BY <1>3, CurveFacts DEF TradesInv
<1>8. SumOver(pnls) = e[n] - Capital
  BY <1>2, <1>3, SumOfGains
<1>9. m.drawdown = OnePass(pnls, Capital).maxDD /\ m.gain = e[n] - Capital /\ m.totalTrades = n
  <2>1. CASE n = 0
    <3>1. m.drawdown = 0 /\ m.gain = 0 /\ m.totalTrades = 0
      BY <2>1, ComputeFields
    <3>2. top[0] = e[0] /\ e[0] = Capital /\ Capital \in Nat \ {0}
      BY <1>4, <1>6, <2>1, BacktestAssumption DEF IsTop
    <3>3. FallFrom(top[0], e[0]) = 0
      BY <3>2, FallFacts
    <3>4. OnePass(pnls, Capital).maxDD = 0
      <4>1. \A b \in 0 .. 0 : b = 0
        OBVIOUS
      <4> HIDE DEF pnls, n
      <4> QED
        BY <1>6, <2>1, <3>3, <4>1 DEF IsWorstFall
    <3> HIDE DEF m, pnls, n
    <3> QED
      BY <2>1, <3>1, <3>2, <3>4
  <2>2. CASE n # 0
    BY <1>5, <2>2, ComputeFields
  <2> QED
    BY <2>1, <2>2
<1>10. report.metrics = m /\ report.curve = curve
  BY DEF ReportInv
<1>11. \A k \in 0 .. n : e[k] \in Int
  BY <1>4
<1>12. curve[Len(curve)].equity = e[n]
  <2> HIDE DEF curve, n
  <2>1. n + 1 \in 1 .. n + 1 /\ (n + 1) - 1 = n
    BY <1>2
  <2> QED
    BY <1>7, <2>1
<1>13. FallsExactly(curve, m.drawdown)
  <2> HIDE DEF curve, n, m, pnls
  <2>1. IsWorstFall(m.drawdown, e, top, n)
    BY <1>6, <1>9
  <2> QED
    BY <1>2, <1>6, <1>7, <1>11, <2>1, CurveFalls
<1>14. SumOver(pnls) = curve[Len(curve)].equity - Capital /\ m.gain = curve[Len(curve)].equity - Capital
  BY <1>8, <1>9, <1>12
<1>15. /\ FallsExactly(report.curve, report.metrics.drawdown)
       /\ Len(report.curve) = Len(done) + 1
       /\ report.curve[Len(report.curve)].equity - Capital = SumOver(pnls)
       /\ report.metrics.gain = report.curve[Len(report.curve)].equity - Capital
       /\ report.metrics.totalTrades + Cardinality(Held) = Len(trades)
  <2> HIDE DEF curve, m, done, pnls
  <2> QED
    BY <1>1, <1>7, <1>9, <1>10, <1>13, <1>14
<1> HIDE DEF curve, m
<1> QED
  BY <1>15 DEF MetricsExact, FallsExactly

LEMMA ReportStep ==
    ASSUME ReportInv, [Next]_vars
    PROVE  ReportInv'
<1>1. CASE Finish
  BY <1>1 DEF Finish, ReportInv
<1>2. CASE Refuse
  BY <1>2 DEF Refuse, ReportInv
<1>3. CASE Accept
  BY <1>3 DEF Accept, ReportInv
<1>4. ASSUME NEW tf \in Timeframes, Replay(tf) PROVE ReportInv'
  BY <1>4 DEF Replay, ReportInv
<1>5. CASE UNCHANGED vars
  BY <1>5 DEF vars, ReportInv
<1> QED
  BY <1>1, <1>2, <1>3, <1>4, <1>5 DEF Next

(* The report agrees with its trades, whatever they are: the one pass      *)
(* finds the worst fall of the curve from its highest point so far, the    *)
(* curve ends at the capital plus the gains, and no trade is counted twice *)
(* or left out (analytics/metrics.go Compute, EquityCurve).                *)
THEOREM ReportAddsUp == Spec => []MetricsExact
<1> DEFINE Inv == HistoryType /\ TradesInv /\ EntryInv /\ document \in Documents /\ ReportInv
<1>1. Init => Inv
  <2>1. Init => TradesInv /\ EntryInv /\ document \in Documents /\ ReportInv
    BY DEF Init, TradesInv, EntryInv, Replaying, ReportInv
  <2> QED
    BY <2>1, InitHistory
<1>2. Inv /\ [Next]_vars => Inv'
  <2>1. document \in Documents /\ [Next]_vars => (document \in Documents)'
    BY DEF Next, Refuse, Accept, Finish, Replay, vars
  <2> QED
    BY <2>1, HistoryStep, EntryStep, TradesStep, ReportStep
<1>3. Inv => MetricsExact
  <2>1. CASE phase = "done"
    BY <2>1, ReportExact
  <2>2. CASE phase # "done"
    BY <2>2 DEF MetricsExact
  <2> QED
    BY <2>1, <2>2
<1> HIDE DEF Inv
<1> QED
  BY <1>1, <1>2, <1>3, PTL DEF Spec

-----------------------------------------------------------------------------
(* Sequences and their sums.                                               *)

LEMMA Tabulated ==
    ASSUME NEW n \in Nat, NEW S, NEW f \in [1 .. n -> S]
    PROVE  f \in Seq(S) /\ Len(f) = n /\ DOMAIN f = 1 .. n
  OBVIOUS

LEMMA Extended ==
    ASSUME NEW S, NEW xs \in Seq(S), NEW v \in S
    PROVE  /\ Append(xs, v) \in Seq(S) /\ Len(Append(xs, v)) = Len(xs) + 1
           /\ Append(xs, v)[Len(xs) + 1] = v
           /\ \A i \in 1 .. Len(xs) : Append(xs, v)[i] = xs[i]
  OBVIOUS

LEMMA Detached ==
    ASSUME NEW S, NEW xs \in Seq(S), xs # <<>>
    PROVE  /\ Tail(xs) \in Seq(S) /\ Len(Tail(xs)) = Len(xs) - 1 /\ Len(xs) \in Nat \ {0}
           /\ \A i \in 1 .. Len(xs) - 1 : Tail(xs)[i] = xs[i + 1]
  OBVIOUS

IsRunning(e, xs) == e \in [0 .. Len(xs) -> Int] /\ e[0] = 0 /\ Accumulates(e, Len(xs), xs)

LEMMA RunningExists ==
    ASSUME NEW xs \in Seq(Int)
    PROVE  \E e : IsRunning(e, xs) /\ SumOver(xs) = e[Len(xs)]
<1>1. Len(xs) \in Nat /\ 0 \in Int /\ \A i \in 1 .. Len(xs) : xs[i] \in Int
  OBVIOUS
<1>2. PICK e \in [0 .. Len(xs) -> Int] : e[0] = 0 /\ Accumulates(e, Len(xs), xs)
  BY <1>1, RunningSum
<1>3. SumOver(xs) = e[Len(xs)] - e[0]
  BY <1>2, SumIsRise
<1>4. e[Len(xs)] \in Int
  BY <1>1
<1> QED
  BY <1>2, <1>3, <1>4 DEF IsRunning

LEMMA SumTypedInt ==
    ASSUME NEW xs \in Seq(Int)
    PROVE  SumOver(xs) \in Int
<1>1. PICK e : IsRunning(e, xs) /\ SumOver(xs) = e[Len(xs)]
  BY RunningExists
<1>2. Len(xs) \in 0 .. Len(xs)
  OBVIOUS
<1> QED
  BY <1>1, <1>2 DEF IsRunning

LEMMA SumOfNone == SumOver(<<>>) = 0
<1>1. <<>> \in Seq(Int) /\ Len(<<>>) = 0
  OBVIOUS
<1>2. PICK e : IsRunning(e, <<>>) /\ SumOver(<<>>) = e[Len(<<>>)]
  BY <1>1, RunningExists
<1> QED
  BY <1>1, <1>2 DEF IsRunning

LEMMA SumExtended ==
    ASSUME NEW xs \in Seq(Int), NEW v \in Int
    PROVE  SumOver(Append(xs, v)) = SumOver(xs) + v
<1> DEFINE n == Len(xs)
           ys == Append(xs, v)
<1>0. n \in Nat /\ ys \in Seq(Int) /\ Len(ys) = n + 1 /\ ys[n + 1] = v /\ \A i \in 1 .. n : ys[i] = xs[i]
  BY Extended
<1>1. PICK e : IsRunning(e, xs) /\ SumOver(xs) = e[n]
  BY RunningExists
<1> DEFINE f == [i \in 0 .. n + 1 |-> IF i = n + 1 THEN e[n] + v ELSE e[i]]
<1> HIDE DEF ys
<1>2. e \in [0 .. n -> Int] /\ e[0] = 0 /\ Accumulates(e, n, xs)
  BY <1>1 DEF IsRunning
<1> HIDE DEF n
<1>3. f \in [0 .. n + 1 -> Int] /\ f[0] = 0 /\ f[n + 1] = e[n] + v /\ \A i \in 0 .. n : f[i] = e[i]
  BY <1>0, <1>2
<1> HIDE DEF f
<1>4. Accumulates(f, n + 1, ys)
  <2>1. ASSUME NEW i \in 1 .. n + 1 PROVE f[i] = f[i - 1] + ys[i]
    <3>1. CASE i = n + 1
      BY <1>0, <1>3, <3>1
    <3>2. CASE i # n + 1
      <4>1. i \in 1 .. n /\ i \in 0 .. n /\ i - 1 \in 0 .. n
        BY <1>0, <3>2
      <4> QED
        BY <1>0, <1>2, <1>3, <4>1 DEF Accumulates
    <3> QED
      BY <3>1, <3>2
  <2> QED
    BY <2>1 DEF Accumulates
<1>5. SumOver(ys) = f[n + 1] - f[0]
  BY <1>0, <1>3, <1>4, SumIsRise
<1>6. e[n] \in Int
  BY <1>0, <1>2
<1> QED
  BY <1>1, <1>3, <1>5, <1>6 DEF ys

LEMMA SumDetached ==
    ASSUME NEW xs \in Seq(Int), xs # <<>>
    PROVE  SumOver(Tail(xs)) = SumOver(xs) - xs[1]
<1> DEFINE n == Len(xs)
           ys == Tail(xs)
<1>0. n \in Nat \ {0} /\ ys \in Seq(Int) /\ Len(ys) = n - 1 /\ \A i \in 1 .. n - 1 : ys[i] = xs[i + 1]
  BY Detached
<1>1. PICK e : IsRunning(e, xs) /\ SumOver(xs) = e[n]
  BY RunningExists
<1> DEFINE f == [i \in 0 .. n - 1 |-> e[i + 1]]
<1> HIDE DEF ys
<1>2. e \in [0 .. n -> Int] /\ e[0] = 0 /\ \A i \in 1 .. n : e[i] = e[i - 1] + xs[i]
  BY <1>1 DEF IsRunning, Accumulates
<1>x. \A i \in 1 .. n : xs[i] \in Int
  OBVIOUS
<1> HIDE DEF n
<1>3. f \in [0 .. n - 1 -> Int] /\ f[0] = e[1] /\ f[n - 1] = e[n] /\ \A i \in 0 .. n - 1 : f[i] = e[i + 1]
  BY <1>0, <1>2
<1> HIDE DEF f
<1>4. Accumulates(f, n - 1, ys)
  <2>1. ASSUME NEW i \in 1 .. n - 1 PROVE f[i] = f[i - 1] + ys[i]
    <3>1. i \in 0 .. n - 1 /\ i - 1 \in 0 .. n - 1 /\ i + 1 \in 1 .. n /\ (i + 1) - 1 = i /\ (i - 1) + 1 = i
      BY <1>0
    <3> QED
      BY <1>0, <1>2, <1>3, <3>1
  <2> QED
    BY <2>1 DEF Accumulates
<1>5. SumOver(ys) = f[n - 1] - f[0]
  BY <1>0, <1>3, <1>4, SumIsRise
<1>6. 1 \in 1 .. n /\ n \in 0 .. n /\ e[1] = 0 + xs[1]
  BY <1>0, <1>2
<1>7. e[n] \in Int /\ xs[1] \in Int
  BY <1>2, <1>6, <1>x
<1> QED
  BY <1>1, <1>3, <1>5, <1>6, <1>7 DEF ys

(* A sum of numbers between 0 and a bound.                                 *)
LEMMA SumBounded ==
    ASSUME NEW xs \in Seq(Nat), NEW bound \in Nat, \A i \in 1 .. Len(xs) : xs[i] <= bound
    PROVE  SumOver(xs) \in 0 .. Len(xs) * bound
<1> DEFINE n == Len(xs)
<1>0. n \in Nat /\ xs \in Seq(Int) /\ \A i \in 1 .. n : xs[i] \in 0 .. bound
  OBVIOUS
<1>1. PICK e : IsRunning(e, xs) /\ SumOver(xs) = e[n]
  BY <1>0, RunningExists
<1>2. e \in [0 .. n -> Int] /\ e[0] = 0 /\ \A i \in 1 .. n : e[i] = e[i - 1] + xs[i]
  BY <1>1 DEF IsRunning, Accumulates
<1> HIDE DEF n
<1> DEFINE F == {i \in 0 .. n : e[i] \in 0 .. i * bound}
<1>3. 0 \in F
  BY <1>0, <1>2
<1>4. ASSUME NEW i \in 1 .. n, i - 1 \in F PROVE i \in F
  <2>1. e[i] = e[i - 1] + xs[i] /\ e[i - 1] \in 0 .. (i - 1) * bound /\ xs[i] \in 0 .. bound
    BY <1>0, <1>2, <1>4
  <2>2. (i - 1) * bound + bound = i * bound /\ (i - 1) * bound \in Int /\ i * bound \in Int
    BY <1>0
  <2>3. e[i] \in 0 .. i * bound
    BY <2>1, <2>2
  <2> QED
    BY <1>0, <2>3
<1>5. n \in F
  <2>1. F \in SUBSET (0 .. n)
    OBVIOUS
  <2> HIDE DEF F
  <2>2. F = 0 .. n
    BY <1>0, <1>3, <1>4, <2>1, IndexInduction
  <2> QED
    BY <1>0, <2>2
<1> QED
  BY <1>1, <1>5 DEF n

LEMMA SumNatural ==
    ASSUME NEW xs \in Seq(Nat)
    PROVE  SumOver(xs) \in Nat
<1> DEFINE n == Len(xs)
<1>0. n \in Nat /\ xs \in Seq(Int) /\ \A i \in 1 .. n : xs[i] \in Nat
  OBVIOUS
<1>1. PICK e : IsRunning(e, xs) /\ SumOver(xs) = e[n]
  BY <1>0, RunningExists
<1>2. e \in [0 .. n -> Int] /\ e[0] = 0 /\ \A i \in 1 .. n : e[i] = e[i - 1] + xs[i]
  BY <1>1 DEF IsRunning, Accumulates
<1> HIDE DEF n
<1> DEFINE F == {i \in 0 .. n : e[i] \in Nat}
<1>3. 0 \in F
  BY <1>0, <1>2
<1>4. ASSUME NEW i \in 1 .. n, i - 1 \in F PROVE i \in F
  <2>1. e[i] = e[i - 1] + xs[i] /\ e[i - 1] \in Nat /\ xs[i] \in Nat /\ i \in 0 .. n
    BY <1>0, <1>2, <1>4
  <2> QED
    BY <2>1
<1>5. n \in F
  <2>1. F \in SUBSET (0 .. n)
    OBVIOUS
  <2> HIDE DEF F
  <2>2. F = 0 .. n
    BY <1>0, <1>3, <1>4, <2>1, IndexInduction
  <2> QED
    BY <1>0, <2>2
<1> QED
  BY <1>1, <1>5

-----------------------------------------------------------------------------
(* The ring buffer.                                                        *)

Capped(n) == IF n < 1 THEN 1 ELSE n

(* w is the last n elements of xs.                                         *)
IsLast(w, xs, n) ==
    /\ Len(w) = (IF Len(xs) < n THEN Len(xs) ELSE n)
    /\ \A i \in 1 .. Len(w) : w[i] = xs[Len(xs) - Len(w) + i]

LEMMA LastFacts ==
    ASSUME NEW S, NEW xs, NEW n, xs \in Seq(S), n \in Nat \ {0}
    PROVE  LastOf(xs, n) \in Seq(S) /\ IsLast(LastOf(xs, n), xs, n)
<1> DEFINE L == Len(xs)
           first == IF L < n THEN 1 ELSE L - n + 1
<1>1. L \in Nat /\ first \in 1 .. L + 1 /\ \A i \in first .. L : xs[i] \in S
  OBVIOUS
<1>2. LastOf(xs, n) = SubSeq(xs, first, L)
  <2>1. first = max2(1, L - n + 1)
    BY <1>1 DEF max2
  <2> QED
    BY <2>1 DEF LastOf
<1>3. L - first + 1 = (IF L < n THEN L ELSE n) /\ first <= L + 1
  BY <1>1
<1>4. first \in Int /\ L \in Int
  BY <1>1
<1> HIDE DEF first
<1>5. /\ SubSeq(xs, first, L) \in Seq(S)
      /\ Len(SubSeq(xs, first, L)) = IF first <= L THEN L - first + 1 ELSE 0
      /\ \A i \in 1 .. L - first + 1 : SubSeq(xs, first, L)[i] = xs[first + i - 1]
  BY <1>1, <1>4, SubSeqProperties
<1>6. Len(LastOf(xs, n)) = L - first + 1
  BY <1>1, <1>2, <1>3, <1>5
<1>7. \A i \in 1 .. L - first + 1 : LastOf(xs, n)[i] = xs[L - (L - first + 1) + i]
  <2>1. \A i \in 1 .. L - first + 1 : L - (L - first + 1) + i = first + i - 1
    BY <1>4
  <2> QED
    BY <1>2, <1>5, <2>1
<1> QED
  BY <1>2, <1>3, <1>5, <1>6, <1>7 DEF IsLast

(* A window that is not full keeps everything, a full one drops its first. *)
LEMMA LastExtended ==
    ASSUME NEW S, NEW xs \in Seq(S), NEW v \in S, NEW n \in Nat \ {0}
    PROVE  LET w == LastOf(xs, n)
           IN  LastOf(Append(xs, v), n) = Append(IF Len(xs) < n THEN w ELSE Tail(w), v)
<1> DEFINE L == Len(xs)
           w == LastOf(xs, n)
           ys == Append(xs, v)
           u == LastOf(ys, n)
           kept == IF L < n THEN w ELSE Tail(w)
           k == Len(kept)
<1>1. L \in Nat /\ ys \in Seq(S) /\ Len(ys) = L + 1 /\ ys[L + 1] = v /\ \A i \in 1 .. L : ys[i] = xs[i]
  BY Extended
<1>2. w \in Seq(S) /\ Len(w) = (IF L < n THEN L ELSE n) /\ \A i \in 1 .. Len(w) : w[i] = xs[L - Len(w) + i]
  BY LastFacts DEF IsLast
<1>3. u \in Seq(S) /\ IsLast(u, ys, n)
  <2> HIDE DEF ys
  <2> QED
    BY <1>1, LastFacts
<1> HIDE DEF ys, w, u, L
<1>4. kept \in Seq(S) /\ k = (IF L < n THEN L ELSE n - 1) /\ \A i \in 1 .. k : kept[i] = xs[L - k + i]
  <2>1. CASE L < n
    BY <1>1, <1>2, <2>1
  <2>2. CASE ~(L < n)
    <3>1. w # <<>> /\ Len(w) = n
      BY <1>1, <1>2, <2>2
    <3>2. kept = Tail(w)
      BY <2>2
    <3>3. kept \in Seq(S) /\ k = n - 1 /\ \A i \in 1 .. n - 1 : kept[i] = w[i + 1]
      BY <1>2, <3>1, <3>2, Detached
    <3>4. \A i \in 1 .. n - 1 : i + 1 \in 1 .. n /\ w[i + 1] = xs[L - n + (i + 1)]
      BY <1>2, <3>1
    <3>5. \A i \in 1 .. n - 1 : L - n + (i + 1) = L - (n - 1) + i
      BY <1>1
    <3> QED
      BY <2>2, <3>3, <3>4, <3>5
  <2> QED
    BY <2>1, <2>2
<1> HIDE DEF kept
<1> DEFINE t == Append(kept, v)
<1>5. t \in Seq(S) /\ Len(t) = k + 1 /\ t[k + 1] = v /\ \A i \in 1 .. k : t[i] = kept[i]
  BY <1>4, Extended
<1>6. Len(u) = k + 1 /\ k \in Nat
  BY <1>1, <1>3, <1>4 DEF IsLast
<1> HIDE DEF t, k
<1>7. ASSUME NEW i \in 1 .. k + 1 PROVE u[i] = t[i]
  <2>a. i \in 1 .. Len(u)
    BY <1>6
  <2>b. u[i] = ys[Len(ys) - Len(u) + i]
    BY <1>3, <2>a DEF IsLast
  <2>0. u[i] = ys[L + 1 - (k + 1) + i]
    BY <1>1, <1>6, <2>b
  <2>1. u[i] = ys[L - k + i] /\ L + 1 - (k + 1) + i = L - k + i
    BY <1>1, <1>6, <2>0
  <2>2. CASE i = k + 1
    <3>1. L - k + i = L + 1
      BY <1>1, <1>6, <2>2
    <3> QED
      BY <1>1, <1>5, <2>1, <2>2, <3>1
  <2>3. CASE i # k + 1
    <3>1. i \in 1 .. k /\ L - k + i \in 1 .. L
      BY <1>1, <1>4, <1>6, <2>3
    <3> QED
      BY <1>1, <1>4, <1>5, <2>1, <3>1
  <2> QED
    BY <2>2, <2>3
<1>8. u = t
  BY <1>3, <1>5, <1>6, <1>7, SeqEqual
<1> QED
  BY <1>8 DEF t, u, ys, w, L, kept

(* r is a ring of n places that was given the numbers xs, one by one.      *)
IsWindow(r, n, xs) ==
    /\ n \in Nat \ {0} /\ xs \in Seq(Int)
    /\ r \in [cap : {n}, buf : [0 .. n - 1 -> Int], size : 0 .. n, pos : 0 .. n - 1, sum : Int]
    /\ r.size = (IF Len(xs) < n THEN Len(xs) ELSE n)
    /\ (IF Len(xs) < n THEN r.pos = Len(xs) ELSE r.pos <= Len(xs))
    /\ \A i \in 0 .. n - 1 : i < r.pos => r.buf[i] = xs[Len(xs) - r.pos + i + 1]
    /\ Len(xs) >= n => \A i \in 0 .. n - 1 : i >= r.pos => r.buf[i] = xs[Len(xs) - r.pos - n + i + 1]
    /\ r.sum = SumOver(LastOf(xs, n))

RingType(n) == [cap : {n}, buf : [0 .. n - 1 -> Int], size : 0 .. n, pos : 0 .. n - 1, sum : Int]

LEMMA RingFields ==
    ASSUME NEW n \in Nat \ {0}, NEW r \in RingType(n)
    PROVE  /\ r.cap = n /\ r.buf \in [0 .. n - 1 -> Int] /\ r.size \in 0 .. n /\ r.pos \in 0 .. n - 1
           /\ r.sum \in Int
  BY DEF RingType

LEMMA AdvanceWraps ==
    ASSUME NEW n \in Nat \ {0}, NEW i \in 0 .. n - 1
    PROVE  (i + 1) % n = IF i = n - 1 THEN 0 ELSE i + 1
<1>1. CASE i = n - 1
  <2>1. i + 1 = 1 * n + 0 /\ 0 \in 0 .. n - 1 /\ i + 1 \in Nat
    BY <1>1
  <2> QED
    BY <1>1, <2>1, QuotientUnique
<1>2. CASE i # n - 1
  <2>1. i + 1 = 0 * n + (i + 1) /\ i + 1 \in 0 .. n - 1 /\ i + 1 \in Nat
    BY <1>2
  <2> QED
    BY <1>2, <2>1, QuotientUnique
<1> QED
  BY <1>1, <1>2

LEMMA EmptyWindow ==
    ASSUME NEW p \in Int
    PROVE  IsWindow(newRing(p), Capped(p), <<>>)
<1> DEFINE n == Capped(p)
           r == newRing(p)
<1>1. n \in Nat \ {0}
  BY DEF Capped
<1>2. r = [cap |-> n, buf |-> [i \in 0 .. n - 1 |-> 0], size |-> 0, pos |-> 0, sum |-> 0]
  BY DEF newRing, Capped
<1> HIDE DEF n, r
<1>3. r \in [cap : {n}, buf : [0 .. n - 1 -> Int], size : 0 .. n, pos : 0 .. n - 1, sum : Int]
  BY <1>1, <1>2
<1>4. <<>> \in Seq(Int) /\ Len(<<>>) = 0
  OBVIOUS
<1>5. LastOf(<<>>, n) \in Seq(Int) /\ Len(LastOf(<<>>, n)) = 0
  <2>1. <<>> \in Seq(Int)
    BY <1>4
  <2>2. LastOf(<<>>, n) \in Seq(Int) /\ IsLast(LastOf(<<>>, n), <<>>, n)
    BY <1>1, <2>1, LastFacts
  <2> QED
    BY <1>1, <1>4, <2>2 DEF IsLast
<1>6. LastOf(<<>>, n) = <<>>
  BY <1>5
<1> QED
  BY <1>1, <1>2, <1>3, <1>4, <1>6, SumOfNone DEF IsWindow, n, r

LEMMA WindowParts ==
    ASSUME NEW r, NEW n, NEW xs, IsWindow(r, n, xs)
    PROVE  /\ n \in Nat \ {0} /\ xs \in Seq(Int) /\ Len(xs) \in Nat /\ r \in RingType(n)
           /\ r.cap = n /\ r.buf \in [0 .. n - 1 -> Int] /\ r.size \in 0 .. n /\ r.pos \in 0 .. n - 1
           /\ r.sum \in Int
           /\ r.size = (IF Len(xs) < n THEN Len(xs) ELSE n)
           /\ (full(r) <=> Len(xs) >= n)
<1>1. n \in Nat \ {0} /\ xs \in Seq(Int) /\ Len(xs) \in Nat /\ r \in RingType(n)
  BY DEF IsWindow, RingType
<1>2. r.cap = n /\ r.buf \in [0 .. n - 1 -> Int] /\ r.size \in 0 .. n /\ r.pos \in 0 .. n - 1 /\ r.sum \in Int
  BY <1>1, RingFields
<1>3. r.size = (IF Len(xs) < n THEN Len(xs) ELSE n)
  BY DEF IsWindow
<1>4. full(r) <=> Len(xs) >= n
  BY <1>1, <1>2, <1>3 DEF full
<1> QED
  BY <1>1, <1>2, <1>3, <1>4

(* What one push makes of a ring r of n places, s.                         *)
IsPushed(s, r, n, v) ==
    /\ s.cap = n /\ s.buf \in [0 .. n - 1 -> Int] /\ s.sum \in Int
    /\ s = [cap |-> s.cap, buf |-> s.buf, size |-> s.size, pos |-> s.pos, sum |-> s.sum]
    /\ s.pos = (IF r.pos = n - 1 THEN 0 ELSE r.pos + 1)
    /\ s.buf = [r.buf EXCEPT ![r.pos] = v]
    /\ s.size = (IF full(r) THEN r.size ELSE r.size + 1)
    /\ s.sum = (IF full(r) THEN r.sum + (v - r.buf[r.pos]) ELSE r.sum + v)

LEMMA PushFields ==
    ASSUME NEW n \in Nat \ {0}, NEW r \in RingType(n), NEW v \in Int
    PROVE  IsPushed(push(r, v), r, n, v)
<1>1. r.cap = n /\ r.buf \in [0 .. n - 1 -> Int] /\ r.size \in 0 .. n /\ r.pos \in 0 .. n - 1 /\ r.sum \in Int
  BY RingFields
<1>0. r = [cap |-> n, buf |-> r.buf, size |-> r.size, pos |-> r.pos, sum |-> r.sum]
  BY DEF RingType
<1>2. advance(r) = (IF r.pos = n - 1 THEN 0 ELSE r.pos + 1)
  BY <1>1, AdvanceWraps DEF advance
<1> DEFINE buf == [r.buf EXCEPT ![r.pos] = v]
           pos == advance(r)
           b == r.buf
           z == r.size
           p == r.pos
           u == r.sum
           more == u + v
           moved == u + (v - b[p])
<1>3. r = [cap |-> n, buf |-> b, size |-> z, pos |-> p, sum |-> u]
  BY <1>0
<1>4. b[p] \in Int /\ buf \in [0 .. n - 1 -> Int] /\ more \in Int /\ moved \in Int
  <2>1. b[p] \in Int /\ buf \in [0 .. n - 1 -> Int] /\ u \in Int
    BY <1>1
  <2> HIDE DEF b, buf, u, p
  <2>2. u + v \in Int /\ u + (v - b[p]) \in Int
    BY <2>1
  <2> QED
    BY <2>1, <2>2
<1>5. CASE full(r)
  <2>1. push(r, v) = [r EXCEPT !.buf = buf, !.pos = pos, !.sum = moved]
    BY <1>5 DEF push
  <2> HIDE DEF buf, pos, moved, b, z, p, u
  <2>3. push(r, v) = [cap |-> n, buf |-> buf, size |-> z, pos |-> pos, sum |-> moved]
    BY <1>3, <2>1
  <2> QED
    BY <1>2, <1>4, <1>5, <2>3 DEF IsPushed, pos, buf, moved, b, z, p, u
<1>6. CASE ~full(r)
  <2>1. push(r, v) = [r EXCEPT !.buf = buf, !.pos = pos, !.sum = more, !.size = z + 1]
    BY <1>6 DEF push
  <2> HIDE DEF buf, pos, more, b, z, p, u
  <2>3. push(r, v) = [cap |-> n, buf |-> buf, size |-> z + 1, pos |-> pos, sum |-> more]
    BY <1>3, <2>1
  <2> QED
    BY <1>2, <1>4, <1>6, <2>3 DEF IsPushed, pos, buf, more, b, z, p, u
<1> QED
  BY <1>5, <1>6

(* The next position to write, and where the numbers are found from it.    *)
LEMMA Rotated ==
    ASSUME NEW n \in Nat \ {0}, NEW L \in Nat, NEW p \in 0 .. n - 1, IF L < n THEN p = L ELSE p <= L,
           NEW q, q = (IF p = n - 1 THEN 0 ELSE p + 1)
    PROVE  /\ q \in 0 .. n - 1 /\ (IF L + 1 < n THEN q = L + 1 ELSE q <= L + 1)
           /\ \A i \in 0 .. n - 1 : i < q =>
                 /\ q = p + 1 /\ (L + 1) - q + i + 1 = L - p + i + 1
                 /\ i # p => i < p /\ L - p + i + 1 \in 1 .. L
           /\ \A i \in 0 .. n - 1 : L + 1 >= n /\ i >= q /\ q = 0 =>
                 /\ p = n - 1 /\ (L + 1) - q - n + i + 1 = L - p + i + 1
                 /\ i # p => i < p /\ L - p + i + 1 \in 1 .. L
           /\ \A i \in 0 .. n - 1 : L + 1 >= n /\ i >= q /\ q # 0 =>
                 /\ i > p /\ L >= n
                 /\ (L + 1) - q - n + i + 1 = L - p - n + i + 1 /\ L - p - n + i + 1 \in 1 .. L
<1>1. CASE p = n - 1
  BY <1>1
<1>2. CASE p # n - 1
  BY <1>2
<1> QED
  BY <1>1, <1>2

(* A ring keeps the last numbers it was given and their sum.               *)
LEMMA PushedWindow ==
    ASSUME NEW n \in Nat \ {0}, NEW xs \in Seq(Int), NEW r, IsWindow(r, n, xs), NEW v \in Int
    PROVE  IsWindow(push(r, v), n, Append(xs, v))
<1> DEFINE L == Len(xs)
           ys == Append(xs, v)
           w == LastOf(xs, n)
           p == r.pos
           b == r.buf
           s == push(r, v)
           q == s.pos
<1>1. /\ L \in Nat /\ r \in RingType(n)
      /\ b \in [0 .. n - 1 -> Int] /\ r.size \in 0 .. n /\ p \in 0 .. n - 1 /\ r.sum \in Int
      /\ r.size = (IF L < n THEN L ELSE n) /\ (full(r) <=> L >= n)
  BY WindowParts
<1>2. /\ IF L < n THEN p = L ELSE p <= L
      /\ \A i \in 0 .. n - 1 : i < p => b[i] = xs[L - p + i + 1]
      /\ L >= n => \A i \in 0 .. n - 1 : i >= p => b[i] = xs[L - p - n + i + 1]
      /\ r.sum = SumOver(w)
  BY DEF IsWindow
<1>p. IsPushed(s, r, n, v)
  BY <1>1, PushFields
<1>3. /\ s.cap = n /\ s.buf \in [0 .. n - 1 -> Int] /\ s.sum \in Int
      /\ s = [cap |-> s.cap, buf |-> s.buf, size |-> s.size, pos |-> s.pos, sum |-> s.sum]
      /\ q = (IF p = n - 1 THEN 0 ELSE p + 1)
      /\ s.buf = [b EXCEPT ![p] = v]
      /\ s.size = (IF full(r) THEN r.size ELSE r.size + 1)
      /\ s.sum = (IF full(r) THEN r.sum + (v - b[p]) ELSE r.sum + v)
  <2> HIDE DEF s
  <2> QED
    BY <1>p DEF IsPushed
<1>4. ys \in Seq(Int) /\ Len(ys) = L + 1 /\ ys[L + 1] = v /\ \A i \in 1 .. L : ys[i] = xs[i]
  BY Extended
<1>5. w \in Seq(Int) /\ IsLast(w, xs, n)
  BY LastFacts
<1>6. LastOf(ys, n) = Append(IF L < n THEN w ELSE Tail(w), v)
  BY LastExtended
<1> HIDE DEF L, ys, w, p, s, q, b
<1>7. s.size = (IF L + 1 < n THEN L + 1 ELSE n) /\ s.size \in 0 .. n
  <2>1. CASE L < n
    <3>1. s.size = L + 1
      BY <1>1, <1>3, <2>1
    <3> QED
      BY <1>1, <2>1, <3>1
  <2>2. CASE ~(L < n)
    <3>1. s.size = n
      BY <1>1, <1>3, <2>2
    <3> QED
      BY <1>1, <2>2, <3>1
  <2> QED
    BY <2>1, <2>2
<1>r. /\ q \in 0 .. n - 1 /\ (IF L + 1 < n THEN q = L + 1 ELSE q <= L + 1)
      /\ \A i \in 0 .. n - 1 : i < q =>
            /\ q = p + 1 /\ (L + 1) - q + i + 1 = L - p + i + 1
            /\ i # p => i < p /\ L - p + i + 1 \in 1 .. L
      /\ \A i \in 0 .. n - 1 : L + 1 >= n /\ i >= q /\ q = 0 =>
            /\ p = n - 1 /\ (L + 1) - q - n + i + 1 = L - p + i + 1
            /\ i # p => i < p /\ L - p + i + 1 \in 1 .. L
      /\ \A i \in 0 .. n - 1 : L + 1 >= n /\ i >= q /\ q # 0 =>
            /\ i > p /\ L >= n
            /\ (L + 1) - q - n + i + 1 = L - p - n + i + 1 /\ L - p - n + i + 1 \in 1 .. L
  <2>1. L \in Nat /\ p \in 0 .. n - 1 /\ (IF L < n THEN p = L ELSE p <= L)
        /\ q = (IF p = n - 1 THEN 0 ELSE p + 1)
    BY <1>1, <1>2, <1>3
  <2> QED
    BY <2>1, Rotated
<1>8. s \in [cap : {n}, buf : [0 .. n - 1 -> Int], size : 0 .. n, pos : 0 .. n - 1, sum : Int]
  BY <1>3, <1>7, <1>r DEF q
<1>b. s.buf[p] = v /\ \A i \in 0 .. n - 1 : i # p => s.buf[i] = b[i]
  BY <1>1, <1>3
<1>l. L - p + p + 1 = L + 1
  BY <1>1
<1>10. ASSUME NEW i \in 0 .. n - 1, i < q PROVE s.buf[i] = ys[(L + 1) - q + i + 1]
  <2>1. (L + 1) - q + i + 1 = L - p + i + 1 /\ (i # p => i < p /\ L - p + i + 1 \in 1 .. L)
    BY <1>r, <1>10
  <2>2. CASE i = p
    BY <1>4, <1>b, <1>l, <2>1, <2>2
  <2>3. CASE i # p
    <3>1. b[i] = xs[L - p + i + 1] /\ ys[L - p + i + 1] = xs[L - p + i + 1]
      BY <1>2, <1>4, <2>1, <2>3
    <3> QED
      BY <1>b, <2>1, <2>3, <3>1
  <2> QED
    BY <2>2, <2>3
<1>11. ASSUME L + 1 >= n, NEW i \in 0 .. n - 1, i >= q PROVE s.buf[i] = ys[(L + 1) - q - n + i + 1]
  <2>1. CASE q = 0
    <3>1. (L + 1) - q - n + i + 1 = L - p + i + 1 /\ (i # p => i < p /\ L - p + i + 1 \in 1 .. L)
      BY <1>r, <1>11, <2>1
    <3>2. CASE i = p
      BY <1>4, <1>b, <1>l, <3>1, <3>2
    <3>3. CASE i # p
      <4>1. b[i] = xs[L - p + i + 1] /\ ys[L - p + i + 1] = xs[L - p + i + 1]
        BY <1>2, <1>4, <3>1, <3>3
      <4> QED
        BY <1>b, <3>1, <3>3, <4>1
    <3> QED
      BY <3>2, <3>3
  <2>2. CASE q # 0
    <3>1. /\ i > p /\ L >= n
          /\ (L + 1) - q - n + i + 1 = L - p - n + i + 1 /\ L - p - n + i + 1 \in 1 .. L
      BY <1>r, <1>11, <2>2
    <3>2. i # p /\ i >= p
      BY <1>1, <3>1
    <3>3. b[i] = xs[L - p - n + i + 1] /\ ys[L - p - n + i + 1] = xs[L - p - n + i + 1]
      BY <1>2, <1>4, <3>1, <3>2
    <3> QED
      BY <1>b, <3>1, <3>2, <3>3
  <2> QED
    BY <2>1, <2>2
<1>12. s.sum = SumOver(LastOf(ys, n))
  <2>1. CASE L < n
    <3>1. SumOver(Append(w, v)) = SumOver(w) + v
      BY <1>5, SumExtended
    <3> QED
      BY <1>1, <1>2, <1>3, <1>6, <2>1, <3>1
  <2>2. CASE ~(L < n)
    <3>0. Len(xs) = L
      BY DEF L
    <3>1. Len(w) = n
      BY <1>1, <1>5, <2>2, <3>0 DEF IsLast
    <3>a. 1 \in 1 .. n /\ L - n + 1 \in Int
      BY <1>1
    <3>b. \A i \in 1 .. n : w[i] = xs[L - n + i]
      BY <1>5, <3>0, <3>1 DEF IsLast
    <3>c. w[1] = xs[L - n + 1] /\ w # <<>>
      BY <1>5, <3>1, <3>a, <3>b
    <3>d. L >= n /\ p \in 0 .. n - 1 /\ p >= p
      BY <1>1, <2>2
    <3>e. b[p] = xs[L - p - n + p + 1]
      BY <1>2, <3>d
    <3>f. L - p - n + p + 1 = L - n + 1
      BY <1>1
    <3>g. b[p] = w[1] /\ b[p] \in Int
      BY <1>1, <3>c, <3>e, <3>f
    <3>3. Tail(w) \in Seq(Int)
      BY <1>5, <3>c, Detached
    <3>h. SumOver(Tail(w)) = SumOver(w) - w[1]
      BY <1>5, <3>c, SumDetached
    <3>4. SumOver(Append(Tail(w), v)) = SumOver(Tail(w)) + v
      BY <3>3, SumExtended
    <3>5. s.sum = r.sum + (v - b[p]) /\ r.sum \in Int
      BY <1>1, <1>3, <3>d
    <3> DEFINE a == SumOver(w)
               d == SumOver(Tail(w))
               e == SumOver(LastOf(ys, n))
               f == s.sum
               g == r.sum
               h == b[p]
    <3>6. e = d + v /\ d = a - h /\ f = g + (v - h) /\ g = a /\ g \in Int /\ h \in Int
      BY <1>2, <1>6, <2>2, <3>4, <3>5, <3>g, <3>h
    <3> HIDE DEF a, d, e, f, g, h
    <3>7. f = e
      BY <3>6
    <3> QED
      BY <3>7 DEF e, f
  <2> QED
    BY <2>1, <2>2
<1>13. IsWindow(s, n, ys)
  <2>1. ys \in Seq(Int) /\ L \in Nat /\ q = s.pos
    BY <1>1, <1>4 DEF q
  <2> QED
    BY <1>4, <1>7, <1>8, <1>r, <1>10, <1>11, <1>12, <2>1 DEF IsWindow
<1> QED
  BY <1>13 DEF s, ys

-----------------------------------------------------------------------------
(* What is read from a ring.                                               *)

LEMMA WindowSize ==
    ASSUME NEW n \in Nat \ {0}, NEW xs \in Seq(Int), NEW r, IsWindow(r, n, xs)
    PROVE  /\ LastOf(xs, n) \in Seq(Int) /\ Len(LastOf(xs, n)) = r.size /\ r.size \in Nat
           /\ (r.size = 0 <=> xs = <<>>) /\ r.sum = SumOver(LastOf(xs, n)) /\ r.sum \in Int
           /\ (LastOf(xs, n) = <<>> <=> xs = <<>>)
           /\ \A i \in 1 .. r.size : LastOf(xs, n)[i] = xs[Len(xs) - r.size + i]
<1> DEFINE w == LastOf(xs, n)
           L == Len(xs)
<1>1. L \in Nat /\ r.size \in 0 .. n /\ r.size = (IF L < n THEN L ELSE n) /\ r.sum \in Int
  BY WindowParts
<1>2. w \in Seq(Int) /\ IsLast(w, xs, n)
  BY LastFacts
<1>3. r.sum = SumOver(w)
  BY DEF IsWindow
<1>4. Len(w) = (IF L < n THEN L ELSE n)
  BY <1>2 DEF IsLast
<1>7. \A i \in 1 .. Len(w) : w[i] = xs[L - Len(w) + i]
  <2> HIDE DEF w
  <2> QED
    BY <1>2 DEF IsLast
<1>5. (L = 0 <=> xs = <<>>) /\ (Len(w) = 0 <=> w = <<>>)
  BY <1>2
<1> HIDE DEF w, L
<1>6. Len(w) = r.size /\ r.size \in Nat /\ (r.size = 0 <=> L = 0)
  BY <1>1, <1>4
<1> QED
  BY <1>1, <1>2, <1>3, <1>5, <1>6, <1>7 DEF w, L

(* The mean of a ring is the average of the last numbers.                  *)
LEMMA MeanIsAverage ==
    ASSUME NEW n \in Nat \ {0}, NEW xs \in Seq(Int), NEW r, IsWindow(r, n, xs)
    PROVE  mean(r) = Average(LastOf(xs, n))
  BY WindowSize DEF mean, Average

(* Where the i-th of the last numbers is kept.                             *)
LEMMA RotatedIndex ==
    ASSUME NEW n \in Nat \ {0}, NEW p \in 0 .. n - 1, NEW i \in 1 .. n
    PROVE  (p + i - 1) % n = IF p + i - 1 < n THEN p + i - 1 ELSE p + i - 1 - n
<1>1. CASE p + i - 1 < n
  <2>1. p + i - 1 = 0 * n + (p + i - 1) /\ p + i - 1 \in 0 .. n - 1 /\ p + i - 1 \in Nat
    BY <1>1
  <2> QED
    BY <1>1, <2>1, QuotientUnique
<1>2. CASE ~(p + i - 1 < n)
  <2>1. p + i - 1 = 1 * n + (p + i - 1 - n) /\ p + i - 1 - n \in 0 .. n - 1 /\ p + i - 1 \in Nat
    BY <1>2
  <2> QED
    BY <1>2, <2>1, QuotientUnique
<1> QED
  BY <1>1, <1>2

(* A ring holds the last numbers, the oldest first.                        *)
LEMMA ValuesAreLast ==
    ASSUME NEW n \in Nat \ {0}, NEW xs \in Seq(Int), NEW r, IsWindow(r, n, xs)
    PROVE  values(r) = LastOf(xs, n)
<1> DEFINE L == Len(xs)
           w == LastOf(xs, n)
           z == r.size
           p == r.pos
           start == IF full(r) THEN p ELSE 0
           b == r.buf
<1>1. /\ L \in Nat /\ r.cap = n /\ b \in [0 .. n - 1 -> Int] /\ z \in 0 .. n /\ p \in 0 .. n - 1
      /\ z = (IF L < n THEN L ELSE n) /\ (full(r) <=> L >= n)
  BY WindowParts
<1>2. /\ IF L < n THEN p = L ELSE p <= L
      /\ \A i \in 0 .. n - 1 : i < p => b[i] = xs[L - p + i + 1]
      /\ L >= n => \A i \in 0 .. n - 1 : i >= p => b[i] = xs[L - p - n + i + 1]
  BY DEF IsWindow
<1>3. w \in Seq(Int) /\ Len(w) = z
  BY WindowSize
<1>4. \A i \in 1 .. z : w[i] = xs[L - z + i]
  BY WindowSize
<1>5. values(r) = [i \in 1 .. z |-> b[(start + i - 1) % n]]
  BY <1>1 DEF values
<1> HIDE DEF L, w, z, p, b
<1>6. ASSUME NEW i \in 1 .. z PROVE b[(start + i - 1) % n] = w[i]
  <2>0. i \in 1 .. n /\ z \in Int /\ p \in Int
    BY <1>1
  <2>1. CASE L < n
    <3>1. start = 0 /\ p = L /\ z = L /\ start \in 0 .. n - 1
      BY <1>1, <1>2, <2>1
    <3> HIDE DEF start
    <3>2. (start + i - 1) % n = i - 1
      <4>1. (start + i - 1) % n = IF start + i - 1 < n THEN start + i - 1 ELSE start + i - 1 - n
        BY <2>0, <3>1, RotatedIndex
      <4> QED
        BY <2>0, <3>1, <4>1
    <3>3. i - 1 \in 0 .. n - 1 /\ i - 1 < p /\ L - p + (i - 1) + 1 = L - z + i
      BY <1>1, <2>0, <3>1
    <3>4. b[i - 1] = xs[L - p + (i - 1) + 1]
      BY <1>2, <3>3
    <3> QED
      BY <1>4, <3>2, <3>3, <3>4
  <2>2. CASE ~(L < n)
    <3>1. start = p /\ z = n /\ L >= n
      BY <1>1, <2>2
    <3>2. (p + i - 1) % n = IF p + i - 1 < n THEN p + i - 1 ELSE p + i - 1 - n
      BY <1>1, <2>0, RotatedIndex
    <3>3. CASE p + i - 1 < n
      <4>1. p + i - 1 \in 0 .. n - 1 /\ p + i - 1 >= p /\ L - p - n + (p + i - 1) + 1 = L - z + i
        BY <1>1, <2>0, <3>1, <3>3
      <4>2. b[p + i - 1] = xs[L - p - n + (p + i - 1) + 1]
        BY <1>2, <3>1, <4>1
      <4> QED
        BY <1>4, <3>1, <3>2, <3>3, <4>1, <4>2
    <3>4. CASE ~(p + i - 1 < n)
      <4>1. p + i - 1 - n \in 0 .. n - 1 /\ p + i - 1 - n < p /\ L - p + (p + i - 1 - n) + 1 = L - z + i
        BY <1>1, <2>0, <3>1, <3>4
      <4>2. b[p + i - 1 - n] = xs[L - p + (p + i - 1 - n) + 1]
        BY <1>2, <4>1
      <4> QED
        BY <1>4, <3>1, <3>2, <3>4, <4>1, <4>2
    <3> QED
      BY <3>3, <3>4
  <2> QED
    BY <2>1, <2>2
<1> HIDE DEF start
<1>7. values(r) = [i \in 1 .. z |-> w[i]]
  BY <1>5, <1>6
<1>8. w = [i \in 1 .. z |-> w[i]]
  BY <1>1, <1>3
<1> QED
  BY <1>7, <1>8 DEF w

(* The elements of the window are what the first size places hold.         *)
LEMMA ContentsAreLast ==
    ASSUME NEW n \in Nat \ {0}, NEW xs \in Seq(Int), NEW r, IsWindow(r, n, xs)
    PROVE  contents(r) = Elements(LastOf(xs, n))
<1> DEFINE L == Len(xs)
           w == LastOf(xs, n)
           z == r.size
           p == r.pos
           b == r.buf
<1>1. /\ L \in Nat /\ r.cap = n /\ b \in [0 .. n - 1 -> Int] /\ z \in 0 .. n /\ p \in 0 .. n - 1
      /\ z = (IF L < n THEN L ELSE n) /\ (full(r) <=> L >= n)
  BY WindowParts
<1>2. /\ IF L < n THEN p = L ELSE p <= L
      /\ \A i \in 0 .. n - 1 : i < p => b[i] = xs[L - p + i + 1]
      /\ L >= n => \A i \in 0 .. n - 1 : i >= p => b[i] = xs[L - p - n + i + 1]
  BY DEF IsWindow
<1>3. w \in Seq(Int) /\ Len(w) = z /\ DOMAIN w = 1 .. z
  BY WindowSize
<1>4. \A i \in 1 .. z : w[i] = xs[L - z + i]
  BY WindowSize
<1> HIDE DEF L, w, z, p, b
<1>5. ASSUME NEW j \in 0 .. z - 1 PROVE \E i \in 1 .. z : w[i] = b[j]
  <2>0. j \in 0 .. n - 1
    BY <1>1
  <2>1. CASE j < p
    <3> DEFINE i == z - p + j + 1
    <3>1. i \in 1 .. z /\ L - z + i = L - p + j + 1
      <4>1. CASE L < n
        BY <1>1, <1>2, <2>1, <4>1
      <4>2. CASE ~(L < n)
        BY <1>1, <1>2, <2>1, <4>2
      <4> QED
        BY <4>1, <4>2
    <3>2. b[j] = xs[L - p + j + 1]
      BY <1>2, <2>0, <2>1
    <3> HIDE DEF i
    <3>3. w[i] = b[j]
      BY <1>4, <3>1, <3>2
    <3> QED
      BY <3>1, <3>3
  <2>2. CASE ~(j < p)
    <3>1. L >= n /\ z = n /\ j >= p
      BY <1>1, <1>2, <2>2
    <3> DEFINE i == j - p + 1
    <3>2. i \in 1 .. z /\ L - z + i = L - p - n + j + 1
      BY <1>1, <2>0, <3>1
    <3>3. b[j] = xs[L - p - n + j + 1]
      BY <1>2, <2>0, <3>1
    <3> HIDE DEF i
    <3>4. w[i] = b[j]
      BY <1>4, <3>2, <3>3
    <3> QED
      BY <3>2, <3>4
  <2> QED
    BY <2>1, <2>2
<1>6. ASSUME NEW i \in 1 .. z PROVE \E j \in 0 .. z - 1 : b[j] = w[i]
  <2>1. CASE L < n
    <3>1. z = L /\ p = L
      BY <1>1, <1>2, <2>1
    <3>2. i - 1 \in 0 .. z - 1 /\ i - 1 \in 0 .. n - 1 /\ i - 1 < p /\ L - p + (i - 1) + 1 = L - z + i
      BY <1>1, <3>1
    <3>3. b[i - 1] = xs[L - p + (i - 1) + 1]
      BY <1>2, <3>2
    <3> QED
      BY <1>4, <3>2, <3>3
  <2>2. CASE ~(L < n)
    <3>1. z = n /\ L >= n
      BY <1>1, <2>2
    <3>2. CASE i - 1 + p < n
      <4> DEFINE j == i - 1 + p
      <4>1. j \in 0 .. n - 1 /\ j \in 0 .. z - 1 /\ j >= p /\ L - p - n + j + 1 = L - z + i
        BY <1>1, <3>1, <3>2
      <4> HIDE DEF j
      <4>2. b[j] = xs[L - p - n + j + 1]
        BY <1>2, <3>1, <4>1
      <4> QED
        BY <1>4, <4>1, <4>2
    <3>3. CASE ~(i - 1 + p < n)
      <4> DEFINE j == i - 1 + p - n
      <4>1. j \in 0 .. n - 1 /\ j \in 0 .. z - 1 /\ j < p /\ L - p + j + 1 = L - z + i
        BY <1>1, <3>1, <3>3
      <4> HIDE DEF j
      <4>2. b[j] = xs[L - p + j + 1]
        BY <1>2, <4>1
      <4> QED
        BY <1>4, <4>1, <4>2
    <3> QED
      BY <3>2, <3>3
  <2> QED
    BY <2>1, <2>2
<1>7. contents(r) = {b[j] : j \in 0 .. z - 1} /\ Elements(w) = {w[i] : i \in 1 .. z}
  BY <1>3 DEF contents, Elements, b, z
<1>8. contents(r) = Elements(w)
  <2>1. ASSUME NEW x \in {b[j] : j \in 0 .. z - 1} PROVE x \in {w[i] : i \in 1 .. z}
    <3>1. PICK j \in 0 .. z - 1 : x = b[j]
      OBVIOUS
    <3>2. PICK i \in 1 .. z : w[i] = b[j]
      BY <1>5
    <3> QED
      BY <3>1, <3>2
  <2>2. ASSUME NEW x \in {w[i] : i \in 1 .. z} PROVE x \in {b[j] : j \in 0 .. z - 1}
    <3>1. PICK i \in 1 .. z : x = w[i]
      OBVIOUS
    <3>2. PICK j \in 0 .. z - 1 : b[j] = w[i]
      BY <1>6
    <3> QED
      BY <3>1, <3>2
  <2> QED
    BY <1>7, <2>1, <2>2
<1> QED
  BY <1>8 DEF w

(* The greatest and the least number of a ring are those of the last       *)
(* numbers; a ring that was given none answers 0.                          *)
LEMMA ExtremesOfLast ==
    ASSUME NEW n \in Nat \ {0}, NEW xs \in Seq(Int), NEW r, IsWindow(r, n, xs)
    PROVE  /\ ringMax(r) = IF xs = <<>> THEN 0 ELSE Highest(LastOf(xs, n))
           /\ ringMin(r) = IF xs = <<>> THEN 0 ELSE Lowest(LastOf(xs, n))
<1>1. contents(r) = Elements(LastOf(xs, n)) /\ (r.size = 0 <=> xs = <<>>)
  BY ContentsAreLast, WindowSize
<1> QED
  BY <1>1 DEF ringMax, ringMin, Highest, Lowest

(* A full ring is about to drop the number it was given n pushes ago.      *)
LEMMA OldestIsFirst ==
    ASSUME NEW n \in Nat \ {0}, NEW xs \in Seq(Int), NEW r, IsWindow(r, n, xs)
    PROVE  /\ (full(r) <=> Len(xs) >= n)
           /\ Len(xs) >= n => oldest(r) = xs[Len(xs) - n + 1]
<1> DEFINE L == Len(xs)
           p == r.pos
           b == r.buf
<1>1. L \in Nat /\ p \in 0 .. n - 1 /\ (full(r) <=> L >= n)
  BY WindowParts
<1>2. L >= n => \A i \in 0 .. n - 1 : i >= p => b[i] = xs[L - p - n + i + 1]
  BY DEF IsWindow
<1> SUFFICES ASSUME L >= n PROVE oldest(r) = xs[L - n + 1]
  BY <1>1
<1>3. oldest(r) = b[p]
  BY <1>1 DEF oldest
<1> HIDE DEF L, p, b
<1>4. L - p - n + p + 1 = L - n + 1 /\ p >= p
  BY <1>1
<1>5. b[p] = xs[L - p - n + p + 1]
  BY <1>1, <1>2, <1>4
<1> QED
  BY <1>3, <1>4, <1>5 DEF L

-----------------------------------------------------------------------------
(* What is tabulated of a history grows with it by one number.             *)

LEMMA TableExtended ==
    ASSUME NEW n \in Nat, NEW f \in [1 .. n -> Int], NEW g \in [1 .. n + 1 -> Int],
           \A i \in 1 .. n : g[i] = f[i]
    PROVE  /\ f \in Seq(Int) /\ Len(f) = n /\ g \in Seq(Int) /\ Len(g) = n + 1
           /\ g[n + 1] \in Int /\ g = Append(f, g[n + 1])
<1>1. f \in Seq(Int) /\ Len(f) = n /\ g \in Seq(Int) /\ Len(g) = n + 1
  BY Tabulated
<1>2. n + 1 \in 1 .. n + 1 /\ g[n + 1] \in Int
  OBVIOUS
<1> DEFINE v == g[n + 1]
           a == Append(f, v)
<1> HIDE DEF v
<1>v. v = g[n + 1] /\ v \in Int
  BY <1>2 DEF v
<1>3. a \in Seq(Int) /\ Len(a) = n + 1 /\ a[n + 1] = v /\ \A i \in 1 .. n : a[i] = f[i]
  BY <1>1, <1>v, Extended
<1> HIDE DEF a
<1>4. ASSUME NEW i \in 1 .. n + 1 PROVE g[i] = a[i]
  <2>1. CASE i = n + 1
    BY <1>3, <1>v, <2>1
  <2>2. CASE i # n + 1
    <3>1. i \in 1 .. n
      BY <2>2
    <3> QED
      BY <1>3, <3>1
  <2> QED
    BY <2>1, <2>2
<1>5. g = a
  BY <1>1, <1>3, <1>4, SeqEqual
<1> QED
  BY <1>1, <1>2, <1>5 DEF a, v

LEMMA HistoryExtended ==
    ASSUME NEW h \in Seq(CandleType), NEW c \in CandleType
    PROVE  /\ Len(h) \in Nat /\ Append(h, c) \in Seq(CandleType) /\ Len(Append(h, c)) = Len(h) + 1
           /\ Append(h, c)[Len(h) + 1] = c /\ \A i \in 1 .. Len(h) : Append(h, c)[i] = h[i] /\ h[i] \in CandleType
           /\ Append(h, c) # <<>>
  OBVIOUS

LEMMA CandleFields ==
    ASSUME NEW c \in CandleType
    PROVE  /\ c.open \in Int /\ c.high \in Int /\ c.low \in Int /\ c.close \in Int /\ c.volume \in Int
           /\ c.day \in Int /\ Typical(c) \in Int /\ ScaledVolume(c) \in Int
<1>1. /\ c.open \in Int /\ c.high \in Int /\ c.low \in Int /\ c.close \in Int /\ c.volume \in Int
      /\ c.day \in Int
  BY DEF CandleType
<1>2. Typical(c) \in Int
  BY <1>1 DEF Typical
<1>3. ScaledVolume(c) \in Int
  BY <1>1, UnitAssumption DEF ScaledVolume
<1> QED
  BY <1>1, <1>2, <1>3

Prices == {"open", "high", "low", "close", "volume"}

LEMMA ColumnTyped ==
    ASSUME NEW h \in Seq(CandleType), NEW field \in Prices
    PROVE  Column(h, field) \in [1 .. Len(h) -> Int]
<1>1. \A i \in 1 .. Len(h) : h[i] \in CandleType
  OBVIOUS
<1>2. \A c \in CandleType : c[field] \in Int
  BY DEF CandleType, Prices
<1> QED
  BY <1>1, <1>2 DEF Column

LEMMA ColumnExtended ==
    ASSUME NEW h \in Seq(CandleType), NEW c \in CandleType, NEW field \in Prices
    PROVE  /\ Column(h, field) \in Seq(Int) /\ Len(Column(h, field)) = Len(h) /\ c[field] \in Int
           /\ Column(Append(h, c), field) = Append(Column(h, field), c[field])
<1> DEFINE n == Len(h)
           k == Append(h, c)
           f == Column(h, field)
           g == Column(k, field)
<1>1. n \in Nat /\ k \in Seq(CandleType) /\ Len(k) = n + 1 /\ k[n + 1] = c /\ \A i \in 1 .. n : k[i] = h[i]
  BY HistoryExtended
<1> HIDE DEF k
<1>2. f \in [1 .. n -> Int] /\ g \in [1 .. n + 1 -> Int]
  BY <1>1, ColumnTyped
<1>3. g[n + 1] = c[field] /\ \A i \in 1 .. n : g[i] = f[i]
  BY <1>1, SMTT(30) DEF Column
<1> HIDE DEF f, g, n
<1>4. f \in Seq(Int) /\ Len(f) = n /\ g[n + 1] \in Int /\ g = Append(f, g[n + 1])
  BY <1>1, <1>2, <1>3, TableExtended
<1> QED
  BY <1>3, <1>4 DEF f, g, k, n

LEMMA TypicalsExtended ==
    ASSUME NEW h \in Seq(CandleType), NEW c \in CandleType
    PROVE  /\ Typicals(h) \in Seq(Int) /\ Len(Typicals(h)) = Len(h) /\ Typical(c) \in Int
           /\ Typicals(Append(h, c)) = Append(Typicals(h), Typical(c))
<1> DEFINE n == Len(h)
           k == Append(h, c)
           f == Typicals(h)
           g == Typicals(k)
<1>1. /\ n \in Nat /\ k \in Seq(CandleType) /\ Len(k) = n + 1 /\ k[n + 1] = c
      /\ \A i \in 1 .. n : k[i] = h[i] /\ h[i] \in CandleType
  BY HistoryExtended
<1>2. \A x \in CandleType : Typical(x) \in Int
  BY CandleFields
<1> HIDE DEF k
<1>3. f \in [1 .. n -> Int] /\ g \in [1 .. n + 1 -> Int] /\ g[n + 1] = Typical(c) /\ \A i \in 1 .. n : g[i] = f[i]
  BY <1>1, <1>2 DEF Typicals
<1> HIDE DEF f, g, n
<1>4. f \in Seq(Int) /\ Len(f) = n /\ g[n + 1] \in Int /\ g = Append(f, g[n + 1])
  BY <1>1, <1>3, TableExtended
<1> QED
  BY <1>2, <1>3, <1>4 DEF f, g, k, n

LEMMA ScaledExtended ==
    ASSUME NEW h \in Seq(CandleType), NEW c \in CandleType
    PROVE  /\ ScaledVolumes(h) \in Seq(Int) /\ Len(ScaledVolumes(h)) = Len(h) /\ ScaledVolume(c) \in Int
           /\ ScaledVolumes(Append(h, c)) = Append(ScaledVolumes(h), ScaledVolume(c))
<1> DEFINE n == Len(h)
           k == Append(h, c)
           f == ScaledVolumes(h)
           g == ScaledVolumes(k)
<1>1. /\ n \in Nat /\ k \in Seq(CandleType) /\ Len(k) = n + 1 /\ k[n + 1] = c
      /\ \A i \in 1 .. n : k[i] = h[i] /\ h[i] \in CandleType
  BY HistoryExtended
<1>2. \A x \in CandleType : ScaledVolume(x) \in Int
  BY CandleFields
<1> HIDE DEF k
<1>3. /\ f \in [1 .. n -> Int] /\ g \in [1 .. n + 1 -> Int] /\ g[n + 1] = ScaledVolume(c)
      /\ \A i \in 1 .. n : g[i] = f[i]
  <2>1. f = [i \in 1 .. n |-> ScaledVolume(h[i])] /\ g = [i \in 1 .. n + 1 |-> ScaledVolume(k[i])]
    BY <1>1 DEF ScaledVolumes
  <2> HIDE DEF f, g, n
  <2>2. f \in [1 .. n -> Int]
    BY <1>1, <1>2, <2>1
  <2>3. \A i \in 1 .. n + 1 : k[i] \in CandleType
    BY <1>1
  <2>4. g \in [1 .. n + 1 -> Int]
    BY <1>2, <2>1, <2>3
  <2>5. n + 1 \in 1 .. n + 1 /\ \A i \in 1 .. n : i \in 1 .. n + 1
    BY <1>1
  <2> QED
    BY <1>1, <2>1, <2>2, <2>4, <2>5
<1> HIDE DEF f, g, n
<1>4. f \in Seq(Int) /\ Len(f) = n /\ g[n + 1] \in Int /\ g = Append(f, g[n + 1])
  BY <1>1, <1>3, TableExtended
<1> QED
  BY <1>2, <1>3, <1>4 DEF f, g, k, n

(* The signed volumes begin with the second candle.                        *)
LEMMA MovesExtended ==
    ASSUME NEW h \in Seq(CandleType), NEW c \in CandleType
    PROVE  /\ Moves(h) \in Seq(Int)
           /\ Moves(Append(h, c)) =
                IF h = <<>> THEN <<>>
                ELSE Append(Moves(h), IF c.close > h[Len(h)].close THEN c.volume
                                      ELSE IF c.close < h[Len(h)].close THEN -c.volume ELSE 0)
<1> DEFINE n == Len(h)
           k == Append(h, c)
           f == Moves(h)
           g == Moves(k)
           v == IF c.close > h[n].close THEN c.volume ELSE IF c.close < h[n].close THEN -c.volume ELSE 0
<1>1. /\ n \in Nat /\ k \in Seq(CandleType) /\ Len(k) = n + 1 /\ k[n + 1] = c
      /\ \A i \in 1 .. n : k[i] = h[i] /\ h[i] \in CandleType
  BY HistoryExtended
<1>2. \A x \in CandleType : x.volume \in Int /\ x.close \in Int
  BY CandleFields
<1>e. h = <<>> <=> n = 0
  OBVIOUS
<1> HIDE DEF k
<1>3. \A i \in 1 .. n - 1 : i + 1 \in 1 .. n /\ i \in 1 .. n
  BY <1>1
<1>4. f \in [1 .. n - 1 -> Int]
  <2>1. \A i \in 1 .. n - 1 : h[i + 1].volume \in Int
    BY <1>1, <1>2, <1>3
  <2> QED
    BY <2>1 DEF Moves
<1>5. CASE n = 0
  <2>1. f = <<>> /\ g = <<>>
    BY <1>1, <1>5 DEF Moves
  <2> QED
    BY <1>e, <1>5, <2>1 DEF k
<1>6. CASE n # 0
  <2>1. n - 1 \in Nat /\ n \in 1 .. n /\ (n - 1) + 1 = n
    BY <1>1, <1>6
  <2>2. g = [i \in 1 .. n |-> IF k[i + 1].close > k[i].close THEN k[i + 1].volume
                              ELSE IF k[i + 1].close < k[i].close THEN -k[i + 1].volume ELSE 0]
    BY <1>1 DEF Moves
  <2>3. v \in Int /\ k[n] = h[n]
    BY <1>1, <1>2, <2>1
  <2>4. g[n] = v
    BY <1>1, <2>1, <2>2, <2>3
  <2>5. \A i \in 1 .. n - 1 : g[i] = f[i]
    BY <1>1, <1>3, <2>2 DEF Moves
  <2>6. g \in [1 .. n -> Int]
    <3>1. \A i \in 1 .. n : i # n => i \in 1 .. n - 1
      BY <1>1
    <3>2. DOMAIN g = 1 .. n /\ g = [i \in 1 .. n |-> g[i]]
      BY <2>2
    <3> HIDE DEF f, g, v
    <3>3. \A i \in 1 .. n : g[i] \in Int
      BY <1>4, <2>3, <2>4, <2>5, <3>1
    <3> QED
      BY <3>2, <3>3
  <2> HIDE DEF f, g, n, v
  <2> DEFINE m == n - 1
  <2>7. f \in [1 .. m -> Int] /\ g \in [1 .. m + 1 -> Int] /\ m \in Nat /\ \A i \in 1 .. m : g[i] = f[i]
    BY <1>4, <2>1, <2>5, <2>6
  <2>8. f \in Seq(Int) /\ g = Append(f, g[m + 1])
    <3> HIDE DEF m
    <3> QED
      BY <2>7, TableExtended
  <2>9. f \in Seq(Int) /\ g = Append(f, v)
    BY <2>1, <2>4, <2>8
  <2> QED
    BY <1>e, <1>6, <2>9 DEF f, g, k, n, v
<1> QED
  BY <1>5, <1>6

(* All but the last candle of a history that was extended.                 *)
LEMMA PastOf ==
    ASSUME NEW h \in Seq(CandleType), NEW c \in CandleType
    PROVE  SubSeq(Append(h, c), 1, Len(Append(h, c)) - 1) = h
<1> DEFINE n == Len(h)
           k == Append(h, c)
<1>1. n \in Nat /\ k \in Seq(CandleType) /\ Len(k) = n + 1 /\ \A i \in 1 .. n : k[i] = h[i]
  BY HistoryExtended
<1> HIDE DEF k
<1> DEFINE p == SubSeq(k, 1, n)
<1>2. p \in Seq(CandleType) /\ Len(p) = n /\ \A i \in 1 .. n : p[i] = k[i]
  BY <1>1
<1> HIDE DEF p
<1>3. p = h
  BY <1>1, <1>2, SeqEqual
<1>4. Len(k) - 1 = n
  BY <1>1
<1> QED
  BY <1>3, <1>4 DEF p, k

-----------------------------------------------------------------------------
(* The indicators over one window.                                         *)

(* The state of an indicator that keeps the last n of the numbers xs.      *)
Keeps(s, n, xs) == DOMAIN s = {"r", "prev"} /\ IsWindow(s.r, n, xs)

LEMMA PlainFacts ==
    ASSUME NEW s, NEW v
    PROVE  Plain(s, v).state = [s EXCEPT !.prev = v] /\ Plain(s, v).signal.value = v
  BY DEF Plain, Out, Signal

LEMMA OutFacts ==
    ASSUME NEW s, NEW v, NEW p, NEW flags
    PROVE  Out(s, Signal(v, p, flags)).state = s /\ Out(s, Signal(v, p, flags)).signal.value = v
  BY DEF Out, Signal

LEMMA Kept ==
    ASSUME NEW n \in Nat \ {0}, NEW xs \in Seq(Int), NEW s, Keeps(s, n, xs), NEW x \in Int, NEW v
    PROVE  LET out == Plain([s EXCEPT !.r = push(s.r, x)], v)
           IN  Keeps(out.state, n, Append(xs, x)) /\ out.signal.value = v
<1> DEFINE r == push(s.r, x)
           out == Plain([s EXCEPT !.r = r], v)
<1>1. IsWindow(r, n, Append(xs, x))
  BY PushedWindow DEF Keeps
<1>2. out.state = [[s EXCEPT !.r = r] EXCEPT !.prev = v] /\ out.signal.value = v
  BY PlainFacts
<1> HIDE DEF r, out
<1>3. DOMAIN out.state = {"r", "prev"} /\ out.state.r = r
  BY <1>2 DEF Keeps
<1>4. Keeps(out.state, n, Append(xs, x)) /\ out.signal.value = v
  BY <1>1, <1>2, <1>3 DEF Keeps
<1> QED
  BY <1>4 DEF out, r

LEMMA SMAReads ==
    ASSUME NEW n \in Nat \ {0}, NEW xs \in Seq(Int), NEW s, Keeps(s, n, xs), NEW c \in CandleType
    PROVE  /\ Keeps(SMA(s, c).state, n, Append(xs, c.close))
           /\ SMA(s, c).signal.value = Average(LastOf(Append(xs, c.close), n))
<1> DEFINE r == push(s.r, c.close)
<1>1. c.close \in Int
  BY CandleFields
<1>2. SMA(s, c) = Plain([s EXCEPT !.r = r], mean(r))
  BY DEF SMA
<1>3. Keeps(SMA(s, c).state, n, Append(xs, c.close)) /\ SMA(s, c).signal.value = mean(r)
  BY <1>1, <1>2, Kept
<1>4. IsWindow(r, n, Append(xs, c.close)) /\ Append(xs, c.close) \in Seq(Int)
  BY <1>1, PushedWindow DEF Keeps
<1> HIDE DEF r
<1>5. mean(r) = Average(LastOf(Append(xs, c.close), n))
  BY <1>4, MeanIsAverage
<1> QED
  BY <1>3, <1>5

LEMMA HighestReads ==
    ASSUME NEW n \in Nat \ {0}, NEW xs \in Seq(Int), NEW s, Keeps(s, n, xs), NEW c \in CandleType
    PROVE  /\ Keeps(HighestHigh(s, c).state, n, Append(xs, c.high))
           /\ HighestHigh(s, c).signal.value = Highest(LastOf(Append(xs, c.high), n))
<1> DEFINE r == push(s.r, c.high)
<1>1. c.high \in Int
  BY CandleFields
<1>2. HighestHigh(s, c) = Plain([s EXCEPT !.r = r], ringMax(r))
  BY DEF HighestHigh
<1>3. Keeps(HighestHigh(s, c).state, n, Append(xs, c.high)) /\ HighestHigh(s, c).signal.value = ringMax(r)
  BY <1>1, <1>2, Kept
<1>4. IsWindow(r, n, Append(xs, c.high)) /\ Append(xs, c.high) \in Seq(Int) /\ Append(xs, c.high) # <<>>
  BY <1>1, PushedWindow DEF Keeps
<1> HIDE DEF r
<1>5. ringMax(r) = Highest(LastOf(Append(xs, c.high), n))
  BY <1>4, ExtremesOfLast
<1> QED
  BY <1>3, <1>5

LEMMA LowestReads ==
    ASSUME NEW n \in Nat \ {0}, NEW xs \in Seq(Int), NEW s, Keeps(s, n, xs), NEW c \in CandleType
    PROVE  /\ Keeps(LowestLow(s, c).state, n, Append(xs, c.low))
           /\ LowestLow(s, c).signal.value = Lowest(LastOf(Append(xs, c.low), n))
<1> DEFINE r == push(s.r, c.low)
<1>1. c.low \in Int
  BY CandleFields
<1>2. LowestLow(s, c) = Plain([s EXCEPT !.r = r], ringMin(r))
  BY DEF LowestLow
<1>3. Keeps(LowestLow(s, c).state, n, Append(xs, c.low)) /\ LowestLow(s, c).signal.value = ringMin(r)
  BY <1>1, <1>2, Kept
<1>4. IsWindow(r, n, Append(xs, c.low)) /\ Append(xs, c.low) \in Seq(Int) /\ Append(xs, c.low) # <<>>
  BY <1>1, PushedWindow DEF Keeps
<1> HIDE DEF r
<1>5. ringMin(r) = Lowest(LastOf(Append(xs, c.low), n))
  BY <1>4, ExtremesOfLast
<1> QED
  BY <1>3, <1>5

(* Before the candle is pushed a full ring's oldest value is n candles old.*)
ChangeSince(xs, n, x) ==
    IF Len(xs) < n THEN 0 ELSE IF xs[Len(xs) - n + 1] = 0 THEN 0 ELSE ChangeOf(xs[Len(xs) - n + 1], x)

LEMMA ROCReads ==
    ASSUME NEW n \in Nat \ {0}, NEW xs \in Seq(Int), NEW s, Keeps(s, n, xs), NEW c \in CandleType
    PROVE  /\ Keeps(ROC(s, c).state, n, Append(xs, c.close))
           /\ ROC(s, c).signal.value = ChangeSince(xs, n, c.close)
<1> DEFINE r == push(s.r, c.close)
           v == IF full(s.r) /\ oldest(s.r) # 0 THEN ChangeOf(oldest(s.r), c.close) ELSE 0
<1>1. c.close \in Int
  BY CandleFields
<1>2. ROC(s, c) = Plain([s EXCEPT !.r = r], v)
  BY DEF ROC, ChangeOf
<1>3. Keeps(ROC(s, c).state, n, Append(xs, c.close)) /\ ROC(s, c).signal.value = v
  BY <1>1, <1>2, Kept
<1>4. (full(s.r) <=> Len(xs) >= n) /\ (Len(xs) >= n => oldest(s.r) = xs[Len(xs) - n + 1])
  BY OldestIsFirst DEF Keeps
<1>5. Len(xs) >= n <=> ~(Len(xs) < n)
  OBVIOUS
<1> HIDE DEF r
<1> QED
  BY <1>3, <1>4, <1>5 DEF ChangeSince

LEMMA VolumeReads ==
    ASSUME NEW n \in Nat \ {0}, NEW xs \in Seq(Int), NEW s, Keeps(s, n, xs), NEW c \in CandleType
    PROVE  /\ Keeps(Volume(s, c).state, n, Append(xs, ScaledVolume(c)))
           /\ Volume(s, c).signal.value =
                IF Average(LastOf(xs, n)) > 0
                THEN (ScaledVolume(c) * 100 * Unit) \div Average(LastOf(xs, n)) ELSE 0
<1> DEFINE x == ScaledVolume(c)
           v == IF mean(s.r) > 0 THEN (x * 100 * Unit) \div mean(s.r) ELSE 0
<1>1. x \in Int
  BY CandleFields
<1>2. Volume(s, c) = Plain([s EXCEPT !.r = push(s.r, x)], v)
  BY DEF Volume, ScaledVolume
<1>3. Keeps(Volume(s, c).state, n, Append(xs, x)) /\ Volume(s, c).signal.value = v
  <2> HIDE DEF x, v
  <2> QED
    BY <1>1, <1>2, Kept
<1>4. mean(s.r) = Average(LastOf(xs, n))
  BY MeanIsAverage DEF Keeps
<1> QED
  BY <1>3, <1>4

(* The mean deviation is taken over the ring's own values.                 *)
LEMMA CCIReads ==
    ASSUME NEW n \in Nat \ {0}, NEW xs \in Seq(Int), NEW s, Keeps(s, n, xs), NEW c \in CandleType
    PROVE  LET w == LastOf(Append(xs, Typical(c)), n)
           IN  /\ Keeps(CCI(s, c).state, n, Append(xs, Typical(c)))
               /\ CCI(s, c).signal.value = ChannelIndexOf(w, Deviation(w))
<1> DEFINE x == Typical(c)
           ys == Append(xs, x)
           w == LastOf(ys, n)
           r == push(s.r, x)
           dev == SumOver([i \in 1 .. r.size |-> Abs(values(r)[i] - mean(r))]) \div r.size
           v == IF dev = 0 THEN 0 ELSE ((x - mean(r)) * 1000 * Unit) \div (15 * dev)
<1>1. x \in Int
  BY CandleFields
<1>2. CCI(s, c) = Plain([s EXCEPT !.r = r], v)
  BY DEF CCI
<1>3. Keeps(CCI(s, c).state, n, ys) /\ CCI(s, c).signal.value = v
  <2> HIDE DEF x, v
  <2> QED
    BY <1>1, <1>2, Kept
<1>4. IsWindow(r, n, ys) /\ ys \in Seq(Int) /\ ys # <<>> /\ Len(ys) = Len(xs) + 1 /\ ys[Len(xs) + 1] = x
  BY <1>1, PushedWindow DEF Keeps
<1> HIDE DEF r, ys, x
<1>5. mean(r) = Average(w) /\ values(r) = w
  BY <1>4, MeanIsAverage, ValuesAreLast
<1>6. /\ w \in Seq(Int) /\ Len(w) = r.size /\ r.size \in Nat /\ r.size # 0
      /\ \A i \in 1 .. r.size : w[i] = ys[Len(ys) - r.size + i]
  <2>1. /\ LastOf(ys, n) \in Seq(Int) /\ Len(LastOf(ys, n)) = r.size /\ r.size \in Nat
        /\ (r.size = 0 <=> ys = <<>>)
    BY <1>4, WindowSize
  <2>2. \A i \in 1 .. r.size : LastOf(ys, n)[i] = ys[Len(ys) - r.size + i]
    BY <1>4, WindowSize, ZenonT(30)
  <2> QED
    BY <1>4, <2>1, <2>2
<1> DEFINE z == r.size
<1>7. w[Len(w)] = x
  <2>1. z \in 1 .. z /\ Len(ys) - z + z = Len(xs) + 1
    BY <1>4, <1>6
  <2>2. w[z] = ys[Len(ys) - z + z]
    BY <1>6, <2>1
  <2> QED
    BY <1>4, <1>6, <2>1, <2>2
<1> HIDE DEF w
<1> DEFINE f == [i \in 1 .. Len(w) |-> Abs(w[i] - Average(w))]
<1>8. f # <<>> /\ Len(f) = Len(w)
  <2>1. Len(w) \in Nat /\ Len(w) # 0
    BY <1>6
  <2> QED
    BY <2>1
<1>9. dev = Deviation(w)
  <2>1. dev = SumOver(f) \div Len(w)
    BY <1>5, <1>6
  <2>2. Deviation(w) = Average(f)
    BY DEF Deviation
  <2> HIDE DEF f, dev
  <2> QED
    BY <1>8, <2>1, <2>2 DEF Average
<1> HIDE DEF dev
<1>10. v = ChannelIndexOf(w, Deviation(w))
  BY <1>5, <1>7, <1>9 DEF ChannelIndexOf
<1> QED
  BY <1>3, <1>10 DEF w, ys, x

-----------------------------------------------------------------------------
(* The other indicators that are exact.                                    *)

LEMMA Appended ==
    ASSUME NEW xs \in Seq(Int), NEW v \in Int
    PROVE  Append(xs, v) \in Seq(Int) /\ Append(xs, v) # <<>>
<1>1. Append(xs, v) \in Seq(Int) /\ Len(Append(xs, v)) = Len(xs) + 1 /\ Len(xs) \in Nat
  BY Extended
<1>2. Len(<<>>) = 0
  OBVIOUS
<1> DEFINE a == Append(xs, v)
<1> HIDE DEF a
<1>3. a # <<>>
  BY <1>1, <1>2 DEF a
<1> QED
  BY <1>1, <1>3 DEF a

KeepsChannel(s, n, hs, ls) ==
    DOMAIN s = {"highs", "lows", "hasPrev"} /\ IsWindow(s.highs, n, hs) /\ IsWindow(s.lows, n, ls)

Middle(hs, ls, n) == (Highest(LastOf(hs, n)) + Lowest(LastOf(ls, n))) \div 2

LEMMA DonchianReads ==
    ASSUME NEW n \in Nat \ {0}, NEW hs \in Seq(Int), NEW ls \in Seq(Int), NEW s, KeepsChannel(s, n, hs, ls),
           NEW c \in CandleType
    PROVE  /\ KeepsChannel(Donchian(s, c).state, n, Append(hs, c.high), Append(ls, c.low))
           /\ Donchian(s, c).signal.value = Middle(Append(hs, c.high), Append(ls, c.low), n)
<1> DEFINE highs == push(s.highs, c.high)
           lows == push(s.lows, c.low)
           state == [highs |-> highs, lows |-> lows, hasPrev |-> TRUE]
           v == (ringMax(highs) + ringMin(lows)) \div 2
           a == Append(hs, c.high)
           b == Append(ls, c.low)
<1>1. c.high \in Int /\ c.low \in Int
  BY CandleFields
<1>2. \E flags : Donchian(s, c) = Out(state, Signal(v, 0, flags))
  BY DEF Donchian
<1>3. Donchian(s, c).state = state /\ Donchian(s, c).signal.value = v
  <2> HIDE DEF state, v
  <2> QED
    BY <1>2, OutFacts
<1>4. IsWindow(highs, n, a) /\ IsWindow(lows, n, b)
  BY <1>1, PushedWindow DEF KeepsChannel
<1>5. a \in Seq(Int) /\ b \in Seq(Int) /\ a # <<>> /\ b # <<>>
  BY <1>1, Appended
<1>6. KeepsChannel(state, n, a, b)
  BY <1>4 DEF KeepsChannel
<1> HIDE DEF highs, lows, state, a, b
<1>7. ringMax(highs) = Highest(LastOf(a, n)) /\ ringMin(lows) = Lowest(LastOf(b, n))
  BY <1>4, <1>5, ExtremesOfLast
<1> QED
  BY <1>3, <1>6, <1>7 DEF a, b, Middle

(* The level of the candles before this one.                               *)
KeepsLevel(s, n, isSupport, xs) ==
    DOMAIN s = {"isSupport", "r", "prev"} /\ s.isSupport = isSupport /\ IsWindow(s.r, n, xs)

LEMMA SupportReads ==
    ASSUME NEW n \in Nat \ {0}, NEW xs \in Seq(Int), NEW s, KeepsLevel(s, n, TRUE, xs), NEW c \in CandleType
    PROVE  /\ KeepsLevel(SupportResistance(s, c).state, n, TRUE, Append(xs, c.low))
           /\ SupportResistance(s, c).signal.value = IF xs = <<>> THEN 0 ELSE Lowest(LastOf(xs, n))
<1> DEFINE r == push(s.r, c.low)
           level == ringMin(s.r)
           state == [s EXCEPT !.r = r, !.prev = level]
<1>1. c.low \in Int /\ s.isSupport = TRUE /\ IsWindow(s.r, n, xs) /\ DOMAIN s = {"isSupport", "r", "prev"}
  BY CandleFields DEF KeepsLevel
<1>2. \E p, flags : SupportResistance(s, c) = Out(state, Signal(level, p, flags))
  <2> DEFINE low == c.low
             high == c.high
             rises == c.close > c.open
             falls == c.close < c.open
  <2>1. SupportResistance(s, c) =
          Out([s EXCEPT !.r = push(s.r, low), !.prev = level],
              Signal(level, s.prev, Raise("bounce", level # 0 /\ (low - level) * 1000 <= 3 * level /\ rises)))
    BY <1>1 DEF SupportResistance
  <2> QED
    BY <2>1
<1>3. SupportResistance(s, c).state = state /\ SupportResistance(s, c).signal.value = level
  <2> HIDE DEF state, level
  <2> QED
    BY <1>2, OutFacts
<1>4. IsWindow(r, n, Append(xs, c.low))
  BY <1>1, PushedWindow
<1>5. level = IF xs = <<>> THEN 0 ELSE Lowest(LastOf(xs, n))
  BY <1>1, ExtremesOfLast
<1> HIDE DEF r, level
<1>6. KeepsLevel(state, n, TRUE, Append(xs, c.low))
  BY <1>1, <1>4 DEF KeepsLevel
<1> HIDE DEF state
<1> QED
  BY <1>3, <1>5, <1>6

LEMMA ResistanceReads ==
    ASSUME NEW n \in Nat \ {0}, NEW xs \in Seq(Int), NEW s, KeepsLevel(s, n, FALSE, xs), NEW c \in CandleType
    PROVE  /\ KeepsLevel(SupportResistance(s, c).state, n, FALSE, Append(xs, c.high))
           /\ SupportResistance(s, c).signal.value = IF xs = <<>> THEN 0 ELSE Highest(LastOf(xs, n))
<1> DEFINE r == push(s.r, c.high)
           level == ringMax(s.r)
           state == [s EXCEPT !.r = r, !.prev = level]
<1>1. c.high \in Int /\ s.isSupport = FALSE /\ IsWindow(s.r, n, xs) /\ DOMAIN s = {"isSupport", "r", "prev"}
  BY CandleFields DEF KeepsLevel
<1>2. \E p, flags : SupportResistance(s, c) = Out(state, Signal(level, p, flags))
  <2> DEFINE low == c.low
             high == c.high
             rises == c.close > c.open
             falls == c.close < c.open
  <2>1. SupportResistance(s, c) =
          Out([s EXCEPT !.r = push(s.r, high), !.prev = level],
              Signal(level, s.prev, Raise("bounce", level # 0 /\ (level - high) * 1000 <= 3 * level /\ falls)))
    BY <1>1 DEF SupportResistance
  <2> QED
    BY <2>1
<1>3. SupportResistance(s, c).state = state /\ SupportResistance(s, c).signal.value = level
  <2> HIDE DEF state, level
  <2> QED
    BY <1>2, OutFacts
<1>4. IsWindow(r, n, Append(xs, c.high))
  BY <1>1, PushedWindow
<1>5. level = IF xs = <<>> THEN 0 ELSE Highest(LastOf(xs, n))
  BY <1>1, ExtremesOfLast
<1> HIDE DEF r, level
<1>6. KeepsLevel(state, n, FALSE, Append(xs, c.high))
  BY <1>1, <1>4 DEF KeepsLevel
<1> HIDE DEF state
<1> QED
  BY <1>3, <1>5, <1>6

KeepsCloses(s, n, stdDev, xs) ==
    DOMAIN s = {"r", "stdDev"} /\ s.stdDev = stdDev /\ IsWindow(s.r, n, xs)

LEMMA BollingerReads ==
    ASSUME NEW n \in Nat \ {0}, NEW xs \in Seq(Int), NEW k, NEW s, KeepsCloses(s, n, k, xs), NEW c \in CandleType
    PROVE  LET w == LastOf(Append(xs, c.close), n)
           IN  /\ KeepsCloses(Bollinger(s, c).state, n, k, Append(xs, c.close))
               /\ Bollinger(s, c).signal.value = PercentB(c.close, Average(w), k * Sqrt(Variance(w)))
<1> DEFINE ys == Append(xs, c.close)
           w == LastOf(ys, n)
           r == push(s.r, c.close)
           m == mean(r)
           squares == [i \in 1 .. r.size |-> (values(r)[i] - m) * (values(r)[i] - m)]
           width == s.stdDev * Sqrt(SumOver(squares) \div r.size)
           v == IF width = 0 THEN 0 ELSE ((c.close - (m - width)) * Unit) \div (2 * width)
           state == [s EXCEPT !.r = r]
<1>1. c.close \in Int /\ s.stdDev = k /\ IsWindow(s.r, n, xs) /\ DOMAIN s = {"r", "stdDev"}
  BY CandleFields, SMTT(40) DEF KeepsCloses
<1>2. \E flags : Bollinger(s, c) = Out(state, Signal(v, 0, flags))
  BY DEF Bollinger
<1>3. Bollinger(s, c).state = state /\ Bollinger(s, c).signal.value = v
  <2> HIDE DEF state, v
  <2> QED
    BY <1>2, OutFacts
<1>4. IsWindow(r, n, ys) /\ ys \in Seq(Int) /\ ys # <<>>
  BY <1>1, PushedWindow
<1> HIDE DEF r, ys
<1>5. m = Average(w) /\ values(r) = w
  BY <1>4, MeanIsAverage, ValuesAreLast
<1>6. w \in Seq(Int) /\ Len(w) = r.size /\ r.size \in Nat /\ r.size # 0
  BY <1>4, WindowSize
<1> HIDE DEF w, m
<1> DEFINE f == [i \in 1 .. Len(w) |-> (w[i] - Average(w)) * (w[i] - Average(w))]
<1>7. f # <<>> /\ Len(f) = Len(w)
  <2>1. Len(w) \in Nat /\ Len(w) # 0
    BY <1>6
  <2> QED
    BY <2>1
<1>8. SumOver(squares) \div r.size = Variance(w)
  <2>1. squares = f
    BY <1>5, <1>6
  <2>2. Variance(w) = Average(f)
    BY DEF Variance
  <2> HIDE DEF f, squares
  <2> QED
    BY <1>6, <1>7, <2>1, <2>2 DEF Average
<1>9. width = k * Sqrt(Variance(w))
  BY <1>1, <1>8
<1> HIDE DEF width
<1>10. v = PercentB(c.close, Average(w), k * Sqrt(Variance(w)))
  BY <1>5, <1>9 DEF PercentB
<1>11. KeepsCloses(state, n, k, ys)
  BY <1>1, <1>4 DEF KeepsCloses
<1> HIDE DEF v, state
<1> QED
  BY <1>3, <1>10, <1>11 DEF w, ys

(* Indicators that look at the candle before.                              *)
KeepsBalance(s, h) ==
    /\ DOMAIN s = {"obv", "prevClose", "hasPrev"} /\ s.obv = SumOver(Moves(h))
    /\ s.hasPrev = (IF h = <<>> THEN FALSE ELSE TRUE) /\ (h # <<>> => s.prevClose = h[Len(h)].close)

LEMMA OBVReads ==
    ASSUME NEW h \in Seq(CandleType), NEW s, KeepsBalance(s, h), NEW c \in CandleType
    PROVE  /\ KeepsBalance(OBV(s, c).state, Append(h, c))
           /\ OBV(s, c).signal.value = Unit * SumOver(Moves(Append(h, c)))
<1> DEFINE k == Append(h, c)
           last == h[Len(h)].close
           signed == IF c.close > last THEN c.volume ELSE IF c.close < last THEN -c.volume ELSE 0
           move == IF ~s.hasPrev \/ c.close = s.prevClose THEN 0
                   ELSE IF c.close > s.prevClose THEN c.volume ELSE -c.volume
           obv == s.obv + move
           state == [obv |-> obv, prevClose |-> c.close, hasPrev |-> TRUE]
<1>1. \E p, flags : OBV(s, c) = Out(state, Signal(obv * Unit, p, flags))
  BY DEF OBV
<1>2. OBV(s, c).state = state /\ OBV(s, c).signal.value = obv * Unit
  <2> HIDE DEF state, obv
  <2> QED
    BY <1>1, OutFacts
<1>3. /\ k \in Seq(CandleType) /\ Len(k) = Len(h) + 1 /\ k[Len(h) + 1] = c /\ k # <<>>
      /\ c.close \in Int /\ c.volume \in Int
  BY HistoryExtended, CandleFields
<1>4. obv = SumOver(Moves(k))
  <2>1. CASE h = <<>>
    <3>a. s.hasPrev = FALSE
      BY <2>1 DEF KeepsBalance
    <3>b. Moves(k) = <<>>
      BY <2>1, MovesExtended
    <3>c. Moves(h) = <<>>
      <4>1. Len(h) - 1 = -1
        BY <2>1
      <4> QED
        BY <4>1 DEF Moves
    <3>d. move = 0
      BY <3>a
    <3>1. move = 0 /\ Moves(k) = <<>> /\ Moves(h) = <<>>
      BY <3>b, <3>c, <3>d
    <3>2. s.obv = 0
      BY <3>1, SumOfNone DEF KeepsBalance
    <3> HIDE DEF move
    <3> QED
      BY <3>1, <3>2, SumOfNone
  <2>2. CASE h # <<>>
    <3>1. Len(h) \in 1 .. Len(h) /\ h[Len(h)] \in CandleType
      BY <2>2
    <3>2. last \in Int
      BY <3>1, CandleFields
    <3>3. s.prevClose = last /\ s.hasPrev = TRUE
      BY <2>2 DEF KeepsBalance
    <3> HIDE DEF last
    <3>4. move = signed /\ signed \in Int
      BY <1>3, <3>2, <3>3
    <3>5. Moves(h) \in Seq(Int) /\ Moves(k) = Append(Moves(h), signed)
      BY <2>2, MovesExtended DEF last
    <3> HIDE DEF move, signed
    <3>6. SumOver(Moves(k)) = SumOver(Moves(h)) + signed
      BY <3>4, <3>5, SumExtended
    <3> QED
      BY <3>4, <3>6 DEF KeepsBalance
  <2> QED
    BY <2>1, <2>2
<1> HIDE DEF move, k
<1>5. obv \in Int
  <2>1. Moves(k) \in Seq(Int)
    BY <1>3, MovesExtended
  <2> QED
    BY <1>4, <2>1, SumTypedInt
<1>6. KeepsBalance(state, k)
  BY <1>3, <1>4 DEF KeepsBalance
<1>7. obv * Unit = Unit * obv
  BY <1>5, UnitAssumption
<1> HIDE DEF obv, state
<1> QED
  BY <1>2, <1>4, <1>6, <1>7 DEF k

-----------------------------------------------------------------------------
(* The indicators that look one candle back, and the one of the day.       *)

(* The days of a history do not go back.                                   *)
Ordered(h) == \A i \in 1 .. Len(h) : h[i].day \in Nat /\ h[i].day <= h[Len(h)].day

LEMMA DayTable ==
    ASSUME NEW h \in Seq(CandleType), NEW c \in CandleType, NEW d
    PROVE  /\ VolumesOf(h, d) \in Seq(Int) /\ TradedOf(h, d) \in Seq(Int)
           /\ VolumesOf(Append(h, c), d) = Append(VolumesOf(h, d), IF c.day = d THEN c.volume ELSE 0)
           /\ TradedOf(Append(h, c), d) = Append(TradedOf(h, d), IF c.day = d THEN Typical(c) * c.volume ELSE 0)
<1> DEFINE n == Len(h)
           k == Append(h, c)
           a(x) == IF x.day = d THEN x.volume ELSE 0
           b(x) == IF x.day = d THEN Typical(x) * x.volume ELSE 0
           f == VolumesOf(h, d)
           g == VolumesOf(k, d)
           p == TradedOf(h, d)
           q == TradedOf(k, d)
<1>1. /\ n \in Nat /\ k \in Seq(CandleType) /\ Len(k) = n + 1 /\ k[n + 1] = c
      /\ \A i \in 1 .. n : k[i] = h[i] /\ h[i] \in CandleType
  BY HistoryExtended
<1>2. ASSUME NEW x \in CandleType PROVE a(x) \in Int /\ b(x) \in Int
  <2>1. x.volume \in Int /\ Typical(x) \in Int
    BY CandleFields
  <2>2. Typical(x) * x.volume \in Int
    BY <2>1
  <2> QED
    BY <2>1, <2>2
<1> HIDE DEF k
<1>3. /\ f = [i \in 1 .. n |-> a(h[i])] /\ g = [i \in 1 .. n + 1 |-> a(k[i])]
      /\ p = [i \in 1 .. n |-> b(h[i])] /\ q = [i \in 1 .. n + 1 |-> b(k[i])]
  BY <1>1 DEF VolumesOf, TradedOf
<1> HIDE DEF f, g, p, q, a, b, n
<1>4. \A i \in 1 .. n + 1 : k[i] \in CandleType
  BY <1>1
<1>5. n + 1 \in 1 .. n + 1 /\ \A i \in 1 .. n : i \in 1 .. n + 1
  BY <1>1
<1>6. f \in [1 .. n -> Int] /\ g \in [1 .. n + 1 -> Int] /\ g[n + 1] = a(c) /\ \A i \in 1 .. n : g[i] = f[i]
  BY <1>1, <1>2, <1>3, <1>4, <1>5
<1>7. p \in [1 .. n -> Int] /\ q \in [1 .. n + 1 -> Int] /\ q[n + 1] = b(c) /\ \A i \in 1 .. n : q[i] = p[i]
  BY <1>1, <1>2, <1>3, <1>4, <1>5
<1>8. f \in Seq(Int) /\ g = Append(f, g[n + 1])
  BY <1>1, <1>6, TableExtended
<1>9. p \in Seq(Int) /\ q = Append(p, q[n + 1])
  BY <1>1, <1>7, TableExtended
<1> QED
  BY <1>6, <1>7, <1>8, <1>9 DEF f, g, p, q, k, a, b

LEMMA SumOfZeros ==
    ASSUME NEW n \in Nat, NEW f, f = [i \in 1 .. n |-> 0]
    PROVE  SumOver(f) = 0
<1>1. f \in Seq(Nat) /\ Len(f) = n /\ \A i \in 1 .. Len(f) : f[i] <= 0
  OBVIOUS
<1>2. SumOver(f) \in 0 .. Len(f) * 0
  <2>1. 0 \in Nat /\ f \in Seq(Nat) /\ \A i \in 1 .. Len(f) : f[i] <= 0
    BY <1>1
  <2> QED
    BY <2>1, SumBounded
<1>3. Len(f) * 0 = 0
  BY <1>1
<1> QED
  BY <1>2, <1>3

LEMMA OtherDays ==
    ASSUME NEW h \in Seq(CandleType), NEW d, \A i \in 1 .. Len(h) : h[i].day # d
    PROVE  SumOver(VolumesOf(h, d)) = 0 /\ SumOver(TradedOf(h, d)) = 0
<1>1. Len(h) \in Nat
  OBVIOUS
<1>2. VolumesOf(h, d) = [i \in 1 .. Len(h) |-> 0] /\ TradedOf(h, d) = [i \in 1 .. Len(h) |-> 0]
  BY DEF VolumesOf, TradedOf
<1> QED
  BY <1>1, <1>2, SumOfZeros

KeepsDay(s, h) ==
    /\ DOMAIN s = {"day", "cumPV", "cumVol", "prev"}
    /\ h = <<>> => s.day = -1
    /\ h # <<>> => /\ s.day = h[Len(h)].day
                   /\ s.cumPV = SumOver(TradedOf(h, s.day))
                   /\ s.cumVol = SumOver(VolumesOf(h, s.day))

LEMMA VWAPReads ==
    ASSUME NEW h \in Seq(CandleType), NEW s, KeepsDay(s, h), NEW c \in CandleType,
           Ordered(h), Ordered(Append(h, c))
    PROVE  LET k == Append(h, c)
               paid == SumOver(VolumesOf(k, c.day))
           IN  /\ KeepsDay(VWAP(s, c).state, k)
               /\ VWAP(s, c).signal.value = IF paid > 0 THEN SumOver(TradedOf(k, c.day)) \div paid ELSE 0
<1> DEFINE k == Append(h, c)
           d == c.day
           fresh == d # s.day
           traded == Typical(c) * c.volume
           pv == (IF fresh THEN 0 ELSE s.cumPV) + traded
           vol == (IF fresh THEN 0 ELSE s.cumVol) + c.volume
           v == IF vol > 0 THEN pv \div vol ELSE 0
           seen == [s EXCEPT !.day = d, !.cumPV = pv, !.cumVol = vol]
<1>1. /\ Len(h) \in Nat /\ k \in Seq(CandleType) /\ Len(k) = Len(h) + 1 /\ k[Len(h) + 1] = c /\ k # <<>>
      /\ \A i \in 1 .. Len(h) : k[i] = h[i]
  BY HistoryExtended
<1>2. c.volume \in Int /\ Typical(c) \in Int
  BY CandleFields
<1>3. traded \in Int
  BY <1>2
<1>4. VWAP(s, c) = Plain(seen, v)
  BY DEF VWAP
<1>5. VWAP(s, c).state = [seen EXCEPT !.prev = v] /\ VWAP(s, c).signal.value = v
  <2> HIDE DEF seen, v
  <2> QED
    BY <1>4, PlainFacts
<1>6. VolumesOf(h, d) \in Seq(Int) /\ TradedOf(h, d) \in Seq(Int)
      /\ VolumesOf(k, d) = Append(VolumesOf(h, d), c.volume)
      /\ TradedOf(k, d) = Append(TradedOf(h, d), traded)
  BY DayTable
<1>o. Len(h) + 1 \in 1 .. Len(h) + 1 /\ \A i \in 1 .. Len(h) : i \in 1 .. Len(h) + 1
  BY <1>1
<1>7. d \in Nat /\ \A i \in 1 .. Len(h) : h[i].day <= d /\ h[i].day \in Nat
  BY <1>1, <1>o DEF Ordered
<1> HIDE DEF k, d, traded
<1>8. SumOver(VolumesOf(k, d)) = SumOver(VolumesOf(h, d)) + c.volume
  BY <1>2, <1>6, SumExtended
<1>9. SumOver(TradedOf(k, d)) = SumOver(TradedOf(h, d)) + traded
  BY <1>3, <1>6, SumExtended
<1>10. pv = SumOver(TradedOf(k, d)) /\ vol = SumOver(VolumesOf(k, d))
  <2>1. CASE h = <<>>
    <3>1. fresh
      BY <1>7, <2>1 DEF KeepsDay
    <3>2. \A i \in 1 .. Len(h) : h[i].day # d
      BY <2>1
    <3>3. SumOver(VolumesOf(h, d)) = 0 /\ SumOver(TradedOf(h, d)) = 0
      BY <3>2, OtherDays
    <3> HIDE DEF fresh
    <3> QED
      BY <1>8, <1>9, <3>1, <3>3
  <2>2. CASE h # <<>>
    <3>1. /\ s.day = h[Len(h)].day
          /\ s.cumPV = SumOver(TradedOf(h, s.day)) /\ s.cumVol = SumOver(VolumesOf(h, s.day))
      BY <2>2 DEF KeepsDay
    <3>2. CASE fresh
      <4>1. Len(h) \in 1 .. Len(h)
        BY <2>2
      <4>2. h[Len(h)].day # d /\ h[Len(h)].day <= d /\ h[Len(h)].day \in Nat
        BY <1>7, <3>1, <3>2, <4>1
      <4>3. ASSUME NEW i \in 1 .. Len(h) PROVE h[i].day # d
        <5>1. h[i].day <= h[Len(h)].day /\ h[i].day \in Nat
          BY DEF Ordered
        <5> QED
          BY <1>7, <4>2, <5>1
      <4>4. SumOver(VolumesOf(h, d)) = 0 /\ SumOver(TradedOf(h, d)) = 0
        BY <4>3, OtherDays
      <4> HIDE DEF fresh
      <4> QED
        BY <1>8, <1>9, <3>2, <4>4
    <3>3. CASE ~fresh
      <4>1. s.day = d
        BY <3>3
      <4> HIDE DEF fresh
      <4> QED
        BY <1>8, <1>9, <3>1, <3>3, <4>1
    <3> QED
      BY <3>2, <3>3
  <2> QED
    BY <2>1, <2>2
<1> HIDE DEF pv, vol
<1> DEFINE t == [seen EXCEPT !.prev = v]
<1>11. DOMAIN t = {"day", "cumPV", "cumVol", "prev"} /\ t.day = d /\ t.cumPV = pv /\ t.cumVol = vol
  <2> HIDE DEF v
  <2> QED
    BY DEF KeepsDay
<1>12. k[Len(k)].day = d
  BY <1>1 DEF d
<1> HIDE DEF t, seen
<1>13. KeepsDay(t, k)
  BY <1>1, <1>10, <1>11, <1>12 DEF KeepsDay
<1> QED
  BY <1>5, <1>10, <1>13 DEF t, k, d

(* A bare price.                                                           *)
KeepsField(s, field) == DOMAIN s = {"field", "prev"} /\ s.field = field

LEMMA PriceReads ==
    ASSUME NEW s, NEW field, KeepsField(s, field), NEW c
    PROVE  KeepsField(Price(s, c).state, field) /\ Price(s, c).signal.value = c[field]
<1>1. Price(s, c).state = [s EXCEPT !.prev = c[field]] /\ Price(s, c).signal.value = c[field]
  BY PlainFacts DEF Price, KeepsField
<1> QED
  BY <1>1 DEF KeepsField

KeepsHigh(s, h) ==
    /\ DOMAIN s = {"isHigh", "level", "hasLevel", "prevClose"} /\ s.isHigh = TRUE
    /\ s.level = IF h = <<>> THEN 0 ELSE h[Len(h)].high

KeepsLow(s, h) ==
    /\ DOMAIN s = {"isHigh", "level", "hasLevel", "prevClose"} /\ s.isHigh = FALSE
    /\ s.level = IF h = <<>> THEN 0 ELSE h[Len(h)].low

LEMMA PrevHighReads ==
    ASSUME NEW h \in Seq(CandleType), NEW s, KeepsHigh(s, h), NEW c \in CandleType
    PROVE  /\ KeepsHigh(PrevLevel(s, c).state, Append(h, c))
           /\ PrevLevel(s, c).signal.value = IF h = <<>> THEN 0 ELSE h[Len(h)].high
<1> DEFINE k == Append(h, c)
           state == [s EXCEPT !.level = c.high, !.hasLevel = TRUE, !.prevClose = c.close]
<1>1. Len(k) = Len(h) + 1 /\ k[Len(h) + 1] = c /\ k # <<>>
  BY HistoryExtended
<1>0. s.isHigh = TRUE /\ DOMAIN s = {"isHigh", "level", "hasLevel", "prevClose"}
  BY DEF KeepsHigh
<1>2. \E flags : PrevLevel(s, c) = Out(state, Signal(s.level, 0, flags))
  BY <1>0 DEF PrevLevel
<1>3. PrevLevel(s, c).state = state /\ PrevLevel(s, c).signal.value = s.level
  <2> HIDE DEF state
  <2> QED
    BY <1>2, OutFacts
<1> HIDE DEF k
<1>4. KeepsHigh(state, k)
  BY <1>0, <1>1 DEF KeepsHigh
<1> HIDE DEF state
<1> QED
  BY <1>3, <1>4 DEF KeepsHigh, k

LEMMA PrevLowReads ==
    ASSUME NEW h \in Seq(CandleType), NEW s, KeepsLow(s, h), NEW c \in CandleType
    PROVE  /\ KeepsLow(PrevLevel(s, c).state, Append(h, c))
           /\ PrevLevel(s, c).signal.value = IF h = <<>> THEN 0 ELSE h[Len(h)].low
<1> DEFINE k == Append(h, c)
           state == [s EXCEPT !.level = c.low, !.hasLevel = TRUE, !.prevClose = c.close]
<1>1. Len(k) = Len(h) + 1 /\ k[Len(h) + 1] = c /\ k # <<>>
  BY HistoryExtended
<1>0. s.isHigh = FALSE /\ DOMAIN s = {"isHigh", "level", "hasLevel", "prevClose"}
  BY DEF KeepsLow
<1>2. \E flags : PrevLevel(s, c) = Out(state, Signal(s.level, 0, flags))
  BY <1>0 DEF PrevLevel
<1>3. PrevLevel(s, c).state = state /\ PrevLevel(s, c).signal.value = s.level
  <2> HIDE DEF state
  <2> QED
    BY <1>2, OutFacts
<1> HIDE DEF k
<1>4. KeepsLow(state, k)
  BY <1>0, <1>1 DEF KeepsLow
<1> HIDE DEF state
<1> QED
  BY <1>3, <1>4 DEF KeepsLow, k

KeepsLast(s, h) ==
    /\ DOMAIN s = {"isUp", "minPct", "prevClose", "hasPrev"}
    /\ s.hasPrev = IF h = <<>> THEN FALSE ELSE TRUE
    /\ h # <<>> => s.prevClose = h[Len(h)].close

LEMMA GapReads ==
    ASSUME NEW h \in Seq(CandleType), NEW s, KeepsLast(s, h), NEW c \in CandleType
    PROVE  /\ KeepsLast(Gap(s, c).state, Append(h, c))
           /\ Gap(s, c).signal.value =
                IF h = <<>> THEN 0 ELSE IF h[Len(h)].close = 0 THEN 0 ELSE ChangeOf(h[Len(h)].close, c.open)
<1> DEFINE k == Append(h, c)
           state == [s EXCEPT !.prevClose = c.close, !.hasPrev = TRUE]
           known == s.hasPrev /\ s.prevClose # 0
           v == IF known THEN ChangeOf(s.prevClose, c.open) ELSE 0
<1>1. Len(k) = Len(h) + 1 /\ k[Len(h) + 1] = c /\ k # <<>>
  BY HistoryExtended
<1>2. \E flags : Gap(s, c) = Out(state, Signal(v, 0, flags))
  BY DEF Gap, ChangeOf
<1>3. Gap(s, c).state = state /\ Gap(s, c).signal.value = v
  <2> HIDE DEF state, v
  <2> QED
    BY <1>2, OutFacts
<1> HIDE DEF k
<1>4. KeepsLast(state, k)
  BY <1>1 DEF KeepsLast
<1>5. v = IF h = <<>> THEN 0 ELSE IF h[Len(h)].close = 0 THEN 0 ELSE ChangeOf(h[Len(h)].close, c.open)
  <2>1. CASE h = <<>>
    BY <2>1 DEF KeepsLast
  <2>2. CASE h # <<>>
    BY <2>2 DEF KeepsLast
  <2> QED
    BY <2>1, <2>2
<1> HIDE DEF state, v
<1> QED
  BY <1>3, <1>4, <1>5 DEF k

-----------------------------------------------------------------------------
(* Bounded quotients.                                                      *)

LEMMA QuotientBound ==
    ASSUME NEW n \in Nat \ {0}, NEW a \in Nat, NEW k \in Nat, a <= k * n
    PROVE  a \div n \in 0 .. k
<1>1. k * n \in Nat /\ k * n = k * n + 0 /\ 0 \in 0 .. n - 1
  OBVIOUS
<1>2. (k * n) \div n = k
  BY <1>1, QuotientUnique
<1>3. a \div n <= (k * n) \div n
  BY <1>1, QuotientMonotone
<1>4. a \div n \in Nat
  BY Quotient
<1> QED
  BY <1>2, <1>3, <1>4

(* A share of b, as a fraction of the bound.                               *)
LEMMA ShareBound ==
    ASSUME NEW bound \in Nat, NEW a \in Nat, NEW b \in Nat \ {0}, a <= b
    PROVE  (bound * a) \div b \in 0 .. bound
<1>1. bound * b - bound * a = bound * (b - a) /\ bound * a \in Nat /\ bound * b \in Nat
  OBVIOUS
<1>2. bound * (b - a) \in Nat
  OBVIOUS
<1>3. bound * a <= bound * b
  BY <1>1, <1>2
<1> QED
  BY <1>1, <1>3, QuotientBound

(* Smoothing stays between the numbers it is given.                        *)
LEMMA SmoothedNat ==
    ASSUME NEW p \in Nat \ {0}, NEW avg \in Nat, NEW x \in Nat
    PROVE  Smoothed(avg, x, p) \in Nat
<1>1. p - 1 \in Nat
  OBVIOUS
<1>2. avg * (p - 1) \in Nat
  BY <1>1
<1>3. avg * (p - 1) + x \in Nat
  BY <1>2
<1> QED
  BY <1>3, Quotient DEF Smoothed

LEMMA SmoothedBound ==
    ASSUME NEW p \in Nat \ {0}, NEW bound \in Nat, NEW avg \in 0 .. bound, NEW x \in 0 .. bound
    PROVE  Smoothed(avg, x, p) \in 0 .. bound
<1> DEFINE m == p - 1
<1>1. m \in Nat /\ p = m + 1
  OBVIOUS
<1> HIDE DEF m
<1>2. avg * m \in Nat /\ bound * m - avg * m = (bound - avg) * m /\ (bound - avg) * m \in Nat /\ bound * m \in Nat
  BY <1>1
<1>3. bound * p = bound * m + bound
  BY <1>1
<1>4. avg * m + x \in Nat /\ avg * m + x <= bound * p
  BY <1>2, <1>3
<1>5. (avg * m + x) \div p \in 0 .. bound
  BY <1>4, QuotientBound
<1> QED
  BY <1>5 DEF Smoothed, m
-----------------------------------------------------------------------------
(* Rings of numbers that are not negative.                                 *)

NatRing(r, n) == \E xs \in Seq(Nat) : IsWindow(r, n, xs)
BoundedRing(r, n, bound) == \E xs \in Seq(0 .. bound) : IsWindow(r, n, xs)

LEMMA NoNumbers ==
    ASSUME NEW p \in Int
    PROVE  /\ NatRing(newRing(p), Capped(p))
           /\ \A bound \in Nat : BoundedRing(newRing(p), Capped(p), bound)
<1>1. IsWindow(newRing(p), Capped(p), <<>>)
  BY EmptyWindow
<1>2. <<>> \in Seq(Nat) /\ \A bound \in Nat : <<>> \in Seq(0 .. bound)
  OBVIOUS
<1> QED
  BY <1>1, <1>2 DEF NatRing, BoundedRing

LEMMA NatRingFacts ==
    ASSUME NEW n \in Nat \ {0}, NEW r, NatRing(r, n)
    PROVE  r.sum \in Nat /\ mean(r) \in Nat
<1>1. PICK xs \in Seq(Nat) : IsWindow(r, n, xs)
  BY DEF NatRing
<1>2. xs \in Seq(Int)
  OBVIOUS
<1> DEFINE w == LastOf(xs, n)
<1>3. w \in Seq(Nat)
  BY LastFacts
<1>4. r.sum = SumOver(w) /\ Len(w) = r.size /\ r.size \in Nat
  BY <1>1, <1>2, WindowSize
<1> HIDE DEF w
<1>5. r.sum \in Nat
  BY <1>3, <1>4, SumNatural
<1>6. mean(r) \in Nat
  <2>1. CASE r.size = 0
    BY <2>1 DEF mean
  <2>2. CASE r.size # 0
    <3>1. r.sum \div r.size \in Nat
      BY <1>4, <1>5, <2>2, Quotient
    <3> QED
      BY <2>2, <3>1 DEF mean
  <2> QED
    BY <2>1, <2>2
<1> QED
  BY <1>5, <1>6

LEMMA NatRingPushed ==
    ASSUME NEW n \in Nat \ {0}, NEW r, NatRing(r, n), NEW v \in Nat
    PROVE  NatRing(push(r, v), n)
<1>1. PICK xs \in Seq(Nat) : IsWindow(r, n, xs)
  BY DEF NatRing
<1>2. xs \in Seq(Int) /\ v \in Int
  OBVIOUS
<1>3. IsWindow(push(r, v), n, Append(xs, v))
  BY <1>1, <1>2, PushedWindow
<1>4. Append(xs, v) \in Seq(Nat)
  BY Extended
<1> QED
  BY <1>3, <1>4 DEF NatRing

LEMMA BoundedMean ==
    ASSUME NEW n \in Nat \ {0}, NEW bound \in Nat, NEW r, BoundedRing(r, n, bound)
    PROVE  mean(r) \in 0 .. bound
<1>1. PICK xs \in Seq(0 .. bound) : IsWindow(r, n, xs)
  BY DEF BoundedRing
<1>2. xs \in Seq(Int)
  OBVIOUS
<1> DEFINE w == LastOf(xs, n)
<1>3. w \in Seq(0 .. bound)
  BY LastFacts
<1>4. r.sum = SumOver(w) /\ Len(w) = r.size /\ r.size \in Nat
  BY <1>1, <1>2, WindowSize
<1> HIDE DEF w
<1>5. w \in Seq(Nat) /\ \A i \in 1 .. Len(w) : w[i] <= bound
  BY <1>3
<1>6. r.sum \in 0 .. r.size * bound
  BY <1>4, <1>5, SumBounded
<1> DEFINE z == r.size
           t == r.sum
<1>7. z \in Nat /\ t \in 0 .. z * bound
  BY <1>4, <1>6
<1> HIDE DEF z, t
<1>8. CASE z = 0
  BY <1>8 DEF mean, z
<1>9. CASE z # 0
  <2>1. z * bound = bound * z /\ z * bound \in Nat
    BY <1>7
  <2>2. t \in Nat /\ t <= bound * z
    BY <1>7, <2>1
  <2>3. t \div z \in 0 .. bound
    BY <1>7, <1>9, <2>2, QuotientBound
  <2> QED
    BY <1>9, <2>3 DEF mean, z, t
<1> QED
  BY <1>8, <1>9

(* A sequence of numbers that has an element has a greatest and a least.   *)
LEMMA ExtremesExist ==
    ASSUME NEW w \in Seq(Int), w # <<>>
    PROVE  /\ Highest(w) \in Elements(w) /\ \A x \in Elements(w) : x <= Highest(w)
           /\ Lowest(w) \in Elements(w) /\ \A x \in Elements(w) : x >= Lowest(w)
<1> DEFINE n == Len(w)
           F == {i \in 0 .. n : i = 0 \/ ((\E j \in 1 .. i : \A k \in 1 .. i : w[k] <= w[j])
                                          /\ (\E j \in 1 .. i : \A k \in 1 .. i : w[k] >= w[j]))}
<1>1. n \in Nat \ {0} /\ DOMAIN w = 1 .. n /\ \A i \in 1 .. n : w[i] \in Int
  OBVIOUS
<1> HIDE DEF n
<1>2. 0 \in F
  BY <1>1
<1>3. ASSUME NEW i \in 1 .. n, i - 1 \in F PROVE i \in F
  <2>0. i \in 0 .. n /\ i \in 1 .. i /\ \A k \in 1 .. i : k \in 1 .. n /\ (k = i \/ k \in 1 .. i - 1)
    BY <1>1
  <2>1. CASE i = 1
    <3>1. \A k \in 1 .. i : k = 1
      BY <2>1
    <3>2. \A k \in 1 .. i : w[k] <= w[i] /\ w[k] >= w[i]
      BY <1>1, <2>0, <2>1, <3>1
    <3> QED
      BY <2>0, <3>2
  <2>2. CASE i # 1
    <3>1. PICK j \in 1 .. i - 1 : \A k \in 1 .. i - 1 : w[k] <= w[j]
      BY <1>1, <1>3, <2>2
    <3>2. PICK m \in 1 .. i - 1 : \A k \in 1 .. i - 1 : w[k] >= w[m]
      BY <1>1, <1>3, <2>2
    <3>3. j \in 1 .. i /\ m \in 1 .. i /\ w[j] \in Int /\ w[m] \in Int /\ w[i] \in Int
      BY <1>1
    <3>4. \E p \in 1 .. i : \A k \in 1 .. i : w[k] <= w[p]
      <4>1. CASE w[i] <= w[j]
        BY <2>0, <3>1, <3>3, <4>1
      <4>2. CASE ~(w[i] <= w[j])
        <5>1. \A k \in 1 .. i : w[k] <= w[i]
          BY <1>1, <2>0, <3>1, <3>3, <4>2
        <5> QED
          BY <2>0, <5>1
      <4> QED
        BY <4>1, <4>2
    <3>5. \E p \in 1 .. i : \A k \in 1 .. i : w[k] >= w[p]
      <4>1. CASE w[i] >= w[m]
        BY <2>0, <3>2, <3>3, <4>1
      <4>2. CASE ~(w[i] >= w[m])
        <5>1. \A k \in 1 .. i : w[k] >= w[i]
          BY <1>1, <2>0, <3>2, <3>3, <4>2
        <5> QED
          BY <2>0, <5>1
      <4> QED
        BY <4>1, <4>2
    <3> QED
      BY <2>0, <3>4, <3>5
  <2> QED
    BY <2>1, <2>2
<1>4. F \in SUBSET (0 .. n)
  OBVIOUS
<1>5. n \in F
  <2> HIDE DEF F
  <2>1. F = 0 .. n
    BY <1>1, <1>2, <1>3, <1>4, IndexInduction
  <2> QED
    BY <1>1, <2>1
<1>6. PICK j \in 1 .. n : \A k \in 1 .. n : w[k] <= w[j]
  BY <1>1, <1>5
<1>7. PICK m \in 1 .. n : \A k \in 1 .. n : w[k] >= w[m]
  BY <1>1, <1>5
<1>8. Elements(w) = {w[i] : i \in 1 .. n}
  BY <1>1 DEF Elements
<1>9. w[j] \in Elements(w) /\ \A x \in Elements(w) : x <= w[j]
  BY <1>6, <1>8
<1>10. w[m] \in Elements(w) /\ \A x \in Elements(w) : x >= w[m]
  BY <1>7, <1>8
<1> QED
  BY <1>9, <1>10 DEF Highest, Lowest

(* The number pushed last is between the extremes of its ring.             *)
LEMMA BoundedPushed ==
    ASSUME NEW n \in Nat \ {0}, NEW bound \in Nat, NEW r, BoundedRing(r, n, bound), NEW v \in 0 .. bound
    PROVE  LET s == push(r, v)
           IN  /\ BoundedRing(s, n, bound)
               /\ ringMin(s) \in 0 .. bound /\ ringMax(s) \in 0 .. bound
               /\ ringMin(s) <= v /\ v <= ringMax(s)
<1> DEFINE s == push(r, v)
<1>1. PICK xs \in Seq(0 .. bound) : IsWindow(r, n, xs)
  BY DEF BoundedRing
<1> DEFINE ys == Append(xs, v)
           w == LastOf(ys, n)
<1>2. xs \in Seq(Int) /\ v \in Int
  OBVIOUS
<1>3. IsWindow(s, n, ys)
  BY <1>1, <1>2, PushedWindow
<1>4. ys \in Seq(0 .. bound) /\ Len(ys) = Len(xs) + 1 /\ ys[Len(xs) + 1] = v /\ Len(xs) \in Nat
  BY Extended
<1>5. ys \in Seq(Int) /\ ys # <<>>
  BY <1>2, Appended
<1> HIDE DEF s, ys
<1>6. ringMax(s) = Highest(w) /\ ringMin(s) = Lowest(w)
  BY <1>3, <1>5, ExtremesOfLast
<1>7. Len(w) = s.size /\ s.size \in Nat /\ s.size # 0
  BY <1>3, <1>5, WindowSize
<1>i. \A i \in 1 .. s.size : w[i] = ys[Len(ys) - s.size + i]
  BY <1>3, <1>5, WindowSize
<1>8. w \in Seq(0 .. bound)
  BY <1>4, LastFacts
<1> HIDE DEF w
<1>9. w \in Seq(Int) /\ w # <<>> /\ DOMAIN w = 1 .. Len(w)
  BY <1>7, <1>8
<1>10. v \in Elements(w)
  <2> DEFINE z == s.size
  <2>1. z \in 1 .. z /\ Len(ys) - z + z = Len(xs) + 1
    BY <1>4, <1>7
  <2>2. w[z] = ys[Len(ys) - z + z]
    BY <1>i, <2>1
  <2>3. w[z] = v /\ z \in DOMAIN w
    BY <1>4, <1>7, <1>9, <2>1, <2>2
  <2> QED
    BY <2>3 DEF Elements
<1>11. \A x \in Elements(w) : x \in 0 .. bound
  BY <1>8 DEF Elements
<1>12. /\ Highest(w) \in Elements(w) /\ \A x \in Elements(w) : x <= Highest(w)
       /\ Lowest(w) \in Elements(w) /\ \A x \in Elements(w) : x >= Lowest(w)
  BY <1>9, ExtremesExist
<1>13. Lowest(w) <= v /\ v <= Highest(w) /\ Lowest(w) \in 0 .. bound /\ Highest(w) \in 0 .. bound
  BY <1>10, <1>11, <1>12
<1>14. BoundedRing(s, n, bound)
  BY <1>3, <1>4 DEF BoundedRing
<1> QED
  BY <1>6, <1>13, <1>14 DEF s

-----------------------------------------------------------------------------
(* The oscillators.                                                        *)

Hundred == 100 * Unit

LEMMA HundredNat == Hundred \in Nat /\ 50 * Unit \in 0 .. Hundred
  BY UnitAssumption DEF Hundred

NatRings(n) == {r \in RingType(n) : NatRing(r, n)}
PercentRings(n) == {r \in RingType(n) : BoundedRing(r, n, Hundred)}

LEMMA NatRingsKept ==
    ASSUME NEW n \in Nat \ {0}, NEW r \in NatRings(n), NEW v \in Nat
    PROVE  push(r, v) \in NatRings(n) /\ r.sum \in Nat /\ mean(r) \in Nat
<1>1. NatRing(r, n) /\ NatRing(push(r, v), n)
  BY NatRingPushed DEF NatRings
<1>2. push(r, v) \in RingType(n)
  BY <1>1, WindowParts DEF NatRing
<1>3. r.sum \in Nat /\ mean(r) \in Nat
  BY <1>1, NatRingFacts
<1> QED
  BY <1>1, <1>2, <1>3 DEF NatRings

LEMMA PercentRingsKept ==
    ASSUME NEW n \in Nat \ {0}, NEW r \in PercentRings(n), NEW v \in 0 .. Hundred
    PROVE  LET s == push(r, v)
           IN  /\ s \in PercentRings(n) /\ mean(s) \in 0 .. Hundred
               /\ ringMin(s) \in 0 .. Hundred /\ ringMax(s) \in 0 .. Hundred
               /\ ringMin(s) <= v /\ v <= ringMax(s)
<1> DEFINE s == push(r, v)
<1>0. Hundred \in Nat
  BY HundredNat
<1>1. BoundedRing(r, n, Hundred)
  BY DEF PercentRings
<1>2. /\ BoundedRing(s, n, Hundred) /\ ringMin(s) \in 0 .. Hundred /\ ringMax(s) \in 0 .. Hundred
      /\ ringMin(s) <= v /\ v <= ringMax(s)
  BY <1>0, <1>1, BoundedPushed
<1> HIDE DEF s
<1>3. s \in RingType(n)
  <2>1. PICK xs : IsWindow(s, n, xs)
    BY <1>2 DEF BoundedRing
  <2> QED
    BY <2>1, WindowParts
<1>4. mean(s) \in 0 .. Hundred
  BY <1>0, <1>2, BoundedMean
<1> QED
  BY <1>2, <1>3, <1>4 DEF PercentRings, s

LEMMA NewRings ==
    ASSUME NEW p \in Int
    PROVE  newRing(p) \in NatRings(Capped(p)) /\ newRing(p) \in PercentRings(Capped(p))
<1> DEFINE r == newRing(p)
           n == Capped(p)
<1>1. NatRing(r, n) /\ BoundedRing(r, n, Hundred)
  BY NoNumbers, HundredNat
<1>2. IsWindow(r, n, <<>>)
  BY EmptyWindow
<1> HIDE DEF r, n
<1>3. r \in RingType(n)
  BY <1>2, WindowParts
<1> QED
  BY <1>1, <1>3 DEF NatRings, PercentRings, r, n
-----------------------------------------------------------------------------
StrengthType(n) ==
    [period : {n}, prevClose : Int, hasPrev : BOOLEAN, avgGain : Nat, avgLoss : Nat, seeded : BOOLEAN,
     gains : NatRings(n), losses : NatRings(n), value : 0 .. Hundred]

LEMMA NewStrength ==
    ASSUME NEW p \in Nat \ {0}
    PROVE  newRSIState(p) \in StrengthType(p)
<1>1. Capped(p) = p
  BY DEF Capped
<1>2. newRing(p) \in NatRings(p)
  BY <1>1, NewRings
<1> QED
  BY <1>2, HundredNat DEF newRSIState, StrengthType

LEMMA StrengthValue ==
    ASSUME NEW g \in Nat, NEW l \in Nat
    PROVE  rsiValue(g, l) \in 0 .. Hundred
<1>1. CASE l = 0
  BY <1>1, HundredNat DEF rsiValue, Hundred
<1>2. CASE l # 0
  <2>1. g + l \in Nat \ {0} /\ g <= g + l
    BY <1>2
  <2>2. (Hundred * g) \div (g + l) \in 0 .. Hundred
    BY <2>1, HundredNat, ShareBound
  <2> QED
    BY <1>2, <2>2 DEF rsiValue, Hundred
<1> QED
  BY <1>1, <1>2

LEMMA StrengthStep ==
    ASSUME NEW n \in Nat \ {0}, NEW s \in StrengthType(n), NEW close \in Int
    PROVE  rsiStep(s, close) \in StrengthType(n)
<1> DEFINE change == close - s.prevClose
           gain == max2(change, 0)
           loss == max2(-change, 0)
           gains == push(s.gains, gain)
           losses == push(s.losses, loss)
           seen == [s EXCEPT !.prevClose = close, !.hasPrev = TRUE]
           averaged(g, l) == [seen EXCEPT !.avgGain = g, !.avgLoss = l, !.seeded = TRUE, !.value = rsiValue(g, l)]
<1>1. /\ s.prevClose \in Int /\ s.avgGain \in Nat /\ s.avgLoss \in Nat /\ s.period = n
      /\ s.gains \in NatRings(n) /\ s.losses \in NatRings(n)
  BY DEF StrengthType
<1>2. gain \in Nat /\ loss \in Nat
  BY <1>1 DEF max2
<1> HIDE DEF gain, loss
<1>3. gains \in NatRings(n) /\ losses \in NatRings(n)
  BY <1>1, <1>2, NatRingsKept
<1> HIDE DEF gains, losses
<1>4. mean(gains) \in Nat /\ mean(losses) \in Nat
  <2>1. 0 \in Nat
    OBVIOUS
  <2> QED
    BY <1>3, <2>1, NatRingsKept
<1>5. seen \in StrengthType(n)
  BY DEF StrengthType
<1> HIDE DEF seen
<1>6. ASSUME NEW g \in Nat, NEW l \in Nat PROVE averaged(g, l) \in StrengthType(n)
  <2>1. rsiValue(g, l) \in 0 .. Hundred
    BY StrengthValue
  <2> QED
    BY <1>5, <2>1 DEF StrengthType
<1>7. Smoothed(s.avgGain, gain, n) \in Nat /\ Smoothed(s.avgLoss, loss, n) \in Nat
  BY <1>1, <1>2, SmoothedNat
<1> HIDE DEF averaged
<1>8. averaged(Smoothed(s.avgGain, gain, n), Smoothed(s.avgLoss, loss, n)) \in StrengthType(n)
  BY <1>6, <1>7
<1>9. [averaged(mean(gains), mean(losses)) EXCEPT !.gains = gains, !.losses = losses] \in StrengthType(n)
  <2> DEFINE a == averaged(mean(gains), mean(losses))
  <2>1. a \in StrengthType(n)
    BY <1>4, <1>6
  <2> HIDE DEF a
  <2>2. [a EXCEPT !.gains = gains, !.losses = losses] \in StrengthType(n)
    BY <1>3, <2>1 DEF StrengthType
  <2> QED
    BY <2>2 DEF a
<1>10. [seen EXCEPT !.gains = gains, !.losses = losses] \in StrengthType(n)
  BY <1>3, <1>5 DEF StrengthType
<1>11. rsiStep(s, close) =
         IF ~s.hasPrev THEN seen
         ELSE IF s.seeded
         THEN averaged(Smoothed(s.avgGain, gain, s.period), Smoothed(s.avgLoss, loss, s.period))
         ELSE IF full(gains) THEN [averaged(mean(gains), mean(losses)) EXCEPT !.gains = gains, !.losses = losses]
         ELSE [seen EXCEPT !.gains = gains, !.losses = losses]
  BY DEF rsiStep, seen, averaged, gains, losses, gain, loss
<1> QED
  BY <1>1, <1>5, <1>8, <1>9, <1>10, <1>11

RSIType(n) == [rsi : StrengthType(n), prev : Int]

LEMMA RSIBounded ==
    ASSUME NEW n \in Nat \ {0}, NEW s \in RSIType(n), NEW c \in CandleType
    PROVE  RSI(s, c).state \in RSIType(n) /\ RSI(s, c).signal.value \in 0 .. Hundred
<1> DEFINE x == rsiStep(s.rsi, c.close)
           t == [s EXCEPT !.rsi = x]
<1>1. s.rsi \in StrengthType(n) /\ c.close \in Int
  BY CandleFields DEF RSIType
<1>2. x \in StrengthType(n)
  BY <1>1, StrengthStep
<1> HIDE DEF x
<1>3. x.value \in 0 .. Hundred /\ x.value \in Int
  <2>1. x.value \in 0 .. Hundred
    BY <1>2 DEF StrengthType
  <2> QED
    BY <2>1
<1>4. RSI(s, c).state = [t EXCEPT !.prev = x.value] /\ RSI(s, c).signal.value = x.value
  <2>1. RSI(s, c) = Plain(t, x.value)
    BY DEF RSI, x
  <2> HIDE DEF t
  <2> QED
    BY <2>1, PlainFacts
<1>5. [t EXCEPT !.prev = x.value] \in RSIType(n)
  BY <1>2, <1>3 DEF RSIType
<1> QED
  BY <1>3, <1>4, <1>5

StochType(n, k) == [rsi : StrengthType(n), rsiR : PercentRings(n), kR : PercentRings(k), prev : Int]

LEMMA StochBounded ==
    ASSUME NEW n \in Nat \ {0}, NEW k \in Nat \ {0}, NEW s \in StochType(n, k), NEW c \in CandleType
    PROVE  StochRSI(s, c).state \in StochType(n, k) /\ StochRSI(s, c).signal.value \in 0 .. Hundred
<1> DEFINE x == rsiStep(s.rsi, c.close)
           v == x.value
           window == push(s.rsiR, v)
           lo == ringMin(window)
           hi == ringMax(window)
           percentK == IF hi = lo THEN 50 * Unit ELSE ((v - lo) * 100 * Unit) \div (hi - lo)
           ks == push(s.kR, percentK)
           t == [s EXCEPT !.rsi = x, !.rsiR = window, !.kR = ks]
           m == mean(ks)
<1>1. s.rsi \in StrengthType(n) /\ c.close \in Int /\ s.rsiR \in PercentRings(n) /\ s.kR \in PercentRings(k)
  BY CandleFields DEF StochType
<1>2. x \in StrengthType(n)
  BY <1>1, StrengthStep
<1> HIDE DEF x
<1>3. v \in 0 .. Hundred
  BY <1>2 DEF StrengthType
<1> HIDE DEF v
<1>4. /\ window \in PercentRings(n) /\ lo \in 0 .. Hundred /\ hi \in 0 .. Hundred /\ lo <= v /\ v <= hi
  BY <1>1, <1>3, PercentRingsKept
<1> HIDE DEF window, lo, hi
<1>5. percentK \in 0 .. Hundred
  <2>1. CASE hi = lo
    BY <2>1, HundredNat
  <2>2. CASE hi # lo
    <3>0. Hundred \in Nat
      BY HundredNat
    <3>1. v - lo \in Nat /\ hi - lo \in Nat \ {0} /\ v - lo <= hi - lo
      BY <1>3, <1>4, <2>2, <3>0
    <3>2. (Hundred * (v - lo)) \div (hi - lo) \in 0 .. Hundred
      BY <3>0, <3>1, ShareBound
    <3> DEFINE d == v - lo
    <3>3. (d * 100) * Unit = (100 * Unit) * d
      <4>1. d \in Int /\ Unit \in Int
        BY <3>1, UnitAssumption
      <4> HIDE DEF d
      <4> QED
        BY <4>1
    <3> QED
      BY <2>2, <3>2, <3>3 DEF Hundred
  <2> QED
    BY <2>1, <2>2
<1> HIDE DEF percentK
<1>6. ks \in PercentRings(k) /\ m \in 0 .. Hundred
  BY <1>1, <1>5, PercentRingsKept
<1> HIDE DEF ks
<1>7. StochRSI(s, c).state = [t EXCEPT !.prev = m] /\ StochRSI(s, c).signal.value = m
  <2>1. StochRSI(s, c) = Plain(t, m)
    BY DEF StochRSI, x, v, window, lo, hi, percentK, ks
  <2> HIDE DEF t, m
  <2> QED
    BY <2>1, PlainFacts
<1> HIDE DEF m
<1>8. m \in Int
  BY <1>6
<1>9. [t EXCEPT !.prev = m] \in StochType(n, k)
  BY <1>2, <1>4, <1>6, <1>8 DEF StochType
<1> QED
  BY <1>6, <1>7, <1>9

(* A candle whose prices and volume are not negative and whose low is not  *)
(* above its high.                                                         *)
Sound(c) == {c.open, c.high, c.low, c.close, c.volume} \subseteq Nat /\ c.low <= c.high

FlowType(n) == [prevTP : Int, hasPrev : BOOLEAN, posFlow : NatRings(n), negFlow : NatRings(n), prev : Int]

LEMMA FlowBounded ==
    ASSUME NEW n \in Nat \ {0}, NEW s \in FlowType(n), NEW c \in CandleType, Sound(c)
    PROVE  MFI(s, c).state \in FlowType(n) /\ MFI(s, c).signal.value \in 0 .. Hundred
<1> DEFINE tp == Typical(c)
           flow == tp * c.volume
           gained == IF s.hasPrev /\ tp > s.prevTP THEN flow ELSE 0
           lost == IF s.hasPrev /\ tp < s.prevTP THEN flow ELSE 0
           pos == push(s.posFlow, gained)
           neg == push(s.negFlow, lost)
           mfi == IF neg.sum # 0 THEN (100 * Unit * pos.sum) \div (pos.sum + neg.sum)
                  ELSE IF pos.sum > 0 THEN 100 * Unit ELSE 50 * Unit
           t == [s EXCEPT !.prevTP = tp, !.hasPrev = TRUE, !.posFlow = pos, !.negFlow = neg]
<1>1. tp \in Nat
  <2> DEFINE total == c.high + c.low + c.close
  <2>1. total \in Nat
    BY DEF Sound
  <2>2. 3 \in Nat \ {0}
    OBVIOUS
  <2> HIDE DEF total
  <2>3. total \div 3 \in Nat
    BY <2>1, <2>2, Quotient
  <2> QED
    BY <2>3 DEF Typical, total
<1>2. flow \in Nat
  <2>1. c.volume \in Nat
    BY DEF Sound
  <2> HIDE DEF tp
  <2> QED
    BY <1>1, <2>1
<1> HIDE DEF flow
<1>3. gained \in Nat /\ lost \in Nat /\ s.posFlow \in NatRings(n) /\ s.negFlow \in NatRings(n)
  BY <1>2 DEF FlowType
<1> HIDE DEF gained, lost
<1>4. pos \in NatRings(n) /\ neg \in NatRings(n)
  BY <1>3, NatRingsKept
<1> HIDE DEF pos, neg
<1> DEFINE a == pos.sum
           b == neg.sum
<1>5. a \in Nat /\ b \in Nat
  <2>1. 0 \in Nat
    OBVIOUS
  <2> QED
    BY <1>4, <2>1, NatRingsKept
<1>6. mfi \in 0 .. Hundred
  <2> HIDE DEF a, b
  <2>1. b # 0 => (Hundred * a) \div (a + b) \in 0 .. Hundred
    <3> SUFFICES ASSUME b # 0 PROVE (Hundred * a) \div (a + b) \in 0 .. Hundred
      OBVIOUS
    <3>1. a + b \in Nat \ {0} /\ a <= a + b /\ Hundred \in Nat
      BY <1>5, HundredNat
    <3> QED
      BY <1>5, <3>1, ShareBound
  <2>2. mfi = IF b # 0 THEN (Hundred * a) \div (a + b) ELSE IF a > 0 THEN Hundred ELSE 50 * Unit
    BY DEF a, b, Hundred
  <2>3. Hundred \in 0 .. Hundred /\ 50 * Unit \in 0 .. Hundred
    BY HundredNat
  <2> QED
    BY <2>1, <2>2, <2>3
<1> HIDE DEF mfi, a, b
<1>7. MFI(s, c).state = [t EXCEPT !.prev = mfi] /\ MFI(s, c).signal.value = mfi
  <2>1. MFI(s, c) = Plain(t, mfi)
    BY DEF MFI, mfi, pos, neg, gained, lost, flow
  <2> HIDE DEF t
  <2> QED
    BY <2>1, PlainFacts
<1>8. mfi \in Int /\ tp \in Int
  BY <1>1, <1>6
<1> HIDE DEF tp
<1>9. [t EXCEPT !.prev = mfi] \in FlowType(n)
  BY <1>4, <1>8 DEF FlowType
<1> QED
  BY <1>6, <1>7, <1>9

-----------------------------------------------------------------------------
RangeType(n) ==
    [period : {n}, prevClose : Int, hasPrev : BOOLEAN, seedR : NatRings(n), seeded : BOOLEAN, value : Nat]

LEMMA RangeStep ==
    ASSUME NEW n \in Nat \ {0}, NEW a \in RangeType(n), NEW c \in CandleType, Sound(c)
    PROVE  atrUpdate(a, c) \in RangeType(n)
<1> DEFINE tr == trueRange(a, c)
           seen == [a EXCEPT !.hasPrev = TRUE, !.prevClose = c.close]
           seed == push(a.seedR, tr)
           next == [seen EXCEPT !.value = Smoothed(@, tr, a.period)]
           first == [seen EXCEPT !.seedR = seed, !.value = mean(seed), !.seeded = full(seed)]
<1>1. a.period = n /\ a.value \in Nat /\ a.seedR \in NatRings(n) /\ a.prevClose \in Int
  BY DEF RangeType
<1>2. c.high - c.low \in Nat /\ c.close \in Int /\ c.high \in Int /\ c.low \in Int
  BY CandleFields DEF Sound
<1>3. tr \in Nat
  <2> DEFINE d == c.high - c.low
             u == c.high - a.prevClose
             v == c.low - a.prevClose
  <2>1. d \in Nat /\ u \in Int /\ v \in Int
    BY <1>1, <1>2
  <2>2. trueRange(a, c) = IF ~a.hasPrev THEN d ELSE max2(d, max2(Abs(u), Abs(v)))
    BY DEF trueRange
  <2> HIDE DEF d, u, v
  <2>3. Abs(u) \in Nat /\ Abs(v) \in Nat
    BY <2>1 DEF Abs
  <2>4. max2(d, max2(Abs(u), Abs(v))) \in Nat
    BY <2>1, <2>3 DEF max2
  <2> QED
    BY <2>1, <2>2, <2>4
<1> HIDE DEF tr
<1>4. seed \in NatRings(n)
  BY <1>1, <1>3, NatRingsKept
<1> HIDE DEF seed
<1>5. mean(seed) \in Nat
  <2>1. 0 \in Nat
    OBVIOUS
  <2> QED
    BY <1>4, <2>1, NatRingsKept
<1>6. seen \in RangeType(n) /\ seen.value = a.value
  BY <1>2 DEF RangeType
<1> HIDE DEF seen
<1>7. Smoothed(a.value, tr, n) \in Nat
  BY <1>1, <1>3, SmoothedNat
<1>8. next \in RangeType(n)
  <2> DEFINE v == Smoothed(seen.value, tr, a.period)
  <2>1. v \in Nat
    BY <1>1, <1>6, <1>7
  <2> HIDE DEF v
  <2>2. [seen EXCEPT !.value = v] \in RangeType(n)
    BY <1>6, <2>1 DEF RangeType
  <2> QED
    BY <2>2 DEF v
<1>9. first \in RangeType(n)
  <2>1. full(seed) \in BOOLEAN
    BY DEF full
  <2> DEFINE f == full(seed)
             v == mean(seed)
  <2>2. f \in BOOLEAN /\ v \in Nat
    BY <1>5, <2>1
  <2> HIDE DEF f, v
  <2>3. [seen EXCEPT !.seedR = seed, !.value = v, !.seeded = f] \in RangeType(n)
    BY <1>4, <1>6, <2>2 DEF RangeType
  <2> QED
    BY <2>3 DEF f, v
<1>10. atrUpdate(a, c) = IF a.seeded THEN next ELSE first
  BY DEF atrUpdate, tr, seen, seed
<1> QED
  BY <1>8, <1>9, <1>10

DirectionType(n) ==
    [period : {n}, atr : RangeType(n), prevHigh : Int, prevLow : Int, hasPrev : BOOLEAN,
     avgPlusDM : Nat, avgMinusDM : Nat, dmSeedPlus : NatRings(n), dmSeedMinus : NatRings(n), seeded : BOOLEAN,
     adxR : PercentRings(n), adx : 0 .. Hundred, prev : Int]

LEMMA DirectedStep ==
    ASSUME NEW n \in Nat \ {0}, NEW s \in DirectionType(n), NEW p \in Nat, NEW m \in Nat
    PROVE  /\ Directed(s, p, m) \in DirectionType(n)
<1> DEFINE plus == push(s.dmSeedPlus, p)
           minus == push(s.dmSeedMinus, m)
           seeding == [s EXCEPT !.dmSeedPlus = plus, !.dmSeedMinus = minus]
           a == Smoothed(s.avgPlusDM, p, s.period)
           b == Smoothed(s.avgMinusDM, m, s.period)
           u == mean(plus)
           v == mean(minus)
<1>1. /\ s.period = n /\ s.avgPlusDM \in Nat /\ s.avgMinusDM \in Nat
      /\ s.dmSeedPlus \in NatRings(n) /\ s.dmSeedMinus \in NatRings(n)
  BY DEF DirectionType
<1>2. plus \in NatRings(n) /\ minus \in NatRings(n)
  BY <1>1, NatRingsKept
<1> HIDE DEF plus, minus
<1>3. u \in Nat /\ v \in Nat
  <2>1. 0 \in Nat
    OBVIOUS
  <2> QED
    BY <1>2, <2>1, NatRingsKept
<1>4. a \in Nat /\ b \in Nat
  BY <1>1, SmoothedNat
<1>5. Directed(s, p, m) =
        IF s.seeded THEN [s EXCEPT !.avgPlusDM = a, !.avgMinusDM = b]
        ELSE IF full(plus) THEN [seeding EXCEPT !.avgPlusDM = u, !.avgMinusDM = v, !.seeded = TRUE]
        ELSE seeding
  BY DEF Directed, plus, minus
<1> HIDE DEF a, b, u, v
<1>6. [s EXCEPT !.avgPlusDM = a, !.avgMinusDM = b] \in DirectionType(n)
  BY <1>4 DEF DirectionType
<1>7. seeding \in DirectionType(n)
  BY <1>2 DEF DirectionType
<1> HIDE DEF seeding
<1>8. [seeding EXCEPT !.avgPlusDM = u, !.avgMinusDM = v, !.seeded = TRUE] \in DirectionType(n)
  BY <1>3, <1>7 DEF DirectionType
<1> QED
  BY <1>5, <1>6, <1>7, <1>8

LEMMA DirectionBounded ==
    ASSUME NEW n \in Nat \ {0}, NEW s \in DirectionType(n), NEW c \in CandleType, Sound(c)
    PROVE  ADX(s, c).state \in DirectionType(n) /\ ADX(s, c).signal.value \in 0 .. Hundred
<1> DEFINE atr == atrUpdate(s.atr, c)
           up == c.high - s.prevHigh
           down == s.prevLow - c.low
           plusDM == IF s.hasPrev /\ up > down /\ up > 0 THEN up ELSE 0
           minusDM == IF s.hasPrev /\ down > up /\ down > 0 THEN down ELSE 0
           d == Directed(s, plusDM, minusDM)
           plusDI == IF atr.value = 0 THEN 0 ELSE (100 * Unit * d.avgPlusDM) \div atr.value
           minusDI == IF atr.value = 0 THEN 0 ELSE (100 * Unit * d.avgMinusDM) \div atr.value
           dx == IF plusDI + minusDI = 0 THEN 0
                 ELSE (100 * Unit * Abs(plusDI - minusDI)) \div (plusDI + minusDI)
           window == push(s.adxR, dx)
           adx == IF s.adx # 0 THEN Smoothed(s.adx, dx, s.period)
                  ELSE IF full(window) THEN mean(window) ELSE 0
           t == [d EXCEPT !.atr = atr, !.prevHigh = c.high, !.prevLow = c.low, !.hasPrev = TRUE,
                          !.adxR = window, !.adx = adx]
<1>0. Hundred \in Nat
  BY HundredNat
<1>1. /\ s.period = n /\ s.atr \in RangeType(n) /\ s.prevHigh \in Int /\ s.prevLow \in Int
      /\ s.adxR \in PercentRings(n) /\ s.adx \in 0 .. Hundred
  BY DEF DirectionType
<1>2. c.high \in Int /\ c.low \in Int
  BY CandleFields
<1>3. atr \in RangeType(n)
  BY <1>1, RangeStep
<1> HIDE DEF atr
<1>4. atr.value \in Nat
  BY <1>3 DEF RangeType
<1>5. up \in Int /\ down \in Int
  BY <1>1, <1>2
<1> HIDE DEF up, down
<1>6. plusDM \in Nat /\ minusDM \in Nat
  BY <1>5
<1> HIDE DEF plusDM, minusDM
<1>7. d \in DirectionType(n)
  BY <1>6, DirectedStep
<1> HIDE DEF d
<1>8. d.avgPlusDM \in Nat /\ d.avgMinusDM \in Nat
  BY <1>7 DEF DirectionType
<1>9. plusDI \in Nat /\ minusDI \in Nat
  <2>1. CASE atr.value = 0
    BY <2>1
  <2>2. CASE atr.value # 0
    <3> DEFINE x == d.avgPlusDM
               y == d.avgMinusDM
               z == atr.value
    <3>1. x \in Nat /\ y \in Nat /\ z \in Nat \ {0}
      BY <1>4, <1>8, <2>2
    <3>2. plusDI = (Hundred * x) \div z /\ minusDI = (Hundred * y) \div z
      BY <2>2 DEF Hundred
    <3> HIDE DEF x, y, z, plusDI, minusDI
    <3>3. Hundred * x \in Nat /\ Hundred * y \in Nat
      BY <1>0, <3>1
    <3>4. (Hundred * x) \div z \in Nat /\ (Hundred * y) \div z \in Nat
      BY <3>1, <3>3, Quotient
    <3> QED
      BY <3>2, <3>4
  <2> QED
    BY <2>1, <2>2
<1> HIDE DEF plusDI, minusDI
<1>10. dx \in 0 .. Hundred
  <2>1. CASE plusDI + minusDI = 0
    BY <1>0, <2>1
  <2>2. CASE plusDI + minusDI # 0
    <3> DEFINE a == Abs(plusDI - minusDI)
               b == plusDI + minusDI
    <3>1. a \in Nat /\ b \in Nat \ {0} /\ a <= b
      BY <1>9, <2>2 DEF Abs
    <3>2. dx = (Hundred * a) \div b
      BY <2>2 DEF Hundred
    <3> HIDE DEF a, b, dx
    <3>3. (Hundred * a) \div b \in 0 .. Hundred
      BY <1>0, <3>1, ShareBound
    <3> QED
      BY <3>2, <3>3
  <2> QED
    BY <2>1, <2>2
<1> HIDE DEF dx
<1>11. window \in PercentRings(n) /\ mean(window) \in 0 .. Hundred
  BY <1>1, <1>10, PercentRingsKept
<1> HIDE DEF window
<1>12. adx \in 0 .. Hundred
  <2>1. Smoothed(s.adx, dx, n) \in 0 .. Hundred
    BY <1>0, <1>1, <1>10, SmoothedBound
  <2>2. 0 \in 0 .. Hundred
    BY <1>0
  <2> QED
    BY <1>1, <1>11, <2>1, <2>2
<1>13. ADX(s, c) = Plain(t, adx)
  BY DEF ADX, t, adx, window, dx, plusDI, minusDI, d, plusDM, minusDM, up, down, atr
<1> HIDE DEF adx
<1>14. t \in DirectionType(n)
  BY <1>2, <1>3, <1>7, <1>11, <1>12 DEF DirectionType
<1> HIDE DEF t
<1>15. ADX(s, c).state = [t EXCEPT !.prev = adx] /\ ADX(s, c).signal.value = adx
  BY <1>13, PlainFacts
<1>16. adx \in Int
  BY <1>0, <1>12
<1>17. [t EXCEPT !.prev = adx] \in DirectionType(n)
  BY <1>14, <1>16 DEF DirectionType
<1> QED
  BY <1>12, <1>15, <1>17

LEMMA NewDirection ==
    ASSUME NEW p \in Nat \ {0}, NEW params, param(params, "period", 14) = p
    PROVE  newADX(params) \in DirectionType(p)
<1>1. Capped(p) = p
  BY DEF Capped
<1>2. newRing(p) \in NatRings(p) /\ newRing(p) \in PercentRings(p)
  BY <1>1, NewRings
<1>3. newATRState(p) \in RangeType(p)
  BY <1>2 DEF newATRState, RangeType
<1>4. 0 \in 0 .. Hundred
  BY HundredNat
<1> QED
  BY <1>2, <1>3, <1>4 DEF newADX, DirectionType

-----------------------------------------------------------------------------
(* What the state of each indicator says of the history it was given.      *)

Window(name, params) == Capped(PeriodOf(name, params))

Tracks(name, params, s, h) ==
    LET n == Window(name, params)
    IN  /\ name \in {"price", "close"} => KeepsField(s, "close")
        /\ name \in {"open", "high", "low"} => KeepsField(s, name)
        /\ name \in {"sma", "roc"} => Keeps(s, n, Column(h, "close"))
        /\ name = "highest_high" => Keeps(s, n, Column(h, "high"))
        /\ name = "lowest_low" => Keeps(s, n, Column(h, "low"))
        /\ name = "donchian_channel" => KeepsChannel(s, n, Column(h, "high"), Column(h, "low"))
        /\ name = "support" => KeepsLevel(s, n, TRUE, Column(h, "low"))
        /\ name = "resistance" => KeepsLevel(s, n, FALSE, Column(h, "high"))
        /\ name = "obv" => KeepsBalance(s, h)
        /\ name = "vwap" => KeepsDay(s, h)
        /\ name = "volume" => Keeps(s, n, ScaledVolumes(h))
        /\ name = "cci" => Keeps(s, n, Typicals(h))
        /\ name = "bollinger_bands" => KeepsCloses(s, n, param(params, "std_dev", 2), Column(h, "close"))
        /\ name = "prev_high" => KeepsHigh(s, h)
        /\ name = "prev_low" => KeepsLow(s, h)
        /\ name \in {"gap_up", "gap_down"} => KeepsLast(s, h)
        /\ PeriodOf(name, params) > 0 =>
              /\ name = "rsi" => s \in RSIType(n)
              /\ name = "stochastic_rsi" => s \in StochType(n, Capped(param(params, "k", 3)))
              /\ name = "mfi" => s \in FlowType(n)
              /\ name = "adx" => s \in DirectionType(n)

(* The windows of a series are whole numbers of candles.                   *)
KeyParams(name, params) == PeriodOf(name, params) \in Int /\ param(params, "k", 3) \in Int

LEMMA WindowFacts ==
    ASSUME NEW name, NEW params, KeyParams(name, params)
    PROVE  /\ Window(name, params) \in Nat \ {0} /\ Window(name, params) = max2(1, PeriodOf(name, params))
           /\ Capped(param(params, "k", 3)) \in Nat \ {0}
           /\ PeriodOf(name, params) > 0 => Window(name, params) = PeriodOf(name, params)
<1> DEFINE p == PeriodOf(name, params)
           k == param(params, "k", 3)
<1>1. p \in Int /\ k \in Int
  BY DEF KeyParams
<1> HIDE DEF p, k
<1>2. Capped(p) \in Nat \ {0} /\ Capped(k) \in Nat \ {0} /\ Capped(p) = max2(1, p) /\ (p > 0 => Capped(p) = p)
  BY <1>1 DEF Capped, max2
<1> QED
  BY <1>2 DEF Window, p, k

LEMMA NoColumns ==
    /\ \A field : Column(<<>>, field) = <<>>
    /\ Typicals(<<>>) = <<>> /\ ScaledVolumes(<<>>) = <<>> /\ Moves(<<>>) = <<>>
<1>1. Len(<<>>) = 0
  OBVIOUS
<1>2. \A field : Column(<<>>, field) = <<>>
  BY <1>1 DEF Column
<1>3. Typicals(<<>>) = <<>> /\ ScaledVolumes(<<>>) = <<>>
  BY <1>1 DEF Typicals, ScaledVolumes
<1>4. Moves(<<>>) = <<>>
  BY <1>1 DEF Moves
<1> QED
  BY <1>2, <1>3, <1>4

(* A new instance has been given nothing.                                  *)
LEMMA NewTracks ==
    ASSUME NEW name, NEW params, NEW pattern, KeyParams(name, params)
    PROVE  Tracks(name, params, New(name, params, pattern), <<>>)
<1> DEFINE p == PeriodOf(name, params)
           n == Window(name, params)
           s == New(name, params, pattern)
           h == <<>>
<1>0. p \in Int /\ n = Capped(p) /\ param(params, "k", 3) \in Int
  BY DEF KeyParams, Window
<1>1. IsWindow(newRing(p), n, <<>>) /\ newRing(p) \in NatRings(n) /\ newRing(p) \in PercentRings(n)
  BY <1>0, EmptyWindow, NewRings
<1>2. p > 0 => n = p /\ p \in Nat \ {0}
  BY <1>0, WindowFacts
<1>3. ASSUME name \in {"price", "close"} PROVE KeepsField(s, "close")
  <2>1. s = [field |-> "close", prev |-> 0]
    BY <1>3 DEF New, newPrice
  <2> HIDE DEF s, p, n
  <2> QED
    BY <2>1 DEF KeepsField
<1>4. ASSUME name \in {"open", "high", "low"} PROVE KeepsField(s, name)
  <2>1. s = [field |-> name, prev |-> 0]
    BY <1>4 DEF New, newPrice
  <2> HIDE DEF s, p, n
  <2> QED
    BY <2>1 DEF KeepsField
<1>5. ASSUME name = "sma" PROVE Keeps(s, n, Column(h, "close"))
  <2>1. s = [r |-> newRing(p), prev |-> 0]
    BY <1>5 DEF New, newSMA, newWindow, PeriodOf, Oscillators
  <2> HIDE DEF s, p, n
  <2> QED
    BY <1>1, NoColumns, <2>1 DEF Keeps
<1>6. ASSUME name = "roc" PROVE Keeps(s, n, Column(h, "close"))
  <2>1. s = [r |-> newRing(p), prev |-> 0]
    BY <1>6 DEF New, newROC, newWindow, PeriodOf, Oscillators
  <2> HIDE DEF s, p, n
  <2> QED
    BY <1>1, NoColumns, <2>1 DEF Keeps
<1>7. ASSUME name = "highest_high" PROVE Keeps(s, n, Column(h, "high"))
  <2>1. s = [r |-> newRing(p), prev |-> 0]
    BY <1>7 DEF New, newHighestHigh, newWindow, PeriodOf
  <2> HIDE DEF s, p, n
  <2> QED
    BY <1>1, NoColumns, <2>1 DEF Keeps
<1>8. ASSUME name = "lowest_low" PROVE Keeps(s, n, Column(h, "low"))
  <2>1. s = [r |-> newRing(p), prev |-> 0]
    BY <1>8 DEF New, newLowestLow, newWindow, PeriodOf
  <2> HIDE DEF s, p, n
  <2> QED
    BY <1>1, NoColumns, <2>1 DEF Keeps
<1>9. ASSUME name = "donchian_channel" PROVE KeepsChannel(s, n, Column(h, "high"), Column(h, "low"))
  <2>1. s = [highs |-> newRing(p), lows |-> newRing(p), hasPrev |-> FALSE]
    BY <1>9 DEF New, newDonchian, PeriodOf, Oscillators
  <2> HIDE DEF s, p, n
  <2> QED
    BY <1>1, NoColumns, <2>1 DEF KeepsChannel
<1>10. ASSUME name = "support" PROVE KeepsLevel(s, n, TRUE, Column(h, "low"))
  <2>1. s = [isSupport |-> TRUE, r |-> newRing(p), prev |-> 0]
    BY <1>10 DEF New, newSupportResistance, PeriodOf
  <2> HIDE DEF s, p, n
  <2> QED
    BY <1>1, NoColumns, <2>1 DEF KeepsLevel
<1>11. ASSUME name = "resistance" PROVE KeepsLevel(s, n, FALSE, Column(h, "high"))
  <2>1. s = [isSupport |-> FALSE, r |-> newRing(p), prev |-> 0]
    BY <1>11 DEF New, newSupportResistance, PeriodOf
  <2> HIDE DEF s, p, n
  <2> QED
    BY <1>1, NoColumns, <2>1 DEF KeepsLevel
<1>12. ASSUME name = "obv" PROVE KeepsBalance(s, h)
  <2>1. s = [obv |-> 0, prevClose |-> 0, hasPrev |-> FALSE]
    BY <1>12 DEF New, newOBV
  <2> HIDE DEF s, p, n
  <2> QED
    BY NoColumns, SumOfNone, <2>1 DEF KeepsBalance
<1>13. ASSUME name = "vwap" PROVE KeepsDay(s, h)
  <2>1. s = [day |-> -1, cumPV |-> 0, cumVol |-> 0, prev |-> 0]
    BY <1>13 DEF New, newVWAP
  <2> HIDE DEF s, p, n
  <2> QED
    BY <2>1 DEF KeepsDay
<1>14. ASSUME name = "volume" PROVE Keeps(s, n, ScaledVolumes(h))
  <2>1. s = [r |-> newRing(p), prev |-> 0]
    BY <1>14 DEF New, newVolume, newWindow, PeriodOf, Oscillators
  <2> HIDE DEF s, p, n
  <2> QED
    BY <1>1, NoColumns, <2>1 DEF Keeps
<1>15. ASSUME name = "cci" PROVE Keeps(s, n, Typicals(h))
  <2>1. s = [r |-> newRing(p), prev |-> 0]
    BY <1>15 DEF New, newCCI, newWindow, PeriodOf, Oscillators
  <2> HIDE DEF s, p, n
  <2> QED
    BY <1>1, NoColumns, <2>1 DEF Keeps
<1>16. ASSUME name = "bollinger_bands" PROVE KeepsCloses(s, n, param(params, "std_dev", 2), Column(h, "close"))
  <2>1. s = [r |-> newRing(p), stdDev |-> param(params, "std_dev", 2)]
    BY <1>16 DEF New, newBollinger, PeriodOf, Oscillators
  <2> HIDE DEF s, p, n
  <2> QED
    BY <1>1, NoColumns, <2>1 DEF KeepsCloses
<1>17. ASSUME name = "prev_high" PROVE KeepsHigh(s, h)
  <2>1. s = [isHigh |-> TRUE, level |-> 0, hasLevel |-> FALSE, prevClose |-> 0]
    BY <1>17 DEF New, newPrevLevel
  <2> HIDE DEF s, p, n
  <2> QED
    BY <2>1 DEF KeepsHigh
<1>18. ASSUME name = "prev_low" PROVE KeepsLow(s, h)
  <2>1. s = [isHigh |-> FALSE, level |-> 0, hasLevel |-> FALSE, prevClose |-> 0]
    BY <1>18 DEF New, newPrevLevel
  <2> HIDE DEF s, p, n
  <2> QED
    BY <2>1 DEF KeepsLow
<1>19. ASSUME name \in {"gap_up", "gap_down"} PROVE KeepsLast(s, h)
  <2>1. \E isUp, minPct : s = [isUp |-> isUp, minPct |-> minPct, prevClose |-> 0, hasPrev |-> FALSE]
    BY <1>19 DEF New, newGap
  <2> HIDE DEF s, p, n
  <2> QED
    BY <2>1 DEF KeepsLast
<1>20. ASSUME name = "rsi" /\ p > 0 PROVE s \in RSIType(n)
  <2>1. s = [rsi |-> newRSIState(p), prev |-> 0]
    BY <1>20 DEF New, newRSI, PeriodOf, Oscillators
  <2> HIDE DEF s, p, n
  <2> QED
    BY <1>20, <1>2, NewStrength, <2>1 DEF RSIType
<1>21. ASSUME name = "stochastic_rsi" /\ p > 0 PROVE s \in StochType(n, Capped(param(params, "k", 3)))
  <2>1. s = [rsi |-> newRSIState(p), rsiR |-> newRing(p), kR |-> newRing(param(params, "k", 3)), prev |-> 0]
    BY <1>21 DEF New, newStochRSI, PeriodOf, Oscillators
  <2> HIDE DEF s, p, n
  <2> QED
    BY <1>21, <1>0, <1>1, <1>2, NewStrength, NewRings, <2>1 DEF StochType
<1>22. ASSUME name = "mfi" /\ p > 0 PROVE s \in FlowType(n)
  <2>1. s = [prevTP |-> 0, hasPrev |-> FALSE, posFlow |-> newRing(p), negFlow |-> newRing(p), prev |-> 0]
    BY <1>22 DEF New, newMFI, PeriodOf, Oscillators
  <2> HIDE DEF s, p, n
  <2> QED
    BY <1>1, <2>1 DEF FlowType
<1>23. ASSUME name = "adx" /\ p > 0 PROVE s \in DirectionType(n)
  <2>1. s = newADX(params) /\ param(params, "period", 14) = p
    BY <1>23 DEF New, PeriodOf, Oscillators
  <2> HIDE DEF s, p, n
  <2> QED
    BY <1>2, <1>23, <2>1, NewDirection
<1> HIDE DEF s, p, n
<1> QED
  BY <1>3, <1>4, <1>5, <1>6, <1>7, <1>8, <1>9, <1>10, <1>11, <1>12, <1>13, <1>14, <1>15, <1>16, <1>17, <1>18, <1>19, <1>20, <1>21, <1>22, <1>23 DEF Tracks, s, n, p

-----------------------------------------------------------------------------
(* The textbook, indicator by indicator: n is the window, past the history without its last candle. *)

TextbookSays(name, params, h, n, past) ==
    /\ name \in {"price", "close"} => Textbook(name, params, h) =
            h[Len(h)].close
    /\ name \in {"open", "high", "low"} => Textbook(name, params, h) =
            h[Len(h)][name]
    /\ name = "sma" => Textbook(name, params, h) =
            Average(LastOf(Column(h, "close"), n))
    /\ name = "highest_high" => Textbook(name, params, h) =
            Highest(LastOf(Column(h, "high"), n))
    /\ name = "lowest_low" => Textbook(name, params, h) =
            Lowest(LastOf(Column(h, "low"), n))
    /\ name = "donchian_channel" => Textbook(name, params, h) =
            (Highest(LastOf(Column(h, "high"), n)) + Lowest(LastOf(Column(h, "low"), n))) \div 2
    /\ name = "support" => Textbook(name, params, h) =
            IF past = <<>> THEN 0 ELSE Lowest(LastOf(Column(past, "low"), n))
    /\ name = "resistance" => Textbook(name, params, h) =
            IF past = <<>> THEN 0 ELSE Highest(LastOf(Column(past, "high"), n))
    /\ name = "roc" => Textbook(name, params, h) =
            IF Len(h) <= n \/ h[Len(h) - n].close = 0 THEN 0
                         ELSE ChangeOf(h[Len(h) - n].close, h[Len(h)].close)
    /\ name = "obv" => Textbook(name, params, h) =
            Unit * SumOver(Moves(h))
    /\ name = "vwap" => Textbook(name, params, h) =
            IF SumOver(VolumesOf(h, h[Len(h)].day)) > 0
                          THEN SumOver(TradedOf(h, h[Len(h)].day)) \div SumOver(VolumesOf(h, h[Len(h)].day)) ELSE 0
    /\ name = "volume" => Textbook(name, params, h) =
            IF Average(LastOf(ScaledVolumes(past), n)) > 0
                            THEN (ScaledVolume(h[Len(h)]) * 100 * Unit) \div Average(LastOf(ScaledVolumes(past), n)) ELSE 0
    /\ name = "cci" => Textbook(name, params, h) =
            ChannelIndexOf(LastOf(Typicals(h), n), Deviation(LastOf(Typicals(h), n)))
    /\ name = "bollinger_bands" => Textbook(name, params, h) =
            PercentB(h[Len(h)].close, Average(LastOf(Column(h, "close"), n)),
                                     param(params, "std_dev", 2) * Sqrt(Variance(LastOf(Column(h, "close"), n))))
    /\ name = "prev_high" => Textbook(name, params, h) =
            IF past = <<>> THEN 0 ELSE h[Len(h) - 1].high
    /\ name = "prev_low" => Textbook(name, params, h) =
            IF past = <<>> THEN 0 ELSE h[Len(h) - 1].low
    /\ name \in {"gap_up", "gap_down"} => Textbook(name, params, h) =
            IF past = <<>> \/ h[Len(h) - 1].close = 0 THEN 0
                                       ELSE ChangeOf(h[Len(h) - 1].close, h[Len(h)].open)

LEMMA TextbookOf ==
    ASSUME NEW name, NEW params, NEW h, NEW n, n = max2(1, PeriodOf(name, params)),
           NEW past, past = SubSeq(h, 1, Len(h) - 1)
    PROVE  TextbookSays(name, params, h, n, past)
<1>1. ASSUME name \in {"price", "close"} PROVE Textbook(name, params, h) =
        h[Len(h)].close
  BY <1>1 DEF Textbook
<1>2. ASSUME name \in {"open", "high", "low"} PROVE Textbook(name, params, h) =
        h[Len(h)][name]
  BY <1>2 DEF Textbook
<1>3. ASSUME name = "sma" PROVE Textbook(name, params, h) =
        Average(LastOf(Column(h, "close"), n))
  BY <1>3 DEF Textbook
<1>4. ASSUME name = "highest_high" PROVE Textbook(name, params, h) =
        Highest(LastOf(Column(h, "high"), n))
  BY <1>4 DEF Textbook
<1>5. ASSUME name = "lowest_low" PROVE Textbook(name, params, h) =
        Lowest(LastOf(Column(h, "low"), n))
  BY <1>5 DEF Textbook
<1>6. ASSUME name = "donchian_channel" PROVE Textbook(name, params, h) =
        (Highest(LastOf(Column(h, "high"), n)) + Lowest(LastOf(Column(h, "low"), n))) \div 2
  BY <1>6 DEF Textbook
<1>7. ASSUME name = "support" PROVE Textbook(name, params, h) =
        IF past = <<>> THEN 0 ELSE Lowest(LastOf(Column(past, "low"), n))
  BY <1>7 DEF Textbook
<1>8. ASSUME name = "resistance" PROVE Textbook(name, params, h) =
        IF past = <<>> THEN 0 ELSE Highest(LastOf(Column(past, "high"), n))
  BY <1>8 DEF Textbook
<1>9. ASSUME name = "roc" PROVE Textbook(name, params, h) =
        IF Len(h) <= n \/ h[Len(h) - n].close = 0 THEN 0
                         ELSE ChangeOf(h[Len(h) - n].close, h[Len(h)].close)
  BY <1>9 DEF Textbook
<1>10. ASSUME name = "obv" PROVE Textbook(name, params, h) =
        Unit * SumOver(Moves(h))
  BY <1>10 DEF Textbook
<1>11. ASSUME name = "vwap" PROVE Textbook(name, params, h) =
        IF SumOver(VolumesOf(h, h[Len(h)].day)) > 0
                          THEN SumOver(TradedOf(h, h[Len(h)].day)) \div SumOver(VolumesOf(h, h[Len(h)].day)) ELSE 0
  BY <1>11 DEF Textbook
<1>12. ASSUME name = "volume" PROVE Textbook(name, params, h) =
        IF Average(LastOf(ScaledVolumes(past), n)) > 0
                            THEN (ScaledVolume(h[Len(h)]) * 100 * Unit) \div Average(LastOf(ScaledVolumes(past), n)) ELSE 0
  BY <1>12 DEF Textbook
<1>13. ASSUME name = "cci" PROVE Textbook(name, params, h) =
        ChannelIndexOf(LastOf(Typicals(h), n), Deviation(LastOf(Typicals(h), n)))
  BY <1>13 DEF Textbook
<1>14. ASSUME name = "bollinger_bands" PROVE Textbook(name, params, h) =
        PercentB(h[Len(h)].close, Average(LastOf(Column(h, "close"), n)),
                                     param(params, "std_dev", 2) * Sqrt(Variance(LastOf(Column(h, "close"), n))))
  BY <1>14 DEF Textbook
<1>15. ASSUME name = "prev_high" PROVE Textbook(name, params, h) =
        IF past = <<>> THEN 0 ELSE h[Len(h) - 1].high
  BY <1>15 DEF Textbook
<1>16. ASSUME name = "prev_low" PROVE Textbook(name, params, h) =
        IF past = <<>> THEN 0 ELSE h[Len(h) - 1].low
  BY <1>16 DEF Textbook
<1>17. ASSUME name \in {"gap_up", "gap_down"} PROVE Textbook(name, params, h) =
        IF past = <<>> \/ h[Len(h) - 1].close = 0 THEN 0
                                       ELSE ChangeOf(h[Len(h) - 1].close, h[Len(h)].open)
  BY <1>17 DEF Textbook
<1> QED
  BY <1>1, <1>2, <1>3, <1>4, <1>5, <1>6, <1>7, <1>8, <1>9, <1>10, <1>11, <1>12, <1>13, <1>14, <1>15, <1>16, <1>17 DEF TextbookSays

-----------------------------------------------------------------------------
(* One more candle: the state follows the history and the value is right.  *)

LEMMA UpdateTracks ==
    ASSUME NEW h \in Seq(CandleType), NEW c \in CandleType, Sound(c), Ordered(h), Ordered(Append(h, c)),
           NEW name, NEW params, KeyParams(name, params), NEW s, Tracks(name, params, s, h)
    PROVE  /\ Tracks(name, params, Update(name, s, c).state, Append(h, c))
           /\ Reads(name, params, Append(h, c), Update(name, s, c).signal.value)
<1> DEFINE p == PeriodOf(name, params)
           n == Window(name, params)
           k == Append(h, c)
           m == Len(h)
           out == Update(name, s, c)
           t == out.state
           v == out.signal.value
           K == Capped(param(params, "k", 3))
           dev == param(params, "std_dev", 2)
           closes == Column(h, "close")
           highs == Column(h, "high")
           lows == Column(h, "low")
           closesK == Column(k, "close")
           highsK == Column(k, "high")
           lowsK == Column(k, "low")
<1>1. n \in Nat \ {0} /\ n = max2(1, p) /\ K \in Nat \ {0} /\ p \in Int
  BY WindowFacts DEF KeyParams
<1>2. /\ m \in Nat /\ k \in Seq(CandleType) /\ Len(k) = m + 1 /\ k[m + 1] = c /\ k # <<>>
      /\ \A i \in 1 .. m : k[i] = h[i]
  BY HistoryExtended
<1>3. TextbookSays(name, params, k, n, h)
  <2>1. SubSeq(k, 1, Len(k) - 1) = h
    BY PastOf
  <2> HIDE DEF k
  <2> QED
    BY <1>1, <2>1, TextbookOf
<1>4. closes \in Seq(Int) /\ Len(closes) = m /\ closesK = Append(closes, c.close)
  BY ColumnExtended DEF Prices
<1>5. highs \in Seq(Int) /\ highsK = Append(highs, c.high)
  BY ColumnExtended DEF Prices
<1>6. lows \in Seq(Int) /\ lowsK = Append(lows, c.low)
  BY ColumnExtended DEF Prices
<1>7. Typicals(h) \in Seq(Int) /\ Typicals(k) = Append(Typicals(h), Typical(c))
  BY TypicalsExtended
<1>8. ScaledVolumes(h) \in Seq(Int) /\ ScaledVolumes(k) = Append(ScaledVolumes(h), ScaledVolume(c))
  BY ScaledExtended
<1>9. /\ (h = <<>> <=> m = 0) /\ (highs = <<>> <=> m = 0) /\ (lows = <<>> <=> m = 0)
  <2>1. Len(highs) = m /\ Len(lows) = m
    BY ColumnExtended DEF Prices
  <2> HIDE DEF highs, lows
  <2> QED
    BY <1>5, <1>6, <2>1
<1>10. h # <<>> => k[Len(k) - 1] = h[m] /\ m \in 1 .. m
  <2> SUFFICES ASSUME h # <<>> PROVE k[Len(k) - 1] = h[m] /\ m \in 1 .. m
    OBVIOUS
  <2>1. m \in 1 .. m /\ Len(k) - 1 = m
    BY <1>2, <1>9
  <2> QED
    BY <1>2, <2>1
<1>11. m >= n => /\ k[Len(k) - n].close = closes[m - n + 1]
                 /\ ~(Len(k) <= n)
  <2> SUFFICES ASSUME m >= n PROVE k[Len(k) - n].close = closes[m - n + 1] /\ ~(Len(k) <= n)
    OBVIOUS
  <2>1. m - n + 1 \in 1 .. m /\ Len(k) - n = m - n + 1 /\ ~(Len(k) <= n)
    BY <1>1, <1>2, SMTT(40)
  <2>2. closes[m - n + 1] = h[m - n + 1].close
    BY <2>1 DEF Column
  <2> QED
    BY <1>2, <2>1, <2>2
<1>12. ~(m >= n) => Len(k) <= n
  BY <1>1, <1>2
<1>13. CASE name \in {"price", "close"}
  <2>1. out = Price(s, c)
    BY <1>13 DEF Update
  <2>2. KeepsField(s, "close")
    BY <1>13 DEF Tracks
  <2> HIDE DEF out, n, dev, closes, highs, lows, closesK, highsK, lowsK, k, m
  <2>3. KeepsField(t, "close") /\ v = c.close
    BY <1>1, <2>1, <2>2, PriceReads
  <2> HIDE DEF t, v
  <2>4. v = Textbook(name, params, k)
    <3>1. v = k[Len(k)].close
      BY <2>3, <1>2
    <3> QED
      BY <1>3, <1>13, <3>1 DEF TextbookSays, dev, closes, highs, lows, closesK, highsK, lowsK
  <2>5. Reads(name, params, k, v)
    BY <1>13, <2>4 DEF Reads, Oscillators
  <2>6. Tracks(name, params, t, k)
    BY <1>13, <2>3 DEF Tracks, n, dev, closesK, highsK, lowsK
  <2> QED
    BY <2>5, <2>6 DEF t, v, k, out
<1>14. CASE name \in {"open", "high", "low"}
  <2>1. out = Price(s, c)
    BY <1>14 DEF Update
  <2>2. KeepsField(s, name)
    BY <1>14 DEF Tracks
  <2> HIDE DEF out, n, dev, closes, highs, lows, closesK, highsK, lowsK, k, m
  <2>3. KeepsField(t, name) /\ v = c[name]
    BY <1>1, <2>1, <2>2, PriceReads
  <2> HIDE DEF t, v
  <2>4. v = Textbook(name, params, k)
    <3>1. v = k[Len(k)][name]
      BY <2>3, <1>2
    <3> QED
      BY <1>3, <1>14, <3>1 DEF TextbookSays, dev, closes, highs, lows, closesK, highsK, lowsK
  <2>5. Reads(name, params, k, v)
    BY <1>14, <2>4 DEF Reads, Oscillators
  <2>6. Tracks(name, params, t, k)
    BY <1>14, <2>3 DEF Tracks, n, dev, closesK, highsK, lowsK
  <2> QED
    BY <2>5, <2>6 DEF t, v, k, out
<1>15. CASE name = "sma"
  <2>1. out = SMA(s, c)
    BY <1>15 DEF Update
  <2>2. Keeps(s, n, closes)
    BY <1>15 DEF Tracks
  <2> HIDE DEF out, n, dev, closes, highs, lows, closesK, highsK, lowsK, k, m
  <2>3. Keeps(t, n, closesK) /\ v = Average(LastOf(closesK, n))
    <3>1. n \in Nat \ {0} /\ closes \in Seq(Int)
      BY <1>1, <1>4
    <3>2. Keeps(t, n, Append(closes, c.close)) /\ v = Average(LastOf(Append(closes, c.close), n))
      BY <2>1, <2>2, <3>1, SMAReads
    <3> QED
      BY <3>2, <1>4
  <2> HIDE DEF t, v
  <2>4. v = Textbook(name, params, k)
    BY <1>3, <1>15, <2>3 DEF TextbookSays, dev, closes, highs, lows, closesK, highsK, lowsK
  <2>5. Reads(name, params, k, v)
    BY <1>15, <2>4 DEF Reads, Oscillators
  <2>6. Tracks(name, params, t, k)
    BY <1>15, <2>3 DEF Tracks, n, dev, closesK, highsK, lowsK
  <2> QED
    BY <2>5, <2>6 DEF t, v, k, out
<1>16. CASE name = "roc"
  <2>1. out = ROC(s, c)
    BY <1>16 DEF Update
  <2>2. Keeps(s, n, closes)
    BY <1>16 DEF Tracks
  <2> HIDE DEF out, n, dev, closes, highs, lows, closesK, highsK, lowsK, k, m
  <2>3. /\ Keeps(t, n, closesK)
        /\ v = IF m < n THEN 0
               ELSE IF closes[m - n + 1] = 0 THEN 0 ELSE ChangeOf(closes[m - n + 1], c.close)
    <3>1. n \in Nat \ {0} /\ closes \in Seq(Int) /\ Len(closes) = m
      BY <1>1, <1>4
    <3>2. Keeps(t, n, Append(closes, c.close)) /\ v = ChangeSince(closes, n, c.close)
      BY <2>1, <2>2, <3>1, ROCReads
    <3> QED
      BY <3>1, <3>2, <1>4 DEF ChangeSince
  <2> HIDE DEF t, v
  <2>4. v = Textbook(name, params, k)
    <3>1. CASE m >= n
      <4>1. ~(m < n)
        BY <1>1, <1>2, <3>1
      <4>2. v = IF Len(k) <= n \/ k[Len(k) - n].close = 0 THEN 0 ELSE ChangeOf(k[Len(k) - n].close, k[Len(k)].close)
        BY <1>2, <1>11, <2>3, <3>1, <4>1
      <4> QED
        BY <1>3, <1>16, <4>2 DEF TextbookSays, dev, closes, highs, lows, closesK, highsK, lowsK
    <3>2. CASE ~(m >= n)
      <4>1. m < n
        BY <1>1, <1>2, <3>2
      <4>2. v = IF Len(k) <= n \/ k[Len(k) - n].close = 0 THEN 0 ELSE ChangeOf(k[Len(k) - n].close, k[Len(k)].close)
        BY <1>12, <2>3, <3>2, <4>1
      <4> QED
        BY <1>3, <1>16, <4>2 DEF TextbookSays, dev, closes, highs, lows, closesK, highsK, lowsK
    <3> QED
      BY <3>1, <3>2
  <2>5. Reads(name, params, k, v)
    BY <1>16, <2>4 DEF Reads, Oscillators
  <2>6. Tracks(name, params, t, k)
    BY <1>16, <2>3 DEF Tracks, n, dev, closesK, highsK, lowsK
  <2> QED
    BY <2>5, <2>6 DEF t, v, k, out
<1>17. CASE name = "highest_high"
  <2>1. out = HighestHigh(s, c)
    BY <1>17 DEF Update
  <2>2. Keeps(s, n, highs)
    BY <1>17 DEF Tracks
  <2> HIDE DEF out, n, dev, closes, highs, lows, closesK, highsK, lowsK, k, m
  <2>3. Keeps(t, n, highsK) /\ v = Highest(LastOf(highsK, n))
    <3>1. n \in Nat \ {0} /\ highs \in Seq(Int)
      BY <1>1, <1>5
    <3>2. Keeps(t, n, Append(highs, c.high)) /\ v = Highest(LastOf(Append(highs, c.high), n))
      BY <2>1, <2>2, <3>1, HighestReads
    <3> QED
      BY <3>2, <1>5
  <2> HIDE DEF t, v
  <2>4. v = Textbook(name, params, k)
    BY <1>3, <1>17, <2>3 DEF TextbookSays, dev, closes, highs, lows, closesK, highsK, lowsK
  <2>5. Reads(name, params, k, v)
    BY <1>17, <2>4 DEF Reads, Oscillators
  <2>6. Tracks(name, params, t, k)
    BY <1>17, <2>3 DEF Tracks, n, dev, closesK, highsK, lowsK
  <2> QED
    BY <2>5, <2>6 DEF t, v, k, out
<1>18. CASE name = "lowest_low"
  <2>1. out = LowestLow(s, c)
    BY <1>18 DEF Update
  <2>2. Keeps(s, n, lows)
    BY <1>18 DEF Tracks
  <2> HIDE DEF out, n, dev, closes, highs, lows, closesK, highsK, lowsK, k, m
  <2>3. Keeps(t, n, lowsK) /\ v = Lowest(LastOf(lowsK, n))
    <3>1. n \in Nat \ {0} /\ lows \in Seq(Int)
      BY <1>1, <1>6
    <3>2. Keeps(t, n, Append(lows, c.low)) /\ v = Lowest(LastOf(Append(lows, c.low), n))
      BY <2>1, <2>2, <3>1, LowestReads
    <3> QED
      BY <3>2, <1>6
  <2> HIDE DEF t, v
  <2>4. v = Textbook(name, params, k)
    BY <1>3, <1>18, <2>3 DEF TextbookSays, dev, closes, highs, lows, closesK, highsK, lowsK
  <2>5. Reads(name, params, k, v)
    BY <1>18, <2>4 DEF Reads, Oscillators
  <2>6. Tracks(name, params, t, k)
    BY <1>18, <2>3 DEF Tracks, n, dev, closesK, highsK, lowsK
  <2> QED
    BY <2>5, <2>6 DEF t, v, k, out
<1>19. CASE name = "donchian_channel"
  <2>1. out = Donchian(s, c)
    BY <1>19 DEF Update
  <2>2. KeepsChannel(s, n, highs, lows)
    BY <1>19 DEF Tracks
  <2> HIDE DEF out, n, dev, closes, highs, lows, closesK, highsK, lowsK, k, m
  <2>3. /\ KeepsChannel(t, n, highsK, lowsK)
        /\ v = (Highest(LastOf(highsK, n)) + Lowest(LastOf(lowsK, n))) \div 2
    <3>1. n \in Nat \ {0} /\ highs \in Seq(Int) /\ lows \in Seq(Int)
      BY <1>1, <1>5, <1>6
    <3>2. KeepsChannel(t, n, Append(highs, c.high), Append(lows, c.low))
      BY <2>1, <2>2, <3>1, DonchianReads
    <3>3. v = Middle(Append(highs, c.high), Append(lows, c.low), n)
      BY <2>1, <2>2, <3>1, DonchianReads
    <3> QED
      BY <3>2, <3>3, <1>5, <1>6 DEF Middle
  <2> HIDE DEF t, v
  <2>4. v = Textbook(name, params, k)
    BY <1>3, <1>19, <2>3 DEF TextbookSays, dev, closes, highs, lows, closesK, highsK, lowsK
  <2>5. Reads(name, params, k, v)
    BY <1>19, <2>4 DEF Reads, Oscillators
  <2>6. Tracks(name, params, t, k)
    BY <1>19, <2>3 DEF Tracks, n, dev, closesK, highsK, lowsK
  <2> QED
    BY <2>5, <2>6 DEF t, v, k, out
<1>20. CASE name = "support"
  <2>1. out = SupportResistance(s, c)
    BY <1>20 DEF Update
  <2>2. KeepsLevel(s, n, TRUE, lows)
    BY <1>20 DEF Tracks
  <2> HIDE DEF out, n, dev, closes, highs, lows, closesK, highsK, lowsK, k, m
  <2>3. /\ KeepsLevel(t, n, TRUE, lowsK)
        /\ v = IF lows = <<>> THEN 0 ELSE Lowest(LastOf(lows, n))
    <3>1. n \in Nat \ {0} /\ lows \in Seq(Int)
      BY <1>1, <1>6
    <3>2. /\ KeepsLevel(t, n, TRUE, Append(lows, c.low))
          /\ v = IF lows = <<>> THEN 0 ELSE Lowest(LastOf(lows, n))
      BY <2>1, <2>2, <3>1, SupportReads
    <3> QED
      BY <3>2, <1>6
  <2> HIDE DEF t, v
  <2>4. v = Textbook(name, params, k)
    <3>1. v = IF h = <<>> THEN 0 ELSE Lowest(LastOf(lows, n))
      BY <2>3, <1>9
    <3> QED
      BY <1>3, <1>20, <3>1 DEF TextbookSays, dev, closes, highs, lows, closesK, highsK, lowsK
  <2>5. Reads(name, params, k, v)
    BY <1>20, <2>4 DEF Reads, Oscillators
  <2>6. Tracks(name, params, t, k)
    BY <1>20, <2>3 DEF Tracks, n, dev, closesK, highsK, lowsK
  <2> QED
    BY <2>5, <2>6 DEF t, v, k, out
<1>21. CASE name = "resistance"
  <2>1. out = SupportResistance(s, c)
    BY <1>21 DEF Update
  <2>2. KeepsLevel(s, n, FALSE, highs)
    BY <1>21 DEF Tracks
  <2> HIDE DEF out, n, dev, closes, highs, lows, closesK, highsK, lowsK, k, m
  <2>3. /\ KeepsLevel(t, n, FALSE, highsK)
        /\ v = IF highs = <<>> THEN 0 ELSE Highest(LastOf(highs, n))
    <3>1. n \in Nat \ {0} /\ highs \in Seq(Int)
      BY <1>1, <1>5
    <3>2. /\ KeepsLevel(t, n, FALSE, Append(highs, c.high))
          /\ v = IF highs = <<>> THEN 0 ELSE Highest(LastOf(highs, n))
      BY <2>1, <2>2, <3>1, ResistanceReads
    <3> QED
      BY <3>2, <1>5
  <2> HIDE DEF t, v
  <2>4. v = Textbook(name, params, k)
    <3>1. v = IF h = <<>> THEN 0 ELSE Highest(LastOf(highs, n))
      BY <2>3, <1>9
    <3> QED
      BY <1>3, <1>21, <3>1 DEF TextbookSays, dev, closes, highs, lows, closesK, highsK, lowsK
  <2>5. Reads(name, params, k, v)
    BY <1>21, <2>4 DEF Reads, Oscillators
  <2>6. Tracks(name, params, t, k)
    BY <1>21, <2>3 DEF Tracks, n, dev, closesK, highsK, lowsK
  <2> QED
    BY <2>5, <2>6 DEF t, v, k, out
<1>22. CASE name = "obv"
  <2>1. out = OBV(s, c)
    BY <1>22 DEF Update
  <2>2. KeepsBalance(s, h)
    BY <1>22 DEF Tracks
  <2> HIDE DEF out, n, dev, closes, highs, lows, closesK, highsK, lowsK, k, m
  <2>3. KeepsBalance(t, k) /\ v = Unit * SumOver(Moves(k))
    BY <1>1, <2>1, <2>2, OBVReads DEF k, m
  <2> HIDE DEF t, v
  <2>4. v = Textbook(name, params, k)
    BY <1>3, <1>22, <2>3 DEF TextbookSays, dev, closes, highs, lows, closesK, highsK, lowsK
  <2>5. Reads(name, params, k, v)
    BY <1>22, <2>4 DEF Reads, Oscillators
  <2>6. Tracks(name, params, t, k)
    BY <1>22, <2>3 DEF Tracks, n, dev, closesK, highsK, lowsK
  <2> QED
    BY <2>5, <2>6 DEF t, v, k, out
<1>23. CASE name = "vwap"
  <2>1. out = VWAP(s, c)
    BY <1>23 DEF Update
  <2>2. KeepsDay(s, h)
    BY <1>23 DEF Tracks
  <2> HIDE DEF out, n, dev, closes, highs, lows, closesK, highsK, lowsK, k, m
  <2>3. /\ KeepsDay(t, k)
        /\ v = IF SumOver(VolumesOf(k, c.day)) > 0
               THEN SumOver(TradedOf(k, c.day)) \div SumOver(VolumesOf(k, c.day)) ELSE 0
    BY <1>1, <2>1, <2>2, VWAPReads DEF k, m
  <2> HIDE DEF t, v
  <2>4. v = Textbook(name, params, k)
    <3>1. v = IF SumOver(VolumesOf(k, k[Len(k)].day)) > 0
            THEN SumOver(TradedOf(k, k[Len(k)].day)) \div SumOver(VolumesOf(k, k[Len(k)].day)) ELSE 0
      BY <2>3, <1>2
    <3> QED
      BY <1>3, <1>23, <3>1 DEF TextbookSays, dev, closes, highs, lows, closesK, highsK, lowsK
  <2>5. Reads(name, params, k, v)
    BY <1>23, <2>4 DEF Reads, Oscillators
  <2>6. Tracks(name, params, t, k)
    BY <1>23, <2>3 DEF Tracks, n, dev, closesK, highsK, lowsK
  <2> QED
    BY <2>5, <2>6 DEF t, v, k, out
<1>24. CASE name = "volume"
  <2>1. out = Volume(s, c)
    BY <1>24 DEF Update
  <2>2. Keeps(s, n, ScaledVolumes(h))
    BY <1>24 DEF Tracks
  <2> HIDE DEF out, n, dev, closes, highs, lows, closesK, highsK, lowsK, k, m
  <2>3. /\ Keeps(t, n, ScaledVolumes(k))
        /\ v = IF Average(LastOf(ScaledVolumes(h), n)) > 0
               THEN (ScaledVolume(c) * 100 * Unit) \div Average(LastOf(ScaledVolumes(h), n)) ELSE 0
    BY <1>1, <2>1, <2>2, <1>8, VolumeReads
  <2> HIDE DEF t, v
  <2>4. v = Textbook(name, params, k)
    <3>1. v = IF Average(LastOf(ScaledVolumes(h), n)) > 0
            THEN (ScaledVolume(k[Len(k)]) * 100 * Unit) \div Average(LastOf(ScaledVolumes(h), n)) ELSE 0
      BY <2>3, <1>2
    <3> QED
      BY <1>3, <1>24, <3>1 DEF TextbookSays, dev, closes, highs, lows, closesK, highsK, lowsK
  <2>5. Reads(name, params, k, v)
    BY <1>24, <2>4 DEF Reads, Oscillators
  <2>6. Tracks(name, params, t, k)
    BY <1>24, <2>3 DEF Tracks, n, dev, closesK, highsK, lowsK
  <2> QED
    BY <2>5, <2>6 DEF t, v, k, out
<1>25. CASE name = "cci"
  <2>1. out = CCI(s, c)
    BY <1>25 DEF Update
  <2>2. Keeps(s, n, Typicals(h))
    BY <1>25 DEF Tracks
  <2> HIDE DEF out, n, dev, closes, highs, lows, closesK, highsK, lowsK, k, m
  <2>3. /\ Keeps(t, n, Typicals(k))
        /\ v = ChannelIndexOf(LastOf(Typicals(k), n), Deviation(LastOf(Typicals(k), n)))
    BY <1>1, <2>1, <2>2, <1>7, CCIReads
  <2> HIDE DEF t, v
  <2>4. v = Textbook(name, params, k)
    BY <1>3, <1>25, <2>3 DEF TextbookSays, dev, closes, highs, lows, closesK, highsK, lowsK
  <2>5. Reads(name, params, k, v)
    BY <1>25, <2>4 DEF Reads, Oscillators
  <2>6. Tracks(name, params, t, k)
    BY <1>25, <2>3 DEF Tracks, n, dev, closesK, highsK, lowsK
  <2> QED
    BY <2>5, <2>6 DEF t, v, k, out
<1>26. CASE name = "bollinger_bands"
  <2>1. out = Bollinger(s, c)
    BY <1>26 DEF Update
  <2>2. KeepsCloses(s, n, dev, closes)
    BY <1>26 DEF Tracks
  <2> HIDE DEF out, n, dev, closes, highs, lows, closesK, highsK, lowsK, k, m
  <2>3. /\ KeepsCloses(t, n, dev, closesK)
        /\ v = PercentB(c.close, Average(LastOf(closesK, n)), dev * Sqrt(Variance(LastOf(closesK, n))))
    <3>1. n \in Nat \ {0} /\ closes \in Seq(Int)
      BY <1>1, <1>4
    <3>2. /\ KeepsCloses(t, n, dev, Append(closes, c.close))
          /\ v = PercentB(c.close, Average(LastOf(Append(closes, c.close), n)), dev * Sqrt(Variance(LastOf(Append(closes, c.close), n))))
      BY <2>1, <2>2, <3>1, BollingerReads
    <3> QED
      BY <3>2, <1>4
  <2> HIDE DEF t, v
  <2>4. v = Textbook(name, params, k)
    <3>1. v = PercentB(k[Len(k)].close, Average(LastOf(closesK, n)), dev * Sqrt(Variance(LastOf(closesK, n))))
      BY <2>3, <1>2
    <3> QED
      BY <1>3, <1>26, <3>1 DEF TextbookSays, dev, closes, highs, lows, closesK, highsK, lowsK
  <2>5. Reads(name, params, k, v)
    BY <1>26, <2>4 DEF Reads, Oscillators
  <2>6. Tracks(name, params, t, k)
    BY <1>26, <2>3 DEF Tracks, n, dev, closesK, highsK, lowsK
  <2> QED
    BY <2>5, <2>6 DEF t, v, k, out
<1>27. CASE name = "prev_high"
  <2>1. out = PrevLevel(s, c)
    BY <1>27 DEF Update
  <2>2. KeepsHigh(s, h)
    BY <1>27 DEF Tracks
  <2> HIDE DEF out, n, dev, closes, highs, lows, closesK, highsK, lowsK, k, m
  <2>3. KeepsHigh(t, k) /\ v = IF h = <<>> THEN 0 ELSE h[m].high
    BY <1>1, <2>1, <2>2, PrevHighReads DEF k, m
  <2> HIDE DEF t, v
  <2>4. v = Textbook(name, params, k)
    <3>1. v = IF h = <<>> THEN 0 ELSE k[Len(k) - 1].high
      BY <2>3, <1>10
    <3> QED
      BY <1>3, <1>27, <3>1 DEF TextbookSays, dev, closes, highs, lows, closesK, highsK, lowsK
  <2>5. Reads(name, params, k, v)
    BY <1>27, <2>4 DEF Reads, Oscillators
  <2>6. Tracks(name, params, t, k)
    BY <1>27, <2>3 DEF Tracks, n, dev, closesK, highsK, lowsK
  <2> QED
    BY <2>5, <2>6 DEF t, v, k, out
<1>28. CASE name = "prev_low"
  <2>1. out = PrevLevel(s, c)
    BY <1>28 DEF Update
  <2>2. KeepsLow(s, h)
    BY <1>28 DEF Tracks
  <2> HIDE DEF out, n, dev, closes, highs, lows, closesK, highsK, lowsK, k, m
  <2>3. KeepsLow(t, k) /\ v = IF h = <<>> THEN 0 ELSE h[m].low
    BY <1>1, <2>1, <2>2, PrevLowReads DEF k, m
  <2> HIDE DEF t, v
  <2>4. v = Textbook(name, params, k)
    <3>1. v = IF h = <<>> THEN 0 ELSE k[Len(k) - 1].low
      BY <2>3, <1>10
    <3> QED
      BY <1>3, <1>28, <3>1 DEF TextbookSays, dev, closes, highs, lows, closesK, highsK, lowsK
  <2>5. Reads(name, params, k, v)
    BY <1>28, <2>4 DEF Reads, Oscillators
  <2>6. Tracks(name, params, t, k)
    BY <1>28, <2>3 DEF Tracks, n, dev, closesK, highsK, lowsK
  <2> QED
    BY <2>5, <2>6 DEF t, v, k, out
<1>29. CASE name \in {"gap_up", "gap_down"}
  <2>1. out = Gap(s, c)
    BY <1>29 DEF Update
  <2>2. KeepsLast(s, h)
    BY <1>29 DEF Tracks
  <2> HIDE DEF out, n, dev, closes, highs, lows, closesK, highsK, lowsK, k, m
  <2>3. /\ KeepsLast(t, k)
        /\ v = IF h = <<>> THEN 0 ELSE IF h[m].close = 0 THEN 0 ELSE ChangeOf(h[m].close, c.open)
    BY <1>1, <2>1, <2>2, GapReads DEF k, m
  <2> HIDE DEF t, v
  <2>4. v = Textbook(name, params, k)
    <3>1. v = IF h = <<>> \/ k[Len(k) - 1].close = 0 THEN 0
            ELSE ChangeOf(k[Len(k) - 1].close, k[Len(k)].open)
      BY <2>3, <1>2, <1>10
    <3> QED
      BY <1>3, <1>29, <3>1 DEF TextbookSays, dev, closes, highs, lows, closesK, highsK, lowsK
  <2>5. Reads(name, params, k, v)
    BY <1>29, <2>4 DEF Reads, Oscillators
  <2>6. Tracks(name, params, t, k)
    BY <1>29, <2>3 DEF Tracks, n, dev, closesK, highsK, lowsK
  <2> QED
    BY <2>5, <2>6 DEF t, v, k, out
<1>30. CASE name = "rsi"
  <2>1. out = RSI(s, c)
    BY <1>30 DEF Update
  <2>2. p > 0 => s \in RSIType(n)
    BY <1>30 DEF Tracks
  <2> HIDE DEF out, n, K, k, m
  <2>3. p > 0 => t \in RSIType(n) /\ v \in 0 .. Hundred
    BY <1>1, <2>1, <2>2, RSIBounded
  <2> HIDE DEF t, v
  <2>4. Reads(name, params, k, v)
    BY <1>30, <2>3 DEF Reads, Windowed, Hundred
  <2>5. Tracks(name, params, t, k)
    BY <1>30, <2>3 DEF Tracks, n, K
  <2> QED
    BY <2>4, <2>5 DEF t, v, k, out
<1>31. CASE name = "stochastic_rsi"
  <2>1. out = StochRSI(s, c)
    BY <1>31 DEF Update
  <2>2. p > 0 => s \in StochType(n, K)
    BY <1>31 DEF Tracks
  <2> HIDE DEF out, n, K, k, m
  <2>3. p > 0 => t \in StochType(n, K) /\ v \in 0 .. Hundred
    BY <1>1, <2>1, <2>2, StochBounded
  <2> HIDE DEF t, v
  <2>4. Reads(name, params, k, v)
    BY <1>31, <2>3 DEF Reads, Windowed, Hundred
  <2>5. Tracks(name, params, t, k)
    BY <1>31, <2>3 DEF Tracks, n, K
  <2> QED
    BY <2>4, <2>5 DEF t, v, k, out
<1>32. CASE name = "mfi"
  <2>1. out = MFI(s, c)
    BY <1>32 DEF Update
  <2>2. p > 0 => s \in FlowType(n)
    BY <1>32 DEF Tracks
  <2> HIDE DEF out, n, K, k, m
  <2>3. p > 0 => t \in FlowType(n) /\ v \in 0 .. Hundred
    BY <1>1, <2>1, <2>2, FlowBounded
  <2> HIDE DEF t, v
  <2>4. Reads(name, params, k, v)
    BY <1>32, <2>3 DEF Reads, Windowed, Hundred
  <2>5. Tracks(name, params, t, k)
    BY <1>32, <2>3 DEF Tracks, n, K
  <2> QED
    BY <2>4, <2>5 DEF t, v, k, out
<1>33. CASE name = "adx"
  <2>1. out = ADX(s, c)
    BY <1>33 DEF Update
  <2>2. p > 0 => s \in DirectionType(n)
    BY <1>33 DEF Tracks
  <2> HIDE DEF out, n, K, k, m
  <2>3. p > 0 => t \in DirectionType(n) /\ v \in 0 .. Hundred
    BY <1>1, <2>1, <2>2, DirectionBounded
  <2> HIDE DEF t, v
  <2>4. Reads(name, params, k, v)
    BY <1>33, <2>3 DEF Reads, Windowed, Hundred
  <2>5. Tracks(name, params, t, k)
    BY <1>33, <2>3 DEF Tracks, n, K
  <2> QED
    BY <2>4, <2>5 DEF t, v, k, out
<1>34. CASE name \notin Windowed \cup Oscillators
  <2> HIDE DEF k, t, v
  <2>1. Reads(name, params, k, v)
    BY <1>34 DEF Reads
  <2>2. Tracks(name, params, t, k)
    BY <1>34 DEF Tracks, Windowed, Oscillators
  <2> QED
    BY <2>1, <2>2 DEF k, t, v
<1> HIDE DEF out, k, t, v
<1>35. Tracks(name, params, t, k) /\ Reads(name, params, k, v)
  BY <1>13, <1>14, <1>15, <1>16, <1>17, <1>18, <1>19, <1>20, <1>21, <1>22, <1>23, <1>24, <1>25, <1>26, <1>27, <1>28, <1>29, <1>30, <1>31, <1>32, <1>33, <1>34 DEF Windowed, Oscillators, out, k, t, v
<1> QED
  BY <1>35 DEF t, v, k, out

-----------------------------------------------------------------------------
(* The windows of every series of a strategy are whole.                    *)

LEMMA WholeKey ==
    ASSUME NEW name, NEW params, WholeParams(params)
    PROVE  KeyParams(name, params)
<1>1. ASSUME NEW k \in WindowParams, NEW def \in Int PROVE param(params, k, def) \in Int
  BY DEF WholeParams, Has, param
<1>2. /\ param(params, "lookback", 20) \in Int /\ param(params, "k", 3) \in Int
      /\ param(params, "period", 12) \in Int /\ param(params, "period", 14) \in Int
      /\ param(params, "period", 20) \in Int
  <2>1. "period" \in WindowParams /\ "lookback" \in WindowParams /\ "k" \in WindowParams
    BY DEF WindowParams
  <2> QED
    BY <1>1, <2>1
<1> QED
  BY <1>2 DEF KeyParams, PeriodOf

LEMMA MergedWhole ==
    ASSUME NEW raw, WholeWindows(raw), NEW reserved, NEW flatLast
    PROVE  WholeParams(mergeParams(raw, reserved, flatLast))
<1> DEFINE flat == {k \in DOMAIN raw \ (reserved \cup Markup) : WellFormed(raw, k)}
           nested == IF Has(raw, "params") /\ WellFormed(raw, "params") THEN raw.params ELSE EmptyMap
<1>1. \A k \in WindowParams : k \in flat => raw[k] \in Int
  BY DEF WholeWindows, Has
<1>2. WholeParams(nested)
  <2>1. CASE Has(raw, "params") /\ WellFormed(raw, "params")
    BY <2>1 DEF WholeWindows
  <2>2. CASE ~(Has(raw, "params") /\ WellFormed(raw, "params"))
    BY <2>2 DEF WholeParams, EmptyMap, Has
  <2> QED
    BY <2>1, <2>2
<1>3. mergeParams(raw, reserved, flatLast) =
        [k \in flat \cup DOMAIN nested |->
            IF k \in flat /\ (k \notin DOMAIN nested \/ k \in flatLast) THEN raw[k] ELSE nested[k]]
  BY DEF mergeParams
<1> HIDE DEF flat, nested
<1> QED
  BY <1>1, <1>2, <1>3 DEF WholeParams, Has

(* A rule's own params and those of the series it compares with.           *)
WholeRule(rule) ==
    /\ WholeParams(rule.params)
    /\ Given(rule.compareTo) => WholeParams(rule.compareTo[1].params)

LEMMA EmptyRuleWhole == ASSUME NEW field, NEW v, field \in {"takeProfit", "stopLoss", "trailingSL"}
                        PROVE WholeRule(EmptyRule) /\ WholeRule([EmptyRule EXCEPT ![field] = v])
<1>1. EmptyRule.params = EmptyMap /\ ~Given(EmptyRule.compareTo)
  BY DEF EmptyRule, Given
<1>2. [EmptyRule EXCEPT ![field] = v].params = EmptyMap /\ ~Given([EmptyRule EXCEPT ![field] = v].compareTo)
  BY DEF EmptyRule, Given
<1>3. WholeParams(EmptyMap)
  BY DEF WholeParams, EmptyMap, Has
<1> QED
  BY <1>1, <1>2, <1>3 DEF WholeRule

LEMMA ParsedRuleWhole ==
    ASSUME NEW raw, RuleParses(raw), NEW flatLast, WholeWindows(raw),
           Has(raw, "compare_to") /\ WellFormed(raw, "compare_to") => WholeWindows(raw.compare_to)
    PROVE  WholeRule(parseRule(raw, flatLast))
<1> DEFINE short == ShorthandOf(raw)
<1>1. CASE short # ""
  <2>1. parseRule(raw, flatLast) = [EmptyRule EXCEPT ![ShorthandField[short]] = <<raw[short]>>]
    BY <1>1 DEF parseRule
  <2>2. \E i \in 1 .. 3 : short = Shorthands[i]
    <3> DEFINE present == {i \in 1 .. 3 : Has(raw, Shorthands[i])}
               first == CHOOSE i \in present : \A j \in present : i <= j
    <3>1. present # {} /\ short = Shorthands[first]
      BY <1>1 DEF ShorthandOf
    <3>2. present \in SUBSET Nat /\ present \subseteq 1 .. 3
      OBVIOUS
    <3>3. first \in present
      <4> HIDE DEF present
      <4> QED
        BY <3>1, <3>2, LeastNatural
    <3> HIDE DEF first, present
    <3> QED
      BY <3>1, <3>2, <3>3
  <2>3. short \in {"take_profit", "stop_loss", "trailing_sl"}
    BY <2>2 DEF Shorthands
  <2>4. ShorthandField[short] \in {"takeProfit", "stopLoss", "trailingSL"}
    BY <2>3 DEF ShorthandField
  <2> DEFINE field == ShorthandField[short]
             v == <<raw[short]>>
  <2>5. parseRule(raw, flatLast) = [EmptyRule EXCEPT ![field] = v]
    BY <2>1
  <2> HIDE DEF short, field, v
  <2>6. WholeRule([EmptyRule EXCEPT ![field] = v])
    BY <2>4, EmptyRuleWhole DEF field
  <2> QED
    BY <2>5, <2>6
<1>2. CASE short = ""
  <2> DEFINE rule == parseRule(raw, flatLast)
  <2>1. /\ rule.params = mergeParams(raw, reservedRuleKeys, flatLast)
        /\ rule.compareTo = IF Has(raw, "compare_to") THEN <<parseRef(raw.compare_to, flatLast)>> ELSE None
    BY <1>2 DEF parseRule, EmptyRule
  <2>2. Has(raw, "compare_to") => WellFormed(raw, "compare_to")
    BY <1>2 DEF RuleParses, RuleKeys
  <2> HIDE DEF rule
  <2>3. WholeParams(rule.params)
    BY <2>1, MergedWhole
  <2>4. Given(rule.compareTo) => WholeParams(rule.compareTo[1].params)
    <3> SUFFICES ASSUME Given(rule.compareTo) PROVE WholeParams(rule.compareTo[1].params)
      OBVIOUS
    <3>1. Has(raw, "compare_to") /\ rule.compareTo = <<parseRef(raw.compare_to, flatLast)>>
      BY <2>1 DEF Given
    <3>2. parseRef(raw.compare_to, flatLast).params = mergeParams(raw.compare_to, {"indicator"}, flatLast)
      BY DEF parseRef
    <3>3. rule.compareTo[1] = parseRef(raw.compare_to, flatLast)
      BY <3>1
    <3>4. WholeWindows(raw.compare_to)
      BY <2>2, <3>1
    <3>5. WholeParams(mergeParams(raw.compare_to, {"indicator"}, flatLast))
      BY <3>4, MergedWhole
    <3> QED
      BY <3>2, <3>3, <3>5
  <2> QED
    BY <2>3, <2>4 DEF WholeRule, rule
<1> QED
  BY <1>1, <1>2

LEMMA ParsedTreeWhole ==
    ASSUME NEW rawTree, IsTree(rawTree), ConditionParses(rawTree), WindowsAreWhole(rawTree), NEW flatLast,
           NEW rule \in Rules(UnmarshalCondition(rawTree, flatLast))
    PROVE  WholeRule(rule)
<1> DEFINE tree == UnmarshalCondition(rawTree, flatLast)
<1>1. PICK n \in DOMAIN tree : tree[n].kind = "rule" /\ rule = tree[n].rule
  BY DEF Rules
<1>2. n \in RawNodes(rawTree) /\ tree[n].kind = KindOf(rawTree[n]) /\ rule = parseRule(rawTree[n], flatLast)
  BY <1>1 DEF UnmarshalCondition
<1>3. RuleParses(rawTree[n])
  BY <1>1, <1>2 DEF ConditionParses
<1>4. n \in DOMAIN rawTree
  BY <1>2, RawNodesIn
<1> HIDE DEF tree
<1> QED
  BY <1>2, <1>3, <1>4, ParsedRuleWhole DEF WindowsAreWhole

LEMMA SeriesWhole ==
    ASSUME NEW d \in Documents, Parses(d), NEW flatLast, NEW key \in SeriesOf(Parse(d, flatLast))
    PROVE  KeyParams(key.indicator, key.series.params)
<1> DEFINE s == Parse(d, flatLast)
<1>1. \A rule \in Rules(s.entry) \cup Rules(s.exit) : WholeRule(rule)
  <2>1. /\ IsTree(d.entry) /\ IsTree(d.exit) /\ {"entry", "exit"} \subseteq DOMAIN d
        /\ WindowsAreWhole(d.entry) /\ WindowsAreWhole(d.exit)
    BY DocumentsAssumption, WindowsAssumption
  <2>2. s.entry = UnmarshalCondition(d.entry, flatLast) /\ s.exit = UnmarshalCondition(d.exit, flatLast)
    BY <2>1 DEF Parse
  <2>3. ConditionParses(d.entry) /\ ConditionParses(d.exit)
    BY DEF Parses
  <2> HIDE DEF s
  <2> QED
    BY <2>1, <2>2, <2>3, ParsedTreeWhole
<1>2. PICK i \in 1 .. Len(s.symbols) : key \in LeavesOf(s, s.symbols[i])
  BY DEF SeriesOf
<1> DEFINE symbol == s.symbols[i]
<1> HIDE DEF s
<1>3. PICK rule \in Rules(s.entry) \cup Rules(s.exit) :
          \/ key = LeafKey(rule, symbol, s.timeframe)
          \/ Given(rule.compareTo) /\ key = RefKey(rule, symbol, s.timeframe)
  BY <1>2 DEF LeavesOf, collectLeaves
<1> HIDE DEF symbol
<1>4. CASE key = LeafKey(rule, symbol, s.timeframe)
  <2>1. key.series.params = rule.params
    BY <1>4 DEF LeafKey, Key, BuildParamsKey
  <2> QED
    BY <1>1, <2>1, WholeKey DEF WholeRule
<1>5. CASE Given(rule.compareTo) /\ key = RefKey(rule, symbol, s.timeframe)
  <2>1. key.series.params = rule.compareTo[1].params
    BY <1>5 DEF RefKey, Key, BuildParamsKey
  <2> QED
    BY <1>1, <1>5, <2>1, WholeKey DEF WholeRule
<1> QED
  BY <1>3, <1>4, <1>5

-----------------------------------------------------------------------------
(* What the indicators of a timeframe have been given.                     *)

Floats(cs) == [i \in 1 .. Len(cs) |-> f64(cs[i])]

LEMMA FloatFacts ==
    ASSUME NEW c \in CandleType
    PROVE  f64(c) \in CandleType /\ f64(c).day = c.day /\ (Sound(c) => Sound(f64(c)))
<1>1. \A x \in Int : x * Unit \in Int
  BY UnitAssumption
<1>2. f64(c) \in CandleType /\ f64(c).day = c.day
  BY <1>1, CandleFields DEF f64, CandleType
<1>3. ASSUME Sound(c) PROVE Sound(f64(c))
  <2>1. \A x \in Nat : x * Unit \in Nat
    BY UnitAssumption
  <2>2. \A x, y \in Nat : x <= y => x * Unit <= y * Unit
    BY UnitAssumption
  <2>3. f64(c).low = c.low * Unit /\ f64(c).high = c.high * Unit /\ f64(c).open = c.open * Unit
        /\ f64(c).close = c.close * Unit /\ f64(c).volume = c.volume
    BY DEF f64
  <2>4. c.open \in Nat /\ c.high \in Nat /\ c.low \in Nat /\ c.close \in Nat /\ c.volume \in Nat /\ c.low <= c.high
    BY <1>3 DEF Sound
  <2> QED
    BY <2>1, <2>2, <2>3, <2>4 DEF Sound
<1> QED
  BY <1>2, <1>3

LEMMA FloatsExtended ==
    ASSUME NEW cs \in Seq(CandleType), NEW c \in CandleType
    PROVE  /\ Floats(cs) \in Seq(CandleType) /\ Len(Floats(cs)) = Len(cs)
           /\ Floats(Append(cs, c)) = Append(Floats(cs), f64(c))
<1>1. \A x \in CandleType : f64(x) \in CandleType
  BY FloatFacts
<1> DEFINE k == Append(cs, c)
<1>2. /\ Len(cs) \in Nat /\ Len(k) = Len(cs) + 1 /\ k[Len(cs) + 1] = c
      /\ \A i \in 1 .. Len(cs) : k[i] = cs[i] /\ cs[i] \in CandleType
  BY HistoryExtended
<1>3. Floats(cs) \in Seq(CandleType) /\ Len(Floats(cs)) = Len(cs)
  BY <1>1, <1>2 DEF Floats
<1> HIDE DEF k
<1>4. Floats(k) = Append(Floats(cs), f64(c))
  BY <1>2, <1>3, AppendProperties DEF Floats
<1> QED
  BY <1>3, <1>4 DEF k

(* The days of a timeframe, by its candles' times.                         *)
Dated(tf, cs) == \A i \in 1 .. Len(cs) : cs[i].day = Label(tf, i) \div DayLength

LEMMA LabelsOrdered ==
    ASSUME NEW tf \in Timeframes, NEW i \in Nat \ {0}, NEW j \in Nat \ {0}, i <= j
    PROVE  /\ Label(tf, i) \div DayLength \in Nat
           /\ Label(tf, i) \div DayLength <= Label(tf, j) \div DayLength
<1> DEFINE m == Minutes[tf]
           a == Label(tf, i)
           b == Label(tf, j)
<1>1. m \in Nat \ {0} /\ DayLength \in Nat \ {0}
  BY BacktestAssumption
<1>2. a \in Nat /\ b \in Nat /\ a <= b
  <2>1. (a = i * m /\ b = j * m) \/ (a = (i - 1) * m /\ b = (j - 1) * m)
    BY DEF Label, CloseOf
  <2> HIDE DEF m, a, b
  <2>2. i * m \in Nat /\ j * m \in Nat /\ (i - 1) * m \in Nat /\ (j - 1) * m \in Nat
    BY <1>1
  <2>3. i * m <= j * m /\ (i - 1) * m <= (j - 1) * m
    BY <1>1
  <2> QED
    BY <2>1, <2>2, <2>3
<1> HIDE DEF a, b
<1>3. a \div DayLength \in Nat
  BY <1>1, <1>2
<1> QED
  BY <1>1, <1>2, <1>3, QuotientMonotone DEF a, b

LEMMA DatedOrdered ==
    ASSUME NEW tf \in Timeframes, NEW cs \in Seq(CandleType), Dated(tf, cs)
    PROVE  Ordered(Floats(cs))
<1> DEFINE h == Floats(cs)
           n == Len(cs)
<1>1. n \in Nat /\ Len(h) = n
  BY DEF Floats
<1>2. ASSUME NEW i \in 1 .. n PROVE h[i].day = Label(tf, i) \div DayLength
  BY <1>2, FloatFacts DEF Dated, Floats
<1> HIDE DEF h, n
<1>3. ASSUME NEW i \in 1 .. n PROVE h[i].day \in Nat /\ h[i].day <= h[n].day
  <2>1. i \in Nat \ {0} /\ n \in Nat \ {0} /\ i <= n /\ n \in 1 .. n
    BY <1>1
  <2> QED
    BY <1>2, <2>1, LabelsOrdered
<1> QED
  BY <1>1, <1>3 DEF Ordered, h

-----------------------------------------------------------------------------
(* The cache follows the histories.                                        *)

(* Each instance of a series of the strategy's symbol follows the history  *)
(* of its timeframe, and what was read last is what that history says.     *)
CacheTracks ==
    \A key \in DOMAIN cache.instances :
        /\ KeyParams(key.indicator, key.series.params)
        /\ key.symbol = symbolOf(strategy) =>
              /\ key.timeframe \in Timeframes
              /\ Tracks(key.indicator, key.series.params, cache.instances[key], History(key.timeframe))

CacheReads ==
    \A key \in DOMAIN cache.latest :
        /\ key \in DOMAIN cache.instances /\ key.symbol = symbolOf(strategy)
        /\ Reads(key.indicator, key.series.params, History(key.timeframe), cache.latest[key].value)

HistoryInv ==
    \A tf \in Timeframes :
        Dated(tf, replayed[tf]) /\ \A i \in 1 .. Len(replayed[tf]) : Sound(replayed[tf][i])

ReadInv ==
    /\ HistoryInv
    /\ ~Replaying => cache = NewCache
    /\ Replaying => CacheTracks /\ CacheReads

LEMMA NoReadings == \A x : x \notin DOMAIN NewCache.latest
  BY DEF NewCache, EmptyMap

LEMMA InitReads == Init => ReadInv
<1> SUFFICES ASSUME Init PROVE ReadInv
  OBVIOUS
<1>1. ~Replaying /\ cache = NewCache
  BY DEF Init, Replaying
<1>2. \A tf \in Timeframes : replayed[tf] = <<>>
  BY DEF Init
<1>3. HistoryInv
  BY <1>2 DEF HistoryInv, Dated
<1> QED
  BY <1>1, <1>3 DEF ReadInv

(* The series of the strategy are subscribed before the first candle.      *)
LEMMA AcceptReads ==
    ASSUME HistoryType, SeriesInv, ReadInv, document \in Documents, Accept
    PROVE  ReadInv'
<1>1. PICK flatLast \in SUBSET {"period"} :
          /\ Runnable(Parse(document, flatLast))
          /\ strategy' = Parse(document, flatLast)
          /\ cache' = Subscribed(SeriesOf(strategy'))
  BY DEF Accept
<1>2. /\ phase = "requested" /\ phase' = "replaying" /\ replayed' = replayed /\ labels' = labels
      /\ Parses(document)
  BY DEF Accept
<1>3. \A tf \in Timeframes : replayed'[tf] = <<>>
  BY <1>2 DEF SeriesInv
<1>4. HistoryInv'
  BY <1>2 DEF ReadInv, HistoryInv, Dated, Label, CloseOf
<1> DEFINE keys == SeriesOf(strategy')
<1>5. DOMAIN cache'.instances = keys /\ DOMAIN cache'.latest = {}
  BY <1>1 DEF Subscribed, NewCache, EmptyMap
<1>6. \A key \in keys : cache'.instances[key] = New(key.indicator, key.series.params, key.series.pattern)
  <2> SUFFICES ASSUME NEW key \in keys
               PROVE  cache'.instances[key] = New(key.indicator, key.series.params, key.series.pattern)
    OBVIOUS
  <2>1. cache'.instances[key] = Subscribe(NewCache, key).instances[key]
    BY <1>1 DEF Subscribed, NewCache
  <2>2. Subscribe(NewCache, key).instances[key] = New(key.indicator, key.series.params, key.series.pattern)
    BY DEF Subscribe, NewCache, EmptyMap, Bound, Put
  <2> QED
    BY <2>1, <2>2
<1>7. \A key \in keys : KeyParams(key.indicator, key.series.params)
  BY <1>1, <1>2, SeriesWhole
<1>8. ASSUME NEW key \in keys, key.symbol = symbolOf(strategy') PROVE key.timeframe \in Timeframes
  <2>1. PICK i \in 1 .. Len(strategy'.symbols) : key \in LeavesOf(strategy', strategy'.symbols[i])
    BY DEF SeriesOf
  <2>2. strategy'.symbols[i] = symbolOf(strategy')
    BY <1>8, <2>1, LeafKeys
  <2>3. key.timeframe \in RequiredTimeframes(strategy')
    BY <2>1, <2>2 DEF RequiredTimeframes
  <2>4. RequiredTimeframes(strategy') \subseteq supplied
    BY <1>1 DEF Runnable
  <2> QED
    BY <2>3, <2>4 DEF HistoryType
<1> HIDE DEF keys
<1>9. ASSUME NEW key \in keys, key.symbol = symbolOf(strategy')
      PROVE  Tracks(key.indicator, key.series.params, cache'.instances[key], History(key.timeframe)')
  <2>1. Len(replayed'[key.timeframe]) = 0
    BY <1>3, <1>8, <1>9
  <2>2. History(key.timeframe)' = <<>>
    BY <2>1 DEF History
  <2> QED
    BY <1>6, <1>7, <2>2, NewTracks
<1>10. CacheTracks'
  BY <1>5, <1>7, <1>8, <1>9 DEF CacheTracks
<1>11. CacheReads'
  BY <1>5 DEF CacheReads
<1>12. Replaying'
  BY <1>2 DEF Replaying
<1> QED
  BY <1>4, <1>10, <1>11, <1>12 DEF ReadInv

(* What a candle does to the instances and readings of its timeframe.      *)
LEMMA CandleOnCache ==
    ASSUME NEW before, DOMAIN before = CacheParts, NEW symbol, NEW tf, NEW c, NEW now,
           NEW after, after = CacheOnCandleClose(before, symbol, tf, c, now)
    PROVE  /\ DOMAIN after.instances = DOMAIN before.instances
           /\ \A key \in DOMAIN before.instances :
                 after.instances[key] = IF key.symbol = symbol /\ key.timeframe = tf
                                        THEN Update(key.indicator, before.instances[key], f64(c)).state
                                        ELSE before.instances[key]
           /\ \A key \in DOMAIN after.latest :
                 IF key \in DOMAIN before.instances /\ key.symbol = symbol /\ key.timeframe = tf
                 THEN after.latest[key] = Update(key.indicator, before.instances[key], f64(c)).signal
                 ELSE key \in DOMAIN before.latest /\ after.latest[key] = before.latest[key]
<1> DEFINE hit == {k \in DOMAIN before.instances : k.symbol = symbol /\ k.timeframe = tf}
           out == [k \in hit |-> Update(k.indicator, before.instances[k], f64(c))]
<1>1. /\ after.instances = [k \in DOMAIN before.instances |-> IF k \in hit THEN out[k].state ELSE before.instances[k]]
      /\ after.latest = [k \in DOMAIN before.latest \cup hit |->
                            IF k \in hit THEN out[k].signal ELSE before.latest[k]]
  BY DEF CacheOnCandleClose, CacheParts
<1>2. \A k \in hit : out[k] = Update(k.indicator, before.instances[k], f64(c))
  OBVIOUS
<1>3. \A k : k \in hit <=> k \in DOMAIN before.instances /\ k.symbol = symbol /\ k.timeframe = tf
  OBVIOUS
<1> HIDE DEF hit, out
<1> QED
  BY <1>1, <1>2, <1>3

LEMMA ReplayReads ==
    ASSUME HistoryType, SeriesInv, ReadInv, NEW tf \in Timeframes, Replay(tf)
    PROVE  ReadInv'
<1>1. phase = "replaying" /\ phase' = phase /\ strategy' = strategy /\ labels' = labels
  BY DEF Replay
<1>2. PICK shape \in Shapes :
          /\ cache' = CacheOnCandleClose(cache, symbolOf(strategy), tf, NextCandle(tf, shape), Label(tf, Seen(tf) + 1))
          /\ replayed' = [replayed EXCEPT ![tf] = Append(@, NextCandle(tf, shape))]
  BY DEF Replay, NextCandle, Seen
<1> DEFINE c == NextCandle(tf, shape)
           before == replayed[tf]
           h == Floats(before)
           x == f64(c)
<1>3. c \in CandleType /\ Sound(c) /\ c.day = Label(tf, Seen(tf) + 1) \div DayLength
  <2>1. c \in CandleType
    BY NextCandleType
  <2>2. Sound(c)
    BY CandlesAssumption DEF NextCandle, Sound
  <2> QED
    BY <2>1, <2>2 DEF NextCandle
<1> HIDE DEF c
<1>4. before \in Seq(CandleType) /\ replayed'[tf] = Append(before, c) /\ Seen(tf) = Len(before)
      /\ \A y \in Timeframes \ {tf} : replayed'[y] = replayed[y]
  BY <1>2 DEF HistoryType, Seen, c
<1> HIDE DEF before
<1>5. /\ Len(before) \in Nat /\ Append(before, c) \in Seq(CandleType) /\ Len(Append(before, c)) = Len(before) + 1
      /\ Append(before, c)[Len(before) + 1] = c
      /\ \A i \in 1 .. Len(before) : Append(before, c)[i] = before[i]
  BY <1>3, <1>4, HistoryExtended
<1>6. Dated(tf, before) /\ \A i \in 1 .. Len(before) : Sound(before[i])
  BY DEF ReadInv, HistoryInv, before
<1>7. Dated(tf, Append(before, c)) /\ \A i \in 1 .. Len(Append(before, c)) : Sound(Append(before, c)[i])
  <2>1. \A i \in 1 .. Len(Append(before, c)) : i \in 1 .. Len(before) \/ i = Len(before) + 1
    BY <1>5
  <2>2. \A i \in 1 .. Len(before) : before[i].day = Label(tf, i) \div DayLength
    BY <1>6 DEF Dated
  <2>3. Dated(tf, Append(before, c))
    BY <1>3, <1>4, <1>5, <2>1, <2>2 DEF Dated
  <2> QED
    BY <1>3, <1>5, <1>6, <2>1, <2>3
<1>8. HistoryInv'
  <2>1. \A y \in Timeframes \ {tf} : Dated(y, replayed'[y]) /\ \A i \in 1 .. Len(replayed'[y]) : Sound(replayed'[y][i])
    BY <1>4 DEF ReadInv, HistoryInv
  <2>2. \A y \in Timeframes : Dated(y, replayed'[y]) /\ \A i \in 1 .. Len(replayed'[y]) : Sound(replayed'[y][i])
    BY <1>4, <1>7, <2>1
  <2>3. \A y : Dated(y, replayed[y])' <=> Dated(y, replayed'[y])
    BY <1>1 DEF Dated, Label, CloseOf
  <2> QED
    BY <2>2, <2>3 DEF HistoryInv
<1>9. /\ h \in Seq(CandleType) /\ x \in CandleType /\ Sound(x) /\ Ordered(h) /\ Ordered(Append(h, x))
      /\ Floats(Append(before, c)) = Append(h, x)
  <2>1. h \in Seq(CandleType) /\ Floats(Append(before, c)) = Append(h, x)
    BY <1>3, <1>4, FloatsExtended
  <2>2. x \in CandleType /\ Sound(x)
    BY <1>3, FloatFacts
  <2>3. Ordered(h) /\ Ordered(Floats(Append(before, c)))
    BY <1>4, <1>5, <1>6, <1>7, DatedOrdered
  <2> QED
    BY <2>1, <2>2, <2>3
<1> HIDE DEF h, x
<1>10. /\ History(tf) = h /\ History(tf)' = Append(h, x)
       /\ \A y \in Timeframes \ {tf} : History(y)' = History(y)
  <2>1. History(tf) = h
    BY DEF h, before, History, Floats
  <2>2. History(tf)' = Floats(replayed'[tf])
    BY DEF History, Floats
  <2>3. \A y \in Timeframes \ {tf} : History(y)' = History(y)
    BY <1>4 DEF History
  <2> QED
    BY <1>4, <1>9, <2>1, <2>2, <2>3
<1> DEFINE symbol == symbolOf(strategy)
           after == cache'
           hit(key) == key \in DOMAIN cache.instances /\ key.symbol = symbol /\ key.timeframe = tf
<1>11. Replaying /\ Replaying' /\ CacheTracks /\ CacheReads /\ DOMAIN cache = CacheParts /\ symbolOf(strategy') = symbol
  BY <1>1 DEF Replaying, ReadInv, SeriesInv
<1>12. /\ DOMAIN after.instances = DOMAIN cache.instances
       /\ \A key \in DOMAIN cache.instances :
             after.instances[key] = IF key.symbol = symbol /\ key.timeframe = tf
                                    THEN Update(key.indicator, cache.instances[key], x).state
                                    ELSE cache.instances[key]
       /\ \A key \in DOMAIN after.latest :
             IF key \in DOMAIN cache.instances /\ key.symbol = symbol /\ key.timeframe = tf
             THEN after.latest[key] = Update(key.indicator, cache.instances[key], x).signal
             ELSE key \in DOMAIN cache.latest /\ after.latest[key] = cache.latest[key]
  <2> DEFINE time == Label(tf, Seen(tf) + 1)
  <2>1. after = CacheOnCandleClose(cache, symbol, tf, c, time)
    BY <1>2 DEF c
  <2> HIDE DEF after, symbol, time
  <2> QED
    BY <1>11, <2>1, CandleOnCache DEF x
<1>13. ASSUME NEW key, hit(key)
       PROVE  /\ Tracks(key.indicator, key.series.params, Update(key.indicator, cache.instances[key], x).state, Append(h, x))
              /\ Reads(key.indicator, key.series.params, Append(h, x), Update(key.indicator, cache.instances[key], x).signal.value)
  <2>1. KeyParams(key.indicator, key.series.params)
        /\ Tracks(key.indicator, key.series.params, cache.instances[key], h)
    BY <1>10, <1>11, <1>13 DEF CacheTracks
  <2> QED
    BY <1>9, <2>1, UpdateTracks
<1>14. CacheTracks'
  <2> SUFFICES ASSUME NEW key \in DOMAIN cache.instances
               PROVE  /\ KeyParams(key.indicator, key.series.params)
                      /\ key.symbol = symbol =>
                            /\ key.timeframe \in Timeframes
                            /\ Tracks(key.indicator, key.series.params, after.instances[key], History(key.timeframe)')
    BY <1>11, <1>12 DEF CacheTracks
  <2>1. KeyParams(key.indicator, key.series.params)
    BY <1>11 DEF CacheTracks
  <2>2. ASSUME key.symbol = symbol
        PROVE  /\ key.timeframe \in Timeframes
               /\ Tracks(key.indicator, key.series.params, cache.instances[key], History(key.timeframe))
    BY <1>11, <2>2 DEF CacheTracks
  <2>3. CASE key.symbol = symbol /\ key.timeframe = tf
    <3>1. after.instances[key] = Update(key.indicator, cache.instances[key], x).state
      BY <1>12, <2>3
    <3>2. Tracks(key.indicator, key.series.params, after.instances[key], Append(h, x))
      BY <1>13, <2>3, <3>1
    <3> HIDE DEF after
    <3> QED
      BY <1>10, <2>1, <2>3, <3>2
  <2>4. CASE key.symbol = symbol /\ key.timeframe # tf
    <3>1. after.instances[key] = cache.instances[key]
      BY <1>12, <2>4
    <3> HIDE DEF after
    <3>2. History(key.timeframe)' = History(key.timeframe)
      BY <1>10, <2>2, <2>4
    <3> QED
      BY <2>1, <2>2, <2>4, <3>1, <3>2
  <2> QED
    BY <2>1, <2>3, <2>4
<1>15. CacheReads'
  <2> SUFFICES ASSUME NEW key \in DOMAIN after.latest
               PROVE  /\ key \in DOMAIN cache.instances /\ key.symbol = symbol
                      /\ Reads(key.indicator, key.series.params, History(key.timeframe)', after.latest[key].value)
    BY <1>11, <1>12 DEF CacheReads
  <2>1. CASE hit(key)
    <3>1. after.latest[key] = Update(key.indicator, cache.instances[key], x).signal
      BY <1>12, <2>1
    <3>2. Reads(key.indicator, key.series.params, Append(h, x), after.latest[key].value)
      BY <1>13, <2>1, <3>1
    <3> HIDE DEF after
    <3> QED
      BY <1>10, <2>1, <3>2
  <2>2. CASE ~hit(key)
    <3>1. key \in DOMAIN cache.latest /\ after.latest[key] = cache.latest[key]
      BY <1>12, <2>2
    <3>2. /\ key \in DOMAIN cache.instances /\ key.symbol = symbol
          /\ Reads(key.indicator, key.series.params, History(key.timeframe), cache.latest[key].value)
      BY <1>11, <3>1 DEF CacheReads
    <3>3. key.timeframe \in Timeframes \ {tf}
      BY <1>11, <2>2, <3>2 DEF CacheTracks
    <3>4. History(key.timeframe)' = History(key.timeframe)
      BY <1>10, <3>3
    <3> HIDE DEF after
    <3> QED
      BY <3>1, <3>2, <3>4
  <2> QED
    BY <2>1, <2>2
<1> QED
  BY <1>8, <1>11, <1>14, <1>15 DEF ReadInv

LEMMA ReadStep ==
    ASSUME HistoryType, SeriesInv, ReadInv, document \in Documents, [Next]_vars
    PROVE  ReadInv'
<1>1. CASE Accept
  BY <1>1, AcceptReads
<1>2. ASSUME NEW tf \in Timeframes, Replay(tf) PROVE ReadInv'
  BY <1>2, ReplayReads
<1>3. CASE Finish \/ Refuse \/ UNCHANGED vars
  <2>1. UNCHANGED <<cache, strategy, replayed, labels>> /\ (Replaying' <=> Replaying)
    BY <1>3 DEF Finish, Refuse, vars, Replaying
  <2>2. (HistoryInv' <=> HistoryInv) /\ (CacheTracks' <=> CacheTracks) /\ (CacheReads' <=> CacheReads)
    BY <2>1 DEF HistoryInv, Dated, Label, CloseOf, CacheTracks, CacheReads, History
  <2> QED
    BY <2>1, <2>2 DEF ReadInv
<1> QED
  BY <1>1, <1>2, <1>3 DEF Next

(* After every candle, each indicator reads what the whole history of its  *)
(* own timeframe says, for every document, history and set of timeframes.  *)
THEOREM ReadingsAreExact == Spec => []ReadingsSound
<1>1. ReadInv => ReadingsSound
  <2>1. CASE Replaying
    BY <2>1 DEF ReadInv, CacheReads, ReadingsSound
  <2>2. CASE ~Replaying
    BY <2>2, NoReadings DEF ReadInv, ReadingsSound
  <2> QED
    BY <2>1, <2>2
<1>2. Init => document \in Documents
  BY DEF Init
<1>3. document \in Documents /\ [Next]_vars => (document \in Documents)'
  BY DEF Next, Refuse, Accept, Finish, Replay, vars
<1>4. HistoryType /\ SeriesInv /\ document \in Documents /\ [Next]_vars => SeriesInv'
  BY SeriesStep
<1>5. HistoryType /\ SeriesInv /\ ReadInv /\ document \in Documents /\ [Next]_vars => ReadInv'
  BY ReadStep
<1> QED
  BY <1>1, <1>2, <1>3, <1>4, <1>5, InitHistory, InitSeries, InitReads, HistoryStep, PTL DEF Spec
=============================================================================
