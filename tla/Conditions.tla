----------------------------- MODULE Conditions -----------------------------
(* The condition trees of the strategy DSL (src/engine/internal/dsl/       *)
(* condition.go, src/engine/internal/strategy/resolver.go, extract.go): how *)
(* a tree is parsed, which series it reads, what it evaluates to.  A tree   *)
(* is a function from node numbers to nodes, its root is node 1, the empty *)
(* function stands for nil.  An optional field is a sequence of 0 or 1.    *)
EXTENDS IndicatorCache

None == <<>>
Given(opt) == opt # None
Nil == EmptyMap
-----------------------------------------------------------------------------
(* Parsing.  A raw node is a record with the keys of the JSON object; the  *)
(* value of a key listed under "malformed" has the wrong JSON type.        *)

Has(raw, k) == k \in DOMAIN raw
WellFormed(raw, k) == ~(Has(raw, "malformed") /\ k \in raw.malformed)
Optional(raw, k) == IF Has(raw, k) THEN <<raw[k]>> ELSE None
Text(raw, k) == IF Has(raw, k) THEN raw[k] ELSE ""

reservedRuleKeys == {"indicator", "operator", "value", "compare_to", "timeframe", "params",
                     "take_profit", "stop_loss", "trailing_sl", "pattern_name"}
Markup == {"params", "malformed", "text_value", "null"}

(* Keys beside the reserved ones and those of a nested "params" object end *)
(* in one map, in the order of a Go map: flatLast is the set of keys whose *)
(* own value was written after the nested one.  A value that is no number  *)
(* is left out, and so is the whole of a malformed "params".               *)
mergeParams(raw, reserved, flatLast) ==
    LET flat == {k \in DOMAIN raw \ (reserved \cup Markup) : WellFormed(raw, k)}
        nested == IF Has(raw, "params") /\ WellFormed(raw, "params") THEN raw.params ELSE EmptyMap
    IN  [k \in flat \cup DOMAIN nested |->
            IF k \in flat /\ (k \notin DOMAIN nested \/ k \in flatLast) THEN raw[k] ELSE nested[k]]

EmptyRule == [indicator |-> "", operator |-> "", value |-> None, stringValue |-> None,
              compareTo |-> None, params |-> EmptyMap, patternName |-> "", timeframe |-> "",
              takeProfit |-> None, stopLoss |-> None, trailingSL |-> None]

Shorthands == <<"take_profit", "stop_loss", "trailing_sl">>
ShorthandField == [take_profit |-> "takeProfit", stop_loss |-> "stopLoss", trailing_sl |-> "trailingSL"]

(* A shorthand key, the first of the three, makes the rule and everything  *)
(* beside it is ignored.                                                   *)
ShorthandOf(raw) ==
    LET present == {i \in 1 .. 3 : Has(raw, Shorthands[i])}
    IN  IF present = {} THEN "" ELSE Shorthands[CHOOSE i \in present : \A j \in present : i <= j]

parseRef(raw, flatLast) ==
    [indicator |-> Text(raw, "indicator"), params |-> mergeParams(raw, {"indicator"}, flatLast)]

parseRule(raw, flatLast) ==
    LET short == ShorthandOf(raw)
    IN  IF short # "" THEN [EmptyRule EXCEPT ![ShorthandField[short]] = <<raw[short]>>]
        ELSE [EmptyRule EXCEPT
                !.indicator = raw.indicator, !.operator = Text(raw, "operator"),
                !.value = Optional(raw, "value"), !.stringValue = Optional(raw, "text_value"),
                !.timeframe = Text(raw, "timeframe"), !.patternName = Text(raw, "pattern_name"),
                !.compareTo = IF Has(raw, "compare_to") THEN <<parseRef(raw.compare_to, flatLast)>> ELSE None,
                !.params = mergeParams(raw, reservedRuleKeys, flatLast)]

RuleKeys == {"indicator", "operator", "timeframe", "compare_to", "pattern_name", "value"}

RuleParses(raw) ==
    LET short == ShorthandOf(raw)
    IN  IF short # "" THEN WellFormed(raw, short)
        ELSE Has(raw, "indicator") /\ \A k \in RuleKeys : Has(raw, k) => WellFormed(raw, k)

(* "all" before "any" before "not" before a rule; with "all": null (marked *)
(* by the key "null") the node stays empty.                                *)
KindOf(raw) ==
    IF Has(raw, "null") THEN "empty" ELSE IF Has(raw, "all") THEN "all" ELSE IF Has(raw, "any") THEN "any"
    ELSE IF Has(raw, "not") THEN "not" ELSE "rule"

KidsOf(raw) ==
    LET kind == KindOf(raw)
    IN  IF kind \in {"all", "any"} THEN raw[kind] ELSE IF kind = "not" THEN <<raw.not>> ELSE <<>>

(* The nodes below and including n, by kids[n].                            *)
Below(nodes, kids, n) ==
    LET down[m \in nodes] == {m} \cup UNION {down[kids[m][i]] : i \in 1 .. Len(kids[m])}
    IN  down[n]

RawNodes(rawTree) ==
    IF rawTree = Nil THEN {}
    ELSE Below(DOMAIN rawTree, [n \in DOMAIN rawTree |-> KidsOf(rawTree[n])], 1)

ConditionParses(rawTree) ==
    \A n \in RawNodes(rawTree) :
        LET raw == rawTree[n]
        IN  IF KindOf(raw) = "rule" THEN RuleParses(raw) ELSE WellFormed(raw, KindOf(raw))

UnmarshalCondition(rawTree, flatLast) ==
    [n \in RawNodes(rawTree) |->
        LET kind == KindOf(rawTree[n])
        IN  [kind |-> kind, kids |-> KidsOf(rawTree[n]),
             rule |-> IF kind = "rule" THEN parseRule(rawTree[n], flatLast) ELSE EmptyRule]]
-----------------------------------------------------------------------------
(* Walks.                                                                  *)
Rules(tree) == {tree[n].rule : n \in {m \in DOMAIN tree : tree[m].kind = "rule"}}

IsShorthand(rule) == Given(rule.takeProfit) \/ Given(rule.stopLoss) \/ Given(rule.trailingSL)

TimeframeOf(rule, default) == IF rule.timeframe = "" THEN default ELSE rule.timeframe

LeafKey(rule, symbol, default) ==
    Key(symbol, TimeframeOf(rule, default), rule.indicator, rule.params, rule.patternName)

RefKey(rule, symbol, default) ==
    LET ref == rule.compareTo[1]
    IN  Key(symbol, TimeframeOf(rule, default), ref.indicator, ref.params, "")

collectLeaves_NoRefs(tree, symbol, default) ==
    {LeafKey(r, symbol, default) : r \in {q \in Rules(tree) : ~IsShorthand(q)}}

(* Every series a tree reads, those it compares with included.             *)
collectLeaves(tree, symbol, default) ==
    LET leaves == {r \in Rules(tree) : ~IsShorthand(r)}
    IN  {LeafKey(r, symbol, default) : r \in leaves}
        \cup {RefKey(r, symbol, default) : r \in {q \in leaves : Given(q.compareTo)}}

treeHasStopDistance(tree) == \E r \in Rules(tree) : Given(r.stopLoss) \/ Given(r.trailingSL)

(* The first leaf of its kind in the order of the walk: a node's kids are  *)
(* numbered in that order.                                                 *)
extractShorthand(tree, field) ==
    LET having == {n \in DOMAIN tree : tree[n].kind = "rule" /\ Given(tree[n].rule[field])}
    IN  IF having = {} THEN None ELSE tree[CHOOSE n \in having : \A m \in having : n <= m].rule[field]
-----------------------------------------------------------------------------
(* Evaluation.  ctx: the cache, the symbol, the strategy's timeframe, the   *)
(* candle's close and the open trade (entry price and high-water mark, 0   *)
(* without a trade).                                                       *)

TakeProfitHit(ctx, pct) == ctx.entry # 0 /\ ctx.price * 100 >= ctx.entry * (100 + pct)
StopLossHit(ctx, pct) == ctx.entry # 0 /\ ctx.price * 100 <= ctx.entry * (100 - pct)
TrailingSLHit(ctx, pct) == ctx.hwm # 0 /\ ctx.price * 100 <= ctx.hwm * (100 - pct)

Truth(b) == IF b THEN "true" ELSE "false"

Compares(operator, v, t) ==
    \/ operator = "<" /\ v < t
    \/ operator = "<=" /\ v <= t
    \/ operator \in {">", "spike_pct"} /\ v > t
    \/ operator = ">=" /\ v >= t
    \/ operator = "==" /\ v = t

Comparisons == {"<", "<=", ">", ">=", "==", "spike_pct"}

(* threshold and prevThreshold are optional: the other series, or else the *)
(* literal, or else nothing.  Without one a comparison is an error and a   *)
(* cross is the indicator's own flag.                                      *)
matchOperator(sig, operator, threshold, prevThreshold) ==
    IF operator \in Comparisons
    THEN IF Given(threshold) THEN Truth(Compares(operator, sig.value, threshold[1])) ELSE "error"
    ELSE IF operator \in {"crosses_above", "crosses_below"} /\ Given(threshold)
    THEN Truth(IF operator = "crosses_above"
               THEN sig.prev <= prevThreshold[1] /\ sig.value > threshold[1]
               ELSE sig.prev >= prevThreshold[1] /\ sig.value < threshold[1])
    ELSE Truth(operator \in sig.flags)

(* A series without a value is an error of the leaf ("still warming up").  *)
evaluateRule(rule, ctx) ==
    LET own == LeafKey(rule, ctx.symbol, ctx.timeframe)
        other == RefKey(rule, ctx.symbol, ctx.timeframe)
        literal == IF Given(rule.value) THEN <<rule.value[1] * Unit>> ELSE None
    IN  IF Given(rule.takeProfit) THEN Truth(TakeProfitHit(ctx, rule.takeProfit[1]))
        ELSE IF Given(rule.stopLoss) THEN Truth(StopLossHit(ctx, rule.stopLoss[1]))
        ELSE IF Given(rule.trailingSL) THEN Truth(TrailingSLHit(ctx, rule.trailingSL[1]))
        ELSE IF ~CanGet(ctx.cache, own) \/ (Given(rule.compareTo) /\ ~CanGet(ctx.cache, other)) THEN "error"
        ELSE IF Given(rule.compareTo)
        THEN matchOperator(Get(ctx.cache, own), rule.operator,
                           <<Get(ctx.cache, other).value>>, <<Get(ctx.cache, other).prev>>)
        ELSE matchOperator(Get(ctx.cache, own), rule.operator, literal, literal)

(* The first kid that is not `neutral` decides, an error too.              *)
FirstUnlike(neutral, results) ==
    LET unlike == {i \in DOMAIN results : results[i] # neutral}
    IN  IF unlike = {} THEN neutral ELSE results[CHOOSE i \in unlike : \A j \in unlike : i <= j]

Negated_SwallowsError(result) == Truth(result # "true")

Negated(result) == IF result = "error" THEN "error" ELSE Truth(result = "false")

EvaluateNode(tree, n, leaf) ==
    LET value[m \in DOMAIN tree] ==
            LET kids == tree[m].kids
            IN  CASE tree[m].kind = "all" -> FirstUnlike("true", [i \in 1 .. Len(kids) |-> value[kids[i]]])
                  [] tree[m].kind = "any" -> FirstUnlike("false", [i \in 1 .. Len(kids) |-> value[kids[i]]])
                  [] tree[m].kind = "not" -> Negated(value[kids[1]])
                  [] tree[m].kind = "rule" -> leaf[m]
                  [] tree[m].kind = "empty" -> "error"
    IN  value[n]

LeafValues(tree, ctx) ==
    [n \in {m \in DOMAIN tree : tree[m].kind = "rule"} |-> evaluateRule(tree[n].rule, ctx)]

(* "true", "false" or "error"; a nil tree is false.                        *)
Evaluate(tree, ctx) == IF tree = Nil THEN "false" ELSE EvaluateNode(tree, 1, LeafValues(tree, ctx))
=============================================================================
