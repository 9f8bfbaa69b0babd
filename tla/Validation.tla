----------------------------- MODULE Validation -----------------------------
(* Parsing and validating a strategy document (src/engine/internal/dsl/    *)
(* schema.go, validate.go, registry_meta.go).  A document is a record; its *)
(* condition trees are raw trees (Conditions), its texts members of small  *)
(* sets.                                                                   *)
EXTENDS Conditions

SupportedVersion == "1.2"

(* A malformed node anywhere makes the whole document unparseable.         *)
Parses(document) == ConditionParses(document.entry) /\ ConditionParses(document.exit)

Parse(document, flatLast) ==
    [document EXCEPT !.entry = UnmarshalCondition(@, flatLast), !.exit = UnmarshalCondition(@, flatLast)]

Order == {"<", ">"}
Crosses == {"crosses_above", "crosses_below"}

(* registry_meta.go                                                        *)
IndicatorOperators(indicator) ==
    CASE indicator \in {"price", "close", "open", "high", "low"} -> Order \cup {"<=", ">=", "=="} \cup Crosses
      [] indicator \in {"ema", "sma", "rsi"} -> Order \cup {"<=", ">="} \cup Crosses
      [] indicator \in {"vwap", "stochastic_rsi", "cci", "mfi", "roc"} -> Order \cup Crosses
      [] indicator = "macd" -> Crosses \cup {"bullish", "bearish"}
      [] indicator \in {"ema_cross", "supertrend"} -> {"bullish", "bearish"}
      [] indicator \in {"adx", "atr"} -> Order
      [] indicator = "obv" -> Crosses \cup {"rising", "falling"}
      [] indicator = "bollinger_bands" -> {"price_above_upper", "price_below_lower", "squeeze"}
      [] indicator = "donchian_channel" ->
            {"price_above_upper", "price_below_lower", "breakout_up", "breakout_down"}
      [] indicator \in {"highest_high", "lowest_low"} -> Crosses \cup {"=="}
      [] indicator = "volume" -> Order \cup {"spike_pct"}
      [] indicator = "prev_high" -> {"crosses_above"}
      [] indicator = "prev_low" -> {"crosses_below"}
      [] indicator \in {"support", "resistance"} -> Crosses \cup {"bounce"}
      [] indicator \in {"gap_up", "gap_down", "pattern"} -> {"true"}

IsKnownIndicator(indicator) == indicator \in Known
IsValidOperator(indicator, operator) ==
    IsKnownIndicator(indicator) /\ operator \in IndicatorOperators(indicator)

validateRule(rule) ==
    \/ IsShorthand(rule)
    \/ IsValidOperator(rule.indicator, rule.operator) /\ rule.operator # ""

(* What two leaves must differ in: neither the pattern's name nor the      *)
(* params of the compared indicator.                                       *)
ruleSignature(rule) ==
    [rule EXCEPT !.patternName = "",
                 !.compareTo = IF Given(@) THEN <<@[1].indicator>> ELSE None]

(* Both trees share one set of leaves already seen.                        *)
Leaves(s) == {<<"entry", n>> : n \in {m \in DOMAIN s.entry : s.entry[m].kind = "rule"}}
             \cup {<<"exit", n>> : n \in {m \in DOMAIN s.exit : s.exit[m].kind = "rule"}}

RuleAt(s, leaf) == s[leaf[1]][leaf[2]].rule

HasDuplicateLeaf(s) ==
    \E a, b \in Leaves(s) : a # b /\ ruleSignature(RuleAt(s, a)) = ruleSignature(RuleAt(s, b))

TreesValid(s) ==
    /\ \A leaf \in Leaves(s) : validateRule(RuleAt(s, leaf))
    /\ ~HasDuplicateLeaf(s)
    /\ \A n \in DOMAIN s.entry : s.entry[n].kind # "empty"
    /\ \A n \in DOMAIN s.exit : s.exit[n].kind # "empty"

(* Holding and session per type of strategy.                               *)
TypeRequirements(s) ==
    /\ s.type = "intraday" => s.forceSquareOff # "" /\ s.session
    /\ s.type = "swing" => s.maxDays > 0

SizingValid(s) ==
    /\ s.sizing.type = "risk_based" => treeHasStopDistance(s.exit)
    /\ s.sizing.type = "fixed_pct" /\ s.maxPositions > 0 => s.sizing.value * s.maxPositions <= 100

ExposureValid(s) ==
    s.portfolio # None =>
        s.portfolio[1].maxSectorExposure \in 0 .. 100 /\ s.portfolio[1].maxSymbolExposure \in 0 .. 100

(* s.lowercase: the symbols that are not written in capitals.              *)
SymbolsValid(s) == Len(s.symbols) > 0 /\ \A i \in 1 .. Len(s.symbols) : s.symbols[i] \notin s.lowercase \cup {""}

validExitPriorityKeys == {"stop_loss", "take_profit", "trailing_sl", "signal"}

ExitPriorityValid(s) ==
    /\ \A i \in 1 .. Len(s.exitPriority) : s.exitPriority[i] \in validExitPriorityKeys
    /\ \A i, j \in 1 .. Len(s.exitPriority) : i # j => s.exitPriority[i] # s.exitPriority[j]

Valid(s) ==
    /\ s.version = SupportedVersion
    /\ s.type \in {"intraday", "swing"}
    /\ s.direction \in {"long", "short", "both"}
    /\ TypeRequirements(s)
    /\ TreesValid(s)
    /\ SizingValid(s)
    /\ ExposureValid(s)
    /\ SymbolsValid(s)
    /\ s.benchmark # ""
    /\ ExitPriorityValid(s)
    /\ s.confirmation \in {"", "close", "intrabar"}
=============================================================================
