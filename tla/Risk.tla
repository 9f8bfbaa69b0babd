-------------------------------- MODULE Risk ---------------------------------
(***************************************************************************)
(* The risk block of one strategy (src/engine/internal/risk/risk.go) as a  *)
(* record, with the reading and writing methods as operators.  Every       *)
(* method holds the mutex throughout.  0 in a limit switches it off, as in *)
(* the code.  A symbol absent from a map reads as 0: the runtime's bar     *)
(* count is at least 1 when the maps are read, so a cooldown "until bar 0" *)
(* never blocks.                                                           *)
(* A definition with a suffix (RecordExit_StaysOpen) is a faulty variant   *)
(* of the one it is named after, used to see the properties fail.          *)
(***************************************************************************)
EXTENDS Integers, FiniteSets

CONSTANTS Symbols,          \* symbols of the strategy
          MaxPositions,     \* risk.max_positions, 0 = no cap
          MaxDailyLossPct,  \* risk.max_daily_loss in percent, 0 = no cap
          CooldownBars,     \* cooldown.bars
          ReentryAllowed,   \* reentry.allowed
          MaxReentries      \* reentry.max_reentries, 0 = no cap

NewRisk(starting) ==
    [startingCapital |-> starting, dailyLoss |-> 0, openPositions |-> {},
     cooldownUntil   |-> [s \in Symbols |-> 0],
     reentryCount    |-> [s \in Symbols |-> 0]]

RollDay(r) == [r EXCEPT !.dailyLoss = 0, !.reentryCount = [s \in Symbols |-> 0]]

DailyLossBreached_NotPercent(r) ==
    /\ MaxDailyLossPct > 0
    /\ r.startingCapital # 0
    /\ r.dailyLoss >= MaxDailyLossPct * r.startingCapital

DailyLossBreached(r) ==
    /\ MaxDailyLossPct > 0
    /\ r.startingCapital # 0
    /\ r.dailyLoss * 100 >= MaxDailyLossPct * r.startingCapital

PositionsReached_OffByOne(r, s) ==
    /\ MaxPositions > 0
    /\ Cardinality(r.openPositions) > MaxPositions
    /\ s \notin r.openPositions

PositionsReached(r, s) ==
    /\ MaxPositions > 0
    /\ Cardinality(r.openPositions) >= MaxPositions
    /\ s \notin r.openPositions

InCooldown_Ignored(r, s, bar) == FALSE

InCooldown(r, s, bar) == bar < r.cooldownUntil[s]

ReentryBlocked(r, s) ==
    /\ r.reentryCount[s] > 0
    /\ \/ ~ReentryAllowed
       \/ MaxReentries > 0 /\ r.reentryCount[s] >= MaxReentries

CanEnter(r, s, bar) ==
    /\ ~DailyLossBreached(r)
    /\ ~PositionsReached(r, s)
    /\ ~InCooldown(r, s, bar)
    /\ ~ReentryBlocked(r, s)

RecordEntry(r, s) == [r EXCEPT !.openPositions = @ \cup {s}]

RecordExit_AnySign(r, s, bar, realized) ==
    [r EXCEPT !.openPositions = @ \ {s},
              !.dailyLoss = @ - realized,
              !.cooldownUntil[s] = bar + CooldownBars,
              !.reentryCount[s] = @ + 1]

RecordExit_StaysOpen(r, s, bar, realized) ==
    [r EXCEPT !.dailyLoss = IF realized < 0 THEN @ - realized ELSE @,
              !.cooldownUntil[s] = bar + CooldownBars,
              !.reentryCount[s] = @ + 1]

RecordExit(r, s, bar, realized) ==
    [r EXCEPT !.openPositions = @ \ {s},
              !.dailyLoss = IF realized < 0 THEN @ - realized ELSE @,
              !.cooldownUntil[s] = bar + CooldownBars,
              !.reentryCount[s] = @ + 1]
==============================================================================
