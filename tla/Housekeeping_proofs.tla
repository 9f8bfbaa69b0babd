-------------------------- MODULE Housekeeping_proofs --------------------------
(***************************************************************************)
(* Proofs about Housekeeping, for any versions, results, days, number of   *)
(* trades and number of faults:                                            *)
(*   - the reviews are a history of what was completed;                    *)
(*   - a delete leaves nothing but what was in flight;                     *)
(*   - the reviews of an evening miss no exit;                             *)
(*   - a card shows what was completed, before and after a purge.          *)
(* All speak of tables; what makes them true is what each procedure has in *)
(* hand between two of its statements (HistoryInv, GoneInv, EveningInv,    *)
(* CardInv).                                                               *)
(***************************************************************************)
EXTENDS Housekeeping, Sums, FiniteSetTheorems, TLAPS

(* What a procedure has listed and waits to save.                          *)
ListedInv(job) ==
    job.at = "save" =>
        \A t \in job.done : Completed(t) /\ t.version = job.version /\ t.exitDay = job.date

HistoryInv == ListedInv(http) /\ ListedInv(capture) /\ ReviewsSound
-----------------------------------------------------------------------------
(* History                                                                 *)

LEMMA HistoryInit == Init => HistoryInv
  BY DEF Init, HistoryInv, ListedInv, ReviewsSound, Idle

(* No review is new, and nothing was listed.                               *)
LEMMA HistoryFrame ==
    /\ HistoryInv
    /\ reviews' \subseteq reviews
    /\ http' = http \/ http'.at # "save"
    /\ capture' = capture \/ capture'.at # "save"
    => HistoryInv'
  BY DEF HistoryInv, ListedInv, ReviewsSound

LEMMA HistoryStep == HistoryInv /\ [Next]_vars => HistoryInv'
<1> SUFFICES ASSUME HistoryInv, [Next]_vars PROVE HistoryInv'
  OBVIOUS
<1> USE DEF tables, memory, jobs, ghosts
<1>1. ASSUME NEW date \in 1 .. today, ReviewLists(date) PROVE HistoryInv'
  <2>1. /\ http'.version = LatestVersion /\ http'.date = date
        /\ http'.done = DayTrades(ListByStrategy(LatestVersion), date)
        /\ UNCHANGED <<reviews, capture>>
    BY <1>1 DEF ReviewLists, Listed
  <2>2. \A t \in http'.done : Completed(t) /\ t.version = http'.version /\ t.exitDay = http'.date
    BY <2>1 DEF DayTrades, ListByStrategy
  <2>3. QED BY <2>1, <2>2 DEF HistoryInv, ListedInv, ReviewsSound
<1>2. ASSUME ReviewSaves PROVE HistoryInv'
  <2>1. ReviewsSound'
    BY <1>2 DEF ReviewSaves, HistoryInv, ListedInv, ReviewsSound, SaveDailyReview, Review
  <2>2. QED BY <1>2, <2>1 DEF ReviewSaves, HistoryInv, ListedInv, Idle
<1>3. ASSUME CaptureLists PROVE HistoryInv'
  <2> DEFINE found == Listed(capture, ListByStrategy(capture.version))
  <2>1. /\ capture' = Idle \/ capture' = found
        /\ UNCHANGED <<reviews, http>>
    BY <1>3 DEF CaptureLists
  <2>2. /\ found.version = capture.version /\ found.date = capture.date
        /\ \A t \in found.done : Completed(t) /\ t.version = capture.version /\ t.exitDay = capture.date
    BY DEF Listed, DayTrades, ListByStrategy
  <2> HIDE DEF found
  <2>3. QED BY <2>1, <2>2 DEF HistoryInv, ListedInv, ReviewsSound, Idle
<1>4. ASSUME CaptureSaves PROVE HistoryInv'
  <2>1. ReviewsSound'
    BY <1>4 DEF CaptureSaves, HistoryInv, ListedInv, ReviewsSound, SaveDailyReview, Review
  <2>2. QED BY <1>4, <2>1 DEF CaptureSaves, HistoryInv, ListedInv, Idle
<1>5. ASSUME Trading \/ PurgeStep \/ PurgeFails \/ MarketCloses \/ NextDay \/ UNCHANGED vars PROVE HistoryInv'
  <2>1. UNCHANGED <<reviews, http, capture>>
    BY <1>5 DEF Trading, Enter, Exit, Expire, CandleWrites, CandleFails, PurgeStep, PurgeLooks, PurgeSnapshot,
                PurgeTrades, PurgeMarks, PurgeFails, MarketCloses, NextDay, vars
  <2>2. QED BY <2>1, HistoryFrame
<1>6. ASSUME Start \/ SetLastRunAt \/ Stop \/ (\E v \in Versions : CreateStrategy(v)) PROVE HistoryInv'
  <2>1. /\ UNCHANGED <<reviews, capture>>
        /\ http' = http \/ http' = Idle \/ http'.at = "last"
    BY <1>6 DEF Start, SetLastRunAt, Stop, CreateStrategy
  <2>2. QED BY <2>1, HistoryFrame DEF Idle
<1>7. ASSUME Deleting \/ DeleteFails PROVE HistoryInv'
  <2>1. http'.at # "save"
    <3>1. CASE DeleteRows
      BY <3>1 DEF DeleteRows
    <3>2. CASE DeleteStops
      BY <3>2 DEF DeleteStops
    <3>3. CASE DeleteForgets \/ DeleteFails
      BY <3>3 DEF DeleteForgets, DeleteFails, Idle
    <3>4. QED BY <1>7, <3>1, <3>2, <3>3 DEF Deleting
  <2>2. reviews' \subseteq reviews /\ capture' = capture
    BY <1>7 DEF Deleting, DeleteStops, DeleteRows, DeleteForgets, DeleteFails, Without
  <2>3. QED BY <2>1, <2>2, HistoryFrame
<1>8. ASSUME CaptureLooks \/ CaptureFails \/ Restart PROVE HistoryInv'
  <2>1. reviews' = reviews
    BY <1>8 DEF CaptureLooks, CaptureFails, Restart
  <2>2. http' = http \/ http' = Idle
    BY <1>8 DEF CaptureLooks, CaptureFails, Restart
  <2>3. capture' = Idle \/ capture'.at = "list"
    BY <1>8 DEF CaptureLooks, CaptureFails, Restart
  <2>4. QED BY <2>1, <2>2, <2>3, HistoryFrame DEF Idle
<1>9. QED BY <1>1, <1>2, <1>3, <1>4, <1>5, <1>6, <1>7, <1>8 DEF Next, Request, Reviewing, Capture

(* The reviews stay a history, whoever saves them, however late, and       *)
(* whatever fails in between (dailyreview/monitor.go captureOne, server.go *)
(* handleDailyReview).                                                     *)
THEOREM HistoryIsSound == Spec => []ReviewsSound
<1>1. HistoryInv => ReviewsSound
  BY DEF HistoryInv
<1>2. QED BY <1>1, HistoryInit, HistoryStep, PTL DEF Spec
-----------------------------------------------------------------------------
(* Deletes                                                                 *)

Deleted(tablesGone) == http.at = "delete" /\ http.table \in tablesGone

TradesGone == Deleted({"reviews", "versions", "strategies", "memory"})
ReviewsGone == Deleted({"versions", "strategies", "memory"})
VersionsGone == Deleted({"strategies", "memory"})

(* A review that was waiting to be saved, or is of a trade that was        *)
(* waiting to be written.                                                  *)
InFlight(r) == r \in stale \/ \A t \in r.done : t.id \in late

RowInv ==
    /\ strategy = [exists |-> strategy.exists, lastRun |-> strategy.lastRun,
                   purged |-> strategy.purged, final |-> strategy.final]
    /\ strategy.exists \in BOOLEAN

(* Trades have an id, given when they are opened.                          *)
HandInv ==
    /\ opened \in Nat
    /\ candle # NoTrade => candle.id # NoTrade.id

RequestInv ==
    /\ http.at = "idle" => http = Idle
    /\ http.at = "delete" => live = 0 /\ http.table \in {"trades", "reviews", "versions", "strategies", "memory"}
    /\ http.at \in {"last", "save"} => strategy.exists

(* What is gone by the time, and what may come back.                       *)
TradesInv ==
    TradesGone \/ ~strategy.exists =>
        /\ live = 0
        /\ \A t \in trades : t.id \in late
        /\ candle # NoTrade => candle.id \in late

ReviewsInv ==
    ReviewsGone \/ ~strategy.exists =>
        \A r \in reviews \cup {Review(c) : c \in Waiting} : InFlight(r)

NameInv ==
    /\ VersionsGone \/ ~strategy.exists => versions = {}
    /\ Deleted({"memory"}) => ~strategy.exists
    /\ ~strategy.exists /\ ledger => Deleted({"memory"})

GoneInv == RowInv /\ HandInv /\ RequestInv /\ TradesInv /\ ReviewsInv /\ NameInv

LEMMA GoneInit == Init => GoneInv
<1>1. NoRow = [exists |-> NoRow.exists, lastRun |-> NoRow.lastRun, purged |-> NoRow.purged, final |-> NoRow.final]
      /\ NoRow.exists = FALSE
  BY DEF NoRow
<1>2. Init => RowInv /\ HandInv
  <2>1. Init => strategy = NoRow /\ candle = NoTrade /\ opened = 0
    BY DEF Init
  <2>2. Init => RowInv
    BY <1>1, <2>1 DEF RowInv
  <2>3. Init => HandInv
    BY <2>1 DEF HandInv
  <2>4. QED BY <2>2, <2>3
<1>3. Init => RequestInv /\ TradesInv /\ ReviewsInv /\ NameInv
  BY DEF Init, RequestInv, TradesInv, ReviewsInv, NameInv, Deleted, Waiting, Idle
<1>4. QED BY <1>2, <1>3 DEF GoneInv

(* An update of the row neither makes it nor removes it.                   *)
LEMMA RowUpdated ==
    RowInv =>
        /\ \A x : LET row == Updated([strategy EXCEPT !.lastRun = x])
                  IN  row.exists = strategy.exists
                      /\ row = [exists |-> row.exists, lastRun |-> row.lastRun, purged |-> row.purged, final |-> row.final]
        /\ \A x : LET row == Updated([strategy EXCEPT !.purged = x])
                  IN  row.exists = strategy.exists
                      /\ row = [exists |-> row.exists, lastRun |-> row.lastRun, purged |-> row.purged, final |-> row.final]
        /\ \A x : LET row == Updated([strategy EXCEPT !.final = x])
                  IN  row.exists = strategy.exists
                      /\ row = [exists |-> row.exists, lastRun |-> row.lastRun, purged |-> row.purged, final |-> row.final]
  BY DEF RowInv, Updated

(* Steps that leave the tables, the request and both ghosts alone.         *)
LEMMA GoneFrame ==
    ASSUME GoneInv, UNCHANGED <<strategy, versions, reviews, http, ledger, late, stale>>,
           trades' \subseteq trades, HandInv',
           live' = live \/ live' = 0,
           candle' = candle \/ candle' = NoTrade \/ live # 0,
           Waiting' \subseteq Waiting
    PROVE  GoneInv'
<1> USE DEF GoneInv
<1>1. RowInv'
  BY DEF RowInv
<1>2. RequestInv'
  BY DEF RequestInv
<1>3. NameInv'
  BY DEF NameInv, VersionsGone, Deleted
<1>4. TradesInv'
  BY DEF TradesInv, TradesGone, Deleted
<1>5. ReviewsInv'
  BY DEF ReviewsInv, ReviewsGone, Deleted, InFlight, Review
<1>6. QED BY <1>1, <1>2, <1>3, <1>4, <1>5

LEMMA GoneTrading ==
    ASSUME GoneInv, Trading
    PROVE  GoneInv'
<1> USE DEF tables, memory, jobs, ghosts
<1>1. ASSUME Enter \/ Expire \/ (\E pnl \in PnLs : \E day \in {today - 1, today} \ {0} : Exit(pnl, day))
      PROVE  GoneInv'
  <2>1. /\ live # 0 /\ live' = live /\ candle'.id \in {opened + 1, held} \ {0}
        /\ opened' \in {opened, opened + 1}
        /\ UNCHANGED <<strategy, versions, trades, reviews, http, ledger, late, stale, capture>>
    BY <1>1 DEF Enter, Expire, Exit, Dispatched, GoneInv, HandInv
  <2>2. HandInv'
    BY <2>1 DEF GoneInv, HandInv, NoTrade
  <2>3. Waiting' \subseteq Waiting
    BY <2>1 DEF Waiting
  <2>4. QED BY <2>1, <2>2, <2>3, GoneFrame
<1>2. ASSUME CandleWrites PROVE GoneInv'
  <2>1. /\ candle # NoTrade /\ candle' = NoTrade
        /\ trades' \subseteq trades \cup {candle}
        /\ UNCHANGED <<strategy, versions, reviews, http, live, held, ledger, opened, late, stale, capture>>
    BY <1>2 DEF CandleWrites, Upsert
  <2>2. RowInv' /\ HandInv' /\ RequestInv'
    BY <2>1 DEF GoneInv, RowInv, HandInv, RequestInv
  <2>3. TradesInv'
    BY <2>1 DEF GoneInv, TradesInv, TradesGone, Deleted
  <2>4. ReviewsInv' /\ NameInv'
    BY <2>1 DEF GoneInv, ReviewsInv, ReviewsGone, NameInv, VersionsGone, Deleted, InFlight, Waiting, Review
  <2>5. QED BY <2>2, <2>3, <2>4 DEF GoneInv
<1>3. ASSUME CandleFails PROVE GoneInv'
  <2>1. HandInv' /\ Waiting' \subseteq Waiting
    BY <1>3 DEF CandleFails, GoneInv, HandInv, Waiting
  <2>2. QED BY <1>3, <2>1, GoneFrame DEF CandleFails
<1>4. QED BY <1>1, <1>2, <1>3 DEF Trading

(* The statements of a delete.                                             *)
LEMMA GoneDeleteRows ==
    ASSUME GoneInv, DeleteRows
    PROVE  GoneInv'
<1> USE DEF tables, memory, jobs, ghosts, GoneInv
<1>1. /\ http' = [http EXCEPT !.table = AfterTable(http.table)]
      /\ trades' = (IF http.table = "trades" THEN {} ELSE trades)
      /\ reviews' = (IF http.table = "reviews" THEN {} ELSE reviews)
      /\ versions' = (IF http.table = "versions" THEN {} ELSE versions)
      /\ strategy' = (IF http.table = "strategies" THEN NoRow ELSE strategy)
      /\ late' = (IF http.table = "trades" THEN late \cup ({candle.id} \ {NoTrade.id}) ELSE late)
      /\ stale' = (IF http.table = "reviews" THEN stale \cup {Review(c) : c \in Waiting} ELSE stale)
      /\ UNCHANGED <<live, held, ledger, candle, capture, opened>>
  BY DEF DeleteRows, Without
<1>2. /\ http.at = "delete" /\ http'.at = "delete" /\ http'.table = AfterTable(http.table) /\ live = 0
      /\ http.table \in {"trades", "reviews", "versions", "strategies"}
  BY <1>1 DEF DeleteRows, RequestInv
<1>3. /\ http'.table = "reviews" <=> http.table = "trades"
      /\ http'.table = "versions" <=> http.table = "reviews"
      /\ http'.table = "strategies" <=> http.table = "versions"
      /\ http'.table = "memory" <=> http.table = "strategies"
      /\ http'.table \in {"reviews", "versions", "strategies", "memory"}
  BY <1>2 DEF AfterTable
<1>4. RowInv' /\ HandInv' /\ (strategy'.exists => strategy.exists)
  BY <1>1 DEF RowInv, HandInv, NoRow
<1>5. RequestInv'
  BY <1>1, <1>2, <1>3 DEF RequestInv
<1>6. TradesInv'
  BY <1>1, <1>2, <1>3 DEF TradesInv, TradesGone, Deleted, HandInv
<1>7. ReviewsInv'
  <2>1. Waiting' = Waiting
    BY <1>1 DEF Waiting
  <2>2. late \subseteq late' /\ stale \subseteq stale'
    BY <1>1
  <2>3. CASE http.table = "reviews"
    BY <1>1, <2>1, <2>3 DEF ReviewsInv, InFlight, Review
  <2>4. CASE http.table # "reviews"
    <3>1. ReviewsGone' \/ ~strategy'.exists => ReviewsGone \/ ~strategy.exists
      BY <1>1, <1>2, <1>3, <2>4 DEF ReviewsGone, Deleted
    <3>2. reviews' = reviews
      BY <1>1, <2>4
    <3>3. QED BY <1>1, <2>1, <2>2, <3>1, <3>2 DEF ReviewsInv, InFlight, Review
  <2>5. QED BY <2>3, <2>4
<1>8. NameInv'
  BY <1>1, <1>2, <1>3 DEF NameInv, VersionsGone, Deleted, NoRow
<1>9. QED BY <1>4, <1>5, <1>6, <1>7, <1>8

LEMMA GoneStep == GoneInv /\ [Next]_vars => GoneInv'
<1> SUFFICES ASSUME GoneInv, [Next]_vars PROVE GoneInv'
  OBVIOUS
<1> USE DEF tables, memory, jobs, ghosts, GoneInv
<1>1. ASSUME NEW v \in Versions, CreateStrategy(v) PROVE GoneInv'
  <2>1. /\ http = Idle /\ http' = Idle /\ strategy'.exists
        /\ strategy' = IF strategy.exists THEN strategy ELSE NewRow
        /\ UNCHANGED <<live, held, candle, opened>>
    BY <1>1 DEF CreateStrategy, NewRow, NoRow
  <2>2. RowInv' /\ HandInv'
    BY <2>1 DEF RowInv, HandInv, NewRow, NoRow
  <2>3. QED BY <2>1, <2>2 DEF RequestInv, TradesInv, TradesGone, ReviewsInv, ReviewsGone, NameInv, VersionsGone, Deleted, Idle
<1>2. ASSUME Start PROVE GoneInv'
  <2>1. /\ http = Idle /\ versions # {}
        /\ http' = Idle \/ http'.at = "last"
        /\ UNCHANGED <<strategy, candle, opened>>
    BY <1>2 DEF Start
  <2>2. strategy.exists
    BY <2>1 DEF NameInv, RowInv
  <2>3. QED BY <2>1, <2>2 DEF RowInv, HandInv, RequestInv, TradesInv, TradesGone, ReviewsInv, ReviewsGone, NameInv, VersionsGone, Deleted, Idle
<1>3. ASSUME SetLastRunAt PROVE GoneInv'
  <2>1. /\ http.at = "last" /\ http' = Idle /\ strategy.exists /\ strategy'.exists = strategy.exists
        /\ UNCHANGED <<candle, opened>>
    BY <1>3, RowUpdated DEF SetLastRunAt, RequestInv
  <2>2. RowInv' /\ HandInv'
    BY <1>3, <2>1, RowUpdated DEF SetLastRunAt, RowInv, HandInv
  <2>3. QED BY <2>1, <2>2 DEF RequestInv, TradesInv, TradesGone, ReviewsInv, ReviewsGone, NameInv, VersionsGone, Deleted, Idle
<1>4. ASSUME Stop PROVE GoneInv'
  <2>1. HandInv' /\ Waiting' \subseteq Waiting
    BY <1>4 DEF Stop, HandInv, Waiting
  <2>2. QED BY <1>4, <2>1, GoneFrame DEF Stop
(* Once more for a name that is gone: what is left of it is from the last  *)
(* delete.                                                                 *)
<1>5. ASSUME DeleteStops PROVE GoneInv'
  <2>1. /\ http = Idle /\ http'.at = "delete" /\ http'.table = "trades" /\ live' = 0
        /\ UNCHANGED <<tables, ledger, candle, capture, opened, late, stale>>
    BY <1>5 DEF DeleteStops
  <2>2. Waiting' = Waiting
    BY <2>1 DEF Waiting
  <2>3. RowInv' /\ HandInv' /\ RequestInv' /\ TradesInv' /\ NameInv'
    BY <2>1 DEF RowInv, HandInv, RequestInv, TradesInv, TradesGone, NameInv, VersionsGone, Deleted, Idle
  <2>4. ReviewsInv'
    BY <2>1, <2>2 DEF ReviewsInv, ReviewsGone, Deleted, InFlight, Review
  <2>5. QED BY <2>3, <2>4
<1>6. ASSUME DeleteForgets \/ DeleteFails PROVE GoneInv'
  <2>1. /\ http.at = "delete" /\ http' = Idle /\ live = 0
        /\ ledger' = FALSE \/ (ledger' = ledger /\ http.table # "memory")
        /\ UNCHANGED <<tables, live, candle, capture, opened, late, stale>>
    BY <1>6 DEF DeleteForgets, DeleteFails, RequestInv
  <2>2. Waiting' = Waiting
    BY <2>1 DEF Waiting
  <2>3. RowInv' /\ HandInv' /\ RequestInv' /\ TradesInv' /\ NameInv'
    BY <2>1 DEF RowInv, HandInv, RequestInv, TradesInv, TradesGone, NameInv, VersionsGone, Deleted, Idle
  <2>4. ReviewsInv'
    BY <2>1, <2>2 DEF ReviewsInv, ReviewsGone, Deleted, InFlight, Review, Idle
  <2>5. QED BY <2>3, <2>4
<1>7. ASSUME Restart PROVE GoneInv'
  <2>1. /\ http' = Idle /\ live' = 0 /\ candle' = NoTrade /\ ledger' = FALSE
        /\ UNCHANGED <<tables, opened, late, stale>>
    BY <1>7 DEF Restart
  <2>2. Waiting' = {}
    BY <1>7 DEF Restart, Waiting, Idle
  <2>3. RowInv' /\ HandInv' /\ RequestInv' /\ TradesInv' /\ NameInv'
    BY <2>1 DEF RowInv, HandInv, RequestInv, TradesInv, TradesGone, NameInv, VersionsGone, Deleted, Idle
  <2>4. ReviewsInv'
    BY <2>1, <2>2 DEF ReviewsInv, ReviewsGone, Deleted, InFlight, Idle
  <2>5. QED BY <2>3, <2>4
<1>8. ASSUME Reviewing PROVE GoneInv'
  <2>1. /\ (http = Idle /\ versions # {} /\ http'.at = "save") \/ (http.at = "save" /\ http' = Idle)
        /\ UNCHANGED <<strategy, versions, trades, live, ledger, candle, capture, opened, late, stale>>
    <3>1. CASE ReviewSaves
      BY <3>1 DEF ReviewSaves
    <3>2. ASSUME NEW date \in 1 .. today, ReviewLists(date)
          PROVE  /\ http = Idle /\ versions # {} /\ http'.at = "save"
                 /\ UNCHANGED <<strategy, versions, trades, live, ledger, candle, capture, opened, late, stale>>
      BY <3>2 DEF ReviewLists, Listed
    <3>3. QED BY <1>8, <3>1, <3>2 DEF Reviewing
  <2>2. strategy.exists
    BY <2>1 DEF NameInv, RequestInv, RowInv
  <2>3. strategy'.exists /\ http'.at # "delete" /\ (http'.at = "idle" => http' = Idle)
    BY <2>1, <2>2 DEF Idle
  <2>4. RowInv' /\ HandInv'
    BY <2>1 DEF RowInv, HandInv
  <2>5. QED BY <2>3, <2>4 DEF RequestInv, TradesInv, TradesGone, ReviewsInv, ReviewsGone, NameInv, VersionsGone, Deleted
<1>10. ASSUME CaptureLooks \/ CaptureFails PROVE GoneInv'
  <2>1. Waiting' = {} /\ HandInv'
    BY <1>10 DEF CaptureLooks, CaptureFails, Waiting, HandInv, Idle
  <2>2. QED BY <1>10, <2>1, GoneFrame DEF CaptureLooks, CaptureFails
(* What is listed after the trades are gone is in flight.                  *)
<1>11. ASSUME CaptureLists PROVE GoneInv'
  <2>1. /\ capture' = Idle \/ (capture'.at = "save" /\ capture'.done \subseteq trades)
        /\ UNCHANGED <<tables, live, ledger, http, candle, opened, late, stale>>
    BY <1>11 DEF CaptureLists, Listed, DayTrades, ListByStrategy
  <2>2. RowInv' /\ HandInv' /\ RequestInv' /\ TradesInv' /\ NameInv'
    BY <2>1 DEF RowInv, HandInv, RequestInv, TradesInv, TradesGone, NameInv, VersionsGone, Deleted
  <2>3. ReviewsInv'
    <3> SUFFICES ASSUME ReviewsGone' \/ ~strategy'.exists, NEW r \in reviews' \cup {Review(c) : c \in Waiting'}
                 PROVE  InFlight(r)'
      BY DEF ReviewsInv
    <3>1. ReviewsGone \/ ~strategy.exists
      BY <2>1 DEF ReviewsGone, Deleted
    <3>2. \A t \in trades : t.id \in late
      BY <3>1 DEF TradesInv, TradesGone, ReviewsGone, Deleted
    <3>3. CASE r \in reviews
      BY <2>1, <3>1, <3>3 DEF ReviewsInv, InFlight
    <3>4. CASE r \notin reviews
      <4>1. r.done \subseteq trades
        BY <2>1, <3>4 DEF Waiting, Review, Idle
      <4>2. QED BY <2>1, <3>2, <4>1 DEF InFlight
    <3>5. QED BY <3>3, <3>4
  <2>4. QED BY <2>2, <2>3
<1>12. ASSUME CaptureSaves PROVE GoneInv'
  <2>1. /\ reviews' \subseteq reviews \cup {Review(c) : c \in Waiting} /\ Waiting' = {}
        /\ UNCHANGED <<strategy, versions, trades, live, ledger, http, candle, opened, late, stale>>
    BY <1>12 DEF CaptureSaves, SaveDailyReview, Waiting, Idle
  <2>2. RowInv' /\ HandInv' /\ RequestInv' /\ TradesInv' /\ NameInv'
    BY <2>1 DEF RowInv, HandInv, RequestInv, TradesInv, TradesGone, NameInv, VersionsGone, Deleted
  <2>3. ReviewsInv'
    BY <2>1 DEF ReviewsInv, ReviewsGone, Deleted, InFlight
  <2>4. QED BY <2>2, <2>3
<1>13. ASSUME PurgeStep \/ PurgeFails PROVE GoneInv'
  <2>1. /\ strategy'.exists = strategy.exists
        /\ trades' \in {trades, {}}
        /\ UNCHANGED <<versions, reviews, live, ledger, http, capture, candle, opened, late, stale>>
    BY <1>13, RowUpdated DEF PurgeStep, PurgeLooks, PurgeSnapshot, PurgeTrades, PurgeMarks, PurgeFails
  <2>2. RowInv'
    <3>1. CASE PurgeSnapshot
      BY <2>1, <3>1, RowUpdated DEF PurgeSnapshot, RowInv
    <3>2. CASE PurgeMarks
      BY <2>1, <3>2, RowUpdated DEF PurgeMarks, RowInv
    <3>3. CASE PurgeLooks \/ PurgeTrades \/ PurgeFails
      BY <3>3 DEF PurgeLooks, PurgeTrades, PurgeFails, RowInv
    <3>4. QED BY <1>13, <3>1, <3>2, <3>3 DEF PurgeStep
  <2>3. HandInv' /\ RequestInv' /\ TradesInv' /\ NameInv'
    BY <2>1 DEF HandInv, RequestInv, TradesInv, TradesGone, NameInv, VersionsGone, Deleted
  <2>4. Waiting' = Waiting
    BY <2>1 DEF Waiting
  <2>5. ReviewsInv'
    BY <2>1, <2>4 DEF ReviewsInv, ReviewsGone, Deleted, InFlight, Review
  <2>6. QED BY <2>2, <2>3, <2>5
<1>14. ASSUME MarketCloses \/ NextDay \/ UNCHANGED vars PROVE GoneInv'
  <2>1. UNCHANGED <<tables, http, ledger, late, stale, live, candle, capture, opened>>
    BY <1>14 DEF MarketCloses, NextDay, vars
  <2>2. HandInv' /\ Waiting' \subseteq Waiting
    BY <2>1 DEF HandInv, Waiting
  <2>3. QED BY <2>1, <2>2, GoneFrame
<1>15. QED
  BY <1>1, <1>2, <1>3, <1>4, <1>5, <1>6, <1>7, <1>8, <1>10, <1>11, <1>12, <1>13, <1>14, GoneTrading, GoneDeleteRows
     DEF Next, Request, Deleting, Capture

(* What a delete leaves is what was in flight when its statements ran:     *)
(* neither the candle that is being handled nor the review monitor is      *)
(* waited for (server.go handleDelete, runtime.go).                        *)
THEOREM OnlyInFlightSurvives == Spec => []DeleteLeavesOnlyInFlight
<1>1. GoneInv => DeleteLeavesOnlyInFlight
  BY DEF GoneInv, TradesInv, ReviewsInv, NameInv, InFlight, Deleted, DeleteLeavesOnlyInFlight, Idle
<1>2. QED BY <1>1, GoneInit, GoneStep, PTL DEF Spec
-----------------------------------------------------------------------------
(* Evenings                                                                *)

(* The day a procedure writes about has begun, and it is over when it was  *)
(* over at the beginning of the procedure.                                 *)
JobInv(job) ==
    job.at \in {"list", "save"} =>
        /\ job.date \in Nat /\ job.date <= today
        /\ job.evening \in BOOLEAN
        /\ job.date = today /\ job.evening => closed

(* A list taken after the last candle of the day has all of the day.       *)
FreshInv(job) ==
    job.at = "save" /\ job.date = today /\ job.evening =>
        DayTrades(ListByStrategy(job.version), today) \subseteq job.done

ClockInv ==
    /\ today \in Nat /\ closed \in BOOLEAN
    /\ closed => candle = NoTrade
    /\ polled # {} => closed

(* Nobody has polled since while a poll of the market's hours is at work.  *)
PollInv ==
    /\ capture = Idle \/ capture.at \in {"list", "save"}
    /\ capture # Idle /\ capture.date = today /\ ~capture.evening => polled = {}

EveningInv ==
    /\ ClockInv /\ PollInv
    /\ JobInv(http) /\ JobInv(capture) /\ FreshInv(http) /\ FreshInv(capture)
    /\ ExitReviewed

LEMMA EveningInit == Init => EveningInv
<1>1. Init => ClockInv /\ PollInv /\ ExitReviewed
  <2>1. Init => today = 1 /\ closed = FALSE /\ capture = Idle /\ polled = {}
    BY DEF Init
  <2>2. Init => ClockInv /\ PollInv
    <3>1. Init => ~closed /\ closed \in BOOLEAN
      BY <2>1
    <3>2. Init => today \in Nat
      BY <2>1
    <3>3. QED BY <2>1, <3>1, <3>2 DEF ClockInv, PollInv
  <2>3. Init => ExitReviewed
    BY <2>1 DEF ExitReviewed
  <2>4. QED BY <2>2, <2>3
<1>2. Init => JobInv(http) /\ JobInv(capture) /\ FreshInv(http) /\ FreshInv(capture)
  BY DEF Init, JobInv, FreshInv, Idle
<1>3. QED BY <1>1, <1>2 DEF EveningInv

(* On the same day, no row is new, no review is lost and nobody polls.     *)
LEMMA EveningFrame ==
    ASSUME EveningInv, UNCHANGED <<clock, reviews>>,
           trades' \subseteq trades, polled' \subseteq polled,
           closed => candle' = NoTrade,
           http' = http \/ http'.at \notin {"list", "save"},
           capture' = capture \/ capture' = Idle
    PROVE  EveningInv'
<1> USE DEF EveningInv, clock
<1>1. ClockInv' /\ PollInv'
  BY DEF ClockInv, PollInv
<1>2. JobInv(http)' /\ JobInv(capture)'
  BY DEF JobInv, Idle
<1>3. FreshInv(http)' /\ FreshInv(capture)'
  BY DEF FreshInv, DayTrades, ListByStrategy, Idle
<1>4. ExitReviewed'
  BY DEF ExitReviewed, DayTrades
<1>5. QED BY <1>1, <1>2, <1>3, <1>4

(* A new day begins with nothing of it.                                    *)
LEMMA EveningOver ==
    ASSUME EveningInv, today' = today + 1, closed' = FALSE, polled' = {},
           http' = http \/ http' = Idle,
           capture' = capture \/ capture' = Idle
    PROVE  EveningInv'
<1> USE DEF EveningInv
<1>1. ClockInv' /\ ExitReviewed'
  <2>1. today' \in Nat /\ ~closed' /\ closed' \in BOOLEAN
    <3>1. today' \in Nat
      BY DEF ClockInv
    <3>2. QED BY <3>1
  <2>2. ExitReviewed'
    BY DEF ExitReviewed
  <2>3. QED BY <2>1, <2>2 DEF ClockInv
<1>2. PollInv'
  BY DEF PollInv
<1>3. ASSUME NEW job, JobInv(job), job.at \in {"list", "save"}
      PROVE  job.date \in Nat /\ job.date < today' /\ job.evening \in BOOLEAN
  BY <1>3 DEF JobInv, ClockInv
<1>4. JobInv(http)' /\ FreshInv(http)'
  BY <1>3 DEF JobInv, FreshInv, ClockInv, Idle
<1>5. JobInv(capture)' /\ FreshInv(capture)'
  BY <1>3 DEF JobInv, FreshInv, ClockInv, Idle
<1>6. QED BY <1>1, <1>2, <1>4, <1>5

(* A review that is saved replaces that of its version and its date only.  *)
LEMMA SavedAmong ==
    ASSUME NEW job, HistoryInv, ExitReviewed, ListedInv(job), job.at = "save",
           NEW t \in DayTrades(trades, today), t.version \in polled,
           t.version # job.version \/ job.date # today
    PROVE  \E r \in SaveDailyReview(Review(job)) : t \in r.done
<1>1. PICK r \in reviews : t \in r.done
  BY DEF ExitReviewed
<1>2. t.version = r.version /\ t.exitDay = r.date /\ t.exitDay = today
  BY <1>1 DEF HistoryInv, ReviewsSound, DayTrades
<1>3. r.version # Review(job).version \/ r.date # Review(job).date
  BY <1>2 DEF Review
<1>4. QED BY <1>1, <1>3 DEF SaveDailyReview

LEMMA SavedFresh ==
    ASSUME NEW job, FreshInv(job), job.at = "save", job.date = today, job.evening,
           NEW t \in DayTrades(trades, today), t.version = job.version
    PROVE  \E r \in SaveDailyReview(Review(job)) : t \in r.done
<1>1. t \in job.done
  BY DEF FreshInv, DayTrades, ListByStrategy
<1>2. Review(job) \in SaveDailyReview(Review(job)) /\ t \in Review(job).done
  BY <1>1 DEF SaveDailyReview, Review
<1>3. QED BY <1>2

LEMMA EveningStep == HistoryInv /\ EveningInv /\ [Next]_vars => EveningInv'
<1> SUFFICES ASSUME HistoryInv, EveningInv, [Next]_vars PROVE EveningInv'
  OBVIOUS
<1> USE DEF clock, tables, memory, jobs, ghosts
<1>1. ASSUME Trading PROVE EveningInv'
  <2>1. CASE CandleWrites
    <3>1. candle # NoTrade /\ candle' = NoTrade /\ UNCHANGED <<clock, http, capture, polled>>
      BY <2>1 DEF CandleWrites
    <3>2. closed = FALSE /\ polled = {}
      BY <3>1 DEF EveningInv, ClockInv
    <3>3. ClockInv' /\ PollInv' /\ ExitReviewed'
      BY <3>1, <3>2 DEF EveningInv, ClockInv, PollInv, ExitReviewed
    <3>4. JobInv(http)' /\ JobInv(capture)' /\ FreshInv(http)' /\ FreshInv(capture)'
      BY <3>1, <3>2 DEF EveningInv, JobInv, FreshInv
    <3>5. QED BY <3>3, <3>4 DEF EveningInv
  <2>2. CASE CandleFails
    BY <2>2, EveningFrame DEF CandleFails
  <2>3. CASE Enter \/ Expire \/ (\E pnl \in PnLs : \E day \in {today - 1, today} \ {0} : Exit(pnl, day))
    <3>1. ~closed /\ UNCHANGED <<clock, reviews, trades, polled, http, capture>>
      BY <2>3 DEF Enter, Expire, Exit, Dispatched
    <3>2. QED BY <3>1, EveningFrame
  <2>4. QED BY <1>1, <2>1, <2>2, <2>3 DEF Trading
<1>2. ASSUME Start \/ SetLastRunAt \/ Stop \/ DeleteStops \/ DeleteForgets \/ DeleteFails \/ CaptureFails
             \/ PurgeStep \/ PurgeFails \/ (\E v \in Versions : CreateStrategy(v)) \/ UNCHANGED vars
      PROVE  EveningInv'
  <2>1. UNCHANGED <<clock, reviews, candle, polled>> /\ trades' \subseteq trades
    BY <1>2 DEF Start, SetLastRunAt, Stop, DeleteStops, DeleteForgets, DeleteFails, CaptureFails, PurgeStep,
                PurgeLooks, PurgeSnapshot, PurgeTrades, PurgeMarks, PurgeFails, CreateStrategy, vars
  <2>2. capture' = capture \/ capture' = Idle
    BY <1>2 DEF Start, SetLastRunAt, Stop, DeleteStops, DeleteForgets, DeleteFails, CaptureFails, PurgeStep,
                PurgeLooks, PurgeSnapshot, PurgeTrades, PurgeMarks, PurgeFails, CreateStrategy, vars
  <2>3. http' = http \/ http' = Idle \/ http'.at = "last" \/ http'.at = "delete"
    BY <1>2 DEF Start, SetLastRunAt, Stop, DeleteStops, DeleteForgets, DeleteFails, CaptureFails, PurgeStep,
                PurgeLooks, PurgeSnapshot, PurgeTrades, PurgeMarks, PurgeFails, CreateStrategy, vars
  <2>4. http' = http \/ http'.at \notin {"list", "save"}
    BY <2>3 DEF Idle
  <2>5. closed => candle' = NoTrade
    BY <2>1 DEF EveningInv, ClockInv
  <2>6. QED BY <2>1, <2>2, <2>4, <2>5, EveningFrame
<1>3. ASSUME DeleteRows PROVE EveningInv'
  <2>1. /\ http.at = "delete" /\ http'.at = "delete" /\ trades' \subseteq trades
        /\ UNCHANGED <<clock, candle, capture>>
        /\ (polled' = {}) \/ (polled' = polled /\ reviews' = reviews)
    BY <1>3 DEF DeleteRows, Without
  <2>2. ClockInv' /\ PollInv'
    BY <2>1 DEF EveningInv, ClockInv, PollInv
  <2>3. ExitReviewed'
    BY <2>1 DEF EveningInv, ExitReviewed, DayTrades
  <2>4. JobInv(http)' /\ JobInv(capture)'
    BY <2>1 DEF EveningInv, JobInv
  <2>5. FreshInv(http)' /\ FreshInv(capture)'
    BY <2>1 DEF EveningInv, FreshInv, DayTrades, ListByStrategy
  <2>6. QED BY <2>2, <2>3, <2>4, <2>5 DEF EveningInv
<1>4. ASSUME NEW date \in 1 .. today, ReviewLists(date) PROVE EveningInv'
  <2>1. /\ http'.at = "save" /\ http'.version = LatestVersion /\ http'.date = date /\ http'.evening = closed
        /\ http'.done = DayTrades(ListByStrategy(LatestVersion), date)
        /\ UNCHANGED <<clock, trades, reviews, candle, capture, polled>>
    BY <1>4 DEF ReviewLists, Listed
  <2>2. ClockInv' /\ PollInv' /\ ExitReviewed'
    BY <2>1 DEF EveningInv, ClockInv, PollInv, ExitReviewed
  <2>3. JobInv(capture)' /\ FreshInv(capture)'
    BY <2>1 DEF EveningInv, JobInv, FreshInv, DayTrades, ListByStrategy
  <2>4. JobInv(http)' /\ FreshInv(http)'
    BY <2>1 DEF EveningInv, ClockInv, JobInv, FreshInv, DayTrades, ListByStrategy
  <2>5. QED BY <2>2, <2>3, <2>4 DEF EveningInv
<1>5. ASSUME ReviewSaves PROVE EveningInv'
  <2>1. /\ http.at = "save" /\ http' = Idle /\ reviews' = SaveDailyReview(Review(http))
        /\ polled' = IF http.date = today /\ ~http.evening THEN polled \ {http.version} ELSE polled
        /\ UNCHANGED <<clock, trades, candle, capture>>
    BY <1>5 DEF ReviewSaves
  <2>2. ClockInv' /\ PollInv'
    BY <2>1 DEF EveningInv, ClockInv, PollInv
  <2>3. JobInv(http)' /\ JobInv(capture)' /\ FreshInv(http)' /\ FreshInv(capture)'
    BY <2>1 DEF EveningInv, JobInv, FreshInv, Idle, DayTrades, ListByStrategy
  <2>4. ASSUME NEW t \in DayTrades(trades, today), t.version \in polled'
        PROVE  \E r \in reviews' : t \in r.done
    <3>1. t.version \in polled
      BY <2>1, <2>4
    <3>2. CASE t.version = http.version /\ http.date = today
      <4>1. http.evening
        BY <2>1, <2>4, <3>2
      <4>2. QED BY <2>1, <3>2, <4>1, SavedFresh DEF EveningInv
    <3>3. CASE ~(t.version = http.version /\ http.date = today)
      BY <2>1, <3>1, <3>3, SavedAmong DEF HistoryInv, EveningInv
    <3>4. QED BY <3>2, <3>3
  <2>5. ExitReviewed'
    BY <2>1, <2>4 DEF ExitReviewed, DayTrades
  <2>6. QED BY <2>2, <2>3, <2>5 DEF EveningInv
<1>6. ASSUME CaptureLooks PROVE EveningInv'
  <2>1. /\ capture'.at = "list" /\ capture'.date = today /\ capture'.evening = closed
        /\ UNCHANGED <<clock, trades, reviews, candle, http, polled>>
    BY <1>6 DEF CaptureLooks
  <2>2. ClockInv' /\ PollInv' /\ ExitReviewed'
    BY <2>1 DEF EveningInv, ClockInv, PollInv, ExitReviewed
  <2>3. JobInv(http)' /\ JobInv(capture)' /\ FreshInv(http)' /\ FreshInv(capture)'
    BY <2>1 DEF EveningInv, ClockInv, JobInv, FreshInv, DayTrades, ListByStrategy
  <2>4. QED BY <2>2, <2>3 DEF EveningInv
<1> DEFINE Now == capture.date = today /\ capture.evening
<1>7. /\ PolledNow = IF Now THEN polled \cup {capture.version} ELSE polled
      /\ capture.at \in {"list", "save"} /\ Now => closed
      /\ capture.at \in {"list", "save"} /\ ~Now /\ capture.date = today => polled = {}
  <2>1. PolledNow = IF Now THEN polled \cup {capture.version} ELSE polled
    BY DEF PolledNow
  <2>2. QED BY <2>1 DEF EveningInv, JobInv, PollInv, Idle
<1>8. ASSUME CaptureLists PROVE EveningInv'
  <2> DEFINE found == Listed(capture, ListByStrategy(capture.version))
  <2>1. /\ capture.at = "list"
        /\ UNCHANGED <<clock, trades, reviews, candle, http>>
        /\ \/ capture' = Idle /\ polled' = PolledNow /\ found.done = {}
           \/ capture' = found /\ polled' = polled
    BY <1>8 DEF CaptureLists
  <2>2. /\ found.at = "save" /\ found.version = capture.version /\ found.date = capture.date
        /\ found.evening = capture.evening
        /\ found.done = DayTrades(ListByStrategy(capture.version), capture.date)
    BY DEF Listed
  <2> HIDE DEF found
  <2>3. JobInv(http)' /\ FreshInv(http)'
    BY <2>1 DEF EveningInv, JobInv, FreshInv, DayTrades, ListByStrategy
  <2>4. CASE capture' = Idle /\ polled' = PolledNow /\ found.done = {}
    <3>1. ClockInv' /\ PollInv'
      BY <1>7, <2>1, <2>4 DEF EveningInv, ClockInv, PollInv
    <3>2. JobInv(capture)' /\ FreshInv(capture)'
      BY <2>4 DEF JobInv, FreshInv, Idle
    <3>3. ASSUME NEW t \in DayTrades(trades, today), t.version \in polled'
          PROVE  t.version \in polled
      <4>1. Now => t.version # capture.version
        BY <2>2, <2>4 DEF DayTrades, ListByStrategy
      <4>2. QED BY <1>7, <2>4, <3>3, <4>1
    <3>4. ExitReviewed'
      BY <2>1, <3>3 DEF EveningInv, ExitReviewed, DayTrades
    <3>5. QED BY <2>3, <3>1, <3>2, <3>4 DEF EveningInv
  <2>5. CASE capture' = found /\ polled' = polled
    <3>1. ClockInv' /\ PollInv' /\ ExitReviewed'
      BY <1>7, <2>1, <2>2, <2>5 DEF EveningInv, ClockInv, PollInv, ExitReviewed
    <3>2. JobInv(capture)' /\ FreshInv(capture)'
      BY <2>1, <2>2, <2>5 DEF EveningInv, JobInv, FreshInv, DayTrades, ListByStrategy
    <3>3. QED BY <2>3, <3>1, <3>2 DEF EveningInv
  <2>6. QED BY <2>1, <2>4, <2>5
<1>9. ASSUME CaptureSaves PROVE EveningInv'
  <2>1. /\ capture.at = "save" /\ capture' = Idle /\ polled' = PolledNow
        /\ reviews' = SaveDailyReview(Review(capture))
        /\ UNCHANGED <<clock, trades, candle, http>>
    BY <1>9 DEF CaptureSaves
  <2>2. ClockInv' /\ PollInv'
    BY <1>7, <2>1 DEF EveningInv, ClockInv, PollInv
  <2>3. JobInv(http)' /\ JobInv(capture)' /\ FreshInv(http)' /\ FreshInv(capture)'
    BY <2>1 DEF EveningInv, JobInv, FreshInv, Idle, DayTrades, ListByStrategy
  <2>4. ASSUME NEW t \in DayTrades(trades, today), t.version \in polled'
        PROVE  \E r \in reviews' : t \in r.done
    <3>1. CASE Now /\ t.version = capture.version
      BY <2>1, <3>1, SavedFresh DEF EveningInv
    <3>2. CASE ~(Now /\ t.version = capture.version)
      <4>1. t.version \in polled
        BY <1>7, <2>1, <2>4, <3>2
      <4>2. t.version # capture.version \/ capture.date # today
        BY <1>7, <2>1, <3>2, <4>1
      <4>3. QED BY <2>1, <4>1, <4>2, SavedAmong DEF HistoryInv, EveningInv
    <3>3. QED BY <3>1, <3>2
  <2>5. ExitReviewed'
    BY <2>1, <2>4 DEF ExitReviewed, DayTrades
  <2>6. QED BY <2>2, <2>3, <2>5 DEF EveningInv
<1>10. ASSUME Restart PROVE EveningInv'
  <2>1. CASE UNCHANGED <<clock, polled>>
    BY <1>10, <2>1, EveningFrame DEF Restart, Idle
  <2>2. CASE today' = today + 1 /\ closed' = FALSE /\ polled' = {}
    BY <1>10, <2>2, EveningOver DEF Restart
  <2>3. QED BY <1>10, <2>1, <2>2 DEF Restart
<1>11. ASSUME MarketCloses PROVE EveningInv'
  <2>1. /\ ~closed /\ closed' = TRUE /\ candle = NoTrade
        /\ UNCHANGED <<today, trades, reviews, candle, http, capture, polled>>
    BY <1>11 DEF MarketCloses
  <2>2. ClockInv' /\ PollInv' /\ ExitReviewed'
    BY <2>1 DEF EveningInv, ClockInv, PollInv, ExitReviewed
  <2>3. JobInv(http)' /\ JobInv(capture)' /\ FreshInv(http)' /\ FreshInv(capture)'
    BY <2>1 DEF EveningInv, JobInv, FreshInv, DayTrades, ListByStrategy
  <2>4. QED BY <2>2, <2>3 DEF EveningInv
<1>12. ASSUME NextDay PROVE EveningInv'
  BY <1>12, EveningOver DEF NextDay
<1>13. QED BY <1>1, <1>2, <1>3, <1>4, <1>5, <1>6, <1>8, <1>9, <1>10, <1>11, <1>12
           DEF Next, Request, Deleting, Reviewing, Capture

(* Once a poll that began after the market has gone through, no exit of    *)
(* the day that is in the table is missing from its reviews (main.go, the  *)
(* hourly poll; dailyreview/monitor.go captureOne).                        *)
THEOREM EveningIsReviewed == Spec => []ExitReviewed
<1>1. EveningInv => ExitReviewed
  BY DEF EveningInv
<1>2. HistoryInv /\ EveningInv /\ [Next]_vars => HistoryInv' /\ EveningInv'
  BY HistoryStep, EveningStep
<1>3. QED BY <1>1, <1>2, HistoryInit, EveningInit, PTL DEF Spec
-----------------------------------------------------------------------------
(* Cards                                                                   *)

Finished == {t \in trades : Completed(t)}

(* An id is given once, and what the runtime has open or a handler is      *)
(* about to write is not completed in the table.                           *)
IdsInv ==
    /\ versions \subseteq Versions
    /\ opened \in Nat /\ held \in 0 .. opened
    /\ \A t \in trades \cup exits : t.id \in 1 .. opened
    /\ \A t, u \in trades : t.id = u.id => t = u
    /\ \A t \in exits : Completed(t)
    /\ held # 0 => \A t \in Finished : t.id # held
    /\ live = 0 => held = 0

CandleInv ==
    candle # NoTrade =>
        /\ candle.id \in 1 .. opened
        /\ \A t \in Finished : t.id # candle.id
        /\ candle.id = held => ~Completed(candle)

(* A runtime has a ledger; without one the trade of a handler that is      *)
(* still at work is not restored, for its row is gone.                     *)
LedgerInv ==
    /\ live # 0 => ledger
    /\ candle # NoTrade /\ (~ledger \/ TradesGone) => \A t \in trades : t.id # candle.id

Snapshot == Performance({t \in exits : t.version = LatestVersion})

(* A purge that has deleted the rows, of a strategy that is there.         *)
RowsPurged == strategy.exists /\ (strategy.purged \/ purge.at = "mark")

PurgeInv ==
    /\ purge.at = "idle" => purge = Idle
    /\ purge # Idle => ~strategy.purged

(* The rows are what was completed, or a snapshot of them was taken.       *)
Truthful ==
    /\ purge # Idle \/ strategy.purged => live = 0
    /\ ~RowsPurged => Finished = exits
    /\ TradesGone \/ ~strategy.exists => exits = {} /\ Finished = {}
    /\ /\ strategy.exists /\ versions # {} /\ http.at # "delete"
       /\ strategy.purged \/ purge.at \in {"trades", "mark"}
       => strategy.final = Snapshot

CardInv ==
    /\ IdsInv /\ CandleInv /\ LedgerInv /\ PurgeInv
    /\ disturbed \in BOOLEAN
    /\ ~disturbed => Truthful
-----------------------------------------------------------------------------
LEMMA GreatestIn ==
    ASSUME NEW b \in Nat, NEW S \in SUBSET (0 .. b), S # {}
    PROVE  Max(S) \in S
<1> DEFINE N == {b - n : n \in S}
<1>0. \A n \in S : n \in Nat /\ n <= b
  OBVIOUS
<1>1. N \in SUBSET Nat /\ N # {}
  <2>1. \A n \in S : b - n \in Nat
    BY <1>0
  <2> QED
    BY <2>1
<1>2. PICK k \in N : \A m \in N : k <= m
  <2> HIDE DEF N
  <2> QED
    BY <1>1, LeastNatural
<1>3. PICK n \in S : k = b - n
  BY <1>2
<1>4. ASSUME NEW m \in S PROVE n >= m
  <2>1. k <= b - m
    BY <1>2
  <2> QED
    BY <1>0, <1>3, <2>1
<1>5. \E x \in S : \A y \in S : x >= y
  BY <1>4
<1> QED
  BY <1>5, Zenon DEF Max

LEMMA MaxInFinite ==
    ASSUME NEW S \in SUBSET Nat, IsFiniteSet(S), S # {}
    PROVE  Max(S) \in S
<1> DEFINE F == {T \in SUBSET S : T # {} => \E x \in T : \A y \in T : x >= y}
<1>1. ASSUME NEW T \in SUBSET S, \A U \in SUBSET T : U # T => U \in F
      PROVE  T \in F
  <2> SUFFICES ASSUME T # {} PROVE \E x \in T : \A y \in T : x >= y
    OBVIOUS
  <2>1. PICK e \in T : TRUE
    OBVIOUS
  <2>2. T \ {e} \in F
    BY <1>1
  <2>3. e \in Nat /\ \A y \in T : y \in Nat
    OBVIOUS
  <2>4. CASE T \ {e} = {}
    BY <2>3, <2>4
  <2>5. CASE T \ {e} # {}
    <3>1. PICK x \in T \ {e} : \A y \in T \ {e} : x >= y
      BY <2>2, <2>5
    <3>2. CASE x >= e
      BY <3>1, <3>2
    <3>3. CASE ~(x >= e)
      BY <2>3, <3>1, <3>3
    <3> QED
      BY <3>2, <3>3
  <2> QED
    BY <2>4, <2>5
<1>2. F = SUBSET S
  <2> HIDE DEF F
  <2>1. F \in SUBSET SUBSET S
    BY DEF F
  <2> QED
    BY <1>1, <2>1, SubsetInduction
<1>3. \E x \in S : \A y \in S : x >= y
  BY <1>2
<1> QED
  BY <1>3, Zenon DEF Max

LEMMA CardInit ==
    Init => CardInv
<1> SUFFICES ASSUME Init PROVE CardInv
  OBVIOUS
<1>1. IdsInv /\ CandleInv
  BY DEF Init, IdsInv, CandleInv, Finished
<1>2. PurgeInv
  BY DEF Init, PurgeInv, Idle, NoRow
<1>3. LedgerInv
  BY DEF Init, LedgerInv
<1>4. Truthful
  BY DEF Init, Truthful, Idle, NoRow, RowsPurged, Finished
<1>5. disturbed \in BOOLEAN
  BY DEF Init
<1> QED
  BY <1>1, <1>2, <1>3, <1>4, <1>5 DEF CardInv

LEMMA SnapshotOfFinished ==
    ASSUME Finished = exits, IdsInv
    PROVE  Performance(ListByStrategy(LatestVersion)) = Snapshot
<1> DEFINE v == LatestVersion
<1> HIDE DEF v
<1>1. {t \in ListByStrategy(v) : Completed(t)} = {t \in {u \in exits : u.version = v} : Completed(t)}
  BY DEF ListByStrategy, Finished, IdsInv
<1>2. Performance(ListByStrategy(v)) = Performance({u \in exits : u.version = v})
  BY <1>1 DEF Performance
<1> QED
  BY <1>2 DEF Snapshot, v

LEMMA SameSnapshot ==
    ASSUME exits' = exits, versions' = versions
    PROVE  Snapshot' = Snapshot
  BY DEF Snapshot, LatestVersion

(* Steps that leave the rows, the exits and the purge alone.               *)
LEMMA CardFrame ==
    ASSUME CardInv, UNCHANGED <<strategy, versions, trades, purge, opened, exits, disturbed>>,
           (live' = live /\ held' = held /\ ledger' = ledger) \/ (live' = 0 /\ held' = 0),
           candle' = candle \/ candle' = NoTrade,
           candle' = NoTrade \/ ledger' = ledger \/ TradesGone,
           http' = http \/ http'.at # "delete" \/ http'.table = "trades",
           http.at = "delete" => http' = http \/ ~strategy.exists \/ disturbed
    PROVE  CardInv'
<1>1. IdsInv' /\ CandleInv'
  BY DEF CardInv, IdsInv, CandleInv, Finished
<1>2. PurgeInv'
  BY DEF CardInv, PurgeInv, Idle
<1>3. Finished' = Finished /\ Snapshot' = Snapshot
  <2>1. Finished' = Finished
    BY DEF Finished
  <2> QED
    BY <2>1, SameSnapshot
<1>4. LedgerInv'
  BY DEF CardInv, LedgerInv, TradesGone, Deleted
<1>5. ~disturbed' => Truthful'
  BY <1>3 DEF CardInv, Truthful, RowsPurged, TradesGone, Deleted
<1> QED
  BY <1>1, <1>2, <1>4, <1>5 DEF CardInv

(* A candle changes what the runtime has in hand, and no table.            *)
LEMMA DecideKeeps ==
    ASSUME CardInv, GoneInv,
           Enter \/ Expire \/ (\E pnl \in PnLs : \E day \in {today - 1, today} \ {0} : Exit(pnl, day))
    PROVE  CardInv'
<1> USE DEF tables, jobs
<1>1. /\ live # 0 /\ candle = NoTrade
      /\ UNCHANGED <<strategy, versions, trades, live, ledger, http, purge, exits, disturbed>>
  BY DEF Enter, Expire, Exit, Dispatched, memory, ghosts
<1>2. \/ /\ held = 0 /\ opened' = opened + 1 /\ held' = opened + 1
         /\ candle'.id = opened + 1 /\ ~Completed(candle')
      \/ /\ held # 0 /\ opened' = opened /\ candle'.id = held
         /\ held' = 0 \/ (held' = held /\ ~Completed(candle'))
  BY DEF Enter, Expire, Exit, Completed, memory, ghosts
<1>3. IdsInv /\ opened \in Nat /\ held \in Nat /\ \A t \in trades \cup exits : t.id \in Nat /\ t.id <= opened
  BY DEF CardInv, IdsInv
<1>4. Finished' = Finished
  BY <1>1 DEF Finished
<1>5. IdsInv'
  BY <1>1, <1>2, <1>3, <1>4 DEF IdsInv, Finished
<1>6. CandleInv'
  BY <1>1, <1>2, <1>3, <1>4 DEF IdsInv, CandleInv, Finished, Completed
<1>7. LedgerInv' /\ PurgeInv'
  BY <1>1 DEF CardInv, LedgerInv, PurgeInv, GoneInv, RequestInv, TradesGone, Deleted, Idle
<1>8. ~disturbed' => Truthful'
  BY <1>1, <1>4, SameSnapshot DEF CardInv, Truthful, RowsPurged, TradesGone, Deleted
<1> QED
  BY <1>1, <1>5, <1>6, <1>7, <1>8 DEF CardInv

LEMMA WriteKeeps ==
    ASSUME CardInv, GoneInv, CandleWrites
    PROVE  CardInv'
<1>1. /\ candle # NoTrade /\ candle' = NoTrade
      /\ trades' = {u \in trades : u.id # candle.id} \cup {candle}
      /\ exits' = exits \cup {t \in {candle} : Completed(t)}
      /\ disturbed' = (disturbed \/ Disturbs \/ candle.id \in late)
      /\ UNCHANGED <<strategy, versions, live, held, ledger, http, purge, opened>>
  BY DEF CandleWrites, Upsert, memory, jobs
<1>2. IdsInv /\ CandleInv /\ disturbed \in BOOLEAN
  BY DEF CardInv
<1>3. candle.id \in 1 .. opened /\ \A t \in Finished : t.id # candle.id
  BY <1>1, <1>2 DEF CandleInv
<1>4. Finished' = Finished \cup {t \in {candle} : Completed(t)}
  BY <1>1, <1>3 DEF Finished
<1>5. IdsInv'
  <2>1. \A t \in trades' : t = candle \/ (t \in trades /\ t.id # candle.id)
    BY <1>1
  <2>2. held # 0 => \A t \in Finished' : t.id # held
    BY <1>1, <1>2, <1>4 DEF IdsInv, CandleInv
  <2>3. \A t \in exits' : t \in exits \/ (t = candle /\ Completed(t))
    BY <1>1
  <2> QED
    BY <1>1, <1>2, <1>3, <2>1, <2>2, <2>3 DEF IdsInv
<1>6. CandleInv' /\ LedgerInv' /\ PurgeInv'
  BY <1>1 DEF CardInv, CandleInv, LedgerInv, PurgeInv, Idle
<1>7. ASSUME ~disturbed' PROVE Truthful'
  <2>1. ~disturbed /\ ~Disturbs /\ candle.id \notin late
    BY <1>1, <1>7
  <2>2. ~TradesGone /\ strategy.exists
    BY <1>1, <2>1 DEF GoneInv, RowInv, TradesInv
  <2>3. ~TradesGone' /\ strategy'.exists /\ purge' = Idle /\ ~strategy'.purged /\ purge = Idle /\ ~strategy.purged
    BY <1>1, <2>1, <2>2 DEF TradesGone, Deleted, Disturbs
  <2>4. Finished = exits
    BY <2>1, <2>3 DEF CardInv, Truthful, RowsPurged, Idle
  <2> QED
    BY <1>1, <1>4, <2>3, <2>4 DEF Truthful, RowsPurged, Idle
<1>8. disturbed' \in BOOLEAN
  BY <1>1
<1> QED
  BY <1>5, <1>6, <1>7, <1>8 DEF CardInv

LEMMA StartKeeps ==
    ASSUME CardInv, GoneInv, Start
    PROVE  CardInv'
<1>1. /\ http = Idle /\ versions # {} /\ ledger' = TRUE
      /\ UNCHANGED <<strategy, versions, trades, candle, purge, opened, exits>>
  BY DEF Start, tables
<1>2. IdsInv /\ CandleInv /\ LedgerInv
  BY DEF CardInv
<1>3. http'.at # "delete" /\ LedgerInv'
  <2>1. http'.at # "delete"
    BY <1>1 DEF Start, Idle
  <2> QED
    BY <1>1, <2>1 DEF LedgerInv, TradesGone, Deleted
<1>4. Finished' = Finished
  BY <1>1 DEF Finished
<1>5. CASE UNCHANGED <<live, held, http, disturbed>>
  <2>1. IdsInv' /\ CandleInv' /\ PurgeInv'
    BY <1>1, <1>4, <1>5 DEF CardInv, IdsInv, CandleInv, PurgeInv
  <2>2. ~disturbed' => Truthful'
    BY <1>1, <1>4, <1>5, SameSnapshot DEF CardInv, Truthful, RowsPurged, TradesGone, Deleted
  <2> QED
    BY <1>3, <1>5, <2>1, <2>2 DEF CardInv
<1>6. CASE ~UNCHANGED <<live, held, http, disturbed>>
  <2>1. /\ live = 0 /\ live' = LatestVersion
        /\ held' = IF ~ledger /\ OpenOf(LatestVersion) # {} THEN Max(OpenOf(LatestVersion)) ELSE 0
        /\ disturbed' = (disturbed \/ Disturbs)
    BY <1>6 DEF Start
  <2>2. held' # 0 => ~ledger /\ \E t \in trades : t.id = held' /\ ~Completed(t)
    <3> SUFFICES ASSUME held' # 0 PROVE ~ledger /\ held' \in OpenOf(LatestVersion)
      BY DEF OpenOf, ListByStrategy
    <3>1. OpenOf(LatestVersion) \in SUBSET (0 .. opened) /\ opened \in Nat
      BY <1>2 DEF OpenOf, ListByStrategy, IdsInv
    <3> QED
      BY <2>1, <3>1, GreatestIn
  <2>3. \A t \in Finished : t.id # held'
    <3> SUFFICES ASSUME NEW t \in Finished, t.id = held' PROVE FALSE
      OBVIOUS
    <3>1. t \in trades /\ Completed(t) /\ held' # 0
      BY <1>2 DEF Finished, IdsInv
    <3> QED
      BY <1>2, <2>2, <3>1 DEF IdsInv
  <2>4. held' \in 0 .. opened
    BY <1>2, <2>2 DEF IdsInv
  <2>5. live' = 0 => held' = 0
    <3>1. versions \in SUBSET (Nat \ {0}) /\ IsFiniteSet(versions)
      BY <1>2, HousekeepingAssumption, FS_Subset DEF IdsInv
    <3>2. LatestVersion \in versions
      BY <1>1, <3>1, MaxInFinite DEF LatestVersion
    <3> QED
      BY <2>1, <3>1, <3>2
  <2>6. IdsInv'
    BY <1>1, <1>2, <1>4, <2>3, <2>4, <2>5 DEF IdsInv
  <2>7. CandleInv'
    <3> SUFFICES ASSUME candle # NoTrade PROVE candle.id # held' /\ candle.id \in 1 .. opened
                                               /\ \A t \in Finished : t.id # candle.id
      BY <1>1, <1>4 DEF CandleInv
    <3>1. candle.id \in 1 .. opened /\ \A t \in Finished : t.id # candle.id
      BY <1>2 DEF CandleInv
    <3>2. candle.id # held'
      BY <1>2, <2>2, <3>1 DEF LedgerInv, IdsInv
    <3> QED
      BY <3>1, <3>2
  <2>8. PurgeInv' /\ disturbed' \in BOOLEAN
    BY <1>1, <2>1 DEF CardInv, PurgeInv, Idle
  <2>9. ASSUME ~disturbed' PROVE Truthful'
    <3>1. ~disturbed /\ ~Disturbs
      BY <2>1, <2>9
    <3> QED
      BY <1>1, <1>3, <1>4, <2>1, <3>1, SameSnapshot DEF CardInv, Truthful, RowsPurged, TradesGone, Deleted, Disturbs, Idle
  <2> QED
    BY <1>3, <2>6, <2>7, <2>8, <2>9 DEF CardInv
<1> QED
  BY <1>5, <1>6

LEMMA CreateKeeps ==
    ASSUME CardInv, GoneInv, NEW v \in Versions, CreateStrategy(v)
    PROVE  CardInv'
<1>1. /\ http = Idle /\ http' = http
      /\ strategy' = IF strategy.exists THEN strategy ELSE NewRow
      /\ UNCHANGED <<trades, live, held, ledger, candle, purge, opened, exits>>
      /\ disturbed' = (disturbed \/ Disturbs)
  BY DEF CreateStrategy, memory, jobs
<1>2. NewRow.exists = TRUE /\ NewRow.purged = FALSE
  BY DEF NewRow, NoRow
<1>3. Finished' = Finished
  BY <1>1 DEF Finished
<1>4. IdsInv' /\ CandleInv' /\ LedgerInv'
  <2>1. versions' \subseteq versions \cup {v}
    BY DEF CreateStrategy
  <2>2. IdsInv'
    BY <1>1, <1>3, <2>1 DEF CardInv, IdsInv
  <2>3. CandleInv' /\ LedgerInv'
    BY <1>1, <1>3 DEF CardInv, CandleInv, LedgerInv, TradesGone, Deleted
  <2> QED
    BY <2>2, <2>3
<1>5. PurgeInv' /\ disturbed' \in BOOLEAN
  BY <1>1, <1>2 DEF CardInv, PurgeInv, Idle
<1>6. ASSUME ~disturbed' PROVE Truthful'
  <2>1. ~disturbed /\ purge = Idle /\ ~strategy.purged
    BY <1>1, <1>6 DEF Disturbs
  <2>2. purge' = Idle /\ ~strategy'.purged /\ strategy'.exists
    BY <1>1, <1>2, <2>1
  <2> QED
    BY <1>1, <1>3, <2>1, <2>2 DEF CardInv, Truthful, RowsPurged, TradesGone, Deleted, Idle
<1> QED
  BY <1>4, <1>5, <1>6 DEF CardInv

LEMMA LastRunKeeps ==
    ASSUME CardInv, GoneInv, SetLastRunAt
    PROVE  CardInv'
<1>1. /\ http.at = "last" /\ http' = Idle
      /\ strategy' = Updated([strategy EXCEPT !.lastRun = http.now])
      /\ UNCHANGED <<versions, trades, live, held, ledger, candle, purge, opened, exits, disturbed>>
  BY DEF SetLastRunAt, memory, ghosts
<1>2. strategy'.exists = strategy.exists /\ strategy'.purged = strategy.purged /\ strategy'.final = strategy.final
  BY <1>1 DEF GoneInv, RowInv, Updated
<1>3. Finished' = Finished
  BY <1>1 DEF Finished
<1>4. IdsInv' /\ PurgeInv'
  BY <1>1, <1>2, <1>3 DEF CardInv, IdsInv, PurgeInv, Idle
<1>5. CandleInv' /\ LedgerInv'
  BY <1>1, <1>3 DEF CardInv, CandleInv, LedgerInv, TradesGone, Deleted, Idle
<1>6. ~disturbed' => Truthful'
  BY <1>1, <1>2, <1>3, SameSnapshot DEF CardInv, Truthful, RowsPurged, TradesGone, Deleted, Idle
<1> QED
  BY <1>1, <1>4, <1>5, <1>6 DEF CardInv

(* The statements of a delete: the row goes last, and by then no exit is   *)
(* remembered.                                                             *)
LEMMA DeleteRowsKeeps ==
    ASSUME CardInv, GoneInv, DeleteRows
    PROVE  CardInv'
<1>1. /\ http.at = "delete" /\ http.table \in {"trades", "reviews", "versions", "strategies"}
      /\ live = 0 /\ held = 0
      /\ trades' = (IF http.table = "trades" THEN {} ELSE trades)
      /\ versions' = (IF http.table = "versions" THEN {} ELSE versions)
      /\ strategy' = (IF http.table = "strategies" THEN NoRow ELSE strategy)
      /\ exits' = (IF http.table = "trades" THEN {} ELSE exits)
      /\ http' = [http EXCEPT !.table = AfterTable(@)]
      /\ UNCHANGED <<live, held, ledger, candle, purge, opened, disturbed>>
  BY DEF DeleteRows, Without, GoneInv, RequestInv, CardInv, IdsInv, memory
<1>2. http'.at = "delete"
  BY <1>1
<1>3. IdsInv /\ CandleInv /\ LedgerInv
  BY DEF CardInv
<1>4. CASE http.table = "trades"
  <2>1. Finished' = {} /\ exits' = {} /\ trades' = {}
    BY <1>1, <1>4 DEF Finished
  <2>2. IdsInv' /\ CandleInv' /\ LedgerInv'
    BY <1>1, <1>3, <1>4, <2>1 DEF IdsInv, CandleInv, LedgerInv
  <2>3. PurgeInv' /\ (~disturbed' => Truthful')
    BY <1>1, <1>2, <1>4, <2>1 DEF CardInv, PurgeInv, Truthful, RowsPurged
  <2> QED
    BY <1>1, <2>2, <2>3 DEF CardInv
<1>5. CASE http.table # "trades"
  <2>1. Finished' = Finished /\ TradesGone
    BY <1>1, <1>5 DEF Finished, TradesGone, Deleted
  <2>2. IdsInv' /\ CandleInv'
    BY <1>1, <1>3, <1>5, <2>1 DEF IdsInv, CandleInv
  <2>3. LedgerInv' /\ PurgeInv'
    BY <1>1, <1>3, <1>5, <2>1 DEF CardInv, LedgerInv, PurgeInv, NoRow, Idle
  <2>4. ASSUME ~disturbed' PROVE Truthful'
    <3>1. Finished = {} /\ exits = {} /\ (purge # Idle \/ strategy.purged => live = 0)
      BY <1>1, <2>1, <2>4 DEF CardInv, Truthful
    <3> QED
      BY <1>1, <1>2, <1>5, <2>1, <3>1 DEF Truthful, RowsPurged
  <2> QED
    BY <1>1, <2>2, <2>3, <2>4 DEF CardInv
<1> QED
  BY <1>4, <1>5

LEMMA PurgeKeeps ==
    ASSUME CardInv, GoneInv, PurgeStep \/ PurgeFails
    PROVE  CardInv'
<1> USE DEF tables, memory, jobs, ghosts
<1>i. /\ IdsInv /\ PurgeInv /\ (~disturbed => Truthful) /\ strategy.exists \in BOOLEAN
      /\ strategy = [exists |-> strategy.exists, lastRun |-> strategy.lastRun,
                     purged |-> strategy.purged, final |-> strategy.final]
  BY DEF CardInv, GoneInv, RowInv
<1>ii. CandleInv' /\ LedgerInv' /\ disturbed' \in BOOLEAN
  <2>1. /\ trades' \subseteq trades /\ UNCHANGED <<live, held, ledger, candle, http, opened>>
        /\ disturbed' = disturbed \/ disturbed' = TRUE
    BY DEF PurgeStep, PurgeLooks, PurgeSnapshot, PurgeTrades, PurgeMarks, PurgeFails
  <2>2. CandleInv' /\ LedgerInv'
    BY <2>1 DEF CardInv, CandleInv, LedgerInv, TradesGone, Deleted, Finished
  <2>3. disturbed' \in BOOLEAN
    BY <2>1 DEF CardInv
  <2> QED
    BY <2>2, <2>3
<1>1. CASE PurgeLooks
  <2>1. /\ purge = Idle /\ live = 0 /\ ~strategy.purged /\ purge' = [at |-> "snapshot"]
        /\ UNCHANGED <<strategy, versions, trades, live, held, http, opened, exits, disturbed>>
    BY <1>1 DEF PurgeLooks
  <2>2. purge'.at = "snapshot"
    BY <2>1
  <2>3. Finished' = Finished
    BY <2>1 DEF Finished
  <2>4. IdsInv' /\ PurgeInv'
    BY <1>i, <2>1, <2>2, <2>3 DEF IdsInv, PurgeInv
  <2>5. ~disturbed' => Truthful'
    BY <1>i, <2>1, <2>2, <2>3, SameSnapshot DEF Truthful, RowsPurged, TradesGone, Deleted, Idle
  <2> QED
    BY <1>ii, <2>4, <2>5 DEF CardInv
<1>2. CASE PurgeSnapshot
  <2>1. /\ purge.at = "snapshot" /\ purge' = [at |-> "trades"] /\ purge # Idle
        /\ UNCHANGED <<versions, trades, live, held, http, opened, exits, disturbed>>
    BY <1>2 DEF PurgeSnapshot, Idle
  <2>2. purge'.at = "trades"
    BY <2>1
  <2>3. Finished' = Finished /\ Snapshot' = Snapshot
    <3>1. Finished' = Finished
      BY <2>1 DEF Finished
    <3> QED
      BY <2>1, <3>1, SameSnapshot
  <2>4. /\ strategy'.exists = strategy.exists /\ strategy'.purged = strategy.purged
        /\ strategy.exists /\ versions # {} => strategy'.final = Performance(ListByStrategy(LatestVersion))
    BY <1>2, <1>i DEF PurgeSnapshot, Updated
  <2>5. IdsInv' /\ PurgeInv'
    BY <1>i, <2>1, <2>3, <2>4 DEF IdsInv, PurgeInv, Idle
  <2>6. ASSUME ~disturbed' PROVE Truthful'
    <3>1. Truthful /\ ~strategy.purged
      BY <1>i, <2>1, <2>6 DEF PurgeInv
    <3>2. Finished = exits
      BY <2>1, <3>1 DEF Truthful, RowsPurged, TradesGone, Deleted
    <3>3. strategy.exists /\ versions # {} => strategy'.final = Snapshot
      BY <1>i, <2>4, <3>2, SnapshotOfFinished
    <3> QED
      BY <2>1, <2>2, <2>3, <2>4, <3>1, <3>2, <3>3 DEF Truthful, RowsPurged, TradesGone, Deleted
  <2> QED
    BY <1>ii, <2>5, <2>6 DEF CardInv
<1>3. CASE PurgeTrades
  <2>1. /\ purge.at = "trades" /\ trades' = {} /\ purge' = [at |-> "mark"] /\ purge # Idle
        /\ UNCHANGED <<strategy, versions, live, held, http, opened, exits, disturbed>>
    BY <1>3 DEF PurgeTrades, Idle
  <2>2. purge'.at = "mark"
    BY <2>1
  <2>3. Finished' = {}
    BY <2>1 DEF Finished
  <2>4. IdsInv' /\ PurgeInv'
    BY <1>i, <2>1, <2>2, <2>3 DEF IdsInv, PurgeInv
  <2>5. ASSUME ~disturbed' PROVE Truthful'
    <3>1. Truthful /\ ~strategy.purged
      BY <1>i, <2>1, <2>5 DEF PurgeInv
    <3>2. ~RowsPurged' => exits = {}
      BY <1>i, <2>1, <2>2, <3>1 DEF Truthful, RowsPurged
    <3> QED
      BY <2>1, <2>2, <2>3, <3>1, <3>2, SameSnapshot DEF Truthful, TradesGone, Deleted
  <2> QED
    BY <1>ii, <2>4, <2>5 DEF CardInv
<1>4. CASE PurgeMarks
  <2>1. /\ purge.at = "mark" /\ purge' = Idle /\ purge # Idle
        /\ UNCHANGED <<versions, trades, live, held, http, opened, exits, disturbed>>
    BY <1>4 DEF PurgeMarks, Idle
  <2>2. Finished' = Finished
    BY <2>1 DEF Finished
  <2>3. /\ strategy'.exists = strategy.exists /\ strategy'.final = strategy.final
        /\ strategy.exists => strategy'.purged
        /\ ~strategy.exists => strategy' = strategy
    BY <1>4, <1>i DEF PurgeMarks, Updated
  <2>4. IdsInv' /\ PurgeInv'
    BY <1>i, <2>1, <2>2, <2>3 DEF IdsInv, PurgeInv
  <2>5. ~disturbed' => Truthful'
    BY <1>i, <2>1, <2>2, <2>3, SameSnapshot DEF Truthful, RowsPurged, TradesGone, Deleted, Idle
  <2> QED
    BY <1>ii, <2>4, <2>5 DEF CardInv
<1>5. CASE PurgeFails
  <2>1. /\ purge # Idle /\ disturbed' = TRUE
        /\ purge' = [at |-> "trades"] \/ purge' = Idle
        /\ UNCHANGED <<strategy, versions, trades, live, held, http, opened, exits>>
    BY <1>5 DEF PurgeFails
  <2>2. Finished' = Finished
    BY <2>1 DEF Finished
  <2> QED
    BY <1>i, <1>ii, <2>1, <2>2 DEF CardInv, IdsInv, PurgeInv, Idle
<1> QED
  BY <1>1, <1>2, <1>3, <1>4, <1>5 DEF PurgeStep

LEMMA CardStep ==
    GoneInv /\ CardInv /\ [Next]_vars => CardInv'
<1> SUFFICES ASSUME GoneInv, CardInv, [Next]_vars PROVE CardInv'
  OBVIOUS
<1> USE DEF clock, tables, memory, jobs, ghosts
<1>1. ASSUME Stop \/ DeleteStops \/ DeleteForgets \/ CandleFails \/ Reviewing \/ Capture \/ CaptureFails
             \/ MarketCloses \/ NextDay \/ UNCHANGED vars
      PROVE  CardInv'
  <2>1. UNCHANGED <<strategy, versions, trades, purge, opened, exits, disturbed>>
    BY <1>1 DEF Stop, DeleteStops, DeleteForgets, CandleFails, Reviewing, ReviewSaves, ReviewLists, Capture,
                CaptureLooks, CaptureLists, CaptureSaves, CaptureFails, MarketCloses, NextDay, vars
  <2>2. /\ (live' = live /\ held' = held) \/ (live' = 0 /\ held' = 0)
        /\ candle' = candle \/ candle' = NoTrade
    BY <1>1 DEF Stop, DeleteStops, DeleteForgets, CandleFails, Reviewing, ReviewSaves, ReviewLists, Capture,
                CaptureLooks, CaptureLists, CaptureSaves, CaptureFails, MarketCloses, NextDay, vars
  <2>3. \/ ledger' = ledger
        \/ DeleteForgets
    BY <1>1 DEF Stop, DeleteStops, CandleFails, Reviewing, ReviewSaves, ReviewLists, Capture,
                CaptureLooks, CaptureLists, CaptureSaves, CaptureFails, MarketCloses, NextDay, vars
  <2>4. DeleteForgets => TradesGone /\ live = 0 /\ held = 0
    BY DEF DeleteForgets, TradesGone, Deleted, GoneInv, RequestInv, CardInv, IdsInv
  <2>5. /\ http' = http \/ http'.at # "delete" \/ http'.table = "trades"
        /\ http.at = "delete" => http' = http \/ http.table = "memory"
    <3>1. CASE Reviewing \/ Capture \/ CaptureFails
      BY <3>1 DEF Reviewing, ReviewSaves, ReviewLists, Listed, Capture, CaptureLooks, CaptureLists,
                  CaptureSaves, CaptureFails, Idle
    <3>2. CASE ~(Reviewing \/ Capture \/ CaptureFails)
      BY <1>1, <3>2 DEF Stop, DeleteStops, DeleteForgets, CandleFails, MarketCloses, NextDay, vars, Idle
    <3> QED
      BY <3>1, <3>2
  <2>6. http.at = "delete" => http' = http \/ ~strategy.exists \/ disturbed
    BY <2>5 DEF GoneInv, NameInv, Deleted
  <2>7. (live' = live /\ held' = held /\ ledger' = ledger) \/ (live' = 0 /\ held' = 0)
    BY <2>1, <2>2, <2>3, <2>4
  <2> QED
    BY <2>1, <2>2, <2>3, <2>4, <2>5, <2>6, <2>7, CardFrame
<1>2. ASSUME DeleteFails PROVE CardInv'
  <2>1. /\ disturbed' = TRUE /\ http' = Idle
        /\ UNCHANGED <<strategy, versions, trades, live, held, ledger, candle, purge, opened, exits>>
    BY <1>2 DEF DeleteFails
  <2>2. Finished' = Finished
    BY <2>1 DEF Finished
  <2>3. LedgerInv' /\ CandleInv' /\ disturbed' \in BOOLEAN
    BY <2>1, <2>2 DEF CardInv, LedgerInv, CandleInv, TradesGone, Deleted, Idle
  <2> QED
    BY <2>1, <2>2, <2>3 DEF CardInv, IdsInv, PurgeInv, Idle
<1>3. ASSUME Restart PROVE CardInv'
  <2>1. /\ live' = 0 /\ held' = 0 /\ candle' = NoTrade /\ http' = Idle /\ purge' = Idle
        /\ disturbed' = (disturbed \/ http.at = "delete" \/ purge.at = "mark")
        /\ UNCHANGED <<strategy, versions, trades, opened, exits>>
    BY <1>3 DEF Restart
  <2>2. Finished' = Finished
    BY <2>1 DEF Finished
  <2>3. IdsInv' /\ PurgeInv' /\ CandleInv' /\ LedgerInv' /\ disturbed' \in BOOLEAN
    BY <2>1, <2>2 DEF CardInv, IdsInv, PurgeInv, CandleInv, LedgerInv, Idle
  <2>4. ASSUME ~disturbed' PROVE Truthful'
    <3>1. ~disturbed /\ http.at # "delete" /\ purge.at # "mark"
      BY <2>1, <2>4
    <3> QED
      BY <2>1, <2>2, <3>1, SameSnapshot DEF CardInv, Truthful, RowsPurged, TradesGone, Deleted, Idle
  <2> QED
    BY <2>3, <2>4 DEF CardInv
<1> QED
  BY <1>1, <1>2, <1>3, DecideKeeps, WriteKeeps, StartKeeps, CreateKeeps, LastRunKeeps,
     DeleteRowsKeeps, PurgeKeeps DEF Next, Trading, Request, Deleting

(* The card shows every completed trade of its version that was written,   *)
(* before and after the rows are purged (retention/monitor.go), for any    *)
(* number of trades, versions and days, as long as no purge was cut short, *)
(* overlapped by a start or a candle, or followed by one.                  *)
THEOREM CardIsTruthful == Spec => []CardTruthful
<1>1. GoneInv /\ CardInv => CardTruthful
  <2> SUFFICES ASSUME GoneInv, CardInv, strategy.exists, versions # {}, purge = Idle,
                      http.at # "delete", ~disturbed
               PROVE  Card = Snapshot
    BY DEF CardTruthful, Snapshot
  <2>1. IdsInv /\ Truthful
    BY DEF CardInv
  <2>2. CASE strategy.purged
    <3>1. strategy.final = Snapshot
      BY <2>1, <2>2 DEF Truthful
    <3>2. Snapshot.taken = TRUE
      BY DEF Snapshot, Performance
    <3> QED
      BY <2>2, <3>1, <3>2 DEF Card
  <2>3. CASE ~strategy.purged
    <3>1. Finished = exits
      BY <2>1, <2>3 DEF Truthful, RowsPurged, Idle
    <3> QED
      BY <2>1, <2>3, <3>1, SnapshotOfFinished DEF Card
  <2> QED
    BY <2>2, <2>3
<1>2. GoneInv /\ CardInv /\ [Next]_vars => GoneInv' /\ CardInv'
  BY GoneStep, CardStep
<1> QED
  BY <1>1, <1>2, GoneInit, CardInit, PTL DEF Spec
=============================================================================
