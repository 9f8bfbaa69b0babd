---------------------------- MODULE Housekeeping ----------------------------
(***************************************************************************)
(* What the storage keeps of one strategy, day after day:                  *)
(*   api/server.go          create, run, stop, delete, the review of a day *)
(*   retention/monitor.go   deletes the raw rows of an idle strategy       *)
(*   dailyreview/monitor.go writes down every hour how the day went        *)
(*   storage/repo_*.go      the statements all of them are made of         *)
(*   api/dashboard_data.go  what a card shows of it                        *)
(* Every row is keyed by its strategy, so one strategy is enough.  Each    *)
(* statement commits on its own: there is no transaction anywhere, and     *)
(* another goroutine, a failing statement or the end of the process may    *)
(* come between two of them; a stop or a delete does not wait for the      *)
(* candle that is being handled.  The HTTP requests for the strategy come  *)
(* one after the other.                                                    *)
(*                                                                         *)
(* Days are numbered from 1; 0 is a time that was never set.  Names with a *)
(* suffix are faulty variants of the definition before the underscore.     *)
(***************************************************************************)
EXTENDS Integers, FiniteSets, FiniteSetsExt

CONSTANTS Versions,         \* versions a human may submit
          PnLs,             \* what a trade may earn
          PurgeAfterIdle,   \* in days
          MaxDay,           \* bound: the last day
          MaxFaults,        \* bound: failing statements and restarts
          MaxEvents         \* bound: these and the trades ever opened

ASSUME HousekeepingAssumption ==
    /\ IsFiniteSet(Versions) /\ Versions \subseteq Nat \ {0} /\ PnLs \subseteq Int
    /\ {PurgeAfterIdle, MaxDay, MaxFaults, MaxEvents} \subseteq Nat

VARIABLES
    today,
    closed,      \* the market of today is over
    strategy,    \* the row of table strategies, or NoRow
    versions,    \* strategy_versions
    trades,      \* trades
    reviews,     \* daily_reviews
    live,        \* the version whose runtime is registered, or 0
    held,        \* the trade the runtime has open, or 0
    candle,      \* the row that the handler of a candle is about to write, or NoTrade
    ledger,      \* Server.ledgers has an entry
    http,        \* what the handler of the current request is about to do
    purge,       \* what the retention monitor is about to do
    capture,     \* what the review monitor is about to do
    opened,      \* trades opened so far
    exits,       \* every completed trade that was written since a delete removed all
    late,        \* trades whose row a candle had yet to write at a delete since the last create
    stale,       \* reviews the monitor had yet to save at a delete since the last create
    polled,      \* versions whose reviews were last written by a poll begun after today's market
    disturbed,   \* statements of two procedures were mixed, or one was cut short
    faults

clock == <<today, closed>>
jobs == <<http, purge, capture>>
memory == <<live, held, ledger>>
tables == <<strategy, versions, trades, reviews>>
ghosts == <<opened, exits, late, stale, polled, disturbed, faults>>
vars == <<clock, tables, memory, candle, jobs, ghosts>>

NoFinal == [completed |-> 0, pnl |-> 0, taken |-> FALSE]
NoRow == [exists |-> FALSE, lastRun |-> 0, purged |-> FALSE, final |-> NoFinal]
NewRow == [NoRow EXCEPT !.exists = TRUE]

NoTrade == [id |-> 0, version |-> 0, state |-> "NONE", exitDay |-> 0, pnl |-> 0]

Idle == [at |-> "idle"]

Init ==
    /\ today = 1 /\ closed = FALSE
    /\ strategy = NoRow /\ versions = {} /\ trades = {} /\ reviews = {}
    /\ live = 0 /\ held = 0 /\ ledger = FALSE
    /\ candle = NoTrade /\ http = Idle /\ purge = Idle /\ capture = Idle
    /\ opened = 0 /\ exits = {} /\ late = {} /\ stale = {} /\ polled = {}
    /\ disturbed = FALSE /\ faults = 0
-----------------------------------------------------------------------------
(* Statements.                                                             *)

MayFail == faults < MaxFaults /\ opened + faults < MaxEvents

(* UPDATE strategies SET ...: nothing, when the row is gone.               *)
Updated(row) == IF strategy.exists THEN row ELSE strategy

LatestVersion == Max(versions)

ListByStrategy(v) == {t \in trades : t.version = v}

(* Trades keep their id: an update of a row that was deleted inserts it.   *)
Upsert(t) == {u \in trades : u.id # t.id} \cup {t}

(* One row for a version and a date, the last one saved.  A row that shows *)
(* no trade is left out of the table.                                      *)
SaveDailyReview(r) ==
    {q \in reviews : q.version # r.version \/ q.date # r.date} \cup {q \in {r} : q.done # {}}

Completed(t) == t.state = "CLOSED"

PnLOf(ts) == MapThenSumSet(LAMBDA t : t.pnl, ts)
-----------------------------------------------------------------------------
(* The strategy itself: one candle after the other.  Its handler looks once *)
(* whether the runtime is stopped, and writes the trade at the end of what *)
(* it does (runtime.go:287, lifecycle.go).  TradeLifecycle says when a     *)
(* strategy enters and exits.                                              *)

Dispatched == live # 0 /\ candle = NoTrade /\ ~closed

Enter ==
    /\ Dispatched /\ held = 0 /\ opened + faults < MaxEvents
    /\ opened' = opened + 1
    /\ held' = opened + 1
    /\ candle' = [id |-> opened + 1, version |-> live, state |-> "ACTIVE", exitDay |-> 0, pnl |-> 0]
    /\ UNCHANGED <<clock, tables, live, ledger, jobs, exits, late, stale, polled, disturbed, faults>>

(* The day of an exit is that of its candle.  The last candle of a day     *)
(* comes with the first tick of the next.                                  *)
Exit(pnl, day) ==
    /\ Dispatched /\ held # 0
    /\ held' = 0
    /\ candle' = [id |-> held, version |-> live, state |-> "CLOSED", exitDay |-> day, pnl |-> pnl]
    /\ UNCHANGED <<clock, tables, live, ledger, jobs, ghosts>>

(* A swing trade held too long; it stays in the market.                    *)
Expire ==
    /\ Dispatched /\ held # 0
    /\ candle' = [id |-> held, version |-> live, state |-> "EXPIRED", exitDay |-> 0, pnl |-> 0]
    /\ candle' \notin trades
    /\ UNCHANGED <<clock, tables, memory, jobs, ghosts>>

(* What a purge decided on changes while it is at work, or after it.       *)
Disturbs == purge # Idle \/ strategy.purged

CandleWrites ==
    /\ candle # NoTrade
    /\ trades' = Upsert(candle)
    /\ exits' = exits \cup {t \in {candle} : Completed(t)}
    /\ candle' = NoTrade
    /\ disturbed' = (disturbed \/ Disturbs \/ candle.id \in late)
    /\ UNCHANGED <<clock, strategy, versions, reviews, memory, jobs, opened, late, stale, polled, faults>>

(* OnTrade logs the error, and the runtime goes on.                        *)
CandleFails ==
    /\ candle # NoTrade /\ MayFail
    /\ candle' = NoTrade
    /\ faults' = faults + 1
    /\ UNCHANGED <<clock, tables, memory, jobs, opened, exits, late, stale, polled, disturbed>>
-----------------------------------------------------------------------------
(* Requests.                                                               *)

(* POST /strategies, of a document that is valid: the row, unless it is    *)
(* there, and the version, unless it is there or the insert fails.         *)
CreateStrategy(v) ==
    /\ http = Idle
    /\ strategy' = IF strategy.exists THEN strategy ELSE NewRow
    /\ \/ versions' = versions \cup {v} /\ faults' = faults
       \/ versions' = versions /\ MayFail /\ faults' = faults + 1
    /\ disturbed' = (disturbed \/ Disturbs)
    /\ late' = {} /\ stale' = {}
    /\ UNCHANGED <<clock, trades, reviews, memory, candle, jobs, opened, exits, polled>>

OpenOf(v) == {t.id : t \in {u \in ListByStrategy(v) : ~Completed(u)}}

(* startStrategy, of a request or of AutoResumeAll: the ledger, the        *)
(* runtime and the replay that restores an open trade into it.  RunStrategy *)
(* may refuse.                                                             *)
Start ==
    /\ http = Idle /\ versions # {}
    /\ ledger' = TRUE
    /\ \/ /\ live = 0
          /\ live' = LatestVersion
          /\ held' = IF ~ledger /\ OpenOf(LatestVersion) # {} THEN Max(OpenOf(LatestVersion)) ELSE 0
          /\ http' = [at |-> "last", now |-> today]
          /\ disturbed' = (disturbed \/ Disturbs)
       \/ UNCHANGED <<live, held, http, disturbed>>
    /\ UNCHANGED <<clock, tables, candle, purge, capture, opened, exits, late, stale, polled, faults>>

(* The time of the start, taken after it.  first_run_at, set just before,  *)
(* is what RunControl calls due.                                           *)
SetLastRunAt ==
    /\ http.at = "last"
    /\ strategy' = Updated([strategy EXCEPT !.lastRun = http.now])
    /\ http' = Idle
    /\ UNCHANGED <<clock, versions, trades, reviews, memory, candle, purge, capture, ghosts>>

Stop ==
    /\ http = Idle /\ live # 0
    /\ live' = 0 /\ held' = 0
    /\ UNCHANGED <<clock, tables, ledger, candle, jobs, ghosts>>

(* What a procedure that has listed the trades of a date will save.        *)
Review(job) == [version |-> job.version, date |-> job.date, done |-> job.done]

(* The review monitor has a review to save.                                *)
Waiting == {c \in {capture} : c.at = "save"}

(* DELETE /strategies/{id}                                                 *)
DeleteStops ==
    /\ http = Idle
    /\ live' = 0 /\ held' = 0
    /\ http' = [at |-> "delete", table |-> "trades"]
    /\ UNCHANGED <<clock, tables, ledger, candle, purge, capture, ghosts>>

AfterTable_SkipsReviews(table) ==
    [trades |-> "versions", reviews |-> "versions", versions |-> "strategies", strategies |-> "memory"][table]

AfterTable(table) ==
    [trades |-> "reviews", reviews |-> "versions", versions |-> "strategies", strategies |-> "memory"][table]

Without(table, wanted, rows) == IF table = wanted THEN {} ELSE rows

DeleteRows ==
    /\ http.at = "delete" /\ http.table # "memory"
    /\ trades' = Without(http.table, "trades", trades)
    /\ reviews' = Without(http.table, "reviews", reviews)
    /\ versions' = Without(http.table, "versions", versions)
    /\ strategy' = IF http.table = "strategies" THEN NoRow ELSE strategy
    /\ exits' = IF http.table = "trades" THEN {} ELSE exits
    /\ late' = IF http.table = "trades" THEN late \cup ({candle.id} \ {NoTrade.id}) ELSE late
    /\ stale' = IF http.table = "reviews" THEN stale \cup {Review(c) : c \in Waiting} ELSE stale
    /\ polled' = IF http.table = "reviews" THEN {} ELSE polled
    /\ http' = [http EXCEPT !.table = AfterTable(@)]
    /\ UNCHANGED <<clock, memory, candle, purge, capture, opened, disturbed, faults>>

DeleteForgets ==
    /\ http.at = "delete" /\ http.table = "memory"
    /\ ledger' = FALSE
    /\ http' = Idle
    /\ UNCHANGED <<clock, tables, live, held, candle, purge, capture, ghosts>>

(* A statement of the handler returns an error, and the handler returns.   *)
DeleteFails ==
    /\ http.at = "delete" /\ http.table # "memory" /\ MayFail
    /\ http' = Idle
    /\ faults' = faults + 1
    /\ disturbed' = TRUE
    /\ UNCHANGED <<clock, tables, memory, candle, purge, capture, opened, exits, late, stale, polled>>
-----------------------------------------------------------------------------
(* The review of a day, of a request for any date or of the monitor for    *)
(* the day its poll began.                                                 *)

DayTrades_EverySince(rows, date) == {t \in rows : Completed(t) /\ t.exitDay >= date}
DayTrades(rows, date) == {t \in rows : Completed(t) /\ t.exitDay = date}

(* An expired trade counts neither as open nor as exited.                  *)
OpenCount(rows) == Cardinality({t \in rows : t.state = "ACTIVE"})

Listed(job, rows) ==
    [at |-> "save", version |-> job.version, date |-> job.date,
     done |-> DayTrades(rows, job.date), evening |-> job.evening]

ReviewLists(date) ==
    /\ http = Idle /\ versions # {}
    /\ LET job == [version |-> LatestVersion, date |-> date, evening |-> closed]
       IN  http' = Listed(job, ListByStrategy(LatestVersion))
    /\ UNCHANGED <<clock, tables, memory, candle, purge, capture, ghosts>>

ReviewSaves ==
    /\ http.at = "save"
    /\ reviews' = SaveDailyReview(Review(http))
    /\ http' = Idle
    /\ polled' = IF http.date = today /\ ~http.evening THEN polled \ {http.version} ELSE polled
    /\ UNCHANGED <<clock, strategy, versions, trades, memory, candle, purge, capture>>
    /\ UNCHANGED <<opened, exits, late, stale, disturbed, faults>>

CaptureLooks ==
    /\ capture = Idle
    /\ strategy.exists /\ strategy.lastRun # 0 /\ versions # {}
    /\ capture' = [at |-> "list", version |-> LatestVersion, date |-> today, evening |-> closed]
    /\ UNCHANGED <<clock, tables, memory, candle, http, purge, ghosts>>

(* A poll that began after today's market has ended.                       *)
PolledNow == polled \cup {job.version : job \in {c \in {capture} : c.evening /\ c.date = today}}

(* A day on which nothing happened gets no row from the monitor.           *)
CaptureLists ==
    /\ capture.at = "list"
    /\ LET rows == ListByStrategy(capture.version)
           found == Listed(capture, rows)
       IN  IF found.done = {} /\ OpenCount(rows) = 0
           THEN capture' = Idle /\ polled' = PolledNow
           ELSE capture' = found /\ polled' = polled
    /\ UNCHANGED <<clock, tables, memory, candle, http, purge, opened, exits, late, stale, disturbed, faults>>

CaptureSaves_Once ==
    /\ capture.at = "save"
    /\ reviews' = IF \E r \in reviews : r.version = capture.version /\ r.date = capture.date
                  THEN reviews ELSE SaveDailyReview(Review(capture))
    /\ capture' = Idle
    /\ polled' = PolledNow
    /\ UNCHANGED <<clock, strategy, versions, trades, memory, candle, http, purge>>
    /\ UNCHANGED <<opened, exits, late, stale, disturbed, faults>>

CaptureSaves ==
    /\ capture.at = "save"
    /\ reviews' = SaveDailyReview(Review(capture))
    /\ capture' = Idle
    /\ polled' = PolledNow
    /\ UNCHANGED <<clock, strategy, versions, trades, memory, candle, http, purge>>
    /\ UNCHANGED <<opened, exits, late, stale, disturbed, faults>>

(* Any statement of a poll may fail, and the poll is over.                 *)
CaptureFails ==
    /\ capture # Idle /\ MayFail
    /\ capture' = Idle
    /\ faults' = faults + 1
    /\ UNCHANGED <<clock, tables, memory, candle, http, purge, opened, exits, late, stale, polled, disturbed>>
-----------------------------------------------------------------------------
(* The retention monitor: purgeOne.                                        *)

PurgeDue == strategy.lastRun # 0 /\ today - strategy.lastRun >= PurgeAfterIdle

PurgeLooks_OnlyWithTrades ==
    /\ purge = Idle
    /\ strategy.exists /\ live = 0 /\ ~strategy.purged /\ PurgeDue /\ trades # {}
    /\ purge' = [at |-> "snapshot"]
    /\ UNCHANGED <<clock, tables, memory, candle, http, capture, ghosts>>

PurgeLooks ==
    /\ purge = Idle
    /\ strategy.exists /\ live = 0 /\ ~strategy.purged /\ PurgeDue
    /\ purge' = [at |-> "snapshot"]
    /\ UNCHANGED <<clock, tables, memory, candle, http, capture, ghosts>>

Performance(rows) ==
    LET done == {t \in rows : Completed(t)}
    IN  [completed |-> Cardinality(done), pnl |-> PnLOf(done), taken |-> TRUE]

PurgeSnapshot_OfOpenTradesToo ==
    /\ purge.at = "snapshot"
    /\ strategy' = Updated([strategy EXCEPT !.final =
           [completed |-> Cardinality(trades), pnl |-> PnLOf(trades), taken |-> TRUE]])
    /\ purge' = [at |-> "trades"]
    /\ UNCHANGED <<clock, versions, trades, reviews, memory, candle, http, capture, ghosts>>

PurgeSnapshot ==
    /\ purge.at = "snapshot"
    /\ strategy' = IF versions = {} THEN strategy
                   ELSE Updated([strategy EXCEPT !.final = Performance(ListByStrategy(LatestVersion))])
    /\ purge' = [at |-> "trades"]
    /\ UNCHANGED <<clock, versions, trades, reviews, memory, candle, http, capture, ghosts>>

PurgeTrades ==
    /\ purge.at = "trades"
    /\ trades' = {}
    /\ purge' = [at |-> "mark"]
    /\ UNCHANGED <<clock, strategy, versions, reviews, memory, candle, http, capture, ghosts>>

PurgeMarks ==
    /\ purge.at = "mark"
    /\ strategy' = Updated([strategy EXCEPT !.purged = TRUE])
    /\ purge' = Idle
    /\ UNCHANGED <<clock, versions, trades, reviews, memory, candle, http, capture, ghosts>>

(* A failing snapshot does not stop the purge; a failing delete does, and  *)
(* the next poll begins again.                                             *)
PurgeFails ==
    /\ purge # Idle /\ MayFail
    /\ purge' = IF purge.at = "snapshot" THEN [at |-> "trades"] ELSE Idle
    /\ disturbed' = TRUE
    /\ faults' = faults + 1
    /\ UNCHANGED <<clock, tables, memory, candle, http, capture, opened, exits, late, stale, polled>>
-----------------------------------------------------------------------------
(* The process ends and comes up again, on the same day or the next.       *)
Restart ==
    /\ MayFail
    /\ faults' = faults + 1
    /\ live' = 0 /\ held' = 0 /\ ledger' = FALSE
    /\ candle' = NoTrade /\ http' = Idle /\ purge' = Idle /\ capture' = Idle
    /\ disturbed' = (disturbed \/ http.at = "delete" \/ purge.at = "mark")
    /\ \/ UNCHANGED <<clock, polled>>
       \/ today < MaxDay /\ today' = today + 1 /\ closed' = FALSE /\ polled' = {}
    /\ UNCHANGED <<tables, opened, exits, late, stale>>

(* The candles of the day have been dealt with.                            *)
MarketCloses ==
    /\ ~closed /\ candle = NoTrade
    /\ closed' = TRUE
    /\ UNCHANGED <<today, tables, memory, candle, jobs, ghosts>>

NextDay ==
    /\ closed /\ today < MaxDay
    /\ today' = today + 1 /\ closed' = FALSE
    /\ polled' = {}
    /\ UNCHANGED <<tables, memory, candle, jobs, opened, exits, late, stale, disturbed, faults>>

Trading ==
    \/ Enter \/ Expire \/ CandleWrites \/ CandleFails
    \/ \E pnl \in PnLs : \E day \in {today - 1, today} \ {0} : Exit(pnl, day)
Deleting == DeleteStops \/ DeleteRows \/ DeleteForgets
Reviewing == ReviewSaves \/ \E date \in 1 .. today : ReviewLists(date)
Request ==
    \/ Start \/ SetLastRunAt \/ Stop \/ Deleting \/ Reviewing \/ DeleteFails
    \/ \E v \in Versions : CreateStrategy(v)
Capture == CaptureLooks \/ CaptureLists \/ CaptureSaves
PurgeStep == PurgeLooks \/ PurgeSnapshot \/ PurgeTrades \/ PurgeMarks

Next ==
    \/ Trading \/ Request \/ Capture \/ CaptureFails \/ PurgeStep \/ PurgeFails
    \/ Restart \/ MarketCloses \/ NextDay

Spec == Init /\ [][Next]_vars

(* The monitor is a ticker, and no statement waits for another.            *)
FairSpec == Spec /\ WF_vars(PurgeStep)
-----------------------------------------------------------------------------
(* Properties                                                              *)

(* The reviews are a history: one row for a version and a date, and in it  *)
(* only trades of that version that were completed on that date, whoever   *)
(* saved it, however long after its rows were read, and also when midnight *)
(* passed between (dailyreview/monitor.go captureOne, server.go            *)
(* handleDailyReview: "only trades that EXITED on this date").             *)
ReviewsSound ==
    /\ \A r \in reviews : \A t \in r.done : Completed(t) /\ t.version = r.version /\ t.exitDay = r.date
    /\ \A r, q \in reviews : r.version = q.version /\ r.date = q.date => r = q

(* What the card of a strategy shows: handleListStrategies.                *)
Card ==
    IF strategy.purged /\ strategy.final.taken THEN strategy.final
    ELSE Performance(ListByStrategy(LatestVersion))

(* The card shows every completed trade of the version it is about that    *)
(* was written, before the rows are purged and after it, as long as no     *)
(* purge was cut short, overlapped by a start or a candle, or followed by  *)
(* one, and no trade outlived a delete (retention/monitor.go: "records how *)
(* the strategy actually did, right before its raw trades are deleted").   *)
CardTruthful ==
    strategy.exists /\ versions # {} /\ purge = Idle /\ http.at # "delete" /\ ~disturbed =>
        Card = Performance({t \in exits : t.version = LatestVersion})

(* What a delete leaves of the name, with the candles, both monitors and   *)
(* the process's end in between: nothing but the trade whose candle was    *)
(* being handled when the trades were deleted, the review that was waiting *)
(* to be saved when the reviews were, and reviews of that trade; only a    *)
(* prediction can be stored for a name that is not there (server.go        *)
(* handleDelete: "every version, order, trade, log, and review row, plus   *)
(* its in-memory ledger").                                                 *)
DeleteLeavesOnlyInFlight ==
    ~strategy.exists /\ http = Idle =>
        /\ versions = {} /\ live = 0 /\ ~ledger
        /\ \A t \in trades : t.id \in late
        /\ \A r \in reviews : r \in stale \/ \A t \in r.done : t.id \in late

(* A strategy nobody runs is purged in the end, although snapshots and     *)
(* deletes fail and the process restarts in the middle of it               *)
(* (retention/monitor.go).                                                 *)
IdlePurged ==
    (strategy.exists /\ live = 0 /\ ~strategy.purged /\ PurgeDue)
        ~> (~strategy.exists \/ live # 0 \/ strategy.purged \/ ~PurgeDue)

(* In the evening, once a poll that began after the market has gone        *)
(* through, every trade in the table that exited today is in the review of *)
(* its day, whatever polls and requests had listed and saved before.  It   *)
(* stays there until midnight, or until a request saves what it had listed *)
(* while the market was open or a delete removes the reviews, which the    *)
(* next poll makes good (main.go: the hourly poll "keeps today's row       *)
(* current as more trades close").                                         *)
ExitReviewed ==
    \A t \in DayTrades(trades, today) : t.version \in polled => \E r \in reviews : t \in r.done
=============================================================================
