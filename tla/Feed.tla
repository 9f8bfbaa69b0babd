--------------------------------- MODULE Feed ---------------------------------
(***************************************************************************)
(* The live market feed and the pipeline in front of it:                   *)
(*   marketdata/pipeline.go       Subscribe and the tick loop of Run       *)
(*   marketdata/angelone/ws.go    Subscribe, the supervisor, Close         *)
(*   cmd/engine/main.go           shutdown: cancel, then Close             *)
(* Strategies that start subscribe to their symbols, each from a goroutine *)
(* of its own, while connections drop and the supervisor makes new ones.   *)
(*                                                                         *)
(* A connection is a number; the broker forgets what was asked for on a    *)
(* connection that is gone.  A frame written to a broken connection is an  *)
(* error that the code logs.  Every read of a broken connection is one     *)
(* too, until the websocket library ends the process by a panic, because   *)
(* too many reads of one connection have failed.  Heartbeats, the backoff  *)
(* times and the format of frames and ticks are left out.                  *)
(*                                                                         *)
(* Names with a suffix are faulty variants of the definition before the    *)
(* underscore.                                                             *)
(***************************************************************************)
EXTENDS Naturals, FiniteSets

CONSTANTS Known,       \* symbols the feed has an instrument for
          Unknown,     \* other symbols a strategy may name
          Callers,     \* RunStrategy calls that subscribe at the same time
          Capacity,    \* of the tick channel
          PanicAfter,  \* failed reads of a connection: gorilla/websocket allows 1000
          MaxConns     \* bound: connections, the last of which stays up

ASSUME FeedAssumption ==
    /\ IsFiniteSet(Known) /\ IsFiniteSet(Unknown) /\ IsFiniteSet(Callers)
    /\ Known \cap Unknown = {}
    /\ {Capacity, PanicAfter, MaxConns} \subseteq Nat \ {0}

Symbols == Known \cup Unknown
Conns == 1 .. MaxConns

VARIABLES
    subscribed,   \* Pipeline.subscribedSymbols
    subs,         \* WSFeed.subs
    refused,      \* symbols of requests that the feed answered with an error
    call,         \* what each caller of Subscribe is in the middle of
    conn,         \* WSFeed.conn
    made,         \* connections dialled so far
    up,           \* connections that are open
    wire,         \* what the broker was asked for on each connection
    failedReads,  \* of each connection, counted by the websocket library
    sup,          \* what the supervisor is in the middle of
    queue,        \* ticks in the channel
    draining,     \* Pipeline.Run reads the channel
    cancelled,    \* the life context is done
    closing       \* Close: "no", "set" once closed is stored, "done"

pipelineVars == <<subscribed, refused>>
connVars == <<conn, made, up, wire, failedReads>>
shutdownVars == <<cancelled, closing>>
vars == <<pipelineVars, subs, call, connVars, sup, queue, draining, shutdownVars>>

NoCall == [at |-> "idle", batch |-> {}, to |-> 0]
Reading == [at |-> "reading", batch |-> {}]
Closed == closing # "no"
TicksClosed == sup.at = "ended"
Panicked == sup.at = "panicked"

Init ==
    /\ subscribed = {} /\ refused = {} /\ subs = {}
    /\ call = [c \in Callers |-> NoCall]
    /\ conn = 1 /\ made = 1 /\ up = {1}
    /\ wire = [k \in Conns |-> {}]
    /\ failedReads = [k \in Conns |-> 0]
    /\ sup = Reading
    /\ queue = 0 /\ draining = TRUE
    /\ cancelled = FALSE /\ closing = "no"
-----------------------------------------------------------------------------
(* Subscribe, of the pipeline and then of the feed.                        *)

(* The pipeline takes a symbol as subscribed before the feed is asked.     *)
PipelineSubscribe(c, symbols) ==
    LET fresh == symbols \ subscribed
    IN  /\ ~Panicked /\ call[c] = NoCall
        /\ subscribed' = subscribed \cup symbols
        /\ call' = IF fresh = {} THEN call
                   ELSE [call EXCEPT ![c] = [at |-> "marked", batch |-> fresh, to |-> 0]]
        /\ UNCHANGED <<refused, subs, connVars, sup, queue, draining, shutdownVars>>

FeedSubscribe_MarksUnknown(c) ==
    /\ call[c].at = "marked"
    /\ subs' = subs \cup call[c].batch
    /\ call' = [call EXCEPT ![c] = [@ EXCEPT !.at = "frame"]]
    /\ UNCHANGED <<pipelineVars, connVars, sup, queue, draining, shutdownVars>>

FeedSubscribe(c) ==
    LET fresh == call[c].batch \ subs
    IN  /\ call[c].at = "marked"
        /\ fresh \subseteq Known
        /\ subs' = subs \cup fresh
        /\ call' = [call EXCEPT ![c] = IF fresh = {} THEN NoCall
                                       ELSE [at |-> "frame", batch |-> fresh, to |-> 0]]
        /\ UNCHANGED <<pipelineVars, connVars, sup, queue, draining, shutdownVars>>

(* The loop stops at the first symbol without an instrument; what came     *)
(* before it stays marked and is not sent.                                 *)
FeedRefuses(c) ==
    LET fresh == call[c].batch \ subs
    IN  /\ call[c].at = "marked"
        /\ ~(fresh \subseteq Known)
        /\ \E before \in SUBSET (fresh \cap Known) : subs' = subs \cup before
        /\ refused' = refused \cup call[c].batch
        /\ call' = [call EXCEPT ![c] = NoCall]
        /\ UNCHANGED <<subscribed, connVars, sup, queue, draining, shutdownVars>>

(* sendSubscribeFrame: load the connection, then write to it.              *)
LoadConn(c) ==
    /\ call[c].at = "frame"
    /\ call' = [call EXCEPT ![c] = [at |-> "write", batch |-> call[c].batch, to |-> conn]]
    /\ UNCHANGED <<pipelineVars, subs, connVars, sup, queue, draining, shutdownVars>>

Written(k, batch) == IF k \in up THEN [wire EXCEPT ![k] = @ \cup batch] ELSE wire

WriteFrame(c) ==
    /\ call[c].at = "write"
    /\ wire' = Written(call[c].to, call[c].batch)
    /\ call' = [call EXCEPT ![c] = NoCall]
    /\ UNCHANGED <<pipelineVars, subs, conn, made, up, failedReads, sup, queue, draining, shutdownVars>>
-----------------------------------------------------------------------------
(* The supervisor and the read loop it runs.                               *)

Supervisor(from, to, batch) ==
    /\ sup.at = from
    /\ sup' = [at |-> to, batch |-> batch]

(* A tick of a symbol the broker was asked for.                            *)
ReadTick ==
    /\ conn \in up /\ wire[conn] # {}
    /\ Supervisor("reading", "tick", {})
    /\ UNCHANGED <<pipelineVars, subs, call, connVars, queue, draining, shutdownVars>>

(* The read loop blocks while the channel is full.                         *)
PutTick ==
    /\ queue < Capacity
    /\ Supervisor("tick", "reading", {})
    /\ queue' = queue + 1
    /\ UNCHANGED <<pipelineVars, subs, call, connVars, draining, shutdownVars>>

AfterReadError_GivesUp == "ended"
AfterReadError == IF Closed \/ cancelled THEN "ended" ELSE "waiting"

LastRead == failedReads[conn] + 1 >= PanicAfter

ReadError ==
    /\ conn \notin up
    /\ failedReads' = [failedReads EXCEPT ![conn] = @ + 1]
    /\ Supervisor("reading", IF LastRead THEN "panicked" ELSE AfterReadError, {})
    /\ UNCHANGED <<pipelineVars, subs, call, conn, made, up, wire, queue, draining, shutdownVars>>

WaitOver ==
    /\ Supervisor("waiting", "login", {})
    /\ UNCHANGED <<pipelineVars, subs, call, connVars, queue, draining, shutdownVars>>

WaitCancelled ==
    /\ cancelled
    /\ Supervisor("waiting", "ended", {})
    /\ UNCHANGED <<pipelineVars, subs, call, connVars, queue, draining, shutdownVars>>

RedialFails_EndsLoop ==
    /\ Supervisor("login", "ended", {})
    /\ UNCHANGED <<pipelineVars, subs, call, connVars, queue, draining, shutdownVars>>

(* A login or a dial that fails: the loop reads the old connection, gets   *)
(* its error at once and waits again.                                      *)
RedialFails ==
    /\ Supervisor("login", "reading", {})
    /\ UNCHANGED <<pipelineVars, subs, call, connVars, queue, draining, shutdownVars>>

Redial ==
    /\ ~cancelled /\ made < MaxConns
    /\ Supervisor("login", "dialled", {})
    /\ made' = made + 1
    /\ up' = up \cup {made + 1}
    /\ UNCHANGED <<pipelineVars, subs, call, conn, wire, failedReads, queue, draining, shutdownVars>>

StoreConn ==
    /\ Supervisor("dialled", "stored", {})
    /\ conn' = made
    /\ UNCHANGED <<pipelineVars, subs, call, made, up, wire, failedReads, queue, draining, shutdownVars>>

Resubscription_OfLastConnection == wire[conn - 1]
Resubscription == subs

ResubscribeRead ==
    /\ Supervisor("stored", IF Resubscription = {} THEN "reading" ELSE "resubscribe", Resubscription)
    /\ UNCHANGED <<pipelineVars, subs, call, connVars, queue, draining, shutdownVars>>

ResubscribeWrite ==
    /\ Supervisor("resubscribe", "reading", {})
    /\ wire' = Written(conn, sup.batch)
    /\ UNCHANGED <<pipelineVars, subs, call, conn, made, up, failedReads, queue, draining, shutdownVars>>
-----------------------------------------------------------------------------
(* The network, the pipeline's loop and the shutdown.                      *)

Drop(k) ==
    /\ k \in up /\ k < MaxConns
    /\ up' = up \ {k}
    /\ UNCHANGED <<pipelineVars, subs, call, conn, made, wire, failedReads, sup, queue, draining, shutdownVars>>

TakeTick ==
    /\ draining /\ queue > 0
    /\ queue' = queue - 1
    /\ UNCHANGED <<pipelineVars, subs, call, connVars, sup, draining, shutdownVars>>

RunEnds ==
    /\ draining
    /\ cancelled \/ (queue = 0 /\ TicksClosed)
    /\ draining' = FALSE
    /\ UNCHANGED <<pipelineVars, subs, call, connVars, sup, queue, shutdownVars>>

Cancel ==
    /\ ~cancelled
    /\ cancelled' = TRUE
    /\ UNCHANGED <<pipelineVars, subs, call, connVars, sup, queue, draining, closing>>

CloseSet ==
    /\ cancelled /\ closing = "no"
    /\ closing' = "set"
    /\ UNCHANGED <<pipelineVars, subs, call, connVars, sup, queue, draining, cancelled>>

CloseConn ==
    /\ closing = "set"
    /\ up' = up \ {conn}
    /\ closing' = "done"
    /\ UNCHANGED <<pipelineVars, subs, call, conn, made, wire, failedReads, sup, queue, draining, cancelled>>

(* A panic in the supervisor ends the whole process.                       *)
Step(c) == ~Panicked /\ (FeedSubscribe(c) \/ FeedRefuses(c) \/ LoadConn(c) \/ WriteFrame(c))

Supervise ==
    \/ ReadTick \/ PutTick \/ ReadError
    \/ WaitOver \/ WaitCancelled \/ RedialFails \/ Redial \/ StoreConn
    \/ ResubscribeRead \/ ResubscribeWrite

Run == ~Panicked /\ (TakeTick \/ RunEnds)
Shutdown == ~Panicked /\ (Cancel \/ CloseSet \/ CloseConn)

Next ==
    \/ \E c \in Callers : Step(c) \/ \E symbols \in SUBSET Symbols : PipelineSubscribe(c, symbols)
    \/ Supervise \/ Run \/ Shutdown
    \/ \E k \in Conns : Drop(k)

Spec == Init /\ [][Next]_vars

(* The goroutines go on; nothing makes a login succeed.                    *)
Fairness ==
    /\ WF_vars(Supervise) /\ WF_vars(Run)
    /\ \A c \in Callers : WF_vars(Step(c))

FairSpec == Spec /\ Fairness
-----------------------------------------------------------------------------
(* Properties                                                              *)

CallAt == {"idle", "marked", "frame", "write"}
SupAt == {"reading", "tick", "waiting", "login", "dialled", "stored", "resubscribe", "ended", "panicked"}

(* Every variable has its type; only symbols with an instrument are marked *)
(* in the feed.                                                            *)
TypeOK ==
    /\ subscribed \subseteq Symbols /\ refused \subseteq Symbols /\ subs \subseteq Known
    /\ call \in [Callers -> [at : CallAt, batch : SUBSET Symbols, to : 0 .. MaxConns]]
    /\ conn \in Conns /\ made \in Conns /\ up \subseteq Conns
    /\ wire \in [Conns -> SUBSET Known] /\ failedReads \in [Conns -> Nat]
    /\ sup \in [at : SupAt, batch : SUBSET Known]
    /\ queue \in 0 .. Capacity
    /\ draining \in BOOLEAN /\ cancelled \in BOOLEAN
    /\ closing \in {"no", "set", "done"}

(* While the read loop is on an open connection and no call is in flight,  *)
(* the broker was asked on this very connection for every symbol the       *)
(* pipeline takes as subscribed, except those of a request the feed        *)
(* refused: a subscription that falls into the gap of a reconnect, or that *)
(* was written to the connection before, is not lost (ws.go Subscribe:     *)
(* "the symbol is already in f.subs and resubscribeAll replays it").       *)
SubscriptionsReachBroker ==
    sup.at \in {"reading", "tick"} /\ conn \in up /\ (\A c \in Callers : call[c] = NoCall)
        => subscribed \ refused \subseteq wire[conn]

(* The tick channel is closed, and the pipeline's loop ends, only in a     *)
(* shutdown.  Drops and failed logins end the feed, and the process with   *)
(* it, exactly when as many reads of one connection have failed as the     *)
(* library allows, never before (ws.go WSFeed: "instead of dying           *)
(* permanently on the first transient error").                             *)
AliveUntilShutdown ==
    /\ TicksClosed \/ ~draining => cancelled
    /\ Panicked => failedReads[conn] = PanicAfter
    /\ ~Panicked => \A k \in Conns : failedReads[k] < PanicAfter

(* A connection that broke is replaced, unless the engine shuts down or    *)
(* logins fail until the reads of it are used up: neither a full channel   *)
(* nor a failed login keeps the supervisor for good.                       *)
Reconnects == \A k \in Conns : (conn = k /\ k \notin up) ~> (conn # k \/ cancelled \/ Panicked)
===============================================================================
