------------------------------ MODULE Feed_proofs ------------------------------
(***************************************************************************)
(* Proofs about Feed, for any symbols, any number of callers and any       *)
(* number of connections:                                                  *)
(*   - every variable keeps its type;                                      *)
(*   - no subscription is lost between the connections;                    *)
(*   - the feed and the pipeline's loop end only in a shutdown, or when    *)
(*     the reads of one connection are used up.                            *)
(* SubscriptionsReachBroker speaks of quiet moments only.  FeedInv says,   *)
(* for every moment, who still owes the broker a symbol the feed marked:   *)
(* a caller whose frame will go to the connection in use, the supervisor   *)
(* whose replay has read the marks, or a reconnect that has yet to begin   *)
(* or to read them.                                                        *)
(***************************************************************************)
EXTENDS Feed, TLAPS

(* A caller will write s to the connection in use.                         *)
InFlight(s) ==
    \E c \in Callers :
        /\ s \in call[c].batch
        /\ call[c].at = "frame" \/ (call[c].at = "write" /\ call[c].to = conn)

Covered(s) ==
    \/ sup.at \in {"waiting", "login", "dialled", "stored", "ended", "panicked"}
    \/ conn \notin up
    \/ s \in wire[conn]
    \/ InFlight(s)
    \/ sup.at = "resubscribe" /\ s \in sup.batch

Marked(s) == \E c \in Callers : call[c].at = "marked" /\ s \in call[c].batch

(* What is on its way to the broker is marked in the feed.                 *)
BatchInv == \A c \in Callers : call[c].at \in {"frame", "write"} => call[c].batch \subseteq subs

(* A connection newer than conn exists only while it waits to be stored,   *)
(* and a reconnect begins only after the connection in use broke.          *)
ConnInv ==
    /\ made = IF sup.at = "dialled" THEN conn + 1 ELSE conn
    /\ up \subseteq 1 .. made
    /\ sup.at \in {"waiting", "login", "dialled"} => conn \notin up

MarksInv == \A s \in subscribed \ refused : s \in subs \/ Marked(s)

WireInv == \A s \in subs \ refused : Covered(s)

FeedInv == TypeOK /\ BatchInv /\ ConnInv /\ MarksInv /\ WireInv

CallType == [at : CallAt, batch : SUBSET Symbols, to : 0 .. MaxConns]
-----------------------------------------------------------------------------
(* Types                                                                   *)

(* A step of a caller, as the new value of its record.                     *)
LEMMA CallStep ==
    ASSUME TypeOK, NEW c \in Callers, NEW v \in CallType, call' = [call EXCEPT ![c] = v]
    PROVE  /\ call' \in [Callers -> CallType]
           /\ call'[c] = v
           /\ \A d \in Callers \ {c} : call'[d] = call[d]
  BY DEF TypeOK, CallType

(* The new value of the record, in the action that sets it.                *)
LEMMA CallOf ==
    ASSUME TypeOK, NEW c \in Callers
    PROVE  /\ FeedSubscribe(c) => call' = [call EXCEPT ![c] = IF call[c].batch \subseteq subs THEN NoCall
                    ELSE [at |-> "frame", batch |-> call[c].batch \ subs, to |-> 0]]
           /\ FeedRefuses(c) => call' = [call EXCEPT ![c] = NoCall]
           /\ LoadConn(c) => call' = [call EXCEPT ![c] = [at |-> "write", batch |-> call[c].batch, to |-> conn]]
           /\ WriteFrame(c) => call' = [call EXCEPT ![c] = NoCall]
           /\ NoCall \in CallType /\ call[c] \in CallType
  <1>1. FeedSubscribe(c) => call' = [call EXCEPT ![c] = IF call[c].batch \subseteq subs THEN NoCall
                    ELSE [at |-> "frame", batch |-> call[c].batch \ subs, to |-> 0]]
    <2>1. call[c].batch \ subs = {} <=> call[c].batch \subseteq subs
      OBVIOUS
    <2>2. QED BY <2>1, Zenon DEF FeedSubscribe
  <1>2. LoadConn(c) => call' = [call EXCEPT ![c] = [at |-> "write", batch |-> call[c].batch, to |-> conn]]
    BY Zenon DEF LoadConn
  <1>3. NoCall \in CallType /\ call[c] \in CallType
    BY FeedAssumption DEF NoCall, CallType, CallAt, TypeOK
  <1>4. QED BY <1>1, <1>2, <1>3 DEF FeedRefuses, WriteFrame

(* Every variable keeps its type.  That only symbols with an instrument    *)
(* reach the broker needs BatchInv: a caller's batch passes the feed.      *)
LEMMA TypedStep == ASSUME TypeOK, BatchInv, [Next]_vars PROVE TypeOK' /\ BatchInv'
<1> USE FeedAssumption
<1>1. ASSUME NEW c \in Callers, NEW symbols \in SUBSET Symbols, PipelineSubscribe(c, symbols)
      PROVE TypeOK' /\ BatchInv'
  <2>1. CASE symbols \ subscribed = {}
    BY <1>1, <2>1 DEF PipelineSubscribe, TypeOK, BatchInv, connVars, shutdownVars
  <2>2. CASE symbols \ subscribed # {}
    <3> DEFINE v == [at |-> "marked", batch |-> symbols \ subscribed, to |-> 0]
    <3>1. v \in CallType /\ v.at = "marked"
      BY DEF CallType, CallAt
    <3>2. call' = [call EXCEPT ![c] = v]
      BY <1>1, <2>2 DEF PipelineSubscribe
    <3> HIDE DEF v
    <3>3. QED BY <1>1, <3>1, <3>2, CallStep DEF PipelineSubscribe, TypeOK, CallType, BatchInv, connVars, shutdownVars
  <2>3. QED BY <2>1, <2>2
<1>2. ASSUME NEW c \in Callers, FeedSubscribe(c) PROVE TypeOK' /\ BatchInv'
  <2> DEFINE v == IF call[c].batch \subseteq subs THEN NoCall
                  ELSE [at |-> "frame", batch |-> call[c].batch \ subs, to |-> 0]
  <2>1. v \in CallType /\ v.batch \subseteq subs \cup (call[c].batch \ subs)
    BY CallOf DEF CallType, CallAt, NoCall
  <2>2. call' = [call EXCEPT ![c] = v]
    BY <1>2, CallOf, Zenon
  <2>3. subs' = subs \cup (call[c].batch \ subs) /\ subs' \subseteq Known
    BY <1>2 DEF FeedSubscribe, TypeOK
  <2> HIDE DEF v
  <2>4. BatchInv'
    BY <2>1, <2>2, <2>3, CallStep DEF BatchInv
  <2>5. QED BY <1>2, <2>1, <2>2, <2>3, <2>4, CallStep
            DEF FeedSubscribe, TypeOK, CallType, pipelineVars, connVars, shutdownVars
<1>3. ASSUME NEW c \in Callers, FeedRefuses(c) PROVE TypeOK' /\ BatchInv'
  <2>1. call' = [call EXCEPT ![c] = NoCall] /\ NoCall \in CallType
    BY <1>3, CallOf
  <2>2. PICK before \in SUBSET ((call[c].batch \ subs) \cap Known) : subs' = subs \cup before
    BY <1>3 DEF FeedRefuses
  <2>3. call[c].batch \subseteq Symbols
    BY CallOf DEF CallType
  <2>4. BatchInv'
    BY <2>1, <2>2, CallStep DEF BatchInv, NoCall
  <2>5. QED BY <1>3, <2>1, <2>2, <2>3, <2>4, CallStep DEF FeedRefuses, TypeOK, CallType, connVars, shutdownVars
<1>4. ASSUME NEW c \in Callers, LoadConn(c) PROVE TypeOK' /\ BatchInv'
  <2> DEFINE v == [at |-> "write", batch |-> call[c].batch, to |-> conn]
  <2>1. v \in CallType /\ v.batch = call[c].batch /\ call[c].at = "frame"
    <3>1. call[c].batch \in SUBSET Symbols
      BY CallOf DEF CallType
    <3>2. conn \in 0 .. MaxConns
      BY DEF TypeOK, Conns
    <3>3. QED BY <1>4, <3>1, <3>2 DEF CallType, CallAt, LoadConn
  <2>2. call' = [call EXCEPT ![c] = v]
    BY <1>4, CallOf
  <2> HIDE DEF v
  <2>3. QED BY <1>4, <2>1, <2>2, CallStep
            DEF LoadConn, TypeOK, CallType, BatchInv, pipelineVars, connVars, shutdownVars
<1>5. ASSUME NEW c \in Callers, WriteFrame(c) PROVE TypeOK' /\ BatchInv'
  <2>1. call' = [call EXCEPT ![c] = NoCall] /\ NoCall \in CallType
    BY <1>5, CallOf
  <2>2. call[c].batch \subseteq Known
    BY <1>5 DEF WriteFrame, BatchInv, TypeOK
  <2>3. wire' \in [Conns -> SUBSET Known]
    BY <1>5, <2>2 DEF WriteFrame, Written, TypeOK
  <2>4. BatchInv'
    BY <1>5, <2>1, CallStep DEF WriteFrame, BatchInv, NoCall
  <2>5. QED BY <1>5, <2>1, <2>3, <2>4, CallStep DEF WriteFrame, TypeOK, CallType, pipelineVars, shutdownVars
<1>6. CASE Supervise
  <2>0. ASSUME UNCHANGED <<subs, call>> PROVE BatchInv'
    BY <2>0 DEF BatchInv
  <2> USE DEF TypeOK, Supervisor, SupAt, pipelineVars, connVars, shutdownVars
  <2>1. CASE ReadTick        BY <2>0, <2>1 DEF ReadTick
  <2>2. CASE PutTick         BY <2>0, <2>2 DEF PutTick
  <2>3. CASE ReadError       BY <2>0, <2>3 DEF ReadError, AfterReadError, Conns
  <2>4. CASE WaitOver        BY <2>0, <2>4 DEF WaitOver
  <2>5. CASE WaitCancelled   BY <2>0, <2>5 DEF WaitCancelled
  <2>6. CASE RedialFails     BY <2>0, <2>6 DEF RedialFails
  <2>7. CASE Redial          BY <2>0, <2>7 DEF Redial, Conns
  <2>8. CASE StoreConn       BY <2>0, <2>8 DEF StoreConn
  <2>9. CASE ResubscribeRead BY <2>0, <2>9 DEF ResubscribeRead, Resubscription
  <2>10. CASE ResubscribeWrite
    <3>1. wire' \in [Conns -> SUBSET Known]
      BY <2>10 DEF ResubscribeWrite, Written
    <3>2. QED BY <2>0, <2>10, <3>1 DEF ResubscribeWrite
  <2>11. QED BY <1>6, <2>1, <2>2, <2>3, <2>4, <2>5, <2>6, <2>7, <2>8, <2>9, <2>10 DEF Supervise
<1>7. CASE Run \/ Shutdown \/ \E k \in Conns : Drop(k)
  <2>0. ASSUME UNCHANGED <<subs, call>> PROVE BatchInv'
    BY <2>0 DEF BatchInv
  <2> USE DEF TypeOK, pipelineVars, connVars, shutdownVars
  <2>1. CASE TakeTick  BY <2>0, <2>1 DEF TakeTick
  <2>2. CASE RunEnds   BY <2>0, <2>2 DEF RunEnds
  <2>3. CASE Cancel    BY <2>0, <2>3 DEF Cancel
  <2>4. CASE CloseSet  BY <2>0, <2>4 DEF CloseSet
  <2>5. CASE CloseConn BY <2>0, <2>5 DEF CloseConn
  <2>6. ASSUME NEW k \in Conns, Drop(k) PROVE TypeOK' /\ BatchInv'
    BY <2>0, <2>6 DEF Drop
  <2>7. QED BY <1>7, <2>1, <2>2, <2>3, <2>4, <2>5, <2>6 DEF Run, Shutdown
<1>8. CASE UNCHANGED vars
  BY <1>8 DEF vars, pipelineVars, connVars, shutdownVars, TypeOK, BatchInv
<1>9. QED BY <1>1, <1>2, <1>3, <1>4, <1>5, <1>6, <1>7, <1>8 DEF Next, Step
-----------------------------------------------------------------------------
(* Subscriptions                                                           *)

(* While the connections and the supervisor stay, a symbol stays covered   *)
(* if who carries it does.                                                 *)
LEMMA CoveredStays ==
    ASSUME NEW s, Covered(s), UNCHANGED <<sup, connVars>>, InFlight(s) => InFlight(s)'
    PROVE  Covered(s)'
  BY DEF Covered, connVars

(* A caller's step: what it does not carry itself stays as it was.         *)
LEMMA OthersStay ==
    ASSUME TypeOK, NEW c \in Callers, NEW v \in CallType, call' = [call EXCEPT ![c] = v],
           conn' = conn, NEW s
    PROVE  /\ (InFlight(s) /\ s \notin call[c].batch) => InFlight(s)'
           /\ (InFlight(s) /\ call[c].at \notin {"frame", "write"}) => InFlight(s)'
           /\ (Marked(s) /\ s \notin call[c].batch) => Marked(s)'
           /\ (Marked(s) /\ call[c].at # "marked") => Marked(s)'
  <1>1. call' \in [Callers -> CallType] /\ call'[c] = v /\ \A d \in Callers \ {c} : call'[d] = call[d]
    BY CallStep
  <1>2. QED BY <1>1 DEF InFlight, Marked

LEMMA MarksStep == ASSUME FeedInv, [Next]_vars PROVE MarksInv'
<1> USE DEF FeedInv
<1>0. ASSUME UNCHANGED <<subscribed, refused, subs, call>> PROVE MarksInv'
  BY <1>0 DEF MarksInv, Marked
<1>1. ASSUME NEW c \in Callers, NEW symbols \in SUBSET Symbols, PipelineSubscribe(c, symbols)
      PROVE MarksInv'
  <2>1. CASE symbols \ subscribed = {}
    BY <1>1, <2>1, <1>0 DEF PipelineSubscribe
  <2>2. CASE symbols \ subscribed # {}
    <3> DEFINE v == [at |-> "marked", batch |-> symbols \ subscribed, to |-> 0]
    <3>1. v \in CallType /\ v.at = "marked" /\ v.batch = symbols \ subscribed
      BY FeedAssumption DEF CallType, CallAt
    <3>2. call' = [call EXCEPT ![c] = v] /\ conn' = conn /\ call[c].at = "idle"
      BY <1>1, <2>2 DEF PipelineSubscribe, connVars, NoCall
    <3> HIDE DEF v
    <3>3. \A s \in symbols \ subscribed : Marked(s)'
      BY <3>1, <3>2, CallStep DEF Marked
    <3>4. \A s : Marked(s) => Marked(s)'
      BY <3>1, <3>2, OthersStay
    <3>5. QED BY <1>1, <3>3, <3>4 DEF PipelineSubscribe, MarksInv
  <2>3. QED BY <2>1, <2>2
<1>2. ASSUME NEW c \in Callers, Step(c) PROVE MarksInv'
  <2> DEFINE v == call'[c]
  <2>1. v \in CallType /\ call' = [call EXCEPT ![c] = v] /\ conn' = conn /\ subs \subseteq subs'
    <3>1. TypeOK'
      BY <1>2, TypedStep DEF Next
    <3>2. v \in CallType
      BY <3>1 DEF TypeOK, CallType
    <3>3. \E w : call' = [call EXCEPT ![c] = w]
      BY <1>2, CallOf, Zenon DEF Step
    <3>4. call' = [call EXCEPT ![c] = v]
      BY <3>3 DEF TypeOK
    <3>5. QED BY <1>2, <3>2, <3>4
              DEF Step, FeedSubscribe, FeedRefuses, LoadConn, WriteFrame, connVars
  <2> HIDE DEF v
  <2>2. CASE FeedSubscribe(c)
    <3>1. call[c].batch \subseteq subs' /\ UNCHANGED <<subscribed, refused>>
      BY <2>2 DEF FeedSubscribe, pipelineVars
    <3>2. QED BY <2>1, <3>1, OthersStay DEF MarksInv
  <2>3. CASE FeedRefuses(c)
    <3>1. refused' = refused \cup call[c].batch /\ UNCHANGED subscribed
      BY <2>3 DEF FeedRefuses
    <3>2. QED BY <2>1, <3>1, OthersStay DEF MarksInv
  <2>4. CASE LoadConn(c) \/ WriteFrame(c)
    <3>1. call[c].at # "marked" /\ UNCHANGED <<subscribed, refused>>
      BY <2>4 DEF LoadConn, WriteFrame, pipelineVars
    <3>2. QED BY <2>1, <3>1, OthersStay DEF MarksInv
  <2>5. QED BY <1>2, <2>2, <2>3, <2>4 DEF Step
<1>3. CASE Supervise \/ Run \/ Shutdown \/ (\E k \in Conns : Drop(k)) \/ UNCHANGED vars
  <2>1. UNCHANGED <<subscribed, refused, subs, call>>
    <3> USE DEF pipelineVars
    <3>1. CASE Supervise
      BY <3>1 DEF Supervise, ReadTick, PutTick, ReadError, WaitOver, WaitCancelled, RedialFails,
                  Redial, StoreConn, ResubscribeRead, ResubscribeWrite
    <3>2. CASE Run \/ Shutdown
      BY <3>2 DEF Run, TakeTick, RunEnds, Shutdown, Cancel, CloseSet, CloseConn
    <3>3. CASE (\E k \in Conns : Drop(k)) \/ UNCHANGED vars
      BY <3>3 DEF Drop, vars
    <3>4. QED BY <1>3, <3>1, <3>2, <3>3
  <2>2. QED BY <2>1, <1>0
<1>4. QED BY <1>1, <1>2, <1>3 DEF Next

LEMMA ConnStep == ASSUME FeedInv, [Next]_vars PROVE ConnInv'
<1> USE DEF FeedInv
<1>0. ASSUME UNCHANGED <<sup, conn, made, up>> PROVE ConnInv'
  BY <1>0 DEF ConnInv
<1>1. CASE Supervise
  <2> USE FeedAssumption DEF ConnInv, Supervisor, TypeOK, Conns, SupAt
  <2>1. CASE ReadTick        BY <2>1 DEF ReadTick, connVars
  <2>2. CASE PutTick         BY <2>2 DEF PutTick, connVars
  <2>3. CASE ReadError       BY <2>3 DEF ReadError, AfterReadError, connVars
  <2>4. CASE WaitOver        BY <2>4 DEF WaitOver, connVars
  <2>5. CASE WaitCancelled   BY <2>5 DEF WaitCancelled, connVars
  <2>6. CASE RedialFails     BY <2>6 DEF RedialFails, connVars
  <2>7. CASE Redial          BY <2>7 DEF Redial
  <2>8. CASE StoreConn       BY <2>8 DEF StoreConn
  <2>9. CASE ResubscribeRead BY <2>9 DEF ResubscribeRead, Resubscription, connVars
  <2>10. CASE ResubscribeWrite BY <2>10 DEF ResubscribeWrite
  <2>11. QED BY <1>1, <2>1, <2>2, <2>3, <2>4, <2>5, <2>6, <2>7, <2>8, <2>9, <2>10 DEF Supervise
<1>2. ASSUME NEW k \in Conns, Drop(k) PROVE ConnInv'
  BY <1>2 DEF Drop, ConnInv
<1>3. CASE CloseConn
  BY <1>3 DEF CloseConn, ConnInv
<1>4. ASSUME NEW c \in Callers, Step(c) \/ \E symbols \in SUBSET Symbols : PipelineSubscribe(c, symbols)
      PROVE ConnInv'
  BY <1>0, <1>4 DEF Step, PipelineSubscribe, FeedSubscribe, FeedRefuses, LoadConn, WriteFrame, connVars
<1>5. CASE Run \/ Cancel \/ CloseSet \/ UNCHANGED vars
  BY <1>0, <1>5 DEF Run, TakeTick, RunEnds, Cancel, CloseSet, vars, connVars
<1>6. QED BY <1>1, <1>2, <1>3, <1>4, <1>5 DEF Next, Shutdown

LEMMA WireStep == ASSUME FeedInv, [Next]_vars PROVE WireInv'
<1> USE DEF FeedInv
<1>1. ASSUME NEW c \in Callers, NEW symbols \in SUBSET Symbols, PipelineSubscribe(c, symbols)
      PROVE WireInv'
  <2>1. UNCHANGED <<sup, connVars, subs, refused>> /\ conn' = conn /\ call[c] = NoCall
    BY <1>1 DEF PipelineSubscribe, connVars
  <2>2. \A s : InFlight(s) => InFlight(s)'
    <3>1. CASE symbols \ subscribed = {}
      BY <1>1, <2>1, <3>1 DEF PipelineSubscribe, InFlight
    <3>2. CASE symbols \ subscribed # {}
      <4> DEFINE v == [at |-> "marked", batch |-> symbols \ subscribed, to |-> 0]
      <4>1. v \in CallType
        BY FeedAssumption DEF CallType, CallAt
      <4>2. call' = [call EXCEPT ![c] = v]
        BY <1>1, <3>2 DEF PipelineSubscribe
      <4>3. call[c].at \notin {"frame", "write"}
        BY <2>1 DEF NoCall
      <4> HIDE DEF v
      <4>4. QED BY <2>1, <4>1, <4>2, <4>3, OthersStay
    <3>3. QED BY <3>1, <3>2
  <2>3. \A s : Covered(s) => Covered(s)'
    BY <2>1, <2>2, CoveredStays
  <2>4. QED BY <2>1, <2>3 DEF WireInv
<1>2. ASSUME NEW c \in Callers, FeedSubscribe(c) PROVE WireInv'
  <2> DEFINE v == IF call[c].batch \subseteq subs THEN NoCall
                  ELSE [at |-> "frame", batch |-> call[c].batch \ subs, to |-> 0]
  <2>1. call' = [call EXCEPT ![c] = v]
    BY <1>2, CallOf, Zenon
  <2>2. v \in CallType
    BY FeedAssumption, CallOf DEF CallType, CallAt, NoCall
  <2>3. \A s \in call[c].batch \ subs : s \in v.batch /\ v.at = "frame"
    OBVIOUS
  <2>4. /\ UNCHANGED <<sup, connVars, refused>> /\ conn' = conn
        /\ subs' = subs \cup (call[c].batch \ subs) /\ call[c].at = "marked"
    BY <1>2 DEF FeedSubscribe, connVars, pipelineVars
  <2> HIDE DEF v
  <2>5. \A s : InFlight(s) => InFlight(s)'
    BY <2>1, <2>2, <2>4, OthersStay
  <2>6. \A s : Covered(s) => Covered(s)'
    BY <2>4, <2>5, CoveredStays
  <2>7. \A s \in call[c].batch \ subs : InFlight(s)'
    BY <2>1, <2>2, <2>3, CallStep DEF InFlight
  <2>8. \A s \in call[c].batch \ subs : Covered(s)'
    BY <2>7 DEF Covered
  <2>9. QED BY <2>4, <2>6, <2>8 DEF WireInv
<1>3. ASSUME NEW c \in Callers, FeedRefuses(c) PROVE WireInv'
  <2>1. call' = [call EXCEPT ![c] = NoCall] /\ NoCall \in CallType
    BY <1>3, CallOf
  <2>2. /\ UNCHANGED <<sup, connVars>> /\ conn' = conn /\ call[c].at = "marked"
        /\ subs' \subseteq subs \cup call[c].batch /\ refused' = refused \cup call[c].batch
    BY <1>3 DEF FeedRefuses, connVars
  <2>3. \A s : InFlight(s) => InFlight(s)'
    BY <2>1, <2>2, OthersStay
  <2>4. \A s : Covered(s) => Covered(s)'
    BY <2>2, <2>3, CoveredStays
  <2>5. QED BY <2>2, <2>4 DEF WireInv
<1>4. ASSUME NEW c \in Callers, LoadConn(c) PROVE WireInv'
  <2> DEFINE v == [at |-> "write", batch |-> call[c].batch, to |-> conn]
  <2>1. call' = [call EXCEPT ![c] = v]
    BY <1>4, CallOf
  <2>2. UNCHANGED <<sup, connVars, refused, subs>> /\ conn' = conn
    BY <1>4 DEF LoadConn, connVars, pipelineVars
  <2>3. v \in CallType
    <3>1. conn \in 0 .. MaxConns /\ call[c].batch \in SUBSET Symbols
      BY FeedAssumption, CallOf DEF TypeOK, Conns, CallType
    <3>2. QED BY <3>1 DEF CallType, CallAt
  <2>4. v.at = "write" /\ v.to = conn /\ v.batch = call[c].batch
    OBVIOUS
  <2> HIDE DEF v
  <2>5. \A s \in call[c].batch : InFlight(s)'
    BY <2>1, <2>2, <2>3, <2>4, CallStep DEF InFlight
  <2>6. \A s : InFlight(s) => InFlight(s)'
    BY <2>1, <2>2, <2>3, <2>5, OthersStay
  <2>7. \A s : Covered(s) => Covered(s)'
    BY <2>2, <2>6, CoveredStays
  <2>8. QED BY <2>2, <2>7 DEF WireInv
<1>5. ASSUME NEW c \in Callers, WriteFrame(c) PROVE WireInv'
  <2>1. call' = [call EXCEPT ![c] = NoCall] /\ NoCall \in CallType
    BY <1>5, CallOf
  <2>2. UNCHANGED <<sup, conn, up, refused, subs>> /\ call[c].at = "write"
    BY <1>5 DEF WriteFrame, pipelineVars
  <2>3. wire' = IF call[c].to \in up THEN [wire EXCEPT ![call[c].to] = @ \cup call[c].batch] ELSE wire
    BY <1>5 DEF WriteFrame, Written
  <2>4. wire[conn] \subseteq wire'[conn]
    BY <2>3 DEF TypeOK
  <2>5. call[c].to = conn /\ conn \in up => call[c].batch \subseteq wire'[conn]
    BY <2>3 DEF TypeOK
  <2>6. ASSUME NEW s, Covered(s) PROVE Covered(s)'
    <3>1. CASE InFlight(s) /\ conn \in up /\ s \notin wire'[conn]
      <4>1. PICK d \in Callers : s \in call[d].batch
                 /\ (call[d].at = "frame" \/ (call[d].at = "write" /\ call[d].to = conn))
        BY <3>1 DEF InFlight
      <4>2. d # c
        BY <2>2, <2>5, <3>1, <4>1
      <4>3. call'[d] = call[d]
        BY <2>1, <4>2, CallStep
      <4>4. InFlight(s)'
        BY <2>2, <4>1, <4>3 DEF InFlight
      <4>5. QED BY <4>4 DEF Covered
    <3>2. CASE ~(InFlight(s) /\ conn \in up /\ s \notin wire'[conn])
      BY <2>2, <2>4, <2>6, <3>2 DEF Covered
    <3>3. QED BY <3>1, <3>2
  <2>7. QED BY <2>2, <2>6 DEF WireInv
<1>6. CASE Supervise
  <2>0. UNCHANGED <<refused, subs, call>>
    BY <1>6 DEF Supervise, ReadTick, PutTick, ReadError, WaitOver, WaitCancelled, RedialFails,
                Redial, StoreConn, ResubscribeRead, ResubscribeWrite, pipelineVars
  <2>1. CASE sup'.at \in {"waiting", "login", "dialled", "stored", "ended", "panicked"}
    BY <2>1 DEF WireInv, Covered
  <2>2. CASE ReadTick \/ PutTick
    <3>1. UNCHANGED connVars /\ sup.at \in {"reading", "tick"}
      BY <2>2 DEF ReadTick, PutTick, Supervisor
    <3>2. \A s : Covered(s) => Covered(s)'
      BY <2>0, <3>1 DEF Covered, InFlight, connVars
    <3>3. QED BY <2>0, <3>2 DEF WireInv
  <2>3. CASE RedialFails
    BY <2>3 DEF RedialFails, Supervisor, ConnInv, WireInv, Covered, connVars
  <2>4. CASE ResubscribeRead
    <3>1. subs' = {} \/ (sup'.at = "resubscribe" /\ sup'.batch = subs')
      BY <2>4 DEF ResubscribeRead, Resubscription, Supervisor
    <3>2. QED BY <3>1 DEF WireInv, Covered
  <2>5. CASE ResubscribeWrite
    <3>1. UNCHANGED <<conn, up>> /\ sup.at = "resubscribe"
      BY <2>5 DEF ResubscribeWrite, Supervisor
    <3>2. wire' = IF conn \in up THEN [wire EXCEPT ![conn] = @ \cup sup.batch] ELSE wire
      BY <2>5 DEF ResubscribeWrite, Written
    <3>3. conn \in up => wire'[conn] = wire[conn] \cup sup.batch
      BY <3>2 DEF TypeOK
    <3>4. \A s : Covered(s) => Covered(s)'
      BY <2>0, <3>1, <3>3 DEF Covered, InFlight
    <3>5. QED BY <2>0, <3>4 DEF WireInv
  <2>6. CASE ReadError \/ WaitOver \/ WaitCancelled \/ Redial \/ StoreConn
    <3>1. sup'.at \in {"waiting", "login", "dialled", "stored", "ended", "panicked"}
      BY <2>6 DEF ReadError, AfterReadError, WaitOver, WaitCancelled, Redial, StoreConn, Supervisor
    <3>2. QED BY <2>1, <3>1
  <2>7. QED BY <1>6, <2>2, <2>3, <2>4, <2>5, <2>6 DEF Supervise
<1>7. CASE Run \/ Shutdown \/ (\E k \in Conns : Drop(k)) \/ UNCHANGED vars
  <2>1. UNCHANGED <<refused, subs, call, sup, conn, wire>> /\ up' \subseteq up
    <3>1. CASE Run \/ Shutdown
      BY <3>1 DEF Run, TakeTick, RunEnds, Shutdown, Cancel, CloseSet, CloseConn, pipelineVars, connVars
    <3>2. CASE (\E k \in Conns : Drop(k)) \/ UNCHANGED vars
      BY <3>2 DEF Drop, vars, pipelineVars, connVars
    <3>3. QED BY <1>7, <3>1, <3>2
  <2>2. \A s : Covered(s) => Covered(s)'
    BY <2>1 DEF Covered, InFlight
  <2>3. QED BY <2>1, <2>2 DEF WireInv
<1>8. QED BY <1>1, <1>2, <1>3, <1>4, <1>5, <1>6, <1>7 DEF Next, Step

LEMMA InitFeedInv == Init => FeedInv
<1> SUFFICES ASSUME Init PROVE FeedInv
  OBVIOUS
<1> USE FeedAssumption DEF Init
<1>1. TypeOK
  <2>1. NoCall \in [at : CallAt, batch : SUBSET Symbols, to : 0 .. MaxConns]
    BY DEF NoCall, CallAt
  <2>2. Reading \in [at : SupAt, batch : SUBSET Known]
    BY DEF Reading, SupAt
  <2>3. 0 \in 0 .. Capacity
    OBVIOUS
  <2>4. call \in [Callers -> [at : CallAt, batch : SUBSET Symbols, to : 0 .. MaxConns]]
    BY <2>1
  <2>5. conn \in Conns /\ made \in Conns /\ up \subseteq Conns
    BY DEF Conns
  <2>6. QED BY <2>2, <2>3, <2>4, <2>5 DEF TypeOK
<1>2. BatchInv /\ ConnInv /\ MarksInv /\ WireInv
  BY DEF BatchInv, NoCall, ConnInv, Reading, MarksInv, WireInv
<1>3. QED BY <1>1, <1>2 DEF FeedInv

(* In every reachable state of the feed (ws.go): somebody still owes the   *)
(* broker each symbol that was marked and not sent.                        *)
THEOREM FeedInvariant == Spec => []FeedInv
  <1>1. FeedInv /\ [Next]_vars => FeedInv'
    BY TypedStep, MarksStep, ConnStep, WireStep DEF FeedInv
  <1>2. QED BY <1>1, InitFeedInv, PTL DEF Spec

(* Typed: every variable has its type, and only symbols with an instrument *)
(* are marked in the feed or asked for on a connection.                    *)
THEOREM Typed == Spec => []TypeOK
  BY FeedInvariant, PTL DEF FeedInv

(* No subscription is lost between the connections: in a quiet moment the  *)
(* broker was asked, on the connection in use, for all the pipeline takes  *)
(* as subscribed, except what the feed refused.                            *)
THEOREM SubscriptionsReach == Spec => []SubscriptionsReachBroker
  <1>1. FeedInv => SubscriptionsReachBroker
    <2> SUFFICES ASSUME FeedInv, sup.at \in {"reading", "tick"}, conn \in up,
                        \A c \in Callers : call[c] = NoCall, NEW s \in subscribed \ refused
                 PROVE  s \in wire[conn]
      BY DEF SubscriptionsReachBroker
    <2>1. ~Marked(s) /\ ~InFlight(s)
      BY DEF Marked, InFlight, NoCall
    <2>2. s \in subs
      BY <2>1 DEF FeedInv, MarksInv
    <2>3. QED BY <2>1, <2>2 DEF FeedInv, WireInv, Covered
  <1>2. QED BY <1>1, FeedInvariant, PTL
-----------------------------------------------------------------------------
(* The end of the feed.  closed is stored only after the life context was  *)
(* cancelled, so either test of the supervisor is one of a shutdown.       *)
EndInv == AliveUntilShutdown /\ (Closed => cancelled)

(* A failed read is either the last of its connection, or one more of those *)
(* that are left.                                                          *)
LEMMA ReadsCounted ==
    ASSUME EndInv, TypeOK, ReadError
    PROVE  EndInv'
  <1>1. /\ failedReads' = [failedReads EXCEPT ![conn] = failedReads[conn] + 1] /\ conn' = conn
        /\ sup.at = "reading" /\ ~Panicked
        /\ sup'.at = IF LastRead THEN "panicked" ELSE AfterReadError
        /\ UNCHANGED <<draining, cancelled, closing>>
    BY DEF ReadError, Supervisor, Panicked, shutdownVars
  <1>2. conn \in Conns /\ failedReads \in [Conns -> Nat] /\ failedReads[conn] \in Nat
    BY DEF TypeOK
  <1>3. failedReads'[conn] = failedReads[conn] + 1 /\ \A k \in Conns \ {conn} : failedReads'[k] = failedReads[k]
    BY <1>1, <1>2
  <1>4. failedReads[conn] < PanicAfter /\ \A k \in Conns : failedReads[k] < PanicAfter
    BY <1>1, <1>2 DEF EndInv, AliveUntilShutdown
  <1>5. CASE LastRead
    <2>1. sup'.at = "panicked" /\ failedReads'[conn] = PanicAfter
      BY <1>1, <1>2, <1>3, <1>4, <1>5, FeedAssumption DEF LastRead
    <2>2. QED BY <1>1, <2>1 DEF EndInv, AliveUntilShutdown, TicksClosed, Panicked, Closed
  <1>6. CASE ~LastRead
    <2>1. failedReads'[conn] < PanicAfter
      BY <1>2, <1>3, <1>6, FeedAssumption DEF LastRead
    <2>2. \A k \in Conns : failedReads'[k] < PanicAfter
      BY <1>3, <1>4, <2>1
    <2>3. sup'.at \in {"waiting", "ended"} /\ (sup'.at = "ended" => cancelled)
      BY <1>1, <1>6 DEF AfterReadError, EndInv
    <2>4. QED BY <1>1, <2>2, <2>3 DEF EndInv, AliveUntilShutdown, TicksClosed, Panicked, Closed
  <1>7. QED BY <1>5, <1>6

(* The tick channel is closed, and the pipeline's loop ends, only in a     *)
(* shutdown; the process panics exactly when the reads of the connection   *)
(* in use are used up.                                                     *)
THEOREM AliveToTheEnd == Spec => []AliveUntilShutdown
  <1>1. Init => EndInv
    <2>1. Init => ~TicksClosed /\ ~Panicked /\ draining /\ ~Closed
      BY DEF Init, TicksClosed, Panicked, Reading, Closed
    <2>2. Init => \A k \in Conns : failedReads[k] < PanicAfter
      BY FeedAssumption DEF Init
    <2>3. QED BY <2>1, <2>2 DEF EndInv, AliveUntilShutdown
  <1>2. EndInv /\ TypeOK /\ [Next]_vars => EndInv'
    <2> SUFFICES ASSUME EndInv, TypeOK, [Next]_vars PROVE EndInv'
      OBVIOUS
    <2> USE DEF EndInv, AliveUntilShutdown, TicksClosed, Panicked, Closed
    <2>1. CASE Supervise /\ ~ReadError
      <3>1. sup'.at = "ended" => cancelled
        BY <2>1 DEF Supervise, ReadTick, PutTick, WaitOver, WaitCancelled,
             RedialFails, Redial, StoreConn, ResubscribeRead, ResubscribeWrite, Supervisor
      <3>2. sup.at # "panicked" /\ sup'.at # "panicked" /\ UNCHANGED <<failedReads, draining, cancelled, closing>>
        BY <2>1 DEF Supervise, ReadTick, PutTick, WaitOver, WaitCancelled, RedialFails, Redial,
             StoreConn, ResubscribeRead, ResubscribeWrite, Supervisor, shutdownVars, connVars
      <3>3. QED BY <3>1, <3>2
    <2>2. CASE Run
      BY <2>2 DEF Run, TakeTick, RunEnds, shutdownVars, connVars
    <2>3. CASE Shutdown
      BY <2>3 DEF Shutdown, Cancel, CloseSet, CloseConn, connVars
    <2>4. ASSUME NEW c \in Callers, Step(c) \/ \E symbols \in SUBSET Symbols : PipelineSubscribe(c, symbols)
          PROVE EndInv'
      BY <2>4 DEF Step, PipelineSubscribe, FeedSubscribe, FeedRefuses, LoadConn, WriteFrame, shutdownVars, connVars
    <2>5. CASE (\E k \in Conns : Drop(k)) \/ UNCHANGED vars
      BY <2>5 DEF Drop, vars, shutdownVars, connVars
    <2>6. QED BY <2>1, <2>2, <2>3, <2>4, <2>5, ReadsCounted DEF Next
  <1>3. EndInv => AliveUntilShutdown
    BY DEF EndInv
  <1>4. QED BY <1>1, <1>2, <1>3, Typed, PTL DEF Spec
===============================================================================
