--------------------------- MODULE MsgQueueProofs ---------------------------
(***************************************************************************)
(* Proofs about MsgQueue for any set of requests, any range of request ids *)
(* and any number of retries: type correctness, OneCallbackOwner,          *)
(* NoLeftOvers, BoundedReports, that the engine implements RequestService, *)
(* and OwnAnswer as long as the ids do not go round.                       *)
(***************************************************************************)
EXTENDS MsgQueue, FiniteSetTheorems, TLAPS

USE RequestsAssumption, NumbersAssumption

\* A free slot, a new message and the updates of a message are messages.
LEMMA MsgTypes ==
  /\ NoMsg \in Msg
  /\ \A r \in Req, n \in 0..2 : NewMsg(r, n) \in Msg
  /\ \A m \in Msg, k \in Kind \cup {"request"}, b \in BOOLEAN :
       [m EXCEPT !.type = k, !.received = b, !.callback = FALSE, !.locked = TRUE] \in Msg
  /\ \A m \in Msg, k \in Kind :
       [m EXCEPT !.type = k, !.received = TRUE] \in Msg
  /\ \A m \in Msg, t \in Int : [m EXCEPT !.ttl = t] \in Msg
  /\ \A m \in Msg, n \in 0..Retries, t \in Int :
       [m EXCEPT !.retry = n, !.ttl = t] \in Msg
<1>1. NoMsg \in Msg
  BY DEF Msg, NoMsg, Kind
<1>2. ASSUME NEW r \in Req, NEW n \in 0..2 PROVE NewMsg(r, n) \in Msg
  <2>1. (r \notin SyncReq) \in BOOLEAN
    OBVIOUS
  <2>2. QED
    BY <2>1 DEF Msg, NewMsg, Kind
<1>3. ASSUME NEW m \in Msg, NEW k \in Kind \cup {"request"}, NEW b \in BOOLEAN
      PROVE [m EXCEPT !.type = k, !.received = b, !.callback = FALSE, !.locked = TRUE] \in Msg
  BY DEF Msg
<1>4. ASSUME NEW m \in Msg, NEW k \in Kind
      PROVE [m EXCEPT !.type = k, !.received = TRUE] \in Msg
  BY DEF Msg
<1>5. ASSUME NEW m \in Msg, NEW t \in Int PROVE [m EXCEPT !.ttl = t] \in Msg
  BY DEF Msg
<1>6. ASSUME NEW m \in Msg, NEW n \in 0..Retries, NEW t \in Int
      PROVE [m EXCEPT !.retry = n, !.ttl = t] \in Msg
  BY DEF Msg
<1>7. QED
  BY <1>1, <1>2, <1>3, <1>4, <1>5, <1>6

\* snmp_engine keeps the types, given that its caller leaves a queue.
LEMMA EngineTypes ==
  ASSUME TypeOK, NEW id \in Rid, NEW r \in Req, NEW n \in 0..2,
         NEW found, NEW base \in [Rid -> Msg],
         \/ EngineSends(id, r, n, found, base)
         \/ EngineFails(id, r, found, base)
  PROVE  /\ queue' \in [Rid -> Msg]
         /\ current_rid' \in Rid
         /\ net' \in SUBSET [id : Rid, req : Req]
         /\ attempts' \in [Req -> Nat]
<1>1. NewMsg(r, n) \in Msg
  BY MsgTypes
<1>2. CASE EngineSends(id, r, n, found, base)
  BY <1>1, <1>2 DEF TypeOK, EngineSends, Datagram
<1>3. CASE EngineFails(id, r, found, base)
  BY <1>3 DEF TypeOK, EngineFails
<1>4. QED
  BY <1>2, <1>3

\* Telling an issuer keeps the type of told.
LEMMA TellType ==
  ASSUME TypeOK, NEW r \in Req, NEW o \in {"response", "timeout", "error"},
         Tell(r, o)
  PROVE  told' \in [Req -> Seq({"response", "timeout", "error"})]
BY DEF TypeOK, Tell

\* Marking a message as being called back keeps the type of the queue.
LEMMA InCallbackType ==
  ASSUME TypeOK, NEW id \in Rid, NEW k \in Kind \cup {"request"}
  PROVE  InCallback(id, k) \in [Rid -> Msg]
<1>1. queue[id] \in Msg
  BY DEF TypeOK
<1>2. InCallback(id, k) = [queue EXCEPT ![id] =
        [queue[id] EXCEPT !.type = k, !.received = (k # "request"),
                          !.callback = FALSE, !.locked = TRUE]]
  BY DEF InCallback
<1>3. (k # "request") \in BOOLEAN
  OBVIOUS
<1>4. [queue[id] EXCEPT !.type = k, !.received = (k # "request"),
                        !.callback = FALSE, !.locked = TRUE] \in Msg
  BY <1>1, <1>3, MsgTypes
<1>5. QED
  BY <1>2, <1>4 DEF TypeOK

\* Every step keeps the types.
LEMMA TypeStep == TypeOK /\ [Next]_vars => TypeOK'
<1> SUFFICES ASSUME TypeOK, [Next]_vars PROVE TypeOK'
  OBVIOUS
<1>q. \A id \in Rid : queue[id] \in Msg
  BY DEF TypeOK
<1>n. NoMsg \in Msg /\ \A id \in Rid : [queue EXCEPT ![id] = NoMsg] \in [Rid -> Msg]
  BY MsgTypes DEF TypeOK
<1>p. \A p \in net : p.id \in Rid /\ p.req \in Req
  BY DEF TypeOK
<1>k. \A r : KindsFor(r) \subseteq Kind
  BY DEF KindsFor, Kind
<1>r. \A id \in Rid : Queued(id) => queue[id].req \in Req
  BY <1>q DEF Queued, Msg
<1>t. Timeout \in Int
  OBVIOUS
<1>1. ASSUME NEW r \in Req, NEW id \in Rid, Issue(r, id) PROVE TypeOK'
  <2>1. queue \in [Rid -> Msg]
    BY DEF TypeOK
  <2>2. EngineSends(id, r, 0, queue, queue)
    BY <1>1 DEF Issue
  <2>3. QED
    BY <1>1, <2>1, <2>2, EngineTypes DEF Issue, TypeOK
<1>2. ASSUME NEW r \in Req, NEW id \in Rid, IssueFails(r, id) PROVE TypeOK'
  <2>1. queue \in [Rid -> Msg]
    BY DEF TypeOK
  <2>2. EngineFails(id, r, queue, queue)
    BY <1>2 DEF IssueFails
  <2>3. told' \in [Req -> Seq({"response", "timeout", "error"})]
    BY <1>2, TellType DEF IssueFails
  <2>4. /\ queue' \in [Rid -> Msg]
        /\ current_rid' \in Rid
        /\ net' \in SUBSET [id : Rid, req : Req]
        /\ attempts' \in [Req -> Nat]
    BY <2>1, <2>2, 0 \in 0..2, EngineTypes
  <2>5. QED
    BY <1>2, <2>3, <2>4 DEF IssueFails, TypeOK, threadVars
<1>3. CASE ProcessEvents
  BY <1>3 DEF ProcessEvents, TypeOK, historyVars
<1>4. ASSUME NEW p \in net, NEW k \in KindsFor(p.req), IgnoreAnswer(p, k) PROVE TypeOK'
  BY <1>4 DEF IgnoreAnswer, TypeOK, vars, threadVars, historyVars
<1>5. ASSUME NEW p \in net, NEW k \in KindsFor(p.req), AnswerSync(p, k) PROVE TypeOK'
  <2>1. p.id \in Rid /\ k \in Kind /\ queue[p.id] \in Msg /\ queue[p.id].req \in Req
    BY <1>5, <1>q, <1>p, <1>k, <1>r DEF AnswerSync, Accepts
  <2>2. [queue[p.id] EXCEPT !.type = k, !.received = TRUE] \in Msg
    BY <2>1, MsgTypes
  <2>3. queue' = [queue EXCEPT ![p.id] = [queue[p.id] EXCEPT !.type = k, !.received = TRUE]]
    BY <1>5 DEF AnswerSync
  <2>4. queue' \in [Rid -> Msg]
    BY <2>1, <2>2, <2>3 DEF TypeOK
  <2>5. got' \in [Req -> SUBSET Req]
    BY <1>5, <1>p, <2>1 DEF AnswerSync, Gives, TypeOK
  <2>6. QED
    BY <1>5, <2>4, <2>5 DEF AnswerSync, TypeOK, threadVars
<1>6. ASSUME NEW p \in net, NEW k \in KindsFor(p.req), AnswerAsync(p, k) PROVE TypeOK'
  <2>1. p.id \in Rid /\ k \in Kind /\ queue[p.id].req \in Req
    BY <1>6, <1>p, <1>k, <1>r DEF AnswerAsync, Accepts
  <2>2. queue' \in [Rid -> Msg]
    BY <1>6, <2>1, InCallbackType DEF AnswerAsync
  <2>3. told' \in [Req -> Seq({"response", "timeout", "error"})]
    BY <1>6, <2>1, TellType DEF AnswerAsync
  <2>4. got' \in [Req -> SUBSET Req]
    BY <1>6, <1>p, <2>1 DEF AnswerAsync, Gives, TypeOK
  <2>5. QED
    BY <1>6, <2>1, <2>2, <2>3, <2>4 DEF AnswerAsync, TypeOK
<1>7. ASSUME NEW p \in net, NEW k \in KindsFor(p.req), NEW id \in Rid,
             AnswerHidden(p, k, id)
      PROVE TypeOK'
  <2>1. p.id \in Rid /\ k \in Kind /\ queue[p.id].req \in Req /\ queue[p.id] \in Msg
    BY <1>7, <1>p, <1>k, <1>r, <1>q DEF AnswerHidden, Accepts
  <2>2. queue[p.id].reports + 1 \in 0..2
    BY <1>7, <2>1 DEF AnswerHidden, Hidden, HideAsync, Msg
  <2>3. EngineSends(id, queue[p.id].req, queue[p.id].reports + 1, queue,
                    [queue EXCEPT ![p.id] = NoMsg])
    BY <1>7 DEF AnswerHidden
  <2>4. [queue EXCEPT ![p.id] = NoMsg] \in [Rid -> Msg]
    BY <1>n, <2>1
  <2>5. /\ queue' \in [Rid -> Msg]
        /\ current_rid' \in Rid
        /\ net' \in SUBSET [id : Rid, req : Req]
        /\ attempts' \in [Req -> Nat]
    BY <2>1, <2>2, <2>3, <2>4, EngineTypes
  <2>6. QED
    BY <1>7, <2>5 DEF AnswerHidden, TypeOK, threadVars
<1>8. ASSUME NEW p \in net, NEW k \in KindsFor(p.req), NEW id \in Rid,
             AnswerHiddenFails(p, k, id)
      PROVE TypeOK'
  <2>1. p.id \in Rid /\ k \in Kind /\ queue[p.id].req \in Req
    BY <1>8, <1>p, <1>k, <1>r DEF AnswerHiddenFails, Accepts
  <2>2. InCallback(p.id, k) \in [Rid -> Msg]
    BY <2>1, InCallbackType
  <2>3. EngineFails(id, queue[p.id].req, queue, InCallback(p.id, k))
    BY <1>8 DEF AnswerHiddenFails
  <2>4. told' \in [Req -> Seq({"response", "timeout", "error"})]
    BY <1>8, <2>1, TellType DEF AnswerHiddenFails
  <2>5. /\ queue' \in [Rid -> Msg] /\ current_rid' \in Rid
        /\ net' \in SUBSET [id : Rid, req : Req] /\ attempts' \in [Req -> Nat]
    BY <2>1, <2>2, <2>3, 0 \in 0..2, EngineTypes
  <2>6. QED
    BY <1>8, <2>1, <2>4, <2>5 DEF AnswerHiddenFails, TypeOK
<1>9. CASE CallbackReturns
  <2>1. queue' \in [Rid -> Msg]
    BY <1>9, MsgTypes DEF CallbackReturns, TypeOK
  <2>2. QED
    BY <1>9, <2>1 DEF CallbackReturns, TypeOK, historyVars
<1>10. CASE SelectEmpty
  BY <1>10 DEF SelectEmpty, TypeOK, historyVars
<1>11. CASE RetriesDone
  BY <1>11 DEF RetriesDone, TypeOK, historyVars
<1>12. ASSUME NEW id \in Rid, RefreshReceived(id) PROVE TypeOK'
  <2>1. [queue[id] EXCEPT !.ttl = Timeout] \in Msg
    BY <1>q, <1>t, MsgTypes
  <2>2. queue' = [queue EXCEPT ![id] = [queue[id] EXCEPT !.ttl = Timeout]]
    BY <1>12 DEF RefreshReceived
  <2>3. queue' \in [Rid -> Msg]
    BY <2>1, <2>2 DEF TypeOK
  <2>4. QED
    BY <1>12, <2>3 DEF RefreshReceived, TypeOK, threadVars, historyVars
<1>13. ASSUME NEW id \in Rid, Resend(id) PROVE TypeOK'
  <2>1. queue[id] \in Msg /\ queue[id].retry - 1 \in 0..Retries /\ queue[id].req \in Req
    BY <1>13, <1>q, <1>r DEF Resend, Resendable, NextTimeout, Msg
  <2>2. [queue[id] EXCEPT !.retry = queue[id].retry - 1, !.ttl = Timeout] \in Msg
    BY <2>1, <1>t, MsgTypes
  <2>3. queue' = [queue EXCEPT ![id] =
                    [queue[id] EXCEPT !.retry = queue[id].retry - 1, !.ttl = Timeout]]
    BY <1>13 DEF Resend
  <2>4. queue' \in [Rid -> Msg]
    BY <2>2, <2>3 DEF TypeOK
  <2>5. net' \in SUBSET [id : Rid, req : Req]
    BY <1>13, <2>1 DEF Resend, Datagram, TypeOK
  <2>6. QED
    BY <1>13, <2>4, <2>5 DEF Resend, TypeOK, historyVars
<1>14. ASSUME NEW id \in Rid, TimeoutAsync(id) PROVE TypeOK'
  <2>1. queue[id].req \in Req
    BY <1>14, <1>r DEF TimeoutAsync, TimedOut, Resendable, NextTimeout
  <2>2. queue' \in [Rid -> Msg]
    BY <1>14, InCallbackType DEF TimeoutAsync
  <2>3. told' \in [Req -> Seq({"response", "timeout", "error"})]
    BY <1>14, <2>1, TellType DEF TimeoutAsync
  <2>4. QED
    BY <1>14, <2>2, <2>3 DEF TimeoutAsync, TypeOK
<1>15. ASSUME NEW id \in Rid, TimeoutSync(id) PROVE TypeOK'
  BY <1>15, <1>n DEF TimeoutSync, TypeOK, threadVars, historyVars
<1>16. ASSUME NEW r \in Req, SyncReturns(r) PROVE TypeOK'
  <2>1. blocked \in Rid
    BY <1>16 DEF SyncReturns, BlockReady, TypeOK
  <2>2. told' \in [Req -> Seq({"response", "timeout", "error"})]
    BY <1>16, TellType DEF SyncReturns
  <2>3. QED
    BY <1>16, <1>n, <2>1, <2>2 DEF SyncReturns, TypeOK
<1>17. ASSUME NEW r \in Req, SyncMisses(r) PROVE TypeOK'
  <2>1. told' \in [Req -> Seq({"response", "timeout", "error"})]
    BY <1>17, TellType DEF SyncMisses
  <2>2. QED
    BY <1>17, <2>1 DEF SyncMisses, TypeOK
<1>18. ASSUME NEW r \in Req, NEW id \in Rid, SyncTriesAgain(r, id) PROVE TypeOK'
  <2>1. blocked \in Rid
    BY <1>18 DEF SyncTriesAgain, BlockReady, TypeOK
  <2>2. NextLoop(queue[blocked].type, queue[blocked].reports) \in 0..2
    BY <1>18 DEF SyncTriesAgain, SyncLoops, NextLoop
  <2> DEFINE q == [queue EXCEPT ![blocked] = NoMsg]
  <2>3. EngineSends(id, r, NextLoop(queue[blocked].type, queue[blocked].reports), q, q)
    BY <1>18 DEF SyncTriesAgain
  <2>4. QED
    BY <1>18, <1>n, <2>1, <2>2, <2>3, EngineTypes DEF SyncTriesAgain, TypeOK
<1>19. ASSUME NEW r \in Req, NEW id \in Rid, SyncTriesAgainFails(r, id) PROVE TypeOK'
  <2>1. blocked \in Rid
    BY <1>19 DEF SyncTriesAgainFails, BlockReady, TypeOK
  <2> DEFINE q == [queue EXCEPT ![blocked] = NoMsg]
  <2>2. EngineFails(id, r, q, q)
    BY <1>19 DEF SyncTriesAgainFails
  <2>3. told' \in [Req -> Seq({"response", "timeout", "error"})]
    BY <1>19, TellType DEF SyncTriesAgainFails
  <2>4. q \in [Rid -> Msg]
    BY <1>n, <2>1
  <2>5. /\ queue' \in [Rid -> Msg]
        /\ current_rid' \in Rid
        /\ net' \in SUBSET [id : Rid, req : Req]
        /\ attempts' \in [Req -> Nat]
    BY <2>2, <2>4, 0 \in 0..2, EngineTypes
  <2>6. QED
    BY <1>19, <2>3, <2>5 DEF SyncTriesAgainFails, TypeOK
<1>20. CASE Tick
  <2>1. \A id \in Rid : [queue[id] EXCEPT !.ttl = queue[id].ttl - 1] \in Msg
    <3> SUFFICES ASSUME NEW id \in Rid
                 PROVE [queue[id] EXCEPT !.ttl = queue[id].ttl - 1] \in Msg
      OBVIOUS
    <3>1. queue[id] \in Msg /\ queue[id].ttl - 1 \in Int
      BY <1>q DEF Msg
    <3>2. QED
      BY <3>1, MsgTypes
  <2>2. queue' \in [Rid -> Msg]
    BY <1>20, <1>q, <2>1 DEF Tick
  <2>3. QED
    BY <1>20, <2>2 DEF Tick, TypeOK, historyVars
<1>21. CASE UNCHANGED vars
  BY <1>21 DEF TypeOK, vars, threadVars, historyVars
<1>22. QED
  BY <1>1, <1>2, <1>3, <1>4, <1>5, <1>6, <1>7, <1>8, <1>9, <1>10, <1>11, <1>12,
     <1>13, <1>14, <1>15, <1>16, <1>17, <1>18, <1>19, <1>20, <1>21
     DEF Next, Engine, HandleEvents, DoRetries, BlockForResponse

LEMMA TypeInit == Init => TypeOK
<1>1. [id \in Rid |-> NoMsg] \in [Rid -> Msg]
  BY MsgTypes
<1>2. [r \in Req |-> <<>>] \in [Req -> Seq({"response", "timeout", "error"})]
  OBVIOUS
<1>3. QED
  BY <1>1, <1>2 DEF Init, TypeOK

\* MsgQueue is well typed: every field of every queued message, the thread's
\* control state and the histories stay in their ranges.
THEOREM TypeCorrect == Spec => []TypeOK
BY TypeInit, TypeStep, PTL DEF Spec
-----------------------------------------------------------------------------
IInv == TypeOK /\ EngineInv /\ OneCallbackOwner

\* What telling an issuer does: that issuer has been told, with exactly this
\* outcome if it was waiting, and no other issuer hears of it.
LEMMA TellEffect ==
  ASSUME TypeOK, NEW r \in Req, NEW o \in {"response", "timeout", "error"},
         Tell(r, o)
  PROVE  /\ told'[r] # <<>>
         /\ told[r] = <<>> => told' = [told EXCEPT ![r] = <<o>>]
         /\ \A s \in Req : s # r => told'[s] = told[s]
<1>1. told[r] \in Seq({"response", "timeout", "error"})
  BY DEF TypeOK
<1>2. told' = [told EXCEPT ![r] = Append(told[r], o)]
  BY DEF Tell
<1>3. Append(told[r], o) # <<>>
  BY <1>1
<1>4. told[r] = <<>> => Append(told[r], o) = <<o>>
  BY <1>1
<1>5. QED
  BY <1>2, <1>3, <1>4 DEF TypeOK

\* The id that snmp_engine takes is free in the queue it finds.
LEMMA FreeRid ==
  ASSUME NEW id \in Rid, NEW q, MyMakeReqId(id, q)
  PROVE  q[id].req = NoReq
BY DEF MyMakeReqId, FreeRids

\* A step that moves no callback and tells no asynchronous issuer keeps
\* OneCallbackOwner.
LEMMA NoCallbackMoves ==
  ASSUME OneCallbackOwner,
         \A id \in Rid, r \in Req : Owns(id, r)' <=> Owns(id, r),
         \A r \in Req : Pending(r)' <=> Pending(r)
  PROVE  OneCallbackOwner'
BY DEF OneCallbackOwner

\* A step that makes the callback of request r, which message i holds.
LEMMA CallbackMade ==
  ASSUME OneCallbackOwner, NEW r \in Req, NEW i \in Rid,
         Owns(i, r),
         \A id \in Rid, s \in Req : Owns(id, s)' <=> Owns(id, s) /\ id # i,
         \A s \in Req : Pending(s)' <=> Pending(s) /\ s # r
  PROVE  OneCallbackOwner'
<1> SUFFICES ASSUME NEW s \in Req, NEW j \in Rid
             PROVE  /\ Pending(s)' => \E id \in Rid : Owns(id, s)'
                    /\ Owns(j, s)' => /\ Pending(s)'
                                      /\ \A l \in Rid : Owns(l, s)' => j = l
  BY DEF OneCallbackOwner
<1>1. Owns(i, s) => s = r
  BY DEF Owns
<1>2. Owns(j, s) /\ j # i => s # r
  BY DEF OneCallbackOwner
<1>3. QED
  BY <1>1, <1>2 DEF OneCallbackOwner

\* A step that issues the asynchronous request r: message i holds its
\* callback.
LEMMA CallbackIssued ==
  ASSUME OneCallbackOwner, NEW r \in Req, NEW i \in Rid,
         ~Pending(r), \A s \in Req : ~Owns(i, s),
         \A id \in Rid, s \in Req : Owns(id, s)' <=> Owns(id, s) \/ (id = i /\ s = r),
         \A s \in Req : Pending(s)' <=> Pending(s) \/ s = r
  PROVE  OneCallbackOwner'
<1>1. \A id \in Rid : ~Owns(id, r)
  BY DEF OneCallbackOwner
<1> SUFFICES ASSUME NEW s \in Req, NEW j \in Rid
             PROVE  /\ Pending(s)' => \E id \in Rid : Owns(id, s)'
                    /\ Owns(j, s)' => /\ Pending(s)'
                                      /\ \A l \in Rid : Owns(l, s)' => j = l
  BY DEF OneCallbackOwner
<1>2. CASE s = r
  BY <1>1, <1>2
<1>3. CASE s # r
  BY <1>3 DEF OneCallbackOwner
<1>4. QED
  BY <1>2, <1>3

\* A step that hands the callback of request r from message i to message n,
\* as v3CallBack does when it hides a report.
LEMMA CallbackHandedOn ==
  ASSUME OneCallbackOwner, NEW r \in Req, NEW i \in Rid, NEW n \in Rid,
         Owns(i, r), \A s \in Req : ~Owns(n, s),
         \A id \in Rid, s \in Req :
           Owns(id, s)' <=> (Owns(id, s) /\ id # i) \/ (id = n /\ s = r),
         \A s \in Req : Pending(s)' <=> Pending(s)
  PROVE  OneCallbackOwner'
<1> SUFFICES ASSUME NEW s \in Req, NEW j \in Rid
             PROVE  /\ Pending(s)' => \E id \in Rid : Owns(id, s)'
                    /\ Owns(j, s)' => /\ Pending(s)'
                                      /\ \A l \in Rid : Owns(l, s)' => j = l
  BY DEF OneCallbackOwner
<1>1. \A id \in Rid : Owns(id, r) => id = i
  BY DEF OneCallbackOwner
<1>2. Owns(i, s) => s = r
  BY DEF Owns
<1>3. CASE s = r
  BY <1>1, <1>3 DEF OneCallbackOwner
<1>4. CASE s # r
  BY <1>2, <1>4 DEF OneCallbackOwner
<1>5. QED
  BY <1>3, <1>4

\* Messages m and n differ at most in their timer and retry count.
SameButTime(m, n) ==
  /\ m.req = n.req /\ m.callback = n.callback /\ m.type = n.type
  /\ m.received = n.received /\ m.locked = n.locked

\* Every step keeps the inductive invariant.
LEMMA InvStep == IInv /\ [Next]_vars => IInv'
<1> SUFFICES ASSUME IInv, [Next]_vars PROVE EngineInv' /\ OneCallbackOwner'
  BY TypeStep DEF IInv
<1>ty. TypeOK /\ EngineInv /\ OneCallbackOwner
  BY DEF IInv
<1>q. queue \in [Rid -> Msg] /\ \A id \in Rid : queue[id] \in Msg
  BY <1>ty DEF TypeOK
<1>p. \A p \in net : p.id \in Rid /\ p.req \in Req
  BY <1>ty DEF TypeOK
<1>z. 0 \notin Rid /\ cur \in Rid \cup {0} /\ blocked \in Rid \cup {0}
  BY <1>ty DEF TypeOK, Rid
<1>r. \A id \in Rid : Queued(id) => queue[id].req \in Req
  BY <1>q DEF Queued, Msg
<1>m. \A id \in Rid, r \in Req : Owns(id, r) => r \notin SyncReq
  BY <1>ty DEF EngineInv, Owns
<1>f. /\ NoMsg.req = NoReq /\ ~NoMsg.callback /\ ~NoMsg.locked
      /\ \A r, n : /\ NewMsg(r, n).req = r
                   /\ NewMsg(r, n).callback <=> r \notin SyncReq
                   /\ NewMsg(r, n).type = "request"
                   /\ ~NewMsg(r, n).received
                   /\ ~NewMsg(r, n).locked
  BY DEF NoMsg, NewMsg
\* The callback of message i is made.
<1>called. ASSUME NEW i \in Rid, NEW k, NEW o \in {"response", "timeout", "error"},
                  Queued(i), queue[i].callback, pc # "callback",
                  pc' = "callback", cur' = i, queue' = InCallback(i, k),
                  Tell(queue[i].req, o), UNCHANGED <<blocked, issued>>
           PROVE  EngineInv' /\ OneCallbackOwner'
  <2> DEFINE r == queue[i].req
  <2>1. r \in Req /\ r \notin SyncReq /\ Owns(i, r) /\ Pending(r) /\ cur = 0
    BY <1>called, <1>r, <1>ty DEF EngineInv, Owns, OneCallbackOwner
  <2>2. /\ queue'[i].req = r
        /\ queue'[i].callback = FALSE /\ queue'[i].locked = TRUE
        /\ \A j \in Rid : j # i => queue'[j] = queue[j]
    BY <1>called, <1>q DEF InCallback, Msg
  <2>3. told'[r] # <<>> /\ \A s \in Req : s # r => told'[s] = told[s]
    BY <1>called, <1>ty, <2>1, TellEffect
  <2>4. \A j \in Rid, s \in Req : Owns(j, s)' <=> Owns(j, s) /\ j # i
    BY <2>2 DEF Owns
  <2>5. \A s \in Req : Pending(s)' <=> Pending(s) /\ s # r
    BY <1>called, <2>3 DEF Pending
  <2>6. OneCallbackOwner'
    BY <2>1, <2>4, <2>5, <1>ty, CallbackMade
  <2>7. EngineInv'
    BY <1>called, <2>1, <2>2, <2>3, <1>ty, <1>z DEF EngineInv, Queued, Pending
  <2>8. QED
    BY <2>6, <2>7
\* A message that holds no callback is deleted, outside callbacks.
<1>freed. ASSUME NEW i \in Rid, queue' = [queue EXCEPT ![i] = NoMsg],
                 ~queue[i].callback, cur' = 0, cur \in {0, i}, pc' # "callback",
                 UNCHANGED <<blocked, issued, told>>
          PROVE  EngineInv' /\ OneCallbackOwner'
  <2>1. queue'[i] = NoMsg /\ \A j \in Rid : j # i => queue'[j] = queue[j]
    BY <1>freed, <1>q
  <2>2. OneCallbackOwner'
    BY <1>freed, <2>1, <1>f, <1>ty, NoCallbackMoves DEF Owns, Pending
  <2>3. EngineInv'
    BY <1>freed, <2>1, <1>f, <1>ty, <1>z DEF EngineInv, Queued
  <2>4. QED
    BY <2>2, <2>3
\* The answered message of a blocking call is deleted, the call returns.
<1>unblocked. ASSUME NEW r \in SyncReq, NEW o \in {"response", "timeout", "error"},
                     blocked \in Rid, queue[blocked].received, pc = "idle",
                     queue' = [queue EXCEPT ![blocked] = NoMsg], blocked' = 0,
                     issued[r], Tell(r, o), UNCHANGED <<pc, cur, issued>>
              PROVE  EngineInv' /\ OneCallbackOwner'
  <2>1. queue'[blocked] = NoMsg /\ \A j \in Rid : j # blocked => queue'[j] = queue[j]
    BY <1>unblocked, <1>q
  <2>2. told'[r] # <<>> /\ \A s \in Req : s # r => told'[s] = told[s]
    BY <1>unblocked, <1>ty, TellEffect
  <2>3. ~queue[blocked].callback /\ cur = 0
    BY <1>unblocked, <1>ty DEF EngineInv
  <2>4. OneCallbackOwner'
    BY <1>unblocked, <2>1, <2>2, <2>3, <1>f, <1>ty, NoCallbackMoves DEF Owns, Pending
  <2>5. EngineInv'
    BY <1>unblocked, <2>1, <2>2, <2>3, <1>f, <1>ty, <1>z DEF EngineInv, Queued
  <2>6. QED
    BY <2>4, <2>5
\* Only the times and retry counts of messages change.
<1>time. ASSUME \A j \in Rid : SameButTime(queue'[j], queue[j]),
                UNCHANGED <<cur, blocked, issued, told>>,
                pc' = pc \/ (pc # "callback" /\ pc' # "callback")
         PROVE  EngineInv' /\ OneCallbackOwner'
  <2>1. OneCallbackOwner'
    BY <1>time, <1>ty, NoCallbackMoves DEF SameButTime, Owns, Pending
  <2>2. EngineInv'
    BY <1>time, <1>ty, <1>z DEF SameButTime, EngineInv, Queued
  <2>3. QED
    BY <2>1, <2>2
<1>1. ASSUME NEW r \in Req, NEW id \in Rid, Issue(r, id) PROVE EngineInv' /\ OneCallbackOwner'
  <2>1. /\ queue' = [queue EXCEPT ![id] = NewMsg(r, 0)]
        /\ queue[id].req = NoReq
    BY <1>1, FreeRid DEF Issue, EngineSends
  <2>2. ~queue[id].callback
    BY <1>ty, <2>1 DEF EngineInv, Queued
  <2>3. told[r] = <<>> /\ ~issued[r] /\ issued' = [issued EXCEPT ![r] = TRUE] /\ told' = told
    BY <1>1, <1>ty DEF EngineInv, Issue
  <2>4. \A s \in Req : Pending(s)' <=> Pending(s) \/ (s = r /\ r \notin SyncReq)
    BY <2>3, <1>ty DEF Pending, TypeOK
  <2>5. \A j \in Rid, s \in Req : Owns(j, s)' <=> Owns(j, s) \/ (j = id /\ s = r /\ r \notin SyncReq)
    BY <2>1, <2>2, <1>q, <1>f DEF Owns
  <2>6. OneCallbackOwner'
    <3>1. CASE r \in SyncReq
      BY <3>1, <2>4, <2>5, <1>ty, NoCallbackMoves
    <3>2. CASE r \notin SyncReq
      <4>1. ~Pending(r) /\ \A s \in Req : ~Owns(id, s)
        BY <2>2, <2>3 DEF Pending, Owns
      <4>2. QED
        BY <3>2, <4>1, <2>4, <2>5, <1>ty, CallbackIssued
    <3>3. QED
      BY <3>1, <3>2
  <2>7. EngineInv'
    BY <1>1, <1>ty, <1>f, <1>q, <1>z, <2>1, <2>3 DEF EngineInv, Issue, MayIssue, Queued, TypeOK
  <2>8. QED
    BY <2>6, <2>7
<1>2. ASSUME NEW r \in Req, NEW id \in Rid, IssueFails(r, id) PROVE EngineInv' /\ OneCallbackOwner'
  <2>1. queue' = queue /\ ~issued[r] /\ issued' = [issued EXCEPT ![r] = TRUE]
    BY <1>2 DEF IssueFails, EngineFails
  <2>2. told'[r] # <<>> /\ \A s \in Req : s # r => told'[s] = told[s]
    BY <1>2, <1>ty, TellEffect DEF IssueFails
  <2>3. \A s \in Req : Pending(s)' <=> Pending(s)
    BY <2>1, <2>2, <1>ty DEF Pending, TypeOK
  <2>4. OneCallbackOwner'
    BY <2>1, <2>3, <1>ty, NoCallbackMoves DEF Owns
  <2>5. EngineInv'
    BY <1>2, <2>1, <2>2, <1>ty DEF EngineInv, IssueFails, Queued, TypeOK, threadVars
  <2>6. QED
    BY <2>4, <2>5
<1>3. CASE ProcessEvents
  <2>1. UNCHANGED <<queue, cur, blocked, issued, told>> /\ pc # "callback" /\ pc' # "callback"
    BY <1>3 DEF ProcessEvents, historyVars
  <2>2. QED
    BY <2>1, <1>ty, NoCallbackMoves DEF EngineInv, Owns, Pending, Queued
<1>4. ASSUME NEW p \in net, NEW k \in KindsFor(p.req), IgnoreAnswer(p, k)
      PROVE EngineInv' /\ OneCallbackOwner'
  BY <1>4, <1>ty DEF IgnoreAnswer, vars, threadVars, historyVars, EngineInv,
     OneCallbackOwner, Owns, Pending, Queued
<1>5. ASSUME NEW p \in net, NEW k \in KindsFor(p.req), AnswerSync(p, k)
      PROVE EngineInv' /\ OneCallbackOwner'
  <2>1. p.id \in Rid /\ ~queue[p.id].callback
    BY <1>5, <1>p DEF AnswerSync
  <2>2. \A j \in Rid : /\ queue'[j].req = queue[j].req
                       /\ queue'[j].callback = queue[j].callback
                       /\ queue'[j].locked = queue[j].locked
                       /\ j # p.id => queue'[j] = queue[j]
    BY <1>5, <1>q, <2>1 DEF AnswerSync, Msg
  <2>3. UNCHANGED <<pc, cur, blocked, issued, told>>
    BY <1>5 DEF AnswerSync, threadVars
  <2>4. OneCallbackOwner'
    BY <2>2, <2>3, <1>ty, NoCallbackMoves DEF Owns, Pending
  <2>5. EngineInv'
    BY <2>1, <2>2, <2>3, <1>ty, <1>z DEF EngineInv, Queued
  <2>6. QED
    BY <2>4, <2>5
<1>6. ASSUME NEW p \in net, NEW k \in KindsFor(p.req), AnswerAsync(p, k)
      PROVE EngineInv' /\ OneCallbackOwner'
  <2>1. /\ p.id \in Rid /\ Queued(p.id) /\ queue[p.id].callback
        /\ pc' = "callback" /\ cur' = p.id /\ pc = "select"
        /\ queue' = InCallback(p.id, k)
        /\ Tell(queue[p.id].req, "response")
        /\ UNCHANGED <<blocked, issued>>
    BY <1>6, <1>p DEF AnswerAsync, Accepts
  <2>2. QED
    BY <2>1, <1>called
<1>7. ASSUME NEW p \in net, NEW k \in KindsFor(p.req), NEW id \in Rid,
             AnswerHidden(p, k, id)
      PROVE EngineInv' /\ OneCallbackOwner'
  <2> DEFINE r == queue[p.id].req
  <2>1. /\ p.id \in Rid /\ Queued(p.id) /\ queue[p.id].callback
        /\ r \in Req /\ r \notin SyncReq
    BY <1>7, <1>p, <1>r, <1>ty DEF AnswerHidden, Accepts, EngineInv
  <2>2. /\ queue' = [[queue EXCEPT ![p.id] = NoMsg] EXCEPT
                       ![id] = NewMsg(r, queue[p.id].reports + 1)]
        /\ queue[id].req = NoReq
    BY <1>7, FreeRid DEF AnswerHidden, EngineSends
  <2>3. id # p.id /\ ~queue[id].callback
    BY <2>1, <2>2, <1>ty DEF Queued, EngineInv
  <2>4. UNCHANGED <<pc, cur, blocked, issued, told>> /\ pc = "select"
    BY <1>7 DEF AnswerHidden, threadVars
  <2>5. /\ queue'[p.id] = NoMsg
        /\ queue'[id] = NewMsg(r, queue[p.id].reports + 1)
        /\ \A j \in Rid : j # id /\ j # p.id => queue'[j] = queue[j]
    BY <2>1, <2>2, <2>3, <1>q
  <2>6. \A j \in Rid, s \in Req :
          Owns(j, s)' <=> (Owns(j, s) /\ j # p.id) \/ (j = id /\ s = r)
    BY <2>1, <2>3, <2>5, <1>f DEF Owns
  <2>7. OneCallbackOwner'
    <3>1. Owns(p.id, r) /\ \A s \in Req : ~Owns(id, s)
      BY <2>1, <2>3 DEF Owns
    <3>2. \A s \in Req : Pending(s)' <=> Pending(s)
      BY <2>4 DEF Pending
    <3>3. QED
      BY <3>1, <3>2, <2>1, <2>6, <1>ty, CallbackHandedOn
  <2>8. EngineInv'
    <3>1. cur = 0
      BY <2>4, <1>ty DEF EngineInv
    <3>2. QED
      BY <3>1, <2>1, <2>3, <2>4, <2>5, <1>ty, <1>f, <1>z DEF EngineInv, Queued
  <2>9. QED
    BY <2>7, <2>8
<1>8. ASSUME NEW p \in net, NEW k \in KindsFor(p.req), NEW id \in Rid,
             AnswerHiddenFails(p, k, id)
      PROVE EngineInv' /\ OneCallbackOwner'
  <2>1. /\ p.id \in Rid /\ Queued(p.id) /\ queue[p.id].callback
        /\ pc' = "callback" /\ cur' = p.id /\ pc = "select"
        /\ queue' = InCallback(p.id, k)
        /\ Tell(queue[p.id].req, "error")
        /\ UNCHANGED <<blocked, issued>>
    BY <1>8, <1>p DEF AnswerHiddenFails, Accepts, EngineFails
  <2>2. QED
    BY <2>1, <1>called
<1>9. CASE CallbackReturns
  <2>1. /\ pc = "callback" /\ cur \in Rid
        /\ queue' = [queue EXCEPT ![cur] = NoMsg]
        /\ pc' = after /\ cur' = 0 /\ UNCHANGED <<blocked, issued, told>>
    BY <1>9, <1>ty, <1>z DEF CallbackReturns, historyVars, EngineInv
  <2>2. ~queue[cur].callback /\ after # "callback"
    BY <2>1, <1>ty, <1>z DEF EngineInv, TypeOK
  <2>3. QED
    BY <2>1, <2>2, <1>freed
<1>10. CASE SelectEmpty
  <2>1. UNCHANGED <<queue, cur, blocked, issued, told>> /\ pc # "callback" /\ pc' # "callback"
    BY <1>10 DEF SelectEmpty, historyVars
  <2>2. QED
    BY <2>1, <1>ty, NoCallbackMoves DEF EngineInv, Owns, Pending, Queued
<1>11. CASE RetriesDone
  <2>1. UNCHANGED <<queue, cur, blocked, issued, told>> /\ pc # "callback" /\ pc' # "callback"
    BY <1>11 DEF RetriesDone, historyVars
  <2>2. QED
    BY <2>1, <1>ty, NoCallbackMoves DEF EngineInv, Owns, Pending, Queued
<1>12. ASSUME NEW id \in Rid, RefreshReceived(id) PROVE EngineInv' /\ OneCallbackOwner'
  <2>1. \A j \in Rid : SameButTime(queue'[j], queue[j])
    BY <1>12, <1>q DEF RefreshReceived, SameButTime, Msg
  <2>2. UNCHANGED <<pc, cur, blocked, issued, told>>
    BY <1>12 DEF RefreshReceived, threadVars, historyVars
  <2>3. QED
    BY <2>1, <2>2, <1>time
<1>13. ASSUME NEW id \in Rid, Resend(id) PROVE EngineInv' /\ OneCallbackOwner'
  <2>1. \A j \in Rid : SameButTime(queue'[j], queue[j])
    BY <1>13, <1>q DEF Resend, SameButTime, Msg
  <2>2. UNCHANGED <<cur, blocked, issued, told>> /\ pc # "callback" /\ pc' # "callback"
    BY <1>13 DEF Resend, historyVars
  <2>3. QED
    BY <2>1, <2>2, <1>time
<1>14. ASSUME NEW id \in Rid, TimeoutAsync(id) PROVE EngineInv' /\ OneCallbackOwner'
  <2>1. /\ Queued(id) /\ queue[id].callback
        /\ pc' = "callback" /\ cur' = id /\ pc = "retries"
        /\ queue' = InCallback(id, "request")
        /\ Tell(queue[id].req, "timeout")
        /\ UNCHANGED <<blocked, issued>>
    BY <1>14 DEF TimeoutAsync, TimedOut, Resendable, NextTimeout
  <2>2. QED
    BY <2>1, <1>called
<1>15. ASSUME NEW id \in Rid, TimeoutSync(id) PROVE EngineInv' /\ OneCallbackOwner'
  <2>1. /\ queue' = [queue EXCEPT ![id] = NoMsg] /\ ~queue[id].callback /\ pc = "retries"
        /\ UNCHANGED <<pc, cur, blocked, issued, told>>
    BY <1>15 DEF TimeoutSync, TimedOut, threadVars, historyVars
  <2>2. cur = 0
    BY <2>1, <1>ty DEF EngineInv
  <2>3. QED
    BY <2>1, <2>2, <1>freed
<1>16. ASSUME NEW r \in Req, SyncReturns(r) PROVE EngineInv' /\ OneCallbackOwner'
  <2>1. /\ blocked \in Rid /\ queue[blocked].received /\ pc = "idle"
        /\ queue' = [queue EXCEPT ![blocked] = NoMsg] /\ blocked' = 0
        /\ r \in SyncReq /\ issued[r] /\ UNCHANGED <<pc, cur, issued>>
    BY <1>16, <1>z DEF SyncReturns, BlockReady, Waiting, Done
  <2>2. QED
    BY <1>16, <2>1, <1>unblocked DEF SyncReturns
<1>17. ASSUME NEW r \in Req, SyncMisses(r) PROVE EngineInv' /\ OneCallbackOwner'
  <2>1. /\ blocked \in Rid /\ ~Queued(blocked) /\ pc = "idle"
        /\ queue' = queue /\ blocked' = 0
        /\ r \in SyncReq /\ issued[r] /\ UNCHANGED <<pc, cur, issued>>
    BY <1>17, <1>z DEF SyncMisses, BlockReady, Waiting
  <2>2. told'[r] # <<>> /\ \A s \in Req : s # r => told'[s] = told[s]
    BY <1>17, <1>ty, TellEffect DEF SyncMisses
  <2>3. OneCallbackOwner'
    BY <2>1, <2>2, <1>ty, NoCallbackMoves DEF Owns, Pending
  <2>4. EngineInv'
    BY <2>1, <2>2, <1>ty DEF EngineInv, Queued
  <2>5. QED
    BY <2>3, <2>4
<1>18. ASSUME NEW r \in Req, NEW id \in Rid, SyncTriesAgain(r, id)
       PROVE EngineInv' /\ OneCallbackOwner'
  <2> DEFINE n == NextLoop(queue[blocked].type, queue[blocked].reports)
  <2>1. /\ blocked \in Rid /\ queue[blocked].received /\ pc = "idle" /\ cur = 0
        /\ queue' = [[queue EXCEPT ![blocked] = NoMsg] EXCEPT ![id] = NewMsg(r, n)]
        /\ blocked' = id
        /\ r \in SyncReq /\ UNCHANGED <<pc, cur, issued, told>>
    BY <1>18, <1>z, <1>ty DEF SyncTriesAgain, EngineSends, BlockReady, Waiting, Done, EngineInv
  <2>2. [queue EXCEPT ![blocked] = NoMsg][id].req = NoReq
    BY <1>18, FreeRid DEF SyncTriesAgain, EngineSends
  <2>3. ~queue[id].callback /\ ~queue[blocked].callback
    BY <2>1, <2>2, <1>q, <1>ty DEF EngineInv, Queued
  <2>4. /\ queue'[id] = NewMsg(r, n)
        /\ blocked # id => queue'[blocked] = NoMsg
        /\ \A j \in Rid : j # id /\ j # blocked => queue'[j] = queue[j]
    BY <2>1, <1>q
  <2>n. /\ queue'[id].req = r /\ ~queue'[id].callback /\ ~queue'[id].locked
        /\ blocked # id => /\ queue'[blocked].req = NoReq
                           /\ ~queue'[blocked].callback
                           /\ ~queue'[blocked].locked
    BY <2>1, <2>4, <1>f
  <2>5. OneCallbackOwner'
    <3>1. \A j \in Rid, s \in Req : Owns(j, s)' <=> Owns(j, s)
      BY <2>1, <2>3, <2>4, <2>n DEF Owns
    <3>2. \A s \in Req : Pending(s)' <=> Pending(s)
      BY <2>1 DEF Pending
    <3>3. QED
      BY <3>1, <3>2, <1>ty, NoCallbackMoves
  <2>6. EngineInv'
    <3>1. ASSUME NEW j \in Rid
          PROVE  /\ queue'[j].callback => /\ queue'[j].req # NoReq
                                          /\ queue'[j].req \notin SyncReq
                                          /\ queue'[j].type = "request"
                                          /\ ~queue'[j].received /\ ~queue'[j].locked
                 /\ queue'[j].req # NoReq /\ ~queue'[j].callback => j = blocked'
                 /\ ~queue'[j].locked
      <4>1. CASE j # id /\ j # blocked
        BY <2>1, <2>4, <4>1, <1>ty, <1>z DEF EngineInv, Queued
      <4>2. CASE j = id \/ j = blocked
        BY <2>1, <2>n, <4>2
      <4>3. QED
        BY <4>1, <4>2
    <3>2. \A s \in Req : ~issued'[s] => told'[s] = <<>>
      BY <2>1, <1>ty DEF EngineInv
    <3>3. QED
      BY <2>1, <3>1, <3>2 DEF EngineInv, Queued
  <2>7. QED
    BY <2>5, <2>6
<1>19. ASSUME NEW r \in Req, NEW id \in Rid, SyncTriesAgainFails(r, id)
       PROVE EngineInv' /\ OneCallbackOwner'
  <2>1. /\ blocked \in Rid /\ queue[blocked].received /\ pc = "idle"
        /\ queue' = [queue EXCEPT ![blocked] = NoMsg] /\ blocked' = 0
        /\ r \in SyncReq /\ issued[r] /\ UNCHANGED <<pc, cur, issued>>
    BY <1>19, <1>z DEF SyncTriesAgainFails, EngineFails, BlockReady, Waiting, Done
  <2>2. QED
    BY <1>19, <2>1, <1>unblocked DEF SyncTriesAgainFails
<1>20. CASE Tick
  <2>1. \A j \in Rid : SameButTime(queue'[j], queue[j])
    BY <1>20, <1>q DEF Tick, SameButTime, Msg
  <2>2. UNCHANGED <<pc, cur, blocked, issued, told>>
    BY <1>20 DEF Tick, historyVars
  <2>3. QED
    BY <2>1, <2>2, <1>time
<1>21. CASE UNCHANGED vars
  BY <1>21, <1>ty DEF vars, threadVars, historyVars, EngineInv, OneCallbackOwner,
     Owns, Pending, Queued
<1>22. QED
  BY <1>1, <1>2, <1>3, <1>4, <1>5, <1>6, <1>7, <1>8, <1>9, <1>10, <1>11, <1>12,
     <1>13, <1>14, <1>15, <1>16, <1>17, <1>18, <1>19, <1>20, <1>21
     DEF Next, Engine, HandleEvents, DoRetries, BlockForResponse

LEMMA InvInit == Init => IInv
<1> SUFFICES ASSUME Init PROVE IInv
  OBVIOUS
<1>1. TypeOK
  BY TypeInit
<1>2. \A id \in Rid : queue[id].req = NoReq /\ ~queue[id].callback /\ ~queue[id].locked
  BY DEF Init, NoMsg
<1>3. EngineInv
  BY <1>2 DEF Init, EngineInv, Queued
<1>4. OneCallbackOwner
  BY <1>2 DEF Init, OneCallbackOwner, Owns, Pending
<1>5. QED
  BY <1>1, <1>3, <1>4 DEF IInv

\* The inductive invariant holds in every reachable state.
THEOREM Invariance == Spec => []IInv
BY InvInit, InvStep, PTL DEF Spec

\* CSNMPMessageQueue and v3CallBack never lose or double a callback: for any
\* requests, id range, retry count and timing, exactly one queued message
\* holds the callback of each waiting request, and none of any other.
THEOREM CallbackOwner == Spec => []OneCallbackOwner
<1>1. IInv => OneCallbackOwner
  BY DEF IInv
<1>2. QED
  BY <1>1, Invariance, PTL

\* What the invariant says at the top level of the application: the running
\* callback and the blocking call are over, so every queued message still
\* holds its callback.
LEMMA NothingLeft == IInv => NoLeftOvers
<1> SUFFICES ASSUME IInv, pc = "idle", blocked = 0, NEW id \in QueuedIds
             PROVE  queue[id].callback /\ ~queue[id].received /\ ~queue[id].locked
  BY DEF NoLeftOvers
<1>1. id \in Rid /\ Queued(id)
  BY DEF QueuedIds
<1>2. cur = 0 /\ id # 0
  BY <1>1 DEF IInv, EngineInv, Rid
<1>3. QED
  BY <1>1, <1>2 DEF IInv, EngineInv

\* HandleEvents, DoRetries and SNMPBlockForResponse never leave an answered,
\* locked or abandoned message in the queue behind them.
THEOREM QueueIsClean == Spec => []NoLeftOvers
BY NothingLeft, Invariance, PTL

\* The bookkeeping of the engine that both results rest on: a message with a
\* callback is an unanswered, unlocked asynchronous one, and one without is
\* being called back or waited for.
THEOREM EngineInvariant == Spec => []EngineInv
<1>1. IInv => EngineInv
  BY DEF IInv
<1>2. QED
  BY <1>1, Invariance, PTL
-----------------------------------------------------------------------------
\* Why reports are bounded: the message of a request carries the number of
\* times it was sent again (reports_received, maxloops), and at most one
\* blocking call is waiting, on a message of its own.
Counted(id) == attempts[queue[id].req] <= queue[id].reports + 1

BlockedOwn ==
  (blocked \in Rid /\ Queued(blocked) /\ ~queue[blocked].callback /\ blocked # cur) =>
    Waiting(queue[blocked].req) /\ Counted(blocked)

AttemptsInv ==
  /\ \A r \in Req : ~issued[r] => attempts[r] = 0
  /\ BoundedReports
  /\ \A id \in Rid : queue[id].callback => Counted(id)
  /\ \A r \in Req : Waiting(r) => blocked # 0 /\ \A s \in Req : Waiting(s) => r = s
  /\ BlockedOwn

\* A step that keeps blocked and the waiting calls, and either leaves the
\* message waited for alone or makes it something else.
LEMMA BlockedKept ==
  ASSUME IInv, BlockedOwn, blocked' = blocked,
         \A r \in Req : Waiting(r) => Waiting(r)' /\ attempts'[r] = attempts[r],
         blocked \in Rid =>
           \/ queue'[blocked].req = NoReq \/ queue'[blocked].callback \/ blocked = cur'
           \/ /\ queue'[blocked].req = queue[blocked].req
              /\ queue'[blocked].reports = queue[blocked].reports
              /\ ~queue[blocked].callback /\ blocked # cur
  PROVE  BlockedOwn'
<1> SUFFICES ASSUME blocked \in Rid, queue'[blocked].req # NoReq,
                    ~queue'[blocked].callback, blocked # cur'
             PROVE  /\ queue'[blocked].req \in SyncReq
                    /\ issued'[queue'[blocked].req] /\ told'[queue'[blocked].req] = <<>>
                    /\ attempts'[queue'[blocked].req] <= queue'[blocked].reports + 1
  BY DEF BlockedOwn, Waiting, Counted, Queued
<1>1. /\ queue'[blocked].req = queue[blocked].req
      /\ queue'[blocked].reports = queue[blocked].reports
      /\ Queued(blocked) /\ ~queue[blocked].callback /\ blocked # cur
  BY DEF Queued
<1>2. queue[blocked].req \in Req
  BY <1>1 DEF IInv, TypeOK, Msg, Queued
<1>3. /\ Waiting(queue[blocked].req)
      /\ attempts[queue[blocked].req] <= queue[blocked].reports + 1
  BY <1>1 DEF BlockedOwn, Counted
<1>4. QED
  BY <1>1, <1>2, <1>3 DEF Waiting

\* A step that sends nothing new: the messages stay what they are but for
\* those that are freed or begin their callback, and the same blocking call
\* waits.
LEMMA NoneSentAgain ==
  ASSUME IInv, AttemptsInv, attempts' = attempts, issued' = issued, blocked' = blocked,
         \A r \in Req : Waiting(r)' <=> Waiting(r),
         \A id \in Rid :
           \/ queue'[id].req = NoReq /\ ~queue'[id].callback
           \/ /\ queue'[id].req = queue[id].req /\ queue'[id].reports = queue[id].reports
              /\ queue'[id].callback => queue[id].callback
              /\ queue[id].callback /\ ~queue'[id].callback => cur' = id
              /\ cur = id => cur' = id
  PROVE  AttemptsInv'
<1>1. \A id \in Rid : queue'[id].callback => queue[id].callback /\ Counted(id)'
  BY DEF AttemptsInv, Counted
<1>2. BlockedOwn'
  BY BlockedKept DEF AttemptsInv
<1>3. BoundedReports'
  BY DEF AttemptsInv, BoundedReports
<1>4. \A r \in Req : ~issued'[r] => attempts'[r] = 0
  BY DEF AttemptsInv
<1>5. \A r \in Req : Waiting(r)' => blocked' # 0 /\ \A s \in Req : Waiting(s)' => r = s
  BY DEF AttemptsInv
<1>6. QED
  BY <1>1, <1>2, <1>3, <1>4, <1>5 DEF AttemptsInv

\* A step that sends request r again or for the first time: the counts of
\* the other requests stay, and no queued message but the new one is r's.
LEMMA SentOnce ==
  ASSUME IInv, NEW r \in Req, attempts' = [attempts EXCEPT ![r] = @ + 1]
  PROVE  /\ attempts'[r] = attempts[r] + 1 /\ attempts[r] \in Nat
         /\ \A s \in Req : s # r => attempts'[s] = attempts[s]
BY DEF IInv, TypeOK

\* The callback of message i is made, with no sending before it.
LEMMA CalledBack ==
  ASSUME IInv, AttemptsInv, attempts' = attempts, issued' = issued, blocked' = blocked,
         NEW i \in Rid, NEW k \in Kind \cup {"request"}, NEW o \in {"response", "timeout", "error"},
         Queued(i), queue[i].callback, pc # "callback", cur' = i,
         queue' = InCallback(i, k), Tell(queue[i].req, o)
  PROVE  AttemptsInv'
<1>1. queue[i].req \in Req /\ queue[i].req \notin SyncReq /\ cur = 0 /\ 0 \notin Rid
  BY DEF IInv, TypeOK, Msg, Queued, EngineInv, Rid
<1>2. \A r \in Req : Waiting(r)' <=> Waiting(r)
  BY <1>1, TellEffect DEF Waiting, IInv
<1>3. /\ queue'[i].req = queue[i].req /\ queue'[i].reports = queue[i].reports
      /\ \A j \in Rid : j # i => queue'[j] = queue[j]
  BY DEF InCallback, IInv, TypeOK, Msg
<1>4. QED
  BY <1>1, <1>2, <1>3, NoneSentAgain

\* A blocking call returns: nobody waits any more.
LEMMA CallReturned ==
  ASSUME IInv, AttemptsInv, NEW r \in Req, Waiting(r), NEW o \in {"response", "timeout", "error"},
         Tell(r, o), blocked' = 0, issued' = issued, BoundedReports',
         \A s \in Req : s # r => attempts'[s] = attempts[s],
         \A id \in Rid : \/ ~queue'[id].callback
                         \/ queue'[id] = queue[id]
  PROVE  AttemptsInv'
<1>1. \A s \in Req : ~Waiting(s)'
  BY TellEffect DEF AttemptsInv, Waiting, IInv
<1>2. ASSUME NEW id \in Rid, queue'[id].callback PROVE Counted(id)'
  <2>1. queue'[id] = queue[id] /\ queue[id].callback /\ Queued(id) /\ queue[id].req \in Req
        /\ queue[id].req \notin SyncReq
    BY <1>2 DEF IInv, EngineInv, TypeOK, Msg, Queued
  <2>2. queue[id].req # r
    BY <2>1 DEF Waiting
  <2>3. QED
    BY <2>1, <2>2 DEF AttemptsInv, Counted
<1>3. \A s \in Req : ~issued'[s] => attempts'[s] = 0
  BY DEF AttemptsInv, Waiting
<1>4. 0 \notin Rid
  BY DEF Rid
<1>5. QED
  BY <1>1, <1>2, <1>3, <1>4 DEF AttemptsInv, BlockedOwn

\* Every step keeps AttemptsInv.
LEMMA AttemptsStep == IInv /\ AttemptsInv /\ [Next]_vars => AttemptsInv'
<1> SUFFICES ASSUME IInv, AttemptsInv, [Next]_vars PROVE AttemptsInv'
  OBVIOUS
<1>q. queue \in [Rid -> Msg] /\ \A id \in Rid : queue[id] \in Msg
  BY DEF IInv, TypeOK
<1>p. \A p \in net : p.id \in Rid /\ p.req \in Req
  BY DEF IInv, TypeOK
<1>k. \A r : KindsFor(r) \subseteq Kind
  BY DEF KindsFor, Kind
<1>z. 0 \notin Rid /\ cur \in Rid \cup {0} /\ blocked \in Rid \cup {0}
  BY DEF IInv, TypeOK, Rid
<1>r. \A id \in Rid : Queued(id) => queue[id].req \in Req
  BY <1>q DEF Queued, Msg
<1>f. /\ NoMsg.req = NoReq /\ ~NoMsg.callback
      /\ \A r, n : /\ NewMsg(r, n).req = r /\ NewMsg(r, n).reports = n
                   /\ NewMsg(r, n).callback <=> r \notin SyncReq
  BY DEF NoMsg, NewMsg
\* A message that holds no callback is deleted or nothing changes but types,
\* timers and retry counts.
<1>same. ASSUME UNCHANGED <<attempts, issued, told, blocked>>,
                \A id \in Rid :
                  \/ queue'[id] = NoMsg
                  \/ /\ queue'[id].req = queue[id].req
                     /\ queue'[id].reports = queue[id].reports
                     /\ queue'[id].callback = queue[id].callback
                     /\ cur = id => cur' = id
         PROVE  AttemptsInv'
  <2>1. \A r \in Req : Waiting(r)' <=> Waiting(r)
    BY <1>same DEF Waiting
  <2>2. QED
    BY <1>same, <2>1, <1>f, NoneSentAgain
<1>1. ASSUME NEW r \in Req, NEW id \in Rid, Issue(r, id) PROVE AttemptsInv'
  <2>1. /\ attempts' = [attempts EXCEPT ![r] = @ + 1]
        /\ queue' = [queue EXCEPT ![id] = NewMsg(r, 0)] /\ queue[id].req = NoReq
        /\ issued' = [issued EXCEPT ![r] = TRUE] /\ ~issued[r]
        /\ blocked' = IF r \in SyncReq THEN id ELSE blocked
        /\ UNCHANGED <<cur, told>>
    BY <1>1, FreeRid DEF Issue, EngineSends
  <2>2. attempts[r] = 0 /\ told[r] = <<>> /\ attempts'[r] = 1
        /\ \A s \in Req : s # r => attempts'[s] = attempts[s]
    BY <2>1, 0 + 1 = 1, SentOnce DEF AttemptsInv, IInv, EngineInv
  <2>3. queue'[id] = NewMsg(r, 0) /\ \A j \in Rid : j # id => queue'[j] = queue[j]
    BY <2>1, <1>q
  <2>4. issued'[r] /\ \A s \in Req : s # r => (issued'[s] <=> issued[s])
    BY <2>1 DEF IInv, TypeOK
  <2>5. \A j \in Rid : queue[j].callback => queue[j].req # r /\ queue[j].req \in Req
    <3>1. SUFFICES ASSUME NEW j \in Rid, queue[j].callback, queue[j].req = r PROVE FALSE
      BY <1>r DEF IInv, EngineInv
    <3>2. Owns(j, r)
      BY <3>1 DEF Owns
    <3>3. QED
      BY <3>2, <2>1 DEF IInv, OneCallbackOwner, Pending
  <2>6. \A j \in Rid : queue'[j].callback => Counted(j)'
    BY <2>1, <2>2, <2>3, <2>5, <1>f DEF AttemptsInv, Counted
  <2>7. BoundedReports'
    BY <2>2 DEF AttemptsInv, BoundedReports
  <2>8. \A s \in Req : ~issued'[s] => attempts'[s] = 0
    BY <2>2, <2>4 DEF AttemptsInv
  <2>9. CASE r \in SyncReq
    <3>1. blocked = 0 /\ blocked' = id
      BY <1>1, <2>1, <2>9 DEF Issue, MayIssue
    <3>2. \A s \in Req : Waiting(s)' <=> s = r
      BY <2>1, <2>2, <2>4, <2>9, <3>1 DEF AttemptsInv, Waiting
    <3>3. BlockedOwn'
      <4>1. queue'[id].req = r /\ queue'[id].reports = 0
        BY <2>3, <1>f
      <4>2. attempts'[r] <= 0 + 1 /\ r \in SyncReq /\ issued'[r] /\ told'[r] = <<>>
        BY <2>1, <2>2, <2>4, <2>9
      <4>3. QED
        BY <3>1, <4>1, <4>2 DEF BlockedOwn, Waiting, Counted
    <3>4. QED
      BY <2>6, <2>7, <2>8, <3>1, <3>2, <3>3, <1>z DEF AttemptsInv
  <2>10. CASE r \notin SyncReq
    <3>1. blocked' = blocked /\ \A s \in Req : Waiting(s)' <=> Waiting(s)
      BY <2>1, <2>4, <2>10 DEF Waiting
    <3>2. \A s \in Req : Waiting(s) => Waiting(s)' /\ attempts'[s] = attempts[s]
      BY <2>1, <2>2, <3>1 DEF Waiting
    <3>3. BlockedOwn'
      BY <2>1, <2>3, <2>10, <3>1, <3>2, <1>f, BlockedKept DEF AttemptsInv
    <3>4. \A s \in Req : Waiting(s)' => blocked' # 0 /\ \A t \in Req : Waiting(t)' => s = t
      BY <3>1 DEF AttemptsInv
    <3>5. QED
      BY <2>6, <2>7, <2>8, <3>3, <3>4 DEF AttemptsInv
  <2>11. QED
    BY <2>9, <2>10
<1>2. ASSUME NEW r \in Req, NEW id \in Rid, IssueFails(r, id) PROVE AttemptsInv'
  <2>1. /\ attempts' = [attempts EXCEPT ![r] = @ + 1] /\ queue' = queue
        /\ issued' = [issued EXCEPT ![r] = TRUE] /\ ~issued[r]
        /\ Tell(r, "error") /\ UNCHANGED <<cur, blocked>>
    BY <1>2 DEF IssueFails, EngineFails, threadVars
  <2>2. attempts[r] = 0 /\ attempts'[r] = 1
        /\ \A s \in Req : s # r => attempts'[s] = attempts[s]
    BY <2>1, 0 + 1 = 1, SentOnce DEF AttemptsInv
  <2>3. issued'[r] /\ \A s \in Req : s # r => (issued'[s] <=> issued[s])
    BY <2>1 DEF IInv, TypeOK
  <2>4. \A s \in Req : Waiting(s)' <=> Waiting(s)
    BY <2>1, <2>3, TellEffect DEF Waiting, IInv
  <2>5. \A j \in Rid : queue[j].callback => queue[j].req # r /\ queue[j].req \in Req
    <3>1. SUFFICES ASSUME NEW j \in Rid, queue[j].callback, queue[j].req = r PROVE FALSE
      BY <1>r DEF IInv, EngineInv
    <3>2. Owns(j, r)
      BY <3>1 DEF Owns
    <3>3. QED
      BY <3>2, <2>1 DEF IInv, OneCallbackOwner, Pending
  <2>6. \A j \in Rid : queue'[j].callback => Counted(j)'
    BY <2>1, <2>2, <2>5 DEF AttemptsInv, Counted
  <2>7. BoundedReports'
    BY <2>2 DEF AttemptsInv, BoundedReports
  <2>8. BlockedOwn'
    <3>1. \A s \in Req : Waiting(s) => Waiting(s)' /\ attempts'[s] = attempts[s]
      BY <2>1, <2>2, <2>4 DEF Waiting
    <3>2. QED
      BY <2>1, <3>1, BlockedKept DEF AttemptsInv
  <2>9. /\ \A s \in Req : ~issued'[s] => attempts'[s] = 0
        /\ \A s \in Req : Waiting(s)' => blocked' # 0 /\ \A t \in Req : Waiting(t)' => s = t
    BY <2>1, <2>2, <2>3, <2>4 DEF AttemptsInv
  <2>10. QED
    BY <2>6, <2>7, <2>8, <2>9 DEF AttemptsInv
<1>3. CASE ProcessEvents
  BY <1>3, <1>same DEF ProcessEvents, historyVars
<1>4. ASSUME NEW p \in net, NEW k \in KindsFor(p.req), IgnoreAnswer(p, k) PROVE AttemptsInv'
  BY <1>4, <1>same DEF IgnoreAnswer, vars, threadVars, historyVars
<1>5. ASSUME NEW p \in net, NEW k \in KindsFor(p.req), AnswerSync(p, k) PROVE AttemptsInv'
  <2>1. \A id \in Rid : /\ queue'[id].req = queue[id].req
                        /\ queue'[id].reports = queue[id].reports
                        /\ queue'[id].callback = queue[id].callback
    BY <1>5, <1>p, <1>q DEF AnswerSync, Msg
  <2>2. QED
    BY <1>5, <2>1, <1>same DEF AnswerSync, threadVars
<1>6. ASSUME NEW p \in net, NEW k \in KindsFor(p.req), AnswerAsync(p, k) PROVE AttemptsInv'
  <2>1. /\ p.id \in Rid /\ k \in Kind /\ Queued(p.id) /\ queue[p.id].callback
        /\ pc # "callback" /\ cur' = p.id /\ queue' = InCallback(p.id, k)
        /\ Tell(queue[p.id].req, "response") /\ UNCHANGED <<attempts, issued, blocked>>
    BY <1>6, <1>p, <1>k DEF AnswerAsync, Accepts
  <2>2. QED
    BY <2>1, CalledBack
<1>7. ASSUME NEW p \in net, NEW k \in KindsFor(p.req), NEW id \in Rid, AnswerHidden(p, k, id)
      PROVE AttemptsInv'
  <2> DEFINE r == queue[p.id].req
             n == queue[p.id].reports
  <2>1. /\ p.id \in Rid /\ queue[p.id].callback /\ r \in V3Req /\ r \in Req /\ r \notin SyncReq
        /\ n \in 0..1 /\ queue[id].req = NoReq
        /\ attempts' = [attempts EXCEPT ![r] = @ + 1]
        /\ queue' = [[queue EXCEPT ![p.id] = NoMsg] EXCEPT ![id] = NewMsg(r, n + 1)]
        /\ UNCHANGED <<cur, blocked, issued, told>>
    BY <1>7, <1>p, <1>q, FreeRid
       DEF AnswerHidden, EngineSends, Hidden, HideAsync, threadVars, IInv, EngineInv, Msg
  <2>2. /\ queue'[id] = NewMsg(r, n + 1)
        /\ p.id # id => queue'[p.id] = NoMsg
        /\ \A j \in Rid : j # id /\ j # p.id => queue'[j] = queue[j]
    BY <2>1, <1>q
  <2>3. /\ attempts'[r] = attempts[r] + 1 /\ attempts[r] \in Nat /\ attempts[r] <= n + 1
        /\ \A s \in Req : s # r => attempts'[s] = attempts[s]
    BY <2>1, SentOnce DEF AttemptsInv, Counted
  <2>4. Owns(p.id, r) /\ issued[r]
    BY <2>1 DEF Owns, IInv, OneCallbackOwner, Pending
  <2>5. ASSUME NEW j \in Rid, queue'[j].callback PROVE Counted(j)'
    <3>1. CASE j = id
      BY <3>1, <2>1, <2>2, <2>3, <1>f DEF Counted
    <3>2. CASE j # id
      <4>1. j # p.id /\ queue'[j] = queue[j] /\ queue[j].callback /\ queue[j].req \in Req
        BY <3>2, <2>2, <2>5, <1>f, <1>r DEF IInv, EngineInv
      <4>2. queue[j].req # r
        BY <4>1, <2>1, <2>4 DEF Owns, IInv, OneCallbackOwner
      <4>3. QED
        BY <4>1, <4>2, <2>3 DEF AttemptsInv, Counted
    <3>3. QED
      BY <3>1, <3>2
  <2>6. BoundedReports'
    <3>1. attempts'[r] <= 3
      BY <2>1, <2>3
    <3>2. QED
      BY <2>1, <2>3, <3>1 DEF AttemptsInv, BoundedReports
  <2>7. \A s \in Req : Waiting(s)' <=> Waiting(s)
    BY <2>1 DEF Waiting
  <2>8. BlockedOwn'
    <3>1. \A s \in Req : Waiting(s) => Waiting(s)' /\ attempts'[s] = attempts[s]
      BY <2>1, <2>3, <2>7 DEF Waiting
    <3>2. queue'[id].callback /\ (p.id # id => queue'[p.id].req = NoReq)
      BY <2>1, <2>2, <1>f
    <3>3. ASSUME blocked \in Rid, blocked # id, blocked # p.id
          PROVE  queue'[blocked] = queue[blocked]
      BY <2>2, <3>3
    <3>4. BlockedOwn
      BY DEF AttemptsInv
    <3>5. QED
      BY <2>1, <3>1, <3>2, <3>3, <3>4, <1>z, BlockedKept
  <2>9. /\ \A s \in Req : ~issued'[s] => attempts'[s] = 0
        /\ \A s \in Req : Waiting(s)' => blocked' # 0 /\ \A t \in Req : Waiting(t)' => s = t
    BY <2>1, <2>3, <2>4, <2>7 DEF AttemptsInv
  <2>10. QED
    BY <2>5, <2>6, <2>8, <2>9 DEF AttemptsInv
<1>8. ASSUME NEW p \in net, NEW k \in KindsFor(p.req), NEW id \in Rid,
             AnswerHiddenFails(p, k, id)
      PROVE AttemptsInv'
  <2> DEFINE r == queue[p.id].req
  <2>1. /\ p.id \in Rid /\ k \in Kind /\ queue[p.id].callback /\ Queued(p.id)
        /\ r \in V3Req /\ r \in Req /\ r \notin SyncReq
        /\ queue[p.id].reports \in 0..1 /\ cur = 0
        /\ attempts' = [attempts EXCEPT ![r] = @ + 1]
        /\ queue' = InCallback(p.id, k) /\ cur' = p.id /\ Tell(r, "error")
        /\ UNCHANGED <<blocked, issued>>
    BY <1>8, <1>p, <1>k, <1>q, <1>r, <1>z
       DEF AnswerHiddenFails, EngineFails, Accepts, Hidden, HideAsync, IInv, EngineInv, Msg
  <2>2. /\ queue'[p.id].req = r /\ ~queue'[p.id].callback
        /\ \A j \in Rid : j # p.id => queue'[j] = queue[j]
    BY <2>1, <1>q DEF InCallback, Msg
  <2>3. /\ attempts'[r] = attempts[r] + 1 /\ attempts[r] \in Nat
        /\ attempts[r] <= queue[p.id].reports + 1
        /\ \A s \in Req : s # r => attempts'[s] = attempts[s]
    BY <2>1, SentOnce DEF AttemptsInv, Counted
  <2>4. Owns(p.id, r) /\ issued[r]
    BY <2>1 DEF Owns, IInv, OneCallbackOwner, Pending
  <2>5. ASSUME NEW j \in Rid, queue'[j].callback PROVE Counted(j)'
    <3>1. j # p.id /\ queue'[j] = queue[j] /\ queue[j].callback /\ queue[j].req \in Req
      BY <2>2, <2>5, <1>r DEF IInv, EngineInv
    <3>2. queue[j].req # r
      BY <3>1, <2>1, <2>4 DEF Owns, IInv, OneCallbackOwner
    <3>3. QED
      BY <3>1, <3>2, <2>3 DEF AttemptsInv, Counted
  <2>6. BoundedReports'
    <3>1. attempts'[r] <= 3
      BY <2>1, <2>3
    <3>2. QED
      BY <2>1, <2>3, <3>1 DEF AttemptsInv, BoundedReports
  <2>7. \A s \in Req : Waiting(s)' <=> Waiting(s)
    BY <2>1, TellEffect DEF Waiting, IInv
  <2>8. BlockedOwn'
    <3>1. \A s \in Req : Waiting(s) => Waiting(s)' /\ attempts'[s] = attempts[s]
      BY <2>1, <2>3, <2>7 DEF Waiting
    <3>2. QED
      BY <2>1, <2>2, <3>1, <1>f, <1>z, BlockedKept DEF AttemptsInv
  <2>9. /\ \A s \in Req : ~issued'[s] => attempts'[s] = 0
        /\ \A s \in Req : Waiting(s)' => blocked' # 0 /\ \A t \in Req : Waiting(t)' => s = t
    BY <2>1, <2>3, <2>4, <2>7 DEF AttemptsInv
  <2>10. QED
    BY <2>5, <2>6, <2>8, <2>9 DEF AttemptsInv
<1>9. CASE CallbackReturns
  <2>1. cur \in Rid /\ queue' = [queue EXCEPT ![cur] = NoMsg]
        /\ UNCHANGED <<attempts, issued, told, blocked>>
    BY <1>9, <1>z DEF CallbackReturns, historyVars, IInv, EngineInv
  <2>2. queue'[cur] = NoMsg /\ \A j \in Rid : j # cur => queue'[j] = queue[j]
    BY <2>1, <1>q
  <2>3. QED
    BY <2>1, <2>2, <1>same
<1>10. CASE SelectEmpty
  BY <1>10, <1>same DEF SelectEmpty, historyVars
<1>11. CASE RetriesDone
  BY <1>11, <1>same DEF RetriesDone, historyVars
<1>12. ASSUME NEW id \in Rid, RefreshReceived(id) PROVE AttemptsInv'
  <2>1. \A j \in Rid : /\ queue'[j].req = queue[j].req
                       /\ queue'[j].reports = queue[j].reports
                       /\ queue'[j].callback = queue[j].callback
    BY <1>12, <1>q DEF RefreshReceived, Msg
  <2>2. QED
    BY <1>12, <2>1, <1>same DEF RefreshReceived, threadVars, historyVars
<1>13. ASSUME NEW id \in Rid, Resend(id) PROVE AttemptsInv'
  <2>1. \A j \in Rid : /\ queue'[j].req = queue[j].req
                       /\ queue'[j].reports = queue[j].reports
                       /\ queue'[j].callback = queue[j].callback
    BY <1>13, <1>q DEF Resend, Msg
  <2>2. QED
    BY <1>13, <2>1, <1>same DEF Resend, historyVars
<1>14. ASSUME NEW id \in Rid, TimeoutAsync(id) PROVE AttemptsInv'
  <2>1. /\ Queued(id) /\ queue[id].callback /\ pc # "callback" /\ cur' = id
        /\ queue' = InCallback(id, "request") /\ Tell(queue[id].req, "timeout")
        /\ UNCHANGED <<attempts, issued, blocked>>
    BY <1>14 DEF TimeoutAsync, TimedOut, Resendable, NextTimeout
  <2>2. QED
    BY <2>1, CalledBack
<1>15. ASSUME NEW id \in Rid, TimeoutSync(id) PROVE AttemptsInv'
  <2>1. queue'[id] = NoMsg /\ \A j \in Rid : j # id => queue'[j] = queue[j]
    BY <1>15, <1>q DEF TimeoutSync
  <2>2. QED
    BY <1>15, <2>1, <1>same DEF TimeoutSync, threadVars, historyVars
<1>16. ASSUME NEW r \in Req, SyncReturns(r) PROVE AttemptsInv'
  <2>1. blocked \in Rid /\ queue' = [queue EXCEPT ![blocked] = NoMsg]
        /\ Waiting(r) /\ Tell(r, "response") /\ blocked' = 0 /\ UNCHANGED <<attempts, issued>>
    BY <1>16, <1>z DEF SyncReturns, BlockReady
  <2>2. queue'[blocked] = NoMsg /\ \A j \in Rid : j # blocked => queue'[j] = queue[j]
    BY <2>1, <1>q
  <2>3. BoundedReports'
    BY <2>1 DEF AttemptsInv, BoundedReports
  <2>4. QED
    BY <2>1, <2>2, <2>3, <1>f, CallReturned
<1>17. ASSUME NEW r \in Req, SyncMisses(r) PROVE AttemptsInv'
  <2>1. /\ Waiting(r) /\ Tell(r, "timeout") /\ blocked' = 0
        /\ UNCHANGED <<queue, attempts, issued>>
    BY <1>17 DEF SyncMisses
  <2>2. BoundedReports'
    BY <2>1 DEF AttemptsInv, BoundedReports
  <2>3. QED
    BY <2>1, <2>2, CallReturned
\* The message a report to a blocking call has come back for.
<1>again. ASSUME NEW r \in Req, BlockReady, Waiting(r), Queued(blocked), SyncLoops(queue[blocked]),
                 attempts' = [attempts EXCEPT ![r] = @ + 1]
          PROVE  /\ blocked \in Rid /\ queue[blocked].req = r /\ r \in V3Req
                 /\ NextLoop(queue[blocked].type, queue[blocked].reports) \in 1..2
                 /\ attempts'[r] <= NextLoop(queue[blocked].type, queue[blocked].reports) + 1
                 /\ attempts'[r] \in Nat /\ attempts'[r] <= 3
                 /\ \A s \in Req : s # r => attempts'[s] = attempts[s]
                 /\ BoundedReports'
  <2>1. /\ blocked \in Rid /\ pc = "idle" /\ cur = 0 /\ ~queue[blocked].callback
        /\ queue[blocked].reports \in 0..2
    BY <1>again, <1>z, <1>q DEF BlockReady, Done, IInv, EngineInv, Msg
  <2>2. /\ queue[blocked].req \in Req
        /\ Waiting(queue[blocked].req) /\ Counted(blocked)
    BY <1>again, <2>1, <1>r, <1>z DEF AttemptsInv, BlockedOwn
  <2>3. queue[blocked].req = r /\ r \in V3Req
    BY <1>again, <2>2 DEF AttemptsInv, SyncLoops
  <2>4. /\ NextLoop(queue[blocked].type, queue[blocked].reports) \in 1..2
        /\ NextLoop(queue[blocked].type, queue[blocked].reports) >= queue[blocked].reports + 1
    BY <1>again, <2>1 DEF SyncLoops, NextLoop
  <2>5. /\ attempts'[r] = attempts[r] + 1 /\ attempts[r] \in Nat
        /\ attempts[r] <= queue[blocked].reports + 1
        /\ \A s \in Req : s # r => attempts'[s] = attempts[s]
    BY <1>again, <2>2, <2>3, SentOnce DEF Counted
  <2>6. attempts'[r] <= 3
    BY <2>1, <2>4, <2>5
  <2>7. BoundedReports'
    BY <2>3, <2>5, <2>6 DEF AttemptsInv, BoundedReports
  <2>8. QED
    BY <2>1, <2>3, <2>4, <2>5, <2>6, <2>7
<1>18. ASSUME NEW r \in Req, NEW id \in Rid, SyncTriesAgain(r, id) PROVE AttemptsInv'
  <2> DEFINE n == NextLoop(queue[blocked].type, queue[blocked].reports)
  <2>1. /\ attempts' = [attempts EXCEPT ![r] = @ + 1]
        /\ queue' = [[queue EXCEPT ![blocked] = NoMsg] EXCEPT ![id] = NewMsg(r, n)]
        /\ blocked' = id /\ Waiting(r) /\ UNCHANGED <<cur, issued, told>>
    BY <1>18 DEF SyncTriesAgain, EngineSends
  <2>2. /\ blocked \in Rid /\ queue[blocked].req = r /\ n \in 1..2 /\ BoundedReports'
        /\ attempts'[r] <= n + 1
        /\ \A s \in Req : s # r => attempts'[s] = attempts[s]
    BY <1>18, <2>1, <1>again DEF SyncTriesAgain
  <2>3. /\ queue'[id] = NewMsg(r, n)
        /\ blocked # id => queue'[blocked] = NoMsg
        /\ \A j \in Rid : j # id /\ j # blocked => queue'[j] = queue[j]
    BY <2>1, <2>2, <1>q
  <2>4. r \in SyncReq /\ issued[r]
    BY <2>1 DEF Waiting
  <2>5. ASSUME NEW j \in Rid, queue'[j].callback PROVE Counted(j)'
    <3>1. j # id /\ queue'[j] = queue[j] /\ queue[j].callback /\ queue[j].req \in Req
      BY <2>3, <2>4, <2>5, <1>f, <1>r DEF IInv, EngineInv
    <3>2. queue[j].req # r
      BY <3>1, <2>4 DEF IInv, EngineInv
    <3>3. QED
      BY <3>1, <3>2, <2>2 DEF AttemptsInv, Counted
  <2>6. \A s \in Req : Waiting(s)' <=> Waiting(s)
    BY <2>1 DEF Waiting
  <2>7. BlockedOwn'
    <3>1. queue'[id].req = r /\ queue'[id].reports = n
      BY <2>3, <1>f
    <3>2. r \in SyncReq /\ issued'[r] /\ told'[r] = <<>>
      BY <2>1 DEF Waiting
    <3>3. QED
      BY <2>1, <2>2, <3>1, <3>2 DEF BlockedOwn, Waiting, Counted
  <2>8. \A s \in Req : ~issued'[s] => attempts'[s] = 0
    BY <2>1, <2>2, <2>4 DEF AttemptsInv
  <2>9. QED
    BY <2>1, <2>2, <2>5, <2>6, <2>7, <2>8, <1>z DEF AttemptsInv
<1>19. ASSUME NEW r \in Req, NEW id \in Rid, SyncTriesAgainFails(r, id) PROVE AttemptsInv'
  <2>1. /\ attempts' = [attempts EXCEPT ![r] = @ + 1]
        /\ queue' = [queue EXCEPT ![blocked] = NoMsg]
        /\ blocked' = 0 /\ Waiting(r) /\ Tell(r, "error") /\ UNCHANGED issued
    BY <1>19 DEF SyncTriesAgainFails, EngineFails
  <2>2. /\ blocked \in Rid /\ BoundedReports'
        /\ \A s \in Req : s # r => attempts'[s] = attempts[s]
    BY <1>19, <2>1, <1>again DEF SyncTriesAgainFails
  <2>3. queue'[blocked] = NoMsg /\ \A j \in Rid : j # blocked => queue'[j] = queue[j]
    BY <2>1, <2>2, <1>q
  <2>4. QED
    BY <2>1, <2>2, <2>3, <1>f, CallReturned
<1>20. CASE Tick
  <2>1. \A j \in Rid : /\ queue'[j].req = queue[j].req
                       /\ queue'[j].reports = queue[j].reports
                       /\ queue'[j].callback = queue[j].callback
    BY <1>20, <1>q DEF Tick, Msg
  <2>2. QED
    BY <1>20, <2>1, <1>same DEF Tick, historyVars
<1>21. CASE UNCHANGED vars
  BY <1>21, <1>same DEF vars, threadVars, historyVars
<1>22. QED
  BY <1>1, <1>2, <1>3, <1>4, <1>5, <1>6, <1>7, <1>8, <1>9, <1>10, <1>11, <1>12,
     <1>13, <1>14, <1>15, <1>16, <1>17, <1>18, <1>19, <1>20, <1>21
     DEF Next, Engine, HandleEvents, DoRetries, BlockForResponse

LEMMA AttemptsInit == Init => AttemptsInv
<1> SUFFICES ASSUME Init PROVE AttemptsInv
  OBVIOUS
<1>1. \A id \in Rid : ~queue[id].callback
  BY DEF Init, NoMsg
<1>2. blocked = 0 /\ 0 \notin Rid /\ \A r \in Req : ~issued[r] /\ attempts[r] = 0
  BY DEF Init, Rid
<1>3. QED
  BY <1>1, <1>2 DEF AttemptsInv, BoundedReports, BlockedOwn, Waiting

\* snmp_engine's loop and v3CallBack: whatever reports an agent answers with,
\* a request is sent at most three times over SNMPv3 and once otherwise
\* (retransmissions apart).
THEOREM ReportsBounded == Spec => []BoundedReports
<1>1. AttemptsInv => BoundedReports
  BY DEF AttemptsInv
<1>2. QED
  BY <1>1, Invariance, AttemptsInit, AttemptsStep, PTL DEF Spec
-----------------------------------------------------------------------------
\* The callback of message i is one that its issuer still waits for, so
\* making it is a Complete step of the service.
LEMMA CompletesAsync ==
  ASSUME IInv, NEW i \in Rid, NEW o \in {"response", "timeout", "error"},
         Queued(i), queue[i].callback, Tell(queue[i].req, o), issued' = issued
  PROVE  Service!Next
<1> DEFINE r == queue[i].req
<1>1. r \in Req
  BY DEF IInv, TypeOK, Msg, Queued
<1>2. issued[r] /\ told[r] = <<>>
  BY <1>1 DEF IInv, OneCallbackOwner, Owns, Pending
<1>3. told' = [told EXCEPT ![r] = <<o>>]
  BY <1>1, <1>2, TellEffect DEF IInv
<1>4. Service!Complete(r)
  BY <1>2, <1>3 DEF Service!Complete, Service!Outcome
<1>5. QED
  BY <1>1, <1>4 DEF Service!Next

\* The same for the return of a blocking call.
LEMMA CompletesSync ==
  ASSUME IInv, NEW r \in Req, NEW o \in {"response", "timeout", "error"},
         Waiting(r), Tell(r, o), issued' = issued
  PROVE  Service!Next
<1>1. issued[r] /\ told[r] = <<>>
  BY DEF Waiting
<1>2. told' = [told EXCEPT ![r] = <<o>>]
  BY <1>1, TellEffect DEF IInv
<1>3. Service!Complete(r)
  BY <1>1, <1>2 DEF Service!Complete, Service!Outcome
<1>4. QED
  BY <1>3 DEF Service!Next

\* Every step of the engine is a step of the service or changes nothing that
\* the service shows.
LEMMA ServiceStep == IInv /\ [Next]_vars => [Service!Next]_(Service!vars)
<1> SUFFICES ASSUME IInv, [Next]_vars
             PROVE  Service!Next \/ (issued' = issued /\ told' = told)
  BY DEF Service!vars
<1>p. \A p \in net : p.id \in Rid /\ p.req \in Req
  BY DEF IInv, TypeOK
<1>1. ASSUME NEW r \in Req, NEW id \in Rid, Issue(r, id) PROVE Service!Next
  <2>1. Service!Issue(r)
    BY <1>1 DEF Issue, Service!Issue
  <2>2. QED
    BY <2>1 DEF Service!Next
<1>2. ASSUME NEW r \in Req, NEW id \in Rid, IssueFails(r, id) PROVE Service!Next
  <2>1. told[r] = <<>>
    BY <1>2 DEF IssueFails, IInv, EngineInv
  <2>2. told' = [told EXCEPT ![r] = <<"error">>]
    BY <1>2, <2>1, TellEffect DEF IssueFails, IInv
  <2>3. Service!Refuse(r)
    BY <1>2, <2>2 DEF IssueFails, Service!Refuse
  <2>4. QED
    BY <2>3 DEF Service!Next
<1>3. ASSUME NEW p \in net, NEW k \in KindsFor(p.req), AnswerAsync(p, k) PROVE Service!Next
  BY <1>3, <1>p, CompletesAsync DEF AnswerAsync, Accepts
<1>4. ASSUME NEW p \in net, NEW k \in KindsFor(p.req), NEW id \in Rid,
             AnswerHiddenFails(p, k, id)
      PROVE Service!Next
  BY <1>4, <1>p, CompletesAsync DEF AnswerHiddenFails, Accepts
<1>5. ASSUME NEW id \in Rid, TimeoutAsync(id) PROVE Service!Next
  BY <1>5, CompletesAsync DEF TimeoutAsync, TimedOut, Resendable, NextTimeout
<1>6. ASSUME NEW r \in Req, SyncReturns(r) PROVE Service!Next
  BY <1>6, CompletesSync DEF SyncReturns
<1>7. ASSUME NEW r \in Req, SyncMisses(r) PROVE Service!Next
  BY <1>7, CompletesSync DEF SyncMisses
<1>8. ASSUME NEW r \in Req, NEW id \in Rid, SyncTriesAgainFails(r, id) PROVE Service!Next
  BY <1>8, CompletesSync DEF SyncTriesAgainFails
<1> DEFINE Silent == issued' = issued /\ told' = told
<1>9. ASSUME NEW p \in net, NEW k \in KindsFor(p.req),
             IgnoreAnswer(p, k) \/ AnswerSync(p, k)
      PROVE Silent
  BY <1>9 DEF IgnoreAnswer, AnswerSync, vars, historyVars
<1>10. ASSUME NEW p \in net, NEW k \in KindsFor(p.req), NEW id \in Rid,
              AnswerHidden(p, k, id)
       PROVE Silent
  BY <1>10 DEF AnswerHidden
<1>11. ASSUME NEW id \in Rid, RefreshReceived(id) \/ Resend(id) \/ TimeoutSync(id)
       PROVE Silent
  BY <1>11 DEF RefreshReceived, Resend, TimeoutSync, historyVars
<1>12. ASSUME NEW r \in Req, NEW id \in Rid, SyncTriesAgain(r, id) PROVE Silent
  BY <1>12 DEF SyncTriesAgain
<1>13. ASSUME \/ ProcessEvents \/ CallbackReturns \/ SelectEmpty \/ RetriesDone
              \/ Tick \/ UNCHANGED vars
       PROVE Silent
  BY <1>13 DEF ProcessEvents, CallbackReturns, SelectEmpty, RetriesDone, Tick,
     vars, historyVars
<1>14. QED
  BY <1>1, <1>2, <1>3, <1>4, <1>5, <1>6, <1>7, <1>8, <1>9, <1>10, <1>11, <1>12, <1>13
     DEF Next, Engine, HandleEvents, DoRetries, BlockForResponse

\* snmp_engine, the message queue and the event loop implement the promise
\* the application relies on: every request is answered at most once, with
\* one outcome, and nothing is answered that was not asked.
THEOREM Implements == Spec => ServiceSpec
<1>1. Init => Service!Init
  BY DEF Init, Service!Init
<1>2. QED
  BY <1>1, Invariance, ServiceStep, PTL DEF Spec, ServiceSpec, Service!Spec
-----------------------------------------------------------------------------
(***************************************************************************)
(* OwnAnswer.  The ids go round: the id of a datagram comes again when as  *)
(* many sends were made as there are ids.  Until then every datagram and   *)
(* every queued message carries one of the ids taken last, so MyMakeReqId  *)
(* takes the id after current_rid, which nothing in the queue or on the    *)
(* way uses; an accepted answer is then one to the message that is queued. *)
(***************************************************************************)
\* The calls of snmp_engine's send so far: the n-th one for request r.
Sends == {s \in Req \X Nat : s[2] \in 1 .. attempts[s[1]]}

Rids == MaxRid - MinRid + 1

\* How many ids were taken since id was, at least, and that fewer than
\* there were sends.
Age(id) == Rids - Ahead(id)
Recent(id) == Age(id) < Cardinality(Sends)

Fresh ==
  /\ \A p \in net : Recent(p.id)
  /\ \A id \in Rid : Queued(id) => Recent(id)
  /\ \A p \in net : Queued(p.id) => queue[p.id].req = p.req
  /\ OwnAnswer

FreshInv == IsFiniteSet(Sends) /\ (Cardinality(Sends) <= Rids => Fresh)

\* Where an id stands after current_rid: every place but the last one is the
\* place of another id, and the id at the first place is unique.
LEMMA Places ==
  ASSUME current_rid \in Rid
  PROVE  /\ Rids \in Nat
         /\ \A id \in Rid : Ahead(id) \in 1 .. Rids
         /\ \E id \in Rid : Ahead(id) = 1
         /\ \A i, j \in Rid : Ahead(i) = Ahead(j) => i = j
<1>1. \A id \in Rid : Ahead(id) \in 1 .. Rids
  BY DEF Ahead, Rid, Rids
<1>2. \E id \in Rid : Ahead(id) = 1
  <2>1. CASE current_rid = MaxRid
    BY <2>1 DEF Ahead, Rid
  <2>2. CASE current_rid # MaxRid
    <3>1. current_rid + 1 \in Rid /\ Ahead(current_rid + 1) = 1
      BY <2>2 DEF Ahead, Rid
    <3>2. QED
      BY <3>1
  <2>3. QED
    BY <2>1, <2>2
<1>3. \A i, j \in Rid : Ahead(i) = Ahead(j) => i = j
  BY DEF Ahead, Rid
<1>4. QED
  BY <1>1, <1>2, <1>3 DEF Rids

\* Taking the id after current_rid makes every other id one step older.
LEMMA Older ==
  ASSUME current_rid \in Rid, NEW id \in Rid, Ahead(id) = 1, current_rid' = id
  PROVE  /\ Age(id)' = 0
         /\ \A j \in Rid : j # id => Age(j)' = Age(j) + 1
BY DEF Ahead, Age, Rid, Rids

\* A send is one more.
LEMMA OneMoreSend ==
  ASSUME TypeOK, NEW r \in Req, attempts' = [attempts EXCEPT ![r] = @ + 1],
         IsFiniteSet(Sends)
  PROVE  /\ IsFiniteSet(Sends')
         /\ Cardinality(Sends)' = Cardinality(Sends) + 1
         /\ Cardinality(Sends) \in Nat
<1> DEFINE s == <<r, attempts[r] + 1>>
<1>1. attempts \in [Req -> Nat]
  BY DEF TypeOK
<1>2. s \notin Sends
  BY <1>1 DEF Sends
<1>3. Sends' = Sends \cup {s}
  <2>1. \A x \in Req, n \in Nat :
          n \in 1 .. attempts'[x] <=> (n \in 1 .. attempts[x] \/ (x = r /\ n = attempts[r] + 1))
    BY <1>1
  <2>2. \A x \in Req, n \in Nat : <<x, n>> \in Sends' <=> <<x, n>> \in Sends \cup {s}
    BY <1>1, <2>1 DEF Sends
  <2>3. Sends' \subseteq Req \X Nat /\ Sends \cup {s} \subseteq Req \X Nat
    BY <1>1 DEF Sends
  <2>4. QED
    BY <2>2, <2>3
<1>4. QED
  BY <1>2, <1>3, FS_AddElement, FS_CardinalityType

\* A step that takes an id for request r: the ids it passes over are queued.
LEMMA Taken ==
  ASSUME TypeOK, FreshInv, NEW id \in Rid, NEW r \in Req,
         \A j \in Rid : Ahead(j) < Ahead(id) => Queued(j),
         current_rid' = id,
         attempts' = [attempts EXCEPT ![r] = @ + 1],
         \A j \in Rid : Queued(j)' => \/ Queued(j) /\ queue'[j].req = queue[j].req
                                      \/ j = id /\ queue'[j].req = r,
         net' \subseteq net \cup {Datagram(id, r)},
         got' = got
  PROVE  FreshInv'
<1> DEFINE c == Cardinality(Sends)
<1>1. /\ IsFiniteSet(Sends')
      /\ Cardinality(Sends)' = c + 1
      /\ c \in Nat
  BY OneMoreSend DEF FreshInv
<1> SUFFICES ASSUME Cardinality(Sends)' <= Rids PROVE Fresh'
  BY <1>1 DEF FreshInv, Rids
<1>2. current_rid \in Rid /\ \A p \in net : p.id \in Rid /\ p.req \in Req
  BY DEF TypeOK
<1>3. Fresh /\ c + 1 <= Rids
  BY <1>1, <1>2, Places DEF FreshInv
<1>4. PICK next \in Rid : Ahead(next) = 1
  BY <1>2, Places
<1>5. ~Recent(next)
  BY <1>1, <1>2, <1>3, <1>4, Places DEF Recent, Age
<1>6. ~Queued(next) /\ \A p \in net : p.id # next
  BY <1>3, <1>5 DEF Fresh
<1>7. id = next
  <2>1. ~(Ahead(next) < Ahead(id))
    BY <1>6
  <2>2. Ahead(id) \in 1 .. Rids
    BY <1>2, Places
  <2>3. Ahead(id) = 1
    BY <1>2, <1>4, <2>1, <2>2, Places
  <2>4. QED
    BY <1>2, <1>4, <2>3, Places
<1>8. /\ Recent(id)'
      /\ \A j \in Rid : j # id /\ Recent(j) => Recent(j)'
  <2>1. /\ Age(id)' = 0
        /\ \A j \in Rid : j # id => Age(j)' = Age(j) + 1
    BY <1>2, <1>4, <1>7, Older
  <2>2. \A j \in Rid : Age(j) \in Int
    BY <1>2, Places DEF Age
  <2>3. QED
    BY <1>1, <2>1, <2>2 DEF Recent
<1>9. \A p \in net' : p = Datagram(id, r) \/ (p \in net /\ p.id # id)
  BY <1>6, <1>7
<1>10. Datagram(id, r).id = id /\ Datagram(id, r).req = r
  BY DEF Datagram
<1>11. \A p \in net' : Recent(p.id)'
  BY <1>2, <1>3, <1>8, <1>9, <1>10 DEF Fresh
<1>12. \A j \in Rid : Queued(j)' => Recent(j)'
  BY <1>3, <1>8 DEF Fresh
<1>13. \A p \in net' : Queued(p.id)' => queue'[p.id].req = p.req
  <2> SUFFICES ASSUME NEW p \in net', Queued(p.id)' PROVE queue'[p.id].req = p.req
    OBVIOUS
  <2>1. CASE p = Datagram(id, r)
    BY <1>6, <1>7, <1>10, <2>1
  <2>2. CASE p \in net /\ p.id # id
    BY <1>2, <1>3, <2>2 DEF Fresh
  <2>3. QED
    BY <1>9, <2>1, <2>2
<1>14. OwnAnswer'
  BY <1>3 DEF Fresh, OwnAnswer
<1>15. QED
  BY <1>11, <1>12, <1>13, <1>14 DEF Fresh

\* A step that takes none: a datagram is sent again only for a queued
\* message, and an answer is given only to the message with its id.
LEMMA Kept ==
  ASSUME TypeOK, FreshInv,
         current_rid' = current_rid, attempts' = attempts,
         \A j \in Rid : Queued(j)' => Queued(j) /\ queue'[j].req = queue[j].req,
         \A p \in net' : p \in net \/ \E j \in Rid : Queued(j) /\ p = Datagram(j, queue[j].req),
         got' = got \/ \E p \in net : Queued(p.id) /\ Gives(p)
  PROVE  FreshInv'
<1>1. Sends' = Sends
  BY DEF Sends
<1>2. \A j : Recent(j)' <=> Recent(j)
  BY <1>1 DEF Recent, Age, Ahead
<1>3. \A p \in net : p.id \in Rid /\ p.req \in Req
  BY DEF TypeOK
<1> SUFFICES ASSUME Fresh PROVE Fresh'
  BY <1>1 DEF FreshInv, Rids
<1>4. \A p \in net' : p.id \in Rid /\ Recent(p.id) /\ (Queued(p.id) => queue[p.id].req = p.req)
  BY <1>3 DEF Fresh, Datagram
<1>5. OwnAnswer'
  <2>1. CASE got' = got
    BY <2>1 DEF Fresh, OwnAnswer
  <2>2. ASSUME NEW p \in net, Queued(p.id), Gives(p) PROVE OwnAnswer'
    <3>1. queue[p.id].req = p.req /\ got \in [Req -> SUBSET Req]
      BY <2>2 DEF Fresh, TypeOK
    <3>2. got' = [got EXCEPT ![p.req] = @ \cup {p.req}]
      BY <2>2, <3>1 DEF Gives
    <3>3. QED
      BY <3>1, <3>2 DEF Fresh, OwnAnswer
  <2>3. QED
    BY <2>1, <2>2
<1>6. QED
  BY <1>2, <1>4, <1>5 DEF Fresh

\* snmp_engine takes an id: its caller at most frees slots of the queue.
LEMMA EngineTakes ==
  ASSUME TypeOK, FreshInv, NEW id \in Rid, NEW r \in Req, NEW n,
         NEW found, NEW base \in [Rid -> Msg],
         EngineSends(id, r, n, found, base) \/ EngineFails(id, r, found, base),
         \A j \in Rid : queue[j].req = NoReq => found[j].req = NoReq,
         \A j \in Rid : base[j].req # NoReq => base[j].req = queue[j].req,
         got' = got
  PROVE  FreshInv'
<1>1. \A j \in Rid : Queued(j)' => \/ Queued(j) /\ queue'[j].req = queue[j].req
                                   \/ j = id /\ queue'[j].req = r
  <2>1. CASE EngineSends(id, r, n, found, base)
    BY <2>1 DEF EngineSends, NewMsg, Queued
  <2>2. CASE EngineFails(id, r, found, base)
    BY <2>2 DEF EngineFails, Queued
  <2>3. QED
    BY <2>1, <2>2
<1>2. /\ MyMakeReqId(id, found)
      /\ current_rid' = id
      /\ attempts' = [attempts EXCEPT ![r] = @ + 1]
      /\ net' \subseteq net \cup {Datagram(id, r)}
  BY DEF EngineSends, EngineFails
<1>3. ASSUME NEW j \in Rid, Ahead(j) < Ahead(id) PROVE Queued(j)
  <2>1. Ahead(j) \in Int /\ Ahead(id) \in Int
    BY Places DEF TypeOK
  <2>2. j \notin FreeRids(found)
    BY <1>2, <1>3, <2>1 DEF MyMakeReqId
  <2>3. QED
    BY <2>2 DEF FreeRids, Queued
<1>4. \A j \in Rid : Ahead(j) < Ahead(id) => Queued(j)
  BY <1>3
<1>5. current_rid' = id /\ attempts' = [attempts EXCEPT ![r] = @ + 1]
  BY <1>2
<1>6. net' \subseteq net \cup {Datagram(id, r)}
  BY <1>2
<1>7. QED
  BY <1>1, <1>4, <1>5, <1>6, Taken, ZenonT(40)

\* Every step keeps FreshInv.
LEMMA FreshStep == TypeOK /\ FreshInv /\ [Next]_vars => FreshInv'
<1> SUFFICES ASSUME TypeOK, FreshInv, [Next]_vars PROVE FreshInv'
  OBVIOUS
<1>q. queue \in [Rid -> Msg] /\ \A id \in Rid : Queued(id) => queue[id].req \in Req
  BY DEF TypeOK, Queued, Msg
<1>p. \A p \in net : p.id \in Rid /\ p.req \in Req
  BY DEF TypeOK
<1>f. \A id \in Rid : /\ [queue EXCEPT ![id] = NoMsg] \in [Rid -> Msg]
                      /\ \A j \in Rid : LET q == [queue EXCEPT ![id] = NoMsg] IN
                           /\ q[j].req # NoReq => q[j].req = queue[j].req
                           /\ queue[j].req = NoReq => q[j].req = NoReq
  BY <1>q, MsgTypes DEF NoMsg
<1>c. \A id \in Rid, k \in Kind \cup {"request"} :
        /\ InCallback(id, k) \in [Rid -> Msg]
        /\ \A j \in Rid : InCallback(id, k)[j].req = queue[j].req
  <2> SUFFICES ASSUME NEW id \in Rid, NEW k \in Kind \cup {"request"}
               PROVE  /\ InCallback(id, k) \in [Rid -> Msg]
                      /\ \A j \in Rid : InCallback(id, k)[j].req = queue[j].req
    OBVIOUS
  <2>1. \A j \in Rid : InCallback(id, k)[j].req = queue[j].req
    BY <1>q DEF InCallback, Msg
  <2>2. QED
    BY <2>1, InCallbackType
<1>k. \A r : KindsFor(r) \subseteq Kind
  BY DEF KindsFor, Kind
<1>1. ASSUME NEW r \in Req, NEW id \in Rid, Issue(r, id) PROVE FreshInv'
  BY <1>1, <1>q, EngineTakes DEF Issue
<1>2. ASSUME NEW r \in Req, NEW id \in Rid, IssueFails(r, id) PROVE FreshInv'
  BY <1>2, <1>q, EngineTakes DEF IssueFails
<1>3. ASSUME NEW p \in net, NEW k \in KindsFor(p.req), AnswerSync(p, k) PROVE FreshInv'
  <2>1. /\ \A j \in Rid : queue'[j].req = queue[j].req
        /\ Queued(p.id) /\ Gives(p)
        /\ current_rid' = current_rid /\ net' = net /\ attempts' = attempts
    BY <1>3, <1>q, <1>p DEF AnswerSync, Accepts, Msg
  <2>2. \A j \in Rid : Queued(j)' => Queued(j) /\ queue'[j].req = queue[j].req
    BY <2>1 DEF Queued
  <2>3. QED
    BY <2>1, <2>2, Kept
<1>4. ASSUME NEW p \in net, NEW k \in KindsFor(p.req), AnswerAsync(p, k) PROVE FreshInv'
  <2>1. /\ \A j \in Rid : queue'[j].req = queue[j].req
        /\ Queued(p.id) /\ Gives(p)
        /\ current_rid' = current_rid /\ net' = net /\ attempts' = attempts
    BY <1>4, <1>c, <1>k, <1>p DEF AnswerAsync, Accepts
  <2>2. \A j \in Rid : Queued(j)' => Queued(j) /\ queue'[j].req = queue[j].req
    BY <2>1 DEF Queued
  <2>3. QED
    BY <2>1, <2>2, Kept
<1>5. ASSUME NEW p \in net, NEW k \in KindsFor(p.req), NEW id \in Rid,
             AnswerHidden(p, k, id)
      PROVE  FreshInv'
  <2>1. p.id \in Rid /\ queue[p.id].req \in Req /\ got' = got
    BY <1>5, <1>p, <1>q DEF AnswerHidden, Accepts
  <2>2. EngineSends(id, queue[p.id].req, queue[p.id].reports + 1, queue,
                    [queue EXCEPT ![p.id] = NoMsg])
    BY <1>5 DEF AnswerHidden
  <2>3. QED
    BY <2>1, <2>2, <1>f, EngineTakes
<1>6. ASSUME NEW p \in net, NEW k \in KindsFor(p.req), NEW id \in Rid,
             AnswerHiddenFails(p, k, id)
      PROVE  FreshInv'
  <2>1. p.id \in Rid /\ queue[p.id].req \in Req /\ got' = got
    BY <1>6, <1>p, <1>q DEF AnswerHiddenFails, Accepts
  <2>2. EngineFails(id, queue[p.id].req, queue, InCallback(p.id, k))
    BY <1>6 DEF AnswerHiddenFails
  <2>3. /\ InCallback(p.id, k) \in [Rid -> Msg]
        /\ \A j \in Rid : InCallback(p.id, k)[j].req = queue[j].req
    BY <2>1, <1>c, <1>k, <1>p
  <2>4. QED
    BY <2>1, <2>2, <2>3, EngineTakes
<1>7. ASSUME NEW r \in Req, NEW id \in Rid, SyncTriesAgain(r, id) PROVE FreshInv'
  <2> DEFINE q == [queue EXCEPT ![blocked] = NoMsg]
  <2>1. blocked \in Rid /\ got' = got
    BY <1>7 DEF SyncTriesAgain, BlockReady, TypeOK
  <2>2. EngineSends(id, r, NextLoop(queue[blocked].type, queue[blocked].reports), q, q)
    BY <1>7 DEF SyncTriesAgain
  <2>3. QED
    BY <2>1, <2>2, <1>f, EngineTakes
<1>8. ASSUME NEW r \in Req, NEW id \in Rid, SyncTriesAgainFails(r, id) PROVE FreshInv'
  <2> DEFINE q == [queue EXCEPT ![blocked] = NoMsg]
  <2>1. blocked \in Rid /\ got' = got
    BY <1>8 DEF SyncTriesAgainFails, BlockReady, TypeOK
  <2>2. EngineFails(id, r, q, q)
    BY <1>8 DEF SyncTriesAgainFails
  <2>3. QED
    BY <2>1, <2>2, <1>f, EngineTakes
<1>9. ASSUME NEW id \in Rid, Resend(id) PROVE FreshInv'
  <2>1. \A j \in Rid : queue'[j].req = queue[j].req
    BY <1>9, <1>q DEF Resend, Msg
  <2>2. Queued(id) /\ (net' = net \/ net' = net \cup {Datagram(id, queue[id].req)})
    BY <1>9 DEF Resend, Resendable, NextTimeout
  <2>3. \A j \in Rid : Queued(j)' => Queued(j) /\ queue'[j].req = queue[j].req
    BY <2>1 DEF Queued
  <2>4. current_rid' = current_rid /\ attempts' = attempts /\ got' = got
    BY <1>9 DEF Resend, historyVars
  <2>5. QED
    BY <2>2, <2>3, <2>4, Kept
<1>10. ASSUME /\ \A j \in Rid : Queued(j)' => Queued(j) /\ queue'[j].req = queue[j].req
              /\ current_rid' = current_rid /\ attempts' = attempts
              /\ net' = net /\ got' = got
       PROVE  FreshInv'
  BY <1>10, Kept
<1>11. ASSUME NEW id \in Rid, RefreshReceived(id) PROVE FreshInv'
  <2>1. \A j \in Rid : queue'[j].req = queue[j].req
    BY <1>11, <1>q DEF RefreshReceived, Msg
  <2>2. QED
    BY <1>10, <1>11, <2>1 DEF RefreshReceived, historyVars, Queued
<1>12. ASSUME NEW id \in Rid, TimeoutAsync(id) PROVE FreshInv'
  <2>1. \A j \in Rid : queue'[j].req = queue[j].req
    BY <1>12, <1>c DEF TimeoutAsync
  <2>2. QED
    BY <1>10, <1>12, <2>1 DEF TimeoutAsync, Queued
<1>13. ASSUME NEW id \in Rid, TimeoutSync(id) PROVE FreshInv'
  BY <1>10, <1>13, <1>f DEF TimeoutSync, historyVars, Queued
<1>14. ASSUME NEW r \in Req, SyncReturns(r) PROVE FreshInv'
  <2>1. blocked \in Rid
    BY <1>14 DEF SyncReturns, BlockReady, TypeOK
  <2>2. QED
    BY <1>10, <1>14, <1>f, <2>1 DEF SyncReturns, Queued
<1>15. ASSUME NEW r \in Req, SyncMisses(r) PROVE FreshInv'
  BY <1>10, <1>15 DEF SyncMisses, Queued
<1>16. CASE CallbackReturns
  <2>1. \A j \in Rid : queue'[j].req # NoReq => queue'[j].req = queue[j].req
    BY <1>16, <1>q DEF CallbackReturns, NoMsg
  <2>2. QED
    BY <1>10, <1>16, <2>1 DEF CallbackReturns, historyVars, Queued
<1>17. CASE Tick
  <2>1. \A j \in Rid : queue'[j].req = queue[j].req
    BY <1>17, <1>q DEF Tick, Msg
  <2>2. QED
    BY <1>10, <1>17, <2>1 DEF Tick, historyVars, Queued
<1>18. CASE ProcessEvents
  BY <1>10, <1>18 DEF ProcessEvents, historyVars, Queued
<1>19. CASE SelectEmpty
  BY <1>10, <1>19 DEF SelectEmpty, historyVars, Queued
<1>20. CASE RetriesDone
  BY <1>10, <1>20 DEF RetriesDone, historyVars, Queued
<1>21. CASE UNCHANGED vars
  BY <1>10, <1>21 DEF vars, historyVars, Queued
<1>22. ASSUME NEW p \in net, NEW k \in KindsFor(p.req), IgnoreAnswer(p, k) PROVE FreshInv'
  BY <1>21, <1>22 DEF IgnoreAnswer
<1>23. QED
  BY <1>1, <1>2, <1>3, <1>4, <1>5, <1>6, <1>7, <1>8, <1>9, <1>11, <1>12, <1>13, <1>14,
     <1>15, <1>16, <1>17, <1>18, <1>19, <1>20, <1>21, <1>22
     DEF Next, Engine, HandleEvents, DoRetries, BlockForResponse

LEMMA FreshInit == Init => FreshInv
<1> SUFFICES ASSUME Init PROVE FreshInv
  OBVIOUS
<1>1. Sends = {}
  BY DEF Init, Sends
<1>2. Fresh
  BY DEF Init, Fresh, OwnAnswer, Queued, NoMsg
<1>3. QED
  BY <1>1, <1>2, FS_EmptySet DEF FreshInv

\* MyMakeReqId and HandleEvents: as long as no more sends were made than
\* there are request ids, whatever the requests are, nobody was handed the
\* answer to somebody else's request.
THEOREM AnswersAreOwn == Spec => [](Cardinality(Sends) <= Rids => OwnAnswer)
<1>1. FreshInv => (Cardinality(Sends) <= Rids => OwnAnswer)
  BY DEF FreshInv, Fresh
<1>2. QED
  BY <1>1, TypeInit, TypeStep, FreshInit, FreshStep, PTL DEF Spec

\* The sends of a session with finitely many requests are bounded, by
\* BoundedReports.
LEMMA FewSends ==
  ASSUME TypeOK, BoundedReports, IsFiniteSet(Req)
  PROVE  Cardinality(Sends) <= Cardinality(Req) + 2 * Cardinality(V3Req)
<1> DEFINE First == Req \X {1}
           Second == V3Req \X {2}
           Third == V3Req \X {3}
<1>1. attempts \in [Req -> Nat]
  BY DEF TypeOK
<1>2. Sends \subseteq First \cup (Second \cup Third)
  <2> SUFFICES ASSUME NEW r \in Req, NEW n \in Nat, n \in 1 .. attempts[r]
               PROVE  <<r, n>> \in First \cup (Second \cup Third)
    BY DEF Sends
  <2>1. n = 1 \/ (r \in V3Req /\ (n = 2 \/ n = 3))
    BY <1>1 DEF BoundedReports
  <2>2. QED
    BY <2>1
<1>3. IsFiniteSet(V3Req)
  BY FS_Subset
<1>4. ASSUME NEW S, IsFiniteSet(S), NEW n \in Nat
      PROVE  IsFiniteSet(S \X {n}) /\ Cardinality(S \X {n}) = Cardinality(S)
  <2>1. IsFiniteSet({n}) /\ Cardinality({n}) = 1
    BY FS_Singleton
  <2>2. Cardinality(S) \in Nat
    BY <1>4, FS_CardinalityType
  <2>3. /\ IsFiniteSet(S \X {n})
        /\ Cardinality(S \X {n}) = Cardinality(S) * Cardinality({n})
    BY <1>4, <2>1, FS_Product
  <2>4. QED
    BY <2>1, <2>2, <2>3
<1>5. /\ IsFiniteSet(First) /\ Cardinality(First) = Cardinality(Req)
      /\ IsFiniteSet(Second) /\ Cardinality(Second) = Cardinality(V3Req)
      /\ IsFiniteSet(Third) /\ Cardinality(Third) = Cardinality(V3Req)
  BY <1>3, <1>4
<1>6. Second \cap Third = {} /\ First \cap (Second \cup Third) = {}
  OBVIOUS
<1>7. Cardinality({}) = 0
  BY FS_EmptySet
<1>8. /\ IsFiniteSet(Second \cup Third)
      /\ Cardinality(Second \cup Third) = Cardinality(V3Req) + Cardinality(V3Req)
  <2>1. Cardinality(V3Req) \in Nat
    BY <1>3, FS_CardinalityType
  <2>2. QED
    BY <1>5, <1>6, <1>7, <2>1, FS_Union
<1>9. /\ IsFiniteSet(First \cup (Second \cup Third))
      /\ Cardinality(First \cup (Second \cup Third))
           = Cardinality(Req) + (Cardinality(V3Req) + Cardinality(V3Req))
  <2>1. Cardinality(V3Req) \in Nat /\ Cardinality(Req) \in Nat
    BY <1>3, FS_CardinalityType
  <2>2. /\ IsFiniteSet(First \cup (Second \cup Third))
        /\ Cardinality(First \cup (Second \cup Third))
             = Cardinality(First) + Cardinality(Second \cup Third)
                 - Cardinality(First \cap (Second \cup Third))
    <3> HIDE DEF First, Second, Third
    <3>1. QED
      BY <1>5, <1>8, FS_Union
  <2>3. Cardinality(First \cap (Second \cup Third)) = 0
    BY <1>6, <1>7
  <2>4. /\ Cardinality(First) = Cardinality(Req)
        /\ Cardinality(Second \cup Third) = Cardinality(V3Req) + Cardinality(V3Req)
    BY <1>5, <1>8
  <2>5. QED
    <3> HIDE DEF First, Second, Third
    <3>1. QED
      BY <2>1, <2>2, <2>3, <2>4
<1>10. Cardinality(Sends) <= Cardinality(First \cup (Second \cup Third))
  BY <1>2, <1>9, FS_Subset
<1>11. Cardinality(V3Req) \in Nat /\ Cardinality(Req) \in Nat
  BY <1>3, FS_CardinalityType
<1>12. QED
  BY <1>9, <1>10, <1>11

\* HandleEvents: when there is an id for every send the requests can need
\* (one each, and two more for an SNMPv3 request), an issuer is never handed
\* the answer to somebody else's request, however late or duplicated.
THEOREM AnswersStayOwn ==
  ASSUME IsFiniteSet(Req), Cardinality(Req) + 2 * Cardinality(V3Req) <= Rids
  PROVE  Spec => []OwnAnswer
<1>1. TypeOK /\ BoundedReports /\ FreshInv => OwnAnswer
  <2> SUFFICES ASSUME TypeOK, BoundedReports, FreshInv PROVE OwnAnswer
    OBVIOUS
  <2>1. Cardinality(Sends) <= Cardinality(Req) + 2 * Cardinality(V3Req)
    BY FewSends
  <2>2. /\ Cardinality(Sends) \in Nat /\ Rids \in Int
        /\ Cardinality(Req) \in Nat /\ Cardinality(V3Req) \in Nat
    BY FS_CardinalityType, FS_Subset DEF FreshInv, Rids
  <2>3. QED
    BY <2>1, <2>2 DEF FreshInv, Fresh
<1>2. Spec => []FreshInv
  BY TypeInit, TypeStep, FreshInit, FreshStep, PTL DEF Spec
<1>3. QED
  BY <1>1, <1>2, TypeCorrect, ReportsBounded, PTL
=============================================================================
