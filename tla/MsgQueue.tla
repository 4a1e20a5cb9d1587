------------------------------ MODULE MsgQueue ------------------------------
(***************************************************************************)
(* The request engine of the SNMP++ session that Agent owns: snmp_engine,  *)
(* the message queue (CSNMPMessageQueue) and the event loop                *)
(* (EventListHolder).  One thread, the GUI thread, runs all of it: it      *)
(* issues requests, polls the sockets when Agent's timer fires or while a  *)
(* blocking request waits, runs the callbacks, resends and times out.      *)
(* Datagrams may be lost, delayed, reordered and duplicated.               *)
(***************************************************************************)
EXTENDS Integers, Sequences, FiniteSets

CONSTANTS
  Req,       \* the requests the application issues
  SyncReq,   \* those issued with a blocking call (callback = 0)
  V3Req,     \* those sent to an SNMPv3 target
  NoReq,     \* the request of a free queue slot
  MinRid,    \* PDU_MIN_RID
  MaxRid,    \* PDU_MAX_RID
  Retries,   \* SnmpTarget::get_retry() of every target
  Timeout,   \* SnmpTarget::get_timeout(), in ticks
  MaxLate    \* bound: ticks by which polling may be late

ASSUME RequestsAssumption ==
  /\ SyncReq \subseteq Req
  /\ V3Req \subseteq Req
  /\ NoReq \notin Req

ASSUME NumbersAssumption ==
  /\ MinRid \in Nat \ {0} /\ MaxRid \in Nat /\ MinRid <= MaxRid
  /\ Retries \in Nat
  /\ Timeout \in Nat \ {0}
  /\ MaxLate \in Nat

VARIABLES
  queue,        \* [Rid -> Msg], the outstanding messages by request id
  current_rid,  \* Snmp::current_rid
  net,          \* the datagrams sent so far
  pc,           \* where the GUI thread is
  cur,          \* id of the message whose callback is running, 0 if none
  after,        \* where control goes when that callback returns
  blocked,      \* id SNMPBlockForResponse waits for, 0 if none
  lag,          \* ticks since the now.refresh() that DoRetries works with
  issued,       \* history: [Req -> BOOLEAN]
  attempts,     \* history: [Req -> Nat], calls of snmp_engine's send
  told,         \* history: [Req -> Seq], what the issuer was told
  got           \* history: [Req -> SUBSET Req], whose answers it was given

threadVars  == <<pc, cur, after, blocked, lag>>
historyVars == <<issued, attempts, told, got>>
vars == <<queue, current_rid, net, threadVars, historyVars>>
-----------------------------------------------------------------------------
Rid == MinRid .. MaxRid

\* The PDU kinds an agent can answer with.  The first two are the USM
\* reports v3CallBack and snmp_engine react to, "report" is any other one,
\* "mismatch" a PDU type that answers no request.
Kind == {"unknownEngineIDs", "notInTimeWindows", "report", "response", "mismatch"}
KindsFor(r) == IF r \in V3Req THEN Kind ELSE {"response", "mismatch"}

\* What a CSNMPMessage holds.  `type' is the type of m_pdu: "request" until
\* SetPdu overwrites it with the answer.  `callback' is m_callBack # NULL.
\* `reports' is reports_received (or, for a blocking call, maxloops).
\* `ttl' is m_sendTime relative to the present.
Msg == [req : Req \cup {NoReq}, callback : BOOLEAN, type : Kind \cup {"request"},
        received : BOOLEAN, locked : BOOLEAN, reports : 0..2,
        retry : 0..Retries, ttl : Int]

NoMsg == [req |-> NoReq, callback |-> FALSE, type |-> "request",
          received |-> FALSE, locked |-> FALSE, reports |-> 0,
          retry |-> 0, ttl |-> 0]

NewMsg(r, reports) ==
  [req |-> r, callback |-> r \notin SyncReq, type |-> "request",
   received |-> FALSE, locked |-> FALSE, reports |-> reports,
   retry |-> Retries, ttl |-> Timeout]

Queued(id) == queue[id].req # NoReq
QueuedIds == {id \in Rid : Queued(id)}

\* A datagram was sent for message id of request r.  Its answers, of any
\* kind, may arrive at any time from now on, in any order and any number of
\* times; they are lost if they never do.
Datagram(id, r) == [id |-> id, req |-> r]

\* Pdu::match_type: an answer is accepted once, since SetPdu replaces the
\* request PDU, whose type the next answer is compared with.
match_type(request, response) ==
  /\ request = "request"
  /\ response # "mismatch"

\* MyMakeReqId goes up from current_rid, wraps from PDU_MAX_RID to
\* PDU_MIN_RID and skips the ids still queued: id is what it returns when it
\* finds queue q.  (With no id free it would search for ever.)
FreeRids(q) == {id \in Rid : q[id].req = NoReq}
Ahead(id) == IF id > current_rid THEN id - current_rid
             ELSE id - current_rid + (MaxRid - MinRid + 1)
\* Mutants of MyMakeReqId: the next id without looking for it in the queue,
\* and the lowest free one.
MyMakeReqIdUnchecked(id, q) == id \in Rid /\ Ahead(id) = 1
MyMakeReqIdLowest(id, q) == id \in FreeRids(q) /\ \A j \in FreeRids(q) : id <= j

MyMakeReqId(id, q) ==
  /\ id \in FreeRids(q)
  /\ \A j \in FreeRids(q) : Ahead(id) <= Ahead(j)

\* Mutant of HideAsync: reports_received is compared off by one.
HideAsyncOnceMore(type, reports) ==
  \/ type = "unknownEngineIDs" /\ reports <= 1
  \/ type = "notInTimeWindows" /\ reports <= 2

\* Whether v3CallBack hides a report from the user and sends again.
HideAsync(type, reports) ==
  \/ type = "unknownEngineIDs" /\ reports = 0
  \/ type = "notInTimeWindows" /\ reports <= 1

\* The same decision in snmp_engine's loop for blocking calls: the maxloops
\* of the next round, 3 when the call returns.
NextLoop(type, maxloops) ==
  CASE type = "unknownEngineIDs" /\ maxloops = 0 -> 1
    [] type = "notInTimeWindows" /\ maxloops <= 1 -> 2
    [] OTHER -> 3

Tell(r, outcome) == told' = [told EXCEPT ![r] = Append(@, outcome)]
-----------------------------------------------------------------------------
(***************************************************************************)
(* snmp_engine, from the request id on.  AddEntry comes before the send;   *)
(* when the send fails the entry is deleted again and TL_FAILED returned.  *)
(* `found' is the queue the call finds, `base' the queue as its caller     *)
(* leaves it and id the request id it takes.                               *)
(***************************************************************************)
EngineSends(id, r, reports, found, base) ==
  /\ MyMakeReqId(id, found)
  /\ current_rid' = id
  /\ queue' = [base EXCEPT ![id] = NewMsg(r, reports)]
  /\ net' = net \cup {Datagram(id, r)}
  /\ attempts' = [attempts EXCEPT ![r] = @ + 1]

EngineFails(id, r, found, base) ==
  /\ MyMakeReqId(id, found)
  /\ current_rid' = id
  /\ queue' = base
  /\ net' = net
  /\ attempts' = [attempts EXCEPT ![r] = @ + 1]

\* The GUI thread runs application code: at the top level when no blocking
\* call is waiting, and inside a callback (where only asynchronous requests
\* are made).
MayIssue(r) == \/ pc = "idle" /\ blocked = 0
               \/ pc = "callback" /\ r \notin SyncReq

\* Snmp::get, get_next, get_bulk, set: the request is queued and on its way.
Issue(r, id) ==
  /\ MayIssue(r)
  /\ ~issued[r]
  /\ issued' = [issued EXCEPT ![r] = TRUE]
  /\ EngineSends(id, r, 0, queue, queue)
  /\ blocked' = IF r \in SyncReq THEN id ELSE blocked
  /\ UNCHANGED <<pc, cur, after, lag, told, got>>

IssueFails(r, id) ==
  /\ MayIssue(r)
  /\ ~issued[r]
  /\ issued' = [issued EXCEPT ![r] = TRUE]
  /\ EngineFails(id, r, queue, queue)
  /\ Tell(r, "error")
  /\ UNCHANGED <<threadVars, got>>
-----------------------------------------------------------------------------
(***************************************************************************)
(* SNMPProcessPendingEvents: read while select finds something, then       *)
(* DoRetries.  Agent's timer calls it, and SNMPBlockForResponse does until *)
(* its message is done.                                                    *)
(***************************************************************************)
Done(id) == Queued(id) => queue[id].received

ProcessEvents ==
  /\ pc = "idle"
  /\ blocked # 0 => ~Done(blocked)
  /\ pc' = "select"
  /\ UNCHANGED <<queue, current_rid, net, cur, after, blocked, lag, historyVars>>

\* Mutant of InCallback: the callback pointer is not cleared.
InCallbackKeeps(id, type) ==
  [queue EXCEPT ![id].type = type, ![id].received = (type # "request"),
                ![id].locked = TRUE]

\* Callback: the pointer is cleared, the message stays locked in the queue
\* until the callback has returned.
InCallback(id, type) ==
  [queue EXCEPT ![id].type = type, ![id].received = (type # "request"),
                ![id].callback = FALSE, ![id].locked = TRUE]

\* HandleEvents accepts an answer whose request is still queued and whose
\* PDU type matches it; v3CallBack hides some of the reports.
Accepts(p, k) == Queued(p.id) /\ match_type(queue[p.id].type, k)
Hidden(p, k) == /\ queue[p.id].req \in V3Req
                /\ HideAsync(k, queue[p.id].reports)
Gives(p) == got' = [got EXCEPT ![queue[p.id].req] = @ \cup {p.req}]

IgnoreAnswer(p, k) ==
  /\ pc = "select"
  /\ ~Accepts(p, k)
  /\ UNCHANGED vars

\* An answer to a blocking call has no callback: it is left in the queue for
\* SNMPBlockForResponse.
AnswerSync(p, k) ==
  /\ pc = "select"
  /\ Accepts(p, k)
  /\ ~queue[p.id].callback
  /\ queue' = [queue EXCEPT ![p.id].type = k, ![p.id].received = TRUE]
  /\ Gives(p)
  /\ UNCHANGED <<current_rid, net, threadVars, issued, attempts, told>>

\* An answer to an asynchronous request: the user's callback starts.
AnswerAsync(p, k) ==
  /\ pc = "select"
  /\ Accepts(p, k)
  /\ queue[p.id].callback
  /\ ~Hidden(p, k)
  /\ queue' = InCallback(p.id, k)
  /\ pc' = "callback" /\ cur' = p.id /\ after' = "select"
  /\ Tell(queue[p.id].req, "response")
  /\ Gives(p)
  /\ UNCHANGED <<current_rid, net, blocked, lag, issued, attempts>>

\* Mutant of AnswerHidden: the old message is not dequeued.
AnswerHiddenKeeps(p, k, id) ==
  /\ pc = "select"
  /\ Accepts(p, k)
  /\ queue[p.id].callback
  /\ Hidden(p, k)
  /\ EngineSends(id, queue[p.id].req, queue[p.id].reports + 1, queue, queue)
  /\ UNCHANGED <<threadVars, issued, told, got>>

\* v3CallBack hides the report and sends the request again; the old message
\* is dequeued when v3CallBack returns.
AnswerHidden(p, k, id) ==
  /\ pc = "select"
  /\ Accepts(p, k)
  /\ queue[p.id].callback
  /\ Hidden(p, k)
  /\ EngineSends(id, queue[p.id].req, queue[p.id].reports + 1, queue,
                 [queue EXCEPT ![p.id] = NoMsg])
  /\ UNCHANGED <<threadVars, issued, told, got>>

\* ... and when that send fails, v3CallBack passes the error to the user's
\* callback.
AnswerHiddenFails(p, k, id) ==
  /\ pc = "select"
  /\ Accepts(p, k)
  /\ queue[p.id].callback
  /\ Hidden(p, k)
  /\ EngineFails(id, queue[p.id].req, queue, InCallback(p.id, k))
  /\ pc' = "callback" /\ cur' = p.id /\ after' = "select"
  /\ Tell(queue[p.id].req, "error")
  /\ UNCHANGED <<blocked, lag, issued, got>>

\* The callback returns: unlock, DeleteEntry, and on with the loop that
\* called it.
CallbackReturns ==
  /\ pc = "callback"
  /\ queue' = [queue EXCEPT ![cur] = NoMsg]
  /\ pc' = after
  /\ cur' = 0
  /\ after' = "select"
  /\ UNCHANGED <<current_rid, net, blocked, lag, historyVars>>

SelectEmpty ==
  /\ pc = "select"
  /\ pc' = "retries"
  /\ lag' = 0
  /\ UNCHANGED <<queue, current_rid, net, cur, after, blocked, historyVars>>
-----------------------------------------------------------------------------
(***************************************************************************)
(* DoRetries, for the time `now' taken after the last select.              *)
(***************************************************************************)
\* GetNextTimeoutEntry: a message with the smallest m_sendTime.
NextTimeout(id) == /\ Queued(id)
                   /\ \A j \in QueuedIds : queue[id].ttl <= queue[j].ttl
Due(id) == queue[id].ttl + lag <= 0
Resendable(id) == NextTimeout(id) /\ Due(id) /\ ~queue[id].locked

\* The queue is empty, the next timeout lies in the future, or its message
\* is locked: DoRetries and SNMPProcessPendingEvents return.
RetriesDone ==
  /\ pc = "retries"
  /\ \/ QueuedIds = {}
     \/ \E id \in QueuedIds : NextTimeout(id) /\ ~Resendable(id)
  /\ pc' = "idle"
  /\ lag' = 0
  /\ UNCHANGED <<queue, current_rid, net, cur, after, blocked, historyVars>>

\* ResendMessage of an answered message only refreshes m_sendTime.
RefreshReceived(id) ==
  /\ pc = "retries"
  /\ Resendable(id)
  /\ queue[id].received
  /\ queue' = [queue EXCEPT ![id].ttl = Timeout]
  /\ UNCHANGED <<current_rid, net, threadVars, historyVars>>

\* Mutant of Resend: m_target's retry count is not counted down.
ResendForever(id) ==
  /\ pc = "retries"
  /\ Resendable(id)
  /\ ~queue[id].received
  /\ queue[id].retry > 0
  /\ queue' = [queue EXCEPT ![id].ttl = Timeout]
  /\ net' = net \cup {Datagram(id, queue[id].req)}
  /\ UNCHANGED <<current_rid, threadVars, historyVars>>

\* A send that fails (SNMP_CLASS_TL_FAILED) ends DoRetries.
Resend(id) ==
  /\ pc = "retries"
  /\ Resendable(id)
  /\ ~queue[id].received
  /\ queue[id].retry > 0
  /\ queue' = [queue EXCEPT ![id].retry = @ - 1, ![id].ttl = Timeout]
  /\ \/ /\ net' = net \cup {Datagram(id, queue[id].req)}
        /\ UNCHANGED <<pc, lag>>
     \/ /\ net' = net
        /\ pc' = "idle" /\ lag' = 0
  /\ UNCHANGED <<current_rid, cur, after, blocked, historyVars>>

\* Out of retries: an asynchronous request gets its callback, a blocking one
\* is just dequeued (SNMPBlockForResponse then misses it).
TimedOut(id) ==
  /\ pc = "retries"
  /\ Resendable(id)
  /\ ~queue[id].received
  /\ queue[id].retry = 0

TimeoutAsync(id) ==
  /\ TimedOut(id)
  /\ queue[id].callback
  /\ queue' = InCallback(id, "request")
  /\ pc' = "callback" /\ cur' = id /\ after' = "retries"
  /\ Tell(queue[id].req, "timeout")
  /\ UNCHANGED <<current_rid, net, blocked, lag, issued, attempts, got>>

TimeoutSync(id) ==
  /\ TimedOut(id)
  /\ ~queue[id].callback
  /\ queue' = [queue EXCEPT ![id] = NoMsg]
  /\ UNCHANGED <<current_rid, net, threadVars, historyVars>>
-----------------------------------------------------------------------------
(***************************************************************************)
(* SNMPBlockForResponse's return into snmp_engine, which returns to the    *)
(* caller or, after a report it can cure, goes round its loop again.       *)
(***************************************************************************)
BlockReady == pc = "idle" /\ blocked # 0 /\ Done(blocked)

Waiting(r) == r \in SyncReq /\ issued[r] /\ told[r] = <<>>

SyncLoops(m) == m.req \in V3Req /\ NextLoop(m.type, m.reports) < 3

\* Mutant of SyncReturns: the answer is read but its entry not deleted.
SyncReturnsKeeps(r) ==
  /\ BlockReady
  /\ Waiting(r)
  /\ Queued(blocked)
  /\ ~SyncLoops(queue[blocked])
  /\ Tell(r, "response")
  /\ blocked' = 0
  /\ UNCHANGED <<queue, current_rid, net, pc, cur, after, lag, issued, attempts, got>>

SyncReturns(r) ==
  /\ BlockReady
  /\ Waiting(r)
  /\ Queued(blocked)
  /\ ~SyncLoops(queue[blocked])
  /\ queue' = [queue EXCEPT ![blocked] = NoMsg]
  /\ Tell(r, "response")
  /\ blocked' = 0
  /\ UNCHANGED <<current_rid, net, pc, cur, after, lag, issued, attempts, got>>

\* Not in the send queue: must have timed out.
SyncMisses(r) ==
  /\ BlockReady
  /\ Waiting(r)
  /\ ~Queued(blocked)
  /\ Tell(r, "timeout")
  /\ blocked' = 0
  /\ UNCHANGED <<queue, current_rid, net, pc, cur, after, lag, issued, attempts, got>>

SyncTriesAgain(r, id) ==
  /\ BlockReady
  /\ Waiting(r)
  /\ Queued(blocked) /\ SyncLoops(queue[blocked])
  /\ LET m == queue[blocked]
         q == [queue EXCEPT ![blocked] = NoMsg]
     IN EngineSends(id, r, NextLoop(m.type, m.reports), q, q)
  /\ blocked' = id
  /\ UNCHANGED <<pc, cur, after, lag, issued, told, got>>

SyncTriesAgainFails(r, id) ==
  /\ BlockReady
  /\ Waiting(r)
  /\ Queued(blocked) /\ SyncLoops(queue[blocked])
  /\ LET q == [queue EXCEPT ![blocked] = NoMsg] IN EngineFails(id, r, q, q)
  /\ blocked' = 0
  /\ Tell(r, "error")
  /\ UNCHANGED <<pc, cur, after, lag, issued, got>>
-----------------------------------------------------------------------------
\* Time passes.  Polling is at most MaxLate ticks late.
Tick ==
  /\ QueuedIds # {}
  /\ \A id \in QueuedIds : queue[id].ttl > -MaxLate
  /\ lag < MaxLate
  /\ queue' = [id \in Rid |-> IF Queued(id) THEN [queue[id] EXCEPT !.ttl = @ - 1]
                                            ELSE queue[id]]
  /\ lag' = IF pc = "retries" \/ (pc = "callback" /\ after = "retries")
            THEN lag + 1 ELSE lag
  /\ UNCHANGED <<current_rid, net, pc, cur, after, blocked, historyVars>>
-----------------------------------------------------------------------------
Init ==
  /\ queue = [id \in Rid |-> NoMsg]
  /\ current_rid \in Rid
  /\ net = {}
  /\ pc = "idle" /\ cur = 0 /\ after = "select" /\ blocked = 0 /\ lag = 0
  /\ issued = [r \in Req |-> FALSE]
  /\ attempts = [r \in Req |-> 0]
  /\ told = [r \in Req |-> <<>>]
  /\ got = [r \in Req |-> {}]

HandleEvents ==
  \E p \in net : \E k \in KindsFor(p.req) :
    \/ IgnoreAnswer(p, k)
    \/ AnswerSync(p, k)
    \/ AnswerAsync(p, k)
    \/ \E id \in Rid : AnswerHidden(p, k, id) \/ AnswerHiddenFails(p, k, id)

DoRetries ==
  \/ RetriesDone
  \/ \E id \in Rid : \/ RefreshReceived(id)
                     \/ Resend(id)
                     \/ TimeoutAsync(id)
                     \/ TimeoutSync(id)

BlockForResponse ==
  \E r \in Req : \/ SyncReturns(r)
                 \/ SyncMisses(r)
                 \/ \E id \in Rid : SyncTriesAgain(r, id) \/ SyncTriesAgainFails(r, id)

Engine == \/ ProcessEvents
          \/ HandleEvents
          \/ CallbackReturns
          \/ SelectEmpty
          \/ DoRetries
          \/ BlockForResponse

Next == \/ \E r \in Req, id \in Rid : Issue(r, id) \/ IssueFails(r, id)
        \/ Engine
        \/ Tick

Spec == Init /\ [][Next]_vars

\* Agent's timer keeps firing and every callback returns, so the thread
\* keeps stepping; time passes.
FairSpec == Spec /\ WF_vars(Engine) /\ WF_vars(Tick)
-----------------------------------------------------------------------------
TypeOK ==
  /\ queue \in [Rid -> Msg]
  /\ current_rid \in Rid
  /\ net \in SUBSET [id : Rid, req : Req]
  /\ pc \in {"idle", "select", "callback", "retries"}
  /\ cur \in Rid \cup {0}
  /\ after \in {"select", "retries"}
  /\ blocked \in Rid \cup {0}
  /\ lag \in Nat
  /\ issued \in [Req -> BOOLEAN]
  /\ attempts \in [Req -> Nat]
  /\ told \in [Req -> Seq({"response", "timeout", "error"})]
  /\ got \in [Req -> SUBSET Req]

\* An asynchronous request whose issuer still waits for a callback.
Pending(r) == r \notin SyncReq /\ issued[r] /\ told[r] = <<>>

\* The message that still holds the callback of request r.
Owns(id, r) == queue[id].req = r /\ queue[id].callback

\* CSNMPMessageQueue (AddEntry, HandleEvents, DoRetries, v3CallBack): while
\* an asynchronous request waits for its callback, exactly one queued
\* message still holds that callback, and once the callback was made none
\* does.  So no answer, retry, report or reused request id ever loses a
\* callback or makes it twice.
OneCallbackOwner ==
  \A r \in Req : \A i \in Rid :
    /\ Pending(r) => \E id \in Rid : Owns(id, r)
    /\ Owns(i, r) => Pending(r) /\ \A j \in Rid : Owns(j, r) => i = j

\* When control is back in the application's event loop, the queue holds
\* nothing but unlocked, unanswered messages that wait for a callback: no
\* path through HandleEvents, DoRetries or SNMPBlockForResponse leaves an
\* answered or abandoned message behind.
NoLeftOvers ==
  pc = "idle" /\ blocked = 0 =>
    \A id \in QueuedIds : /\ queue[id].callback
                          /\ ~queue[id].received
                          /\ ~queue[id].locked

\* snmp_engine and v3CallBack: reports make a request be sent again at most
\* twice, whatever sequence of reports the agent answers with.
BoundedReports ==
  \A r \in Req : attempts[r] <= IF r \in V3Req THEN 3 ELSE 1

\* MyMakeReqId and HandleEvents: an issuer is never handed the answer to
\* somebody else's request, however late or duplicated that answer is (as
\* long as ids are not reused within the life of a datagram).
OwnAnswer == \A r \in Req : got[r] \subseteq {r}

\* What the two properties above rest on.  A message that holds a callback
\* is an unanswered, unlocked asynchronous one; a queued message that holds
\* none is the one being called back or the one a blocking call waits for;
\* and nobody is told anything before asking.
EngineInv ==
  /\ pc = "callback" <=> cur # 0
  /\ cur # 0 => Queued(cur) /\ ~queue[cur].callback
  /\ \A id \in Rid :
       /\ queue[id].callback => /\ Queued(id)
                                /\ queue[id].req \notin SyncReq
                                /\ queue[id].type = "request"
                                /\ ~queue[id].received
                                /\ ~queue[id].locked
       /\ Queued(id) /\ ~queue[id].callback => id \in {cur, blocked}
       /\ queue[id].locked => id = cur
  /\ \A r \in Req : ~issued[r] => told[r] = <<>>

\* The promise of the session, as an abstract specification.
Service == INSTANCE RequestService WITH Req <- Req, issued <- issued, told <- told
ServiceSpec == Service!Spec

\* ResendMessage / SNMPBlockForResponse: every request is answered in the
\* end, with loss, duplication, reports and failing sends.
EveryRequestEnds == \A r \in Req : issued[r] ~> told[r] # <<>>
=============================================================================
