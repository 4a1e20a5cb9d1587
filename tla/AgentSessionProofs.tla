------------------------- MODULE AgentSessionProofs -------------------------
(***************************************************************************)
(* Proofs about AgentSession for any agent, any MIB modules and any        *)
(* interleaving of operations: type correctness, the timer always runs,    *)
(* Stop is enabled when it should be and ends a walk, load-all answers are *)
(* forgotten, and the event loop is never entered twice as long as Refresh *)
(* opens no box.                                                           *)
(***************************************************************************)
EXTENDS AgentSession, TLAPS, FiniteSetTheorems

USE AgentAssumption, BoundsAssumption

\* A function on 1..n is a sequence.
LEMMA FunctionIsSeq ==
  ASSUME NEW S, NEW n \in Nat, NEW f \in [1..n -> S]
  PROVE  f \in Seq(S)
OBVIOUS

\* The instances that follow an OID.
LEMMA AfterType == \A o : After(o) \in Seq(Oid)
<1> TAKE o
<1> DEFINE B == {i \in 1..Len(Mib) : ~LexLess(o, Mib[i])}
<1>1. Len(Mib) \in Nat /\ Mib \in Seq(Oid)
  OBVIOUS
<1>2. IsFiniteSet(1..Len(Mib))
  BY <1>1, FS_Interval
<1>3. B \in SUBSET (1..Len(Mib))
  OBVIOUS
<1>4. IsFiniteSet(B)
  BY <1>2, <1>3, FS_Subset
<1>5. Cardinality(B) \in Nat
  BY <1>4, FS_CardinalityType
<1> HIDE DEF B
<1>6. SubSeq(Mib, Cardinality(B) + 1, Len(Mib)) \in Seq(Oid)
  BY <1>1, <1>5
<1>7. QED
  BY <1>6 DEF After, B

\* An agent's answer has varbinds and an index into them.
Answer == [error : {"none", "noSuchName", "other"}, index : 0..2, vbs : Seq(Varbind)]

LEMMA BulkType == \A o \in Oid, n \in Nat : BulkVbs(o, n) \in Seq(Varbind)
<1> SUFFICES ASSUME NEW o \in Oid, NEW n \in Nat PROVE BulkVbs(o, n) \in Seq(Varbind)
  OBVIOUS
<1> DEFINE rest == After(o)
           k == IF n <= Len(rest) THEN n ELSE Len(rest) + 1
<1>1. rest \in Seq(Oid)
  BY AfterType
<1> HIDE DEF rest
<1>2. k \in Nat
  BY <1>1
<1>3. \A i \in 1..k : (IF i <= Len(rest) THEN Vb(rest[i], "value")
                                          ELSE Vb(o, "endOfMibView")) \in Varbind
  BY <1>1 DEF Vb, Varbind, Syntax
<1>4. [i \in 1..k |-> IF i <= Len(rest) THEN Vb(rest[i], "value")
                                          ELSE Vb(o, "endOfMibView")] \in [1..k -> Varbind]
  BY <1>3
<1> HIDE DEF k
<1>5. [i \in 1..k |-> IF i <= Len(rest) THEN Vb(rest[i], "value")
                                          ELSE Vb(o, "endOfMibView")] \in Seq(Varbind)
  BY <1>2, <1>4, FunctionIsSeq
<1>6. QED
  BY <1>5 DEF BulkVbs, rest, k

LEMMA AnswerType ==
  \A q \in Request : GoodAnswers(q) \cup ErrorAnswers(q) \subseteq Answer
<1> SUFFICES ASSUME NEW q \in Request
             PROVE GoodAnswers(q) \cup ErrorAnswers(q) \subseteq Answer
  OBVIOUS
<1>1. q.oid \in Oid /\ q.size \in 1..2 /\ q.size \in Nat
  BY DEF Request
<1>2. \A s \in Syntax : Vb(q.oid, s) \in Varbind
  BY <1>1 DEF Vb, Varbind
<1>3. <<>> \in Seq(Varbind) /\ <<Vb(q.oid, "value")>> \in Seq(Varbind)
  BY <1>2 DEF Syntax
<1>4. ASSUME NEW syntax \in [1..q.size -> Syntax]
      PROVE  [i \in 1..q.size |-> Vb(q.oid, syntax[i])] \in Seq(Varbind)
  <2>1. [i \in 1..q.size |-> Vb(q.oid, syntax[i])] \in [1..q.size -> Varbind]
    BY <1>2
  <2>2. QED
    BY <1>1, <2>1, FunctionIsSeq
<1>5. [i \in 1..q.size |-> Vb(q.oid, "value")] \in Seq(Varbind)
  <2>1. [i \in 1..q.size |-> Vb(q.oid, "value")] \in [1..q.size -> Varbind]
    BY <1>2 DEF Syntax
  <2>2. QED
    BY <1>1, <2>1, FunctionIsSeq
<1>6. \A n \in 1..MaxRep : BulkVbs(q.oid, n) \in Seq(Varbind)
  BY <1>1, BulkType
<1>a. ASSUME NEW e \in {"none", "noSuchName", "other"}, NEW i \in 0..2,
             NEW v \in Seq(Varbind)
      PROVE  [error |-> e, index |-> i, vbs |-> v] \in Answer
  BY DEF Answer
<1>7. GoodAnswers(q) \subseteq Answer
  <2> SUFFICES ASSUME NEW a \in GoodAnswers(q) PROVE a \in Answer
    OBVIOUS
  <2>1. CASE q.op = "walk"
    <3>1. \/ \E n \in 1..MaxRep :
               a = [error |-> "none", index |-> 0, vbs |-> BulkVbs(q.oid, n)]
          \/ a = [error |-> "noSuchName", index |-> 1, vbs |-> <<Vb(q.oid, "value")>>]
      BY <2>1 DEF GoodAnswers
    <3>2. QED
      <4>1. ASSUME NEW n \in 1..MaxRep
            PROVE  [error |-> "none", index |-> 0, vbs |-> BulkVbs(q.oid, n)] \in Answer
        <5>1. BulkVbs(q.oid, n) \in Seq(Varbind)
          BY <1>6
        <5>2. QED
          BY <5>1, <1>a, 0 \in 0..2
      <4>2. [error |-> "noSuchName", index |-> 1, vbs |-> <<Vb(q.oid, "value")>>] \in Answer
        BY <1>3, <1>a, 1 \in 0..2
      <4>3. QED
        BY <3>1, <4>1, <4>2
  <2>2. CASE q.op # "walk"
    <3>1. PICK syntax \in [1..q.size -> Syntax] :
            a = [error |-> "none", index |-> 0,
                 vbs |-> [i \in 1..q.size |-> Vb(q.oid, syntax[i])]]
      BY <2>2 DEF GoodAnswers
    <3>2. QED
      <4> DEFINE v == [i \in 1..q.size |-> Vb(q.oid, syntax[i])]
      <4>1. v \in Seq(Varbind)
        BY <1>4
      <4> HIDE DEF v
      <4>2. [error |-> "none", index |-> 0, vbs |-> v] \in Answer
        BY <4>1, <1>a, 0 \in 0..2
      <4>3. QED
        BY <3>1, <4>2 DEF v
  <2>3. QED
    BY <2>1, <2>2
<1>8. ErrorAnswers(q) \subseteq Answer
  <2> SUFFICES ASSUME NEW a \in ErrorAnswers(q) PROVE a \in Answer
    OBVIOUS
  <2>1. \/ \E i \in 0..q.size :
             a = [error |-> "other", index |-> i,
                  vbs |-> [j \in 1..q.size |-> Vb(q.oid, "value")]]
        \/ a = [error |-> "none", index |-> 0, vbs |-> <<>>]
    BY DEF ErrorAnswers
  <2>2. QED
    <3> DEFINE echo == [j \in 1..q.size |-> Vb(q.oid, "value")]
    <3> HIDE DEF echo
    <3>1. CASE \E i \in 0..q.size : a = [error |-> "other", index |-> i, vbs |-> echo]
      <4>1. echo \in Seq(Varbind)
        BY <1>5 DEF echo
      <4>2. PICK i \in 0..q.size : a = [error |-> "other", index |-> i, vbs |-> echo]
        BY <3>1
      <4>3. i \in 0..2
        BY <1>1
      <4>4. [error |-> "other", index |-> i, vbs |-> echo] \in Answer
        BY <4>1, <4>3, <1>a
      <4>5. QED
        BY <4>2, <4>4
    <3>2. CASE a = [error |-> "none", index |-> 0, vbs |-> <<>>]
      <4>1. [error |-> "none", index |-> 0, vbs |-> <<>>] \in Answer
        BY <1>3, <1>a, 0 \in 0..2
      <4>2. QED
        BY <3>2, <4>1
    <3>3. QED
      BY <2>1, <3>1, <3>2 DEF echo
<1>9. QED
  BY <1>7, <1>8
-----------------------------------------------------------------------------
\* Every step keeps the types.
LEMMA TypeStep == TypeOK /\ SessionInv /\ [Next]_vars => TypeOK'
<1> SUFFICES ASSUME TypeOK, SessionInv, [Next]_vars PROVE TypeOK'
  OBVIOUS
<1>h. NoCb \in Callback /\ <<>> \in Oid /\ <<>> \in Seq(Oid)
  BY DEF NoCb, Callback, Oid
<1>d. ASSUME Disturb PROVE walk' \in History
  <2>1. (walk.disturbed \/ WalkActive) \in BOOLEAN
    BY DEF TypeOK, History, WalkActive, WalkOut
  <2>2. QED
    BY <1>d, <2>1 DEF Disturb, TypeOK, History
<1>s. ASSUME NEW op \in {"walk", "get", "set"}, NEW oid \in Oid, NEW k \in 1..2,
             started < MaxOps, started' = started + 1, Send(op, oid, k)
      PROVE  /\ out' \in SUBSET Request /\ timer' \in {"async", "trap", "off"}
             /\ faults' \in 0..MaxFaults /\ started' \in 0..MaxOps
  BY <1>s DEF Send, Request, TypeOK
<1>c. ASSUME NEW oid \in Oid, Clear(oid)
      PROVE  /\ theoid' \in Oid /\ requests' \in Nat /\ objects' \in Nat
             /\ msg' \in Seq(Oid) /\ query' \in Seq(Oid)
             /\ report' \in {"none", "finished", "stopped", "failed"}
  BY <1>c, <1>h DEF Clear
<1>e. ASSUME NEW op, NEW m \in Seq(Oid), Cleanup(op, m)
      PROVE  /\ query' \in Seq(Oid) /\ timer' \in {"async", "trap", "off"}
             /\ policy' \in {"all", "default", "none"} /\ walking' \in BOOLEAN
             /\ pc' \in {"idle", "loop", "prompt", "box", "stuck"} /\ cb' \in Callback
  <2>1. (op = "set" /\ walking) \in BOOLEAN
    OBVIOUS
  <2>2. query' \in Seq(Oid)
    BY <1>e DEF Cleanup, TypeOK
  <2>3. QED
    BY <1>e, <1>h, <2>1, <2>2 DEF Cleanup, TypeOK
<1>f. ASSUME NEW op,
             Fail(op) \/ \E m \in Seq(Oid) : End(op, m)
      PROVE  /\ query' \in Seq(Oid) /\ timer' \in {"async", "trap", "off"}
             /\ policy' \in {"all", "default", "none"} /\ walking' \in BOOLEAN
             /\ pc' \in {"idle", "loop", "prompt", "box", "stuck"} /\ cb' \in Callback
             /\ msg' \in Seq(Oid)
             /\ report' \in {"none", "finished", "stopped", "failed"}
  BY <1>e, <1>f, <1>h DEF Fail, End, TypeOK
<1>1. ASSUME NEW oid \in Root, WalkFrom(oid) PROVE TypeOK'
  <2>1. oid \in Oid /\ Clear(oid) /\ Send("walk", oid, 1)
    BY <1>1 DEF WalkFrom
  <2>2. (out # {}) \in BOOLEAN /\ (out' = out) \in BOOLEAN
    OBVIOUS
  <2>3. walk' \in History
    BY <1>1, <2>1, <2>2 DEF WalkFrom, History
  <2>4. QED
    <3>1. /\ theoid' \in Oid /\ requests' \in Nat /\ objects' \in Nat
          /\ msg' \in Seq(Oid) /\ query' \in Seq(Oid)
          /\ report' \in {"none", "finished", "stopped", "failed"}
      BY <2>1, <1>c
    <3>2. /\ out' \in SUBSET Request /\ timer' \in {"async", "trap", "off"}
          /\ faults' \in 0..MaxFaults /\ started' \in 0..MaxOps
      BY <1>1, <2>1, 1 \in 1..2, <1>s DEF WalkFrom
    <3>3. QED
      BY <1>1, <2>3, <3>1, <3>2 DEF WalkFrom, TypeOK, mibVars
<1>2. ASSUME NEW op \in {"get", "set"}, NEW oid \in Root, NEW b \in BOOLEAN,
             Query(op, oid, b), blocking' = blocking \/ blocking' = "no"
      PROVE TypeOK'
  <2>1. /\ (IF b THEN <<>> ELSE oid) \in Oid /\ Clear(IF b THEN <<>> ELSE oid)
        /\ oid \in Oid /\ (IF b THEN 2 ELSE 1) \in 1..2
        /\ Send(op, oid, IF b THEN 2 ELSE 1)
    BY <1>2, <1>h DEF Query
  <2>2. walk' \in History
    BY <1>2, <1>d DEF Query
  <2>3. /\ theoid' \in Oid /\ requests' \in Nat /\ objects' \in Nat
        /\ msg' \in Seq(Oid) /\ query' \in Seq(Oid)
        /\ report' \in {"none", "finished", "stopped", "failed"}
    BY <2>1, <1>c
  <2>4. /\ out' \in SUBSET Request /\ timer' \in {"async", "trap", "off"}
        /\ faults' \in 0..MaxFaults /\ started' \in 0..MaxOps
    BY <1>2, <2>1, <1>s DEF Query
  <2>5. QED
    BY <1>2, <2>2, <2>3, <2>4 DEF Query, TypeOK, mibVars
<1>3. CASE Stop
  <2>1. WalkOut \in BOOLEAN
    BY DEF WalkOut
  <2>2. walk' \in History
    BY <1>3, <2>1 DEF Stop, TypeOK, History
  <2>3. QED
    BY <1>3, <2>2 DEF Stop, TypeOK, mibVars
<1>4. ASSUME NEW oid \in Root, TableViewFrom(oid) PROVE TypeOK'
  <2>1. oid \in Oid /\ Clear(oid) /\ walk' \in History
    BY <1>4, <1>d DEF TableViewFrom
  <2>2. QED
    BY <1>4, <1>c, <2>1 DEF TableViewFrom, TypeOK, mibVars
<1>5. CASE TableViewEnds
  <2>1. query' \in Seq(Oid)
    BY <1>5 DEF TableViewEnds, TypeOK
  <2>2. QED
    BY <1>5, <2>1 DEF TableViewEnds, TypeOK, members, mibVars
<1>6. ASSUME NEW oid \in Root, SelectTableInstance(oid) PROVE TypeOK'
  <2>1. oid \in Oid /\ walk' \in History
    BY <1>6, <1>d DEF SelectTableInstance
  <2>2. QED
    BY <1>6, <2>1 DEF SelectTableInstance, TypeOK, mibVars
<1>7. ASSUME NEW q \in out, Timeout(q) PROVE TypeOK'
  <2>1. q.op \in {"walk", "get", "set"}
    BY DEF TypeOK, Request
  <2>2. QED
    BY <1>7, <1>f, <2>1 DEF Timeout, TypeOK
<1>8. ASSUME NEW q \in out, NEW a \in Answer, Response(q, a), faults' \in 0..MaxFaults
      PROVE TypeOK'
  <2>1. q.op \in {"walk", "get", "set"} /\ q.n \in 0..MaxOps
    BY DEF TypeOK, Request
  <2>2. (walk.erred \/ (q.op = "walk" /\ a \in ErrorAnswers(q))) \in BOOLEAN
    BY DEF TypeOK, History
  <2>3. walk' \in History
    BY <1>8, <2>2 DEF Response, TypeOK, History
  <2>4. /\ out' \in SUBSET Request
        /\ UNCHANGED <<theoid, stop, unloaded, autoload, blocking, started>>
    BY <1>8 DEF Response, TypeOK
  <2>5. CASE StartsLoop(q, a) /\ ~Fails(q, a) /\ ~Ends(q, a)
    <3>1. a.index \in Nat /\ (a.error = "none" \/ a.index - 1 \in Nat)
      BY <2>5 DEF Fails, Answer
    <3>2. cb' \in Callback
      BY <2>1, <2>5, <3>1 DEF StartsLoop, Callback, Answer
    <3>3. QED
      BY <2>3, <2>4, <2>5, <3>1, <3>2, <1>8 DEF StartsLoop, TypeOK
  <2>6. CASE (Fail(q.op) \/ End(q.op, msg)) /\ UNCHANGED <<requests, objects>>
    BY <1>8, <1>f, <2>1, <2>3, <2>4, <2>6 DEF TypeOK
  <2>7. QED
    BY <1>8, <2>5, <2>6 DEF Response
<1>9. ASSUME NEW q \in out, GoodResponse(q) \/ ErrorResponse(q) PROVE TypeOK'
  <2>1. q \in Request
    BY DEF TypeOK
  <2>2. faults' \in 0..MaxFaults
    BY <1>9 DEF GoodResponse, ErrorResponse, TypeOK
  <2>3. QED
    BY <1>8, <1>9, <2>1, <2>2, AnswerType DEF GoodResponse, ErrorResponse
<1>v. ASSUME cb.z <= Len(cb.vbs) PROVE vb \in Varbind /\ vb.oid \in Oid
  <2>1. cb.vbs \in Seq(Varbind) /\ cb.z \in 1..Len(cb.vbs)
    BY <1>v DEF TypeOK, Callback
  <2>2. vb \in Varbind
    BY <2>1 DEF vb
  <2>3. QED
    BY <2>2 DEF Varbind
<1>10. CASE VarbindEnds \/ QueryEnds
  <2>1. End(cb.op, msg) /\ msg \in Seq(Oid)
    BY <1>10 DEF VarbindEnds, QueryEnds, TypeOK
  <2>2. QED
    BY <1>10, <1>f, <2>1 DEF VarbindEnds, QueryEnds, TypeOK
<1>11. CASE VarbindCounts
  <2>1. cb' \in Callback
    BY <1>11 DEF VarbindCounts, TypeOK, Callback
  <2>2. QED
    BY <1>11, <2>1 DEF VarbindCounts, TypeOK, mibVars
<1>12. CASE LoadsNothing
  <2>1. cb' \in Callback
    BY <1>12 DEF LoadsNothing, NextStep, TypeOK, Callback
  <2>2. QED
    BY <1>12, <2>1 DEF LoadsNothing, TypeOK, members, mibVars
<1>13. ASSUME NEW m \in Module, AutoLoads(m) \/ \E all \in BOOLEAN : Accepts(m, all)
       PROVE TypeOK'
  <2>1. Load(m) /\ policy' \in {"all", "default", "none"}
    BY <1>13 DEF AutoLoads, Accepts, TypeOK
  <2>2. cb' \in Callback
    BY <2>1 DEF Load, TypeOK, Callback
  <2>3. QED
    BY <1>13, <2>1, <2>2 DEF AutoLoads, Accepts, Load, TypeOK, members
<1>14. ASSUME NEW m \in Module, Prompts(m) PROVE TypeOK'
  BY <1>14 DEF Prompts, TypeOK, members, mibVars
<1>15. ASSUME NEW all \in BOOLEAN, Declines(all) PROVE TypeOK'
  <2>1. cb' \in Callback
    BY <1>15 DEF Declines, NextStep, TypeOK, Callback
  <2>2. QED
    BY <1>15, <2>1 DEF Declines, TypeOK, members
<1>16. CASE BoxDismissed \/ TimerExpiredInDialog
  BY <1>16 DEF BoxDismissed, TimerExpiredInDialog, TypeOK, members, mibVars
<1>17. CASE ShowsError
  <2>1. Append(msg, vb.oid) \in Seq(Oid)
    BY <1>17, <1>v DEF ShowsError, InLoop, TypeOK
  <2>2. End(cb.op, Append(msg, vb.oid))
    BY <1>17 DEF ShowsError
  <2>3. QED
    BY <1>17, <1>f, <2>1, <2>2 DEF ShowsError, TypeOK
<1>18. CASE Shows
  <2>1. Append(msg, vb.oid) \in Seq(Oid)
    BY <1>18, <1>v DEF Shows, InLoop, TypeOK
  <2>2. query \o Append(msg, vb.oid) \in Seq(Oid)
    BY <2>1 DEF TypeOK
  <2>3. cb' \in Callback
    <3>1. cb.z + 1 \in Nat \ {0} /\ cb \in Callback
      BY DEF TypeOK, Callback
    <3>2. cb' = [cb EXCEPT !.z = cb.z + 1, !.step = "start"]
      BY <1>18 DEF Shows
    <3>3. QED
      BY <3>1, <3>2 DEF Callback
  <2>4. msg' \in Seq(Oid) /\ query' \in Seq(Oid)
    BY <1>18, <1>h, <2>1, <2>2 DEF Shows, Buffer, TypeOK
  <2>5. QED
    BY <1>18, <2>3, <2>4 DEF Shows, TypeOK, mibVars
<1>19. CASE Reissues
  <2>1. cb.vbs \in Seq(Varbind) /\ cb.vbs # <<>> /\ cb.n \in 0..MaxOps
    BY <1>19 DEF Reissues, SessionInv, TypeOK, Callback
  <2>2. cb.vbs[Len(cb.vbs)] \in Varbind
    BY <2>1
  <2>3. cb.vbs[Len(cb.vbs)].oid \in Oid
    BY <2>2 DEF Varbind
  <2>4. out' \in SUBSET Request
    BY <1>19, <2>1, <2>3 DEF Reissues, Request, TypeOK
  <2>5. QED
    BY <1>19, <1>h, <2>4 DEF Reissues, TypeOK, members, mibVars
<1>20. CASE ReissueFails
  <2>1. Fail("walk")
    BY <1>20 DEF ReissueFails
  <2>2. QED
    BY <1>20, <1>f, <2>1 DEF ReissueFails, TypeOK
<1>21. CASE TimerExpired \/ UNCHANGED vars
  BY <1>21 DEF TimerExpired, vars, TypeOK, members, mibVars
<1>22. ASSUME NEW oid \in Root, NEW b \in BOOLEAN,
              Get(oid, b) \/ Set(oid, b) \/ GetFromSelectInstance(oid)
       PROVE TypeOK'
  BY <1>2, <1>22 DEF Get, Set, GetFromSelectInstance
<1>23. QED
  BY <1>1, <1>3, <1>4, <1>5, <1>6, <1>7, <1>9, <1>10, <1>11, <1>12, <1>13, <1>14,
     <1>15, <1>16, <1>17, <1>18, <1>19, <1>20, <1>21, <1>22
     DEF Next, User, Answers, Dialogs, Loop
-----------------------------------------------------------------------------
\* Every step keeps the invariant about callbacks, flags and policy.
LEMMA InvStep == TypeOK /\ SessionInv /\ [Next]_vars => SessionInv'
<1> SUFFICES ASSUME TypeOK, SessionInv, [Next]_vars PROVE SessionInv'
  OBVIOUS
<1> USE DEF SessionInv, WalkActive, WalkOut
<1>t. walk \in History /\ cb \in Callback /\ out \subseteq Request /\ walking \in BOOLEAN
  BY DEF TypeOK
<1>d. ASSUME Disturb
      PROVE  walk'.unsent = walk.unsent /\ (walk'.disturbed <=> walk.disturbed \/ WalkActive)
  BY <1>d, <1>t DEF Disturb, History
\* A callback that ends in cleanup.
<1>cleanup. ASSUME NEW op \in {"walk", "get", "set"}, NEW m, Cleanup(op, m),
                   \/ cb.op = op /\ out' = out
                   \/ cb.op = "none" /\ \E q \in out : q.op = op /\ out' = out \ {q},
                   walk'.disturbed = walk.disturbed, walk'.unsent = walk.unsent
            PROVE  SessionInv'
  <2>1. pc' = "idle" /\ cb'.op = "none" /\ cb'.step = "start"
    BY <1>cleanup DEF Cleanup, NoCb
  <2>2. CASE op = "set"
    <3>1. policy' = policy /\ (walking' <=> walking)
      BY <1>cleanup, <2>2 DEF Cleanup
    <3>2. WalkOut' <=> WalkOut
      BY <1>cleanup, <2>2
    <3>3. cb.op # "walk" /\ cb.op # "get"
      BY <1>cleanup, <2>2
    <3>4. WalkActive => walk.disturbed
      BY <1>cleanup, <2>2
    <3>5. QED
      BY <1>cleanup, <2>1, <3>1, <3>2, <3>3, <3>4
  <2>3. CASE op # "set"
    <3>1. policy' = "default" /\ ~walking'
      BY <1>cleanup, <2>3 DEF Cleanup
    <3>2. WalkOut' => WalkOut /\ walk.disturbed
      BY <1>cleanup, <2>3
    <3>3. QED
      BY <1>cleanup, <2>1, <3>1, <3>2
  <2>4. QED
    BY <2>2, <2>3
\* A step inside the callback.
<1>inside. ASSUME cb.op # "none", cb'.op = cb.op, cb'.vbs = cb.vbs, pc' # "idle",
                  pc' = "prompt" => cb.op # "set",
                  cb.op = "set" => cb'.step \in {"start", "show"},
                  policy' = policy \/ cb.op # "set",
                  UNCHANGED <<out, walking, walk>>
           PROVE  SessionInv'
  BY <1>inside
<1>1. ASSUME NEW oid \in Root, WalkFrom(oid) PROVE SessionInv'
  <2>1. cb.op = "none" /\ pc = "idle" /\ walking' /\ UNCHANGED <<pc, cb, policy>>
    BY <1>1 DEF WalkFrom, AtTopLevel, mibVars
  <2>2. /\ walk'.disturbed <=> out # {}
        /\ walk'.unsent <=> out' = out
    BY <1>1 DEF WalkFrom
  <2>3. \/ out' = out
        \/ \E q : q.op = "walk" /\ out' = out \cup {q}
    BY <1>1 DEF WalkFrom, Send
  <2>4. QED
    BY <2>1, <2>2, <2>3
<1>2. ASSUME NEW op \in {"get", "set"}, NEW oid \in Root, NEW b \in BOOLEAN,
             Query(op, oid, b)
      PROVE SessionInv'
  <2>1. UNCHANGED <<pc, cb, policy, walking>> /\ Disturb
    BY <1>2 DEF Query, mibVars
  <2>2. \/ out' = out
        \/ \E q : q.op = op /\ out' = out \cup {q}
    BY <1>2 DEF Query, Send
  <2>3. QED
    BY <2>1, <2>2, <1>d
<1>3. CASE Stop
  <2>1. UNCHANGED <<pc, cb, policy, walking, out>>
    BY <1>3 DEF Stop, mibVars
  <2>2. walk'.disturbed = walk.disturbed /\ walk'.unsent = walk.unsent
    BY <1>3, <1>t DEF Stop, History
  <2>3. QED
    BY <2>1, <2>2
<1>4. ASSUME NEW oid \in Root, TableViewFrom(oid) \/ SelectTableInstance(oid)
      PROVE SessionInv'
  <2>1. UNCHANGED <<pc, cb, policy, walking, out>> /\ Disturb
    BY <1>4 DEF TableViewFrom, SelectTableInstance, mibVars
  <2>2. QED
    BY <2>1, <1>d
<1>5. CASE TableViewEnds \/ TimerExpired \/ UNCHANGED vars
  BY <1>5 DEF TableViewEnds, TimerExpired, vars, members, mibVars
<1>7. ASSUME NEW q \in out, Timeout(q) PROVE SessionInv'
  <2>1. q.op \in {"walk", "get", "set"} /\ Cleanup(q.op, <<>>) /\ out' = out \ {q}
        /\ cb.op = "none" /\ walk' = walk
    BY <1>7 DEF Timeout, Fail, Polled
  <2>2. QED
    BY <1>cleanup, <2>1
<1>8. ASSUME NEW q \in out, NEW a, Response(q, a) PROVE SessionInv'
  <2>1. /\ q.op \in {"walk", "get", "set"} /\ out' = out \ {q}
        /\ cb.op = "none" /\ pc = "idle"
    BY <1>8 DEF Response, Polled
  <2>2. walk'.disturbed = walk.disturbed /\ walk'.unsent = walk.unsent
    BY <1>8, <1>t DEF Response, History
  <2>3. CASE StartsLoop(q, a) /\ ~Fails(q, a) /\ ~Ends(q, a)
    <3>1. /\ pc' = "loop" /\ cb'.op = q.op /\ cb'.step = "start" /\ cb'.vbs # <<>>
          /\ UNCHANGED <<policy, walking>>
      BY <2>3 DEF StartsLoop, Fails
    <3>2. WalkActive' <=> WalkActive
      BY <2>1, <3>1
    <3>3. WalkOut => WalkOut' \/ q.op = "walk"
      BY <2>1
    <3>4. WalkActive /\ ~walk.disturbed => q.op = "walk" /\ out' = {}
      BY <2>1
    <3>5. QED
      BY <2>1, <2>2, <3>1, <3>2, <3>3, <3>4
  <2>4. CASE \E m : Cleanup(q.op, m)
    BY <1>cleanup, <2>1, <2>2, <2>4
  <2>5. QED
    BY <1>8, <2>3, <2>4 DEF Response, Fail, End
<1>9. ASSUME NEW q \in out, GoodResponse(q) \/ ErrorResponse(q) PROVE SessionInv'
  BY <1>8, <1>9 DEF GoodResponse, ErrorResponse
<1>10. CASE VarbindEnds \/ QueryEnds \/ ShowsError \/ ReissueFails
  <2>1. PICK m : Cleanup(cb.op, m)
    BY <1>10 DEF VarbindEnds, QueryEnds, ShowsError, ReissueFails, End, Fail
  <2>2. cb.op \in {"walk", "get", "set"} /\ out' = out /\ walk' = walk
    BY <1>10 DEF VarbindEnds, QueryEnds, ShowsError, ReissueFails, InLoop, LoopDone
  <2>3. QED
    BY <1>cleanup, <2>1, <2>2
<1>11. CASE VarbindCounts
  BY <1>11, <1>t, <1>inside DEF VarbindCounts, InLoop, mibVars, Callback
<1>12. CASE LoadsNothing
  BY <1>12, <1>t, <1>inside DEF LoadsNothing, InLoop, mibVars, Callback
<1>13. ASSUME NEW m \in Module, AutoLoads(m) \/ \E all \in BOOLEAN : Accepts(m, all)
       PROVE SessionInv'
  <2>1. Load(m) /\ UNCHANGED <<out, walking, walk>> /\ pc # "idle" /\ cb.op # "set"
    BY <1>13 DEF AutoLoads, Accepts, InLoop
  <2>2. QED
    BY <2>1, <1>t, <1>inside DEF Load, Callback
<1>14. ASSUME NEW m \in Module, Prompts(m) PROVE SessionInv'
  BY <1>14, <1>inside DEF Prompts, InLoop, mibVars
<1>15. ASSUME NEW all \in BOOLEAN, Declines(all) PROVE SessionInv'
  BY <1>15, <1>t, <1>inside DEF Declines, Callback
<1>16. CASE BoxDismissed \/ TimerExpiredInDialog
  BY <1>16, <1>inside DEF BoxDismissed, TimerExpiredInDialog, mibVars
<1>18. CASE Shows
  BY <1>18, <1>t, <1>inside DEF Shows, InLoop, mibVars, Callback
<1>19. CASE Reissues
  <2>1. /\ cb.op = "walk" /\ pc' = "idle" /\ cb'.op = "none" /\ cb'.step = "start"
        /\ UNCHANGED <<policy, walking, walk>>
    BY <1>19 DEF Reissues, NoCb, mibVars
  <2>2. \E q : q.op = "walk" /\ out' = out \cup {q}
    BY <1>19 DEF Reissues
  <2>3. QED
    BY <2>1, <2>2
<1>22. ASSUME NEW oid \in Root, NEW b \in BOOLEAN,
              Get(oid, b) \/ Set(oid, b) \/ GetFromSelectInstance(oid)
       PROVE SessionInv'
  BY <1>2, <1>22 DEF Get, Set, GetFromSelectInstance
<1>23. QED
  BY <1>1, <1>3, <1>4, <1>5, <1>7, <1>9, <1>10, <1>11, <1>12, <1>13, <1>14,
     <1>15, <1>16, <1>18, <1>19, <1>22
     DEF Next, User, Answers, Dialogs, Loop
-----------------------------------------------------------------------------
LEMMA InitType == Init => TypeOK
<1> SUFFICES ASSUME Init PROVE TypeOK
  OBVIOUS
<1>1. <<>> \in Oid
  BY DEF Oid
<1>2. cb \in Callback
  BY BoundsAssumption DEF Init, NoCb, Callback
<1>3. walk \in History
  BY <1>1 DEF Init, History
<1>4. started \in 0..MaxOps /\ faults \in 0..MaxFaults
  BY BoundsAssumption DEF Init
<1>5. theoid \in Oid /\ msg \in Seq(Oid) /\ query \in Seq(Oid)
  BY <1>1 DEF Init
<1>6. stop \in BOOLEAN /\ walking \in BOOLEAN /\ out \in SUBSET Request
  BY DEF Init
<1>7. requests \in Nat /\ objects \in Nat
  BY DEF Init
<1>8. QED
  BY <1>2, <1>3, <1>4, <1>5, <1>6, <1>7 DEF Init, TypeOK

LEMMA InitInv == Init => SessionInv
  BY DEF Init, SessionInv, WalkActive, WalkOut, NoCb

\* The invariant that carries the other results, for every agent, every set
\* of MIB modules and any number of overlapping operations and faults.
THEOREM Invariance == Spec => [](TypeOK /\ SessionInv)
<1>1. Init => TypeOK /\ SessionInv
  BY InitType, InitInv
<1>2. TypeOK /\ SessionInv /\ [Next]_vars => (TypeOK /\ SessionInv)'
  BY TypeStep, InvStep
<1>3. QED
  BY <1>1, <1>2, PTL DEF Spec

\* Agent's members, the queues of the callbacks and MibModule's lists keep
\* their types; in particular the loop index of AsyncCallback stays in range
\* of what an answer's error index can make of it.
THEOREM TypeCorrect == Spec => []TypeOK
  BY Invariance, PTL

\* YesToAll and NoToAll never outlive the query they were given for.
THEOREM PolicyIsForgotten == Spec => []PolicyForgotten
<1>1. SessionInv => PolicyForgotten
  BY DEF SessionInv, PolicyForgotten
<1>2. QED
  BY <1>1, Invariance, PTL

\* The Stop action is enabled during every walk that nothing disturbs, and
\* after it only if the walk could not be sent.
THEOREM StopIsEnabled == Spec => []StopEnabled
<1>1. SessionInv => StopEnabled
  BY DEF SessionInv, StopEnabled
<1>2. QED
  BY <1>1, Invariance, PTL
-----------------------------------------------------------------------------
\* A callback that ends in cleanup leaves the timer on.
LEMMA EndsTimed ==
  ASSUME NEW op, NEW m, Fail(op) \/ End(op, m)
  PROVE  timer' = "trap" /\ pc' = "idle"
  BY DEF Fail, End, Cleanup

\* Every step of a callback either stays inside it or starts the timer.
LEMMA TimerStep == TimerRuns /\ [Next]_vars => TimerRuns'
<1> SUFFICES ASSUME TimerRuns, [Next]_vars PROVE TimerRuns'
  OBVIOUS
<1> USE DEF TimerRuns
<1>1. ASSUME NEW oid \in Root, WalkFrom(oid) PROVE TimerRuns'
  BY <1>1 DEF WalkFrom, Send
<1>2. ASSUME NEW op \in {"get", "set"}, NEW oid \in Root, NEW b \in BOOLEAN,
             Query(op, oid, b)
      PROVE TimerRuns'
  BY <1>2 DEF Query, Send
<1>3. ASSUME NEW oid \in Root, NEW b \in BOOLEAN,
             Get(oid, b) \/ Set(oid, b) \/ GetFromSelectInstance(oid)
      PROVE TimerRuns'
  BY <1>2, <1>3 DEF Get, Set, GetFromSelectInstance
<1>4. ASSUME NEW oid \in Root, TableViewFrom(oid) \/ SelectTableInstance(oid)
      PROVE TimerRuns'
  BY <1>4 DEF TableViewFrom, SelectTableInstance
<1>5. CASE Stop \/ TableViewEnds \/ TimerExpired \/ UNCHANGED vars
  BY <1>5 DEF Stop, TableViewEnds, TimerExpired, vars
<1>6. ASSUME NEW q \in out, Timeout(q) \/ GoodResponse(q) \/ ErrorResponse(q)
      PROVE TimerRuns'
  BY <1>6, EndsTimed DEF Timeout, GoodResponse, ErrorResponse, Response, StartsLoop
<1>7. CASE VarbindEnds \/ QueryEnds \/ ShowsError \/ ReissueFails
  BY <1>7, EndsTimed DEF VarbindEnds, QueryEnds, ShowsError, ReissueFails
<1>8. CASE VarbindCounts \/ LoadsNothing \/ Shows \/ BoxDismissed \/ TimerExpiredInDialog
  BY <1>8 DEF VarbindCounts, LoadsNothing, Shows, BoxDismissed, TimerExpiredInDialog,
     InLoop
<1>9. ASSUME NEW m \in Module, AutoLoads(m) \/ Prompts(m) PROVE TimerRuns'
  BY <1>9 DEF AutoLoads, Prompts, Load
<1>10. ASSUME NEW all \in BOOLEAN, Declines(all) \/ \E m \in Module : Accepts(m, all)
       PROVE TimerRuns'
  BY <1>10 DEF Declines, Accepts, Load
<1>11. CASE Reissues
  BY <1>11 DEF Reissues
<1>12. QED
  BY <1>1, <1>3, <1>4, <1>5, <1>6, <1>7, <1>8, <1>9, <1>10, <1>11
     DEF Next, User, Answers, Dialogs, Loop

\* The timer that LoadBestModule stopped always runs again when the callback
\* is over.
THEOREM TimerAlwaysRuns == Spec => []TimerRuns
<1>1. Init => TimerRuns
  BY DEF Init, TimerRuns
<1>2. QED
  BY <1>1, TimerStep, PTL DEF Spec
-----------------------------------------------------------------------------
\* While no error box can open, the only dialog inside a callback is the
\* question of LoadBestModule, and the timer is off while it is open.
QuietDialogs == /\ pc \notin {"box", "stuck"}
                /\ pc = "prompt" => timer = "off"

LEMMA QuietStep ==
  ASSUME ~RefreshMayFail, QuietDialogs, [Next]_vars PROVE QuietDialogs'
<1> USE DEF QuietDialogs
<1>1. ASSUME NEW oid \in Root, WalkFrom(oid) PROVE QuietDialogs'
  BY <1>1 DEF WalkFrom, AtTopLevel
<1>2. ASSUME NEW oid \in Root, NEW b \in BOOLEAN,
             Get(oid, b) \/ Set(oid, b) \/ GetFromSelectInstance(oid)
      PROVE QuietDialogs'
  BY <1>2 DEF Get, Set, GetFromSelectInstance, Query, AtTopLevel
<1>3. ASSUME NEW oid \in Root, TableViewFrom(oid) \/ SelectTableInstance(oid)
      PROVE QuietDialogs'
  BY <1>3 DEF TableViewFrom, SelectTableInstance
<1>4. CASE Stop \/ TableViewEnds \/ TimerExpired \/ UNCHANGED vars
  BY <1>4 DEF Stop, TableViewEnds, TimerExpired, vars
<1>5. ASSUME NEW q \in out, Timeout(q) \/ GoodResponse(q) \/ ErrorResponse(q)
      PROVE QuietDialogs'
  BY <1>5, EndsTimed DEF Timeout, GoodResponse, ErrorResponse, Response, StartsLoop
<1>6. CASE VarbindEnds \/ QueryEnds \/ ShowsError \/ ReissueFails
  BY <1>6, EndsTimed DEF VarbindEnds, QueryEnds, ShowsError, ReissueFails
<1>7. CASE VarbindCounts \/ LoadsNothing \/ Shows \/ BoxDismissed \/ TimerExpiredInDialog
  BY <1>7 DEF VarbindCounts, LoadsNothing, Shows, BoxDismissed, TimerExpiredInDialog,
     InLoop
<1>8. ASSUME NEW m \in Module, AutoLoads(m) \/ Prompts(m) PROVE QuietDialogs'
  BY <1>8 DEF AutoLoads, Prompts, Load
<1>9. ASSUME NEW all \in BOOLEAN, Declines(all) \/ \E m \in Module : Accepts(m, all)
      PROVE QuietDialogs'
  BY <1>9 DEF Declines, Accepts, Load
<1>10. CASE Reissues
  BY <1>10 DEF Reissues
<1>11. QED
  BY <1>1, <1>2, <1>3, <1>4, <1>5, <1>6, <1>7, <1>8, <1>9, <1>10
     DEF Next, User, Answers, Dialogs, Loop

\* The question of LoadBestModule never makes the thread wait for itself:
\* without Refresh's error boxes TimerExpired is never called inside a
\* callback.
THEOREM PromptNeverSticks == ASSUME ~RefreshMayFail PROVE Spec => []NeverStuck
<1>1. Init => QuietDialogs
  BY DEF Init, QuietDialogs
<1>2. QuietDialogs /\ [Next]_vars => QuietDialogs'
  BY QuietStep
<1>3. QuietDialogs => NeverStuck
  BY DEF QuietDialogs, NeverStuck
<1>4. QED
  BY <1>1, <1>2, <1>3, PTL DEF Spec
-----------------------------------------------------------------------------
\* What StopIsFinal does hold for: as long as the stopped walk is under way
\* and no other operation was started, `stop' is still set.
StopStands == walk.halted /\ ~walk.disturbed /\ WalkActive => stop

LEMMA StopStep == ASSUME TypeOK, SessionInv, StopStands, [Next]_vars PROVE StopStands'
<1> USE DEF StopStands, WalkActive, WalkOut
<1>t. walk \in History
  BY DEF TypeOK
<1>1. ASSUME NEW oid \in Root, WalkFrom(oid) PROVE StopStands'
  BY <1>1 DEF WalkFrom
\* Only an operation resets `stop'; it disturbs the walk.
<1>2. ASSUME Disturb, \A q \in out' : q.op = "walk" => q \in out, cb' = cb
      PROVE  StopStands'
  BY <1>t, <1>2 DEF Disturb, History
<1>3. ASSUME NEW op \in {"get", "set"}, NEW oid \in Root, NEW b \in BOOLEAN,
             Query(op, oid, b)
      PROVE  StopStands'
  BY <1>2, <1>3 DEF Query, Send
<1>4. ASSUME NEW oid \in Root, NEW b \in BOOLEAN,
             Get(oid, b) \/ Set(oid, b) \/ GetFromSelectInstance(oid)
      PROVE  StopStands'
  BY <1>3, <1>4 DEF Get, Set, GetFromSelectInstance
<1>5. ASSUME NEW oid \in Root, TableViewFrom(oid) \/ SelectTableInstance(oid)
      PROVE  StopStands'
  BY <1>2, <1>5 DEF TableViewFrom, SelectTableInstance
<1>6. CASE Stop
  BY <1>6 DEF Stop
\* Every other step leaves `stop' alone and starts no walk.
<1>7. ASSUME stop' = stop, walk'.halted = walk.halted,
             walk'.disturbed = walk.disturbed, WalkActive' => WalkActive
      PROVE  StopStands'
  BY <1>7
<1>8. CASE TableViewEnds \/ TimerExpired \/ TimerExpiredInDialog \/ BoxDismissed
           \/ UNCHANGED vars
  BY <1>7, <1>8 DEF TableViewEnds, TimerExpired, TimerExpiredInDialog, BoxDismissed,
     members, vars
<1>9. ASSUME NEW q \in out, Timeout(q) \/ GoodResponse(q) \/ ErrorResponse(q)
      PROVE  StopStands'
  <2>1. stop' = stop /\ out' = out \ {q}
    BY <1>9 DEF Timeout, GoodResponse, ErrorResponse, Response
  <2>2. walk'.halted = walk.halted /\ walk'.disturbed = walk.disturbed
    BY <1>t, <1>9 DEF Timeout, GoodResponse, ErrorResponse, Response, History
  <2>3. cb'.op = "none" \/ cb'.op = q.op
    BY <1>9 DEF Timeout, GoodResponse, ErrorResponse, Response, StartsLoop, Fail, End,
       Cleanup, NoCb
  <2> QED
    BY <1>7, <2>1, <2>2, <2>3
<1>10. CASE VarbindEnds \/ QueryEnds \/ ShowsError \/ ReissueFails
  BY <1>7, <1>10 DEF VarbindEnds, QueryEnds, ShowsError, ReissueFails, Fail, End, Cleanup,
     NoCb
<1>11. CASE VarbindCounts \/ LoadsNothing \/ Shows
  <2>1. cb \in Callback
    BY DEF TypeOK
  <2> QED
    BY <1>7, <1>11, <2>1 DEF VarbindCounts, LoadsNothing, Shows, members, Callback
<1>12. ASSUME NEW m \in Module,
              AutoLoads(m) \/ Prompts(m) \/ \E all \in BOOLEAN : Accepts(m, all)
       PROVE  StopStands'
  <2>1. cb \in Callback
    BY DEF TypeOK
  <2> QED
    BY <1>7, <1>12, <2>1 DEF AutoLoads, Prompts, Accepts, Load, members, Callback
<1>13. ASSUME NEW all \in BOOLEAN, Declines(all) PROVE StopStands'
  <2>1. cb \in Callback
    BY DEF TypeOK
  <2> QED
    BY <1>7, <1>13, <2>1 DEF Declines, members, Callback
<1>14. CASE Reissues
  BY <1>7, <1>14 DEF Reissues, members
<1> QED
  BY <1>1, <1>4, <1>5, <1>6, <1>8, <1>9, <1>10, <1>11, <1>12, <1>13, <1>14
     DEF Next, User, Answers, Dialogs, Loop

\* "Added support for STOP operation on a walk": no further get_bulk is sent
\* for a stopped walk that no other operation disturbs, whenever during the
\* walk Stop was chosen.
THEOREM StopIsObeyed == Spec => [][walk.halted /\ ~walk.disturbed => ~Reissues]_vars
<1>1. Init => StopStands
  BY DEF Init, StopStands
<1>2. TypeOK /\ SessionInv /\ StopStands /\ [Next]_vars => StopStands'
  BY StopStep
<1>3. StopStands => (walk.halted /\ ~walk.disturbed => ~Reissues)
  BY DEF StopStands, WalkActive, Reissues
<1> QED
  BY <1>1, <1>2, <1>3, Invariance, PTL DEF Spec
=============================================================================
