---------------------------- MODULE AgentSession ----------------------------
(***************************************************************************)
(* Agent, the object behind the MIB tree's Walk, Get, Set, Table View and  *)
(* Stop.  All its operations share one set of members (theoid, stop,       *)
(* requests, objects, msg, timer) while several requests may be            *)
(* outstanding.  Everything runs in the GUI thread: an operation or a      *)
(* callback is interrupted only where it opens a modal dialog, whose       *)
(* nested event loop lets Agent's timer fire, or where a blocking request  *)
(* polls the session.  The session answers every request once: that is     *)
(* RequestService, which MsgQueue implements.                              *)
(***************************************************************************)
EXTENDS Integers, Sequences, FiniteSets

CONSTANTS
  Mib,            \* the instances the agent holds, a sequence of OIDs
  Root,           \* the OIDs the user may pick in the MIB tree
  Module,         \* the MIB modules on disk
  Matches,        \* [Module -> set of OIDs that start with one of its roots]
  Size,           \* [Module -> length of that root]
  RefreshMayFail, \* whether MibModule::Refresh may open an error box
  MaxRep,         \* AgentProfile::GetMaxRepetitions()
  FlushEvery,     \* 10: objects buffered before they are displayed
  MaxOps,         \* bound: operations the user starts
  MaxFaults       \* bound: timeouts, errors and failing sends

Oid == Seq(Nat)

\* Oid::nCompare(t.len(), t) = 0
StartsWith(o, t) == Len(t) <= Len(o) /\ SubSeq(o, 1, Len(t)) = t

LexLess(a, b) ==
  \E i \in 1..Len(b) : /\ i <= Len(a) + 1
                       /\ SubSeq(a, 1, i - 1) = SubSeq(b, 1, i - 1)
                       /\ i = Len(a) + 1 \/ a[i] < b[i]

ASSUME AgentAssumption ==
  /\ Mib \in Seq(Oid)
  /\ \A i, j \in 1..Len(Mib) : i < j => LexLess(Mib[i], Mib[j])
  /\ Root \subseteq Oid
  /\ Size \in [Module -> Nat]
  /\ \A m \in Module : Matches[m] \subseteq Oid

\* The nodes of the MIB tree are object types and their parents; an instance
\* has the OID of its object type and an index after it.
ASSUME TreeAssumption == \A i \in 1..Len(Mib) : Mib[i] \notin Root

ASSUME BoundsAssumption ==
  /\ RefreshMayFail \in BOOLEAN
  /\ MaxRep \in Nat \ {0} /\ FlushEvery \in Nat \ {0}
  /\ MaxOps \in Nat /\ MaxFaults \in Nat

VARIABLES
  theoid, stop, requests, objects,  \* Agent's members of these names
  msg,       \* the objects in Agent::msg
  timer,     \* Agent::timer: "async", "trap" or "off"
  walking,   \* MibView::walkinprogress, and whether actionStop is enabled
  policy,    \* MibModule::Policy
  unloaded,  \* MibModule::Unloaded
  autoload,  \* Preferences::GetAutomaticLoading()
  query,     \* the objects displayed in the Query window
  out,       \* the requests the session has not answered yet
  pc,        \* what the GUI thread is in
  cb,        \* the locals of the running callback
  blocking,  \* the blocking operation on the stack, "no" if none
  started,   \* number of operations started
  faults,    \* number of faults so far
  walk,      \* history of the last walk
  report     \* history: how the walk in the Query window ended

members == <<theoid, stop, requests, objects, msg>>
mibVars == <<policy, unloaded, autoload>>
vars == <<members, timer, walking, mibVars, query, out, pc, cb, blocking,
          started, faults, walk, report>>
-----------------------------------------------------------------------------
(***************************************************************************)
(* Requests and the answers an SNMP agent gives to them.                   *)
(***************************************************************************)
Instance == {Mib[i] : i \in 1..Len(Mib)}
Request == [n : 0..MaxOps, op : {"walk", "get", "set"}, oid : Oid, size : 1..2]

Syntax == {"value", "noSuch", "endOfMibView"}
Varbind == [oid : Oid, syntax : Syntax]
Vb(o, s) == [oid |-> o, syntax |-> s]

\* The instances that follow o, in order.
After(o) ==
  LET k == Cardinality({i \in 1..Len(Mib) : ~LexLess(o, Mib[i])})
  IN SubSeq(Mib, k + 1, Len(Mib))

\* GETBULK: one to MaxRep instances, and an endOfMibView if there are fewer.
BulkVbs(o, n) ==
  LET rest == After(o)
  IN [i \in 1..(IF n <= Len(rest) THEN n ELSE Len(rest) + 1) |->
        IF i <= Len(rest) THEN Vb(rest[i], "value") ELSE Vb(o, "endOfMibView")]

GoodAnswers(q) ==
  CASE q.op = "walk" -> {[error |-> "none", index |-> 0, vbs |-> BulkVbs(q.oid, n)] :
                           n \in 1..MaxRep}
                        \cup (IF After(q.oid) = <<>>   \* how SNMPv1 says so
                              THEN {[error |-> "noSuchName", index |-> 1,
                                     vbs |-> <<Vb(q.oid, "value")>>]}
                              ELSE {})
    [] OTHER -> {[error |-> "none", index |-> 0,
                  vbs |-> [i \in 1..q.size |-> Vb(q.oid, syntax[i])]] :
                   syntax \in [1..q.size -> Syntax]}

\* An error echoes the varbinds; the index says which one, 0 if none.
ErrorAnswers(q) ==
  {[error |-> "other", index |-> i, vbs |-> [j \in 1..q.size |-> Vb(q.oid, "value")]] :
     i \in 0..q.size}
  \cup {[error |-> "none", index |-> 0, vbs |-> <<>>]}
-----------------------------------------------------------------------------
(***************************************************************************)
(* Starting an operation.  Setup, which comes first, stores the OID in     *)
(* theoid ("" when the varbind list is used).                              *)
(***************************************************************************)
WalkOut == \E q \in out : q.op = "walk"
WalkActive == WalkOut \/ cb.op = "walk"

AtTopLevel == pc = "idle" /\ blocking = "no"

\* History: an operation started while a walk is under way disturbs it, and
\* so does what is still outstanding when the walk starts.
Disturb == walk' = [walk EXCEPT !.disturbed = @ \/ WalkActive]

\* "Clear some global vars", after the Query window.
Clear(oid) ==
  /\ theoid' = oid
  /\ requests' = 0
  /\ objects' = 0
  /\ msg' = <<>>
  /\ query' = <<>>
  /\ report' = "none"

Send(op, oid, size) ==
  \/ /\ out' = out \cup {[n |-> started + 1, op |-> op, oid |-> oid, size |-> size]}
     /\ timer' = "async"
     /\ UNCHANGED faults
  \/ /\ faults < MaxFaults
     /\ faults' = faults + 1
     /\ UNCHANGED <<out, timer>>

WalkFrom(oid) ==
  /\ AtTopLevel
  /\ started < MaxOps
  /\ started' = started + 1
  /\ Clear(oid)
  /\ stop' = FALSE
  /\ walking' = TRUE
  /\ Send("walk", oid, 1)
  /\ walk' = [root |-> oid, disturbed |-> out # {}, halted |-> FALSE,
              erred |-> FALSE, unsent |-> out' = out]
  /\ UNCHANGED <<mibVars, pc, cb, blocking>>

\* Get, GetNext, GetBulk and Set, of one object or of the varbind list.
Query(op, oid, usevblist) ==
  /\ started < MaxOps
  /\ started' = started + 1
  /\ Clear(IF usevblist THEN <<>> ELSE oid)
  /\ stop' = FALSE
  /\ Send(op, oid, IF usevblist THEN 2 ELSE 1)
  /\ Disturb
  /\ UNCHANGED <<walking, mibVars, pc, cb>>

Get(oid, usevblist) == AtTopLevel /\ Query("get", oid, usevblist) /\ UNCHANGED blocking
Set(oid, usevblist) == AtTopLevel /\ Query("set", oid, usevblist) /\ UNCHANGED blocking

Stop ==
  /\ AtTopLevel
  /\ walking
  /\ stop' = TRUE
  /\ walk' = [walk EXCEPT !.halted = WalkOut]
  /\ UNCHANGED <<theoid, requests, objects, msg, timer, walking, mibVars, query,
                 out, pc, cb, blocking, started, faults, report>>

(***************************************************************************)
(* The blocking operations.  While they wait, the session is polled and    *)
(* may run the callbacks of other requests.                                *)
(***************************************************************************)
TableViewFrom(oid) ==
  /\ AtTopLevel
  /\ started < MaxOps
  /\ started' = started + 1
  /\ Clear(oid)
  /\ blocking' = "table"
  /\ Disturb
  /\ UNCHANGED <<stop, timer, walking, mibVars, out, pc, cb, faults>>

TableViewEnds ==
  /\ pc = "idle" /\ blocking = "table"
  /\ query' = query \o msg
  /\ blocking' = "no"
  /\ UNCHANGED <<members, timer, walking, mibVars, out, pc, cb, started, faults,
                 walk, report>>

SelectTableInstance(oid) ==
  /\ AtTopLevel
  /\ started < MaxOps
  /\ theoid' = oid
  /\ blocking' = "select"
  /\ Disturb
  /\ UNCHANGED <<stop, requests, objects, msg, timer, walking, mibVars, query,
                 out, pc, cb, started, faults, report>>

\* GetFromSelectInstance: the user picked an instance in the dialog.
GetFromSelectInstance(oid) ==
  /\ pc = "idle" /\ blocking = "select"
  /\ Query("get", oid, FALSE)
  /\ blocking' = "no"
-----------------------------------------------------------------------------
(***************************************************************************)
(* The callbacks.  cb holds the locals of AsyncCallback (AsyncCallbackSet  *)
(* for a set): the PDU, the loop index z and the step the varbind is at.   *)
(***************************************************************************)
NoCb == [op |-> "none", n |-> 0, error |-> "none", index |-> 0, vbs |-> <<>>,
         z |-> 1, step |-> "start"]

\* The polling that the timer or a blocking call does.
Polled == pc = "idle" /\ (timer # "off" \/ blocking # "no")

\* Mutants of Cleanup: SetPolicyDefault is forgotten; StopWalk is.
CleanupKeepsPolicy(op, shown) ==
  /\ query' = query \o shown
  /\ timer' = "trap"
  /\ policy' = policy
  /\ walking' = (op = "set" /\ walking)
  /\ pc' = "idle"
  /\ cb' = NoCb

CleanupKeepsWalking(op, shown) ==
  /\ query' = query \o shown
  /\ timer' = "trap"
  /\ policy' = IF op = "set" THEN policy ELSE "default"
  /\ walking' = walking
  /\ pc' = "idle"
  /\ cb' = NoCb

\* cleanup: the message is displayed, the timer slows down, and except in
\* AsyncCallbackSet the walk is taken to be over.
Cleanup(op, shown) ==
  /\ query' = query \o shown
  /\ timer' = "trap"
  /\ policy' = IF op = "set" THEN policy ELSE "default"
  /\ walking' = (op = "set" /\ walking)
  /\ pc' = "idle"
  /\ cb' = NoCb

\* Paths to cleanup that replace msg by a message.
Fail(op) ==
  /\ Cleanup(op, <<>>)
  /\ msg' = <<>>
  /\ report' = IF op = "walk" THEN "failed" ELSE report

\* end: the totals follow what msg holds by then.
End(op, m) ==
  /\ Cleanup(op, m)
  /\ msg' = m
  /\ report' = IF op # "walk" THEN report ELSE IF stop THEN "stopped" ELSE "finished"

Timeout(q) ==
  /\ Polled
  /\ q \in out
  /\ faults < MaxFaults
  /\ faults' = faults + 1
  /\ out' = out \ {q}
  /\ Fail(q.op)
  /\ UNCHANGED <<theoid, stop, requests, objects, unloaded, autoload, blocking,
                 started, walk>>

\* The error status and the varbind count decide whether the loop starts,
\* and where.
Ends(q, a) == q.op = "walk" /\ a.error = "noSuchName"
Fails(q, a) == ~Ends(q, a) /\ ((a.error # "none" /\ a.index = 0) \/ a.vbs = <<>>)

\* Mutant of StartsLoop: the error index, which counts from 1, is taken to
\* count from 0.
StartsLoopOffByOne(q, a) ==
  /\ objects' = IF a.error = "none" THEN objects ELSE a.index - 1
  /\ requests' = IF q.op = "set" THEN requests ELSE requests + 1
  /\ pc' = "loop"
  /\ cb' = [op |-> q.op, n |-> q.n, error |-> a.error, index |-> a.index,
            vbs |-> a.vbs, z |-> IF a.error = "none" THEN 1 ELSE a.index - 1,
            step |-> "start"]
  /\ UNCHANGED <<msg, timer, policy, walking, query, report>>

StartsLoop(q, a) ==
  /\ objects' = IF a.error = "none" THEN objects ELSE a.index - 1
  /\ requests' = IF q.op = "set" THEN requests ELSE requests + 1
  /\ pc' = "loop"
  /\ cb' = [op |-> q.op, n |-> q.n, error |-> a.error, index |-> a.index,
            vbs |-> a.vbs, z |-> IF a.error = "none" THEN 1 ELSE a.index,
            step |-> "start"]
  /\ UNCHANGED <<msg, timer, policy, walking, query, report>>

Response(q, a) ==
  /\ Polled
  /\ q \in out
  /\ out' = out \ {q}
  /\ walk' = [walk EXCEPT !.erred = @ \/ (q.op = "walk" /\ a \in ErrorAnswers(q))]
  /\ \/ Ends(q, a) /\ End(q.op, msg) /\ UNCHANGED <<requests, objects>>
     \/ Fails(q, a) /\ Fail(q.op) /\ UNCHANGED <<requests, objects>>
     \/ ~Ends(q, a) /\ ~Fails(q, a) /\ StartsLoop(q, a)
  /\ UNCHANGED <<theoid, stop, unloaded, autoload, blocking, started>>

GoodResponse(q) == \E a \in GoodAnswers(q) : Response(q, a) /\ UNCHANGED faults

ErrorResponse(q) ==
  /\ faults < MaxFaults
  /\ faults' = faults + 1
  /\ \E a \in ErrorAnswers(q) : Response(q, a)

InLoop(step) == pc = "loop" /\ cb.z <= Len(cb.vbs) /\ cb.step = step
vb == cb.vbs[cb.z]
OutOfScope == \/ vb.syntax = "endOfMibView"
              \/ cb.op = "walk" /\ ~StartsWith(vb.oid, theoid)

VarbindEnds ==
  /\ InLoop("start")
  /\ OutOfScope
  /\ End(cb.op, msg)
  /\ UNCHANGED <<theoid, stop, requests, objects, unloaded, autoload, out, blocking,
                 started, faults, walk>>

\* Mutant of VarbindCounts: AsyncCallbackSet loads modules as well.
VarbindCountsAlike ==
  /\ InLoop("start")
  /\ ~OutOfScope
  /\ objects' = objects + 1
  /\ cb' = [cb EXCEPT !.step = "name"]
  /\ UNCHANGED <<theoid, stop, requests, msg, timer, walking, mibVars, query, out,
                 pc, blocking, started, faults, walk, report>>

VarbindCounts ==
  /\ InLoop("start")
  /\ ~OutOfScope
  /\ objects' = objects + 1
  /\ cb' = [cb EXCEPT !.step = IF cb.op = "set" THEN "show" ELSE "name"]
  /\ UNCHANGED <<theoid, stop, requests, msg, timer, walking, mibVars, query, out,
                 pc, blocking, started, faults, walk, report>>
-----------------------------------------------------------------------------
(***************************************************************************)
(* LoadBestModule, called for the name of the varbind (unless libsmi       *)
(* resolves it but for a ".0") and then for its value if that is an OID.   *)
(* A module that was loaded sends the varbind back to "name".              *)
(***************************************************************************)
\* A module that is not loaded and has the longest root that o starts with;
\* among equals, the order of the list decides.
Best(m, o) ==
  /\ m \in unloaded /\ o \in Matches[m]
  /\ \A k \in unloaded : o \in Matches[k] => Size[k] <= Size[m]

MayLoad == autoload # "never" /\ policy # "none"

NextStep == IF cb.step = "name" THEN "value" ELSE "show"

\* The OIDs LoadBestModule may be asked about.
Asked == IF cb.step = "name" THEN {vb.oid} ELSE Instance

LoadsNothing ==
  /\ InLoop("name") \/ InLoop("value")
  /\ cb' = [cb EXCEPT !.step = NextStep]
  /\ UNCHANGED <<members, timer, walking, mibVars, query, out, pc, blocking,
                 started, faults, walk, report>>

Prompt == autoload = "prompt" /\ policy # "all"

\* "Load the module": Wanted, the preferences and Refresh, which may find
\* that smi.conf cannot be written or a MIB path has errors, and says so in
\* a message box.  The module's file is still there: it loads.
Load(m) ==
  /\ unloaded' = unloaded \ {m}
  /\ cb' = [cb EXCEPT !.step = "name"]
  /\ pc' \in IF RefreshMayFail THEN {"loop", "box"} ELSE {"loop"}

AutoLoads(m) ==
  /\ InLoop("name") \/ InLoop("value")
  /\ MayLoad /\ ~Prompt
  /\ \E o \in Asked : Best(m, o)
  /\ Load(m)
  /\ UNCHANGED <<members, timer, walking, policy, autoload, query, out, blocking,
                 started, faults, walk, report>>

\* Mutant of Prompts: the timer is not stopped.
PromptsTimed(m) ==
  /\ InLoop("name") \/ InLoop("value")
  /\ MayLoad /\ Prompt
  /\ \E o \in Asked : Best(m, o)
  /\ pc' = "prompt"
  /\ UNCHANGED <<members, timer, walking, mibVars, query, out, cb, blocking,
                 started, faults, walk, report>>

\* StopAgentTimer comes before the question is put.
Prompts(m) ==
  /\ InLoop("name") \/ InLoop("value")
  /\ MayLoad /\ Prompt
  /\ \E o \in Asked : Best(m, o)
  /\ timer' = "off"
  /\ pc' = "prompt"
  /\ UNCHANGED <<members, walking, mibVars, query, out, cb, blocking, started,
                 faults, walk, report>>

\* Mutant of Declines: the varbind is restarted as if a module was loaded.
DeclinesRestarts(all) ==
  /\ pc = "prompt"
  /\ policy' = IF all THEN "none" ELSE policy
  /\ cb' = [cb EXCEPT !.step = "name"]
  /\ pc' = "loop"
  /\ UNCHANGED <<members, timer, walking, unloaded, autoload, query, out, blocking,
                 started, faults, walk, report>>

\* No and NoToAll.
Declines(all) ==
  /\ pc = "prompt"
  /\ policy' = IF all THEN "none" ELSE policy
  /\ cb' = [cb EXCEPT !.step = NextStep]
  /\ pc' = "loop"
  /\ UNCHANGED <<members, timer, walking, unloaded, autoload, query, out, blocking,
                 started, faults, walk, report>>

\* Yes and YesToAll.
Accepts(m, all) ==
  /\ pc = "prompt"
  /\ \E o \in Asked : Best(m, o)
  /\ policy' = IF all THEN "all" ELSE policy
  /\ Load(m)
  /\ UNCHANGED <<members, timer, walking, autoload, query, out, blocking, started,
                 faults, walk, report>>

BoxDismissed ==
  /\ pc = "box"
  /\ pc' = "loop"
  /\ UNCHANGED <<members, timer, walking, mibVars, query, out, cb, blocking,
                 started, faults, walk, report>>

\* The timer fires in the nested event loop of a dialog that a callback
\* opened: SNMPProcessPendingEvents locks pevents_mutex, which this thread
\* already holds.
TimerExpiredInDialog ==
  /\ pc \in {"prompt", "box"}
  /\ timer # "off"
  /\ pc' = "stuck"
  /\ UNCHANGED <<members, timer, walking, mibVars, query, out, cb, blocking,
                 started, faults, walk, report>>
-----------------------------------------------------------------------------
\* "Buffer each 10 objects before displaying."
Buffer(o) ==
  IF objects % FlushEvery = 0
  THEN query' = query \o Append(msg, o) /\ msg' = <<>>
  ELSE msg' = Append(msg, o) /\ UNCHANGED query

VbError == vb.syntax = "noSuch" \/ (cb.error # "none" /\ cb.z = cb.index)

\* An error on a varbind whose node is known ends the query.
ShowsError ==
  /\ InLoop("show")
  /\ VbError
  /\ End(cb.op, Append(msg, vb.oid))
  /\ UNCHANGED <<theoid, stop, requests, objects, unloaded, autoload, out, blocking,
                 started, faults, walk>>

\* A value, or an error on a varbind no loaded module knows.
Shows ==
  /\ InLoop("show")
  /\ Buffer(vb.oid)
  /\ cb' = [cb EXCEPT !.z = @ + 1, !.step = "start"]
  /\ UNCHANGED <<theoid, stop, requests, objects, timer, walking, mibVars, out, pc,
                 blocking, started, faults, walk, report>>

LoopDone == pc = "loop" /\ cb.z > Len(cb.vbs)

\* Mutants of Reissues: the timer is not restarted; the first varbind is the
\* seed.
ReissuesUntimed ==
  /\ LoopDone
  /\ cb.op = "walk" /\ ~stop
  /\ out' = out \cup {[n |-> cb.n, op |-> "walk", oid |-> cb.vbs[Len(cb.vbs)].oid,
                     size |-> 1]}
  /\ pc' = "idle"
  /\ cb' = NoCb
  /\ UNCHANGED <<members, timer, walking, mibVars, query, blocking, started, faults,
                 walk, report>>

ReissuesFirst ==
  /\ LoopDone
  /\ cb.op = "walk" /\ ~stop
  /\ out' = out \cup {[n |-> cb.n, op |-> "walk", oid |-> cb.vbs[1].oid, size |-> 1]}
  /\ timer' = "async"
  /\ pc' = "idle"
  /\ cb' = NoCb
  /\ UNCHANGED <<members, walking, mibVars, query, blocking, started, faults, walk,
                 report>>

\* The last varbind becomes the seed of the next get_bulk.
Reissues ==
  /\ LoopDone
  /\ cb.op = "walk" /\ ~stop
  /\ out' = out \cup {[n |-> cb.n, op |-> "walk", oid |-> cb.vbs[Len(cb.vbs)].oid,
                     size |-> 1]}
  /\ timer' = "async"
  /\ pc' = "idle"
  /\ cb' = NoCb
  /\ UNCHANGED <<members, walking, mibVars, query, blocking, started, faults, walk,
                 report>>

ReissueFails ==
  /\ LoopDone
  /\ cb.op = "walk" /\ ~stop
  /\ faults < MaxFaults
  /\ faults' = faults + 1
  /\ Fail("walk")
  /\ UNCHANGED <<theoid, stop, requests, objects, unloaded, autoload, out, blocking,
                 started, walk>>

QueryEnds ==
  /\ LoopDone
  /\ cb.op # "walk" \/ stop
  /\ End(cb.op, msg)
  /\ UNCHANGED <<theoid, stop, requests, objects, unloaded, autoload, out, blocking,
                 started, faults, walk>>
-----------------------------------------------------------------------------
Init ==
  /\ theoid = <<>> /\ stop = FALSE /\ requests = 0 /\ objects = 0 /\ msg = <<>>
  /\ timer = "trap"
  /\ walking = FALSE
  /\ policy = "default"
  /\ unloaded \in SUBSET Module
  /\ autoload \in {"always", "prompt", "never"}
  /\ query = <<>>
  /\ out = {}
  /\ pc = "idle" /\ cb = NoCb
  /\ blocking = "no"
  /\ started = 0 /\ faults = 0
  /\ walk = [root |-> <<>>, disturbed |-> FALSE, halted |-> FALSE, erred |-> FALSE,
             unsent |-> FALSE]
  /\ report = "none"

\* Nothing has arrived when the timer fires.
TimerExpired == Polled /\ UNCHANGED vars

User ==
  \/ \E oid \in Root : \/ WalkFrom(oid)
                       \/ \E b \in BOOLEAN : Get(oid, b) \/ Set(oid, b)
                       \/ TableViewFrom(oid)
                       \/ SelectTableInstance(oid)
  \/ Stop

Answers == \E q \in out : Timeout(q) \/ GoodResponse(q) \/ ErrorResponse(q)

Dialogs ==
  \/ \E all \in BOOLEAN : Declines(all) \/ \E m \in Module : Accepts(m, all)
  \/ BoxDismissed
  \/ TableViewEnds
  \/ \E oid \in Root : GetFromSelectInstance(oid)

Loop ==
  \/ VarbindEnds \/ VarbindCounts \/ LoadsNothing \/ ShowsError \/ Shows
  \/ \E m \in Module : AutoLoads(m) \/ Prompts(m)
  \/ Reissues \/ ReissueFails \/ QueryEnds

Next == User \/ TimerExpired \/ Answers \/ Dialogs \/ Loop \/ TimerExpiredInDialog

Spec == Init /\ [][Next]_vars

\* The thread runs on, the timer fires while it is active, the session
\* answers every request (EveryRequestEnds of MsgQueue) and the user answers
\* dialogs.
FairSpec == Spec /\ WF_vars(Loop) /\ WF_vars(Answers) /\ WF_vars(Dialogs)
-----------------------------------------------------------------------------
Callback ==
  [op : {"none", "walk", "get", "set"}, n : 0..MaxOps,
   error : {"none", "noSuchName", "other"}, index : 0..2, vbs : Seq(Varbind),
   z : Nat \ {0}, step : {"start", "name", "value", "show"}]

History == [root : Oid, disturbed : BOOLEAN, halted : BOOLEAN, erred : BOOLEAN,
            unsent : BOOLEAN]

TypeOK ==
  /\ theoid \in Oid /\ stop \in BOOLEAN /\ requests \in Nat /\ objects \in Nat
  /\ msg \in Seq(Oid) /\ query \in Seq(Oid)
  /\ timer \in {"async", "trap", "off"}
  /\ walking \in BOOLEAN
  /\ policy \in {"all", "default", "none"}
  /\ unloaded \in SUBSET Module
  /\ autoload \in {"always", "prompt", "never"}
  /\ out \in SUBSET Request
  /\ pc \in {"idle", "loop", "prompt", "box", "stuck"}
  /\ cb \in Callback
  /\ blocking \in {"no", "table", "select"}
  /\ started \in 0..MaxOps /\ faults \in 0..MaxFaults
  /\ walk \in History
  /\ report \in {"none", "finished", "stopped", "failed"}

\* The comment in TimerExpired says that it must be called periodically
\* while requests are outstanding.  It never is again once it is called from
\* the event loop of a dialog inside a callback, where it waits for the
\* mutex that its own thread holds.
NeverStuck == pc # "stuck"

\* AsyncCallback restarts the timer that LoadBestModule stopped, on every
\* path: control never returns to Qt's event loop with no timer to poll the
\* session.
TimerRuns == pc = "idle" => timer # "off"

\* YesToAll and NoToAll (MibModule::Policy) last for one query: whatever way
\* it ends, AsyncCallback forgets them.
PolicyForgotten == policy # "default" => pc # "idle" \/ WalkOut

\* While a walk is under way and nothing else was started, Stop is enabled
\* (StartWalk, actionStop); and it is enabled at other times only if the
\* walk could not be sent.
StopEnabled ==
  /\ WalkActive /\ ~walk.disturbed => walking
  /\ walking => WalkActive \/ walk.unsent

\* What the three properties above rest on.  cb belongs to a callback that is
\* running and has varbinds, the callback of a set never loads modules,
\* YesToAll and NoToAll belong to a query under way, and an undisturbed walk
\* is alone: either its next answer is the only one awaited or its callback
\* is running.
SessionInv ==
  /\ \A q \in out : q.op \in {"walk", "get", "set"}
  /\ cb.op \in {"none", "walk", "get", "set"}
  /\ pc = "idle" <=> cb.op = "none"
  /\ pc = "prompt" => cb.op # "set"
  /\ cb.op = "set" => cb.step \in {"start", "show"}
  /\ cb.op # "none" => cb.vbs # <<>>
  /\ policy # "default" => WalkOut \/ cb.op \in {"walk", "get"}
  /\ WalkActive /\ ~walk.disturbed =>
       /\ walking
       /\ \/ cb.op = "none" /\ \E q \in out : out = {q}
          \/ cb.op = "walk" /\ out = {}
  /\ walking => WalkActive \/ walk.unsent

\* What a walk of root should display: the instances below it, in order.
\* The k-th is the one that, itself included, has k of them up to it.
Below(root) == {i \in 1..Len(Mib) : StartsWith(Mib[i], root)}
Nth(S, k) == CHOOSE i \in S : Cardinality({j \in S : j <= i}) = k
Subtree(root) ==
  [k \in 1..Cardinality(Below(root)) |-> Mib[Nth(Below(root), k)]]

Undisturbed == ~walk.disturbed /\ ~walk.erred

\* AsyncCallback's loop over get_bulk answers of any size displays the
\* instances of the subtree in order, none twice, none skipped and none from
\* elsewhere, and when it says "finished" it has displayed them all and
\* counted them right.
WalkExact ==
  /\ Undisturbed /\ WalkActive => StartsWith(Subtree(walk.root), query \o msg)
  /\ Undisturbed /\ report # "none" => StartsWith(Subtree(walk.root), query)
  /\ Undisturbed /\ report = "finished" => /\ query = Subtree(walk.root)
                                           /\ objects = Len(query)

\* AsyncCallback's restarts and get_bulk requests come to an end: every walk
\* does, even when other operations and prompts come between its requests,
\* as long as the agent's answers go up.
WalkEnds == WalkActive ~> ~WalkActive

\* "Added support for STOP operation on a walk": once Stop was chosen during
\* a walk, no further get_bulk is sent for it.
StopIsFinal == [][walk.halted /\ walk'.halted => ~Reissues]_vars
=============================================================================
