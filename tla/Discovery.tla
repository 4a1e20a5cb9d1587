----------------------------- MODULE Discovery ------------------------------
(***************************************************************************)
(* Agent discovery: the discovery tab (Discovery, in the GUI thread) and   *)
(* DiscoveryThread, which probes every enabled transport with every chosen *)
(* SNMP version in turn.  The thread reads the tab's widgets and the       *)
(* members Discover sets without a lock; Abort sets a plain bool; results  *)
(* come back as queued Qt signals, delivered in order.  Probes and answers *)
(* are UDP datagrams: lost or late.                                        *)
(***************************************************************************)
EXTENDS Integers, Sequences, FiniteSets

CONSTANTS
  Agent,       \* the SNMP agents (by address)
  Side,        \* [Agent -> {0, 1}]: reached by transport 0 (IPv4) or 1 (IPv6)
  Supports,    \* [Agent -> SUBSET Proto]
  Transports,  \* the transports enabled in the preferences
  Tabs,        \* the settings the user may choose in the tab
  RangeSize,   \* number of (IPv4) addresses of the range that can be typed
  MaxClicks,   \* bound: clicks on Discover
  MaxEdits,    \* bound: edits of the tab while the program runs
  MaxFaults    \* bound: failing sends

\* The versions, in the order of run's loop.
Proto == {1, 2, 3}

\* What the tab's widgets hold: the versions checked, the local network, a
\* range or one that Discover refuses (From is a good IPv4 address, To is
\* not or lies below it), and the wait time per version.
Tab == [protos : SUBSET Proto, mode : {"local", "range", "refused"}, wait : Nat \ {0}]

ASSUME DiscoveryAssumption ==
  /\ Side \in [Agent -> {0, 1}]
  /\ Supports \in [Agent -> SUBSET Proto]
  /\ Transports \in SUBSET {0, 1}
  /\ Tabs \subseteq Tab
  /\ RangeSize \in Nat \ {0}
  /\ MaxClicks \in Nat /\ MaxEdits \in Nat /\ MaxFaults \in Nat

VARIABLES
  tab,            \* the widgets: versions checked, mode, wait time
  button,         \* DiscoveryButton enabled (and DiscoveryAbortButton not)
  bar,            \* DiscoveryProgress: value and maximum
  output,         \* the rows of DiscoveryOutput
  num_addresses, wait_time,   \* DiscoveryThread's members of these names
  aborting,       \* DiscoverySnmp::aborting
  usable,         \* the session opened and the agent profile exists
  signals,        \* the queued signals
  pc, run,        \* where DiscoveryThread is, and its locals
  progress,       \* DiscoveryThread::current_progress
  net,            \* the answers on their way: [agent, proto]
  clicks, edits, faults,      \* counters for the bounds
  scan            \* history of the scan under way

gui == <<tab, button, bar, output>>
shared == <<num_addresses, wait_time, aborting, usable>>
thread == <<pc, run, progress>>
counters == <<clicks, edits, faults>>
vars == <<gui, shared, signals, thread, net, counters, scan>>
-----------------------------------------------------------------------------
(***************************************************************************)
(* The GUI thread.                                                         *)
(***************************************************************************)
\* The tab stays open to edits while a scan runs.
Edit(new) ==
  /\ edits < MaxEdits
  /\ edits' = edits + 1
  /\ tab' = new
  /\ scan' = [scan EXCEPT !.clean = FALSE]
  /\ UNCHANGED <<button, bar, output, shared, signals, thread, net, clicks, faults>>

\* dt->start() does nothing while the thread still runs.
StartThread == pc' = IF pc = "off" THEN "start" ELSE pc

\* Mutant of NumTransport: the local network is counted once.
NumTransportOne == 1

\* num_transport
NumTransport == IF tab.mode = "local" THEN Cardinality(Transports) ELSE 1

\* Discover: the members are reset first; without a version it returns, with
\* a refused range it has already cleared the output by then.
DiscoverNothing ==
  /\ button /\ clicks < MaxClicks
  /\ clicks' = clicks + 1
  /\ tab.protos = {}
  /\ num_addresses' = 0
  /\ scan' = [scan EXCEPT !.clean = FALSE]
  /\ UNCHANGED <<gui, wait_time, aborting, usable, signals, thread, net, edits, faults>>

DiscoverRefused ==
  /\ button /\ clicks < MaxClicks
  /\ clicks' = clicks + 1
  /\ tab.protos # {}
  /\ tab.mode = "refused" \/ (tab.mode = "range" /\ 0 \notin Transports)
  /\ num_addresses' = 0
  /\ wait_time' = tab.wait
  /\ output' = <<>>
  /\ bar' = [bar EXCEPT !.value = 0]
  /\ scan' = [scan EXCEPT !.early = @ \/ signals # <<>>, !.clean = FALSE, !.found = {}]
  /\ UNCHANGED <<tab, button, aborting, usable, signals, thread, net, edits, faults>>

Discover ==
  /\ button /\ clicks < MaxClicks
  /\ clicks' = clicks + 1
  /\ tab.protos # {}
  /\ tab.mode = "local" \/ (tab.mode = "range" /\ 0 \in Transports)
  /\ num_addresses' = IF tab.mode = "local" THEN 1 ELSE RangeSize
  /\ wait_time' = tab.wait
  /\ output' = <<>>
  /\ bar' = [value |-> 0, max |-> NumTransport * Cardinality(tab.protos) * tab.wait]
  /\ StartThread
  /\ scan' = [scan EXCEPT !.early = @ \/ signals # <<>>,
                          !.clean = pc = "off" /\ signals = <<>>,
                          !.found = {},
                          !.halted = FALSE]
  /\ UNCHANGED <<tab, button, aborting, usable, signals, run, progress, net, edits,
                 faults>>

Abort ==
  /\ ~button
  /\ aborting' = TRUE
  /\ scan' = [scan EXCEPT !.clean = FALSE, !.halted = @ \/ pc \in {"probe", "wait"}]
  /\ UNCHANGED <<gui, num_addresses, wait_time, usable, signals, thread, net, counters>>

Row(a) == {i \in 1..Len(output) : output[i].agent = a}

\* Mutant of DisplayAgent: known addresses are not looked for.
DisplayAgentAgain(s) ==
  output' = Append(output, [agent |-> s.agent, protos |-> <<s.proto>>, n |-> s.n])

\* DisplayAgent: a row for a new address, the version appended to its row
\* for a known one.
DisplayAgent(s) ==
  IF Row(s.agent) = {}
  THEN output' = Append(output, [agent |-> s.agent, protos |-> <<s.proto>>, n |-> s.n])
  ELSE LET i == CHOOSE k \in Row(s.agent) : \A m \in Row(s.agent) : k <= m
       IN output' = IF \E k \in 1..Len(output[i].protos) : output[i].protos[k] = s.proto
                    THEN output
                    ELSE [output EXCEPT ![i].protos = Append(@, s.proto)]

\* StartStop, DisplayProgress, DisplayAgent.  (A progress bar ignores a value
\* outside its range.)
HandleSignal ==
  /\ signals # <<>>
  /\ signals' = Tail(signals)
  /\ LET s == Head(signals) IN
     \/ /\ s.type = "startStop"
        /\ button' = ~s.start
        /\ UNCHANGED <<bar, output>>
     \/ /\ s.type = "progress"
        /\ bar' = IF s.value <= bar.max THEN [bar EXCEPT !.value = s.value] ELSE bar
        /\ UNCHANGED <<button, output>>
     \/ /\ s.type = "agent"
        /\ DisplayAgent(s)
        /\ UNCHANGED <<button, bar>>
  /\ UNCHANGED <<tab, shared, thread, net, counters, scan>>
-----------------------------------------------------------------------------
(***************************************************************************)
(* DiscoveryThread::run and DiscoverySnmp::discover.                       *)
(***************************************************************************)
Emit(s) == signals' = Append(signals, s)

NoRun == [t |-> 0, i |-> 1, local |-> TRUE, num |-> 0, wait |-> 1, j |-> 0, sec |-> 1]

RunReturns ==
  /\ pc = "start" /\ ~usable
  /\ pc' = "off"
  /\ UNCHANGED <<gui, shared, signals, run, progress, net, counters, scan>>

RunStarts ==
  /\ pc = "start" /\ usable
  /\ Emit([type |-> "startStop", start |-> TRUE])
  /\ pc' = "transport"
  /\ run' = NoRun
  /\ progress' = 0
  /\ scan' = [scan EXCEPT !.n = @ + 1, !.halted = FALSE]
  /\ UNCHANGED <<gui, shared, net, counters>>

\* "for all transports": the mode and From are read here.
UsesTransport(t) == t \in Transports /\ (tab.mode # "local" => t = 0)

NextTransport ==
  /\ pc = "transport" /\ run.t < 2
  /\ IF UsesTransport(run.t)
     THEN /\ run' = [run EXCEPT !.i = 1, !.local = (tab.mode = "local")]
          /\ pc' = "proto"
     ELSE /\ run' = [run EXCEPT !.t = @ + 1]
          /\ pc' = pc
  /\ UNCHANGED <<gui, shared, signals, progress, net, counters, scan>>

\* Mutant of SkipProto: the loop over the versions goes one too far.
SkipProtoTooFar ==
  /\ pc = "proto"
  /\ IF run.i > 4
     THEN run' = [run EXCEPT !.t = @ + 1] /\ pc' = "transport"
     ELSE run.i \notin tab.protos /\ run' = [run EXCEPT !.i = @ + 1] /\ pc' = pc
  /\ UNCHANGED <<gui, shared, signals, progress, net, counters, scan>>

\* "For all SNMP protocols": the check boxes are read here.
SkipProto ==
  /\ pc = "proto"
  /\ IF run.i > 3
     THEN run' = [run EXCEPT !.t = @ + 1] /\ pc' = "transport"
     ELSE run.i \notin tab.protos /\ run' = [run EXCEPT !.i = @ + 1] /\ pc' = pc
  /\ UNCHANGED <<gui, shared, signals, progress, net, counters, scan>>

TakeProto ==
  /\ pc = "proto" /\ run.i <= 3 /\ run.i \in tab.protos
  /\ pc' = "call"
  /\ UNCHANGED <<gui, shared, signals, run, progress, net, counters, scan>>

\* aborting = false, and the call of discover with the members' values.
CallDiscover ==
  /\ pc = "call"
  /\ aborting' = FALSE
  /\ run' = [run EXCEPT !.num = num_addresses, !.wait = wait_time, !.j = 0, !.sec = 1]
  /\ pc' = "probe"
  /\ UNCHANGED <<gui, num_addresses, wait_time, usable, signals, progress, net,
                 counters, scan>>

\* One probe.  A broadcast reaches every agent of the transport, an address
\* of a range at most one.
Reached(R) ==
  /\ R \subseteq {a \in Agent : Side[a] = run.t /\ run.i \in Supports[a]}
  /\ ~run.local => Cardinality(R) <= 1

Probe ==
  /\ pc = "probe" /\ run.j < run.num
  /\ \E R \in SUBSET Agent : /\ Reached(R)
                             /\ net' = net \cup {[agent |-> a, proto |-> run.i] : a \in R}
  /\ run' = [run EXCEPT !.j = @ + 1]
  /\ pc' = IF aborting THEN "after" ELSE pc
  /\ UNCHANGED <<gui, shared, signals, progress, counters, scan>>

\* send_raw_data failed: discover gives up this version.
ProbeFails ==
  /\ pc = "probe" /\ run.j < run.num
  /\ faults < MaxFaults
  /\ faults' = faults + 1
  /\ pc' = "after"
  /\ scan' = [scan EXCEPT !.clean = FALSE]
  /\ UNCHANGED <<gui, shared, signals, run, progress, net, clicks, edits>>

ProbesSent ==
  /\ pc = "probe" /\ run.j = run.num
  /\ pc' = "wait"
  /\ UNCHANGED <<gui, shared, signals, run, progress, net, counters, scan>>

\* An answer on this transport's socket is taken for one to this version.
Receive(x) ==
  /\ pc = "wait"
  /\ x \in net /\ Side[x.agent] = run.t
  /\ net' = net \ {x}
  /\ Emit([type |-> "agent", agent |-> x.agent, proto |-> run.i, n |-> scan.n])
  /\ scan' = [scan EXCEPT !.found = @ \cup {<<x.agent, run.i>>}]
  /\ pc' = IF aborting THEN "after" ELSE pc
  /\ UNCHANGED <<gui, shared, run, progress, counters>>

\* "A second as elapsed, show progress".
SecondElapsed ==
  /\ pc = "wait" /\ ~aborting
  /\ progress' = progress + 1
  /\ Emit([type |-> "progress", value |-> progress + 1])
  /\ IF run.sec < run.wait THEN run' = [run EXCEPT !.sec = @ + 1] /\ pc' = pc
                           ELSE pc' = "after" /\ run' = run
  /\ UNCHANGED <<gui, shared, net, counters, scan>>

WaitAborted ==
  /\ pc = "wait" /\ aborting
  /\ pc' = "after"
  /\ UNCHANGED <<gui, shared, signals, run, progress, net, counters, scan>>

\* Mutant of DiscoverReturned: aborting is not looked at.
DiscoverReturnedGoesOn ==
  /\ pc = "after"
  /\ pc' = "proto" /\ run' = [run EXCEPT !.i = @ + 1]
  /\ UNCHANGED <<gui, shared, signals, progress, net, counters, scan>>

DiscoverReturned ==
  /\ pc = "after"
  /\ IF aborting THEN pc' = "end" /\ run' = run
                 ELSE pc' = "proto" /\ run' = [run EXCEPT !.i = @ + 1]
  /\ UNCHANGED <<gui, shared, signals, progress, net, counters, scan>>

\* Mutant of DiscoverEnd: an aborted scan returns without the signal.
DiscoverEndSilent ==
  /\ pc = "end" \/ (pc = "transport" /\ run.t = 2)
  /\ IF pc = "end" THEN signals' = signals
                   ELSE Emit([type |-> "startStop", start |-> FALSE])
  /\ pc' = "ending"
  /\ UNCHANGED <<gui, shared, run, progress, net, counters, scan>>

\* discover_end; the thread itself ends a little later.
DiscoverEnd ==
  /\ pc = "end" \/ (pc = "transport" /\ run.t = 2)
  /\ Emit([type |-> "startStop", start |-> FALSE])
  /\ pc' = "ending"
  /\ UNCHANGED <<gui, shared, run, progress, net, counters, scan>>

ThreadEnds ==
  /\ pc = "ending"
  /\ pc' = "off"
  /\ UNCHANGED <<gui, shared, signals, run, progress, net, counters, scan>>
-----------------------------------------------------------------------------
Init ==
  /\ tab \in Tabs
  /\ button = TRUE
  /\ bar = [value |-> 0, max |-> 0]
  /\ output = <<>>
  /\ num_addresses = 0 /\ wait_time = 0
  /\ aborting = FALSE
  /\ usable \in BOOLEAN
  /\ signals = <<>>
  /\ pc = "off" /\ run = NoRun /\ progress = 0
  /\ net = {}
  /\ clicks = 0 /\ edits = 0 /\ faults = 0
  /\ scan = [n |-> 0, early |-> FALSE, clean |-> FALSE, halted |-> FALSE, found |-> {}]

User == \/ \E new \in Tabs : Edit(new)
        \/ DiscoverNothing \/ DiscoverRefused \/ Discover
        \/ Abort

Thread == \/ RunReturns \/ RunStarts
          \/ NextTransport \/ SkipProto \/ TakeProto
          \/ CallDiscover
          \/ Probe \/ ProbeFails \/ ProbesSent
          \/ \E x \in net : Receive(x)
          \/ SecondElapsed \/ WaitAborted
          \/ DiscoverReturned \/ DiscoverEnd \/ ThreadEnds

Next == User \/ HandleSignal \/ Thread

Spec == Init /\ [][Next]_vars

\* Both threads are scheduled, and select returns when its time is up.
FairSpec == Spec /\ WF_vars(Thread) /\ WF_vars(HandleSignal)
-----------------------------------------------------------------------------
Signal == [type : {"startStop"}, start : BOOLEAN]
          \cup [type : {"progress"}, value : Nat]
          \cup [type : {"agent"}, agent : Agent, proto : Proto, n : Nat]

TypeOK ==
  /\ tab \in Tab /\ button \in BOOLEAN
  /\ bar \in [value : Nat, max : Nat]
  /\ output \in Seq([agent : Agent, protos : Seq(Proto), n : Nat])
  /\ num_addresses \in Nat /\ wait_time \in Nat
  /\ aborting \in BOOLEAN /\ usable \in BOOLEAN
  /\ signals \in Seq(Signal)
  /\ pc \in {"off", "start", "transport", "proto", "call", "probe", "wait", "after",
             "end", "ending"}
  /\ run \in [t : 0..2, i : 1..4, local : BOOLEAN, num : Nat, wait : Nat, j : Nat,
              sec : Nat]
  /\ progress \in Nat
  /\ net \subseteq [agent : Agent, proto : Proto]
  /\ clicks \in 0..MaxClicks /\ edits \in 0..MaxEdits /\ faults \in 0..MaxFaults
  /\ scan \in [n : Nat, early : BOOLEAN, clean : BOOLEAN, halted : BOOLEAN,
               found : SUBSET (Agent \X Proto)]

Shown == UNION {{<<output[i].agent, output[i].protos[k]>> : k \in DOMAIN output[i].protos} :
                  i \in DOMAIN output}

\* DisplayAgent and the queued signals: when all signals were delivered, the
\* output holds what the thread received since it was cleared, in one row
\* per agent; and unless Discover was clicked before an earlier scan's
\* signals were delivered, nothing of an earlier scan.
OutputIsScan ==
  /\ \A i, k \in 1..Len(output) : output[i].agent = output[k].agent => i = k
  /\ signals = <<>> => scan.found \subseteq Shown
  /\ ~scan.early => \A i \in 1..Len(output) : output[i].n = scan.n
  /\ ~scan.early /\ signals = <<>> => Shown = scan.found

\* Discover computes the maximum of the bar, run and discover the steps:
\* during an undisturbed scan the bar stays in range, and it is full when
\* the scan is over.
ProgressFits ==
  scan.clean =>
    /\ progress <= bar.max \/ pc = "start"
    /\ pc = "ending" => progress = bar.max
    /\ pc = "ending" /\ signals = <<>> => bar.value = bar.max

\* Abort during a round of probes or its wait ends the scan: no other
\* version or transport is probed.
AbortEndsRound == scan.halted => pc \in {"probe", "wait", "after", "end", "ending", "off"}

\* The Discover button comes back: every path through run that disabled it
\* enables it again.
ScanEnds == ~button ~> button
=============================================================================
