---------------------------- MODULE DiscoveryProofs ----------------------------
(***************************************************************************)
(* Theorems about Discovery, for any agents, tabs and bounds that satisfy  *)
(* DiscoveryAssumption: type correctness, that an Abort ends the round it  *)
(* falls into, that the output is what the scan received, and that the     *)
(* progress bar of an undisturbed scan fits.                               *)
(***************************************************************************)
EXTENDS Discovery, FiniteSetTheorems, TLAPS

\* Inside the two loops of run the loop variables are in range.
LoopsInRange ==
  /\ pc \in {"proto", "call", "probe", "wait", "after"} => run.t \in {0, 1}
  /\ pc \in {"call", "probe", "wait", "after"} => run.i \in Proto

\* Until discover has returned, only `aborting' says that a scan was aborted.
HaltedAborts ==
  scan.halted => \/ pc \in {"probe", "wait", "after"} /\ aborting
                 \/ pc \in {"end", "ending", "off"}

(***************************************************************************)
(* TypeOK in parts, one for each group of variables a step leaves alone.   *)
(***************************************************************************)
OutputRow == [agent : Agent, protos : Seq(Proto), n : Nat]
RunType == [t : 0..2, i : 1..4, local : BOOLEAN, num : Nat, wait : Nat, j : Nat, sec : Nat]
ScanType == [n : Nat, early : BOOLEAN, clean : BOOLEAN, halted : BOOLEAN,
             found : SUBSET (Agent \X Proto)]

GuiOK == /\ tab \in Tab /\ button \in BOOLEAN
         /\ bar \in [value : Nat, max : Nat] /\ output \in Seq(OutputRow)
SharedOK == /\ num_addresses \in Nat /\ wait_time \in Nat
            /\ aborting \in BOOLEAN /\ usable \in BOOLEAN
SignalsOK == signals \in Seq(Signal)
PcOK == pc \in {"off", "start", "transport", "proto", "call", "probe", "wait", "after",
                "end", "ending"}
RunOK == run \in RunType
ProgressOK == progress \in Nat
NetOK == net \subseteq [agent : Agent, proto : Proto]
CountersOK == /\ clicks \in 0..MaxClicks /\ edits \in 0..MaxEdits /\ faults \in 0..MaxFaults
ScanOK == scan \in ScanType

Types == GuiOK /\ SharedOK /\ SignalsOK /\ PcOK /\ RunOK /\ ProgressOK /\ NetOK
         /\ CountersOK /\ ScanOK

IInv == Types /\ LoopsInRange /\ HaltedAborts

LEMMA TypesTogether == Types <=> TypeOK
BY DEF Types, TypeOK, GuiOK, SharedOK, SignalsOK, PcOK, RunOK, ProgressOK, NetOK, CountersOK,
       ScanOK, OutputRow, RunType, ScanType

\* A part holds on as long as its variables stay as they are.
LEMMA Unchanged ==
  ASSUME Types
  PROVE  /\ UNCHANGED gui => GuiOK'
         /\ UNCHANGED shared => SharedOK'
         /\ signals' = signals => SignalsOK'
         /\ pc' = pc => PcOK'
         /\ run' = run => RunOK'
         /\ progress' = progress => ProgressOK'
         /\ net' = net => NetOK'
         /\ UNCHANGED counters => CountersOK'
         /\ scan' = scan => ScanOK'
BY DEF Types, GuiOK, SharedOK, SignalsOK, PcOK, RunOK, ProgressOK, NetOK, CountersOK, ScanOK,
       gui, shared, counters

LEMMA Sizes ==
  ASSUME Types
  PROVE  /\ Cardinality(Transports) \in Nat /\ Cardinality(tab.protos) \in Nat
         /\ tab.wait \in Nat
         /\ NumTransport * Cardinality(tab.protos) * tab.wait \in Nat
<1>1. IsFiniteSet(0..1) /\ IsFiniteSet(1..3)
  <2>1. 0 \in Int /\ 1 \in Int /\ 3 \in Int
    OBVIOUS
  <2> QED
    BY <2>1, FS_Interval, Zenon
<1>2. Transports \subseteq 0..1 /\ tab.protos \subseteq 1..3 /\ tab.wait \in Nat
  <2>1. {0, 1} \subseteq 0..1 /\ {1, 2, 3} \subseteq 1..3
    OBVIOUS
  <2>2. Transports \subseteq {0, 1}
    BY DiscoveryAssumption
  <2>3. tab.protos \subseteq {1, 2, 3} /\ tab.wait \in Nat
    BY DEF Types, GuiOK, Tab, Proto
  <2> QED
    BY <2>1, <2>2, <2>3
<1>3. IsFiniteSet(Transports) /\ IsFiniteSet(tab.protos)
  BY <1>1, <1>2, FS_Subset
<1>4. Cardinality(Transports) \in Nat /\ Cardinality(tab.protos) \in Nat
  BY <1>3, FS_CardinalityType
<1>5. NumTransport \in Nat
  BY <1>4 DEF NumTransport
<1>6. \A a, b, c \in Nat : a * b * c \in Nat
  OBVIOUS
<1> QED
  BY <1>2, <1>4, <1>5, <1>6

\* A queued signal.
LEMMA EmitType ==
  ASSUME Types, NEW s \in Signal, Emit(s)
  PROVE  SignalsOK'
BY DEF Types, SignalsOK, Emit

LEMMA InitInv == ASSUME Init PROVE IInv
<1>1. RunOK
  BY DEF Init, NoRun, RunOK, RunType
<1>2. ScanOK
  BY DEF Init, ScanOK, ScanType
<1>3. GuiOK
  <2>1. tab \in Tab
    BY DiscoveryAssumption DEF Init
  <2>2. <<>> \in Seq(OutputRow)
    OBVIOUS
  <2> QED
    BY <2>1, <2>2 DEF Init, GuiOK
<1>4. CountersOK
  BY DiscoveryAssumption DEF Init, CountersOK
<1>5. SignalsOK
  <2>1. <<>> \in Seq(Signal)
    OBVIOUS
  <2> QED
    BY <2>1 DEF Init, SignalsOK
<1>6. SharedOK /\ PcOK /\ ProgressOK /\ NetOK
  BY DEF Init, SharedOK, PcOK, ProgressOK, NetOK
<1>7. LoopsInRange /\ HaltedAborts
  BY DEF Init, LoopsInRange, HaltedAborts
<1> QED
  BY <1>1, <1>2, <1>3, <1>4, <1>5, <1>6, <1>7 DEF IInv, Types

\* The widgets after a signal was handled.
LEMMA HandledType ==
  ASSUME Types, HandleSignal
  PROVE  GuiOK' /\ SignalsOK'
<1> DEFINE s == Head(signals)
<1>1. signals \in Seq(Signal) /\ signals # <<>> /\ signals' = Tail(signals)
  BY DEF Types, SignalsOK, HandleSignal
<1>2. s \in Signal /\ signals' \in Seq(Signal)
  BY <1>1
<1>3. button \in BOOLEAN /\ bar \in [value : Nat, max : Nat] /\ output \in Seq(OutputRow)
  BY DEF Types, GuiOK
<1> HIDE DEF s
<1>4. \/ s.type = "startStop" /\ button' = ~s.start /\ UNCHANGED <<bar, output>>
      \/ /\ s.type = "progress" /\ UNCHANGED <<button, output>>
         /\ bar' = IF s.value <= bar.max THEN [bar EXCEPT !.value = s.value] ELSE bar
      \/ s.type = "agent" /\ DisplayAgent(s) /\ UNCHANGED <<button, bar>>
  BY DEF HandleSignal, s
<1>5. ASSUME button' \in BOOLEAN, bar' \in [value : Nat, max : Nat], output' \in Seq(OutputRow)
      PROVE  GuiOK' /\ SignalsOK'
  <2>1. tab' = tab
    BY DEF HandleSignal
  <2> QED
    BY <1>2, <1>5, <2>1 DEF Types, GuiOK, SignalsOK
<1>6. CASE s.type = "startStop" /\ button' = ~s.start /\ UNCHANGED <<bar, output>>
  BY <1>3, <1>5, <1>6
<1>7. CASE /\ s.type = "progress" /\ UNCHANGED <<button, output>>
           /\ bar' = IF s.value <= bar.max THEN [bar EXCEPT !.value = s.value] ELSE bar
  <2>1. s.value \in Nat
    BY <1>2, <1>7 DEF Signal
  <2>2. bar' \in [value : Nat, max : Nat]
    BY <1>3, <1>7, <2>1
  <2> QED
    BY <1>3, <1>5, <1>7, <2>2
<1>8. CASE s.type = "agent" /\ DisplayAgent(s) /\ UNCHANGED <<button, bar>>
  <2>1. s.agent \in Agent /\ s.proto \in Proto /\ s.n \in Nat
    BY <1>2, <1>8 DEF Signal
  <2>2. CASE Row(s.agent) = {}
    <3> DEFINE row == [agent |-> s.agent, protos |-> <<s.proto>>, n |-> s.n]
    <3>1. row \in OutputRow
      BY <2>1 DEF OutputRow
    <3>2. output' = Append(output, row)
      BY <1>8, <2>2 DEF DisplayAgent
    <3> HIDE DEF row
    <3>3. output' \in Seq(OutputRow)
      BY <1>3, <3>1, <3>2
    <3> QED
      BY <1>3, <1>5, <1>8, <3>3
  <2>3. CASE Row(s.agent) # {}
    <3> DEFINE i == CHOOSE k \in Row(s.agent) : \A m \in Row(s.agent) : k <= m
    <3>1. \/ output' = output
          \/ output' = [output EXCEPT ![i].protos = Append(@, s.proto)]
      BY <1>8, <2>3 DEF DisplayAgent
    <3> HIDE DEF i
    <3>2. CASE i \in DOMAIN output /\ output' # output
      <4>1. output[i] \in OutputRow
        BY <1>3, <3>2
      <4>2. Append(output[i].protos, s.proto) \in Seq(Proto)
        BY <2>1, <4>1 DEF OutputRow
      <4> DEFINE row == [output[i] EXCEPT !.protos = Append(@, s.proto)]
      <4>3. row \in OutputRow
        BY <4>1, <4>2 DEF OutputRow
      <4>4. output' = [output EXCEPT ![i] = row]
        BY <3>1, <3>2
      <4> HIDE DEF row
      <4>5. output' \in Seq(OutputRow)
        BY <1>3, <3>2, <4>3, <4>4
      <4> QED
        BY <1>3, <1>5, <1>8, <4>5
    <3>3. CASE i \notin DOMAIN output \/ output' = output
      <4>1. output' = output
        BY <1>3, <3>1, <3>3
      <4> QED
        BY <1>3, <1>5, <1>8, <4>1
    <3> QED
      BY <3>2, <3>3
  <2> QED
    BY <2>2, <2>3
<1> QED
  BY <1>4, <1>6, <1>7, <1>8

\* The steps of the GUI thread.
LEMMA UserInv == ASSUME IInv, User \/ HandleSignal PROVE IInv'
<1>0. Types /\ LoopsInRange /\ HaltedAborts
  BY DEF IInv
<1>1. ASSUME NEW new \in Tabs, Edit(new) PROVE IInv'
  <2>1. GuiOK' /\ CountersOK'
    BY <1>0, <1>1, DiscoveryAssumption DEF Edit, Types, GuiOK, CountersOK
  <2>2. ScanOK' /\ scan'.halted = scan.halted
    BY <1>0, <1>1 DEF Edit, Types, ScanOK, ScanType
  <2>3. UNCHANGED <<shared, signals, thread, net>>
    BY <1>1 DEF Edit
  <2>4. Types'
    BY <1>0, <2>1, <2>2, <2>3, Unchanged DEF Types, thread
  <2> QED
    BY <1>0, <2>2, <2>3, <2>4 DEF IInv, LoopsInRange, HaltedAborts, shared, thread
<1>2. CASE DiscoverNothing
  <2>1. SharedOK' /\ CountersOK'
    BY <1>0, <1>2, DiscoveryAssumption DEF DiscoverNothing, Types, SharedOK, CountersOK
  <2>2. ScanOK' /\ scan'.halted = scan.halted
    BY <1>0, <1>2 DEF DiscoverNothing, Types, ScanOK, ScanType
  <2>3. UNCHANGED <<gui, aborting, signals, thread, net>>
    BY <1>2 DEF DiscoverNothing
  <2>4. Types'
    BY <1>0, <2>1, <2>2, <2>3, Unchanged DEF Types, thread
  <2> QED
    BY <1>0, <2>2, <2>3, <2>4 DEF IInv, LoopsInRange, HaltedAborts, thread
<1>3. CASE DiscoverRefused
  <2>1. /\ num_addresses' = 0 /\ wait_time' = tab.wait /\ output' = <<>>
        /\ bar' = [bar EXCEPT !.value = 0] /\ clicks < MaxClicks /\ clicks' = clicks + 1
        /\ UNCHANGED <<tab, button, aborting, usable, signals, thread, net, edits, faults>>
    BY <1>3 DEF DiscoverRefused
  <2>2. SharedOK' /\ CountersOK'
    BY <1>0, <2>1, Sizes, DiscoveryAssumption DEF Types, SharedOK, CountersOK
  <2>3. GuiOK'
    <3>1. <<>> \in Seq(OutputRow)
      OBVIOUS
    <3> QED
      BY <1>0, <2>1, <3>1 DEF Types, GuiOK
  <2>4. ScanOK' /\ scan'.halted = scan.halted
    BY <1>0, <1>3 DEF DiscoverRefused, Types, ScanOK, ScanType
  <2>5. Types'
    BY <1>0, <2>1, <2>2, <2>3, <2>4, Unchanged DEF Types, thread
  <2> QED
    BY <1>0, <2>1, <2>4, <2>5 DEF IInv, LoopsInRange, HaltedAborts, thread
<1>4. CASE Discover
  <2>1. /\ num_addresses' \in {1, RangeSize} /\ wait_time' = tab.wait /\ output' = <<>>
        /\ bar' = [value |-> 0, max |-> NumTransport * Cardinality(tab.protos) * tab.wait]
        /\ clicks < MaxClicks /\ clicks' = clicks + 1 /\ pc' \in {pc, "start"}
        /\ UNCHANGED <<tab, button, aborting, usable, signals, run, progress, net, edits, faults>>
    BY <1>4 DEF Discover, StartThread
  <2>2. SharedOK' /\ CountersOK'
    BY <1>0, <2>1, Sizes, DiscoveryAssumption DEF Types, SharedOK, CountersOK
  <2>3. GuiOK'
    <3>1. <<>> \in Seq(OutputRow)
      OBVIOUS
    <3>2. bar' \in [value : Nat, max : Nat]
      BY <1>0, <2>1, Sizes
    <3> QED
      BY <1>0, <2>1, <3>1, <3>2 DEF Types, GuiOK
  <2>4. ScanOK' /\ ~scan'.halted
    BY <1>0, <1>4 DEF Discover, Types, ScanOK, ScanType
  <2>5. PcOK'
    BY <1>0, <2>1 DEF Types, PcOK
  <2>6. Types'
    BY <1>0, <2>1, <2>2, <2>3, <2>4, <2>5, Unchanged DEF Types
  <2> QED
    BY <1>0, <2>1, <2>4, <2>6 DEF IInv, LoopsInRange, HaltedAborts
<1>5. CASE Abort
  <2>1. /\ aborting' = TRUE
        /\ UNCHANGED <<gui, num_addresses, wait_time, usable, signals, thread, net, counters>>
    BY <1>5 DEF Abort
  <2>2. ScanOK' /\ (scan'.halted <=> scan.halted \/ pc \in {"probe", "wait"})
    BY <1>0, <1>5 DEF Abort, Types, ScanOK, ScanType
  <2>3. SharedOK'
    BY <1>0, <2>1 DEF Types, SharedOK
  <2>4. Types'
    BY <1>0, <2>1, <2>2, <2>3, Unchanged DEF Types, thread
  <2> QED
    BY <1>0, <2>1, <2>2, <2>4 DEF IInv, LoopsInRange, HaltedAborts, thread
<1>6. CASE HandleSignal
  <2>1. GuiOK' /\ SignalsOK'
    BY <1>0, <1>6, HandledType
  <2>2. UNCHANGED <<shared, thread, net, counters, scan>>
    BY <1>6 DEF HandleSignal
  <2>3. Types'
    BY <1>0, <2>1, <2>2, Unchanged DEF Types, thread
  <2> QED
    BY <1>0, <2>2, <2>3 DEF IInv, LoopsInRange, HaltedAborts, shared, thread
<1> QED
  BY <1>1, <1>2, <1>3, <1>4, <1>5, <1>6 DEF User

\* "for all transports": the loop variable after a step of this loop.
LEMMA Advance ==
  ASSUME run \in RunType, NextTransport
  PROVE  run' \in RunType /\ pc' \in {"transport", "proto"} /\ (pc' = "proto" => run'.t \in {0, 1})
<1>1. run.t \in {0, 1}
  BY DEF NextTransport, RunType
<1>2. CASE UsesTransport(run.t)
  <2>1. run' = [run EXCEPT !.i = 1, !.local = (tab.mode = "local")] /\ pc' = "proto"
    BY <1>2 DEF NextTransport
  <2>2. (tab.mode = "local") \in BOOLEAN /\ 1 \in 1..4
    OBVIOUS
  <2>3. run' \in RunType /\ run'.t = run.t
    BY <2>1, <2>2 DEF RunType
  <2> QED
    BY <1>1, <2>1, <2>3
<1>3. CASE ~UsesTransport(run.t)
  <2>1. run' = [run EXCEPT !.t = run.t + 1] /\ pc' = "transport"
    BY <1>3 DEF NextTransport
  <2>2. run.t + 1 \in 0..2
    BY <1>1
  <2>3. run' \in RunType
    BY <2>1, <2>2 DEF RunType
  <2> QED
    BY <2>1, <2>3
<1> QED
  BY <1>2, <1>3

\* The steps of DiscoveryThread.
LEMMA ThreadInv == ASSUME IInv, Thread PROVE IInv'
<1>0. Types /\ LoopsInRange /\ HaltedAborts
  BY DEF IInv
<1>1. CASE RunReturns \/ ThreadEnds
  <2>1. /\ pc \in {"start", "ending"} /\ pc' = "off"
        /\ UNCHANGED <<gui, shared, signals, run, progress, net, counters, scan>>
    BY <1>1 DEF RunReturns, ThreadEnds
  <2>2. PcOK'
    BY <2>1 DEF PcOK
  <2>3. Types'
    BY <1>0, <2>1, <2>2, Unchanged DEF Types
  <2> QED
    BY <1>0, <2>1, <2>3 DEF IInv, LoopsInRange, HaltedAborts
<1>2. CASE RunStarts
  <2>1. [type |-> "startStop", start |-> TRUE] \in Signal
    BY DEF Signal
  <2>2. SignalsOK'
    BY <1>0, <1>2, <2>1, EmitType DEF RunStarts
  <2>3. RunOK' /\ PcOK' /\ ProgressOK'
    BY <1>2 DEF RunStarts, NoRun, RunOK, RunType, PcOK, ProgressOK
  <2>4. ScanOK' /\ ~scan'.halted
    <3>1. scan \in ScanType /\ scan' = [scan EXCEPT !.n = scan.n + 1, !.halted = FALSE]
      BY <1>0, <1>2 DEF RunStarts, Types, ScanOK
    <3>2. scan.n + 1 \in Nat
      BY <3>1 DEF ScanType
    <3>3. scan' \in ScanType /\ scan'.halted = FALSE
      BY <3>1, <3>2 DEF ScanType
    <3> QED
      BY <3>3 DEF ScanOK
  <2>5. pc' = "transport" /\ UNCHANGED <<gui, shared, net, counters>>
    BY <1>2 DEF RunStarts
  <2>6. Types'
    BY <1>0, <2>2, <2>3, <2>4, <2>5, Unchanged DEF Types
  <2> QED
    BY <2>4, <2>5, <2>6 DEF IInv, LoopsInRange, HaltedAborts
<1>3. CASE NextTransport \/ SkipProto \/ TakeProto
  <2>1. RunOK' /\ pc' \in {"transport", "proto", "call"} /\ pc \in {"transport", "proto"}
    <3>1. run \in RunType
      BY <1>0 DEF Types, RunOK
    <3>2. CASE NextTransport
      BY <3>1, <3>2, Advance DEF NextTransport, RunOK
    <3>3. CASE SkipProto
      BY <1>0, <3>1, <3>3 DEF SkipProto, RunOK, RunType, LoopsInRange
    <3>4. CASE TakeProto
      BY <3>1, <3>4 DEF TakeProto, RunOK
    <3> QED
      BY <1>3, <3>2, <3>3, <3>4
  <2>2. LoopsInRange'
    <3>1. run \in RunType
      BY <1>0 DEF Types, RunOK
    <3>2. CASE NextTransport
      BY <3>1, <3>2, Advance DEF LoopsInRange, NextTransport
    <3>3. CASE SkipProto
      BY <1>0, <3>1, <3>3 DEF SkipProto, RunType, LoopsInRange
    <3>4. CASE TakeProto
      BY <1>0, <3>1, <3>4 DEF TakeProto, RunType, LoopsInRange, Proto
    <3> QED
      BY <1>3, <3>2, <3>3, <3>4
  <2>3. UNCHANGED <<gui, shared, signals, progress, net, counters, scan>>
    BY <1>3 DEF NextTransport, SkipProto, TakeProto
  <2>4. PcOK'
    BY <2>1 DEF PcOK
  <2>5. Types'
    BY <1>0, <2>1, <2>3, <2>4, Unchanged DEF Types
  <2>6. HaltedAborts'
    BY <1>0, <2>1, <2>3 DEF HaltedAborts
  <2> QED
    BY <2>2, <2>5, <2>6 DEF IInv
<1>4. CASE CallDiscover
  <2>1. RunOK' /\ run'.t = run.t /\ run'.i = run.i
    BY <1>0, <1>4 DEF CallDiscover, Types, RunOK, RunType, SharedOK
  <2>2. SharedOK' /\ PcOK'
    BY <1>0, <1>4 DEF CallDiscover, Types, SharedOK, PcOK
  <2>3. /\ pc = "call" /\ pc' = "probe"
        /\ UNCHANGED <<gui, signals, progress, net, counters, scan>>
    BY <1>4 DEF CallDiscover
  <2>4. Types'
    BY <1>0, <2>1, <2>2, <2>3, Unchanged DEF Types
  <2> QED
    BY <1>0, <2>1, <2>3, <2>4 DEF IInv, LoopsInRange, HaltedAborts
<1>5. CASE Probe
  <2>1. RunOK' /\ run'.t = run.t /\ run'.i = run.i
    BY <1>0, <1>5 DEF Probe, Types, RunOK, RunType
  <2>2. run.i \in Proto
    BY <1>0, <1>5 DEF Probe, LoopsInRange
  <2>3. NetOK'
    BY <1>0, <1>5, <2>2 DEF Probe, Types, NetOK
  <2>4. /\ pc = "probe" /\ pc' \in {"probe", "after"}
        /\ UNCHANGED <<gui, shared, signals, progress, counters, scan>>
    BY <1>5 DEF Probe
  <2>5. PcOK'
    BY <2>4 DEF PcOK
  <2>6. Types'
    BY <1>0, <2>1, <2>3, <2>4, <2>5, Unchanged DEF Types
  <2> QED
    BY <1>0, <2>1, <2>4, <2>6 DEF IInv, LoopsInRange, HaltedAborts, shared
<1>6. CASE ProbeFails
  <2>1. CountersOK'
    BY <1>0, <1>6, DiscoveryAssumption DEF ProbeFails, Types, CountersOK
  <2>2. ScanOK' /\ scan'.halted = scan.halted
    BY <1>0, <1>6 DEF ProbeFails, Types, ScanOK, ScanType
  <2>3. /\ pc = "probe" /\ pc' = "after"
        /\ UNCHANGED <<gui, shared, signals, run, progress, net>>
    BY <1>6 DEF ProbeFails
  <2>4. PcOK'
    BY <2>3 DEF PcOK
  <2>5. Types'
    BY <1>0, <2>1, <2>2, <2>3, <2>4, Unchanged DEF Types
  <2> QED
    BY <1>0, <2>2, <2>3, <2>5 DEF IInv, LoopsInRange, HaltedAborts, shared
<1>7. CASE ProbesSent \/ WaitAborted
  <2>1. /\ pc \in {"probe", "wait"} /\ pc' \in {"wait", "after"}
        /\ UNCHANGED <<gui, shared, signals, run, progress, net, counters, scan>>
    BY <1>7 DEF ProbesSent, WaitAborted
  <2>2. PcOK'
    BY <2>1 DEF PcOK
  <2>3. Types'
    BY <1>0, <2>1, <2>2, Unchanged DEF Types
  <2> QED
    BY <1>0, <2>1, <2>3 DEF IInv, LoopsInRange, HaltedAborts, shared
<1>8. ASSUME NEW x \in net, Receive(x) PROVE IInv'
  <2>1. pc = "wait" /\ run.i \in Proto /\ x.agent \in Agent /\ scan.n \in Nat
    BY <1>0, <1>8 DEF Receive, LoopsInRange, Types, NetOK, ScanOK, ScanType
  <2>2. [type |-> "agent", agent |-> x.agent, proto |-> run.i, n |-> scan.n] \in Signal
    BY <2>1 DEF Signal
  <2>3. SignalsOK'
    BY <1>0, <1>8, <2>2, EmitType DEF Receive
  <2>4. ScanOK' /\ scan'.halted = scan.halted
    BY <1>0, <1>8, <2>1 DEF Receive, Types, ScanOK, ScanType
  <2>5. /\ pc' \in {"wait", "after"} /\ net' \subseteq net
        /\ UNCHANGED <<gui, shared, run, progress, counters>>
    BY <1>8 DEF Receive
  <2>6. PcOK' /\ NetOK'
    BY <1>0, <2>5 DEF Types, PcOK, NetOK
  <2>7. Types'
    BY <1>0, <2>3, <2>4, <2>5, <2>6, Unchanged DEF Types
  <2> QED
    BY <1>0, <2>1, <2>4, <2>5, <2>7 DEF IInv, LoopsInRange, HaltedAborts, shared
<1>9. CASE SecondElapsed
  <2>1. progress + 1 \in Nat /\ [type |-> "progress", value |-> progress + 1] \in Signal
    BY <1>0 DEF Signal, Types, ProgressOK
  <2>2. SignalsOK' /\ ProgressOK'
    BY <1>0, <1>9, <2>1, EmitType DEF SecondElapsed, ProgressOK
  <2>3. RunOK' /\ run'.t = run.t /\ run'.i = run.i
    BY <1>0, <1>9 DEF SecondElapsed, Types, RunOK, RunType
  <2>4. /\ pc = "wait" /\ pc' \in {"wait", "after"}
        /\ UNCHANGED <<gui, shared, net, counters, scan>>
    BY <1>9 DEF SecondElapsed
  <2>5. PcOK'
    BY <2>4 DEF PcOK
  <2>6. Types'
    BY <1>0, <2>2, <2>3, <2>4, <2>5, Unchanged DEF Types
  <2> QED
    BY <1>0, <2>3, <2>4, <2>6 DEF IInv, LoopsInRange, HaltedAborts, shared
<1>10. CASE DiscoverReturned
  <2>1. /\ pc = "after" /\ pc' \in {"end", "proto"} /\ (pc' = "proto" => ~aborting)
        /\ UNCHANGED <<gui, shared, signals, progress, net, counters, scan>>
    BY <1>10 DEF DiscoverReturned
  <2>2. RunOK' /\ run'.t = run.t
    BY <1>0, <1>10, <2>1 DEF DiscoverReturned, Types, RunOK, RunType, LoopsInRange, Proto
  <2>3. PcOK'
    BY <2>1 DEF PcOK
  <2>4. Types'
    BY <1>0, <2>1, <2>2, <2>3, Unchanged DEF Types
  <2> QED
    BY <1>0, <2>1, <2>2, <2>4 DEF IInv, LoopsInRange, HaltedAborts
<1>11. CASE DiscoverEnd
  <2>1. [type |-> "startStop", start |-> FALSE] \in Signal
    BY DEF Signal
  <2>2. SignalsOK'
    BY <1>0, <1>11, <2>1, EmitType DEF DiscoverEnd
  <2>3. pc' = "ending" /\ UNCHANGED <<gui, shared, run, progress, net, counters, scan>>
    BY <1>11 DEF DiscoverEnd
  <2>4. PcOK'
    BY <2>3 DEF PcOK
  <2>5. Types'
    BY <1>0, <2>2, <2>3, <2>4, Unchanged DEF Types
  <2> QED
    BY <1>0, <2>3, <2>5 DEF IInv, LoopsInRange, HaltedAborts
<1> QED
  BY <1>1, <1>2, <1>3, <1>4, <1>5, <1>6, <1>7, <1>8, <1>9, <1>10, <1>11 DEF Thread

LEMMA Invariance == Spec => []IInv
<1>1. Init => IInv
  BY InitInv
<1>2. ASSUME IInv, UNCHANGED vars PROVE IInv'
  <2>1. Types /\ UNCHANGED <<gui, shared, signals, thread, net, counters, scan>>
    BY <1>2 DEF IInv, vars
  <2>2. Types'
    BY <2>1, Unchanged DEF Types, thread
  <2> QED
    BY <1>2, <2>1, <2>2 DEF IInv, LoopsInRange, HaltedAborts, shared, thread
<1>3. IInv /\ [Next]_vars => IInv'
  BY <1>2, UserInv, ThreadInv DEF Next
<1> QED
  BY <1>1, <1>3, PTL DEF Spec

\* The types: the loops of run stay within the transports and the versions.
THEOREM TypeCorrect == Spec => []TypeOK
<1>1. IInv => TypeOK
  BY TypesTogether DEF IInv
<1> QED
  BY <1>1, Invariance, PTL

\* After an Abort during a round no other version or transport is probed.
THEOREM AbortIsObeyed == Spec => []AbortEndsRound
<1>1. IInv => AbortEndsRound
  BY DEF IInv, HaltedAborts, AbortEndsRound
<1> QED
  BY <1>1, Invariance, PTL
-----------------------------------------------------------------------------
(***************************************************************************)
(* The output.  What the thread received is in a row or announced by a     *)
(* queued signal, and unless Discover was clicked too early nothing else   *)
(* is: then the number of the scan only goes up while there are neither    *)
(* rows nor signals.                                                       *)
(***************************************************************************)
\* Rows o list version p of agent a; queue q announces it.
Lists(o, a, p) ==
  \E i \in 1..Len(o) : o[i].agent = a /\ \E k \in 1..Len(o[i].protos) : o[i].protos[k] = p
Announces(q, a, p) ==
  \E k \in 1..Len(q) : q[k].type = "agent" /\ q[k].agent = a /\ q[k].proto = p

OneRowEach == \A i, k \in 1..Len(output) : output[i].agent = output[k].agent => i = k

NothingLost ==
  \A a \in Agent, p \in Proto :
    <<a, p>> \in scan.found => Lists(output, a, p) \/ Announces(signals, a, p)

NothingOld ==
  /\ \A a \in Agent, p \in Proto :
       Lists(output, a, p) \/ Announces(signals, a, p) => <<a, p>> \in scan.found
  /\ \A i \in 1..Len(output) : output[i].n = scan.n
  /\ \A k \in 1..Len(signals) : signals[k].type = "agent" => signals[k].n = scan.n
  /\ pc = "start" => output = <<>> /\ signals = <<>>

OutputInv == OneRowEach /\ NothingLost /\ (~scan.early => NothingOld)

LEMMA ShownAre ==
  ASSUME Types
  PROVE  /\ Shown \subseteq Agent \X Proto
         /\ \A a \in Agent, p \in Proto : <<a, p>> \in Shown <=> Lists(output, a, p)
<1>1. output \in Seq(OutputRow)
  BY DEF Types, GuiOK
<1>2. \A i \in DOMAIN output : output[i].agent \in Agent /\ output[i].protos \in Seq(Proto)
  <2>1. \A i \in DOMAIN output : output[i] \in OutputRow
    BY <1>1
  <2> QED
    BY <2>1 DEF OutputRow
<1>3. /\ DOMAIN output = 1..Len(output)
      /\ \A i \in DOMAIN output : DOMAIN output[i].protos = 1..Len(output[i].protos)
  BY <1>1, <1>2
<1>4. \A x : x \in Shown <=> \E i \in DOMAIN output : \E k \in DOMAIN output[i].protos :
                               x = <<output[i].agent, output[i].protos[k]>>
  BY DEF Shown
<1>5. \A i \in DOMAIN output : \A k \in DOMAIN output[i].protos : output[i].protos[k] \in Proto
  BY <1>2
<1>6. Shown \subseteq Agent \X Proto
  BY <1>2, <1>4, <1>5
<1>7. ASSUME NEW a \in Agent, NEW p \in Proto
      PROVE  <<a, p>> \in Shown <=> Lists(output, a, p)
  BY <1>3, <1>4 DEF Lists
<1> QED
  BY <1>6, <1>7

\* With a row for each agent DisplayAgent adds the version it is given to the
\* agent's row, and nothing else.
LEMMA Displayed ==
  ASSUME Types, OneRowEach, NEW s \in Signal, s.type = "agent", DisplayAgent(s)
  PROVE  /\ OneRowEach'
         /\ \A a \in Agent, p \in Proto :
              Lists(output', a, p) <=> Lists(output, a, p) \/ (a = s.agent /\ p = s.proto)
         /\ \A n : s.n = n /\ (\A i \in 1..Len(output) : output[i].n = n)
                     => \A i \in 1..Len(output') : output'[i].n = n
<1>1. output \in Seq(OutputRow) /\ s.agent \in Agent /\ s.proto \in Proto /\ s.n \in Nat
  BY DEF Types, GuiOK, Signal
<1>2. \A i \in 1..Len(output) : /\ output[i] \in OutputRow
                                /\ output[i].protos \in Seq(Proto)
  <2>1. \A i \in 1..Len(output) : output[i] \in OutputRow
    BY <1>1
  <2> QED
    BY <2>1 DEF OutputRow
<1>3. CASE Row(s.agent) = {}
  <2> DEFINE row == [agent |-> s.agent, protos |-> <<s.proto>>, n |-> s.n]
  <2>1. output' = Append(output, row)
    BY <1>3 DEF DisplayAgent
  <2>2. row \in OutputRow /\ row.agent = s.agent /\ row.n = s.n /\ Len(row.protos) = 1
        /\ row.protos[1] = s.proto
    BY <1>1 DEF OutputRow
  <2> HIDE DEF row
  <2>3. /\ Len(output') = Len(output) + 1 /\ Len(output) \in Nat
        /\ \A i \in 1..Len(output) : output'[i] = output[i]
        /\ output'[Len(output) + 1] = row
    BY <1>1, <2>1, <2>2
  <2>4. \A i \in 1..Len(output) : output[i].agent # s.agent
    BY <1>3 DEF Row
  <2>5. OneRowEach'
    BY <2>2, <2>3, <2>4 DEF OneRowEach
  <2>6. ASSUME NEW a \in Agent, NEW p \in Proto
        PROVE  Lists(output', a, p) <=> Lists(output, a, p) \/ (a = s.agent /\ p = s.proto)
    <3>1. Lists(output, a, p) => Lists(output', a, p)
      BY <2>3 DEF Lists
    <3>2. Lists(output', s.agent, s.proto)
      BY <2>2, <2>3 DEF Lists
    <3>3. ASSUME Lists(output', a, p) PROVE Lists(output, a, p) \/ (a = s.agent /\ p = s.proto)
      <4>1. PICK i \in 1..Len(output') :
              output'[i].agent = a /\ \E k \in 1..Len(output'[i].protos) : output'[i].protos[k] = p
        BY <3>3 DEF Lists
      <4>2. CASE i \in 1..Len(output)
        BY <2>3, <4>1, <4>2 DEF Lists
      <4>3. CASE i = Len(output) + 1
        BY <2>2, <2>3, <4>1, <4>3
      <4> QED
        BY <2>3, <4>2, <4>3
    <3> QED
      BY <3>1, <3>2, <3>3
  <2> QED
    BY <2>2, <2>3, <2>5, <2>6
<1>4. CASE Row(s.agent) # {}
  <2>1. PICK i \in 1..Len(output) : output[i].agent = s.agent
    BY <1>4 DEF Row
  <2>2. Row(s.agent) = {i}
    BY <2>1 DEF Row, OneRowEach
  <2>3. (CHOOSE k \in Row(s.agent) : \A m \in Row(s.agent) : k <= m) = i
    BY <2>2
  <2> DEFINE known == \E k \in 1..Len(output[i].protos) : output[i].protos[k] = s.proto
  <2>4. output' = IF known THEN output ELSE [output EXCEPT ![i].protos = Append(@, s.proto)]
    BY <1>4, <2>3 DEF DisplayAgent
  <2>5. CASE known
    <3>1. output' = output
      BY <2>4, <2>5
    <3>2. Lists(output, s.agent, s.proto)
      BY <2>1, <2>5 DEF Lists
    <3> QED
      BY <3>1, <3>2 DEF OneRowEach
  <2>6. CASE ~known
    <3> DEFINE row == [output[i] EXCEPT !.protos = Append(@, s.proto)]
    <3>1. output' = [output EXCEPT ![i] = row]
      BY <2>4, <2>6
    <3>2. /\ row.agent = s.agent /\ row.n = output[i].n
          /\ row.protos = Append(output[i].protos, s.proto)
      BY <1>2, <2>1 DEF OutputRow
    <3> HIDE DEF row, known
    <3>3. /\ Len(output') = Len(output)
          /\ \A k \in 1..Len(output) : output'[k] = IF k = i THEN row ELSE output[k]
      BY <1>1, <3>1
    <3>4. OneRowEach'
      BY <2>1, <3>2, <3>3 DEF OneRowEach
    <3>5. /\ Len(row.protos) = Len(output[i].protos) + 1 /\ Len(output[i].protos) \in Nat
          /\ \A k \in 1..Len(output[i].protos) : row.protos[k] = output[i].protos[k]
          /\ row.protos[Len(output[i].protos) + 1] = s.proto
      BY <1>1, <1>2, <3>2
    <3>6. ASSUME NEW a \in Agent, NEW p \in Proto
          PROVE  Lists(output', a, p) <=> Lists(output, a, p) \/ (a = s.agent /\ p = s.proto)
      <4>1. ASSUME Lists(output, a, p) PROVE Lists(output', a, p)
        <5>1. PICK j \in 1..Len(output) : /\ output[j].agent = a
                                          /\ \E k \in 1..Len(output[j].protos) : output[j].protos[k] = p
          BY <4>1 DEF Lists
        <5>2. CASE j = i
          <6>1. PICK k \in 1..Len(output[i].protos) : output[i].protos[k] = p
            BY <5>1, <5>2
          <6>2. k \in 1..Len(row.protos) /\ row.protos[k] = p
            BY <3>5, <6>1
          <6>3. output'[i].agent = a /\ output'[i].protos = row.protos
            BY <2>1, <3>2, <3>3, <5>1, <5>2
          <6> QED
            BY <3>3, <6>2, <6>3 DEF Lists
        <5>3. CASE j # i
          BY <3>3, <5>1, <5>3 DEF Lists
        <5> QED
          BY <5>2, <5>3
      <4>2. Lists(output', s.agent, s.proto)
        <5>1. i \in 1..Len(output') /\ output'[i] = row
          BY <3>3
        <5>2. row.agent = s.agent
          BY <3>2
        <5>3. \E k \in 1..Len(row.protos) : row.protos[k] = s.proto
          <6>1. Len(output[i].protos) + 1 \in 1..Len(row.protos)
            BY <3>5
          <6> QED
            BY <3>5, <6>1
        <5> QED
          BY <5>1, <5>2, <5>3 DEF Lists
      <4>3. ASSUME Lists(output', a, p) PROVE Lists(output, a, p) \/ (a = s.agent /\ p = s.proto)
        <5>1. PICK j \in 1..Len(output) : /\ output'[j].agent = a
                                          /\ \E k \in 1..Len(output'[j].protos) : output'[j].protos[k] = p
          BY <3>3, <4>3 DEF Lists
        <5>2. CASE j = i
          <6>1. PICK k \in 1..Len(row.protos) : row.protos[k] = p
            BY <3>3, <5>1, <5>2
          <6>2. a = s.agent
            BY <3>2, <3>3, <5>1, <5>2
          <6>3. CASE k = Len(output[i].protos) + 1
            BY <3>5, <6>1, <6>2, <6>3
          <6>4. CASE k \in 1..Len(output[i].protos)
            <7>1. output[i].protos[k] = p
              BY <3>5, <6>1, <6>4
            <7> QED
              BY <2>1, <6>2, <6>4, <7>1 DEF Lists
          <6> QED
            BY <3>5, <6>1, <6>3, <6>4
        <5>3. CASE j # i
          BY <3>3, <5>1, <5>3 DEF Lists
        <5> QED
          BY <5>2, <5>3
      <4> QED
        BY <4>1, <4>2, <4>3
    <3> QED
      BY <3>2, <3>3, <3>4, <3>6
  <2> QED
    BY <2>5, <2>6
<1> QED
  BY <1>3, <1>4

LEMMA OutputStart == ASSUME Init PROVE OutputInv
<1>1. output = <<>> /\ signals = <<>> /\ scan.found = {}
  BY DEF Init
<1>2. \A i : i \notin 1..0
  OBVIOUS
<1> QED
  BY <1>1, <1>2 DEF OutputInv, OneRowEach, NothingLost, NothingOld, Lists, Announces, Init

\* The steps that leave rows, signals and what was found alone.
LEMMA OutputKept ==
  ASSUME OutputInv, output' = output, signals' = signals, scan'.found = scan.found,
         scan'.early = scan.early, scan'.n = scan.n, pc' = "start" => pc = "start"
  PROVE  OutputInv'
BY DEF OutputInv, OneRowEach, NothingLost, NothingOld

\* Discover, accepted or refused, clears the rows; the signals it finds make
\* it an early one.
LEMMA OutputCleared ==
  ASSUME output' = <<>>, signals' = signals, scan'.found = {},
         scan'.early \/ signals = <<>>
  PROVE  OutputInv'
<1>1. Len(output') = 0 /\ (~scan'.early => Len(signals') = 0)
  OBVIOUS
<1>2. \A i : i \notin 1..0
  OBVIOUS
<1>3. OneRowEach' /\ NothingLost'
  BY <1>1, <1>2 DEF OneRowEach, NothingLost
<1>4. ~scan'.early => NothingOld'
  BY <1>1, <1>2 DEF NothingOld, Lists, Announces
<1> QED
  BY <1>3, <1>4 DEF OutputInv

\* A signal announces what it is about, besides what was announced before.
LEMMA Announced ==
  ASSUME NEW q \in Seq(Signal), NEW s \in Signal, NEW a, NEW p
  PROVE  Announces(Append(q, s), a, p) <=>
           Announces(q, a, p) \/ (s.type = "agent" /\ s.agent = a /\ s.proto = p)
<1> DEFINE r == Append(q, s)
<1>1. /\ Len(r) = Len(q) + 1 /\ Len(q) \in Nat /\ r[Len(q) + 1] = s
      /\ \A k \in 1..Len(q) : r[k] = q[k]
  OBVIOUS
<1> HIDE DEF r
<1>2. Announces(q, a, p) => Announces(r, a, p)
  BY <1>1 DEF Announces
<1>3. s.type = "agent" /\ s.agent = a /\ s.proto = p => Announces(r, a, p)
  BY <1>1 DEF Announces
<1>4. ASSUME Announces(r, a, p)
      PROVE  Announces(q, a, p) \/ (s.type = "agent" /\ s.agent = a /\ s.proto = p)
  <2>1. PICK k \in 1..Len(r) : r[k].type = "agent" /\ r[k].agent = a /\ r[k].proto = p
    BY <1>4 DEF Announces
  <2>2. CASE k \in 1..Len(q)
    BY <1>1, <2>1, <2>2 DEF Announces
  <2>3. CASE k = Len(q) + 1
    BY <1>1, <2>1, <2>3
  <2> QED
    BY <1>1, <2>2, <2>3
<1> QED
  BY <1>2, <1>3, <1>4 DEF r

\* Delivering a signal takes away the announcement it makes.
LEMMA Delivered ==
  ASSUME NEW q \in Seq(Signal), q # <<>>, NEW a, NEW p
  PROVE  Announces(q, a, p) <=>
           \/ Announces(Tail(q), a, p)
           \/ Head(q).type = "agent" /\ Head(q).agent = a /\ Head(q).proto = p
<1>1. /\ Len(Tail(q)) = Len(q) - 1 /\ Len(q) \in Nat \ {0} /\ Head(q) = q[1]
      /\ \A k \in 1..Len(Tail(q)) : Tail(q)[k] = q[k + 1]
  OBVIOUS
<1>2. ASSUME Announces(q, a, p)
      PROVE  \/ Announces(Tail(q), a, p)
             \/ Head(q).type = "agent" /\ Head(q).agent = a /\ Head(q).proto = p
  <2>1. PICK k \in 1..Len(q) : q[k].type = "agent" /\ q[k].agent = a /\ q[k].proto = p
    BY <1>2 DEF Announces
  <2>2. CASE k = 1
    BY <1>1, <2>1, <2>2
  <2>3. CASE k # 1
    <3>1. k - 1 \in 1..Len(Tail(q)) /\ Tail(q)[k - 1] = q[k]
      BY <1>1, <2>3
    <3> QED
      BY <2>1, <3>1 DEF Announces
  <2> QED
    BY <2>2, <2>3
<1>3. ASSUME Announces(Tail(q), a, p) PROVE Announces(q, a, p)
  <2>1. PICK k \in 1..Len(Tail(q)) :
          Tail(q)[k].type = "agent" /\ Tail(q)[k].agent = a /\ Tail(q)[k].proto = p
    BY <1>3 DEF Announces
  <2>2. k + 1 \in 1..Len(q) /\ q[k + 1] = Tail(q)[k]
    BY <1>1
  <2> QED
    BY <2>1, <2>2 DEF Announces
<1>4. Head(q).type = "agent" /\ Head(q).agent = a /\ Head(q).proto = p => Announces(q, a, p)
  BY <1>1 DEF Announces
<1> QED
  BY <1>2, <1>3, <1>4

LEMMA OutputHandled ==
  ASSUME Types, OutputInv, HandleSignal
  PROVE  OutputInv'
<1> DEFINE s == Head(signals)
<1>1. signals \in Seq(Signal) /\ signals # <<>> /\ signals' = Tail(signals)
  BY DEF Types, SignalsOK, HandleSignal
<1>2. s \in Signal /\ \A k \in 1..Len(signals') : \E m \in 1..Len(signals) : signals'[k] = signals[m]
  <2>1. \A k \in 1..Len(signals') : k + 1 \in 1..Len(signals) /\ signals'[k] = signals[k + 1]
    BY <1>1
  <2> QED
    BY <1>1, <2>1
<1>3. \A a, p : Announces(signals, a, p) <=>
                  Announces(signals', a, p) \/ (s.type = "agent" /\ s.agent = a /\ s.proto = p)
  BY <1>1, Delivered
<1>4. /\ OneRowEach'
      /\ \A a \in Agent, p \in Proto :
           Lists(output', a, p) \/ Announces(signals', a, p)
             <=> Lists(output, a, p) \/ Announces(signals, a, p)
      /\ ~scan.early => \A i \in 1..Len(output') : output'[i].n = scan.n
  <2>1. CASE s.type # "agent"
    <3>1. output' = output
      BY <2>1 DEF HandleSignal
    <3> QED
      BY <1>3, <2>1, <3>1 DEF OutputInv, OneRowEach, NothingOld
  <2>2. CASE s.type = "agent"
    <3>1. DisplayAgent(s)
      BY <2>2 DEF HandleSignal
    <3>2. OneRowEach
      BY DEF OutputInv
    <3>3. /\ OneRowEach'
          /\ \A a \in Agent, p \in Proto :
               Lists(output', a, p) <=> Lists(output, a, p) \/ (a = s.agent /\ p = s.proto)
          /\ \A n : s.n = n /\ (\A i \in 1..Len(output) : output[i].n = n)
                      => \A i \in 1..Len(output') : output'[i].n = n
      BY <1>2, <2>2, <3>1, <3>2, Displayed
    <3>4. ~scan.early => s.n = scan.n
      <4>1. s = signals[1] /\ 1 \in 1..Len(signals)
        BY <1>1
      <4> QED
        BY <2>2, <4>1 DEF OutputInv, NothingOld
    <3> HIDE DEF s
    <3>5. ~scan.early => \A i \in 1..Len(output') : output'[i].n = scan.n
      BY <3>3, <3>4 DEF OutputInv, NothingOld
    <3> QED
      BY <1>3, <2>2, <3>3, <3>5
  <2> QED
    BY <2>1, <2>2
<1>5. UNCHANGED <<scan, pc>>
  BY DEF HandleSignal, thread
<1>6. NothingLost' /\ (scan'.early <=> scan.early)
  BY <1>4, <1>5 DEF OutputInv, NothingLost
<1>7. ASSUME ~scan.early PROVE NothingOld'
  <2>1. NothingOld
    BY <1>7 DEF OutputInv
  <2>2. \A k \in 1..Len(signals') : signals'[k].type = "agent" => signals'[k].n = scan.n
    <3> SUFFICES ASSUME NEW k \in 1..Len(signals'), signals'[k].type = "agent"
                 PROVE  signals'[k].n = scan.n
      OBVIOUS
    <3>1. PICK m \in 1..Len(signals) : signals'[k] = signals[m]
      BY <1>2
    <3> QED
      BY <2>1, <3>1 DEF NothingOld
  <2>3. pc # "start"
    BY <1>1, <2>1 DEF NothingOld
  <2> QED
    BY <1>4, <1>5, <1>7, <2>1, <2>2, <2>3 DEF NothingOld
<1> QED
  BY <1>4, <1>6, <1>7, Zenon DEF OutputInv

\* The thread's signals, after the scan has begun.
LEMMA OutputEmits ==
  ASSUME Types, OutputInv, NEW s \in Signal, Emit(s), output' = output, pc' # "start",
         s.type = "agent" => s.n = scan.n,
         scan'.early = scan.early, scan'.n = scan.n,
         scan'.found = scan.found \cup (IF s.type = "agent" THEN {<<s.agent, s.proto>>} ELSE {})
  PROVE  OutputInv'
<1>1. signals \in Seq(Signal) /\ signals' = Append(signals, s)
  BY DEF Types, SignalsOK, Emit
<1>2. \A a, p : Announces(signals', a, p) <=>
                  Announces(signals, a, p) \/ (s.type = "agent" /\ s.agent = a /\ s.proto = p)
  BY <1>1, Announced
<1>3. \A a, p : <<a, p>> \in scan'.found <=>
                  <<a, p>> \in scan.found \/ (s.type = "agent" /\ s.agent = a /\ s.proto = p)
  OBVIOUS
<1>4. OneRowEach'
  BY DEF OutputInv, OneRowEach
<1>5. NothingLost'
  BY <1>2, <1>3 DEF OutputInv, NothingLost
<1>6. ASSUME ~scan.early PROVE NothingOld'
  <2>1. NothingOld
    BY <1>6 DEF OutputInv
  <2>2. \A k \in 1..Len(signals') : signals'[k] = s \/ \E m \in 1..Len(signals) : signals'[k] = signals[m]
    BY <1>1
  <2>3. \A k \in 1..Len(signals') : signals'[k].type = "agent" => signals'[k].n = scan.n
    BY <2>1, <2>2 DEF NothingOld
  <2> QED
    BY <1>2, <1>3, <2>1, <2>3 DEF NothingOld
<1> QED
  BY <1>4, <1>5, <1>6 DEF OutputInv

\* The start of run: the scan gets its number.
LEMMA OutputBegins ==
  ASSUME Types, OutputInv, RunStarts
  PROVE  OutputInv'
<1> DEFINE s == [type |-> "startStop", start |-> TRUE]
<1>1. /\ signals \in Seq(Signal) /\ signals' = Append(signals, s) /\ output' = output
      /\ pc = "start" /\ pc' = "transport"
  BY DEF Types, SignalsOK, RunStarts, Emit, gui
<1>2. s \in Signal /\ s.type # "agent"
  BY DEF Signal
<1>3. scan'.found = scan.found /\ scan'.early = scan.early
  BY DEF Types, ScanOK, ScanType, RunStarts
<1> HIDE DEF s
<1>4. \A a, p : Announces(signals', a, p) <=> Announces(signals, a, p)
  BY <1>1, <1>2, Announced
<1>5. OneRowEach' /\ NothingLost'
  BY <1>1, <1>3, <1>4 DEF OutputInv, OneRowEach, NothingLost
<1>6. ASSUME ~scan.early PROVE NothingOld'
  <2>1. NothingOld /\ output = <<>> /\ signals = <<>>
    BY <1>1, <1>6 DEF OutputInv, NothingOld
  <2>2. signals' = <<s>> /\ Len(signals') = 1 /\ signals'[1] = s /\ Len(output') = 0
    BY <1>1, <2>1
  <2>3. \A k \in 1..Len(signals') : signals'[k].type # "agent"
    BY <1>2, <2>2
  <2>4. \A i : i \notin 1..0
    OBVIOUS
  <2> QED
    BY <1>1, <1>3, <1>4, <2>1, <2>2, <2>3, <2>4 DEF NothingOld
<1> QED
  BY <1>3, <1>5, <1>6 DEF OutputInv

LEMMA OutputStep == ASSUME IInv, OutputInv, [Next]_vars PROVE OutputInv'
<1>0. Types /\ scan \in ScanType
  BY DEF IInv, Types, ScanOK
<1>1. CASE UNCHANGED vars \/ (\E new \in Tabs : Edit(new)) \/ DiscoverNothing \/ Abort
  <2>1. /\ output' = output /\ signals' = signals /\ pc' = pc
        /\ scan'.found = scan.found /\ scan'.early = scan.early /\ scan'.n = scan.n
    BY <1>0, <1>1 DEF vars, Edit, DiscoverNothing, Abort, gui, thread, ScanType
  <2> QED
    BY <2>1, OutputKept
<1>2. CASE DiscoverRefused \/ Discover
  <2>1. output' = <<>> /\ signals' = signals
    BY <1>2 DEF DiscoverRefused, Discover
  <2>2. scan'.found = {} /\ (scan'.early \/ signals = <<>>)
    BY <1>0, <1>2 DEF DiscoverRefused, Discover, ScanType
  <2> QED
    BY <2>1, <2>2, OutputCleared
<1>3. CASE HandleSignal
  BY <1>0, <1>3, OutputHandled
<1>4. CASE RunStarts
  BY <1>0, <1>4, OutputBegins
<1>5. ASSUME NEW x \in net, Receive(x) PROVE OutputInv'
  <2> DEFINE s == [type |-> "agent", agent |-> x.agent, proto |-> run.i, n |-> scan.n]
  <2>1. x.agent \in Agent /\ run.i \in Proto /\ scan.n \in Nat
    BY <1>0, <1>5 DEF Receive, IInv, LoopsInRange, Types, NetOK, ScanType
  <2>2. s \in Signal
    BY <2>1 DEF Signal
  <2>3. Emit(s) /\ output' = output /\ pc' # "start"
    BY <1>5 DEF Receive, gui
  <2>4. /\ scan'.early = scan.early /\ scan'.n = scan.n
        /\ scan'.found = scan.found \cup {<<s.agent, s.proto>>}
    BY <1>0, <1>5 DEF Receive, ScanType
  <2>5. s.type = "agent" /\ s.n = scan.n
    OBVIOUS
  <2> HIDE DEF s
  <2> QED
    BY <1>0, <2>2, <2>3, <2>4, <2>5, OutputEmits
<1>6. CASE SecondElapsed
  <2> DEFINE s == [type |-> "progress", value |-> progress + 1]
  <2>1. s \in Signal /\ s.type # "agent"
    BY <1>0 DEF Signal, Types, ProgressOK
  <2>2. Emit(s) /\ output' = output /\ pc' # "start" /\ scan' = scan
    BY <1>6 DEF SecondElapsed, gui
  <2> HIDE DEF s
  <2> QED
    BY <1>0, <2>1, <2>2, OutputEmits
<1>7. CASE DiscoverEnd
  <2> DEFINE s == [type |-> "startStop", start |-> FALSE]
  <2>1. s \in Signal /\ s.type # "agent"
    BY DEF Signal
  <2>2. Emit(s) /\ output' = output /\ pc' # "start" /\ scan' = scan
    BY <1>7 DEF DiscoverEnd, gui
  <2> HIDE DEF s
  <2> QED
    BY <1>0, <2>1, <2>2, OutputEmits
<1>8. CASE \/ RunReturns \/ NextTransport \/ SkipProto \/ TakeProto \/ CallDiscover \/ Probe
           \/ ProbeFails \/ ProbesSent \/ WaitAborted \/ DiscoverReturned \/ ThreadEnds
  <2>1. output' = output /\ signals' = signals /\ (pc' = "start" => pc = "start")
    BY <1>8 DEF RunReturns, NextTransport, SkipProto, TakeProto, CallDiscover, Probe, ProbeFails,
       ProbesSent, WaitAborted, DiscoverReturned, ThreadEnds, gui
  <2>2. scan'.found = scan.found /\ scan'.early = scan.early /\ scan'.n = scan.n
    BY <1>0, <1>8 DEF RunReturns, NextTransport, SkipProto, TakeProto, CallDiscover, Probe,
       ProbeFails, ProbesSent, WaitAborted, DiscoverReturned, ThreadEnds, ScanType
  <2> QED
    BY <2>1, <2>2, OutputKept
<1> QED
  BY <1>1, <1>2, <1>3, <1>4, <1>5, <1>6, <1>7, <1>8 DEF Next, User, Thread

\* The rows of the output are what the thread received since they were
\* cleared, one for each agent, and nothing of an earlier scan.
THEOREM OutputCorrect == Spec => []OutputIsScan
<1>1. Init => OutputInv
  BY OutputStart
<1>2. IInv /\ OutputInv /\ [Next]_vars => OutputInv'
  BY OutputStep
<1>3. IInv /\ OutputInv => OutputIsScan
  <2> SUFFICES ASSUME IInv, OutputInv PROVE OutputIsScan
    OBVIOUS
  <2>1. Types /\ scan.found \subseteq Agent \X Proto
    BY DEF IInv, Types, ScanOK, ScanType
  <2>2. /\ Shown \subseteq Agent \X Proto
        /\ \A a \in Agent, p \in Proto : <<a, p>> \in Shown <=> Lists(output, a, p)
    BY <2>1, ShownAre
  <2>3. signals = <<>> => \A a, p : ~Announces(signals, a, p)
    BY DEF Announces
  <2>4. signals = <<>> => scan.found \subseteq Shown
    BY <2>1, <2>2, <2>3 DEF OutputInv, NothingLost
  <2>5. ~scan.early => Shown \subseteq scan.found
    BY <2>1, <2>2 DEF OutputInv, NothingOld
  <2> QED
    BY <2>4, <2>5 DEF OutputInv, OutputIsScan, OneRowEach, NothingOld
<1> QED
  BY <1>1, <1>2, <1>3, Invariance, PTL DEF Spec
-----------------------------------------------------------------------------
(***************************************************************************)
(* The progress bar.  In a scan nothing disturbs, the seconds counted are  *)
(* the wait time for each round completed and what has passed of the one   *)
(* under way; Discover's maximum is the wait time for all rounds.  The bar *)
(* is where the last signal put it or will put it.                         *)
(***************************************************************************)
One(b) == IF b THEN 1 ELSE 0
Uses(tb, t) == t \in Transports /\ (tb.mode # "local" => t = 0)

\* The transports below t and the versions below i that a scan with tab tb
\* goes through, and the rounds that makes in all.
TransportsTo(tb, t) == One(t > 0 /\ Uses(tb, 0)) + One(t > 1 /\ Uses(tb, 1))
VersionsTo(tb, i) == One(i > 1 /\ 1 \in tb.protos) + One(i > 2 /\ 2 \in tb.protos)
                     + One(i > 3 /\ 3 \in tb.protos)
AllRounds(tb) == TransportsTo(tb, 2) * VersionsTo(tb, 4)

\* The rounds completed when the thread is at p with locals r, and the seconds
\* of the one under way.
Rounds(tb, p, r) ==
  TransportsTo(tb, r.t) * VersionsTo(tb, 4)
  + (IF p \in {"transport", "ending"} THEN 0 ELSE VersionsTo(tb, r.i))
Seconds(p, r) == IF p = "wait" THEN r.sec - 1 ELSE IF p = "after" THEN r.wait ELSE 0

\* A bar at b is at v when the signals of q are delivered.
Reaches(q, b, v) ==
  \/ b = v /\ \A k \in 1..Len(q) : q[k].type # "progress"
  \/ \E k \in 1..Len(q) : /\ q[k].type = "progress" /\ q[k].value = v
                          /\ \A m \in 1..Len(q) : q[m].type = "progress" => m <= k

\* What Discover set up for the scan.
SetUp == /\ tab.mode = "local" \/ (tab.mode = "range" /\ 0 \in Transports)
         /\ wait_time = tab.wait
         /\ bar.max = AllRounds(tab) * tab.wait

Placed == /\ pc # "end"
          /\ pc \in {"proto", "call", "probe", "wait", "after"} => Uses(tab, run.t)
          /\ pc \in {"call", "probe", "wait", "after"} => run.i \in tab.protos
          /\ pc \in {"probe", "wait", "after"} => ~aborting /\ run.wait = tab.wait
          /\ pc = "probe" => run.sec = 1
          /\ pc = "wait" => run.sec \in 1..tab.wait
          /\ pc = "ending" => run.t = 2

Counted == progress = Rounds(tab, pc, run) * tab.wait + Seconds(pc, run)

BarFollows == /\ Reaches(signals, bar.value, progress)
              /\ \A k \in 1..Len(signals) :
                   signals[k].type = "progress" => signals[k].value <= bar.max

Running == Placed /\ Counted /\ BarFollows

Steady == /\ SetUp
          /\ pc = "start" => signals = <<>> /\ bar.value = 0
          /\ pc = "off" => progress <= bar.max
          /\ pc \notin {"off", "start"} => Running

\* A thread that cannot open its session never counts.
NeverRan == ~usable => pc \in {"off", "start"} /\ progress = 0

ProgressInv == (scan.clean => Steady) /\ NeverRan

LEMMA Counting ==
  ASSUME NEW tb \in Tab
  PROVE  /\ TransportsTo(tb, 0) = 0 /\ VersionsTo(tb, 1) = 0
         /\ \A t \in 0..2 : TransportsTo(tb, t) \in Nat /\ TransportsTo(tb, t) <= TransportsTo(tb, 2)
         /\ \A i \in 1..4 : VersionsTo(tb, i) \in Nat /\ VersionsTo(tb, i) <= VersionsTo(tb, 4)
         /\ \A t \in {0, 1} : TransportsTo(tb, t + 1) = TransportsTo(tb, t) + One(Uses(tb, t))
         /\ \A i \in Proto : VersionsTo(tb, i + 1) = VersionsTo(tb, i) + One(i \in tb.protos)
<1>1. \A b : One(b) \in {0, 1}
  BY DEF One
<1>2. One(FALSE) = 0
  BY DEF One
<1>3. \A t \in 0..2 : TransportsTo(tb, t) \in Nat /\ TransportsTo(tb, t) <= TransportsTo(tb, 2)
  BY DEF TransportsTo, One
<1>4. \A i \in 1..4 : VersionsTo(tb, i) \in Nat /\ VersionsTo(tb, i) <= VersionsTo(tb, 4)
  BY DEF VersionsTo, One
<1>5. \A t \in {0, 1} : TransportsTo(tb, t + 1) = TransportsTo(tb, t) + One(Uses(tb, t))
  BY DEF TransportsTo, One
<1>6. \A i \in Proto : VersionsTo(tb, i + 1) = VersionsTo(tb, i) + One(i \in tb.protos)
  BY DEF VersionsTo, One, Proto
<1>7. TransportsTo(tb, 0) = 0 /\ VersionsTo(tb, 1) = 0
  BY DEF TransportsTo, VersionsTo, One
<1> QED
  BY <1>3, <1>4, <1>5, <1>6, <1>7

LEMMA Products ==
  /\ \A a, b \in Nat : a * b \in Nat
  /\ \A a, b \in Nat : (a + 1) * b = a * b + b
  /\ \A a, b, c \in Nat : a <= b => a * c <= b * c
<1>1. \A a, b \in Nat : a * b \in Nat
  OBVIOUS
<1>2. \A a, b \in Nat : (a + 1) * b = a * b + b
  OBVIOUS
<1>3. ASSUME NEW a \in Nat, NEW b \in Nat, NEW c \in Nat, a <= b PROVE a * c <= b * c
  <2>1. PICK d \in Nat : b = a + d
    <3>1. b - a \in Nat /\ b = a + (b - a)
      BY <1>3
    <3> QED
      BY <3>1
  <2>2. b * c = a * c + d * c /\ d * c \in Nat /\ a * c \in Nat
    BY <2>1
  <2> QED
    BY <2>2
<1> QED
  BY <1>1, <1>2, <1>3

\* A set of versions has as many elements as versions are in it.
LEMMA SizeOfProtos ==
  ASSUME NEW X \in SUBSET Proto
  PROVE  Cardinality(X) = One(1 \in X) + One(2 \in X) + One(3 \in X)
<1> DEFINE A == X \cap {1}
           B == X \cap {1, 2}
<1>1. IsFiniteSet({}) /\ Cardinality({}) = 0
  BY FS_EmptySet
<1>2. IsFiniteSet(A) /\ Cardinality(A) = One(1 \in X)
  <2>1. CASE 1 \in X
    <3>1. A = {1}
      BY <2>1
    <3> QED
      BY <2>1, <3>1, FS_Singleton DEF One
  <2>2. CASE 1 \notin X
    <3>1. A = {}
      BY <2>2
    <3> QED
      BY <1>1, <2>2, <3>1 DEF One
  <2> QED
    BY <2>1, <2>2
<1>3. IsFiniteSet(B) /\ Cardinality(B) = One(1 \in X) + One(2 \in X)
  <2>1. CASE 2 \in X
    <3>1. B = A \cup {2} /\ 2 \notin A
      BY <2>1
    <3> HIDE DEF A, B
    <3>2. IsFiniteSet(B) /\ Cardinality(B) = Cardinality(A) + 1
      BY <1>2, <3>1, FS_AddElement
    <3> QED
      BY <1>2, <2>1, <3>2 DEF One
  <2>2. CASE 2 \notin X
    <3>1. B = A
      BY <2>2
    <3> HIDE DEF A, B
    <3> QED
      BY <1>2, <2>2, <3>1 DEF One
  <2> QED
    BY <2>1, <2>2
<1>4. CASE 3 \in X
  <2>1. X = B \cup {3} /\ 3 \notin B
    <3>1. \A x \in X : x = 1 \/ x = 2 \/ x = 3
      BY DEF Proto
    <3>2. \A x : x \in X <=> x \in B \/ x = 3
      BY <1>4, <3>1
    <3> QED
      BY <3>2
  <2> HIDE DEF A, B
  <2>2. Cardinality(X) = Cardinality(B) + 1
    BY <1>3, <2>1, FS_AddElement
  <2> QED
    BY <1>3, <1>4, <2>2 DEF One
<1>5. CASE 3 \notin X
  <2>1. X = B
    BY <1>5 DEF Proto
  <2> HIDE DEF A, B
  <2> QED
    BY <1>3, <1>5, <2>1 DEF One
<1> QED
  BY <1>4, <1>5

\* Discover's maximum is the length of all rounds.
LEMMA Maximum ==
  ASSUME Types, tab.mode = "local" \/ (tab.mode = "range" /\ 0 \in Transports)
  PROVE  NumTransport * Cardinality(tab.protos) * tab.wait = AllRounds(tab) * tab.wait
<1>1. Cardinality(tab.protos) = VersionsTo(tab, 4)
  <2>1. tab.protos \in SUBSET Proto
    BY DEF Types, GuiOK, Tab
  <2> QED
    BY <2>1, SizeOfProtos DEF VersionsTo, One
<1>2. NumTransport = TransportsTo(tab, 2)
  <2>1. CASE tab.mode = "local"
    <3> DEFINE A == Transports \cap {0}
    <3>1. Uses(tab, 0) <=> 0 \in Transports
      BY <2>1 DEF Uses
    <3>2. Uses(tab, 1) <=> 1 \in Transports
      BY <2>1 DEF Uses
    <3>3. IsFiniteSet(A) /\ Cardinality(A) = One(0 \in Transports)
      <4>1. CASE 0 \in Transports
        <5>1. A = {0}
          BY <4>1
        <5> QED
          BY <4>1, <5>1, FS_Singleton DEF One
      <4>2. CASE 0 \notin Transports
        <5>1. A = {}
          BY <4>2
        <5> QED
          BY <4>2, <5>1, FS_EmptySet DEF One
      <4> QED
        BY <4>1, <4>2
    <3>4. Cardinality(Transports) = One(0 \in Transports) + One(1 \in Transports)
      <4>1. CASE 1 \in Transports
        <5>1. Transports = A \cup {1} /\ 1 \notin A
          <6>1. \A t \in Transports : t = 0 \/ t = 1
            BY DiscoveryAssumption
          <6>2. \A t : t \in Transports <=> t \in A \/ t = 1
            BY <4>1, <6>1
          <6> QED
            BY <6>2
        <5> HIDE DEF A
        <5>2. Cardinality(Transports) = Cardinality(A) + 1
          BY <3>3, <5>1, FS_AddElement
        <5> QED
          BY <3>3, <4>1, <5>2 DEF One
      <4>2. CASE 1 \notin Transports
        <5>1. Transports = A
          BY <4>2, DiscoveryAssumption
        <5> HIDE DEF A
        <5> QED
          BY <3>3, <4>2, <5>1 DEF One
      <4> QED
        BY <4>1, <4>2
    <3> QED
      BY <2>1, <3>1, <3>2, <3>4 DEF NumTransport, TransportsTo, One
  <2>2. CASE tab.mode # "local" /\ 0 \in Transports
    BY <2>2 DEF NumTransport, TransportsTo, Uses, One
  <2> QED
    BY <2>1, <2>2
<1> QED
  BY <1>1, <1>2 DEF AllRounds

\* The values progress has, and its room for one second more during a wait.
LEMMA InRange ==
  ASSUME Types, LoopsInRange, Placed, Counted, pc \notin {"off", "start"}
  PROVE  /\ progress <= AllRounds(tab) * tab.wait
         /\ pc = "wait" => progress + 1 <= AllRounds(tab) * tab.wait
         /\ pc = "ending" => progress = AllRounds(tab) * tab.wait
<1> DEFINE T == TransportsTo(tab, run.t)
           V == VersionsTo(tab, 4)
           R == Rounds(tab, pc, run)
           A == AllRounds(tab)
           W == tab.wait
<1>1. tab \in Tab /\ W \in Nat /\ tab.protos \subseteq Proto
  BY DEF Types, GuiOK, Tab
<1>2. run.t \in 0..2 /\ run.i \in 1..4 /\ pc # "end"
  BY DEF Types, RunOK, RunType, Placed
<1>3. T \in Nat /\ V \in Nat /\ TransportsTo(tab, 2) \in Nat /\ T <= TransportsTo(tab, 2)
  BY <1>1, <1>2, Counting
<1>4. A = TransportsTo(tab, 2) * V /\ A \in Nat /\ T * V \in Nat /\ T * V <= A
  BY <1>3, Products DEF AllRounds
<1>5. CASE pc = "transport"
  <2>1. R = T * V /\ Seconds(pc, run) = 0
    BY <1>4, <1>5 DEF Rounds, Seconds
  <2> HIDE DEF T, V, R, A, W
  <2>2. R * W <= A * W /\ R * W \in Nat /\ A * W \in Nat
    BY <1>1, <1>4, <2>1, Products
  <2> QED
    BY <1>5, <2>1, <2>2 DEF Counted, R, A, W
<1>6. CASE pc = "ending"
  <2>1. R = A /\ Seconds(pc, run) = 0
    BY <1>4, <1>6 DEF Rounds, Seconds, Placed, AllRounds
  <2> HIDE DEF T, V, R, A, W
  <2>2. A * W \in Nat
    BY <1>1, <1>4, Products
  <2> QED
    BY <1>6, <2>1, <2>2 DEF Counted, R, A, W
<1>7. CASE pc \in {"proto", "call", "probe", "wait", "after"}
  <2> DEFINE U == VersionsTo(tab, run.i)
  <2>1. run.t \in {0, 1} /\ Uses(tab, run.t)
    BY <1>7 DEF LoopsInRange, Placed
  <2>2. T + 1 <= TransportsTo(tab, 2)
    <3>1. TransportsTo(tab, run.t + 1) = T + One(Uses(tab, run.t)) /\ run.t + 1 \in 0..2
      <4>1. \A t \in {0, 1} : TransportsTo(tab, t + 1) = TransportsTo(tab, t) + One(Uses(tab, t))
        BY <1>1, Counting
      <4>2. \A t \in {0, 1} : t + 1 \in 0..2
        OBVIOUS
      <4> QED
        BY <2>1, <4>1, <4>2
    <3>2. TransportsTo(tab, run.t + 1) <= TransportsTo(tab, 2)
      BY <1>1, <3>1, Counting
    <3> QED
      BY <2>1, <3>1, <3>2 DEF One
  <2>3. U \in Nat /\ U <= V
    BY <1>1, <1>2, Counting
  <2>4. R = T * V + U
    BY <1>7 DEF Rounds
  <2>5. T * V + V <= A
    BY <1>3, <1>4, <2>2, Products
  <2>6. CASE pc = "proto"
    <3>1. R <= A /\ R \in Nat /\ Seconds(pc, run) = 0
      BY <1>3, <1>4, <2>3, <2>4, <2>5, <2>6 DEF Seconds
    <3> HIDE DEF T, V, R, A, W, U
    <3>2. R * W <= A * W /\ R * W \in Nat /\ A * W \in Nat
      BY <1>1, <1>4, <3>1, Products
    <3> QED
      BY <2>6, <3>1, <3>2 DEF Counted, R, A, W
  <2>7. CASE pc # "proto"
    <3>1. U + 1 <= V
      <4>1. run.i \in Proto /\ run.i \in tab.protos
        BY <1>1, <1>7, <2>7 DEF Placed
      <4>2. VersionsTo(tab, run.i + 1) = U + 1 /\ run.i + 1 \in 1..4
        BY <1>1, <4>1, Counting DEF One, Proto
      <4>3. VersionsTo(tab, run.i + 1) <= V
        BY <1>1, <4>2, Counting
      <4> QED
        BY <4>2, <4>3
    <3>2. R \in Nat /\ R + 1 \in Nat /\ R + 1 <= A
      BY <1>3, <1>4, <2>3, <2>4, <2>5, <3>1
    <3>3. /\ Seconds(pc, run) \in Nat /\ Seconds(pc, run) <= W
          /\ pc = "wait" => Seconds(pc, run) + 1 <= W
      BY <1>1, <1>7 DEF Seconds, Placed
    <3> HIDE DEF T, V, R, A, W, U
    <3>4. R * W + W <= A * W /\ R * W \in Nat /\ A * W \in Nat
      BY <1>1, <1>4, <3>2, Products
    <3> QED
      BY <1>1, <1>7, <3>3, <3>4 DEF Counted, R, A, W
  <2> QED
    BY <2>6, <2>7
<1> QED
  BY <1>2, <1>5, <1>6, <1>7 DEF Types, PcOK

LEMMA ReachesDelivered ==
  ASSUME NEW q \in Seq(Signal), q # <<>>, NEW b, NEW v, Reaches(q, b, v)
  PROVE  Reaches(Tail(q), IF Head(q).type = "progress" THEN Head(q).value ELSE b, v)
<1> DEFINE c == IF Head(q).type = "progress" THEN Head(q).value ELSE b
<1>1. /\ Len(Tail(q)) = Len(q) - 1 /\ Len(q) \in Nat \ {0} /\ Head(q) = q[1]
      /\ \A k \in 1..Len(Tail(q)) : Tail(q)[k] = q[k + 1]
  OBVIOUS
<1>2. CASE b = v /\ \A k \in 1..Len(q) : q[k].type # "progress"
  <2>1. Head(q).type # "progress"
    BY <1>1, <1>2
  <2>2. \A k \in 1..Len(Tail(q)) : Tail(q)[k].type # "progress"
    BY <1>1, <1>2
  <2> QED
    BY <1>2, <2>1, <2>2 DEF Reaches
<1>3. ASSUME NEW k \in 1..Len(q), q[k].type = "progress", q[k].value = v,
             \A m \in 1..Len(q) : q[m].type = "progress" => m <= k
      PROVE  Reaches(Tail(q), c, v)
  <2>1. CASE k = 1
    <3>1. c = v
      BY <1>1, <1>3, <2>1
    <3>2. \A m \in 1..Len(Tail(q)) : Tail(q)[m].type # "progress"
      BY <1>1, <1>3, <2>1
    <3> QED
      BY <3>1, <3>2 DEF Reaches
  <2>2. CASE k # 1
    <3>1. k - 1 \in 1..Len(Tail(q)) /\ Tail(q)[k - 1] = q[k]
      BY <1>1, <2>2
    <3>2. \A m \in 1..Len(Tail(q)) : Tail(q)[m].type = "progress" => m <= k - 1
      BY <1>1, <1>3
    <3> QED
      BY <1>3, <3>1, <3>2 DEF Reaches
  <2> QED
    BY <2>1, <2>2
<1> QED
  BY <1>2, <1>3 DEF Reaches

LEMMA ReachesEmitted ==
  ASSUME NEW q \in Seq(Signal), NEW s \in Signal, NEW b, NEW v
  PROVE  /\ s.type = "progress" => Reaches(Append(q, s), b, s.value)
         /\ s.type # "progress" /\ Reaches(q, b, v) => Reaches(Append(q, s), b, v)
<1> DEFINE r == Append(q, s)
<1>1. /\ Len(r) = Len(q) + 1 /\ Len(q) \in Nat /\ r[Len(q) + 1] = s
      /\ \A k \in 1..Len(q) : r[k] = q[k]
  OBVIOUS
<1> HIDE DEF r
<1>2. ASSUME s.type = "progress" PROVE Reaches(r, b, s.value)
  <2>1. Len(q) + 1 \in 1..Len(r) /\ \A m \in 1..Len(r) : m <= Len(q) + 1
    BY <1>1
  <2> QED
    BY <1>1, <1>2, <2>1 DEF Reaches
<1>3. ASSUME s.type # "progress", Reaches(q, b, v) PROVE Reaches(r, b, v)
  <2>1. CASE b = v /\ \A k \in 1..Len(q) : q[k].type # "progress"
    <3>1. \A k \in 1..Len(r) : r[k].type # "progress"
      BY <1>1, <1>3, <2>1
    <3> QED
      BY <2>1, <3>1 DEF Reaches
  <2>2. ASSUME NEW k \in 1..Len(q), q[k].type = "progress", q[k].value = v,
               \A m \in 1..Len(q) : q[m].type = "progress" => m <= k
        PROVE  Reaches(r, b, v)
    <3>1. k \in 1..Len(r) /\ r[k] = q[k]
      BY <1>1
    <3>2. \A m \in 1..Len(r) : r[m].type = "progress" => m <= k
      BY <1>1, <1>3, <2>2
    <3> QED
      BY <2>2, <3>1, <3>2 DEF Reaches
  <2> QED
    BY <1>3, <2>1, <2>2 DEF Reaches
<1> QED
  BY <1>2, <1>3 DEF r

LEMMA ProgressStart == ASSUME Init PROVE ProgressInv
BY DEF Init, ProgressInv, NeverRan

\* A signal is delivered: the bar may move on to where it was going.
LEMMA ProgressHandled ==
  ASSUME Types, Steady, HandleSignal
  PROVE  Steady'
<1> DEFINE s == Head(signals)
<1>1. signals \in Seq(Signal) /\ signals # <<>> /\ signals' = Tail(signals)
  BY DEF Types, SignalsOK, HandleSignal
<1>2. bar \in [value : Nat, max : Nat] /\ UNCHANGED <<tab, shared, thread>>
  BY DEF Types, GuiOK, HandleSignal
<1>3. UNCHANGED <<tab, wait_time, aborting, pc, run, progress>>
  BY <1>2 DEF shared, thread
<1>4. \/ s.type = "progress" /\ bar' = IF s.value <= bar.max THEN [bar EXCEPT !.value = s.value] ELSE bar
      \/ s.type # "progress" /\ bar' = bar
  BY DEF HandleSignal
<1>5. bar'.max = bar.max
  BY <1>2, <1>4
<1>6. SetUp'
  BY <1>3, <1>5 DEF Steady, SetUp
<1>7. pc # "start"
  BY <1>1 DEF Steady
<1>8. ASSUME pc \notin {"off", "start"} PROVE Running'
  <2>1. Running
    BY <1>8 DEF Steady
  <2>2. Placed' /\ Counted'
    BY <1>3, <2>1 DEF Running, Placed, Counted
  <2>3. \A k \in 1..Len(signals') : k + 1 \in 1..Len(signals) /\ signals'[k] = signals[k + 1]
    BY <1>1
  <2>4. \A k \in 1..Len(signals') : signals'[k].type = "progress" => signals'[k].value <= bar'.max
    BY <1>5, <2>1, <2>3 DEF Running, BarFollows
  <2>5. s = signals[1] /\ 1 \in 1..Len(signals)
    BY <1>1
  <2>6. bar'.value = IF s.type = "progress" THEN s.value ELSE bar.value
    BY <1>2, <1>4, <2>1, <2>5 DEF Running, BarFollows
  <2>7. Reaches(signals', bar'.value, progress')
    BY <1>1, <1>3, <2>1, <2>6, ReachesDelivered DEF Running, BarFollows
  <2> QED
    BY <2>2, <2>4, <2>7 DEF Running, BarFollows
<1> QED
  BY <1>3, <1>5, <1>6, <1>7, <1>8 DEF Steady

\* Discover when the thread is off and no signal is left.
LEMMA ProgressSetUp ==
  ASSUME Types, Discover, pc = "off", signals = <<>>
  PROVE  Steady'
<1>1. /\ bar' = [value |-> 0, max |-> NumTransport * Cardinality(tab.protos) * tab.wait]
      /\ wait_time' = tab.wait /\ pc' = "start" /\ UNCHANGED <<tab, signals>>
      /\ tab.mode = "local" \/ (tab.mode = "range" /\ 0 \in Transports)
  BY DEF Discover, StartThread
<1>2. bar'.max = AllRounds(tab) * tab.wait /\ bar'.value = 0
  BY <1>1, Maximum
<1>3. SetUp'
  BY <1>1, <1>2 DEF SetUp
<1> QED
  BY <1>1, <1>2, <1>3 DEF Steady

LEMMA ProgressBegins ==
  ASSUME Types, Steady, RunStarts
  PROVE  Steady'
<1> DEFINE s == [type |-> "startStop", start |-> TRUE]
<1>1. /\ signals = <<>> /\ bar.value = 0 /\ signals' = Append(signals, s)
      /\ pc = "start" /\ pc' = "transport" /\ run' = NoRun /\ progress' = 0
      /\ UNCHANGED <<tab, bar, wait_time>>
  BY DEF Steady, RunStarts, Emit, gui, shared
<1>2. signals' = <<s>> /\ s.type # "progress"
  BY <1>1
<1> HIDE DEF s
<1>3. Len(signals') = 1 /\ signals'[1] = s
  BY <1>2
<1>4. \A k \in 1..Len(signals') : signals'[k].type # "progress"
  BY <1>2, <1>3
<1>5. BarFollows'
  BY <1>1, <1>4 DEF BarFollows, Reaches
<1>6. Placed'
  BY <1>1 DEF Placed
<1>7. Counted'
  <2>1. tab \in Tab /\ tab.wait \in Nat
    BY DEF Types, GuiOK, Tab
  <2>2. TransportsTo(tab, 0) = 0 /\ VersionsTo(tab, 4) \in Nat
    BY <2>1, Counting
  <2>3. run'.t = 0
    BY <1>1 DEF NoRun
  <2>4. Rounds(tab, "transport", run') = 0 /\ Seconds("transport", run') = 0
    BY <2>2, <2>3 DEF Rounds, Seconds
  <2> QED
    BY <1>1, <2>1, <2>4 DEF Counted
<1>8. SetUp'
  BY <1>1 DEF Steady, SetUp
<1> QED
  BY <1>1, <1>5, <1>6, <1>7, <1>8 DEF Steady, Running

\* The steps that count no second and send no signal.
LEMMA ProgressQuiet ==
  ASSUME Steady, pc \notin {"off", "start"}, pc' \notin {"off", "start"},
         UNCHANGED <<tab, bar, wait_time, signals, progress>>,
         Placed',
         Rounds(tab, pc', run') = Rounds(tab, pc, run),
         Seconds(pc', run') = Seconds(pc, run)
  PROVE  Steady'
<1>1. Running /\ SetUp
  BY DEF Steady
<1>2. Counted' /\ BarFollows'
  BY <1>1 DEF Running, Counted, BarFollows
<1>3. SetUp'
  BY <1>1 DEF SetUp
<1> QED
  BY <1>2, <1>3 DEF Steady, Running

\* The loops of run over the transports and the versions.
LEMMA ProgressLoops ==
  ASSUME IInv, Steady, NextTransport \/ SkipProto \/ TakeProto
  PROVE  Steady'
<1>1. /\ pc \notin {"off", "start"} /\ pc' \notin {"off", "start"}
      /\ UNCHANGED <<tab, bar, wait_time, signals, progress>>
  BY DEF NextTransport, SkipProto, TakeProto, gui, shared
<1>2. Types /\ LoopsInRange /\ Placed
  BY <1>1 DEF IInv, Steady, Running
<1>3. run \in RunType /\ tab \in Tab /\ tab.protos \subseteq Proto
  BY <1>2 DEF Types, RunOK, GuiOK, Tab
<1> DEFINE V == VersionsTo(tab, 4)
<1>4. \A t \in 0..2 : TransportsTo(tab, t) \in Nat
  BY <1>3, Counting
<1>5. V \in Nat /\ \A i \in 1..4 : VersionsTo(tab, i) \in Nat
  BY <1>3, Counting
<1>6. \A t \in {0, 1} : TransportsTo(tab, t + 1) = TransportsTo(tab, t) + One(Uses(tab, t))
  BY <1>3, Counting
<1>7. \A i \in Proto : VersionsTo(tab, i + 1) = VersionsTo(tab, i) + One(i \in tab.protos)
  BY <1>3, Counting
<1>8. VersionsTo(tab, 1) = 0
  BY <1>3, Counting
<1>9. CASE NextTransport /\ Uses(tab, run.t)
  <2>1. pc = "transport" /\ pc' = "proto" /\ run' = [run EXCEPT !.i = 1, !.local = (tab.mode = "local")]
    BY <1>9 DEF NextTransport, UsesTransport, Uses
  <2>2. run'.t = run.t /\ run'.i = 1
    BY <1>3, <2>1 DEF RunType
  <2>3. Placed'
    BY <1>1, <1>9, <2>1, <2>2 DEF Placed
  <2>4. Rounds(tab, pc', run') = Rounds(tab, pc, run) /\ Seconds(pc', run') = Seconds(pc, run)
    <3>1. run.t \in 0..2
      BY <1>3 DEF RunType
    <3> QED
      BY <1>8, <2>1, <2>2, <3>1 DEF Rounds, Seconds
  <2> QED
    BY <1>1, <2>3, <2>4, ProgressQuiet
<1>10. CASE NextTransport /\ ~Uses(tab, run.t)
  <2>1. pc = "transport" /\ pc' = "transport" /\ run' = [run EXCEPT !.t = @ + 1] /\ run.t < 2
    BY <1>10 DEF NextTransport, UsesTransport, Uses
  <2>2. run'.t = run.t + 1 /\ run.t \in {0, 1}
    BY <1>3, <2>1 DEF RunType
  <2>3. Placed'
    BY <1>1, <2>1 DEF Placed
  <2>4. TransportsTo(tab, run'.t) = TransportsTo(tab, run.t)
    BY <1>4, <1>6, <1>10, <2>2 DEF One
  <2>5. Rounds(tab, pc', run') = Rounds(tab, pc, run) /\ Seconds(pc', run') = Seconds(pc, run)
    BY <2>1, <2>4 DEF Rounds, Seconds
  <2> QED
    BY <1>1, <2>3, <2>5, ProgressQuiet
<1>11. CASE SkipProto /\ run.i > 3
  <2>1. pc = "proto" /\ pc' = "transport" /\ run' = [run EXCEPT !.t = @ + 1]
    BY <1>11 DEF SkipProto
  <2>2. run'.t = run.t + 1 /\ run.t \in {0, 1} /\ Uses(tab, run.t) /\ run.i = 4
    BY <1>2, <1>3, <1>11, <2>1 DEF RunType, LoopsInRange, Placed
  <2>3. Placed'
    BY <1>1, <2>1 DEF Placed
  <2>4. TransportsTo(tab, run'.t) = TransportsTo(tab, run.t) + 1 /\ TransportsTo(tab, run.t) \in Nat
    BY <1>4, <1>6, <2>2 DEF One
  <2>5. Rounds(tab, pc, run) = TransportsTo(tab, run.t) * V + V
    BY <2>1, <2>2 DEF Rounds
  <2>6. Rounds(tab, pc', run') = TransportsTo(tab, run'.t) * V
    <3>1. \A a, b \in Nat : a * b \in Nat
      BY Products
    <3>2. TransportsTo(tab, run'.t) * V \in Nat
      BY <1>5, <2>4, <3>1
    <3> QED
      BY <2>1, <3>2 DEF Rounds
  <2>7. Seconds(pc', run') = Seconds(pc, run)
    BY <2>1 DEF Seconds
  <2> HIDE DEF V
  <2>8. Rounds(tab, pc', run') = Rounds(tab, pc, run)
    BY <1>5, <2>4, <2>5, <2>6, Products
  <2> QED
    BY <1>1, <2>3, <2>7, <2>8, ProgressQuiet
<1>12. CASE SkipProto /\ ~(run.i > 3)
  <2>1. pc = "proto" /\ pc' = "proto" /\ run' = [run EXCEPT !.i = @ + 1] /\ run.i \notin tab.protos
    BY <1>12 DEF SkipProto
  <2>2. run'.t = run.t /\ run'.i = run.i + 1 /\ run.i \in Proto
    BY <1>3, <1>12, <2>1 DEF RunType, Proto
  <2>3. Placed'
    BY <1>1, <1>2, <2>1, <2>2 DEF Placed
  <2>4. VersionsTo(tab, run'.i) = VersionsTo(tab, run.i)
    <3>1. run.i \in 1..4
      BY <1>3 DEF RunType
    <3> QED
      BY <1>5, <1>7, <2>1, <2>2, <3>1 DEF One
  <2>5. Rounds(tab, pc', run') = Rounds(tab, pc, run) /\ Seconds(pc', run') = Seconds(pc, run)
    BY <2>1, <2>2, <2>4 DEF Rounds, Seconds
  <2> QED
    BY <1>1, <2>3, <2>5, ProgressQuiet
<1>13. CASE TakeProto
  <2>1. pc = "proto" /\ pc' = "call" /\ run' = run /\ run.i \in tab.protos
    BY <1>13 DEF TakeProto
  <2>2. Placed'
    BY <1>1, <1>2, <2>1 DEF Placed
  <2>3. Rounds(tab, pc', run') = Rounds(tab, pc, run) /\ Seconds(pc', run') = Seconds(pc, run)
    BY <2>1 DEF Rounds, Seconds
  <2> QED
    BY <1>1, <2>2, <2>3, ProgressQuiet
<1> QED
  BY <1>9, <1>10, <1>11, <1>12, <1>13

\* A round's probes: nothing is counted until its wait begins.
LEMMA ProgressProbes ==
  ASSUME IInv, Steady, CallDiscover \/ Probe \/ ProbesSent
  PROVE  Steady'
<1>1. /\ pc \notin {"off", "start"} /\ pc' \notin {"off", "start"}
      /\ UNCHANGED <<tab, bar, wait_time, signals, progress>>
  BY DEF CallDiscover, Probe, ProbesSent, gui, shared
<1>2. Types /\ LoopsInRange /\ Placed /\ SetUp
  BY <1>1 DEF IInv, Steady, Running
<1>3. run \in RunType /\ tab.wait \in Nat \ {0}
  BY <1>2 DEF Types, RunOK, GuiOK, Tab
<1>4. CASE CallDiscover
  <2>1. /\ pc = "call" /\ pc' = "probe" /\ ~aborting'
        /\ run'.t = run.t /\ run'.i = run.i /\ run'.wait = wait_time /\ run'.sec = 1
    BY <1>3, <1>4 DEF CallDiscover, RunType
  <2>2. Placed'
    BY <1>1, <1>2, <2>1 DEF Placed, SetUp
  <2>3. Rounds(tab, pc', run') = Rounds(tab, pc, run) /\ Seconds(pc', run') = Seconds(pc, run)
    BY <2>1 DEF Rounds, Seconds
  <2> QED
    BY <1>1, <2>2, <2>3, ProgressQuiet
<1>5. CASE Probe
  <2>1. /\ pc = "probe" /\ pc' = "probe" /\ aborting' = aborting
        /\ run'.t = run.t /\ run'.i = run.i /\ run'.wait = run.wait /\ run'.sec = run.sec
    BY <1>2, <1>3, <1>5 DEF Probe, RunType, Placed, shared
  <2>2. Placed'
    BY <1>1, <1>2, <2>1 DEF Placed
  <2>3. Rounds(tab, pc', run') = Rounds(tab, pc, run) /\ Seconds(pc', run') = Seconds(pc, run)
    BY <2>1 DEF Rounds, Seconds
  <2> QED
    BY <1>1, <2>2, <2>3, ProgressQuiet
<1>6. CASE ProbesSent
  <2>1. pc = "probe" /\ pc' = "wait" /\ aborting' = aborting /\ run' = run
    BY <1>6 DEF ProbesSent, shared
  <2>2. Placed' /\ run.sec = 1
    BY <1>1, <1>2, <1>3, <2>1 DEF Placed
  <2>3. Rounds(tab, pc', run') = Rounds(tab, pc, run) /\ Seconds(pc', run') = Seconds(pc, run)
    BY <2>1, <2>2 DEF Rounds, Seconds
  <2> QED
    BY <1>1, <2>2, <2>3, ProgressQuiet
<1> QED
  BY <1>4, <1>5, <1>6

\* A signal of the thread that is not about progress.
LEMMA ProgressSignals ==
  ASSUME Types, Steady, pc \notin {"off", "start"}, pc' \notin {"off", "start"},
         NEW s \in Signal, s.type # "progress", Emit(s),
         UNCHANGED <<tab, bar, wait_time, progress>>,
         Placed',
         Rounds(tab, pc', run') = Rounds(tab, pc, run),
         Seconds(pc', run') = Seconds(pc, run)
  PROVE  Steady'
<1>1. Running /\ SetUp
  BY DEF Steady
<1>2. signals \in Seq(Signal) /\ signals' = Append(signals, s)
  BY DEF Types, SignalsOK, Emit
<1>3. Reaches(signals', bar'.value, progress')
  BY <1>1, <1>2, ReachesEmitted DEF Running, BarFollows
<1>4. \A k \in 1..Len(signals') : signals'[k] = s \/ (k \in 1..Len(signals) /\ signals'[k] = signals[k])
  BY <1>2
<1>5. BarFollows'
  BY <1>1, <1>3, <1>4 DEF Running, BarFollows
<1>6. Counted' /\ SetUp'
  BY <1>1 DEF Running, Counted, SetUp
<1> QED
  BY <1>5, <1>6 DEF Steady, Running

\* A second of the wait: the one step that counts.
LEMMA ProgressCounts ==
  ASSUME IInv, Steady, SecondElapsed
  PROVE  Steady'
<1> DEFINE s == [type |-> "progress", value |-> progress + 1]
<1>1. /\ pc = "wait" /\ ~aborting /\ progress' = progress + 1 /\ Emit(s)
      /\ UNCHANGED <<tab, bar, wait_time, aborting>>
      /\ \/ run.sec < run.wait /\ run' = [run EXCEPT !.sec = @ + 1] /\ pc' = pc
         \/ ~(run.sec < run.wait) /\ pc' = "after" /\ run' = run
  BY DEF SecondElapsed, gui, shared
<1>2. Types /\ LoopsInRange /\ Running /\ SetUp
  BY <1>1 DEF IInv, Steady
<1>3. run \in RunType /\ progress \in Nat /\ signals \in Seq(Signal) /\ tab \in Tab
  BY <1>2 DEF Types, RunOK, ProgressOK, SignalsOK, GuiOK
<1>4. s \in Signal /\ s.type = "progress" /\ s.value = progress'
  BY <1>1, <1>3 DEF Signal
<1>5. s.value <= bar.max
  <2>1. progress + 1 <= AllRounds(tab) * tab.wait
    BY <1>1, <1>2, InRange DEF Running
  <2> QED
    BY <1>1, <1>2, <1>4, <2>1 DEF SetUp
<1> HIDE DEF s
<1>6. BarFollows'
  <2>1. signals' = Append(signals, s)
    BY <1>1 DEF Emit
  <2>2. Reaches(signals', bar'.value, progress')
    BY <1>1, <1>3, <1>4, <2>1, ReachesEmitted
  <2>3. \A k \in 1..Len(signals') : signals'[k] = s \/ (k \in 1..Len(signals) /\ signals'[k] = signals[k])
    BY <1>3, <1>4, <2>1
  <2> QED
    BY <1>1, <1>2, <1>5, <2>2, <2>3 DEF Running, BarFollows
<1>7. run.wait = tab.wait /\ run.sec \in 1..tab.wait /\ tab.wait \in Nat
  BY <1>1, <1>2, <1>3 DEF Running, Placed, Tab
<1>8. run'.t = run.t /\ run'.i = run.i /\ run'.wait = run.wait /\ Seconds(pc', run') = Seconds(pc, run) + 1
      /\ (pc' = "wait" => run'.sec \in 1..tab.wait)
  <2>1. CASE run.sec < run.wait /\ run' = [run EXCEPT !.sec = @ + 1] /\ pc' = pc
    <3>1. run'.sec = run.sec + 1 /\ run'.t = run.t /\ run'.i = run.i /\ run'.wait = run.wait
      BY <1>3, <2>1 DEF RunType
    <3> QED
      BY <1>1, <1>7, <2>1, <3>1 DEF Seconds
  <2>2. CASE ~(run.sec < run.wait) /\ pc' = "after" /\ run' = run
    BY <1>1, <1>7, <2>2 DEF Seconds
  <2> QED
    BY <1>1, <2>1, <2>2
<1>9. pc' \in {"wait", "after"}
  BY <1>1
<1>10. Placed'
  BY <1>1, <1>2, <1>7, <1>8, <1>9 DEF Running, Placed
<1>11. Counted'
  <2>1. Rounds(tab, pc', run') = Rounds(tab, pc, run)
    BY <1>1, <1>8, <1>9 DEF Rounds
  <2>2. Rounds(tab, pc, run) * tab.wait \in Nat
    <3>1. TransportsTo(tab, run.t) \in Nat /\ VersionsTo(tab, 4) \in Nat /\ VersionsTo(tab, run.i) \in Nat
      <4>1. run.t \in 0..2 /\ run.i \in 1..4 /\ 4 \in 1..4 /\ tab \in Tab
        BY <1>3 DEF RunType
      <4> QED
        BY <4>1, Counting
    <3>2. TransportsTo(tab, run.t) * VersionsTo(tab, 4) \in Nat
      BY <3>1, Products
    <3>3. Rounds(tab, pc, run) \in Nat
      BY <3>1, <3>2 DEF Rounds
    <3> QED
      BY <1>7, <3>3, Products
  <2>3. Seconds(pc, run) \in Nat
    BY <1>1, <1>7 DEF Seconds
  <2> QED
    BY <1>1, <1>2, <1>8, <2>1, <2>2, <2>3 DEF Running, Counted
<1>12. SetUp'
  BY <1>1, <1>2 DEF SetUp
<1> QED
  BY <1>6, <1>9, <1>10, <1>11, <1>12 DEF Steady, Running

\* A round is over: its seconds become one round more.
LEMMA ProgressReturns ==
  ASSUME IInv, Steady, DiscoverReturned
  PROVE  Steady'
<1>1. pc = "after" /\ UNCHANGED <<tab, bar, wait_time, aborting, signals, progress>>
  BY DEF DiscoverReturned, gui, shared
<1>2. Types /\ LoopsInRange /\ Running /\ SetUp
  BY <1>1 DEF IInv, Steady
<1>3. pc' = "proto" /\ run' = [run EXCEPT !.i = @ + 1]
  BY <1>1, <1>2 DEF DiscoverReturned, Running, Placed
<1>4. run \in RunType /\ tab \in Tab /\ tab.wait \in Nat
  BY <1>2 DEF Types, RunOK, GuiOK, Tab
<1>5. /\ run'.t = run.t /\ run'.i = run.i + 1 /\ run.i \in Proto /\ run.i \in tab.protos
      /\ run.wait = tab.wait
  BY <1>1, <1>2, <1>3, <1>4 DEF RunType, LoopsInRange, Running, Placed
<1>6. Placed'
  BY <1>1, <1>2, <1>3, <1>5 DEF Running, Placed
<1>7. Counted'
  <2>1. VersionsTo(tab, run'.i) = VersionsTo(tab, run.i) + 1
    BY <1>4, <1>5, Counting DEF One
  <2>2. TransportsTo(tab, run.t) \in Nat /\ VersionsTo(tab, 4) \in Nat /\ VersionsTo(tab, run.i) \in Nat
    BY <1>4, Counting DEF RunType
  <2>3. TransportsTo(tab, run.t) * VersionsTo(tab, 4) \in Nat
    BY <2>2, Products
  <2>4. Rounds(tab, pc', run') = Rounds(tab, pc, run) + 1 /\ Rounds(tab, pc, run) \in Nat
    BY <1>1, <1>3, <1>5, <2>1, <2>2, <2>3 DEF Rounds
  <2>5. Seconds(pc, run) = tab.wait /\ Seconds(pc', run') = 0
    BY <1>1, <1>3, <1>5 DEF Seconds
  <2>6. (Rounds(tab, pc, run) + 1) * tab.wait = Rounds(tab, pc, run) * tab.wait + tab.wait
        /\ (Rounds(tab, pc, run) + 1) * tab.wait \in Nat
    BY <1>4, <2>4, Products
  <2>7. progress' = (Rounds(tab, pc, run) + 1) * tab.wait
    BY <1>1, <1>2, <2>5, <2>6 DEF Running, Counted
  <2> QED
    BY <1>1, <2>4, <2>5, <2>6, <2>7 DEF Counted
<1>8. BarFollows' /\ SetUp'
  BY <1>1, <1>2 DEF Running, BarFollows, SetUp
<1> QED
  BY <1>3, <1>6, <1>7, <1>8 DEF Steady, Running

LEMMA ProgressStep == ASSUME IInv, ProgressInv, [Next]_vars PROVE ProgressInv'
<1>0. /\ Types /\ scan \in ScanType /\ progress \in Nat /\ (scan.clean => Steady) /\ NeverRan
      /\ pc \notin {"off", "start"} => usable
  BY DEF IInv, Types, ScanOK, ProgressOK, ProgressInv, NeverRan
<1>1. CASE UNCHANGED vars
  <2>1. UNCHANGED <<scan, pc, progress, usable, tab, bar, wait_time, aborting, run, signals>>
    BY <1>1 DEF vars, gui, shared, thread
  <2> QED
    BY <1>0, <2>1 DEF ProgressInv, NeverRan, Steady, SetUp, Running, Placed, Counted, BarFollows
<1>2. CASE (\E new \in Tabs : Edit(new)) \/ DiscoverNothing \/ DiscoverRefused \/ Abort \/ ProbeFails
  <2>1. ~scan'.clean
    BY <1>0, <1>2 DEF Edit, DiscoverNothing, DiscoverRefused, Abort, ProbeFails, ScanType
  <2>2. usable' = usable /\ progress' = progress /\ (pc' = pc \/ usable)
    BY <1>0, <1>2 DEF Edit, DiscoverNothing, DiscoverRefused, Abort, ProbeFails, shared, thread
  <2> QED
    BY <1>0, <2>1, <2>2 DEF ProgressInv, NeverRan
<1>3. CASE Discover
  <2>1. scan'.clean <=> pc = "off" /\ signals = <<>>
    BY <1>0, <1>3 DEF Discover, ScanType
  <2>2. usable' = usable /\ progress' = progress /\ (pc' = pc \/ pc' = "start")
    BY <1>3 DEF Discover, StartThread
  <2>3. scan'.clean => Steady'
    BY <1>0, <1>3, <2>1, ProgressSetUp
  <2> QED
    BY <1>0, <2>2, <2>3 DEF ProgressInv, NeverRan
<1>4. CASE HandleSignal
  <2>1. UNCHANGED <<scan, usable, progress, pc>>
    BY <1>4 DEF HandleSignal, shared, thread
  <2>2. scan'.clean => Steady'
    BY <1>0, <1>4, <2>1, ProgressHandled
  <2> QED
    BY <1>0, <2>1, <2>2 DEF ProgressInv, NeverRan
<1>5. CASE RunReturns
  <2>1. /\ pc = "start" /\ ~usable /\ pc' = "off"
        /\ UNCHANGED <<scan, usable, progress, tab, bar, wait_time>>
    BY <1>5 DEF RunReturns, gui, shared
  <2>2. progress' = 0 /\ 0 <= bar'.max
    BY <1>0, <2>1 DEF NeverRan, Types, GuiOK
  <2>3. scan'.clean => Steady'
    BY <1>0, <2>1, <2>2 DEF Steady, SetUp
  <2> QED
    BY <2>1, <2>2, <2>3 DEF ProgressInv, NeverRan
<1>6. CASE RunStarts
  <2>1. usable /\ usable' = usable /\ scan'.clean = scan.clean
    BY <1>0, <1>6 DEF RunStarts, shared, ScanType
  <2>2. scan'.clean => Steady'
    BY <1>0, <1>6, <2>1, ProgressBegins
  <2> QED
    BY <2>1, <2>2 DEF ProgressInv, NeverRan
<1>7. CASE NextTransport \/ SkipProto \/ TakeProto \/ CallDiscover \/ Probe \/ ProbesSent
           \/ SecondElapsed \/ DiscoverReturned
  <2>1. UNCHANGED <<scan, usable>> /\ pc \notin {"off", "start"}
    BY <1>7 DEF NextTransport, SkipProto, TakeProto, CallDiscover, Probe, ProbesSent, SecondElapsed,
       DiscoverReturned, shared
  <2>2. scan'.clean => Steady'
    BY <1>0, <1>7, <2>1, ProgressLoops, ProgressProbes, ProgressCounts, ProgressReturns
  <2> QED
    BY <1>0, <2>1, <2>2 DEF ProgressInv, NeverRan
<1>8. ASSUME NEW x \in net, Receive(x) PROVE ProgressInv'
  <2> DEFINE s == [type |-> "agent", agent |-> x.agent, proto |-> run.i, n |-> scan.n]
  <2>1. pc = "wait" /\ UNCHANGED <<tab, bar, wait_time, aborting, usable, run, progress>>
    BY <1>8 DEF Receive, gui, shared
  <2>2. scan'.clean = scan.clean
    BY <1>0, <1>8 DEF Receive, ScanType
  <2>3. ASSUME scan.clean PROVE Steady'
    <3>1. Steady /\ Placed
      BY <1>0, <2>1, <2>3 DEF Steady, Running
    <3>2. pc' = pc
      BY <1>8, <2>1, <3>1 DEF Receive, Placed
    <3>3. x.agent \in Agent /\ run.i \in Proto /\ scan.n \in Nat
      BY <1>0, <1>8, <2>1 DEF IInv, LoopsInRange, Types, NetOK, ScanType
    <3>4. s \in Signal /\ s.type # "progress" /\ Emit(s)
      BY <1>8, <3>3 DEF Signal, Receive
    <3> HIDE DEF s
    <3>5. Placed'
      BY <2>1, <3>1, <3>2 DEF Placed
    <3> QED
      BY <1>0, <2>1, <3>1, <3>2, <3>4, <3>5, ProgressSignals
  <2> QED
    BY <1>0, <2>1, <2>2, <2>3 DEF ProgressInv, NeverRan
<1>9. CASE WaitAborted
  <2>1. pc = "wait" /\ aborting /\ UNCHANGED <<scan, usable>>
    BY <1>9 DEF WaitAborted, shared
  <2>2. ~scan.clean
    BY <1>0, <2>1 DEF Steady, Running, Placed
  <2> QED
    BY <1>0, <2>1, <2>2 DEF ProgressInv, NeverRan
<1>10. CASE DiscoverEnd
  <2> DEFINE s == [type |-> "startStop", start |-> FALSE]
  <2>1. /\ pc = "end" \/ (pc = "transport" /\ run.t = 2)
        /\ pc' = "ending" /\ Emit(s)
        /\ UNCHANGED <<scan, usable, tab, bar, wait_time, aborting, run, progress>>
    BY <1>10 DEF DiscoverEnd, gui, shared
  <2>2. s \in Signal /\ s.type # "progress"
    BY DEF Signal
  <2> HIDE DEF s
  <2>3. ASSUME scan.clean PROVE Steady'
    <3>1. Steady /\ Placed
      BY <1>0, <2>1, <2>3 DEF Steady, Running
    <3>2. pc = "transport" /\ run.t = 2
      BY <2>1, <3>1 DEF Placed
    <3>3. Placed'
      BY <2>1, <3>2 DEF Placed
    <3>4. Rounds(tab, pc', run') = Rounds(tab, pc, run) /\ Seconds(pc', run') = Seconds(pc, run)
      BY <2>1, <3>2 DEF Rounds, Seconds
    <3> QED
      BY <1>0, <2>1, <2>2, <3>1, <3>2, <3>3, <3>4, ProgressSignals
  <2> QED
    BY <1>0, <2>1, <2>3 DEF ProgressInv, NeverRan
<1>11. CASE ThreadEnds
  <2>1. /\ pc = "ending" /\ pc' = "off"
        /\ UNCHANGED <<scan, usable, tab, bar, wait_time, progress>>
    BY <1>11 DEF ThreadEnds, gui, shared
  <2>2. ASSUME scan.clean PROVE Steady'
    <3>1. Steady /\ SetUp /\ Placed /\ Counted
      BY <1>0, <2>1, <2>2 DEF Steady, Running
    <3>2. progress <= AllRounds(tab) * tab.wait
      BY <2>1, <3>1, InRange DEF IInv
    <3> QED
      BY <2>1, <3>1, <3>2 DEF Steady, SetUp
  <2> QED
    BY <1>0, <2>1, <2>2 DEF ProgressInv, NeverRan
<1> QED
  BY <1>1, <1>2, <1>3, <1>4, <1>5, <1>6, <1>7, <1>8, <1>9, <1>10, <1>11 DEF Next, User, Thread

\* An undisturbed scan fills its progress bar exactly: the seconds the loops of
\* run and discover count add up to the maximum that Discover computed.
THEOREM ProgressCorrect == Spec => []ProgressFits
<1>1. Init => ProgressInv
  BY ProgressStart
<1>2. IInv /\ ProgressInv /\ [Next]_vars => ProgressInv'
  BY ProgressStep
<1>3. IInv /\ ProgressInv => ProgressFits
  <2> SUFFICES ASSUME IInv, ProgressInv, scan.clean PROVE /\ progress <= bar.max \/ pc = "start"
                                                          /\ pc = "ending" => progress = bar.max
                                                          /\ pc = "ending" /\ signals = <<>> => bar.value = bar.max
    BY DEF ProgressFits
  <2>1. Steady /\ Types /\ LoopsInRange
    BY DEF ProgressInv, IInv
  <2>2. CASE pc \in {"off", "start"}
    BY <2>1, <2>2 DEF Steady
  <2>3. CASE pc \notin {"off", "start"}
    <3>1. SetUp /\ Placed /\ Counted /\ BarFollows
      BY <2>1, <2>3 DEF Steady, Running
    <3>2. progress <= bar.max /\ (pc = "ending" => progress = bar.max)
      BY <2>1, <2>3, <3>1, InRange DEF SetUp
    <3>3. signals = <<>> => bar.value = progress
      <4>1. signals = <<>> => Len(signals) = 0
        OBVIOUS
      <4> QED
        BY <3>1, <4>1 DEF BarFollows, Reaches
    <3> QED
      BY <3>2, <3>3
  <2> QED
    BY <2>2, <2>3
<1> QED
  BY <1>1, <1>2, <1>3, Invariance, PTL DEF Spec
=============================================================================
