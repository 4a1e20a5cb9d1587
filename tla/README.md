# A TLA+ model of SnmpB

SnmpB is a graphical SNMP browser: the user walks, reads and sets objects of
SNMP agents, browses MIB modules, receives traps and discovers agents on the
network. This directory holds TLA+ modules for the parts of it that carry its
protocol logic, TLC configurations that check them on small instances, and
TLAPS proofs of what matters most. All paths below are relative to the
repository's root, `src/`.

## 1. The system

| Part | State | Operations | Interacts with |
|---|---|---|---|
| Request engine: `snmp++/src/uxsnmp.cpp`, `msgqueue.cpp`, `eventlistholder.cpp` (a locally modified SNMP++) | queue of outstanding messages, `current_rid` | issue a request (asynchronous or blocking), poll, resend, time out, call back | `Agent` polls it from a Qt timer; the network |
| Agent session: `app/agent.cpp` (with the menu guards of `mibview.cpp`) | `theoid`, `stop`, `requests`, `objects`, `msg`, `timer`; `walkinprogress` and the Stop action | Walk, Get, Get-next, Get-bulk, Set, Table view, instance selection, Stop; the callbacks | request engine; automatic loading; the Query window |
| MIB modules: `app/mibmodule.cpp` | `Wanted`, `Total`, `Loaded`, `Unloaded`, `Policy` | load, unload, refresh, `LoadBestModule` | called from the callbacks; stops the timer; modal dialogs |
| Discovery: `app/discovery.cpp` | tab widgets; `num_addresses`, `wait_time`, `aborting`; output, progress bar | Discover, Abort; a thread that probes, waits and signals | GUI thread and `DiscoveryThread` share members; queued signals |
| Traps and informs: `app/agent.cpp`, `trap.cpp`, `snmp++/src/notifyqueue.cpp` | one socket per transport, `notify_callback_fd`, the trap log | register, receive, list, answer informs | request engine's event loop; agents that resend |
| Startup: `app/main.cpp`, `snmpb.cpp`, `Agent::Agent`, `Agent::Init` | transports, engine boots | transport fallback, boot counter, dropping root | preferences; everything |
| Preferences: `app/preferences.cpp` | the settings file, the members, the dialog's path list | edit, OK, Cancel, reset, `Save` | MIB modules (`Save` calls `Refresh`); called by them to save |
| Agent profiles: `app/agentprofile.cpp`, and the choice in `app/agent.cpp` | list of profiles, ONE set of editing widgets, `currentprofile`; the main window's profile and protocol | select, edit, add, delete, OK, Cancel, the `Add` of a discovery | `Agent::Setup`; user names of the USM profiles; `agents.conf` |
| USM profiles: `app/usmprofile.cpp` | list of users | add, edit, delete, OK, Cancel | the USM tables, agent profiles |
| Graphs, log, MIB tree, editor | widgets | formatting, drawing, files | - |

What is hard about it:

* **One thread, many operations.** Nothing in the session runs concurrently,
  but several requests may be outstanding and all operations share the same
  members of `Agent`. An operation started between a request and its answer
  changes what the answer's callback finds. A blocking call (table view,
  instance selection) polls the session for everybody, so other requests'
  callbacks run in the middle of it.
* **Nested event loops.** A callback may open a modal dialog (automatic MIB
  loading), in whose event loop the polling timer may fire while the thread
  already holds `pevents_mutex`.
* **UDP.** Requests and answers are lost, duplicated, delayed and reordered;
  requests are resent; SNMPv3 agents answer with reports, after which the
  engine silently sends again under a new request id; ids wrap around.
* **Two threads without a lock** in a discovery: plain members and widgets
  are read while the other thread writes them.
* **Words that wrap** in the arithmetic of discovery ranges.
* **Slots that write.** Setting a widget from the program runs the same slot as
  a click. With one set of widgets for all profiles, showing a profile may write
  to the one shown before.
* **The same data in several places**: the settings file, the members of
  `Preferences`, the dialog and libsmi each hold a version, copied in both
  directions by slots, by the modules tab and in the middle of a walk.

What makes each part correct: every request is answered once, by its own
answer (engine); a walk shows its subtree exactly, ends, can be stopped and
leaves the timer, the loading policy and the Stop action as it found them
(session); the loading question never blocks the thread (MIB loading); only
the addresses asked for are probed, and all of them (range); the output and
the progress bar reflect the scan, Abort ends it and the button comes back
(discovery); what the sockets received is in the log, and an inform is answered
where it came from and only once it is listed (traps); showing a profile changes
none, and changing the list keeps the user's choice (profiles); the module lists
follow the settings, a module loaded stays loaded and a transport stays on
(settings). `PROJECT.json` lists the hazards one by one, each at its line.

## 2. Modules

| Module | Models | Lines it comes from |
|---|---|---|
| `RequestService` | abstract: what the session promises its users | - |
| `MsgQueue` | request engine | `Snmp::snmp_engine`, `v3CallBack`, `MyMakeReqId`; `CSNMPMessage`, `CSNMPMessageQueue`; `SNMPProcessPendingEvents`, `SNMPBlockForResponse` |
| `MsgQueueProofs` | proofs about it | - |
| `AgentSession` | agent session and automatic loading | `Agent::WalkFrom` ... `GetFromSelectInstance`, `AsyncCallback`, `AsyncCallbackSet`; `MibModule::LoadBestModule`, `Refresh` |
| `AgentSessionProofs`, `AgentWalkProofs` | proofs about it; the second is `WalkExact` | - |
| `AddressRange` | address arithmetic of a discovery | `Discovery::Discover`, the loop of `DiscoverySnmp::discover` |
| `AddressRangeProofs` | proofs about it | - |
| `Discovery` | discovery tab and thread | `Discovery`, `DiscoveryThread::run`, `DiscoverySnmp::discover` |
| `DiscoveryProofs` | proofs about it | - |
| `NotificationLog` | abstract: what SnmpB promises the senders of notifications | - |
| `Notifications` | traps and informs | `CNotifyEventQueue`, `receive_snmp_notification`, `Agent::AsyncCallbackTrap` |
| `NotificationsProofs` | proofs about it | - |
| `AgentProfiles` | agent profiles, the user list, the main window's choice | `AgentProfileManager`, `AgentProfile`; `Agent::AgentProfileListChange`, `SelectAgentProfile` |
| `AgentProfilesProofs` | proofs about it | - |
| `Settings` | settings file, preferences, MIB modules tab, start | `Preferences`, `MibModule`, `Agent::Agent`, `Snmpb::BindToGUI` |
| `SettingsProofs` | proofs about it | - |
| `MC...` | values for the constants | - |

`MsgQueue` is shown to implement `RequestService`, and `AgentSession` relies on
just that: a request in `out` is answered once (`Timeout`, `GoodResponse`,
`ErrorResponse` take it out of the set), in any order. `Notifications` is shown
to implement `NotificationLog`, and `AgentProfiles!AddFound` is what
`Discovery`'s `DisplayAgent` triggers. `Settings` and `AgentSession` share
`LoadBestModule`: the first has what it does to the settings and the lists, the
second when it runs and what its dialogs let happen. The `Mutant` operators
beside a definition are variants of it that contain a plausible bug; they are
used in no specification and serve to confirm that the properties notice.

### MsgQueue

`queue` maps a request id to a message (`CSNMPMessage`: request, callback
pointer, PDU type, received, locked, reports received, retries left, time
until it is due). `pc` says where the GUI thread is: `idle` (Qt's event loop, or a
blocking call between two polls), `select` (reading sockets in
`SNMPProcessPendingEvents`), `callback` (a user callback runs, which may issue
further asynchronous requests) or `retries` (`DoRetries`). `blocked` is the id
`SNMPBlockForResponse` waits for. A callback is two steps, its start and
`CallbackReturns`, because requests can be issued in between.

* `net` only grows: an answer of any kind to a datagram may arrive at any time,
  repeatedly, or never. This covers loss, delay, reordering and duplication.
* The kinds of answer are the two USM reports the code reacts to, any other
  report, a response and a PDU of a wrong type. `match_type` accepts one answer
  per message, since `SetPdu` overwrites the request PDU with it.
* A datagram that cannot be decoded or decrypted carries no request id and leaves
  the queue as it is: it counts as lost. The return of a blocking call on a report
  with `SNMPv3_USM_DECRYPTION_ERROR` (`uxsnmp.cpp:1921`) leaves the queue like the
  return after any other report (`SyncReturns`), and has no kind of its own.
* Time is relative: `ttl` is the time left until `m_sendTime`, `lag` the time since the
  `now.refresh()` that `DoRetries` works with. `MaxLate` bounds how late
  polling may be.
* Sends may fail at each place the code sends: on issue, on the resend after a
  report (asynchronous and blocking) and in `DoRetries`.
* The build modelled is the one with `select`, `_SNMPv3` and threads enabled
  (so that `pevents_mutex` is a real, non-recursive mutex).

### AgentSession

`cb` holds the locals of the running callback (PDU, loop index `z`, the step the
varbind is at), `pc` whether the thread is idle, in the callback's loop, in the
loading question, in an error box, or stuck. The callback's loop is a sequence
of small steps only because `LoadBestModule` may open a dialog in it; outside a
dialog nothing interleaves with them.

* `msg` and `query` hold the objects (OIDs) that were formatted, not the text.
* Whether libsmi resolves a name, whether a value is an OID and whether a node
  is known are nondeterministic. Each MIB module has one root and, as its file
  is there, loads.
* `walking` stands for `walkinprogress` and the Stop action, which the code
  always changes together.
* A `Setup` that fails changes nothing and is left out. `GetFromPromptInstance`
  is a dialog at the top level followed by `Get`; the early returns of
  `TableViewFrom` are covered by `TableViewEnds` at once.
* The nodes of the tree are object types and their parents, never instances
  (`TreeAssumption`): an instance has its object type's OID and an index after it.
* The agent answers GETBULK in order, with any number of varbinds up to
  `MaxRep`, and with errors (`ErrorAnswers`, bounded by `MaxFaults`). An agent
  whose answers do not increase is left out; a walk of it need not end.
* `walk` and `report` are history: the root of the last walk, whether another
  operation `disturbed` it, whether Stop was chosen, whether an error answer
  came and whether it could be sent at all.

### AddressRange

An address is two words; an IPv4 address uses only the low one. `Word4` and
`Word6` are the numbers of values of a word, so subtraction, `~` and `++` wrap
as in the code. `Low4` and `Low6` are the first addresses whose first byte is
not 0.

### Discovery

The GUI thread (`User`, `HandleSignal`) and `DiscoveryThread` (`Thread`)
interleave at every read or write of what they share: the widgets, read at each
transport and version; `num_addresses` and `wait_time`, read when `discover` is
called; `aborting`. Signals are a FIFO queue, as Qt's queued connections are.
`pc = "ending"` is the time between the last signal and the end of the thread,
when `start()` is still a no-op.

* A probe reaches any subset of the agents it can reach; an answer is read once.
  Answers stay in `net` until they are read, also by a later round. That a
  socket belongs to one transport is modelled by `Side`.
* `usable` stands for the two early returns of `run` (the session could not be
  opened, the profile does not exist).
* `Discover` is one step. In the code it sets `num_addresses` to 0 and fills it in
  further down, so a thread of an earlier click that reads it in between gets 0 and
  probes nothing in that round; the model has that only when the click is refused.
  The properties that count probes are about scans that no second click disturbs.
* `scan` is history: its number, what the thread received since the output was
  cleared, whether Discover was clicked before an earlier scan's signals were
  delivered (`early`), whether anything disturbed it (`clean`) and whether Abort
  fell into a round (`halted`).

### Notifications

`sock` holds what the receive buffer of each socket has, `flight` and `answers`
what is on its way to SnmpB and back. `Thread` is the loop of
`SNMPProcessPendingEvents` restricted to the notification sockets: `select`, then
`HandleEvents`, which reads ONE datagram, from the IPv4 socket if that has one,
until `select` finds nothing. `Register` is `AddEntry` with its `cleanup`.

* Agents send a trap once and an inform until it is answered. A datagram that is
  never taken out of `flight` or `answers` is lost; `Arrive` may leave it there,
  which is duplication; any order is possible. A full buffer drops.
* What a datagram is decides its path: traps and informs are listed, a message
  that cannot be decoded never reaches the callback, one with an error status
  makes it return at once. SnmpB registers without filters.
* `List` is the whole of `AsyncCallbackTrap`: the row is added before the
  response is sent, which is why an acknowledged inform is in the log.
* `arrived` is history.

### AgentProfiles

The protocol boxes are the module's core. `Check` is `setCheckState` with the slot
that it runs: the slot records the protocol in `currentprofile`, shows or hides
sub-pages of the tree, or refuses and checks the box again, which runs the slot
once more. `ApplySupportedProtocol` is its six steps in the code's order, each of which
reads the flag of the profile after the previous one's slots have run.

* Of a profile's fields the model keeps those that are written in more than one
  way: protocols, visible sub-pages, name, USM user. The others have one slot.
* `Add` and `AddFound` set the protocols of the new profile while another one is
  current, and so change that one. The model does as the code.
* Cancel undoes nothing, as in the code: the edits stay in memory, unsaved.
* `Restart` may happen at any time; `agents.conf`, the stored users and the saved
  choice remain. The two profiles made when no file exists are left out: the
  first start has a file (`Stored`).

### Settings

`file` is the settings file, `mem` the members of `Preferences`, `pathList` the
dialog's list of directories. `Save` copies the last two to the file and calls
`Refresh`, which copies the file to libsmi and rebuilds the lists. `Save` is part of
`AddModule`, `RemoveModule`, `LoadBestModule` and `Accept`, as in the code.

* Each file holds one module and loads if it is found; a module may be wanted by
  a name other than its file's (`Alias`). Directories and modules are sets:
  their order decides only which of two equal files is found.
* `Start(can)` gets a socket for the transports in `can`; `StartFails` is
  `BindToGUI` removing the settings. `Stop` is an end or a kill: only the file remains.
* `LoadBestModule` runs while the dialog is up too, as a walk's answers do not
  wait for it; the tab's buttons do not, as the dialog is modal.
* `unticked` is history: what the user switched off in the dialog.

## 3. Runs

| Run | Checks | Bounds |
|---|---|---|
| `msgqueue` | `TypeOK`, `EngineInv`, `OneCallbackOwner`, `NoLeftOvers`, `BoundedReports`, `OwnAnswer`, refinement `ServiceSpec` | one asynchronous and one blocking request, both SNMPv3, one retry, one tick of timeout and lateness, six ids: as many as the two can use, so ids are not reused |
| `msgqueue_wrap` | `OneCallbackOwner`, `EveryRequestEnds` under `FairSpec` | one asynchronous and one blocking SNMPv3 request, three ids: they wrap, are skipped when in use and reused while old datagrams still arrive |
| `agent_overlap` | `TypeOK`, `TimerRuns`, `PolicyForgotten`, `StopEnabled`, `SessionInv`, `WalkExact` | two operations of any kind, one fault, one module, three instances in two subtrees, answers of 1 or 2 varbinds, error boxes possible |
| `agent_walk` | `NeverStuck`, `WalkEnds` under `FairSpec` | two operations, no fault, two modules of which one covers the other, no error boxes |
| `address_range` | `ProbesInside`, `WholeRange` | every pair of addresses of 8 (IPv4) and 4 x 4 (IPv6) |
| `discovery` | `TypeOK`, `OutputIsScan`, `ProgressFits`, `AbortEndsRound` | two clicks, one edit, one failing send, one agent per transport, four settings of the tab |
| `discovery_live` | `ScanEnds` under `FairSpec` | two clicks, no edit |
| `agent_profiles` | `TypeOK`, `PageShowsProfile`, `SelectKeeps`, `UserKept`, `ChoiceKept` | one stored profile or two with different protocols, at most three, two users, two edits or choices; turning pages, opening, closing and restarting are not bounded |
| `notifications` | `TypeOK`, `DisabledIsClosed`, `LogIsWhatCame`, `AnswerOnItsSocket`, refinement `PromiseSpec`, `BothDrained` under `FairSpec` | an inform per transport, a trap, a message with an error; two sends of an inform, two datagrams per socket, one duplicate or failing read |
| `settings` | `TypeOK`, `AnyOn`, `ListsAgree`, `PathsSettled`, `LoadTakes` | two directories and one that does not exist, three files of which two import the third, one alias; no bound on the steps |

The bounds are the smallest at which the interesting cases meet: a request that
is reported on, resent and timed out while another one is being called back; two
operations, one after the other or overlapping; an answer that ends inside, at the
end of and beyond the subtree; a second scan started while the first one's
thread or signals are still there. `FlushEvery` is 2 instead of 10, so that
the buffer is both filled and emptied within one walk. Three profiles are the
fewest at which the one added, the one current and the one selected differ; in
`settings` the state space is finite without a bound.

**Deadlock** is checked except in `agent_overlap` (the thread that an error box
of `Refresh` gets stuck is a real one, see below), `address_range` and the discovery
runs (a discovery stops when it is over and the bounds are used up).

Two runs show where the code does not do what its own text says:

* `agent_stop`: *StopIsFinal*. `stop` is reset by any operation started later, so
  a walk that was stopped goes on (`app/agent.cpp:1288`).
* `settings_run_only`: *RunOnly*. A transport that fails at one start is switched off
  "for the current run only" (`app/agent.cpp:109`, `125`), but in the member that
  the next `Save` stores (`app/preferences.cpp:190`).

The models also follow the code where a reader may not expect it; the properties
are stated so that they hold there, and say what they leave out:

* An error box of `Refresh` opened inside a callback lets the timer fire and lock
  `pevents_mutex`, which the thread holds (`app/mibmodule.cpp:550`; state `stuck` of
  `AgentSession`, reachable with `RefreshMayFail`).
* A timeout or a failing send of a walk replaces the buffered objects by its
  message (`app/agent.cpp:837`).
* An IPv6 range across a high half loses its last address, and a whole half counts
  as none (`app/discovery.cpp:734`; `WholeRange` leaves both out).
* An answer that comes in a later round is listed under that round's version
  (`app/discovery.cpp:415`).
* Adding a profile writes its protocols to the current one
  (`app/agentprofile.cpp:327`). The sub-pages of a protocol gained this way may stay
  hidden: the slot of a box leaves v1v2c and bulk alone while another box that shows
  them is checked (`app/agentprofile.cpp:484-553`), although that box may have been set
  for another profile. With profiles of V2 and of V3, turning from the first one's
  general page to the second one's SnmpV3 page, then New, leaves the second with V1 and
  V3 but only SnmpV3 in the tree, also when its general page is visited again; a
  click on a box or a restart shows the others. The run reaches this state.
  `PageShowsProfile` claims that no sub-page is shown without need, and the converse
  for SnmpV3 only; `SelectKeeps` that turning to a page hides none that is needed.
* Loading a module automatically while the preferences dialog is up stores the
  dialog's edits, which Cancel then does not undo (`app/preferences.cpp:196`;
  `LoadTakes` requires an unedited path list). OK after "Reset to default" stores
  the list as it was before (`preferences.cpp:288`).
* `Preferences::Execute` compares with keys that are never written
  (`preferences.cpp:168`), so its restart notice depends on the defaults instead
  of the stored values. It changes no state and is not in the model.

### Fairness

* `MsgQueue!FairSpec`: the thread keeps stepping (Agent's timer is periodic and
  callbacks return) and time passes. Nothing is assumed of the network.
* `AgentSession!FairSpec`: the callback's loop runs on, the session answers every
  outstanding request (that is `EveryRequestEnds`, together with `TimerRuns`),
  and the user answers dialogs. The user need not start anything.
* `Notifications!FairSpec`: the thread keeps stepping, as Agent's timer is periodic.
  Nothing is assumed of agents and network, whose datagrams the bounds make
  finitely many: `BothDrained` is about streams that end.
* `Discovery!FairSpec`: both threads are scheduled, signals are delivered, and
  `select` returns when its time is up.

## 4. Proofs

The theorems hold for all values of the constants that satisfy the assumptions
named in the modules (`RequestsAssumption`, `NumbersAssumption`,
`AgentAssumption`, `TreeAssumption`, `BoundsAssumption`, `WordAssumption`,
`NotifAssumption`, `FilesAssumption`, `DiscoveryAssumption`, `NamesAssumption`,
`StoredAssumption`), any number of requests, ids,
overlapping operations, notifications, profiles, files and words of any size included.

**MsgQueueProofs.** `OneCallbackOwner` alone is not inductive: that a callback
step keeps it needs that a message holding a callback was neither answered nor
locked, that every other queued message is the one being called back or the one
a blocking call waits for, and that nobody was told anything before asking. That is
`EngineInv`; `IInv` is its conjunction with `TypeOK` and `OneCallbackOwner`. Each
action is a lemma; `Invariance` puts them together. From `IInv` follow
`CallbackOwner`, `QueueIsClean` (`NoLeftOvers`) and `Implements`: every step of
the engine is a step of `RequestService` or leaves `issued` and `told` alone. The
crux is that an answer or a timeout makes a callback only for a message that
still owns one, whose request is then pending. `ReportsBounded` needs another
invariant, `AttemptsInv`: the message of a request carries the number of reports
received and retries left, which together bound how often the request was sent,
through every change of its id.

`OwnAnswer` is about ids that go round (1000 to 32767 in the code). `Ahead(id)` is how far
`MyMakeReqId` has to count to take `id` again. The invariant `FreshInv` says that every
datagram on the way and every queued message carries an id taken by one of the
last sends (`Recent`), so that the next id is neither queued nor on the way
until as many sends were made as there are ids; then a datagram with the id of a
queued message is the answer to that message's request. `AnswersAreOwn` states it for
as long as the ids last. `AnswersStayOwn` adds `AttemptsInv`, that a request is sent at most
once, and an SNMPv3 request three times, each time under a new id: the ids last if there are
as many as that makes. Beyond that the code does accept a datagram that is a whole turn old.

**AgentSessionProofs.** `SessionInv` is inductive with `TypeOK`. It says that a
running callback has varbinds and a kind, that the callback of a set never loads
modules (so the question, which changes the policy and the timer, belongs to a
query that will reset them), that a policy other than the default belongs to a
query under way, and that an undisturbed walk is alone. `PolicyIsForgotten` and
`StopIsEnabled` follow from it. `TimerAlwaysRuns` needs only that every path out
of a callback starts the timer. `StopIsObeyed` is the part of `StopIsFinal` that
holds: only another operation resets `stop`, and it disturbs the walk. `PromptNeverSticks` assumes
`~RefreshMayFail` and shows that the timer is off whenever the question is open;
without it the thread does get stuck.

**AgentWalkProofs.** `WalkCorrect` has two parts. The first is about the order of OIDs:
it is transitive, what starts with a node's OID comes after it and so does all
that lies between (`BetweenIsBelow`), so the instances below a node follow each
other in the agent's MIB; `UpTo` is where they begin and `Count` how many there are
(`SubtreeFacts`), and a request for what follows the n-th of them is answered from the
next one on (`UpToInstance`, `BulkFacts`). The second is the invariant `WalkInv` of an
undisturbed walk. Between two answers, what was displayed and buffered is the first
n instances and the request asks for what follows the n-th; inside an answer the
varbinds before the loop's index were taken and the others go on with instance n + 1
(`LoopInStep`), so the loop ends exactly when n is `Count` (`CurrentVarbind`), and the
last varbind is the seed of the next get_bulk. Loading a module sends a varbind
back to an earlier step of the loop but never past the counting, which is why
`objects` is right. `SessionInv` supplies that an undisturbed walk is alone;
`WalkInv` was checked by TLC on `agent_overlap` before it was proved.

**AddressRangeProofs.** The invariant says that what was probed is the first `j`
addresses after From, `At(0)` to `At(j - 1)`, and that the next one is at hand as long
as one is left. `CountV4Exact` and `CountV6Facts` do the modular arithmetic: the
count of an accepted range is exact or too small, never too large, and the test
on the first byte is what excludes ranges that wrap around. `AtFacts` is
the step: the next address lies in the range, is what incrementing gives, and is
new. `OnlyTheRange` and `AllOfTheRange` follow for words of any size.

**DiscoveryProofs.** Types, for which signals in the queue must have the right
shape, and `AbortIsObeyed`: once an Abort fell into a round, the thread is past
the loops or `aborting` is still set, because only the start of a round resets it.
`OutputCorrect` says where what the thread received may be: in a row or announced by a queued
signal, and nothing else is, unless Discover was clicked before an earlier
scan's signals were delivered. `ProgressCorrect` counts: `Rounds` is the number of rounds
completed, as a function of the thread's place and loop variables, so that
`progress` is `Rounds` times the wait time and the seconds of the round under way. At the end
that is Discover's maximum. The bar itself is where the last queued signal will put it
(`Reaches`).

**NotificationsProofs.** A datagram stays on the side it was sent to until its
response has left, what is being answered was listed, and the counter is one
ahead of the log. From that follow `AnswerSide`, `NoGap` and `KeepsPromise`,
the refinement of `NotificationLog`: reading a datagram is a `List` of the abstract
specification, the arrival of a response an `Acknowledge`, all else a stutter.
`AllOrNoSocket` is about `AddEntry` failing half-way. For `LogCorrect` the k-th row of a
socket is compared with the k-th listed notification read from it: `LogInv` says that what is
unread is the end of what came, and that the rows of a socket and the notifications
read from it match rank by rank. Both sets grow by their largest element, which has the
highest rank and changes no other (`RankOfLargest`).

**AgentProfilesProofs.** The core is a lemma about `ApplySupportedProtocol` for
the current profile, from any state of the boxes. `Settled(w, p, k)` says where boxes and
profile are after the first `k` of the unsupported protocols: every protocol of the
profile is checked, a box up to `k` is checked only for a protocol of the profile,
a sub-page shown has a protocol of the profile or one beyond `k`, and the one of SnmpV3,
which no other box shows, is there if it is needed. The three steps for supported
protocols lead to `Settled(w, p, 0)` and change no profile (`SupportedStep`); each
of the others leads from `k - 1` to `k` (`UnsupportedStep`) and changes
the profile only if it has no protocol and its box is the last; `Settled(w, p, 3)` is
what `PageShowsProfile` says. In the other order the boxes run empty on
the way and the slot's refusal writes a protocol to the profile. That no needed
sub-page is lost (`Keeps`, `TouchedNeeded`) follows from the same order: when a step hides what
only its box shows, the boxes of all supported protocols are checked already.
`ApplyOther` is the same question for the profile on the page while the protocols of a
new one are set: it does change, but page and profile change alike. The invariant
adds that the combobox offers `users` while the dialog is up, which `UserKept`
needs. Each action is a lemma that also proves the three action properties.
That `Loaded`'s recursive function exists is proved from the well-ordering of `Nat`.

**SettingsProofs.** `TypeOK`, `AnyOn`, `ListsAgree` and `PathsSettled` are inductive
only together: `Refresh` rescans only when the path moved, so `Total` is right after it
only if it was right before; `Save` stores the transports, so the file's depend on
the members'. `RefreshAgrees` and `SaveKeeps` carry every caller of `Save`.
`LoadedOnce` is the action property `LoadTakes`.

**Only model-checked:** the liveness properties (`EveryRequestEnds`, `WalkEnds`,
`ScanEnds`, `BothDrained`), as TLAPS 1.4.5 does no reasoning about fairness. Every
invariant and action property of the passing runs is a theorem, with two conditions: `NeverStuck`
where no error box can open, and `OwnAnswer` where the ids do not go round, as in the
runs that check them.

No proof is an induction over data, which TLAPS cannot do here: `Subtree`,
`LogIsWhatCame` and the positions of instances are stated with ranks and
cardinalities of finite sets (`Nth`, `Rank`, `UpTo`) instead of recursion or filtering.

## 5. Not modelled

Most of the repository's lines are vendored libraries: libsmi's generated
scanners and parsers, libtomcrypt, qwt, and SNMP++'s encodings and USM. They are
used as libraries, hold no logic of SnmpB and are left out, except for the parts of
SNMP++ above, which SnmpB has modified and whose event loop it shares. Also left out: cancelling
requests and sending notifications (SnmpB does neither); the text shown for
values; graphs (their polling is compiled out), the log, MIB tree and editor, which
are widgets around plain data; the varbind list's dialog; the keys and tables
of the USM profiles; the SNMPv3 boot counter and dropping root, which are single calls
at the start; the deletion of rows in the trap tab; trap ports and display options
in the preferences.

## 6. Plan

Done: `MsgQueue`, `AgentSession`, `AddressRange`, `Discovery`, `Notifications`,
`AgentProfiles`, `Settings`, each with proofs. What may follow:

1. `UsmProfiles`: the rebuilding of the USM tables from the list of users, while
   requests with their users are outstanding.
2. Composition: `AgentSession` over `RequestService`'s state, so that the answers
   come from the engine's promise by refinement rather than by convention.
3. The varbind list.

## 7. Running

    tlc -config MCMsgQueue.cfg MCMsgQueue      # and likewise for the other .cfg files
    tlapm MsgQueueProofs.tla                   # and the other ...Proofs modules
