---------------------------- MODULE Notifications ----------------------------
(***************************************************************************)
(* Traps and informs: the notification sockets (CNotifyEventQueue), the    *)
(* loop of SNMPProcessPendingEvents that reads them, and Agent's callback, *)
(* which lists each notification in the trap log and answers informs.      *)
(* Agents send, and resend an inform that is not answered; the network     *)
(* loses, delays and reorders datagrams both ways and repeats              *)
(* notifications.                                                          *)
(***************************************************************************)
EXTENDS Integers, Sequences, FiniteSets

CONSTANTS
  Notif,      \* the notifications
  Kind,       \* [Notif -> KindSet]: what each one is
  Side,       \* [Notif -> Family]: the address family it is sent over
  Buffer,     \* receive buffer of a socket, in datagrams
  MaxSends,   \* bound: times an agent sends one notification
  MaxFaults   \* bound: duplicated datagrams and failing reads

\* What a datagram turns out to be: the last two are not listed (one is not
\* a message SNMP++ can decode, the other has an error status).
KindSet == {"trap", "inform", "garbage", "error"}
Family == {4, 6}

ASSUME NotifAssumption ==
  /\ Kind \in [Notif -> KindSet]
  /\ Side \in [Notif -> Family]
  /\ Buffer \in Nat \ {0} /\ MaxSends \in Nat /\ MaxFaults \in Nat

VARIABLES
  listens,      \* the families the session has a listen address for
  bound,        \* the families whose notification socket is open
  warned,       \* start_err holds "Trap reception disabled."
  pc,           \* where the GUI thread is
  sock,         \* [Family -> Seq], datagrams a socket has received
  callback_fd,  \* Snmp::notify_callback_fd, as a family; 0 before the first
  nbr,          \* AsyncCallbackTrap's row counter
  log,          \* the rows of the trap log
  flight,       \* datagrams in the network
  answers,      \* responses to informs in the network
  sends,        \* [Notif -> Nat], times each was sent
  acked,        \* the informs whose senders got a response
  arrived,      \* history: [Family -> Seq], all that a socket received
  faults        \* counts duplicates and failing reads

app == <<listens, bound, warned, pc, callback_fd, nbr, log>>
vars == <<app, sock, flight, answers, sends, acked, arrived, faults>>
-----------------------------------------------------------------------------
Listed(n) == Kind[n] \in {"trap", "inform"}

(***************************************************************************)
(* Agent's constructor registers for notifications: AddEntry opens the     *)
(* IPv4 socket, then the IPv6 one, and on any failure closes what it       *)
(* opened.  SnmpB then runs on without notifications.                      *)
(***************************************************************************)
\* Mutant of Cleanup: only the IPv4 socket is closed.
CleanupFirst(fds) == fds \ {4}

Cleanup(fds) == (fds \ {4}) \ {6}

Register ==
  /\ pc = "start"
  /\ pc' = "idle"
  /\ \/ bound' = listens /\ warned' = FALSE
     \/ \E f \in listens : /\ bound' = Cleanup({g \in listens : g <= f})
                           /\ warned' = TRUE
  /\ UNCHANGED <<listens, callback_fd, nbr, log, sock, flight, answers, sends,
                 acked, arrived, faults>>
-----------------------------------------------------------------------------
(***************************************************************************)
(* The agents and the network.  A datagram or a response that is never     *)
(* taken out of `flight' or `answers' is lost.                             *)
(***************************************************************************)
\* A trap is sent once, an inform until it is answered.
Send(n) ==
  /\ sends[n] < (IF Kind[n] = "inform" THEN MaxSends ELSE 1)
  /\ n \notin acked
  /\ sends' = [sends EXCEPT ![n] = @ + 1]
  /\ flight' = flight \cup {[notif |-> n, copy |-> sends[n]]}
  /\ UNCHANGED <<app, sock, answers, acked, arrived, faults>>

\* Mutant of Arrive: the socket takes any number of datagrams.
ArriveAnyway(d, again) ==
  LET f == Side[d.notif] IN
  /\ again => faults < MaxFaults
  /\ flight' = IF again THEN flight ELSE flight \ {d}
  /\ faults' = IF again THEN faults + 1 ELSE faults
  /\ f \in bound
  /\ sock' = [sock EXCEPT ![f] = Append(@, d.notif)]
  /\ arrived' = [arrived EXCEPT ![f] = Append(@, d.notif)]
  /\ UNCHANGED <<app, answers, sends, acked>>

\* A datagram reaches its socket, unless that is closed or full.
Arrive(d, again) ==
  LET f == Side[d.notif] IN
  /\ again => faults < MaxFaults
  /\ flight' = IF again THEN flight ELSE flight \ {d}
  /\ faults' = IF again THEN faults + 1 ELSE faults
  /\ f \in bound
  /\ Len(sock[f]) < Buffer
  /\ sock' = [sock EXCEPT ![f] = Append(@, d.notif)]
  /\ arrived' = [arrived EXCEPT ![f] = Append(@, d.notif)]
  /\ UNCHANGED <<app, answers, sends, acked>>

\* The sender takes a response from the address it sent the inform to.
AnswerArrives(a) ==
  /\ a.fd = Side[a.notif]
  /\ acked' = acked \cup {a.notif}
  /\ answers' = answers \ {a}
  /\ UNCHANGED <<app, sock, flight, sends, arrived, faults>>
-----------------------------------------------------------------------------
(***************************************************************************)
(* SNMPProcessPendingEvents: as long as select finds something, HandleEvents*)
(* reads ONE datagram, from the IPv4 socket if that has any.               *)
(***************************************************************************)
Ready == {f \in bound : sock[f] # <<>>}

\* Mutant of Source: the IPv6 socket is read only when there is no other.
SourceFirst == IF 4 \in bound THEN 4 ELSE 6

Source == IF 4 \in Ready THEN 4 ELSE 6

ProcessEvents ==
  /\ pc = "idle"
  /\ pc' = "select"
  /\ UNCHANGED <<listens, bound, warned, callback_fd, nbr, log, sock, flight,
                 answers, sends, acked, arrived, faults>>

\* select finds nothing; DoRetries follows.
SelectEmpty ==
  /\ pc = "select"
  /\ Ready = {}
  /\ pc' = "idle"
  /\ UNCHANGED <<listens, bound, warned, callback_fd, nbr, log, sock, flight,
                 answers, sends, acked, arrived, faults>>

\* The next datagram is taken off the socket HandleEvents reads.
Takes(n) ==
  /\ pc = "select"
  /\ Ready # {}
  /\ sock[Source] # <<>> /\ n = Head(sock[Source])
  /\ sock' = [sock EXCEPT ![Source] = Tail(@)]

\* recvfrom fails: the callback is told so and returns.
ReadFails ==
  /\ pc = "select"
  /\ Ready # {}
  /\ faults < MaxFaults
  /\ faults' = faults + 1
  /\ callback_fd' = Source
  /\ UNCHANGED <<listens, bound, warned, pc, nbr, log, sock, flight, answers,
                 sends, acked, arrived>>

\* Mutant of Ignore: the response is sent before the checks.
IgnoreAnswers(n) ==
  /\ Takes(n)
  /\ ~Listed(n)
  /\ callback_fd' = Source
  /\ answers' = answers \cup {[notif |-> n, fd |-> Source]}
  /\ UNCHANGED <<listens, bound, warned, pc, nbr, log, flight, sends, acked,
                 arrived, faults>>

\* Not decoded, or the callback returns on an error status.
Ignore(n) ==
  /\ Takes(n)
  /\ ~Listed(n)
  /\ callback_fd' = IF Kind[n] = "error" THEN Source ELSE callback_fd
  /\ UNCHANGED <<listens, bound, warned, pc, nbr, log, flight, answers, sends,
                 acked, arrived, faults>>

\* Mutants of List: the response leaves by the socket of the callback before,
\* and a repeated inform is not listed again.
ListOnOldSocket(n) ==
  /\ Takes(n)
  /\ Listed(n)
  /\ callback_fd' = Source
  /\ log' = Append(log, [nbr |-> nbr, notif |-> n, fd |-> Source])
  /\ answers' = IF Kind[n] = "inform" /\ callback_fd # 0
                THEN answers \cup {[notif |-> n, fd |-> callback_fd]} ELSE answers
  /\ nbr' = nbr + 1
  /\ UNCHANGED <<listens, bound, warned, pc, flight, sends, acked, arrived, faults>>

ListOnce(n) ==
  /\ Takes(n)
  /\ Listed(n)
  /\ callback_fd' = Source
  /\ IF \E i \in DOMAIN log : log[i].notif = n THEN UNCHANGED <<log, nbr>>
     ELSE /\ log' = Append(log, [nbr |-> nbr, notif |-> n, fd |-> Source])
          /\ nbr' = nbr + 1
  /\ answers' = IF Kind[n] = "inform"
                THEN answers \cup {[notif |-> n, fd |-> callback_fd']} ELSE answers
  /\ UNCHANGED <<listens, bound, warned, pc, flight, sends, acked, arrived, faults>>

\* AsyncCallbackTrap: a new row, with the response to an inform after it.
List(n) ==
  /\ Takes(n)
  /\ Listed(n)
  /\ callback_fd' = Source
  /\ log' = Append(log, [nbr |-> nbr, notif |-> n, fd |-> Source])
  /\ answers' = IF Kind[n] = "inform"
                THEN answers \cup {[notif |-> n, fd |-> callback_fd']} ELSE answers
  /\ nbr' = nbr + 1
  /\ UNCHANGED <<listens, bound, warned, pc, flight, sends, acked, arrived, faults>>
-----------------------------------------------------------------------------
Init ==
  /\ listens \in SUBSET Family \ {{}}
  /\ bound = {} /\ warned = FALSE
  /\ pc = "start"
  /\ sock = [f \in Family |-> <<>>]
  /\ callback_fd = 0
  /\ nbr = 1 /\ log = <<>>
  /\ flight = {} /\ answers = {}
  /\ sends = [n \in Notif |-> 0]
  /\ acked = {}
  /\ arrived = [f \in Family |-> <<>>]
  /\ faults = 0

Thread == \/ Register
          \/ ProcessEvents
          \/ SelectEmpty
          \/ ReadFails
          \/ \E n \in Notif : Ignore(n) \/ List(n)

Environment ==
  \/ \E n \in Notif : Send(n)
  \/ \E d \in flight, again \in BOOLEAN : Arrive(d, again)
  \/ \E a \in answers : AnswerArrives(a)

Next == Thread \/ Environment

Spec == Init /\ [][Next]_vars

\* Agent's timer keeps calling SNMPProcessPendingEvents.
FairSpec == Spec /\ WF_vars(Thread)
-----------------------------------------------------------------------------
Row == [nbr : Nat, notif : Notif, fd : Family]

TypeOK ==
  /\ listens \subseteq Family /\ bound \subseteq Family
  /\ warned \in BOOLEAN
  /\ pc \in {"start", "idle", "select"}
  /\ sock \in [Family -> Seq(Notif)]
  /\ \A f \in Family : Len(sock[f]) <= Buffer
  /\ callback_fd \in Family \cup {0}
  /\ nbr \in Nat
  /\ log \in Seq(Row)
  /\ flight \subseteq [notif : Notif, copy : Nat]
  /\ answers \subseteq [notif : Notif, fd : Family]
  /\ sends \in [Notif -> Nat]
  /\ acked \subseteq Notif
  /\ arrived \in [Family -> Seq(Notif)]
  /\ faults \in Nat

\* AddEntry and its cleanup: when SnmpB says that trap reception is disabled
\* no socket keeps the trap port and hoards datagrams nobody is told of, and
\* when it says nothing every transport of the session receives.
DisabledIsClosed == pc # "start" => bound = IF warned THEN {} ELSE listens

\* SNMPProcessPendingEvents, HandleEvents and AsyncCallbackTrap: whatever the
\* sockets receive, in whichever order they are served, every notification a
\* socket received is in the log exactly once or still to be read, those of
\* one socket in the order they came: what is unread is the end of what came,
\* and the k-th row is the k-th notification to be listed among the rest.
ReadFrom(f) == Len(arrived[f]) - Len(sock[f])
RowsOf(f) == {i \in DOMAIN log : log[i].fd = f}
ListedFrom(f) == {i \in 1..ReadFrom(f) : Listed(arrived[f][i])}
Rank(i, S) == Cardinality({j \in S : j <= i})

LogIsWhatCame ==
  \A f \in Family :
    /\ sock[f] = SubSeq(arrived[f], ReadFrom(f) + 1, Len(arrived[f]))
    /\ Cardinality(RowsOf(f)) = Cardinality(ListedFrom(f))
    /\ \A i \in RowsOf(f), j \in ListedFrom(f) :
         Rank(i, RowsOf(f)) = Rank(j, ListedFrom(f)) => log[i].notif = arrived[f][j]

\* AsyncCallbackTrap's early returns and its counter: the rows are numbered
\* without a gap, so a missing number would be a missing notification.
RowsNumbered == \A i \in DOMAIN log : log[i].nbr = i

\* set_notify_callback_fd: the response to an inform leaves by the socket the
\* inform came in by, also when both sockets are read in turns and other
\* callbacks came in between.
AnswerOnItsSocket == \A a \in answers : a.fd = Side[a.notif]

\* The promise to the senders: an acknowledged inform is in the log.
Promise == INSTANCE NotificationLog
             WITH sent <- {n \in Notif : sends[n] > 0},
                  rows <- [n \in Notif |->
                             Cardinality({i \in DOMAIN log : log[i].notif = n})]
PromiseSpec == Promise!Spec

\* One datagram per select, IPv4 first: when the stream of notifications ends
\* both sockets are read to the end, and requests get their retries again.
BothDrained == \A f \in Family : [](sock[f] # <<>> => <>(sock[f] = <<>>))
=============================================================================
