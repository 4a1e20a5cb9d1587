-------------------------- MODULE NotificationsProofs --------------------------
(***************************************************************************)
(* Theorems about Notifications, for any notifications, buffer size and    *)
(* bounds that satisfy NotifAssumption, the refinement of NotificationLog, *)
(* and that the log is what came.                                          *)
(***************************************************************************)
EXTENDS Notifications, FiniteSetTheorems, SequenceTheorems, TLAPS

InLog(n) == \E i \in DOMAIN log : log[i].notif = n

\* A datagram stays on the side it was sent to until its answer has left.
OnItsSide ==
  /\ \A f \in Family : \A i \in DOMAIN sock[f] : Side[sock[f][i]] = f
  /\ AnswerOnItsSocket

\* The counter is one ahead of the log.
CounterAhead == nbr = Len(log) + 1 /\ RowsNumbered

\* What is under way was sent, and what is being answered was listed.
SentAndListed ==
  /\ \A d \in flight : sends[d.notif] > 0
  /\ \A f \in Family : \A i \in DOMAIN sock[f] : sends[sock[f][i]] > 0
  /\ \A a \in answers : InLog(a.notif)

IInv == TypeOK /\ DisabledIsClosed /\ OnItsSide /\ CounterAhead /\ SentAndListed

LEMMA InitInv == ASSUME Init PROVE IInv
<1>1. TypeOK
  <2>1. << >> \in Seq(Notif) /\ << >> \in Seq(Row) /\ Len(<< >>) = 0 /\ 0 <= Buffer
    BY NotifAssumption
  <2>2. sock \in [Family -> Seq(Notif)] /\ arrived \in [Family -> Seq(Notif)]
    BY <2>1 DEF Init
  <2>3. \A f \in Family : Len(sock[f]) <= Buffer
    BY <2>1 DEF Init
  <2> QED
    BY <2>1, <2>2, <2>3 DEF Init, TypeOK
<1>2. DisabledIsClosed /\ OnItsSide /\ SentAndListed
  BY DEF Init, DisabledIsClosed, OnItsSide, AnswerOnItsSocket, SentAndListed, Family
<1>3. CounterAhead
  BY DEF Init, CounterAhead, RowsNumbered
<1> QED
  BY <1>1, <1>2, <1>3 DEF IInv

\* Taking a datagram off the socket that is read.
LEMMA TakesFacts ==
  ASSUME IInv, NEW n \in Notif, Takes(n)
  PROVE  /\ Source \in Family /\ Side[n] = Source /\ sends[n] > 0
         /\ sock' \in [Family -> Seq(Notif)]
         /\ \A f \in Family : Len(sock'[f]) <= Len(sock[f])
         /\ \A f \in Family : \A i \in DOMAIN sock'[f] :
              \E j \in DOMAIN sock[f] : sock'[f][i] = sock[f][j]
<1>1. Source \in Family
  BY DEF Source, Family
<1>2. /\ sock[Source] \in Seq(Notif) /\ sock[Source] # <<>> /\ n = Head(sock[Source])
      /\ sock' = [sock EXCEPT ![Source] = Tail(@)]
  BY <1>1 DEF Takes, IInv, TypeOK
<1>3. 1 \in DOMAIN sock[Source] /\ n = sock[Source][1]
  BY <1>2
<1>4. Side[n] = Source /\ sends[n] > 0
  BY <1>1, <1>3 DEF IInv, OnItsSide, SentAndListed
<1>5. /\ Tail(sock[Source]) \in Seq(Notif) /\ Len(Tail(sock[Source])) = Len(sock[Source]) - 1
      /\ Len(sock[Source]) \in Nat
      /\ \A i \in DOMAIN Tail(sock[Source]) :
           i + 1 \in DOMAIN sock[Source] /\ Tail(sock[Source])[i] = sock[Source][i + 1]
  BY <1>2
<1>6. sock \in [Family -> Seq(Notif)]
  BY DEF IInv, TypeOK
<1>7. sock' \in [Family -> Seq(Notif)]
  BY <1>1, <1>2, <1>5, <1>6
<1>8. ASSUME NEW f \in Family
      PROVE  /\ Len(sock'[f]) <= Len(sock[f])
             /\ \A i \in DOMAIN sock'[f] : \E j \in DOMAIN sock[f] : sock'[f][i] = sock[f][j]
  <2>1. CASE f = Source
    BY <1>2, <1>5, <1>6, <2>1
  <2>2. CASE f # Source
    <3>1. sock'[f] = sock[f] /\ Len(sock[f]) \in Nat
      BY <1>2, <1>6, <2>2
    <3> QED
      BY <3>1
  <2> QED
    BY <2>1, <2>2
<1> QED
  BY <1>1, <1>4, <1>7, <1>8

\* A new row at the end of the log.
LEMMA RowFacts ==
  ASSUME IInv, NEW n \in Notif, NEW f \in Family,
         log' = Append(log, [nbr |-> nbr, notif |-> n, fd |-> f]), nbr' = nbr + 1
  PROVE  /\ log' \in Seq(Row) /\ nbr' \in Nat
         /\ CounterAhead'
         /\ DOMAIN log' = DOMAIN log \cup {Len(log) + 1}
         /\ \A i \in DOMAIN log : log'[i] = log[i]
         /\ log'[Len(log) + 1].notif = n
<1>1. log \in Seq(Row) /\ nbr \in Nat /\ nbr = Len(log) + 1
  BY DEF IInv, TypeOK, CounterAhead
<1> DEFINE row == [nbr |-> nbr, notif |-> n, fd |-> f]
<1>2. row \in Row /\ row.nbr = nbr /\ row.notif = n
  BY <1>1 DEF Row
<1> HIDE DEF row
<1>3. log' = Append(log, row)
  BY DEF row
<1>4. /\ log' \in Seq(Row) /\ Len(log') = Len(log) + 1
      /\ DOMAIN log = 1 .. Len(log) /\ DOMAIN log' = 1 .. Len(log) + 1
      /\ \A i \in 1 .. Len(log) : log'[i] = log[i]
      /\ log'[Len(log) + 1] = row
  BY <1>1, <1>2, <1>3
<1>5. Len(log) \in Nat
  BY <1>1
<1>6. DOMAIN log' = DOMAIN log \cup {Len(log) + 1}
  BY <1>4, <1>5
<1>7. CounterAhead'
  <2>1. nbr' = Len(log') + 1
    BY <1>1, <1>4, <1>5
  <2>2. \A i \in DOMAIN log' : log'[i].nbr = i
    BY <1>1, <1>2, <1>4, <1>6 DEF IInv, CounterAhead, RowsNumbered
  <2> QED
    BY <2>1, <2>2 DEF CounterAhead, RowsNumbered
<1> QED
  BY <1>1, <1>2, <1>4, <1>6, <1>7

\* The parts of the invariant after a step that changes none of their state.
LEMMA SameLog ==
  ASSUME IInv, log' = log, nbr' = nbr
  PROVE  CounterAhead'
BY DEF IInv, CounterAhead, RowsNumbered

LEMMA NextInv == ASSUME IInv, [Next]_vars PROVE IInv'
<1> USE DEF IInv
<1>1. CASE Register
  <2>1. /\ pc' = "idle" /\ listens \subseteq Family /\ listens' = listens
        /\ UNCHANGED <<callback_fd, nbr, log, sock, flight, answers, sends, acked, arrived, faults>>
    BY <1>1 DEF Register, TypeOK
  <2>2. bound' \subseteq Family /\ warned' \in BOOLEAN /\ DisabledIsClosed'
    BY <1>1, <2>1 DEF Register, Cleanup, Family, DisabledIsClosed
  <2>3. TypeOK'
    BY <2>1, <2>2 DEF TypeOK, Row
  <2>4. OnItsSide' /\ SentAndListed'
    BY <2>1 DEF OnItsSide, AnswerOnItsSocket, SentAndListed, InLog
  <2> QED
    BY <2>1, <2>2, <2>3, <2>4, SameLog
<1>2. CASE ProcessEvents \/ SelectEmpty
  <2>1. /\ pc # "start" /\ pc' \in {"idle", "select"}
        /\ UNCHANGED <<listens, bound, warned, callback_fd, nbr, log, sock, flight, answers, sends,
                       acked, arrived, faults>>
    BY <1>2 DEF ProcessEvents, SelectEmpty
  <2>2. TypeOK' /\ DisabledIsClosed'
    BY <2>1 DEF TypeOK, DisabledIsClosed, Row
  <2>3. OnItsSide' /\ SentAndListed'
    BY <2>1 DEF OnItsSide, AnswerOnItsSocket, SentAndListed, InLog
  <2> QED
    BY <2>1, <2>2, <2>3, SameLog
<1>3. CASE ReadFails
  <2>1. /\ callback_fd' \in Family /\ faults' = faults + 1
        /\ UNCHANGED <<listens, bound, warned, pc, nbr, log, sock, flight, answers, sends, acked,
                       arrived>>
    BY <1>3 DEF ReadFails, Source, Family
  <2>2. TypeOK' /\ DisabledIsClosed'
    BY <2>1 DEF TypeOK, DisabledIsClosed, Row
  <2>3. OnItsSide' /\ SentAndListed'
    BY <2>1 DEF OnItsSide, AnswerOnItsSocket, SentAndListed, InLog
  <2> QED
    BY <2>1, <2>2, <2>3, SameLog
<1>4. ASSUME NEW n \in Notif, Ignore(n) PROVE IInv'
  <2>1. /\ Takes(n)
        /\ callback_fd' \in {Source, callback_fd}
        /\ UNCHANGED <<listens, bound, warned, pc, nbr, log, flight, answers, sends, acked, arrived,
                       faults>>
    BY <1>4 DEF Ignore
  <2>2. /\ Source \in Family /\ sock' \in [Family -> Seq(Notif)]
        /\ \A f \in Family : Len(sock'[f]) <= Len(sock[f])
        /\ \A f \in Family : \A i \in DOMAIN sock'[f] :
             \E j \in DOMAIN sock[f] : sock'[f][i] = sock[f][j]
    BY <2>1, TakesFacts
  <2>3. \A f \in Family : Len(sock'[f]) <= Buffer
    <3>1. sock \in [Family -> Seq(Notif)] /\ (\A f \in Family : Len(sock[f]) <= Buffer)
      BY DEF TypeOK
    <3>2. \A f \in Family : Len(sock[f]) \in Nat /\ Len(sock'[f]) \in Nat
      BY <2>2, <3>1
    <3> QED
      BY <2>2, <3>1, <3>2, NotifAssumption
  <2>4. TypeOK'
    BY <2>1, <2>2, <2>3 DEF TypeOK, Row
  <2>5. DisabledIsClosed'
    BY <2>1 DEF DisabledIsClosed
  <2>6. OnItsSide'
    BY <2>1, <2>2 DEF OnItsSide, AnswerOnItsSocket
  <2>7. SentAndListed'
    BY <2>1, <2>2 DEF SentAndListed, InLog
  <2> QED
    BY <2>1, <2>4, <2>5, <2>6, <2>7, SameLog
<1>5. ASSUME NEW n \in Notif, List(n) PROVE IInv'
  <2>1. /\ Takes(n) /\ callback_fd' = Source
        /\ log' = Append(log, [nbr |-> nbr, notif |-> n, fd |-> Source]) /\ nbr' = nbr + 1
        /\ answers' = IF Kind[n] = "inform"
                        THEN answers \cup {[notif |-> n, fd |-> callback_fd']} ELSE answers
        /\ UNCHANGED <<listens, bound, warned, pc, flight, sends, acked, arrived, faults>>
    BY <1>5 DEF List
  <2>2. /\ Source \in Family /\ Side[n] = Source /\ sock' \in [Family -> Seq(Notif)]
        /\ \A f \in Family : Len(sock'[f]) <= Len(sock[f])
        /\ \A f \in Family : \A i \in DOMAIN sock'[f] :
             \E j \in DOMAIN sock[f] : sock'[f][i] = sock[f][j]
    BY <2>1, TakesFacts
  <2>3. /\ log' \in Seq(Row) /\ nbr' \in Nat /\ CounterAhead'
        /\ DOMAIN log' = DOMAIN log \cup {Len(log) + 1}
        /\ \A i \in DOMAIN log : log'[i] = log[i]
        /\ log'[Len(log) + 1].notif = n
    BY <2>1, <2>2, RowFacts
  <2>4. \A f \in Family : Len(sock'[f]) <= Buffer
    <3>1. sock \in [Family -> Seq(Notif)] /\ (\A f \in Family : Len(sock[f]) <= Buffer)
      BY DEF TypeOK
    <3>2. \A f \in Family : Len(sock[f]) \in Nat /\ Len(sock'[f]) \in Nat
      BY <2>2, <3>1
    <3> QED
      BY <2>2, <3>1, <3>2, NotifAssumption
  <2>5. \A a \in answers' : \/ a \in answers
                            \/ a = [notif |-> n, fd |-> Source]
    BY <2>1
  <2>6. answers' \subseteq [notif : Notif, fd : Family]
    BY <2>2, <2>5 DEF TypeOK
  <2>7. TypeOK'
    BY <2>1, <2>2, <2>3, <2>4, <2>6 DEF TypeOK, Row
  <2>8. DisabledIsClosed'
    BY <2>1 DEF DisabledIsClosed
  <2>9. OnItsSide'
    BY <2>2, <2>5 DEF OnItsSide, AnswerOnItsSocket
  <2>10. SentAndListed'
    <3>1. \A m : InLog(m) => InLog(m)'
      BY <2>3 DEF InLog
    <3>2. InLog(n)'
      BY <2>3 DEF InLog
    <3> QED
      BY <2>1, <2>2, <2>5, <3>1, <3>2 DEF SentAndListed
  <2> QED
    BY <2>3, <2>7, <2>8, <2>9, <2>10
<1>6. ASSUME NEW n \in Notif, Send(n) PROVE IInv'
  <2>1. /\ sends' = [sends EXCEPT ![n] = @ + 1]
        /\ flight' = flight \cup {[notif |-> n, copy |-> sends[n]]}
        /\ UNCHANGED <<listens, bound, warned, pc, callback_fd, nbr, log, sock, answers, acked,
                       arrived, faults>>
    BY <1>6 DEF Send, app
  <2>2. /\ sends' \in [Notif -> Nat] /\ sends'[n] > 0
        /\ \A m \in Notif : sends[m] > 0 => sends'[m] > 0
    BY <2>1 DEF TypeOK
  <2>3. TypeOK' /\ DisabledIsClosed'
    BY <2>1, <2>2 DEF TypeOK, DisabledIsClosed, Row
  <2>4. OnItsSide'
    BY <2>1 DEF OnItsSide, AnswerOnItsSocket
  <2>5. \A f \in Family : \A i \in DOMAIN sock[f] : sock[f][i] \in Notif
    BY DEF TypeOK
  <2>6. SentAndListed'
    BY <2>1, <2>2, <2>5 DEF SentAndListed, InLog, TypeOK
  <2> QED
    BY <2>1, <2>3, <2>4, <2>6, SameLog
<1>7. ASSUME NEW d \in flight, NEW again \in BOOLEAN, Arrive(d, again) PROVE IInv'
  <2> DEFINE f == Side[d.notif]
  <2>1. d.notif \in Notif /\ f \in Family /\ sends[d.notif] > 0
    BY NotifAssumption DEF TypeOK, SentAndListed
  <2>2. /\ flight' \subseteq flight /\ faults' \in Nat
        /\ sock' = [sock EXCEPT ![f] = Append(@, d.notif)]
        /\ arrived' = [arrived EXCEPT ![f] = Append(@, d.notif)]
        /\ Len(sock[f]) < Buffer
        /\ UNCHANGED <<listens, bound, warned, pc, callback_fd, nbr, log, answers, sends, acked>>
    BY <1>7 DEF Arrive, app, TypeOK
  <2> HIDE DEF f
  <2>3. sock \in [Family -> Seq(Notif)] /\ arrived \in [Family -> Seq(Notif)]
    BY DEF TypeOK
  <2>4. sock' \in [Family -> Seq(Notif)] /\ arrived' \in [Family -> Seq(Notif)]
    BY <2>1, <2>2, <2>3
  <2>5. /\ sock'[f] = Append(sock[f], d.notif)
        /\ \A g \in Family \ {f} : sock'[g] = sock[g]
    BY <2>1, <2>2, <2>3
  <2>6. /\ Len(sock'[f]) = Len(sock[f]) + 1 /\ Len(sock[f]) \in Nat
        /\ \A i \in DOMAIN sock'[f] : \/ i \in DOMAIN sock[f] /\ sock'[f][i] = sock[f][i]
                                      \/ sock'[f][i] = d.notif
    BY <2>1, <2>3, <2>5
  <2>7. \A g \in Family : Len(sock'[g]) <= Buffer
    <3>1. Len(sock'[f]) <= Buffer
      BY <2>2, <2>6, NotifAssumption
    <3> QED
      BY <2>5, <3>1 DEF TypeOK
  <2>8. TypeOK'
    BY <2>2, <2>4, <2>7 DEF TypeOK, Row
  <2>9. DisabledIsClosed'
    BY <2>2 DEF DisabledIsClosed
  <2>10. OnItsSide'
    <3>1. Side[d.notif] = f
      BY DEF f
    <3> QED
      BY <2>2, <2>5, <2>6, <3>1 DEF OnItsSide, AnswerOnItsSocket
  <2>11. SentAndListed'
    BY <2>1, <2>2, <2>5, <2>6 DEF SentAndListed, InLog
  <2> QED
    BY <2>2, <2>8, <2>9, <2>10, <2>11, SameLog
<1>8. ASSUME NEW a \in answers, AnswerArrives(a) PROVE IInv'
  <2>1. /\ acked' = acked \cup {a.notif} /\ answers' = answers \ {a} /\ a.notif \in Notif
        /\ UNCHANGED <<listens, bound, warned, pc, callback_fd, nbr, log, sock, flight, sends,
                       arrived, faults>>
    BY <1>8 DEF AnswerArrives, app, TypeOK
  <2>2. TypeOK' /\ DisabledIsClosed'
    BY <2>1 DEF TypeOK, DisabledIsClosed, Row
  <2>3. OnItsSide' /\ SentAndListed'
    BY <2>1 DEF OnItsSide, AnswerOnItsSocket, SentAndListed, InLog
  <2> QED
    BY <2>1, <2>2, <2>3, SameLog
<1>9. CASE UNCHANGED vars
  BY <1>9 DEF vars, app, TypeOK, Row, DisabledIsClosed, OnItsSide, AnswerOnItsSocket,
              CounterAhead, RowsNumbered, SentAndListed, InLog
<1> QED
  BY <1>1, <1>2, <1>3, <1>4, <1>5, <1>6, <1>7, <1>8, <1>9 DEF Next, Thread, Environment

LEMMA Invariance == Spec => []IInv
<1>1. Init => IInv
  BY InitInv
<1>2. IInv /\ [Next]_vars => IInv'
  BY NextInv
<1> QED
  BY <1>1, <1>2, PTL DEF Spec

\* The types; a socket never holds more than its buffer does.
THEOREM TypeCorrect == Spec => []TypeOK
<1>1. IInv => TypeOK
  BY DEF IInv
<1> QED
  BY <1>1, Invariance, PTL

\* AddEntry leaves all of the session's sockets open, or none.
THEOREM AllOrNoSocket == Spec => []DisabledIsClosed
<1>1. IInv => DisabledIsClosed
  BY DEF IInv
<1> QED
  BY <1>1, Invariance, PTL

\* The rows of the trap log are numbered 1, 2, 3, ... without a gap.
THEOREM NoGap == Spec => []RowsNumbered
<1>1. IInv => RowsNumbered
  BY DEF IInv, CounterAhead
<1> QED
  BY <1>1, Invariance, PTL

\* The response to an inform leaves by the socket the inform came in by.
THEOREM AnswerSide == Spec => []AnswerOnItsSocket
<1>1. IInv => AnswerOnItsSocket
  BY DEF IInv, OnItsSide
<1> QED
  BY <1>1, Invariance, PTL
-----------------------------------------------------------------------------
(***************************************************************************)
(* Notifications implements NotificationLog.                               *)
(***************************************************************************)
RowsAt(n) == {i \in DOMAIN log : log[i].notif = n}

\* Counting the rows of a notification: they are finitely many, none means a
\* count of zero, and a new row adds one to its own count only.
LEMMA RowsAtFinite ==
  ASSUME log \in Seq(Row), NEW n
  PROVE  IsFiniteSet(RowsAt(n)) /\ Cardinality(RowsAt(n)) \in Nat
<1>1. DOMAIN log = 1 .. Len(log) /\ Len(log) \in Nat
  OBVIOUS
<1>2. IsFiniteSet(1 .. Len(log))
  BY <1>1, FS_Interval
<1>3. RowsAt(n) \subseteq 1 .. Len(log)
  BY <1>1 DEF RowsAt
<1>4. IsFiniteSet(RowsAt(n))
  BY <1>2, <1>3, FS_Subset
<1> QED
  BY <1>4, FS_CardinalityType

LEMMA RowAdded ==
  ASSUME IInv, NEW n \in Notif, List(n), NEW m \in Notif
  PROVE  Cardinality(RowsAt(m)') = IF m = n THEN Cardinality(RowsAt(m)) + 1
                                             ELSE Cardinality(RowsAt(m))
<1>1. Takes(n) /\ log' = Append(log, [nbr |-> nbr, notif |-> n, fd |-> Source]) /\ nbr' = nbr + 1
  BY DEF List
<1>2. Source \in Family
  BY <1>1, TakesFacts
<1>3. /\ DOMAIN log' = DOMAIN log \cup {Len(log) + 1}
      /\ \A i \in DOMAIN log : log'[i] = log[i]
      /\ log'[Len(log) + 1].notif = n
  BY <1>1, <1>2, RowFacts
<1>4. log \in Seq(Row)
  BY DEF IInv, TypeOK
<1>5. Len(log) + 1 \notin DOMAIN log
  BY <1>4
<1>6. CASE m = n
  <2>1. RowsAt(m)' = RowsAt(m) \cup {Len(log) + 1}
    BY <1>3, <1>6 DEF RowsAt
  <2>2. Len(log) + 1 \notin RowsAt(m) /\ IsFiniteSet(RowsAt(m))
    BY <1>4, <1>5, RowsAtFinite DEF RowsAt
  <2> QED
    BY <1>6, <2>1, <2>2, FS_AddElement
<1>7. CASE m # n
  <2>1. RowsAt(m)' = RowsAt(m)
    BY <1>3, <1>7 DEF RowsAt
  <2> QED
    BY <1>7, <2>1
<1> QED
  BY <1>6, <1>7

\* The mapped state.
Sent == {n \in Notif : sends[n] > 0}
Rows == [n \in Notif |-> Cardinality({i \in DOMAIN log : log[i].notif = n})]

LEMMA InitRefines == ASSUME Init PROVE Promise!Init
<1>1. Sent = {}
  BY DEF Init, Sent
<1>2. ASSUME NEW n \in Notif PROVE {i \in DOMAIN log : log[i].notif = n} = {}
  BY DEF Init
<1>3. Rows = [n \in Notif |-> 0]
  BY <1>2, FS_EmptySet DEF Rows
<1> QED
  BY <1>1, <1>3 DEF Init, Promise!Init, Sent, Rows

LEMMA StepRefines == ASSUME IInv, [Next]_vars PROVE [Promise!Next]_Promise!vars
<1>1. ASSUME UNCHANGED <<sends, log, acked>> PROVE UNCHANGED Promise!vars
  BY <1>1 DEF Promise!vars
<1>2. CASE Register \/ ProcessEvents \/ SelectEmpty \/ ReadFails
  BY <1>1, <1>2 DEF Register, ProcessEvents, SelectEmpty, ReadFails
<1>3. ASSUME NEW n \in Notif, Ignore(n) PROVE UNCHANGED Promise!vars
  BY <1>1, <1>3 DEF Ignore
<1>4. ASSUME NEW n \in Notif, List(n) PROVE Promise!List(n)
  <2>1. Takes(n) /\ sends' = sends /\ acked' = acked
    BY <1>4 DEF List
  <2>2. n \in Sent
    BY <2>1, TakesFacts DEF Sent
  <2>3. \A m \in Notif : Cardinality(RowsAt(m)') = IF m = n THEN Cardinality(RowsAt(m)) + 1
                                                          ELSE Cardinality(RowsAt(m))
    BY <1>4, RowAdded
  <2>4. Rows' = [Rows EXCEPT ![n] = @ + 1]
    BY <2>3 DEF Rows, RowsAt
  <2>5. Sent' = Sent
    BY <2>1 DEF Sent
  <2> QED
    BY <2>1, <2>2, <2>4, <2>5 DEF Promise!List, Sent, Rows
<1>5. ASSUME NEW n \in Notif, Send(n) PROVE Promise!Send(n)
  <2>1. sends' = [sends EXCEPT ![n] = @ + 1] /\ log' = log /\ acked' = acked
    BY <1>5 DEF Send, app
  <2>2. sends \in [Notif -> Nat]
    BY DEF IInv, TypeOK
  <2>3. Sent' = Sent \cup {n}
    BY <2>1, <2>2 DEF Sent
  <2>4. Rows' = Rows
    BY <2>1 DEF Rows
  <2> QED
    BY <2>1, <2>3, <2>4 DEF Promise!Send, Sent, Rows
<1>6. ASSUME NEW d \in flight, NEW again \in BOOLEAN, Arrive(d, again) PROVE UNCHANGED Promise!vars
  BY <1>1, <1>6 DEF Arrive, app
<1>7. ASSUME NEW a \in answers, AnswerArrives(a)
      PROVE  a.notif \in Notif /\ Promise!Acknowledge(a.notif)
  <2>1. a.notif \in Notif /\ InLog(a.notif) /\ log \in Seq(Row)
    BY DEF IInv, TypeOK, SentAndListed
  <2>2. RowsAt(a.notif) # {}
    BY <2>1 DEF InLog, RowsAt
  <2>3. Cardinality(RowsAt(a.notif)) > 0
    BY <2>1, <2>2, RowsAtFinite, FS_EmptySet
  <2>4. Rows[a.notif] > 0
    BY <2>1, <2>3 DEF Rows, RowsAt
  <2>5. acked' = acked \cup {a.notif} /\ sends' = sends /\ log' = log
    BY <1>7 DEF AnswerArrives, app
  <2>6. Sent' = Sent /\ Rows' = Rows
    BY <2>5 DEF Sent, Rows
  <2> QED
    BY <2>1, <2>4, <2>5, <2>6 DEF Promise!Acknowledge, Sent, Rows
<1>8. CASE UNCHANGED vars
  BY <1>1, <1>8 DEF vars, app
<1> QED
  BY <1>2, <1>3, <1>4, <1>5, <1>6, <1>7, <1>8 DEF Next, Thread, Environment, Promise!Next

\* The promise to the senders, for any number of notifications and losses:
\* what is listed was sent, and an inform is acknowledged only once listed.
THEOREM KeepsPromise == Spec => PromiseSpec
<1>1. Init => Promise!Init
  BY InitRefines
<1>2. IInv /\ [Next]_vars => [Promise!Next]_Promise!vars
  BY StepRefines
<1> QED
  BY <1>1, <1>2, Invariance, PTL DEF Spec, PromiseSpec, Promise!Spec
-----------------------------------------------------------------------------
(***************************************************************************)
(* LogIsWhatCame.  What is unread is stated element by element, and the    *)
(* finite sets of rows and of notifications read grow together, each by    *)
(* its largest element.                                                    *)
(***************************************************************************)
UnreadIsTheEnd(f) ==
  /\ ReadFrom(f) \in Nat
  /\ \A i \in 1 .. Len(sock[f]) : sock[f][i] = arrived[f][ReadFrom(f) + i]

RowsMatch(f) ==
  /\ IsFiniteSet(RowsOf(f)) /\ IsFiniteSet(ListedFrom(f))
  /\ Cardinality(RowsOf(f)) = Cardinality(ListedFrom(f))
  /\ \A i \in RowsOf(f), j \in ListedFrom(f) :
       Rank(i, RowsOf(f)) = Rank(j, ListedFrom(f)) => log[i].notif = arrived[f][j]

LogInv == \A f \in Family : UnreadIsTheEnd(f) /\ RowsMatch(f)

\* A new largest element has the highest rank and changes no other.
LEMMA RankOfLargest ==
  ASSUME NEW S \in SUBSET Nat, IsFiniteSet(S), NEW n \in Nat, \A i \in S : i < n
  PROVE  /\ IsFiniteSet(S \cup {n})
         /\ Cardinality(S \cup {n}) = Cardinality(S) + 1
         /\ Cardinality(S) \in Nat
         /\ Rank(n, S \cup {n}) = Cardinality(S) + 1
         /\ \A i \in S : /\ Rank(i, S \cup {n}) = Rank(i, S)
                         /\ Rank(i, S) <= Cardinality(S) /\ Rank(i, S) \in Nat
<1>1. n \notin S
  OBVIOUS
<1>2. /\ IsFiniteSet(S \cup {n})
      /\ Cardinality(S \cup {n}) = Cardinality(S) + 1
      /\ Cardinality(S) \in Nat
  BY <1>1, FS_AddElement, FS_CardinalityType
<1>3. Rank(n, S \cup {n}) = Cardinality(S) + 1
  <2>1. \A j \in S \cup {n} : j <= n
    OBVIOUS
  <2>2. {j \in S \cup {n} : j <= n} = S \cup {n}
    BY <2>1
  <2> QED
    BY <1>2, <2>2 DEF Rank
<1>4. ASSUME NEW i \in S
      PROVE  /\ Rank(i, S \cup {n}) = Rank(i, S)
             /\ Rank(i, S) <= Cardinality(S) /\ Rank(i, S) \in Nat
  <2>1. {j \in S \cup {n} : j <= i} = {j \in S : j <= i}
    OBVIOUS
  <2>2. {j \in S : j <= i} \subseteq S
    OBVIOUS
  <2>3. /\ IsFiniteSet({j \in S : j <= i})
        /\ Cardinality({j \in S : j <= i}) <= Cardinality(S)
    BY <2>2, FS_Subset
  <2> QED
    BY <2>1, <2>3, FS_CardinalityType DEF Rank
<1> QED
  BY <1>2, <1>3, <1>4

\* The elements of a sequence that got one more.
LEMMA OneMore ==
  ASSUME NEW T, NEW s \in Seq(T), NEW e \in T
  PROVE  /\ Len(s) \in Nat /\ Len(Append(s, e)) = Len(s) + 1
         /\ \A i \in 1 .. Len(s) : Append(s, e)[i] = s[i]
         /\ Append(s, e)[Len(s) + 1] = e
OBVIOUS

\* How many datagrams were read.
LEMMA ReadNumbers ==
  ASSUME TypeOK, NEW f \in Family
  PROVE  /\ Len(sock[f]) \in Nat /\ Len(arrived[f]) \in Nat
         /\ ReadFrom(f) \in Int
         /\ ReadFrom(f) + Len(sock[f]) = Len(arrived[f])
<1>1. sock[f] \in Seq(Notif) /\ arrived[f] \in Seq(Notif)
  BY DEF TypeOK
<1> QED
  BY <1>1 DEF ReadFrom

LEMMA ReadNumbersNext ==
  ASSUME TypeOK', NEW f \in Family
  PROVE  /\ Len(sock'[f]) \in Nat /\ Len(arrived'[f]) \in Nat
         /\ ReadFrom(f)' \in Int
         /\ ReadFrom(f)' + Len(sock'[f]) = Len(arrived'[f])
<1>1. sock'[f] \in Seq(Notif) /\ arrived'[f] \in Seq(Notif)
  BY DEF TypeOK
<1> QED
  BY <1>1 DEF ReadFrom

\* A step that leaves the rows alone, and what was read from socket f.
LEMMA SameRows ==
  ASSUME NEW f \in Family, RowsMatch(f), log' = log, ReadFrom(f)' = ReadFrom(f),
         \A i \in 1 .. ReadFrom(f) : arrived'[f][i] = arrived[f][i]
  PROVE  RowsMatch(f)'
<1>1. RowsOf(f)' = RowsOf(f)
  BY DEF RowsOf
<1>2. ListedFrom(f)' = ListedFrom(f)
  BY DEF ListedFrom, Listed
<1>3. \A i \in ListedFrom(f) : arrived'[f][i] = arrived[f][i]
  BY DEF ListedFrom
<1> QED
  BY <1>1, <1>2, <1>3 DEF RowsMatch, Rank

\* A datagram that arrives is the last of what came and of what is unread.
LEMMA ArriveKeepsLog ==
  ASSUME TypeOK, TypeOK', LogInv, NEW g \in Family, NEW n \in Notif,
         sock' = [sock EXCEPT ![g] = Append(@, n)],
         arrived' = [arrived EXCEPT ![g] = Append(@, n)],
         log' = log
  PROVE  LogInv'
<1>1. sock \in [Family -> Seq(Notif)] /\ arrived \in [Family -> Seq(Notif)]
  BY DEF TypeOK
<1> SUFFICES ASSUME NEW f \in Family PROVE (UnreadIsTheEnd(f) /\ RowsMatch(f))'
  BY DEF LogInv
<1>2. UnreadIsTheEnd(f) /\ RowsMatch(f)
  BY DEF LogInv
<1>3. CASE f = g
  <2>1. sock'[f] = Append(sock[f], n) /\ arrived'[f] = Append(arrived[f], n)
    BY <1>1, <1>3
  <2>2. sock[f] \in Seq(Notif) /\ arrived[f] \in Seq(Notif)
    BY <1>1
  <2>3. /\ Len(sock[f]) \in Nat /\ Len(arrived[f]) \in Nat
        /\ Len(sock'[f]) = Len(sock[f]) + 1 /\ Len(arrived'[f]) = Len(arrived[f]) + 1
        /\ \A i \in 1 .. Len(sock[f]) : sock'[f][i] = sock[f][i]
        /\ sock'[f][Len(sock[f]) + 1] = n
        /\ \A i \in 1 .. Len(arrived[f]) : arrived'[f][i] = arrived[f][i]
        /\ arrived'[f][Len(arrived[f]) + 1] = n
    BY <2>1, <2>2, OneMore
  <2>4. /\ ReadFrom(f)' = ReadFrom(f) /\ ReadFrom(f) \in Nat
        /\ ReadFrom(f) + Len(sock[f]) = Len(arrived[f])
    BY <1>2, <2>3, ReadNumbers, ReadNumbersNext DEF UnreadIsTheEnd
  <2>5. UnreadIsTheEnd(f)'
    <3> SUFFICES ASSUME NEW i \in 1 .. Len(sock'[f])
                 PROVE  sock'[f][i] = arrived'[f][ReadFrom(f) + i]
      BY <2>4 DEF UnreadIsTheEnd
    <3>1. CASE i = Len(sock[f]) + 1
      <4>1. ReadFrom(f) + i = Len(arrived[f]) + 1
        BY <2>3, <2>4, <3>1
      <4> QED
        BY <2>3, <3>1, <4>1
    <3>2. CASE i \in 1 .. Len(sock[f])
      <4>1. ReadFrom(f) + i \in 1 .. Len(arrived[f])
        BY <2>3, <2>4, <3>2
      <4>2. sock[f][i] = arrived[f][ReadFrom(f) + i]
        BY <1>2, <3>2 DEF UnreadIsTheEnd
      <4>3. sock'[f][i] = sock[f][i]
        BY <2>3, <3>2
      <4>4. arrived'[f][ReadFrom(f) + i] = arrived[f][ReadFrom(f) + i]
        BY <2>3, <4>1
      <4> QED
        BY <4>2, <4>3, <4>4
    <3>3. i \in Nat /\ 1 <= i /\ i <= Len(sock[f]) + 1
      BY <2>3
    <3>4. i = Len(sock[f]) + 1 \/ i \in 1 .. Len(sock[f])
      BY <2>3, <3>3
    <3> QED
      BY <3>1, <3>2, <3>4
  <2>6. \A i \in 1 .. ReadFrom(f) : arrived'[f][i] = arrived[f][i]
    BY <2>3, <2>4
  <2> QED
    BY <1>2, <2>4, <2>5, <2>6, SameRows
<1>4. CASE f # g
  <2>1. sock'[f] = sock[f] /\ arrived'[f] = arrived[f]
    BY <1>1, <1>4
  <2>2. ReadFrom(f)' = ReadFrom(f)
    BY <2>1 DEF ReadFrom
  <2> QED
    BY <1>2, <2>1, <2>2, SameRows DEF UnreadIsTheEnd
<1> QED
  BY <1>3, <1>4

\* Taking a datagram off a socket: it is the one that came after those read
\* before.
LEMMA TakesNext ==
  ASSUME TypeOK, TypeOK', LogInv, NEW n \in Notif, Takes(n), arrived' = arrived, NEW f \in Family
  PROVE  /\ UnreadIsTheEnd(f)'
         /\ ReadFrom(f) \in Nat
         /\ f # Source => ReadFrom(f)' = ReadFrom(f)
         /\ f = Source => /\ ReadFrom(f)' = ReadFrom(f) + 1
                          /\ arrived[f][ReadFrom(f) + 1] = n
<1>1. sock \in [Family -> Seq(Notif)] /\ arrived \in [Family -> Seq(Notif)]
  BY DEF TypeOK
<1>2. UnreadIsTheEnd(f)
  BY DEF LogInv
<1>3. CASE f = Source
  <2>1. /\ sock[f] \in Seq(Notif) /\ sock[f] # <<>> /\ n = Head(sock[f])
        /\ sock'[f] = Tail(sock[f]) /\ Len(arrived[f]) \in Nat
    BY <1>1, <1>3 DEF Takes
  <2>2. /\ Len(sock[f]) \in Nat \ {0} /\ n = sock[f][1]
        /\ Len(sock'[f]) \in Nat /\ Len(sock[f]) = Len(sock'[f]) + 1
        /\ \A i \in 1 .. Len(sock'[f]) : sock'[f][i] = sock[f][i + 1]
    BY <2>1
  <2>3. ReadFrom(f) \in Nat /\ ReadFrom(f)' = ReadFrom(f) + 1
    <3>1. /\ ReadFrom(f) \in Nat /\ ReadFrom(f)' \in Int
          /\ ReadFrom(f) + Len(sock[f]) = Len(arrived[f])
          /\ ReadFrom(f)' + Len(sock'[f]) = Len(arrived[f])
      BY <1>2, ReadNumbers, ReadNumbersNext DEF UnreadIsTheEnd
    <3> QED
      BY <2>1, <2>2, <3>1
  <2>4. arrived[f][ReadFrom(f) + 1] = n
    BY <1>2, <2>2 DEF UnreadIsTheEnd
  <2>5. ASSUME NEW i \in 1 .. Len(sock'[f])
        PROVE  sock'[f][i] = arrived'[f][ReadFrom(f)' + i]
    <3>0. i \in Nat /\ 1 <= i /\ i <= Len(sock'[f])
      BY <2>2
    <3>1. i + 1 \in 1 .. Len(sock[f]) /\ ReadFrom(f) + (i + 1) = ReadFrom(f)' + i
      <4>1. i + 1 \in 1 .. Len(sock[f])
        BY <2>2, <3>0
      <4>2. ReadFrom(f) + (i + 1) = ReadFrom(f)' + i
        BY <2>3, <3>0
      <4> QED
        BY <4>1, <4>2
    <3> QED
      BY <1>2, <2>2, <3>1 DEF UnreadIsTheEnd
  <2> QED
    BY <1>3, <2>3, <2>4, <2>5 DEF UnreadIsTheEnd
<1>4. CASE f # Source
  <2>1. sock'[f] = sock[f]
    BY <1>1, <1>4 DEF Takes
  <2>2. ReadFrom(f)' = ReadFrom(f)
    BY <2>1 DEF ReadFrom
  <2> QED
    BY <1>2, <1>4, <2>1, <2>2 DEF UnreadIsTheEnd
<1> QED
  BY <1>3, <1>4

\* The rows and the notifications read, as a step leaves them.
LEMMA NowMatch ==
  ASSUME NEW f \in Family, NEW R, NEW L, RowsOf(f)' = R, ListedFrom(f)' = L,
         IsFiniteSet(R), IsFiniteSet(L), Cardinality(R) = Cardinality(L),
         \A i \in R, j \in L : Rank(i, R) = Rank(j, L) => log'[i].notif = arrived'[f][j]
  PROVE  RowsMatch(f)'
BY DEF RowsMatch, Rank

\* What is not listed leaves the rows as they are.
LEMMA IgnoreKeepsLog == ASSUME TypeOK, TypeOK', LogInv, NEW n \in Notif, Ignore(n) PROVE LogInv'
<1>1. Takes(n) /\ ~Listed(n) /\ log' = log /\ arrived' = arrived
  BY DEF Ignore
<1> SUFFICES ASSUME NEW f \in Family PROVE (UnreadIsTheEnd(f) /\ RowsMatch(f))'
  BY DEF LogInv
<1>2. RowsMatch(f)
  BY DEF LogInv
<1>3. /\ UnreadIsTheEnd(f)' /\ ReadFrom(f) \in Nat
      /\ f # Source => ReadFrom(f)' = ReadFrom(f)
      /\ f = Source => /\ ReadFrom(f)' = ReadFrom(f) + 1
                       /\ arrived[f][ReadFrom(f) + 1] = n
  BY <1>1, TakesNext
<1>4. CASE f = Source
  <2>1. \A i \in 1 .. ReadFrom(f)' : i \in 1 .. ReadFrom(f) \/ i = ReadFrom(f) + 1
    BY <1>3, <1>4
  <2>2. 1 .. ReadFrom(f) \subseteq 1 .. ReadFrom(f)'
    BY <1>3, <1>4
  <2>3. ListedFrom(f)' = ListedFrom(f)
    BY <1>1, <1>3, <1>4, <2>1, <2>2 DEF ListedFrom, Listed
  <2>4. RowsOf(f)' = RowsOf(f)
    BY <1>1 DEF RowsOf
  <2> QED
    BY <1>1, <1>2, <1>3, <2>3, <2>4 DEF RowsMatch, Rank
<1>5. CASE f # Source
  BY <1>1, <1>2, <1>3, <1>5, SameRows
<1> QED
  BY <1>4, <1>5

\* What is listed is the newest row and the latest notification read.
LEMMA ListKeepsLog == ASSUME TypeOK, TypeOK', LogInv, NEW n \in Notif, List(n) PROVE LogInv'
<1> DEFINE row == [nbr |-> nbr, notif |-> n, fd |-> Source]
<1>1. Takes(n) /\ Listed(n) /\ log' = Append(log, row) /\ arrived' = arrived
  BY DEF List
<1>2. Source \in Family /\ row \in Row /\ row.notif = n /\ row.fd = Source
  BY DEF Source, Family, Row, TypeOK
<1> HIDE DEF row
<1>3. /\ Len(log) \in Nat /\ DOMAIN log = 1 .. Len(log)
      /\ DOMAIN log' = 1 .. Len(log) + 1
      /\ \A i \in 1 .. Len(log) : log'[i] = log[i]
      /\ log'[Len(log) + 1] = row
  BY <1>1, <1>2 DEF TypeOK
<1> SUFFICES ASSUME NEW f \in Family PROVE (UnreadIsTheEnd(f) /\ RowsMatch(f))'
  BY DEF LogInv
<1>4. RowsMatch(f)
  BY DEF LogInv
<1>5. /\ UnreadIsTheEnd(f)' /\ ReadFrom(f) \in Nat
      /\ f # Source => ReadFrom(f)' = ReadFrom(f)
      /\ f = Source => /\ ReadFrom(f)' = ReadFrom(f) + 1
                       /\ arrived[f][ReadFrom(f) + 1] = n
  BY <1>1, TakesNext
<1>6. CASE f = Source
  <2> DEFINE r == Len(log) + 1
             a == ReadFrom(f) + 1
  <2>1. RowsOf(f)' = RowsOf(f) \cup {r}
    BY <1>2, <1>3, <1>6 DEF RowsOf
  <2>2. ListedFrom(f)' = ListedFrom(f) \cup {a}
    BY <1>1, <1>5, <1>6 DEF ListedFrom, Listed
  <2>3. /\ RowsOf(f) \in SUBSET Nat /\ r \in Nat /\ \A i \in RowsOf(f) : i < r
        /\ ListedFrom(f) \in SUBSET Nat /\ a \in Nat /\ \A i \in ListedFrom(f) : i < a
    BY <1>3, <1>5 DEF RowsOf, ListedFrom
  <2>4. /\ \A i \in RowsOf(f) : log'[i] = log[i]
        /\ log'[r].notif = n /\ arrived[f][a] = n
    BY <1>2, <1>3, <1>5, <1>6 DEF RowsOf
  <2> HIDE DEF r, a
  <2> DEFINE R == RowsOf(f)
             L == ListedFrom(f)
             c == Cardinality(R)
  <2>5. IsFiniteSet(R) /\ IsFiniteSet(L) /\ Cardinality(L) = c
    BY <1>4 DEF RowsMatch
  <2>6. /\ IsFiniteSet(R \cup {r}) /\ Cardinality(R \cup {r}) = c + 1 /\ c \in Nat
        /\ Rank(r, R \cup {r}) = c + 1
        /\ \A i \in R : Rank(i, R \cup {r}) = Rank(i, R) /\ Rank(i, R) <= c /\ Rank(i, R) \in Nat
    <3> HIDE DEF R
    <3> QED
      BY <2>3, <2>5, RankOfLargest DEF R
  <2>7. /\ IsFiniteSet(L \cup {a}) /\ Cardinality(L \cup {a}) = c + 1
        /\ Rank(a, L \cup {a}) = c + 1
        /\ \A j \in L : Rank(j, L \cup {a}) = Rank(j, L) /\ Rank(j, L) <= c /\ Rank(j, L) \in Nat
    BY <2>3, <2>5, RankOfLargest
  <2>8. ASSUME NEW i \in R \cup {r}, NEW j \in L \cup {a},
               Rank(i, R \cup {r}) = Rank(j, L \cup {a})
        PROVE  log'[i].notif = arrived'[f][j]
    <3>1. CASE i = r /\ j = a
      BY <1>1, <2>4, <3>1
    <3>2. CASE i \in R /\ j \in L
      BY <1>1, <1>4, <2>4, <2>6, <2>7, <2>8, <3>2 DEF RowsMatch
    <3>3. ~(i = r /\ j \in L) /\ ~(i \in R /\ j = a)
      <4> HIDE DEF R, L, c
      <4>1. c + 1 \in Nat /\ ~(c + 1 <= c)
        BY <2>6
      <4>2. i \in R => Rank(i, R \cup {r}) <= c
        BY <2>6
      <4>3. j \in L => Rank(j, L \cup {a}) <= c
        BY <2>7
      <4> QED
        BY <2>6, <2>7, <2>8, <4>1, <4>2, <4>3
    <3> QED
      BY <3>1, <3>2, <3>3
  <2>9. RowsMatch(f)'
    <3>1. \A i \in R \cup {r}, j \in L \cup {a} :
            Rank(i, R \cup {r}) = Rank(j, L \cup {a}) => log'[i].notif = arrived'[f][j]
      BY <2>8
    <3>2. Cardinality(R \cup {r}) = Cardinality(L \cup {a})
      BY <2>6, <2>7
    <3>3. IsFiniteSet(R \cup {r}) /\ IsFiniteSet(L \cup {a})
      BY <2>6, <2>7
    <3>4. RowsOf(f)' = R \cup {r} /\ ListedFrom(f)' = L \cup {a}
      BY <2>1, <2>2
    <3> HIDE DEF R, L
    <3> QED
      BY <3>1, <3>2, <3>3, <3>4, NowMatch
  <2> QED
    BY <1>5, <2>9
<1>7. CASE f # Source
  <2>1. RowsOf(f)' = RowsOf(f)
    BY <1>2, <1>3, <1>7 DEF RowsOf
  <2>2. ListedFrom(f)' = ListedFrom(f)
    BY <1>1, <1>5, <1>7 DEF ListedFrom, Listed
  <2>3. \A i \in RowsOf(f) : log'[i] = log[i]
    BY <1>3 DEF RowsOf
  <2>4. RowsMatch(f)'
    <3>1. \A i \in RowsOf(f), j \in ListedFrom(f) :
            Rank(i, RowsOf(f)) = Rank(j, ListedFrom(f)) => log'[i].notif = arrived'[f][j]
      BY <1>1, <1>4, <2>3 DEF RowsMatch
    <3>2. /\ IsFiniteSet(RowsOf(f)) /\ IsFiniteSet(ListedFrom(f))
          /\ Cardinality(RowsOf(f)) = Cardinality(ListedFrom(f))
      BY <1>4 DEF RowsMatch
    <3> QED
      BY <2>1, <2>2, <3>1, <3>2, NowMatch
  <2> QED
    BY <1>5, <2>4
<1> QED
  BY <1>6, <1>7

\* Every step keeps the log in step with what came.
LEMMA LogStep == ASSUME TypeOK, TypeOK', LogInv, [Next]_vars PROVE LogInv'
<1>1. CASE UNCHANGED <<log, sock, arrived>>
  <2>1. \A f \in Family : ReadFrom(f)' = ReadFrom(f)
    BY <1>1 DEF ReadFrom
  <2> SUFFICES ASSUME NEW f \in Family PROVE (UnreadIsTheEnd(f) /\ RowsMatch(f))'
    BY DEF LogInv
  <2>2. RowsMatch(f)'
    BY <1>1, <2>1, SameRows DEF LogInv
  <2> QED
    BY <1>1, <2>1, <2>2 DEF LogInv, UnreadIsTheEnd
<1>2. ASSUME NEW n \in Notif, Ignore(n) PROVE LogInv'
  BY <1>2, IgnoreKeepsLog
<1>3. ASSUME NEW n \in Notif, List(n) PROVE LogInv'
  BY <1>3, ListKeepsLog
<1>4. ASSUME NEW d \in flight, NEW again \in BOOLEAN, Arrive(d, again) PROVE LogInv'
  <2>1. d.notif \in Notif /\ Side[d.notif] \in Family
    BY NotifAssumption DEF TypeOK
  <2> QED
    BY <1>4, <2>1, ArriveKeepsLog DEF Arrive, app
<1>5. CASE Register \/ ProcessEvents \/ SelectEmpty \/ ReadFails
  BY <1>1, <1>5 DEF Register, ProcessEvents, SelectEmpty, ReadFails
<1>6. ASSUME NEW n \in Notif, Send(n) PROVE LogInv'
  BY <1>1, <1>6 DEF Send, app
<1>7. ASSUME NEW a \in answers, AnswerArrives(a) PROVE LogInv'
  BY <1>1, <1>7 DEF AnswerArrives, app
<1>8. CASE UNCHANGED vars
  BY <1>1, <1>8 DEF vars, app
<1> QED
  BY <1>2, <1>3, <1>4, <1>5, <1>6, <1>7, <1>8 DEF Next, Thread, Environment

LEMMA LogInit == ASSUME Init PROVE LogInv
<1> SUFFICES ASSUME NEW f \in Family PROVE UnreadIsTheEnd(f) /\ RowsMatch(f)
  BY DEF LogInv
<1>1. sock[f] = <<>> /\ arrived[f] = <<>> /\ log = <<>>
  BY DEF Init
<1>2. ReadFrom(f) = 0
  BY <1>1 DEF ReadFrom
<1>3. RowsOf(f) = {} /\ ListedFrom(f) = {}
  BY <1>1, <1>2 DEF RowsOf, ListedFrom
<1> QED
  BY <1>1, <1>2, <1>3, FS_EmptySet DEF UnreadIsTheEnd, RowsMatch

\* HandleEvents and AsyncCallbackTrap: what the sockets received is in the
\* log, once and in order, or still to be read, for any buffer and any mix
\* of notifications over both transports.
THEOREM LogCorrect == Spec => []LogIsWhatCame
<1>1. ASSUME TypeOK, LogInv PROVE LogIsWhatCame
  <2> SUFFICES ASSUME NEW f \in Family
               PROVE  sock[f] = SubSeq(arrived[f], ReadFrom(f) + 1, Len(arrived[f]))
    BY <1>1 DEF LogIsWhatCame, LogInv, RowsMatch
  <2>1. sock[f] \in Seq(Notif) /\ arrived[f] \in Seq(Notif)
    BY <1>1 DEF TypeOK
  <2>2. UnreadIsTheEnd(f)
    BY <1>1 DEF LogInv
  <2>3. /\ Len(sock[f]) \in Nat /\ Len(arrived[f]) \in Nat
        /\ sock[f] = [i \in 1 .. Len(sock[f]) |-> sock[f][i]]
    BY <2>1
  <2>4. SubSeq(arrived[f], ReadFrom(f) + 1, Len(arrived[f]))
          = [i \in 1 .. Len(sock[f]) |-> arrived[f][ReadFrom(f) + i]]
    <3> DEFINE m == ReadFrom(f)
    <3>1. m \in Nat /\ m + Len(sock[f]) = Len(arrived[f])
      BY <1>1, <2>2, <2>3, ReadNumbers DEF UnreadIsTheEnd
    <3> HIDE DEF m
    <3>2. Len(arrived[f]) - (m + 1) + 1 = Len(sock[f]) /\ m + 1 \in Nat
      BY <2>3, <3>1
    <3>3. SubSeq(arrived[f], m + 1, Len(arrived[f]))
            = [i \in 1 .. Len(sock[f]) |-> arrived[f][m + i]]
      BY <2>1, <2>3, <3>1, <3>2
    <3> QED
      BY <3>3 DEF m
  <2> QED
    BY <2>2, <2>3, <2>4 DEF UnreadIsTheEnd
<1>2. Init => LogInv
  BY LogInit
<1>3. TypeOK /\ TypeOK' /\ LogInv /\ [Next]_vars => LogInv'
  BY LogStep
<1> QED
  BY <1>1, <1>2, <1>3, TypeCorrect, PTL DEF Spec
=============================================================================
