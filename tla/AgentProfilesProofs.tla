-------------------------- MODULE AgentProfilesProofs --------------------------
(***************************************************************************)
(* Theorems about AgentProfiles, for any profiles, users and bounds: what  *)
(* the shared protocol boxes do to the profiles they are set for.          *)
(***************************************************************************)
EXTENDS AgentProfiles, WellFoundedInduction, SequenceTheorems, TLAPS

\* The argument of the operators on boxes.
Widgets == [box : SUBSET Proto, agents : Seq(Profile)]

\* A set of positions has a first one.
LEMMA Least ==
  ASSUME NEW T \in SUBSET Nat, T # {}
  PROVE  \E x \in T : \A y \in T : x <= y
<1>1. PICK x \in T : \A y \in T : <<y, x>> \notin OpToRel(<, Nat)
  BY WFMin, NatLessThanWellFounded, Zenon
<1>2. \A y \in T : ~(y < x)
  BY <1>1, Zenon DEF OpToRel
<1> QED
  BY <1>2

LEMMA FirstFacts ==
  ASSUME NEW ps \in Seq(Profile), NEW n \in Names(ps)
  PROVE  First(ps, n) \in DOMAIN ps /\ ps[First(ps, n)].name = n
<1> DEFINE T == {i \in DOMAIN ps : ps[i].name = n}
<1>1. T # {} /\ T \in SUBSET Nat
  <2>1. \E i \in DOMAIN ps : n = ps[i].name
    BY Zenon DEF Names
  <2>2. DOMAIN ps = 1..Len(ps) /\ Len(ps) \in Nat
    BY LenProperties
  <2>3. T # {}
    BY <2>1
  <2>4. \A i \in T : i \in Nat
    BY <2>2
  <2> QED
    BY <2>3, <2>4
<1>2. \E x \in T : \A y \in T : x <= y
  BY <1>1, Least
<1>3. \E i \in DOMAIN ps : ps[i].name = n /\ \A k \in DOMAIN ps : ps[k].name = n => i <= k
  BY <1>2
<1> QED
  BY <1>3 DEF First
-----------------------------------------------------------------------------
\* Setting boxes never adds, removes or renames a profile, nor changes its
\* user.
Kept(u, w) ==
  /\ u \in Widgets /\ Len(u.agents) = Len(w.agents) /\ DOMAIN u.agents = DOMAIN w.agents
  /\ \A i \in DOMAIN w.agents :
       u.agents[i].name = w.agents[i].name /\ u.agents[i].sec = w.agents[i].sec

LEMMA KeptTwice ==
  ASSUME NEW w, NEW u, NEW x, Kept(u, w), Kept(x, u) PROVE Kept(x, w)
BY DEF Kept

LEMMA KeptSame == ASSUME NEW w \in Widgets PROVE Kept(w, w)
BY DEF Kept

LEMMA InWidgets ==
  ASSUME NEW w \in Widgets, NEW p \in DOMAIN w.agents
  PROVE  /\ w.box \subseteq Proto /\ w.agents \in Seq(Profile)
         /\ p \in 1..Len(w.agents) /\ w.agents[p] \in Profile
         /\ w.agents[p].sup \subseteq Proto /\ w.agents[p].shown \subseteq Sub
<1>1. w.box \in SUBSET Proto /\ w.agents \in Seq(Profile)
  BY DEF Widgets
<1>2. p \in 1..Len(w.agents) /\ w.agents[p] \in Profile
  BY <1>1, LenProperties, ElementOfSeq
<1> QED
  BY <1>1, <1>2 DEF Profile

\* Replacing one profile by one of the same name and user.
LEMMA Put ==
  ASSUME NEW w \in Widgets, NEW p \in DOMAIN w.agents, NEW q \in Profile,
         q.name = w.agents[p].name, q.sec = w.agents[p].sec,
         NEW r, r = [w EXCEPT !.agents = [@ EXCEPT ![p] = q]]
  PROVE  /\ Kept(r, w) /\ r.box = w.box /\ r.agents[p] = q
         /\ \A i \in DOMAIN w.agents \ {p} : r.agents[i] = w.agents[i]
<1>1. w.agents \in Seq(Profile) /\ p \in 1..Len(w.agents)
  BY InWidgets
<1>2. /\ r.box = w.box /\ r.agents = [w.agents EXCEPT ![p] = q]
      /\ r = [box |-> r.box, agents |-> r.agents]
  BY DEF Widgets
<1>3. /\ [w.agents EXCEPT ![p] = q] \in Seq(Profile)
      /\ Len([w.agents EXCEPT ![p] = q]) = Len(w.agents)
  BY <1>1, ExceptSeq
<1>4. r \in Widgets /\ Len(r.agents) = Len(w.agents)
  BY <1>2, <1>3 DEF Widgets
<1>5. /\ DOMAIN r.agents = DOMAIN w.agents /\ r.agents[p] = q
      /\ \A i \in DOMAIN w.agents \ {p} : r.agents[i] = w.agents[i]
  BY <1>1, <1>2
<1>6. \A i \in DOMAIN w.agents :
        r.agents[i].name = w.agents[i].name /\ r.agents[i].sec = w.agents[i].sec
  BY <1>5
<1> QED
  BY <1>2, <1>4, <1>5, <1>6 DEF Kept
-----------------------------------------------------------------------------
(***************************************************************************)
(* The two values of the argument `on' of each operator on boxes.          *)
(***************************************************************************)
On(w, p, v) == [w EXCEPT !.agents[p].sup = @ \cup {v},
                         !.agents[p].shown = @ \cup Touched(w.box, v)]
Off(w, p, v) == [w EXCEPT !.agents[p].sup = @ \ {v},
                          !.agents[p].shown = @ \ Touched(w.box, v)]

WithBox(w, bs) == [w EXCEPT !.box = bs]

Checked(w, c, v) ==
  IF v \in w.box THEN w
  ELSE IF c = 0 THEN WithBox(w, w.box \cup {v})
  ELSE On(WithBox(w, w.box \cup {v}), c, v)

Unchecked(w, c, v) ==
  IF v \notin w.box THEN w
  ELSE IF c = 0 THEN WithBox(w, w.box \ {v})
  ELSE IF w.box = {v} THEN On(w, c, v)
  ELSE Off(WithBox(w, w.box \ {v}), c, v)

Answer(u, c, p, v) ==
  IF v \in u.agents[p].sup THEN On(u, p, v)
  ELSE IF u.box \ {v} = {} THEN Checked(u, c, v) ELSE Off(u, p, v)

Supported(w, c, p, v) ==
  IF v \in w.agents[p].sup THEN Answer(Checked(w, c, v), c, p, v) ELSE w
Unsupported(w, c, p, v) ==
  IF v \in w.agents[p].sup THEN w ELSE Answer(Unchecked(w, c, v), c, p, v)

LEMMA WithBoxFacts ==
  ASSUME NEW w \in Widgets, NEW bs \in SUBSET Proto, NEW x, x = WithBox(w, bs)
  PROVE  Kept(x, w) /\ x.box = bs /\ x.agents = w.agents
<1>1. x = [box |-> bs, agents |-> w.agents] /\ x \in Widgets
  BY DEF WithBox, Widgets
<1> QED
  BY <1>1 DEF Kept

LEMMA CheckIsChecked ==
  ASSUME NEW w \in Widgets, NEW c, NEW v \in Proto
  PROVE  Check(w, c, v, TRUE) = Checked(w, c, v)
<1> DEFINE x == WithBox(w, w.box \cup {v})
<1>1. x.box = w.box \cup {v} /\ w.box \subseteq Proto
  BY DEF WithBox, Widgets
<1>2. Check(w, c, v, TRUE) = IF x.box = w.box THEN w
                             ELSE IF c = 0 THEN x ELSE Record(x, c, v, TRUE)
  BY DEF Check, Refused, WithBox
<1>3. Record(x, c, v, TRUE) = On(x, c, v)
  BY DEF Record, On
<1> HIDE DEF x
<1>4. (x.box = w.box) <=> v \in w.box
  BY <1>1
<1>5. Check(w, c, v, TRUE) = IF v \in w.box THEN w
                             ELSE IF c = 0 THEN x ELSE On(x, c, v)
  BY <1>2, <1>3, <1>4
<1> QED
  BY <1>5 DEF Checked, x

LEMMA CheckIsUnchecked ==
  ASSUME NEW w \in Widgets, NEW c, NEW v \in Proto
  PROVE  Check(w, c, v, FALSE) = Unchecked(w, c, v)
<1> DEFINE x == WithBox(w, w.box \ {v})
<1>1. x.box = w.box \ {v} /\ w.box \subseteq Proto
  BY DEF WithBox, Widgets
<1>2. Check(w, c, v, FALSE) =
        IF x.box = w.box THEN w
        ELSE IF c = 0 THEN x
        ELSE IF x.box \ {v} = {} THEN Record(w, c, v, TRUE) ELSE Record(x, c, v, FALSE)
  BY DEF Check, Refused, WithBox
<1>3. Record(w, c, v, TRUE) = On(w, c, v) /\ Record(x, c, v, FALSE) = Off(x, c, v)
  BY DEF Record, On, Off
<1> HIDE DEF x
<1>4. /\ (x.box = w.box) <=> v \notin w.box
      /\ v \in w.box => ((x.box \ {v} = {}) <=> w.box = {v})
  BY <1>1
<1>5. Check(w, c, v, FALSE) =
        IF v \notin w.box THEN w
        ELSE IF c = 0 THEN x
        ELSE IF w.box = {v} THEN On(w, c, v) ELSE Off(x, c, v)
  BY <1>2, <1>3, <1>4
<1> QED
  BY <1>5 DEF Unchecked, x

LEMMA SupportIsAnswer ==
  ASSUME NEW u \in Widgets, NEW c, NEW p, NEW v \in Proto
  PROVE  ProtocolSupport(u, c, p, v, v \in u.agents[p].sup) = Answer(u, c, p, v)
<1>1. CASE v \in u.agents[p].sup
  <2>1. ProtocolSupport(u, c, p, v, v \in u.agents[p].sup) = On(u, p, v)
    BY <1>1 DEF ProtocolSupport, Refused, Record, On
  <2> QED
    BY <1>1, <2>1 DEF Answer
<1>2. CASE v \notin u.agents[p].sup
  <2>1. ProtocolSupport(u, c, p, v, v \in u.agents[p].sup) =
          IF u.box \ {v} = {} THEN Check(u, c, v, TRUE) ELSE Off(u, p, v)
    BY <1>2 DEF ProtocolSupport, Refused, Record, Off
  <2>2. Check(u, c, v, TRUE) = Checked(u, c, v)
    BY CheckIsChecked
  <2> QED
    BY <1>2, <2>1, <2>2 DEF Answer
<1> QED
  BY <1>1, <1>2
-----------------------------------------------------------------------------
(***************************************************************************)
(* What each does to the box, to the profile it is for and to the others.  *)
(***************************************************************************)
OthersSame(u, w, P) == \A i \in DOMAIN w.agents \ P : u.agents[i] = w.agents[i]

\* Only profile p changes, which has these protocols and pages then.
Effect(u, w, p, bs, sup, shown) ==
  /\ Kept(u, w) /\ OthersSame(u, w, {p})
  /\ u.box = bs /\ u.agents[p].sup = sup /\ u.agents[p].shown = shown

LEMMA OnFacts ==
  ASSUME NEW w \in Widgets, NEW p \in DOMAIN w.agents, NEW v \in Proto
  PROVE  Effect(On(w, p, v), w, p, w.box, w.agents[p].sup \cup {v},
                w.agents[p].shown \cup Touched(w.box, v))
<1> DEFINE r == On(w, p, v)
           t == Touched(w.box, v)
           q == [w.agents[p] EXCEPT !.sup = @ \cup {v}, !.shown = @ \cup t]
<1>1. t \subseteq Sub
  BY DEF Touched
<1>2. w.agents[p] \in Profile
  BY InWidgets
<1>3. r = [w EXCEPT !.agents = [@ EXCEPT ![p] = q]]
  BY DEF On, Widgets
<1> HIDE DEF r
<1>4. /\ q \in Profile /\ q.name = w.agents[p].name /\ q.sec = w.agents[p].sec
      /\ q.sup = w.agents[p].sup \cup {v} /\ q.shown = w.agents[p].shown \cup t
  BY <1>1, <1>2 DEF Profile
<1> HIDE DEF q, t
<1>5. /\ Kept(r, w) /\ r.box = w.box /\ r.agents[p] = q
      /\ \A i \in DOMAIN w.agents \ {p} : r.agents[i] = w.agents[i]
  BY <1>3, <1>4, Put
<1> QED
  BY <1>4, <1>5 DEF OthersSame, Effect, r, t

LEMMA OffFacts ==
  ASSUME NEW w \in Widgets, NEW p \in DOMAIN w.agents, NEW v \in Proto
  PROVE  Effect(Off(w, p, v), w, p, w.box, w.agents[p].sup \ {v},
                w.agents[p].shown \ Touched(w.box, v))
<1> DEFINE r == Off(w, p, v)
           t == Touched(w.box, v)
           q == [w.agents[p] EXCEPT !.sup = @ \ {v}, !.shown = @ \ t]
<1>2. w.agents[p] \in Profile
  BY InWidgets
<1>3. r = [w EXCEPT !.agents = [@ EXCEPT ![p] = q]]
  BY DEF Off, Widgets
<1> HIDE DEF r
<1>4. /\ q \in Profile /\ q.name = w.agents[p].name /\ q.sec = w.agents[p].sec
      /\ q.sup = w.agents[p].sup \ {v} /\ q.shown = w.agents[p].shown \ t
  BY <1>2 DEF Profile
<1> HIDE DEF q, t
<1>5. /\ Kept(r, w) /\ r.box = w.box /\ r.agents[p] = q
      /\ \A i \in DOMAIN w.agents \ {p} : r.agents[i] = w.agents[i]
  BY <1>3, <1>4, Put
<1> QED
  BY <1>4, <1>5 DEF OthersSame, Effect, r, t

LEMMA FrameTwice ==
  ASSUME NEW w, NEW u, NEW x, NEW P, Kept(u, w), Kept(x, u),
         OthersSame(u, w, P), OthersSame(x, u, P)
  PROVE  Kept(x, w) /\ OthersSame(x, w, P)
BY DEF Kept, OthersSame

\* Checking a box when it is not checked.
LEMMA CheckedFacts ==
  ASSUME NEW w \in Widgets, NEW c \in DOMAIN w.agents, NEW v \in Proto, v \notin w.box
  PROVE  Effect(Checked(w, c, v), w, c, w.box \cup {v}, w.agents[c].sup \cup {v},
                w.agents[c].shown \cup Touched(w.box \cup {v}, v))
<1> DEFINE u == Checked(w, c, v)
           x == WithBox(w, w.box \cup {v})
<1>1. w.box \cup {v} \in SUBSET Proto /\ c # 0
  BY InWidgets
<1>2. Kept(x, w) /\ x.box = w.box \cup {v} /\ x.agents = w.agents
  BY <1>1, WithBoxFacts
<1>3. u = On(x, c, v)
  BY <1>1 DEF Checked
<1> HIDE DEF x, u
<1>4. x \in Widgets /\ c \in DOMAIN x.agents
  BY <1>2 DEF Kept
<1>5. Effect(u, x, c, x.box, x.agents[c].sup \cup {v},
             x.agents[c].shown \cup Touched(x.box, v))
  BY <1>3, <1>4, OnFacts
<1>6. Kept(u, w)
  BY <1>2, <1>5, KeptTwice DEF Effect
<1> QED
  BY <1>2, <1>5, <1>6 DEF OthersSame, Effect, u

\* Unchecking a box that is not the last one.
LEMMA UncheckedFacts ==
  ASSUME NEW w \in Widgets, NEW c \in DOMAIN w.agents, NEW v \in Proto,
         v \in w.box, w.box # {v}
  PROVE  Effect(Unchecked(w, c, v), w, c, w.box \ {v}, w.agents[c].sup \ {v},
                w.agents[c].shown \ Touched(w.box \ {v}, v))
<1> DEFINE u == Unchecked(w, c, v)
           x == WithBox(w, w.box \ {v})
<1>1. w.box \ {v} \in SUBSET Proto /\ c # 0
  BY InWidgets
<1>2. Kept(x, w) /\ x.box = w.box \ {v} /\ x.agents = w.agents
  BY <1>1, WithBoxFacts
<1>3. u = Off(x, c, v)
  BY <1>1 DEF Unchecked
<1> HIDE DEF x, u
<1>4. x \in Widgets /\ c \in DOMAIN x.agents
  BY <1>2 DEF Kept
<1>5. Effect(u, x, c, x.box, x.agents[c].sup \ {v},
             x.agents[c].shown \ Touched(x.box, v))
  BY <1>3, <1>4, OffFacts
<1>6. Kept(u, w)
  BY <1>2, <1>5, KeptTwice DEF Effect
<1> QED
  BY <1>2, <1>5, <1>6 DEF OthersSame, Effect, u

\* Whoever is current, no other profile is touched.
LEMMA CheckedFrame ==
  ASSUME NEW w \in Widgets, NEW c \in {0} \cup DOMAIN w.agents, NEW v \in Proto,
         NEW u, u = Checked(w, c, v)
  PROVE  Kept(u, w) /\ OthersSame(u, w, {c})
<1>1. CASE v \in w.box
  BY <1>1, KeptSame DEF Checked, OthersSame
<1>2. CASE v \notin w.box /\ c = 0
  <2>1. u = WithBox(w, w.box \cup {v}) /\ w.box \cup {v} \in SUBSET Proto
    BY <1>2 DEF Checked, Widgets
  <2> QED
    BY <2>1, WithBoxFacts DEF OthersSame
<1>3. CASE v \notin w.box /\ c # 0
  BY <1>3, CheckedFacts DEF Effect
<1> QED
  BY <1>1, <1>2, <1>3

LEMMA UncheckedFrame ==
  ASSUME NEW w \in Widgets, NEW c \in {0} \cup DOMAIN w.agents, NEW v \in Proto,
         NEW u, u = Unchecked(w, c, v)
  PROVE  Kept(u, w) /\ OthersSame(u, w, {c})
<1>1. CASE v \notin w.box
  BY <1>1, KeptSame DEF Unchecked, OthersSame
<1>2. CASE v \in w.box /\ c = 0
  <2>1. u = WithBox(w, w.box \ {v}) /\ w.box \ {v} \in SUBSET Proto
    BY <1>2 DEF Unchecked, Widgets
  <2> QED
    BY <2>1, WithBoxFacts DEF OthersSame
<1>3. CASE c # 0 /\ w.box = {v}
  <2>1. u = On(w, c, v)
    BY <1>3 DEF Unchecked
  <2> QED
    BY <1>3, <2>1, OnFacts DEF Effect
<1>4. CASE v \in w.box /\ c # 0 /\ w.box # {v}
  BY <1>4, UncheckedFacts DEF Effect
<1> QED
  BY <1>1, <1>2, <1>3, <1>4

LEMMA AnswerFrame ==
  ASSUME NEW w \in Widgets, NEW c \in {0} \cup DOMAIN w.agents, NEW p \in DOMAIN w.agents,
         NEW v \in Proto, NEW u, u = Answer(w, c, p, v)
  PROVE  Kept(u, w) /\ OthersSame(u, w, {c, p})
<1>1. u = On(w, p, v) \/ u = Off(w, p, v) \/ u = Checked(w, c, v)
  BY DEF Answer
<1>2. Kept(u, w) /\ (OthersSame(u, w, {p}) \/ OthersSame(u, w, {c}))
  <2>1. CASE u = On(w, p, v)
    <3>1. Kept(On(w, p, v), w) /\ OthersSame(On(w, p, v), w, {p})
      BY OnFacts DEF Effect
    <3> QED
      BY <2>1, <3>1
  <2>2. CASE u = Off(w, p, v)
    <3>1. Kept(Off(w, p, v), w) /\ OthersSame(Off(w, p, v), w, {p})
      BY OffFacts DEF Effect
    <3> QED
      BY <2>2, <3>1
  <2>3. CASE u = Checked(w, c, v)
    BY <2>3, CheckedFrame
  <2> QED
    BY <1>1, <2>1, <2>2, <2>3
<1> QED
  BY <1>2 DEF OthersSame

LEMMA SupportedFrame ==
  ASSUME NEW w \in Widgets, NEW c \in {0} \cup DOMAIN w.agents, NEW p \in DOMAIN w.agents,
         NEW v \in Proto, NEW u, u = Supported(w, c, p, v)
  PROVE  Kept(u, w) /\ OthersSame(u, w, {c, p})
<1>1. CASE v \notin w.agents[p].sup
  BY <1>1, KeptSame DEF Supported, OthersSame
<1>2. CASE v \in w.agents[p].sup
  <2> DEFINE x == Checked(w, c, v)
  <2>1. Kept(x, w) /\ OthersSame(x, w, {c}) /\ u = Answer(x, c, p, v)
    BY <1>2, CheckedFrame DEF Supported
  <2> HIDE DEF x
  <2>2. x \in Widgets /\ DOMAIN x.agents = DOMAIN w.agents
    BY <2>1 DEF Kept
  <2>3. Kept(u, x) /\ OthersSame(u, x, {c, p}) /\ OthersSame(x, w, {c, p})
    BY <2>1, <2>2, AnswerFrame DEF OthersSame
  <2> QED
    BY <2>1, <2>3, FrameTwice
<1> QED
  BY <1>1, <1>2

LEMMA UnsupportedFrame ==
  ASSUME NEW w \in Widgets, NEW c \in {0} \cup DOMAIN w.agents, NEW p \in DOMAIN w.agents,
         NEW v \in Proto, NEW u, u = Unsupported(w, c, p, v)
  PROVE  Kept(u, w) /\ OthersSame(u, w, {c, p})
<1>1. CASE v \in w.agents[p].sup
  BY <1>1, KeptSame DEF Unsupported, OthersSame
<1>2. CASE v \notin w.agents[p].sup
  <2> DEFINE x == Unchecked(w, c, v)
  <2>1. Kept(x, w) /\ OthersSame(x, w, {c}) /\ u = Answer(x, c, p, v)
    BY <1>2, UncheckedFrame DEF Unsupported
  <2> HIDE DEF x
  <2>2. x \in Widgets /\ DOMAIN x.agents = DOMAIN w.agents
    BY <2>1 DEF Kept
  <2>3. Kept(u, x) /\ OthersSame(u, x, {c, p}) /\ OthersSame(x, w, {c, p})
    BY <2>1, <2>2, AnswerFrame DEF OthersSame
  <2> QED
    BY <2>1, <2>3, FrameTwice
<1> QED
  BY <1>1, <1>2

\* ApplyOne, for either value of its flag.
LEMMA ApplyOneIs ==
  ASSUME NEW w \in Widgets, NEW c \in {0} \cup DOMAIN w.agents, NEW p \in DOMAIN w.agents,
         NEW v \in Proto
  PROVE  /\ ApplyOne(w, c, p, v, TRUE) = Supported(w, c, p, v)
         /\ ApplyOne(w, c, p, v, FALSE) = Unsupported(w, c, p, v)
<1>1. ApplyOne(w, c, p, v, TRUE) = Supported(w, c, p, v)
  <2> DEFINE x == Check(w, c, v, TRUE)
  <2>1. ApplyOne(w, c, p, v, TRUE) =
          IF v \in w.agents[p].sup THEN ProtocolSupport(x, c, p, v, v \in x.agents[p].sup) ELSE w
    BY DEF ApplyOne
  <2>2. x = Checked(w, c, v)
    BY CheckIsChecked
  <2>4. Kept(Checked(w, c, v), w)
    BY CheckedFrame
  <2> HIDE DEF x
  <2>5. x \in Widgets
    BY <2>2, <2>4 DEF Kept
  <2>3. ProtocolSupport(x, c, p, v, v \in x.agents[p].sup) = Answer(x, c, p, v)
    BY <2>5, SupportIsAnswer
  <2> QED
    BY <2>1, <2>2, <2>3 DEF Supported
<1>2. ApplyOne(w, c, p, v, FALSE) = Unsupported(w, c, p, v)
  <2> DEFINE x == Check(w, c, v, FALSE)
  <2>1. ApplyOne(w, c, p, v, FALSE) =
          IF v \in w.agents[p].sup THEN w ELSE ProtocolSupport(x, c, p, v, v \in x.agents[p].sup)
    <3>1. CASE v \in w.agents[p].sup
      BY <3>1 DEF ApplyOne
    <3>2. CASE v \notin w.agents[p].sup
      <4>1. (v \in w.agents[p].sup) = FALSE
        BY <3>2
      <4> QED
        BY <3>2, <4>1 DEF ApplyOne
    <3> QED
      BY <3>1, <3>2
  <2>2. x = Unchecked(w, c, v)
    BY CheckIsUnchecked
  <2>4. Kept(Unchecked(w, c, v), w)
    BY UncheckedFrame
  <2> HIDE DEF x
  <2>5. x \in Widgets
    BY <2>2, <2>4 DEF Kept
  <2>3. ProtocolSupport(x, c, p, v, v \in x.agents[p].sup) = Answer(x, c, p, v)
    BY <2>5, SupportIsAnswer
  <2> QED
    BY <2>1, <2>2, <2>3 DEF Unsupported
<1> QED
  BY <1>1, <1>2
-----------------------------------------------------------------------------
(***************************************************************************)
(* ApplySupportedProtocol is six such steps.                               *)
(***************************************************************************)
LEMMA SixSteps ==
  ASSUME NEW w \in Widgets, NEW c \in {0} \cup DOMAIN w.agents, NEW p \in DOMAIN w.agents
  PROVE  \E x1, x2, x3, x4, x5 :
           /\ x1 = Supported(w, c, p, 1) /\ Kept(x1, w)
           /\ x2 = Supported(x1, c, p, 2) /\ Kept(x2, w)
           /\ x3 = Supported(x2, c, p, 3) /\ Kept(x3, w)
           /\ x4 = Unsupported(x3, c, p, 1) /\ Kept(x4, w)
           /\ x5 = Unsupported(x4, c, p, 2) /\ Kept(x5, w)
           /\ ApplySupportedProtocol(w, c, p) = Unsupported(x5, c, p, 3)
<1> DEFINE x1 == Supported(w, c, p, 1)
           x2 == Supported(x1, c, p, 2)
           x3 == Supported(x2, c, p, 3)
           x4 == Unsupported(x3, c, p, 1)
           x5 == Unsupported(x4, c, p, 2)
<1>0. 1 \in Proto /\ 2 \in Proto /\ 3 \in Proto
  BY DEF Proto
<1>a. \A x : Kept(x, w) => x \in Widgets /\ DOMAIN x.agents = DOMAIN w.agents
  BY DEF Kept
<1>1. Kept(x1, w) /\ ApplyOne(w, c, p, 1, TRUE) = x1
  BY <1>0, SupportedFrame, ApplyOneIs
<1> HIDE DEF x1
<1>2. Kept(x2, x1) /\ ApplyOne(x1, c, p, 2, TRUE) = x2
  <2>1. x1 \in Widgets /\ DOMAIN x1.agents = DOMAIN w.agents
    BY <1>a, <1>1
  <2>2. Kept(x2, x1)
    BY <1>0, <2>1, SupportedFrame
  <2> QED
    BY <1>0, <2>1, <2>2, ApplyOneIs
<1> HIDE DEF x2
<1>3. Kept(x2, w)
  BY <1>1, <1>2, KeptTwice
<1>4. Kept(x3, x2) /\ ApplyOne(x2, c, p, 3, TRUE) = x3
  BY <1>0, <1>a, <1>3, SupportedFrame, ApplyOneIs
<1> HIDE DEF x3
<1>5. Kept(x3, w)
  BY <1>3, <1>4, KeptTwice
<1>6. Kept(x4, x3) /\ ApplyOne(x3, c, p, 1, FALSE) = x4
  BY <1>0, <1>a, <1>5, UnsupportedFrame, ApplyOneIs
<1> HIDE DEF x4
<1>7. Kept(x4, w)
  BY <1>5, <1>6, KeptTwice
<1>8. Kept(x5, x4) /\ ApplyOne(x4, c, p, 2, FALSE) = x5
  BY <1>0, <1>a, <1>7, UnsupportedFrame, ApplyOneIs
<1> HIDE DEF x5
<1>9. Kept(x5, w)
  BY <1>7, <1>8, KeptTwice
<1>10. ApplyOne(x5, c, p, 3, FALSE) = Unsupported(x5, c, p, 3)
  BY <1>0, <1>a, <1>9, ApplyOneIs
<1>11. ApplySupportedProtocol(w, c, p) = Unsupported(x5, c, p, 3)
  <2>1. ApplySupportedProtocol(w, c, p) =
          ApplyOne(ApplyOne(ApplyOne(ApplyOne(ApplyOne(ApplyOne(w,
            c, p, 1, TRUE), c, p, 2, TRUE), c, p, 3, TRUE),
            c, p, 1, FALSE), c, p, 2, FALSE), c, p, 3, FALSE)
    BY Zenon DEF ApplySupportedProtocol, ApplyAll
  <2> QED
    BY <1>1, <1>2, <1>4, <1>6, <1>8, <1>10, <2>1, Zenon
<1>12. x2 = Supported(x1, c, p, 2) /\ x3 = Supported(x2, c, p, 3)
       /\ x4 = Unsupported(x3, c, p, 1) /\ x5 = Unsupported(x4, c, p, 2)
  BY DEF x2, x3, x4, x5
<1>13. x1 = Supported(w, c, p, 1)
  BY DEF x1
<1> QED
  BY <1>1, <1>3, <1>5, <1>7, <1>9, <1>11, <1>12, <1>13

LEMMA ApplyFrame ==
  ASSUME NEW w \in Widgets, NEW c \in {0} \cup DOMAIN w.agents, NEW p \in DOMAIN w.agents,
         NEW u, u = ApplySupportedProtocol(w, c, p)
  PROVE  Kept(u, w) /\ OthersSame(u, w, {c, p})
<1>1. PICK x1, x2, x3, x4, x5 :
           /\ x1 = Supported(w, c, p, 1) /\ Kept(x1, w)
           /\ x2 = Supported(x1, c, p, 2) /\ Kept(x2, w)
           /\ x3 = Supported(x2, c, p, 3) /\ Kept(x3, w)
           /\ x4 = Unsupported(x3, c, p, 1) /\ Kept(x4, w)
           /\ x5 = Unsupported(x4, c, p, 2) /\ Kept(x5, w)
           /\ ApplySupportedProtocol(w, c, p) = Unsupported(x5, c, p, 3)
  BY SixSteps
<1>0. 1 \in Proto /\ 2 \in Proto /\ 3 \in Proto
  BY DEF Proto
<1>a. \A x : Kept(x, w) => x \in Widgets /\ DOMAIN x.agents = DOMAIN w.agents
  BY DEF Kept
<1>2. Kept(x1, w) /\ OthersSame(x1, w, {c, p})
  BY <1>0, <1>1, SupportedFrame
<1>3. Kept(x2, x1) /\ OthersSame(x2, x1, {c, p})
  BY <1>0, <1>1, <1>a, SupportedFrame
<1>4. Kept(x3, x2) /\ OthersSame(x3, x2, {c, p})
  BY <1>0, <1>1, <1>a, SupportedFrame
<1>5. Kept(x4, x3) /\ OthersSame(x4, x3, {c, p})
  BY <1>0, <1>1, <1>a, UnsupportedFrame
<1>6. Kept(x5, x4) /\ OthersSame(x5, x4, {c, p})
  BY <1>0, <1>1, <1>a, UnsupportedFrame
<1>7. Kept(u, x5) /\ OthersSame(u, x5, {c, p})
  BY <1>0, <1>1, <1>a, UnsupportedFrame
<1>8. OthersSame(x2, w, {c, p}) /\ Kept(x2, w)
  BY <1>2, <1>3, FrameTwice
<1>9. OthersSame(x3, w, {c, p}) /\ Kept(x3, w)
  BY <1>8, <1>4, FrameTwice
<1>10. OthersSame(x4, w, {c, p}) /\ Kept(x4, w)
  BY <1>9, <1>5, FrameTwice
<1>11. OthersSame(x5, w, {c, p}) /\ Kept(x5, w)
  BY <1>10, <1>6, FrameTwice
<1> QED
  BY <1>11, <1>7, FrameTwice
-----------------------------------------------------------------------------
(***************************************************************************)
(* ApplySupportedProtocol for the current profile p, from whatever state   *)
(* the boxes are in.  After the three steps for supported protocols all of *)
(* these are checked; the steps for the others then uncheck one box each.  *)
(* Settled(w, p, k) is where they are after the first k boxes.             *)
(***************************************************************************)
SettledAt(bs, sup, shown, k) ==
  /\ sup \subseteq bs
  /\ \A x \in bs : x <= k => x \in sup
  /\ \A g \in shown : Uses[g] \cap sup # {} \/ \E x \in Uses[g] : x > k
  /\ 3 \in sup => "v3" \in shown

Settled(w, p, k) == SettledAt(w.box, w.agents[p].sup, w.agents[p].shown, k)

\* The boxes are the protocols of profile p, and no page is shown that they
\* do not need; the SnmpV3 page is, if they need it.
Shows(w, p) ==
  /\ w.box = w.agents[p].sup
  /\ w.agents[p].shown \subseteq Needed(w.agents[p].sup)
  /\ 3 \in w.agents[p].sup => "v3" \in w.agents[p].shown

LEMMA UsesFacts == \A g \in Sub : Uses[g] \subseteq Proto /\ Uses[g] # {}
BY DEF Uses, Sub, Proto

LEMMA TouchedFacts ==
  ASSUME NEW bs, NEW v
  PROVE  /\ \A g \in Touched(bs, v) : g \in Sub /\ v \in Uses[g]
         /\ \A g \in Sub \ Touched(bs, v) :
              v \in Uses[g] => \E x \in Uses[g] : x \in bs /\ x # v
BY DEF Touched

\* The SnmpV3 page is decided by box V3, whatever the others are.
LEMMA TouchedV3 ==
  ASSUME NEW bs, NEW v \in Proto
  PROVE  "v3" \in Touched(bs, v) <=> v = 3
BY DEF Touched, Uses, Sub, Proto

\* A page that a checked box other than v needs is not decided by v.
LEMMA TouchedNeeded ==
  ASSUME NEW bs, NEW v, NEW sup, sup \subseteq bs, v \notin sup
  PROVE  Needed(sup) \cap Touched(bs \ {v}, v) = {}
BY DEF Needed, Touched

\* A supported protocol: its box is checked, and pages may appear.
LEMMA SupportedStep ==
  ASSUME NEW w \in Widgets, NEW p \in DOMAIN w.agents, NEW v \in Proto,
         NEW u, u = Supported(w, p, p, v)
  PROVE  /\ u.agents[p].sup = w.agents[p].sup
         /\ w.box \subseteq u.box /\ (v \in w.agents[p].sup => v \in u.box)
         /\ w.agents[p].shown \subseteq u.agents[p].shown
         /\ v = 3 /\ v \in w.agents[p].sup => "v3" \in u.agents[p].shown
<1>1. CASE v \notin w.agents[p].sup
  BY <1>1 DEF Supported
<1>2. CASE v \in w.agents[p].sup
  <2> DEFINE x == Checked(w, p, v)
  <2>1. Kept(x, w)
    BY CheckedFrame
  <2>2. /\ x.agents[p].sup = w.agents[p].sup /\ x.box = w.box \cup {v}
        /\ w.agents[p].shown \subseteq x.agents[p].shown
    <3>1. CASE v \in w.box
      BY <3>1 DEF Checked
    <3>2. CASE v \notin w.box
      <4>1. Effect(x, w, p, w.box \cup {v}, w.agents[p].sup \cup {v},
                   w.agents[p].shown \cup Touched(w.box \cup {v}, v))
        BY <3>2, CheckedFacts
      <4> QED
        BY <1>2, <4>1 DEF Effect
    <3> QED
      BY <3>1, <3>2
  <2>3. u = Answer(x, p, p, v)
    BY <1>2 DEF Supported
  <2> HIDE DEF x
  <2>4. u = On(x, p, v) /\ x \in Widgets /\ p \in DOMAIN x.agents
    BY <1>2, <2>1, <2>2, <2>3 DEF Answer, Kept
  <2>5. Effect(u, x, p, x.box, x.agents[p].sup \cup {v},
               x.agents[p].shown \cup Touched(x.box, v))
    BY <2>4, OnFacts
  <2>6. v = 3 => "v3" \in Touched(x.box, v)
    BY TouchedV3
  <2> QED
    BY <1>2, <2>2, <2>5, <2>6 DEF Effect
<1> QED
  BY <1>1, <1>2

LEMMA SettledSupported ==
  ASSUME NEW bs \in SUBSET Proto, NEW sup \in SUBSET Proto, NEW shown \in SUBSET Sub,
         NEW v \in Proto, SettledAt(bs, sup, shown, v - 1), v \in sup
  PROVE  SettledAt(bs, sup, shown, v)
<1>1. \A y \in Proto : (y <= v <=> y <= v - 1 \/ y = v) /\ (y > v - 1 <=> y = v \/ y > v)
  BY DEF Proto
<1>2. \A x \in bs : x <= v => x \in sup
  BY <1>1 DEF SettledAt
<1>3. ASSUME NEW g \in shown, Uses[g] \cap sup = {} PROVE \E x \in Uses[g] : x > v
  <2>1. PICK x \in Uses[g] : x > v - 1
    BY <1>3 DEF SettledAt
  <2>2. x \in Proto /\ x \notin sup
    BY <1>3, <2>1, UsesFacts
  <2> QED
    BY <1>1, <2>1, <2>2
<1> QED
  BY <1>2, <1>3 DEF SettledAt

LEMMA SettledUnchecked ==
  ASSUME NEW bs \in SUBSET Proto, NEW sup \in SUBSET Proto, NEW shown \in SUBSET Sub,
         NEW v \in Proto, SettledAt(bs, sup, shown, v - 1), v \notin sup
  PROVE  SettledAt(bs \ {v}, sup, shown \ Touched(bs \ {v}, v), v)
<1>1. \A y \in Proto : (y <= v <=> y <= v - 1 \/ y = v) /\ (y > v - 1 <=> y = v \/ y > v)
  BY DEF Proto
<1>2. \A x \in bs \ {v} : x <= v => x \in sup
  BY <1>1 DEF SettledAt
<1>3. ASSUME NEW g \in shown \ Touched(bs \ {v}, v), Uses[g] \cap sup = {}
      PROVE  \E x \in Uses[g] : x > v
  <2>1. PICK x \in Uses[g] : x > v - 1
    BY <1>3 DEF SettledAt
  <2>2. g \in Sub \ Touched(bs \ {v}, v) /\ Uses[g] \subseteq Proto
    BY <1>3, UsesFacts
  <2>3. CASE x = v
    <3>1. PICK z \in Uses[g] : z \in bs \ {v} /\ z # v
      BY <2>1, <2>2, <2>3, TouchedFacts
    <3>2. z \in Proto /\ z \notin sup
      BY <1>3, <2>2, <3>1
    <3>3. z > v
      <4>1. ~(z <= v)
        BY <1>2, <3>1, <3>2
      <4> QED
        BY <3>2, <4>1 DEF Proto
    <3> QED
      BY <3>3
  <2>4. CASE x # v
    <3>1. x > v
      BY <1>1, <2>1, <2>2, <2>4
    <3> QED
      BY <3>1
  <2> QED
    BY <2>3, <2>4
<1>4. sup \subseteq bs \ {v}
  BY DEF SettledAt
<1>5. 3 \in sup => "v3" \in shown \ Touched(bs \ {v}, v)
  BY TouchedV3 DEF SettledAt
<1> QED
  BY <1>2, <1>3, <1>4, <1>5 DEF SettledAt

LEMMA SettledLast ==
  ASSUME NEW bs \in SUBSET Proto, NEW sup \in SUBSET Proto, NEW shown \in SUBSET Sub,
         NEW v \in Proto, SettledAt(bs, sup, shown, v - 1), sup = {}
  PROVE  SettledAt({v}, {v}, shown \cup Touched({v}, v), v)
<1>1. \A y \in Proto : y > v - 1 <=> y = v \/ y > v
  BY DEF Proto
<1>2. ASSUME NEW g \in shown, v \notin Uses[g] PROVE \E x \in Uses[g] : x > v
  <2>1. PICK x \in Uses[g] : x > v - 1
    BY DEF SettledAt
  <2>2. x \in Proto /\ x # v
    BY <1>2, <2>1, UsesFacts
  <2>3. x > v
    BY <1>1, <2>1, <2>2
  <2> QED
    BY <2>3
<1>3. \A g \in Touched({v}, v) : v \in Uses[g]
  BY TouchedFacts
<1>4. 3 \in {v} => "v3" \in Touched({v}, v)
  BY TouchedV3
<1> QED
  BY <1>2, <1>3, <1>4 DEF SettledAt

LEMMA FromEffect ==
  ASSUME NEW u, NEW w, NEW p, NEW bs, NEW sup, NEW shown, NEW k,
         Effect(u, w, p, bs, sup, shown), SettledAt(bs, sup, shown, k)
  PROVE  Settled(u, p, k) /\ u.agents[p].sup = sup /\ u.agents[p].shown = shown
BY DEF Effect, Settled

\* Recording twice is recording once.
LEMMA EffectTwice ==
  ASSUME NEW u, NEW x, NEW w, NEW p, NEW bs, NEW sup, NEW shown, NEW bs2, NEW sup2, NEW shown2,
         Effect(x, w, p, bs, sup, shown), Effect(u, x, p, bs2, sup2, shown2)
  PROVE  Effect(u, w, p, bs2, sup2, shown2)
<1>1. Kept(u, w) /\ OthersSame(u, w, {p})
  BY FrameTwice DEF Effect
<1> QED
  BY <1>1 DEF Effect

\* An unsupported protocol: its box and its pages go, unless it is the last.
LEMMA UnsupportedEffect ==
  ASSUME NEW w \in Widgets, NEW p \in DOMAIN w.agents, NEW v \in Proto,
         NEW bs, bs = w.box, NEW sup, sup = w.agents[p].sup,
         NEW shown, shown = w.agents[p].shown, sup \subseteq bs, v \notin sup,
         NEW u, u = Unsupported(w, p, p, v)
  PROVE  /\ bs \ {v} = {} => Effect(u, w, p, {v}, {v}, shown \cup Touched({v}, v))
         /\ bs \ {v} # {} => Effect(u, w, p, bs \ {v}, sup, shown \ Touched(bs \ {v}, v))
<1> DEFINE x == Unchecked(w, p, v)
<1>1. u = Answer(x, p, p, v) /\ p # 0 /\ bs \in SUBSET Proto
  BY InWidgets DEF Unsupported
<1>2. CASE v \notin bs
  <2>1. x = w
    BY <1>2 DEF Unchecked
  <2>2. u = IF bs = {} THEN Checked(w, p, v) ELSE Off(w, p, v)
    BY <1>1, <1>2, <2>1 DEF Answer
  <2>3. CASE bs = {}
    <3>1. Effect(u, w, p, bs \cup {v}, sup \cup {v}, shown \cup Touched(bs \cup {v}, v))
      BY <1>2, <2>2, <2>3, CheckedFacts
    <3>2. bs \cup {v} = {v} /\ sup \cup {v} = {v} /\ bs \ {v} = {}
      BY <2>3
    <3> QED
      BY <3>1, <3>2
  <2>4. CASE bs # {}
    <3>1. Effect(u, w, p, bs, sup \ {v}, shown \ Touched(bs, v))
      BY <2>2, <2>4, OffFacts
    <3>2. bs \ {v} = bs /\ sup \ {v} = sup
      BY <1>2
    <3> QED
      BY <2>4, <3>1, <3>2
  <2> QED
    BY <2>3, <2>4
<1>3. CASE v \in bs /\ bs # {v}
  <2> DEFINE h == shown \ Touched(bs \ {v}, v)
  <2>1. Effect(x, w, p, bs \ {v}, sup, h)
    <3>1. sup \ {v} = sup
      OBVIOUS
    <3>2. Effect(x, w, p, bs \ {v}, sup \ {v}, h)
      BY <1>3, UncheckedFacts
    <3> QED
      BY <3>1, <3>2
  <2> HIDE DEF x
  <2>2. /\ x \in Widgets /\ p \in DOMAIN x.agents /\ x.box = bs \ {v} /\ x.agents[p].sup = sup
        /\ x.agents[p].shown = h
    BY <2>1 DEF Effect, Kept
  <2>3. u = Off(x, p, v)
    <3>1. (bs \ {v}) \ {v} # {}
      BY <1>3
    <3> QED
      BY <1>1, <2>2, <3>1 DEF Answer
  <2>4. Effect(u, x, p, x.box, x.agents[p].sup \ {v}, x.agents[p].shown \ Touched(x.box, v))
    <3>1. x \in Widgets /\ p \in DOMAIN x.agents
      BY <2>2
    <3> QED
      BY <2>3, <3>1, OffFacts
  <2>5. x.agents[p].sup \ {v} = sup /\ x.agents[p].shown \ Touched(x.box, v) = h
    BY <2>2
  <2>6. Effect(u, x, p, bs \ {v}, sup, h)
    BY <2>2, <2>4, <2>5
  <2>7. Effect(u, w, p, bs \ {v}, sup, h)
    BY <2>1, <2>6, EffectTwice
  <2>8. bs \ {v} # {}
    BY <1>3
  <2> QED
    BY <2>7, <2>8
<1>4. CASE bs = {v}
  <2> DEFINE h == shown \cup Touched({v}, v)
  <2>1. x = On(w, p, v) /\ sup \cup {v} = {v}
    BY <1>1, <1>4 DEF Unchecked
  <2>2. Effect(x, w, p, {v}, {v}, h)
    <3>1. Effect(x, w, p, bs, sup \cup {v}, shown \cup Touched(bs, v))
      BY <2>1, OnFacts
    <3> QED
      BY <1>4, <2>1, <3>1
  <2> HIDE DEF x
  <2>3. /\ x \in Widgets /\ p \in DOMAIN x.agents /\ x.box = {v} /\ x.agents[p].sup = {v}
        /\ x.agents[p].shown = h
    BY <2>2 DEF Effect, Kept
  <2>4. u = On(x, p, v)
    BY <1>1, <2>3 DEF Answer
  <2>5. Effect(u, x, p, x.box, x.agents[p].sup \cup {v}, x.agents[p].shown \cup Touched(x.box, v))
    <3>1. x \in Widgets /\ p \in DOMAIN x.agents
      BY <2>3
    <3> QED
      BY <2>4, <3>1, OnFacts
  <2>6. x.agents[p].sup \cup {v} = {v} /\ x.agents[p].shown \cup Touched(x.box, v) = h
    BY <2>3
  <2>7. Effect(u, x, p, {v}, {v}, h)
    BY <2>3, <2>5, <2>6
  <2>8. Effect(u, w, p, {v}, {v}, h)
    BY <2>2, <2>7, EffectTwice
  <2>9. bs \ {v} = {}
    BY <1>4
  <2> QED
    BY <2>8, <2>9
<1> QED
  BY <1>2, <1>3, <1>4

LEMMA KeepsTwice ==
  ASSUME NEW p, NEW q, NEW r, p.sup # {}, Keeps(p, q), q.sup # {} => Keeps(q, r)
  PROVE  Keeps(p, r)
BY DEF Keeps

\* Box and profile come out of it settled one further, and the profile keeps
\* its protocols and the pages they need, unless it has none.
LEMMA UnsupportedStep ==
  ASSUME NEW w \in Widgets, NEW p \in DOMAIN w.agents, NEW v \in Proto,
         Settled(w, p, v - 1), NEW u, u = Unsupported(w, p, p, v)
  PROVE  Settled(u, p, v)
         /\ (w.agents[p].sup # {} => Keeps(w.agents[p], u.agents[p]))
<1>1. PICK bs, sup, shown : bs = w.box /\ sup = w.agents[p].sup /\ shown = w.agents[p].shown
  OBVIOUS
<1>2. bs \in SUBSET Proto /\ sup \in SUBSET Proto /\ shown \in SUBSET Sub
  BY <1>1, InWidgets
<1>3. SettledAt(bs, sup, shown, v - 1) /\ sup \subseteq bs
  BY <1>1 DEF Settled, SettledAt
<1>4. CASE v \in sup
  <2>1. u = w /\ SettledAt(bs, sup, shown, v)
    BY <1>1, <1>2, <1>3, <1>4, SettledSupported DEF Unsupported
  <2> QED
    BY <1>1, <2>1 DEF Settled, Keeps
<1>5. CASE v \notin sup /\ bs \ {v} # {}
  <2>1. Effect(u, w, p, bs \ {v}, sup, shown \ Touched(bs \ {v}, v))
    BY <1>1, <1>3, <1>5, UnsupportedEffect
  <2>2. SettledAt(bs \ {v}, sup, shown \ Touched(bs \ {v}, v), v)
    BY <1>2, <1>3, <1>5, SettledUnchecked
  <2>3. /\ Settled(u, p, v) /\ u.agents[p].sup = sup
        /\ u.agents[p].shown = shown \ Touched(bs \ {v}, v)
    BY <2>1, <2>2, FromEffect
  <2>4. Needed(sup) \cap Touched(bs \ {v}, v) = {}
    BY <1>3, <1>5, TouchedNeeded
  <2>5. Keeps(w.agents[p], u.agents[p])
    BY <1>1, <2>3, <2>4 DEF Keeps
  <2> QED
    BY <2>3, <2>5
<1>6. CASE v \notin sup /\ bs \ {v} = {}
  <2>1. Effect(u, w, p, {v}, {v}, shown \cup Touched({v}, v))
    BY <1>1, <1>3, <1>6, UnsupportedEffect
  <2>2. sup = {}
    BY <1>3, <1>6
  <2>3. SettledAt({v}, {v}, shown \cup Touched({v}, v), v)
    BY <1>2, <1>3, <2>2, SettledLast
  <2>4. Settled(u, p, v)
    BY <2>1, <2>3, FromEffect
  <2> QED
    BY <1>1, <2>2, <2>4
<1> QED
  BY <1>4, <1>5, <1>6

\* Making p current: the page shows it, and it has the protocols it had, with
\* the pages they need.
LEMMA ApplyCurrent ==
  ASSUME NEW w \in Widgets, NEW p \in DOMAIN w.agents,
         NEW u, u = ApplySupportedProtocol(w, p, p)
  PROVE  /\ Kept(u, w) /\ OthersSame(u, w, {p}) /\ Shows(u, p)
         /\ w.agents[p].sup # {} => Keeps(w.agents[p], u.agents[p])
<1>1. PICK x1, x2, x3, x4, x5 :
           /\ x1 = Supported(w, p, p, 1) /\ Kept(x1, w)
           /\ x2 = Supported(x1, p, p, 2) /\ Kept(x2, w)
           /\ x3 = Supported(x2, p, p, 3) /\ Kept(x3, w)
           /\ x4 = Unsupported(x3, p, p, 1) /\ Kept(x4, w)
           /\ x5 = Unsupported(x4, p, p, 2) /\ Kept(x5, w)
           /\ ApplySupportedProtocol(w, p, p) = Unsupported(x5, p, p, 3)
  BY SixSteps
<1>2. 1 \in Proto /\ 2 \in Proto /\ 3 \in Proto
  BY DEF Proto
<1>3. \A x : Kept(x, w) => x \in Widgets /\ DOMAIN x.agents = DOMAIN w.agents
  BY DEF Kept
<1>4. PICK s : s = w.agents[p].sup
  OBVIOUS
<1>5. s \subseteq Proto
  BY <1>4, InWidgets
<1>6. /\ x1.agents[p].sup = s /\ (1 \in s => 1 \in x1.box)
      /\ w.agents[p].shown \subseteq x1.agents[p].shown
  BY <1>1, <1>2, <1>4, SupportedStep
<1>7. /\ x2.agents[p].sup = s /\ x1.box \subseteq x2.box /\ (2 \in s => 2 \in x2.box)
      /\ x1.agents[p].shown \subseteq x2.agents[p].shown
  BY <1>1, <1>2, <1>3, <1>6, SupportedStep
<1>8. /\ x3.agents[p].sup = s /\ x2.box \subseteq x3.box /\ (3 \in s => 3 \in x3.box)
      /\ x2.agents[p].shown \subseteq x3.agents[p].shown
      /\ 3 \in s => "v3" \in x3.agents[p].shown
  BY <1>1, <1>2, <1>3, <1>7, SupportedStep
<1>9. Settled(x3, p, 0)
  <2>1. x3.box \subseteq Proto /\ x3.agents[p].shown \subseteq Sub
    BY <1>1, <1>3, InWidgets
  <2>2. s \subseteq x3.box
    BY <1>5, <1>6, <1>7, <1>8 DEF Proto
  <2>3. \A x \in x3.box : x > 0
    BY <2>1 DEF Proto
  <2>4. \A g \in x3.agents[p].shown : \E x \in Uses[g] : x > 0
    BY <2>1, UsesFacts DEF Proto
  <2>5. \A x \in x3.box : ~(x <= 0)
    BY <2>1 DEF Proto
  <2> QED
    BY <1>8, <2>2, <2>4, <2>5 DEF Settled, SettledAt
<1>a. Keeps(w.agents[p], x3.agents[p])
  BY <1>4, <1>6, <1>7, <1>8 DEF Keeps
<1>10. Settled(x4, p, 1) /\ (s # {} => Keeps(w.agents[p], x4.agents[p]))
  <2>1. x3 \in Widgets /\ p \in DOMAIN x3.agents /\ Settled(x3, p, 1 - 1)
    BY <1>1, <1>3, <1>9
  <2>2. /\ Settled(x4, p, 1)
        /\ x3.agents[p].sup # {} => Keeps(x3.agents[p], x4.agents[p])
    BY <1>1, <1>2, <2>1, UnsupportedStep
  <2> QED
    BY <1>4, <1>a, <2>2, KeepsTwice
<1>11. Settled(x5, p, 2) /\ (s # {} => Keeps(w.agents[p], x5.agents[p]))
  <2>1. x4 \in Widgets /\ p \in DOMAIN x4.agents /\ Settled(x4, p, 2 - 1)
    BY <1>1, <1>3, <1>10
  <2>2. /\ Settled(x5, p, 2)
        /\ x4.agents[p].sup # {} => Keeps(x4.agents[p], x5.agents[p])
    BY <1>1, <1>2, <2>1, UnsupportedStep
  <2> QED
    BY <1>4, <1>10, <2>2, KeepsTwice
<1>12. Settled(u, p, 3) /\ (s # {} => Keeps(w.agents[p], u.agents[p]))
  <2>1. x5 \in Widgets /\ p \in DOMAIN x5.agents /\ Settled(x5, p, 3 - 1)
    BY <1>1, <1>3, <1>11
  <2>2. /\ Settled(u, p, 3)
        /\ x5.agents[p].sup # {} => Keeps(x5.agents[p], u.agents[p])
    BY <1>1, <1>2, <2>1, UnsupportedStep
  <2> QED
    BY <1>4, <1>11, <2>2, KeepsTwice
<1>13. Kept(u, w) /\ OthersSame(u, w, {p})
  <2>1. Kept(u, w) /\ OthersSame(u, w, {p, p})
    BY ApplyFrame
  <2> QED
    BY <2>1
<1>14. Shows(u, p)
  <2>1. u.box \subseteq Proto /\ u.agents[p].shown \subseteq Sub
    BY <1>3, <1>13, InWidgets
  <2>2. \A x \in u.box : x <= 3
    BY <2>1 DEF Proto
  <2>3. \A g \in u.agents[p].shown : \A x \in Uses[g] : ~(x > 3)
    BY <2>1, UsesFacts DEF Proto
  <2> QED
    BY <1>12, <2>1, <2>2, <2>3 DEF Settled, SettledAt, Shows, Needed
<1> QED
  BY <1>4, <1>12, <1>13, <1>14
-----------------------------------------------------------------------------
(***************************************************************************)
(* The general page is shown while another profile's protocols are set.    *)
(***************************************************************************)
ShowsAt(bs, sup, shown) ==
  bs = sup /\ shown \subseteq Needed(sup) /\ (3 \in sup => "v3" \in shown)

LEMMA ShowsEffect ==
  ASSUME NEW u, NEW w, NEW p, NEW bs, NEW sup, NEW shown,
         Effect(u, w, p, bs, sup, shown), ShowsAt(bs, sup, shown)
  PROVE  Shows(u, p)
BY DEF Effect, ShowsAt, Shows

LEMMA ShowsParts ==
  ASSUME NEW w \in Widgets, NEW p \in DOMAIN w.agents, Shows(w, p)
  PROVE  \E bs \in SUBSET Proto, shown \in SUBSET Sub :
           /\ w.box = bs /\ w.agents[p].sup = bs /\ w.agents[p].shown = shown
           /\ ShowsAt(bs, bs, shown)
<1>1. w.box \in SUBSET Proto /\ w.agents[p].shown \in SUBSET Sub
  BY InWidgets
<1> QED
  BY <1>1 DEF Shows, ShowsAt

\* A protocol more, or one less.
LEMMA ShowsMore ==
  ASSUME NEW bs \in SUBSET Proto, NEW shown \in SUBSET Sub, NEW v \in Proto,
         ShowsAt(bs, bs, shown)
  PROVE  ShowsAt(bs \cup {v}, bs \cup {v}, shown \cup Touched(bs \cup {v}, v))
<1>1. \A g \in Touched(bs \cup {v}, v) : g \in Sub /\ v \in Uses[g]
  BY TouchedFacts
<1>2. v = 3 => "v3" \in Touched(bs \cup {v}, v)
  BY TouchedV3
<1> QED
  BY <1>1, <1>2 DEF ShowsAt, Needed

LEMMA ShowsLess ==
  ASSUME NEW bs \in SUBSET Proto, NEW shown \in SUBSET Sub, NEW v \in Proto,
         ShowsAt(bs, bs, shown)
  PROVE  ShowsAt(bs \ {v}, bs \ {v}, shown \ Touched(bs \ {v}, v))
<1>1. ASSUME NEW g \in shown \ Touched(bs \ {v}, v) PROVE Uses[g] \cap (bs \ {v}) # {}
  <2>1. PICK x \in Uses[g] : x \in bs
    BY DEF ShowsAt, Needed
  <2>2. CASE x = v
    <3>1. g \in Sub \ Touched(bs \ {v}, v)
      OBVIOUS
    <3>2. \E y \in Uses[g] : y \in bs \ {v} /\ y # v
      BY <2>1, <2>2, <3>1, TouchedFacts
    <3> QED
      BY <3>2
  <2>3. CASE x # v
    BY <2>1, <2>3
  <2> QED
    BY <2>2, <2>3
<1>2. 3 \in bs \ {v} => "v3" \in shown \ Touched(bs \ {v}, v)
  BY TouchedV3 DEF ShowsAt
<1> QED
  BY <1>1, <1>2 DEF ShowsAt, Needed

LEMMA CheckedShows ==
  ASSUME NEW w \in Widgets, NEW c \in DOMAIN w.agents, NEW v \in Proto, Shows(w, c)
  PROVE  Shows(Checked(w, c, v), c)
<1>1. CASE v \in w.box
  BY <1>1 DEF Checked
<1>2. CASE v \notin w.box
  <2>1. PICK bs \in SUBSET Proto, shown \in SUBSET Sub :
           /\ w.box = bs /\ w.agents[c].sup = bs /\ w.agents[c].shown = shown
           /\ ShowsAt(bs, bs, shown)
    BY ShowsParts
  <2>2. Effect(Checked(w, c, v), w, c, w.box \cup {v}, w.agents[c].sup \cup {v},
               w.agents[c].shown \cup Touched(w.box \cup {v}, v))
    BY <1>2, CheckedFacts
  <2>3. Effect(Checked(w, c, v), w, c, bs \cup {v}, bs \cup {v},
               shown \cup Touched(bs \cup {v}, v))
    BY <2>1, <2>2
  <2> QED
    BY <2>1, <2>3, ShowsMore, ShowsEffect
<1> QED
  BY <1>1, <1>2

LEMMA UncheckedShows ==
  ASSUME NEW w \in Widgets, NEW c \in DOMAIN w.agents, NEW v \in Proto, Shows(w, c)
  PROVE  Shows(Unchecked(w, c, v), c)
<1>1. CASE v \notin w.box
  BY <1>1 DEF Unchecked
<1>2. CASE v \in w.box /\ w.box # {v}
  <2>1. PICK bs \in SUBSET Proto, shown \in SUBSET Sub :
           /\ w.box = bs /\ w.agents[c].sup = bs /\ w.agents[c].shown = shown
           /\ ShowsAt(bs, bs, shown)
    BY ShowsParts
  <2>2. Effect(Unchecked(w, c, v), w, c, w.box \ {v}, w.agents[c].sup \ {v},
               w.agents[c].shown \ Touched(w.box \ {v}, v))
    BY <1>2, UncheckedFacts
  <2>3. Effect(Unchecked(w, c, v), w, c, bs \ {v}, bs \ {v}, shown \ Touched(bs \ {v}, v))
    BY <2>1, <2>2
  <2> QED
    BY <2>1, <2>3, ShowsLess, ShowsEffect
<1>3. CASE w.box = {v}
  <2>1. PICK bs \in SUBSET Proto, shown \in SUBSET Sub :
           /\ w.box = bs /\ w.agents[c].sup = bs /\ w.agents[c].shown = shown
           /\ ShowsAt(bs, bs, shown)
    BY ShowsParts
  <2>2. Unchecked(w, c, v) = On(w, c, v)
    <3>1. c # 0
      BY InWidgets
    <3> QED
      BY <1>3, <3>1 DEF Unchecked
  <2>3. Effect(On(w, c, v), w, c, w.box, w.agents[c].sup \cup {v},
               w.agents[c].shown \cup Touched(w.box, v))
    BY OnFacts
  <2>4. bs \cup {v} = bs
    BY <1>3, <2>1
  <2>5. Effect(On(w, c, v), w, c, bs \cup {v}, bs \cup {v}, shown \cup Touched(bs \cup {v}, v))
    BY <2>1, <2>3, <2>4
  <2> QED
    BY <2>1, <2>2, <2>5, ShowsMore, ShowsEffect
<1> QED
  BY <1>1, <1>2, <1>3

LEMMA AnswerShows ==
  ASSUME NEW w \in Widgets, NEW c \in DOMAIN w.agents, NEW p \in DOMAIN w.agents, c # p,
         NEW v \in Proto, Shows(w, c)
  PROVE  Shows(Answer(w, c, p, v), c)
<1>1. Shows(On(w, p, v), c)
  <2>1. On(w, p, v).box = w.box /\ OthersSame(On(w, p, v), w, {p})
    BY OnFacts DEF Effect
  <2>2. On(w, p, v).agents[c] = w.agents[c]
    BY <2>1 DEF OthersSame
  <2> QED
    BY <2>1, <2>2 DEF Shows
<1>2. Shows(Off(w, p, v), c)
  <2>1. Off(w, p, v).box = w.box /\ OthersSame(Off(w, p, v), w, {p})
    <3>1. Effect(Off(w, p, v), w, p, w.box, w.agents[p].sup \ {v},
                 w.agents[p].shown \ Touched(w.box, v))
      BY OffFacts
    <3> QED
      BY <3>1 DEF Effect
  <2>2. Off(w, p, v).agents[c] = w.agents[c]
    BY <2>1 DEF OthersSame
  <2> QED
    BY <2>1, <2>2 DEF Shows
<1> QED
  BY <1>1, <1>2, CheckedShows DEF Answer

LEMMA SupportedShows ==
  ASSUME NEW w \in Widgets, NEW c \in DOMAIN w.agents, NEW p \in DOMAIN w.agents, c # p,
         NEW v \in Proto, Shows(w, c)
  PROVE  Shows(Supported(w, c, p, v), c) /\ Shows(Unsupported(w, c, p, v), c)
<1>1. Shows(Supported(w, c, p, v), c)
  <2> DEFINE x == Checked(w, c, v)
  <2>1. Kept(x, w) /\ Shows(x, c)
    BY CheckedFrame, CheckedShows
  <2> HIDE DEF x
  <2>2. x \in Widgets /\ DOMAIN x.agents = DOMAIN w.agents
    BY <2>1 DEF Kept
  <2>3. Shows(Answer(x, c, p, v), c)
    BY <2>1, <2>2, AnswerShows
  <2> QED
    BY <2>3 DEF Supported, x
<1>2. Shows(Unsupported(w, c, p, v), c)
  <2> DEFINE x == Unchecked(w, c, v)
  <2>1. Kept(x, w) /\ Shows(x, c)
    BY UncheckedFrame, UncheckedShows
  <2> HIDE DEF x
  <2>2. x \in Widgets /\ DOMAIN x.agents = DOMAIN w.agents
    BY <2>1 DEF Kept
  <2>3. Shows(Answer(x, c, p, v), c)
    BY <2>1, <2>2, AnswerShows
  <2> QED
    BY <2>3 DEF Unsupported, x
<1> QED
  BY <1>1, <1>2

LEMMA ApplyOther ==
  ASSUME NEW w \in Widgets, NEW c \in DOMAIN w.agents, NEW p \in DOMAIN w.agents, c # p,
         Shows(w, c)
  PROVE  Shows(ApplySupportedProtocol(w, c, p), c)
<1>1. PICK x1, x2, x3, x4, x5 :
           /\ x1 = Supported(w, c, p, 1) /\ Kept(x1, w)
           /\ x2 = Supported(x1, c, p, 2) /\ Kept(x2, w)
           /\ x3 = Supported(x2, c, p, 3) /\ Kept(x3, w)
           /\ x4 = Unsupported(x3, c, p, 1) /\ Kept(x4, w)
           /\ x5 = Unsupported(x4, c, p, 2) /\ Kept(x5, w)
           /\ ApplySupportedProtocol(w, c, p) = Unsupported(x5, c, p, 3)
  BY SixSteps
<1>2. 1 \in Proto /\ 2 \in Proto /\ 3 \in Proto
  BY DEF Proto
<1>3. \A x : Kept(x, w) => x \in Widgets /\ DOMAIN x.agents = DOMAIN w.agents
  BY DEF Kept
<1>4. Shows(x1, c)
  BY <1>1, <1>2, SupportedShows
<1>5. Shows(x2, c)
  BY <1>1, <1>2, <1>3, <1>4, SupportedShows
<1>6. Shows(x3, c)
  BY <1>1, <1>2, <1>3, <1>5, SupportedShows
<1>7. Shows(x4, c)
  BY <1>1, <1>2, <1>3, <1>6, SupportedShows
<1>8. Shows(x5, c)
  BY <1>1, <1>2, <1>3, <1>7, SupportedShows
<1> QED
  BY <1>1, <1>2, <1>3, <1>8, SupportedShows
-----------------------------------------------------------------------------
(***************************************************************************)
(* The main window's choice.                                               *)
(***************************************************************************)
MainType == [list : SUBSET Name, profile : Name \cup {NoText}, proto : Proto,
             enabled : SUBSET Proto]
SavedType == [profile : Name, proto : Proto \cup {0}]

LEMMA NamesFacts ==
  ASSUME NEW ps \in Seq(Profile)
  PROVE  /\ Names(ps) \subseteq Name
         /\ \A i \in DOMAIN ps : ps[i] \in Profile /\ ps[i].name \in Names(ps)
         /\ ps # <<>> => 1 \in DOMAIN ps /\ ps[1].name \in Names(ps)
<1>1. \A i \in DOMAIN ps : ps[i] \in Profile /\ ps[i].name \in Name
  <2>1. ASSUME NEW i \in DOMAIN ps PROVE ps[i] \in Profile
    <3>1. i \in 1..Len(ps)
      BY LenProperties
    <3> QED
      BY <3>1, ElementOfSeq
  <2> QED
    BY <2>1 DEF Profile
<1>2. Names(ps) \subseteq Name /\ \A i \in DOMAIN ps : ps[i].name \in Names(ps)
  BY <1>1, Zenon DEF Names
<1>3. ps # <<>> => 1 \in DOMAIN ps
  <2>1. ASSUME ps # <<>> PROVE 1 \in 1..Len(ps)
    <3>1. Len(ps) \in Nat \ {0}
      BY <2>1, EmptySeq, Zenon
    <3>2. \A n \in Nat \ {0} : 1 \in 1..n
      OBVIOUS
    <3> QED
      BY <3>1, <3>2
  <2> QED
    BY <2>1, LenProperties
<1> QED
  BY <1>1, <1>2, <1>3

LEMMA LowestFacts ==
  ASSUME NEW sup \in SUBSET Proto, sup # {}
  PROVE  Lowest(sup) \in sup
<1>1. sup \in SUBSET Nat
  BY DEF Proto
<1>2. \E v \in sup : \A x \in sup : v <= x
  BY <1>1, Least
<1> QED
  BY <1>2 DEF Lowest

\* r is m with profile n, and with the protocol pref if that supports it.
Chosen(r, m, ps, n, pref) ==
  /\ r \in MainType /\ r.profile = n /\ r.list = m.list
  /\ n \in Names(ps) /\ pref \in ps[First(ps, n)].sup => r.proto = pref

LEMMA SelectedFacts ==
  ASSUME NEW m \in MainType, NEW ps \in Seq(Profile), NEW n \in Name, NEW pref
  PROVE  Chosen(Selected(m, ps, n, pref), m, ps, n, pref)
<1> DEFINE r == Selected(m, ps, n, pref)
<1>1. CASE n \notin Names(ps)
  BY <1>1 DEF Selected, MainType, Chosen
<1>2. CASE n \in Names(ps)
  <2> DEFINE sup == ps[First(ps, n)].sup
             q == IF pref \in sup THEN pref ELSE IF sup = {} THEN m.proto ELSE Lowest(sup)
  <2>1. sup \in SUBSET Proto
    BY <1>2, FirstFacts, NamesFacts DEF Profile
  <2>2. q \in Proto /\ (pref \in sup => q = pref)
    BY <2>1, LowestFacts DEF MainType
  <2>3. r = [m EXCEPT !.profile = n, !.enabled = sup, !.proto = q]
    BY <1>2 DEF Selected, MainType
  <2> HIDE DEF sup, q, r
  <2>4. r \in MainType /\ r.profile = n /\ r.proto = q /\ r.list = m.list
    BY <2>1, <2>2, <2>3 DEF MainType
  <2> QED
    BY <2>2, <2>4 DEF sup, r, Chosen
<1> QED
  BY <1>1, <1>2

LEMMA ListChangedFacts ==
  ASSUME NEW m \in MainType, NEW ps \in Seq(Profile), NEW r, r = ListChanged(m, ps)
  PROVE  /\ r \in MainType /\ r.list \subseteq Names(ps)
         /\ ps # <<>> => r.profile \in Names(ps)
         /\ m.profile \in Names(ps) =>
              /\ r.profile = m.profile
              /\ m.proto \in ps[First(ps, m.profile)].sup => r.proto = m.proto
<1>1. CASE ps = <<>>
  <2>1. Names(ps) = {}
    BY <1>1 DEF Names
  <2> QED
    BY <1>1, <2>1 DEF ListChanged, MainType
<1>2. CASE ps # <<>>
  <2> DEFINE e == [m EXCEPT !.list = Names(ps)]
             f == Selected(e, ps, ps[1].name, 0)
  <2>1. e \in MainType /\ e.list = Names(ps)
    BY NamesFacts DEF MainType
  <2>2. ps[1].name \in Name /\ ps[1].name \in Names(ps)
    BY <1>2, NamesFacts
  <2> HIDE DEF e
  <2>3. f \in MainType /\ f.list = Names(ps)
    BY <2>1, <2>2, SelectedFacts DEF Chosen
  <2>4. r = Selected(f, ps, IF m.profile \in Names(ps) THEN m.profile ELSE ps[1].name,
                     IF m.profile \in Names(ps) THEN m.proto ELSE 0)
    BY <1>2 DEF ListChanged, e
  <2> HIDE DEF f
  <2>5. CASE m.profile \in Names(ps)
    <3>1. m.profile \in Name /\ r = Selected(f, ps, m.profile, m.proto)
      BY <2>4, <2>5, NamesFacts
    <3>2. Chosen(Selected(f, ps, m.profile, m.proto), f, ps, m.profile, m.proto)
      BY <2>3, <3>1, SelectedFacts
    <3> QED
      BY <2>3, <2>5, <3>1, <3>2 DEF Chosen
  <2>6. CASE m.profile \notin Names(ps)
    <3>1. r = Selected(f, ps, ps[1].name, 0)
      BY <2>4, <2>6
    <3>2. Chosen(Selected(f, ps, ps[1].name, 0), f, ps, ps[1].name, 0)
      BY <2>2, <2>3, SelectedFacts
    <3> QED
      BY <2>2, <2>3, <2>6, <3>1, <3>2 DEF Chosen
  <2> QED
    BY <2>5, <2>6
<1> QED
  BY <1>1, <1>2

LEMMA StartFacts ==
  ASSUME NEW ps \in Seq(Profile), NEW choice \in SavedType,
         NEW r, r = StartMain(ps, choice)
  PROVE  r \in MainType /\ (ps # <<>> => r.profile \in Name)
<1> DEFINE l == ListChanged(Idle, ps)
<1>1. Idle \in MainType
  BY DEF Idle, MainType, Proto
<1>2. l \in MainType /\ (ps # <<>> => l.profile \in Name)
  BY <1>1, ListChangedFacts, NamesFacts
<1>3. r = IF choice.profile \in Names(ps) THEN Selected(l, ps, choice.profile, choice.proto)
          ELSE [l EXCEPT !.enabled = {}]
  BY DEF StartMain, StartChoice
<1> HIDE DEF l
<1>4. CASE choice.profile \in Names(ps)
  <2>1. choice.profile \in Name
    BY DEF SavedType
  <2>2. Chosen(Selected(l, ps, choice.profile, choice.proto), l, ps, choice.profile, choice.proto)
    BY <1>2, <2>1, SelectedFacts
  <2> QED
    BY <1>3, <1>4, <2>1, <2>2 DEF Chosen
<1>5. CASE choice.profile \notin Names(ps)
  BY <1>2, <1>3, <1>5 DEF MainType
<1> QED
  BY <1>4, <1>5

\* What SaveChoice writes.
LEMMA SaveFacts ==
  ASSUME NEW m \in MainType, NEW ps \in Seq(Profile), saved \in SavedType, SaveChoice(m, ps)
  PROVE  saved' \in SavedType
<1>1. CASE m.profile \notin Names(ps)
  BY <1>1 DEF SaveChoice
<1>2. CASE m.profile \in Names(ps)
  <2>1. m.profile \in Name /\ m.proto \in Proto
    BY <1>2, NamesFacts DEF MainType
  <2> QED
    BY <1>2, <2>1 DEF SaveChoice, SavedType
<1> QED
  BY <1>1, <1>2
-----------------------------------------------------------------------------
(***************************************************************************)
(* The list of profiles.                                                   *)
(***************************************************************************)
SameButUser(r, ps) ==
  /\ r \in Seq(Profile) /\ Len(r) = Len(ps) /\ DOMAIN r = DOMAIN ps
  /\ \A i \in DOMAIN ps : r[i].sup = ps[i].sup /\ r[i].shown = ps[i].shown

\* Replacing one profile of the list.
LEMMA PutOne ==
  ASSUME NEW ps \in Seq(Profile), NEW i \in 1..Len(ps), NEW q \in Profile
  PROVE  /\ [ps EXCEPT ![i] = q] \in Seq(Profile)
         /\ Len([ps EXCEPT ![i] = q]) = Len(ps)
         /\ DOMAIN [ps EXCEPT ![i] = q] = DOMAIN ps
         /\ \A j \in DOMAIN ps : [ps EXCEPT ![i] = q][j] = IF j = i THEN q ELSE ps[j]
<1>1. DOMAIN ps = 1..Len(ps)
  BY LenProperties
<1>2. /\ [ps EXCEPT ![i] = q] \in Seq(Profile)
      /\ Len([ps EXCEPT ![i] = q]) = Len(ps)
  BY ExceptSeq
<1> QED
  BY <1>1, <1>2

LEMMA SetUser ==
  ASSUME NEW ps \in Seq(Profile), NEW i \in 1..Len(ps), NEW t \in User \cup {NoText}
  PROVE  /\ SameButUser([ps EXCEPT ![i].sec = t], ps)
         /\ \A j \in DOMAIN ps :
              [ps EXCEPT ![i].sec = t][j].sec = IF j = i THEN t ELSE ps[j].sec
<1> DEFINE q == [ps[i] EXCEPT !.sec = t]
<1>1. ps[i] \in Profile
  BY ElementOfSeq
<1>2. /\ q \in Profile /\ q.sec = t /\ q.sup = ps[i].sup /\ q.shown = ps[i].shown
  BY <1>1 DEF Profile
<1>3. [ps EXCEPT ![i].sec = t] = [ps EXCEPT ![i] = q]
  OBVIOUS
<1> HIDE DEF q
<1>4. /\ [ps EXCEPT ![i] = q] \in Seq(Profile)
      /\ Len([ps EXCEPT ![i] = q]) = Len(ps)
      /\ DOMAIN [ps EXCEPT ![i] = q] = DOMAIN ps
      /\ \A j \in DOMAIN ps : [ps EXCEPT ![i] = q][j] = IF j = i THEN q ELSE ps[j]
  BY <1>2, PutOne
<1>5. SameButUser([ps EXCEPT ![i] = q], ps)
  BY <1>2, <1>4 DEF SameButUser
<1>6. \A j \in DOMAIN ps : [ps EXCEPT ![i] = q][j].sec = IF j = i THEN t ELSE ps[j].sec
  BY <1>2, <1>4
<1> QED
  BY <1>3, <1>5, <1>6

LEMMA SetName ==
  ASSUME NEW ps \in Seq(Profile), NEW i \in 1..Len(ps), NEW n \in Name
  PROVE  SameButUser([ps EXCEPT ![i].name = n], ps)
<1> DEFINE q == [ps[i] EXCEPT !.name = n]
<1>1. ps[i] \in Profile
  BY ElementOfSeq
<1>2. /\ q \in Profile /\ q.sup = ps[i].sup /\ q.shown = ps[i].shown
  BY <1>1 DEF Profile
<1>3. [ps EXCEPT ![i].name = n] = [ps EXCEPT ![i] = q]
  OBVIOUS
<1> HIDE DEF q
<1>4. /\ [ps EXCEPT ![i] = q] \in Seq(Profile)
      /\ Len([ps EXCEPT ![i] = q]) = Len(ps)
      /\ DOMAIN [ps EXCEPT ![i] = q] = DOMAIN ps
      /\ \A j \in DOMAIN ps : [ps EXCEPT ![i] = q][j] = IF j = i THEN q ELSE ps[j]
  BY <1>2, PutOne
<1>5. SameButUser([ps EXCEPT ![i] = q], ps)
  BY <1>2, <1>4 DEF SameButUser
<1> QED
  BY <1>3, <1>5

LEMMA WithoutFacts ==
  ASSUME NEW ps \in Seq(Profile), NEW n \in Nat, n = Len(ps), NEW i \in 1..n
  PROVE  Without(ps, i) \in Seq(Profile) /\ Len(Without(ps, i)) = n - 1
<1>1. \A j \in 1..n : ps[j] \in Profile
  BY ElementOfSeq
<1> DEFINE a == SubSeq(ps, 1, i - 1)
           b == SubSeq(ps, i + 1, n)
<1>2. i - 1 \in Int /\ i + 1 \in Int /\ 1 \in Int /\ n \in Int
  OBVIOUS
<1>3. /\ a \in Seq(Profile)
      /\ Len(a) = IF 1 <= i - 1 THEN (i - 1) - 1 + 1 ELSE 0
  <2>1. \A j \in 1..(i - 1) : ps[j] \in Profile
    <3>1. \A j \in 1..(i - 1) : j \in 1..n
      OBVIOUS
    <3> QED
      BY <1>1, <3>1
  <2> QED
    BY <1>2, <2>1, SubSeqProperties
<1>4. /\ b \in Seq(Profile)
      /\ Len(b) = IF i + 1 <= n THEN n - (i + 1) + 1 ELSE 0
  <2>1. \A j \in (i + 1)..n : ps[j] \in Profile
    <3>1. \A j \in (i + 1)..n : j \in 1..n
      OBVIOUS
    <3> QED
      BY <1>1, <3>1
  <2> QED
    BY <1>2, <2>1, SubSeqProperties
<1>5. Without(ps, i) = a \o b
  BY DEF Without
<1> HIDE DEF a, b
<1>6. a \o b \in Seq(Profile) /\ Len(a \o b) = Len(a) + Len(b)
  BY <1>3, <1>4, ConcatProperties
<1>7. Len(a) = i - 1 /\ Len(b) = n - i
  BY <1>3, <1>4
<1> QED
  BY <1>5, <1>6, <1>7

LEMMA NewProfileType ==
  ASSUME NEW n \in Name, NEW sup \in SUBSET Proto, NEW sec \in User \cup {NoText}
  PROVE  NewProfile(n, sup, sec) \in Profile
BY DEF NewProfile, Profile

LEMMA WithNewFacts ==
  ASSUME NEW w \in Widgets, NEW c \in {0} \cup DOMAIN w.agents, NEW q \in Profile,
         NEW n \in Nat, n = Len(w.agents), NEW u, u = WithNew(w, c, q)
  PROVE  /\ u \in Widgets /\ Len(u.agents) = n + 1
         /\ c # 0 /\ Shows(w, c) => Shows(u, c)
<1> DEFINE x == [w EXCEPT !.agents = Append(@, q)]
           p == n + 1
<1>1. w.agents \in Seq(Profile) /\ w.box \in SUBSET Proto
  BY DEF Widgets
<1>2. DOMAIN w.agents = 1..n
  BY <1>1, LenProperties
<1>3. /\ Append(w.agents, q) \in Seq(Profile) /\ Len(Append(w.agents, q)) = p
      /\ \A i \in 1..n : Append(w.agents, q)[i] = w.agents[i]
  BY <1>1, AppendProperties
<1>4. x \in Widgets /\ x.box = w.box /\ x.agents = Append(w.agents, q)
  BY <1>1, <1>3 DEF Widgets
<1>5. DOMAIN x.agents = 1..p
  BY <1>3, <1>4, LenProperties
<1>6. u = ApplySupportedProtocol(x, c, p)
  BY DEF WithNew
<1> HIDE DEF x
<1>7. p \in DOMAIN x.agents /\ c \in {0} \cup DOMAIN x.agents /\ c # p
  BY <1>2, <1>5
<1>8. Kept(u, x)
  BY <1>4, <1>6, <1>7, ApplyFrame
<1>9. ASSUME c # 0, Shows(w, c) PROVE Shows(u, c)
  <2>1. x.agents[c] = w.agents[c] /\ c \in DOMAIN x.agents
    BY <1>2, <1>3, <1>4, <1>7, <1>9
  <2>2. Shows(x, c)
    BY <1>4, <1>9, <2>1 DEF Shows
  <2> QED
    BY <1>4, <1>6, <1>7, <2>1, <2>2, ApplyOther
<1> QED
  BY <1>3, <1>4, <1>8, <1>9 DEF Kept
-----------------------------------------------------------------------------
(***************************************************************************)
(* Loading agents.conf, one profile after the other.                       *)
(***************************************************************************)
NoBoxes == [box |-> {}, agents |-> <<>>]
LoadOne(f, x, k) == WithNew(x, 0, NewProfile(f[k].name, f[k].sup, f[k].sec))
LoadedTo(f, g, n) == g = [k \in 0..n |-> IF k = 0 THEN NoBoxes ELSE LoadOne(f, g[k-1], k)]

LEMMA LoadExists ==
  ASSUME NEW f, NEW n \in Nat
  PROVE  \E g : LoadedTo(f, g, n)
<1> DEFINE T == {m \in Nat : ~\E g : LoadedTo(f, g, m)}
<1>1. SUFFICES T = {}
  OBVIOUS
<1>2. SUFFICES ASSUME T # {} PROVE FALSE
  OBVIOUS
<1>3. PICK m \in T : \A y \in T : m <= y
  BY <1>2, Least
<1>4. CASE m = 0
  <2> DEFINE g == [k \in 0..0 |-> NoBoxes]
  <2>1. g = [k \in 0..0 |-> IF k = 0 THEN NoBoxes ELSE LoadOne(f, g[k-1], k)]
    OBVIOUS
  <2>2. LoadedTo(f, g, 0)
    BY <2>1 DEF LoadedTo
  <2> QED
    BY <1>4, <2>2
<1>5. CASE m # 0
  <2>1. m - 1 \in Nat /\ m - 1 \notin T /\ m \in Nat
    BY <1>3, <1>5
  <2>2. PICK g : LoadedTo(f, g, m - 1)
    BY <2>1
  <2> DEFINE h == [k \in 0..m |-> IF k = m THEN LoadOne(f, g[m-1], m) ELSE g[k]]
  <2>3. \A k \in 0..(m-1) : g[k] = IF k = 0 THEN NoBoxes ELSE LoadOne(f, g[k-1], k)
    BY <2>2 DEF LoadedTo
  <2>4. ASSUME NEW k \in 0..m
        PROVE  h[k] = IF k = 0 THEN NoBoxes ELSE LoadOne(f, h[k-1], k)
    <3>1. CASE k = m
      <4>1. m - 1 \in 0..m /\ m - 1 # m /\ m \in 0..m
        BY <1>5, <2>1
      <4>2. h[m-1] = g[m-1] /\ h[m] = LoadOne(f, g[m-1], m)
        BY <4>1
      <4> QED
        BY <1>5, <3>1, <4>2
    <3>2. CASE k = 0
      <4>1. h[0] = g[0] /\ 0 \in 0..(m-1)
        BY <1>5, <2>1
      <4> QED
        BY <2>3, <3>2, <4>1
    <3>3. CASE k # 0 /\ k # m
      <4>1. k \in 0..(m-1) /\ k - 1 \in 0..m /\ k - 1 # m
        BY <2>1, <3>3
      <4>2. h[k] = g[k] /\ h[k-1] = g[k-1]
        BY <3>3, <4>1
      <4> QED
        BY <2>3, <3>3, <4>1, <4>2
    <3> QED
      BY <3>1, <3>2, <3>3
  <2>5. h = [k \in 0..m |-> IF k = 0 THEN NoBoxes ELSE LoadOne(f, h[k-1], k)]
    <3>1. h = [k \in 0..m |-> h[k]]
      OBVIOUS
    <3> HIDE DEF h
    <3> QED
      BY <2>4, <3>1
  <2> HIDE DEF h
  <2>6. LoadedTo(f, h, m)
    BY <2>5 DEF LoadedTo
  <2> QED
    BY <1>3, <2>6
<1> QED
  BY <1>4, <1>5

LEMMA LoadType ==
  ASSUME NEW f \in Seq(StoredProfile), NEW n \in Nat, n = Len(f), NEW g, LoadedTo(f, g, n)
  PROVE  g[n] \in Widgets /\ Len(g[n].agents) = n
<1> DEFINE Good(k) == g[k] \in Widgets /\ Len(g[k].agents) = k
           T == {k \in 0..n : ~Good(k)}
<1>1. SUFFICES T = {}
  OBVIOUS
<1>2. SUFFICES ASSUME T # {} PROVE FALSE
  OBVIOUS
<1>3. PICK m \in T : \A y \in T : m <= y
  <2>1. T \in SUBSET Nat
    OBVIOUS
  <2> HIDE DEF T
  <2> QED
    BY <1>2, <2>1, Least
<1>4. \A k \in 0..n : g[k] = IF k = 0 THEN NoBoxes ELSE LoadOne(f, g[k-1], k)
  BY DEF LoadedTo
<1>5. CASE m = 0
  <2>1. g[0] = NoBoxes
    BY <1>4
  <2>2. NoBoxes \in Widgets /\ Len(NoBoxes.agents) = 0
    BY DEF NoBoxes, Widgets
  <2> QED
    BY <1>3, <1>5, <2>1, <2>2
<1>6. CASE m # 0
  <2>1. m \in 1..n /\ m - 1 \in Nat /\ m - 1 \in 0..n
    BY <1>3, <1>6
  <2>2. Good(m - 1)
    BY <1>3, <2>1
  <2>3. f[m] \in StoredProfile
    BY <2>1, ElementOfSeq
  <2>4. NewProfile(f[m].name, f[m].sup, f[m].sec) \in Profile
    BY <2>3, NewProfileType DEF StoredProfile
  <2>5. g[m] = WithNew(g[m-1], 0, NewProfile(f[m].name, f[m].sup, f[m].sec))
    BY <1>4, <1>6, <2>1 DEF LoadOne
  <2>6. g[m] \in Widgets /\ Len(g[m].agents) = (m - 1) + 1
    BY <2>1, <2>2, <2>4, <2>5, WithNewFacts
  <2> QED
    BY <1>3, <2>1, <2>6
<1> QED
  BY <1>5, <1>6

LEMMA LoadedFacts ==
  ASSUME NEW f \in Seq(StoredProfile), NEW w, w = Loaded(f)
  PROVE  /\ w \in Widgets /\ Len(w.agents) = Len(f)
         /\ f # <<>> => Shows(w, 1) /\ 1 \in DOMAIN w.agents
<1>1. PICK n \in Nat : n = Len(f)
  BY LenProperties
<1> DEFINE g == CHOOSE g : LoadedTo(f, g, n)
<1>2. LoadedTo(f, g, n)
  BY LoadExists
<1>3. w = IF f = <<>> THEN g[n] ELSE ApplySupportedProtocol(g[n], 1, 1)
  BY <1>1 DEF Loaded, LoadedTo, LoadOne, NoBoxes
<1> HIDE DEF g
<1>4. g[n] \in Widgets /\ Len(g[n].agents) = n
  BY <1>1, <1>2, LoadType
<1>5. CASE f = <<>>
  BY <1>1, <1>3, <1>4, <1>5
<1>6. CASE f # <<>>
  <2>1. n # 0
    BY <1>1, <1>6, EmptySeq
  <2>2. g[n].agents \in Seq(Profile)
    BY <1>4 DEF Widgets
  <2>3. DOMAIN g[n].agents = 1..n
    BY <1>4, <2>2, LenProperties
  <2>4. 1 \in DOMAIN g[n].agents
    BY <2>1, <2>3
  <2>5. Kept(w, g[n]) /\ Shows(w, 1)
    BY <1>3, <1>4, <1>6, <2>4, ApplyCurrent
  <2> QED
    BY <1>1, <1>4, <1>6, <2>4, <2>5 DEF Kept
<1> QED
  BY <1>5, <1>6
-----------------------------------------------------------------------------
(***************************************************************************)
(* The invariant, and what every step keeps.                               *)
(***************************************************************************)
\* The combobox offers the users there are as long as the dialog is up.
OffersUsers == open => combo.list = users

Inv == TypeOK /\ PageShowsProfile /\ OffersUsers

\* The steps that SelectKeeps, UserKept and ChoiceKept are about.
KeepsStep ==
  open /\ open' /\ <<current, page>>' # <<current, page>> /\ Len(agents') = Len(agents) =>
    \A i \in DOMAIN agents : agents[i].sup # {} => Keeps(agents[i], agents'[i])
UserStep ==
  /\ open'
  /\ <<open, current, page>>' # <<open, current, page>>
  /\ Len(agents') = Len(agents)
  => \A i \in DOMAIN agents :
       (\E k \in DOMAIN users : users[k] = agents[i].sec) =>
         agents'[i].sec = agents[i].sec
ChoiceStep ==
  file' # file /\ main.profile \in Names(agents') =>
    /\ main'.profile = main.profile
    /\ main.proto \in agents'[First(agents', main.profile)].sup
         => main'.proto = main.proto

LEMMA TypeFacts ==
  ASSUME TypeOK
  PROVE  /\ Boxes \in Widgets /\ Boxes.box = box /\ Boxes.agents = agents
         /\ agents \in Seq(Profile) /\ Len(agents) \in Nat
         /\ DOMAIN agents = 1..Len(agents)
         /\ main \in MainType /\ saved \in SavedType
<1>1. agents \in Seq(Profile) /\ box \in SUBSET Proto
  BY DEF TypeOK
<1>2. Len(agents) \in Nat /\ DOMAIN agents = 1..Len(agents)
  BY <1>1, LenProperties
<1>3. Boxes \in Widgets /\ Boxes.box = box /\ Boxes.agents = agents
  BY <1>1 DEF Boxes, Widgets
<1> QED
  BY <1>1, <1>2, <1>3 DEF TypeOK, MainType, SavedType

LEMMA PageShows ==
  PageShowsProfile <=> (page = "general" /\ current # 0 => Shows(Boxes, current))
BY DEF PageShowsProfile, Shows, Boxes

LEMMA SelectGeneralFacts ==
  ASSUME NEW w \in Widgets, NEW i \in DOMAIN w.agents, SelectGeneral(w, i)
  PROVE  /\ agents' \in Seq(Profile) /\ Len(agents') = Len(w.agents) /\ box' \subseteq Proto
         /\ current' = i /\ current' \in 0..Len(agents') /\ page' = "general"
         /\ nameText' \in Name /\ PageShowsProfile'
         /\ \A j \in DOMAIN w.agents :
              /\ agents'[j].sec = w.agents[j].sec
              /\ w.agents[j].sup # {} => Keeps(w.agents[j], agents'[j])
<1> DEFINE u == ApplySupportedProtocol(w, i, i)
<1>1. /\ Kept(u, w) /\ OthersSame(u, w, {i}) /\ Shows(u, i)
      /\ w.agents[i].sup # {} => Keeps(w.agents[i], u.agents[i])
  BY ApplyCurrent
<1>2. /\ box' = u.box /\ agents' = u.agents /\ current' = i /\ page' = "general"
      /\ nameText' = w.agents[i].name
  BY DEF SelectGeneral
<1> HIDE DEF u
<1>3. u \in Widgets /\ Len(u.agents) = Len(w.agents)
  BY <1>1 DEF Kept
<1>4. agents' \in Seq(Profile) /\ box' \subseteq Proto /\ Len(agents') = Len(w.agents)
  BY <1>2, <1>3 DEF Widgets
<1>5. i \in 1..Len(w.agents) /\ w.agents[i] \in Profile
  BY InWidgets
<1>6. nameText' \in Name
  BY <1>2, <1>5 DEF Profile
<1>7. PageShowsProfile'
  BY <1>1, <1>2 DEF PageShowsProfile, Shows
<1>8. current' \in 0..Len(agents')
  BY <1>2, <1>4, <1>5
<1>9. \A j \in DOMAIN w.agents :
        /\ agents'[j].sec = w.agents[j].sec
        /\ w.agents[j].sup # {} => Keeps(w.agents[j], agents'[j])
  <2>1. \A j \in DOMAIN w.agents : u.agents[j].sec = w.agents[j].sec
    BY <1>1 DEF Kept
  <2>2. \A j \in DOMAIN w.agents \ {i} : u.agents[j] = w.agents[j]
    BY <1>1 DEF OthersSame
  <2>3. \A j \in DOMAIN w.agents : Keeps(w.agents[j], w.agents[j])
    BY DEF Keeps
  <2> QED
    BY <1>1, <1>2, <2>1, <2>2, <2>3
<1> QED
  BY <1>2, <1>4, <1>6, <1>7, <1>8, <1>9

LEMMA RefillFacts ==
  ASSUME TypeOK, NEW ps \in Seq(Profile), NEW i \in 0..Len(ps), Refill(ps, i)
  PROVE  /\ combo' \in [list : Seq(User), text : User \cup {NoText}]
         /\ combo'.list = users
         /\ SameButUser(agents', ps)
         /\ \A j \in DOMAIN ps :
              (\E k \in DOMAIN users : users[k] = ps[j].sec) => agents'[j].sec = ps[j].sec
<1> DEFINE had == IF i = 0 THEN NoText ELSE ps[i].sec
           offered == \E k \in DOMAIN users : users[k] = had
           text == IF offered THEN had ELSE IF users = <<>> THEN NoText ELSE users[1]
<1>1. users \in Seq(User) /\ Len(ps) \in Nat /\ DOMAIN ps = 1..Len(ps)
  BY LenProperties DEF TypeOK
<1>2. i # 0 => i \in 1..Len(ps) /\ ps[i] \in Profile
  <2>1. i # 0 => i \in 1..Len(ps)
    BY <1>1
  <2> QED
    BY <2>1, ElementOfSeq
<1>3. had \in User \cup {NoText}
  BY <1>2 DEF Profile
<1>4. users # <<>> => users[1] \in User
  <2>1. ASSUME users # <<>> PROVE 1 \in 1..Len(users)
    <3>1. Len(users) \in Nat \ {0}
      BY <1>1, <2>1, EmptySeq
    <3> QED
      BY <3>1
  <2> QED
    BY <1>1, <2>1, ElementOfSeq
<1>5. text \in User \cup {NoText} /\ (offered => text = had)
  BY <1>3, <1>4
<1>6. /\ combo' = [list |-> users, text |-> text]
      /\ agents' = IF i = 0 \/ (users = <<>> /\ combo.text = NoText) THEN ps
                   ELSE [ps EXCEPT ![i].sec = text]
  BY DEF Refill
<1>7. i # 0 => had = ps[i].sec
  OBVIOUS
<1>a. offered <=> \E k \in DOMAIN users : users[k] = had
  OBVIOUS
<1> HIDE DEF text, offered, had
<1>8. combo' \in [list : Seq(User), text : User \cup {NoText}] /\ combo'.list = users
  BY <1>1, <1>5, <1>6
<1>9. CASE agents' = ps
  BY <1>8, <1>9 DEF SameButUser
<1>10. CASE i # 0 /\ agents' = [ps EXCEPT ![i].sec = text]
  <2>1. /\ SameButUser([ps EXCEPT ![i].sec = text], ps)
        /\ \A j \in DOMAIN ps :
             [ps EXCEPT ![i].sec = text][j].sec = IF j = i THEN text ELSE ps[j].sec
    BY <1>2, <1>5, <1>10, SetUser
  <2>2. ASSUME NEW j \in DOMAIN ps, \E k \in DOMAIN users : users[k] = ps[j].sec
        PROVE  agents'[j].sec = ps[j].sec
    <3>1. CASE j = i
      <4>1. offered
        BY <1>7, <1>10, <1>a, <2>2, <3>1
      <4> QED
        BY <1>5, <1>7, <1>10, <2>1, <3>1, <4>1
    <3>2. CASE j # i
      BY <1>10, <2>1, <3>2
    <3> QED
      BY <3>1, <3>2
  <2> QED
    BY <1>8, <1>10, <2>1, <2>2
<1> QED
  BY <1>6, <1>9, <1>10

LEMMA ToStoredType ==
  ASSUME NEW ps \in Seq(Profile)
  PROVE  ToStored(ps) \in Seq(StoredProfile)
<1>1. PICK n \in Nat : DOMAIN ps = 1..n /\ \A i \in 1..n : ps[i] \in Profile
  <2>1. Len(ps) \in Nat /\ DOMAIN ps = 1..Len(ps)
    BY LenProperties
  <2>2. \A i \in 1..Len(ps) : ps[i] \in Profile
    BY ElementOfSeq
  <2> QED
    BY <2>1, <2>2
<1>2. ToStored(ps) \in [1..n -> StoredProfile]
  BY <1>1 DEF ToStored, Profile, StoredProfile
<1> QED
  BY <1>2, SeqDef

\* A step that none of the properties can see.
Quiet ==
  /\ UNCHANGED <<agents, box, current, page>>
  /\ (open' => open) /\ file' = file

LEMMA QuietStep ==
  ASSUME Inv, Quiet
  PROVE  PageShowsProfile' /\ KeepsStep /\ ChoiceStep /\ (open' = open => UserStep)
<1>1. PageShowsProfile'
  BY DEF Inv, PageShowsProfile, Quiet
<1> QED
  BY <1>1 DEF Quiet, KeepsStep, ChoiceStep, UserStep

StepOK == Inv' /\ KeepsStep /\ UserStep /\ ChoiceStep

LEMMA ClickGeneralOK ==
  ASSUME Inv, NEW i \in DOMAIN agents, ClickGeneral(i)
  PROVE  StepOK
<1>1. TypeOK /\ SelectGeneral(Boxes, i) /\ UNCHANGED <<combo, open, rest>>
  BY DEF Inv, ClickGeneral
<1>2. Boxes \in Widgets /\ Boxes.agents = agents
  BY <1>1, TypeFacts
<1>3. /\ agents' \in Seq(Profile) /\ Len(agents') = Len(Boxes.agents) /\ box' \subseteq Proto
      /\ current' = i /\ current' \in 0..Len(agents') /\ page' = "general"
      /\ nameText' \in Name /\ PageShowsProfile'
      /\ \A j \in DOMAIN Boxes.agents :
           /\ agents'[j].sec = Boxes.agents[j].sec
           /\ Boxes.agents[j].sup # {} => Keeps(Boxes.agents[j], agents'[j])
  BY <1>1, <1>2, SelectGeneralFacts
<1>4. TypeOK'
  BY <1>1, <1>3 DEF TypeOK, rest, Page
<1>5. OffersUsers'
  BY <1>1 DEF Inv, OffersUsers, rest
<1>6. KeepsStep /\ UserStep /\ ChoiceStep
  BY <1>1, <1>2, <1>3 DEF KeepsStep, UserStep, ChoiceStep, rest
<1> QED
  BY <1>3, <1>4, <1>5, <1>6 DEF StepOK, Inv

LEMMA ClickSubOK ==
  ASSUME Inv, NEW i \in DOMAIN agents, NEW g \in Sub, ClickSub(i, g)
  PROVE  StepOK
<1>1. /\ TypeOK /\ open /\ combo.list = users /\ current' = i /\ page' = g
      /\ UNCHANGED <<box, nameText, open, rest>>
  BY DEF Inv, OffersUsers, ClickSub
<1>2. /\ agents \in Seq(Profile) /\ Len(agents) \in Nat /\ DOMAIN agents = 1..Len(agents)
      /\ i \in 1..Len(agents) /\ agents[i] \in Profile
  BY <1>1, TypeFacts, ElementOfSeq
<1>3. /\ ShownUser(i) \in User \cup {NoText}
      /\ (\E k \in DOMAIN users : users[k] = agents[i].sec) => ShownUser(i) = agents[i].sec
  BY <1>1, <1>2 DEF ShownUser, Profile
<1>4. page' \in Page /\ page' # "general"
  BY <1>1 DEF Page, Sub, Uses
<1>5. /\ SameButUser(agents', agents)
      /\ combo' \in [list : Seq(User), text : User \cup {NoText}] /\ combo'.list = combo.list
      /\ \A j \in DOMAIN agents :
           (\E k \in DOMAIN users : users[k] = agents[j].sec) => agents'[j].sec = agents[j].sec
  <2>1. CASE UNCHANGED <<combo, agents>>
    BY <1>1, <1>2, <2>1 DEF SameButUser, TypeOK
  <2>2. CASE /\ combo' = [combo EXCEPT !.text = ShownUser(i)]
             /\ agents' = [agents EXCEPT ![i].sec = ShownUser(i)]
    <3>1. /\ SameButUser([agents EXCEPT ![i].sec = ShownUser(i)], agents)
          /\ \A j \in DOMAIN agents :
               [agents EXCEPT ![i].sec = ShownUser(i)][j].sec =
                 IF j = i THEN ShownUser(i) ELSE agents[j].sec
      BY <1>2, <1>3, SetUser
    <3>2. /\ combo' \in [list : Seq(User), text : User \cup {NoText}]
          /\ combo'.list = combo.list
      BY <1>1, <1>3, <2>2 DEF TypeOK
    <3>3. \A j \in DOMAIN agents :
            (\E k \in DOMAIN users : users[k] = agents[j].sec) => agents'[j].sec = agents[j].sec
      BY <1>3, <2>2, <3>1
    <3> QED
      BY <2>2, <3>1, <3>2, <3>3
  <2> QED
    BY <2>1, <2>2 DEF ClickSub
<1>6. TypeOK'
  <2>1. agents' \in Seq(Profile) /\ Len(agents') = Len(agents) /\ current' \in 0..Len(agents')
    BY <1>1, <1>2, <1>5 DEF SameButUser
  <2> QED
    BY <1>1, <1>4, <1>5, <2>1 DEF TypeOK, rest
<1>7. PageShowsProfile' /\ OffersUsers'
  BY <1>1, <1>4, <1>5 DEF PageShowsProfile, OffersUsers, rest
<1>8. KeepsStep /\ UserStep /\ ChoiceStep
  BY <1>1, <1>5 DEF KeepsStep, UserStep, ChoiceStep, rest, SameButUser, Keeps
<1> QED
  BY <1>6, <1>7, <1>8 DEF StepOK, Inv

LEMMA ToggleBoxOK ==
  ASSUME Inv, NEW v \in Proto, ToggleBox(v)
  PROVE  StepOK
<1> DEFINE u == Check(Boxes, current, v, v \notin box)
<1>1. /\ TypeOK /\ page = "general" /\ edits < MaxEdits /\ edits' = edits + 1
      /\ box' = u.box /\ agents' = u.agents
      /\ UNCHANGED <<nameText, combo, current, page, open, users, usmFile, file, main, saved>>
  BY DEF Inv, ToggleBox
<1>2. /\ Boxes \in Widgets /\ Boxes.agents = agents /\ Boxes.box = box
      /\ current \in {0} \cup DOMAIN Boxes.agents /\ Len(agents) \in Nat
  BY <1>1, TypeFacts DEF TypeOK
<1>3. current # 0 => Shows(Boxes, current)
  BY <1>1, PageShows DEF Inv
<1>4. Kept(u, Boxes) /\ (current # 0 => Shows(u, current))
  <2>1. CASE v \in box
    <3>1. (v \notin box) = FALSE
      BY <2>1
    <3>2. u = Unchecked(Boxes, current, v)
      BY <1>2, <3>1, CheckIsUnchecked
    <3>3. Kept(Unchecked(Boxes, current, v), Boxes)
      BY <1>2, UncheckedFrame
    <3>4. current # 0 => Shows(Unchecked(Boxes, current, v), current)
      BY <1>2, <1>3, UncheckedShows
    <3> QED
      BY <3>2, <3>3, <3>4
  <2>2. CASE v \notin box
    <3>1. (v \notin box) = TRUE
      BY <2>2
    <3>2. u = Checked(Boxes, current, v)
      BY <1>2, <3>1, CheckIsChecked
    <3>3. Kept(Checked(Boxes, current, v), Boxes)
      BY <1>2, CheckedFrame
    <3>4. current # 0 => Shows(Checked(Boxes, current, v), current)
      BY <1>2, <1>3, CheckedShows
    <3> QED
      BY <3>2, <3>3, <3>4
  <2> QED
    BY <2>1, <2>2
<1> HIDE DEF u
<1>5. agents' \in Seq(Profile) /\ Len(agents') = Len(agents) /\ box' \subseteq Proto
  BY <1>1, <1>2, <1>4 DEF Kept, Widgets
<1>6. edits' \in 0..MaxEdits
  BY <1>1, NamesAssumption DEF TypeOK
<1>7. TypeOK'
  BY <1>1, <1>5, <1>6 DEF TypeOK
<1>8. PageShowsProfile' /\ OffersUsers'
  BY <1>1, <1>4 DEF PageShowsProfile, Shows, OffersUsers, Inv
<1>9. KeepsStep /\ UserStep /\ ChoiceStep
  BY <1>1 DEF KeepsStep, UserStep, ChoiceStep
<1> QED
  BY <1>7, <1>8, <1>9 DEF StepOK, Inv

LEMMA LeaveNameOK ==
  ASSUME Inv, NEW n \in Name, LeaveName(n)
  PROVE  StepOK
<1>1. /\ TypeOK /\ current # 0 /\ nameText' = n /\ agents' = [agents EXCEPT ![current].name = n]
      /\ n # nameText => edits < MaxEdits
      /\ edits' = IF n = nameText THEN edits ELSE edits + 1
      /\ UNCHANGED <<box, combo, current, page, open, users, usmFile, file, main, saved>>
  BY DEF Inv, LeaveName
<1>2. agents \in Seq(Profile) /\ Len(agents) \in Nat /\ current \in 1..Len(agents)
      /\ DOMAIN agents = 1..Len(agents)
  BY <1>1, TypeFacts DEF TypeOK
<1>3. SameButUser(agents', agents)
  BY <1>1, <1>2, SetName
<1>4. edits' \in 0..MaxEdits
  <2>1. MaxEdits \in Nat /\ edits \in 0..MaxEdits
    BY <1>1, NamesAssumption DEF TypeOK
  <2>2. edits' = edits \/ (edits < MaxEdits /\ edits' = edits + 1)
    BY <1>1
  <2> QED
    BY <2>1, <2>2
<1>5. TypeOK'
  <2>1. agents' \in Seq(Profile) /\ Len(agents') = Len(agents)
    BY <1>3 DEF SameButUser
  <2> QED
    BY <1>1, <1>4, <2>1 DEF TypeOK
<1>6. PageShowsProfile' /\ OffersUsers'
  BY <1>1, <1>2, <1>3 DEF PageShowsProfile, OffersUsers, Inv, SameButUser
<1>7. KeepsStep /\ UserStep /\ ChoiceStep
  BY <1>1 DEF KeepsStep, UserStep, ChoiceStep
<1> QED
  BY <1>5, <1>6, <1>7 DEF StepOK, Inv

LEMMA PickUserOK ==
  ASSUME Inv, NEW u \in User, PickUser(u)
  PROVE  StepOK
<1>1. /\ TypeOK /\ page = "v3" /\ combo' = [combo EXCEPT !.text = u] /\ edits < MaxEdits
      /\ agents' = [agents EXCEPT ![current].sec = u] /\ edits' = edits + 1
      /\ UNCHANGED <<box, nameText, current, page, open, users, usmFile, file, main, saved>>
  BY DEF Inv, PickUser
<1>2. agents \in Seq(Profile) /\ Len(agents) \in Nat /\ current \in 0..Len(agents)
      /\ DOMAIN agents = 1..Len(agents)
  BY <1>1, TypeFacts DEF TypeOK
<1>3. agents' \in Seq(Profile) /\ Len(agents') = Len(agents)
  <2>1. CASE current = 0
    <3>1. agents' = agents
      <4>1. agents \in [1..Len(agents) -> Profile]
        BY <1>2, LenProperties
      <4>2. current \notin 1..Len(agents)
        BY <2>1
      <4> QED
        BY <1>1, <4>1, <4>2
    <3> QED
      BY <1>2, <3>1
  <2>2. CASE current # 0
    <3>1. current \in 1..Len(agents)
      BY <1>2, <2>2
    <3>2. SameButUser([agents EXCEPT ![current].sec = u], agents)
      BY <1>2, <3>1, SetUser
    <3> QED
      BY <1>1, <3>2 DEF SameButUser
  <2> QED
    BY <2>1, <2>2
<1>4. edits' \in 0..MaxEdits
  BY <1>1, NamesAssumption DEF TypeOK
<1>5. combo' \in [list : Seq(User), text : User \cup {NoText}] /\ combo'.list = combo.list
  BY <1>1 DEF TypeOK
<1>6. TypeOK'
  BY <1>1, <1>3, <1>4, <1>5 DEF TypeOK
<1>7. PageShowsProfile' /\ OffersUsers'
  BY <1>1, <1>5 DEF PageShowsProfile, OffersUsers, Inv
<1>8. KeepsStep /\ UserStep /\ ChoiceStep
  BY <1>1 DEF KeepsStep, UserStep, ChoiceStep
<1> QED
  BY <1>6, <1>7, <1>8 DEF StepOK, Inv

LEMMA AddOK ==
  ASSUME Inv, Add
  PROVE  StepOK
<1> DEFINE q == NewProfile(NewName, {1}, NoText)
           w == WithNew(Boxes, current, q)
<1>1. /\ TypeOK /\ edits < MaxEdits /\ edits' = edits + 1
      /\ SelectGeneral(w, Len(agents) + 1)
      /\ UNCHANGED <<combo, open, users, usmFile, file, main, saved>>
  BY DEF Inv, Add
<1>2. /\ Boxes \in Widgets /\ Boxes.agents = agents /\ Len(agents) \in Nat
      /\ current \in {0} \cup DOMAIN Boxes.agents
  BY <1>1, TypeFacts DEF TypeOK
<1>3. q \in Profile
  BY NamesAssumption, NewProfileType DEF Proto
<1> HIDE DEF q
<1>4. w \in Widgets /\ Len(w.agents) = Len(agents) + 1
  BY <1>2, <1>3, WithNewFacts
<1> HIDE DEF w
<1>5. Len(agents) + 1 \in DOMAIN w.agents
  <2>1. w.agents \in Seq(Profile)
    BY <1>4 DEF Widgets
  <2>2. DOMAIN w.agents = 1..(Len(agents) + 1)
    BY <1>4, <2>1, LenProperties
  <2> QED
    BY <1>2, <2>2
<1>6. /\ agents' \in Seq(Profile) /\ Len(agents') = Len(w.agents) /\ box' \subseteq Proto
      /\ current' \in 0..Len(agents') /\ page' = "general"
      /\ nameText' \in Name /\ PageShowsProfile'
  BY <1>1, <1>4, <1>5, SelectGeneralFacts
<1>7. edits' \in 0..MaxEdits
  BY <1>1, NamesAssumption DEF TypeOK
<1>8. TypeOK'
  BY <1>1, <1>6, <1>7 DEF TypeOK, Page
<1>9. OffersUsers'
  BY <1>1 DEF OffersUsers, Inv
<1>10. KeepsStep /\ UserStep /\ ChoiceStep
  <2>1. Len(agents') # Len(agents)
    BY <1>2, <1>4, <1>6
  <2> QED
    BY <1>1, <2>1 DEF KeepsStep, UserStep, ChoiceStep
<1> QED
  BY <1>6, <1>8, <1>9, <1>10 DEF StepOK, Inv

LEMMA DeleteOK ==
  ASSUME Inv, Delete
  PROVE  StepOK
<1> DEFINE ps == Without(agents, current)
           w == [box |-> box, agents |-> ps]
<1>1. /\ TypeOK /\ current # 0 /\ edits < MaxEdits /\ edits' = edits + 1
      /\ UNCHANGED <<combo, open, users, usmFile, file, main, saved>>
  BY DEF Inv, Delete
<1>2. IF ps = <<>>
      THEN agents' = ps /\ current' = 0 /\ page' = "general" /\ UNCHANGED <<box, nameText>>
      ELSE SelectGeneral(w, IF current = Len(agents) THEN current - 1 ELSE current)
  BY DEF Delete
<1>3. PICK n \in Nat : n = Len(agents) /\ current \in 1..n /\ agents \in Seq(Profile)
  BY <1>1, TypeFacts DEF TypeOK
<1>4. ps \in Seq(Profile) /\ Len(ps) = n - 1
  BY <1>3, WithoutFacts
<1>5. w \in Widgets /\ w.agents = ps
  BY <1>1, <1>4 DEF Widgets, TypeOK
<1> HIDE DEF w, ps
<1>6. edits' \in 0..MaxEdits
  BY <1>1, NamesAssumption DEF TypeOK
<1>7. TypeOK' /\ PageShowsProfile' /\ Len(agents') = n - 1
  <2>1. CASE ps = <<>>
    <3>1. /\ agents' \in Seq(Profile) /\ Len(agents') \in Nat /\ box' \subseteq Proto
          /\ current' = 0 /\ page' = "general" /\ nameText' \in Name \cup {NoText}
      BY <1>1, <1>2, <1>4, <2>1, LenProperties DEF TypeOK
    <3>2. TypeOK'
      BY <1>1, <1>6, <3>1 DEF TypeOK, Page
    <3> QED
      BY <1>2, <1>4, <2>1, <3>1, <3>2 DEF PageShowsProfile
  <2>2. CASE ps # <<>>
    <3> DEFINE i == IF current = n THEN current - 1 ELSE current
    <3>1. Len(ps) \in Nat \ {0} /\ DOMAIN ps = 1..(n - 1)
      BY <1>4, <2>2, EmptySeq, LenProperties
    <3>2. i \in DOMAIN w.agents
      BY <1>3, <1>4, <1>5, <3>1
    <3>3. SelectGeneral(w, i)
      BY <1>2, <1>3, <2>2
    <3> HIDE DEF i
    <3>4. /\ agents' \in Seq(Profile) /\ Len(agents') = Len(w.agents) /\ box' \subseteq Proto
          /\ current' \in 0..Len(agents') /\ page' = "general"
          /\ nameText' \in Name /\ PageShowsProfile'
      BY <1>5, <3>2, <3>3, SelectGeneralFacts
    <3>5. TypeOK'
      BY <1>1, <1>6, <3>4 DEF TypeOK, Page
    <3> QED
      BY <1>4, <1>5, <3>4, <3>5
  <2> QED
    BY <2>1, <2>2
<1>8. OffersUsers'
  BY <1>1 DEF OffersUsers, Inv
<1>9. KeepsStep /\ UserStep /\ ChoiceStep
  <2>1. Len(agents') # Len(agents)
    BY <1>3, <1>7
  <2> QED
    BY <1>1, <2>1 DEF KeepsStep, UserStep, ChoiceStep
<1> QED
  BY <1>7, <1>8, <1>9 DEF StepOK, Inv

LEMMA SelectMainOK ==
  ASSUME Inv, NEW n, NEW pref, SelectMain(n, pref)
  PROVE  StepOK
<1>1. /\ TypeOK /\ ~open /\ n \in main.list /\ edits < MaxEdits /\ edits' = edits + 1
      /\ main' = Selected(main, agents, n, pref) /\ SaveChoice(main', agents)
      /\ UNCHANGED <<agents, widgets, open, users, usmFile, file>>
  BY DEF Inv, SelectMain
<1>2. /\ main \in MainType /\ saved \in SavedType /\ agents \in Seq(Profile)
      /\ n \in Name
  BY <1>1, TypeFacts DEF TypeOK
<1>3. main' \in MainType
  BY <1>1, <1>2, SelectedFacts DEF Chosen
<1>4. saved' \in SavedType
  BY <1>1, <1>2, <1>3, SaveFacts
<1>5. edits' \in 0..MaxEdits
  BY <1>1, NamesAssumption DEF TypeOK
<1>6. TypeOK'
  BY <1>1, <1>3, <1>4, <1>5 DEF TypeOK, MainType, SavedType, widgets
<1>7. PageShowsProfile' /\ OffersUsers'
  BY <1>1 DEF PageShowsProfile, OffersUsers, Inv, widgets
<1>8. KeepsStep /\ UserStep /\ ChoiceStep
  BY <1>1 DEF KeepsStep, UserStep, ChoiceStep, widgets
<1> QED
  BY <1>6, <1>7, <1>8 DEF StepOK, Inv

LEMMA EmitFacts ==
  ASSUME main \in MainType, saved \in SavedType, NEW ps \in Seq(Profile), Emit(ps)
  PROVE  /\ main' \in MainType /\ saved' \in SavedType
         /\ main.profile \in Names(ps) =>
              /\ main'.profile = main.profile
              /\ main.proto \in ps[First(ps, main.profile)].sup => main'.proto = main.proto
<1>1. main' = ListChanged(main, ps) /\ SaveChoice(main', ps)
  BY DEF Emit
<1>2. /\ main' \in MainType
      /\ main.profile \in Names(ps) =>
           /\ main'.profile = main.profile
           /\ main.proto \in ps[First(ps, main.profile)].sup => main'.proto = main.proto
  BY <1>1, ListChangedFacts
<1>3. saved' \in SavedType
  BY <1>1, <1>2, SaveFacts
<1> QED
  BY <1>2, <1>3

LEMMA OpenDialogOK ==
  ASSUME Inv, NEW n, OpenDialog(n)
  PROVE  StepOK
<1> DEFINE i == IF n \in Names(agents) THEN First(agents, n) ELSE current
           moves == n \in Names(agents) /\ <<i, "general">> # <<current, page>>
           u == IF moves THEN ApplySupportedProtocol(Boxes, i, i) ELSE Boxes
<1>1. /\ TypeOK /\ ~open /\ open' = TRUE /\ UNCHANGED rest
      /\ box' = u.box /\ current' = i
      /\ page' = IF moves THEN "general" ELSE page
      /\ nameText' = IF moves THEN agents[i].name ELSE nameText
      /\ Refill(u.agents, i)
  BY Zenon DEF Inv, OpenDialog
<1>2. /\ Boxes \in Widgets /\ Boxes.agents = agents /\ Boxes.box = box
      /\ agents \in Seq(Profile) /\ Len(agents) \in Nat /\ DOMAIN agents = 1..Len(agents)
  BY <1>1, TypeFacts
<1>3. i \in 0..Len(agents) /\ (moves => i \in DOMAIN agents)
  <2>1. CASE n \in Names(agents)
    <3>1. First(agents, n) \in DOMAIN agents
      BY <1>2, <2>1, FirstFacts
    <3> QED
      BY <1>2, <2>1, <3>1
  <2>2. CASE n \notin Names(agents)
    BY <1>1, <2>2 DEF TypeOK
  <2> QED
    BY <2>1, <2>2
<1>a. ~moves => i = current
  OBVIOUS
<1>b. /\ moves => u = ApplySupportedProtocol(Boxes, i, i)
      /\ ~moves => u = Boxes
  OBVIOUS
<1> HIDE DEF i, moves, u
<1>4. Kept(u, Boxes) /\ (page' = "general" /\ i # 0 => Shows(u, i))
  <2>1. CASE moves
    BY <1>2, <1>3, <1>b, <2>1, ApplyCurrent
  <2>2. CASE ~moves
    <3>1. Kept(u, Boxes) /\ u = Boxes /\ i = current /\ page' = page
      BY <1>1, <1>2, <1>a, <1>b, <2>2, KeptSame
    <3> QED
      BY <3>1, PageShows DEF Inv
  <2> QED
    BY <2>1, <2>2
<1>5. /\ u.agents \in Seq(Profile) /\ Len(u.agents) = Len(agents) /\ DOMAIN u.agents = DOMAIN agents
      /\ u.box \subseteq Proto /\ \A j \in DOMAIN agents : u.agents[j].sec = agents[j].sec
  BY <1>2, <1>4 DEF Kept, Widgets
<1>6. /\ combo' \in [list : Seq(User), text : User \cup {NoText}] /\ combo'.list = users
      /\ SameButUser(agents', u.agents)
      /\ \A j \in DOMAIN u.agents :
           (\E k \in DOMAIN users : users[k] = u.agents[j].sec) =>
             agents'[j].sec = u.agents[j].sec
  BY <1>1, <1>3, <1>5, RefillFacts
<1>7. agents' \in Seq(Profile) /\ Len(agents') = Len(agents) /\ DOMAIN agents' = DOMAIN agents
  BY <1>5, <1>6 DEF SameButUser
<1>8. nameText' \in Name \cup {NoText} /\ page' \in Page
  <2>1. CASE moves
    <3>1. agents[i] \in Profile
      BY <1>2, <1>3, <2>1, NamesFacts
    <3> QED
      BY <1>1, <2>1, <3>1 DEF Profile, Page
  <2>2. CASE ~moves
    BY <1>1, <2>2 DEF TypeOK
  <2> QED
    BY <2>1, <2>2
<1>9. TypeOK'
  BY <1>1, <1>3, <1>5, <1>6, <1>7, <1>8 DEF TypeOK, rest
<1>10. PageShowsProfile'
  <2> SUFFICES ASSUME page' = "general", i # 0
               PROVE  /\ u.box = agents'[i].sup
                      /\ agents'[i].shown \subseteq Needed(agents'[i].sup)
                      /\ 3 \in agents'[i].sup => "v3" \in agents'[i].shown
    BY <1>1 DEF PageShowsProfile
  <2>1. Shows(u, i) /\ i \in DOMAIN u.agents
    BY <1>2, <1>3, <1>4, <1>5
  <2>2. agents'[i].sup = u.agents[i].sup /\ agents'[i].shown = u.agents[i].shown
    BY <1>6, <2>1 DEF SameButUser
  <2> QED
    BY <2>1, <2>2 DEF Shows
<1>11. OffersUsers'
  BY <1>1, <1>6 DEF OffersUsers, rest
<1>12. KeepsStep /\ ChoiceStep
  BY <1>1 DEF KeepsStep, ChoiceStep, rest
<1>13. UserStep
  BY <1>5, <1>6 DEF UserStep
<1> QED
  BY <1>9, <1>10, <1>11, <1>12, <1>13 DEF StepOK, Inv

LEMMA AcceptOK ==
  ASSUME Inv, Accept
  PROVE  StepOK
<1>1. /\ TypeOK /\ open' = FALSE /\ file' = ToStored(agents) /\ Emit(agents)
      /\ UNCHANGED <<agents, widgets, users, usmFile, edits>>
  BY DEF Inv, Accept
<1>2. /\ main \in MainType /\ saved \in SavedType /\ agents \in Seq(Profile)
  BY <1>1, TypeFacts
<1>3. /\ main' \in MainType /\ saved' \in SavedType
      /\ main.profile \in Names(agents) =>
           /\ main'.profile = main.profile
           /\ main.proto \in agents[First(agents, main.profile)].sup => main'.proto = main.proto
  BY <1>1, <1>2, EmitFacts
<1>4. file' \in Seq(StoredProfile)
  BY <1>1, <1>2, ToStoredType
<1>5. TypeOK'
  BY <1>1, <1>3, <1>4 DEF TypeOK, MainType, SavedType, widgets
<1>6. PageShowsProfile' /\ OffersUsers'
  BY <1>1 DEF PageShowsProfile, OffersUsers, Inv, widgets
<1>7. KeepsStep /\ UserStep
  BY <1>1 DEF KeepsStep, UserStep
<1>8. ChoiceStep
  <2>1. agents' = agents
    BY <1>1
  <2> QED
    BY <1>3, <2>1 DEF ChoiceStep
<1> QED
  BY <1>5, <1>6, <1>7, <1>8 DEF StepOK, Inv

LEMMA CancelOK ==
  ASSUME Inv, Cancel
  PROVE  StepOK
<1>1. TypeOK /\ open' = FALSE /\ UNCHANGED <<agents, widgets, rest>>
  BY DEF Inv, Cancel
<1>2. TypeOK'
  BY <1>1 DEF TypeOK, widgets, rest
<1>3. PageShowsProfile' /\ OffersUsers'
  BY <1>1 DEF PageShowsProfile, OffersUsers, Inv, widgets
<1>4. KeepsStep /\ UserStep /\ ChoiceStep
  BY <1>1 DEF KeepsStep, UserStep, ChoiceStep, rest
<1> QED
  BY <1>2, <1>3, <1>4 DEF StepOK, Inv

LEMMA UsmDialogOK ==
  ASSUME Inv, NEW us \in UserLists, NEW accepted \in BOOLEAN, UsmDialog(us, accepted)
  PROVE  StepOK
<1>1. /\ TypeOK /\ ~open /\ edits < MaxEdits /\ edits' = edits + 1 /\ users' = us
      /\ usmFile' = IF accepted THEN us ELSE usmFile
      /\ UNCHANGED <<agents, widgets, open, file, main, saved>>
  BY DEF Inv, UsmDialog
<1>2. us \in Seq(User) /\ edits' \in 0..MaxEdits
  BY <1>1, NamesAssumption DEF TypeOK
<1>3. usmFile' \in Seq(User)
  BY <1>1, <1>2 DEF TypeOK
<1>4. TypeOK'
  BY <1>1, <1>2, <1>3 DEF TypeOK, widgets
<1>5. PageShowsProfile' /\ OffersUsers'
  BY <1>1 DEF PageShowsProfile, OffersUsers, Inv, widgets
<1>6. KeepsStep /\ UserStep /\ ChoiceStep
  BY <1>1 DEF KeepsStep, UserStep, ChoiceStep
<1> QED
  BY <1>4, <1>5, <1>6 DEF StepOK, Inv

LEMMA AddFoundOK ==
  ASSUME Inv, NEW n \in Name, NEW sup \in Found, NEW from \in main.list, AddFound(n, sup, from)
  PROVE  StepOK
<1> DEFINE sec == agents[First(agents, from)].sec
           q == NewProfile(n, sup, sec)
           u == WithNew(Boxes, current, q)
<1>1. /\ TypeOK /\ ~open /\ edits < MaxEdits /\ edits' = edits + 1 /\ from \in Names(agents)
      /\ box' = u.box /\ agents' = u.agents /\ file' = ToStored(u.agents) /\ Emit(u.agents)
      /\ nameText' = n
      /\ UNCHANGED <<combo, current, page, open, users, usmFile>>
  BY DEF Inv, AddFound
<1>2. /\ Boxes \in Widgets /\ Boxes.agents = agents /\ Len(agents) \in Nat
      /\ agents \in Seq(Profile) /\ current \in {0} \cup DOMAIN Boxes.agents
      /\ main \in MainType /\ saved \in SavedType
  BY <1>1, TypeFacts DEF TypeOK
<1>3. sec \in User \cup {NoText}
  <2>1. agents[First(agents, from)] \in Profile
    BY <1>1, <1>2, FirstFacts, NamesFacts
  <2> QED
    BY <2>1 DEF Profile
<1> HIDE DEF sec
<1>4. q \in Profile
  <2>1. sup \in SUBSET Proto
    BY NamesAssumption DEF Proto
  <2> QED
    BY <1>3, <2>1, NewProfileType
<1> HIDE DEF q
<1>5. /\ u \in Widgets /\ Len(u.agents) = Len(agents) + 1
      /\ current # 0 /\ Shows(Boxes, current) => Shows(u, current)
  BY <1>2, <1>4, WithNewFacts
<1> HIDE DEF u
<1>6. u.agents \in Seq(Profile) /\ u.box \subseteq Proto
  BY <1>5 DEF Widgets
<1>7. /\ main' \in MainType /\ saved' \in SavedType
      /\ main.profile \in Names(u.agents) =>
           /\ main'.profile = main.profile
           /\ main.proto \in u.agents[First(u.agents, main.profile)].sup
                => main'.proto = main.proto
  BY <1>1, <1>2, <1>6, EmitFacts
<1>8. file' \in Seq(StoredProfile) /\ edits' \in 0..MaxEdits
  BY <1>1, <1>6, ToStoredType, NamesAssumption DEF TypeOK
<1>9. current' \in 0..Len(agents')
  BY <1>1, <1>2, <1>5 DEF TypeOK
<1>10. TypeOK'
  BY <1>1, <1>6, <1>7, <1>8, <1>9 DEF TypeOK, MainType, SavedType
<1>11. PageShowsProfile'
  <2>1. page = "general" /\ current # 0 => Shows(u, current)
    BY <1>5, PageShows DEF Inv
  <2> QED
    BY <1>1, <2>1 DEF PageShowsProfile, Shows
<1>12. OffersUsers'
  BY <1>1 DEF OffersUsers
<1>13. KeepsStep /\ UserStep
  BY <1>1 DEF KeepsStep, UserStep
<1>14. ChoiceStep
  BY <1>1, <1>7 DEF ChoiceStep
<1> QED
  BY <1>10, <1>11, <1>12, <1>13, <1>14 DEF StepOK, Inv

LEMMA FirstStored ==
  ASSUME NEW f \in Seq(StoredProfile), f # <<>>
  PROVE  f[1].name \in Name
<1>1. Len(f) \in Nat \ {0}
  BY EmptySeq
<1>2. f[1] \in StoredProfile
  BY <1>1, ElementOfSeq
<1> QED
  BY <1>2 DEF StoredProfile

LEMMA RestartOK ==
  ASSUME Inv, Restart
  PROVE  StepOK
<1> DEFINE w == Loaded(file)
<1>1. /\ TypeOK /\ agents' = w.agents /\ box' = w.box
      /\ nameText' = IF file = <<>> THEN NoText ELSE file[1].name
      /\ main' = StartMain(w.agents, saved)
      /\ saved' = IF saved.profile \in Names(w.agents) \/ w.agents = <<>> THEN saved
                  ELSE [profile |-> main'.profile,
                        proto |-> IF w.agents[1].sup = {} THEN 0 ELSE main'.proto]
      /\ combo' = [list |-> <<>>, text |-> NoText]
      /\ current' = IF file = <<>> THEN 0 ELSE 1
      /\ page' = "general" /\ open' = FALSE /\ users' = usmFile
      /\ UNCHANGED <<usmFile, file, edits>>
  BY DEF Inv, Restart
<1>2. /\ w \in Widgets /\ Len(w.agents) = Len(file)
      /\ file # <<>> => Shows(w, 1) /\ 1 \in DOMAIN w.agents
  BY <1>1, LoadedFacts DEF TypeOK
<1> HIDE DEF w
<1>3. w.agents \in Seq(Profile) /\ w.box \subseteq Proto /\ saved \in SavedType
  BY <1>1, <1>2, TypeFacts DEF Widgets
<1>4. main' \in MainType /\ (w.agents # <<>> => main'.profile \in Name)
  BY <1>1, <1>3, StartFacts
<1>5. saved' \in SavedType
  <2>1. CASE saved.profile \in Names(w.agents) \/ w.agents = <<>>
    BY <1>1, <1>3, <2>1
  <2>2. CASE ~(saved.profile \in Names(w.agents) \/ w.agents = <<>>)
    <3>1. main'.profile \in Name /\ main'.proto \in Proto
      BY <1>4, <2>2 DEF MainType
    <3> QED
      BY <1>1, <2>2, <3>1 DEF SavedType
  <2> QED
    BY <2>1, <2>2
<1>6. nameText' \in Name \cup {NoText}
  BY <1>1, FirstStored DEF TypeOK
<1>7. current' \in 0..Len(agents')
  <2>1. DOMAIN w.agents = 1..Len(w.agents) /\ Len(w.agents) \in Nat
    BY <1>3, LenProperties
  <2> QED
    BY <1>1, <1>2, <2>1
<1>8. combo' \in [list : Seq(User), text : User \cup {NoText}]
  BY <1>1, EmptySeq
<1>9. TypeOK'
  BY <1>1, <1>3, <1>4, <1>5, <1>6, <1>7, <1>8 DEF TypeOK, MainType, SavedType, Page
<1>10. PageShowsProfile' /\ OffersUsers'
  BY <1>1, <1>2 DEF PageShowsProfile, OffersUsers, Shows
<1>11. KeepsStep /\ UserStep /\ ChoiceStep
  BY <1>1 DEF KeepsStep, UserStep, ChoiceStep
<1> QED
  BY <1>9, <1>10, <1>11 DEF StepOK, Inv
-----------------------------------------------------------------------------
LEMMA InitInv == Init => Inv
<1> SUFFICES ASSUME Init PROVE Inv
  OBVIOUS
<1> DEFINE w == Loaded(file)
<1>1. PICK choice \in Choices : main = StartMain(w.agents, choice) /\ saved = choice
  BY DEF Init
<1>2. /\ file \in Stored /\ usmFile \in UserLists /\ users = usmFile
      /\ agents = w.agents /\ box = w.box /\ nameText = file[1].name
      /\ combo = [list |-> <<>>, text |-> NoText]
      /\ current = 1 /\ page = "general" /\ open = FALSE /\ edits = 0
  BY DEF Init
<1>3. file \in Seq(StoredProfile) /\ file # <<>>
  BY <1>2, StoredAssumption
<1>4. w \in Widgets /\ Shows(w, 1) /\ 1 \in DOMAIN w.agents
  BY <1>3, LoadedFacts
<1> HIDE DEF w
<1>5. w.agents \in Seq(Profile) /\ w.box \subseteq Proto
  BY <1>4 DEF Widgets
<1>6. choice \in SavedType
  BY NamesAssumption DEF SavedType, Proto
<1>7. main \in MainType /\ saved \in SavedType
  BY <1>1, <1>5, <1>6, StartFacts
<1>8. /\ nameText \in Name /\ users \in Seq(User) /\ usmFile \in Seq(User)
      /\ combo \in [list : Seq(User), text : User \cup {NoText}]
      /\ edits \in 0..MaxEdits
  BY <1>2, <1>3, FirstStored, EmptySeq, NamesAssumption
<1>9. current \in 0..Len(agents)
  <2>1. DOMAIN w.agents = 1..Len(w.agents) /\ Len(w.agents) \in Nat
    BY <1>5, LenProperties
  <2> QED
    BY <1>2, <1>4, <2>1
<1>10. TypeOK
  BY <1>2, <1>3, <1>5, <1>7, <1>8, <1>9 DEF TypeOK, MainType, SavedType, Page
<1>11. PageShowsProfile /\ OffersUsers
  BY <1>2, <1>4 DEF PageShowsProfile, OffersUsers, Shows
<1> QED
  BY <1>10, <1>11 DEF Inv

LEMMA Step == Inv /\ [Next]_vars => StepOK
<1> SUFFICES ASSUME Inv, [Next]_vars PROVE StepOK
  OBVIOUS
<1>1. ASSUME UNCHANGED vars PROVE StepOK
  <2>1. Inv'
    BY <1>1 DEF Inv, TypeOK, PageShowsProfile, OffersUsers, vars, widgets, rest
  <2>2. KeepsStep /\ UserStep /\ ChoiceStep
    BY <1>1 DEF KeepsStep, UserStep, ChoiceStep, vars, widgets, rest
  <2> QED
    BY <2>1, <2>2 DEF StepOK
<1>2. ASSUME NEW i \in DOMAIN agents, ClickGeneral(i) PROVE StepOK
  BY <1>2, ClickGeneralOK
<1>3. ASSUME NEW i \in DOMAIN agents, NEW g \in Sub, ClickSub(i, g) PROVE StepOK
  BY <1>3, ClickSubOK
<1>4. ASSUME NEW v \in Proto, ToggleBox(v) PROVE StepOK
  BY <1>4, ToggleBoxOK
<1>5. ASSUME NEW n \in Name, LeaveName(n) PROVE StepOK
  BY <1>5, LeaveNameOK
<1>6. ASSUME NEW u \in User, PickUser(u) PROVE StepOK
  BY <1>6, PickUserOK
<1>7. ASSUME NEW n \in Name, ChooseProfile(n) PROVE StepOK
  BY <1>7, SelectMainOK DEF ChooseProfile
<1>8. ASSUME NEW v \in Proto, ChooseProto(v) PROVE StepOK
  BY <1>8, SelectMainOK DEF ChooseProto
<1>9. ASSUME NEW n \in main.list \cup {NoText}, OpenDialog(n) PROVE StepOK
  BY <1>9, OpenDialogOK
<1>10. ASSUME NEW n \in Name, NEW sup \in Found, NEW from \in main.list,
              AddFound(n, sup, from)
       PROVE  StepOK
  BY <1>10, AddFoundOK
<1>11. ASSUME NEW us \in UserLists, NEW accepted \in BOOLEAN, UsmDialog(us, accepted)
       PROVE  StepOK
  BY <1>11, UsmDialogOK
<1> QED
  BY <1>1, <1>2, <1>3, <1>4, <1>5, <1>6, <1>7, <1>8, <1>9, <1>10, <1>11,
     AddOK, DeleteOK, AcceptOK, CancelOK, RestartOK DEF Next

LEMMA Invariance == Spec => []Inv
<1>1. Inv /\ [Next]_vars => Inv'
  BY Step DEF StepOK
<1> QED
  BY <1>1, InitInv, PTL DEF Spec

\* The widgets, the profiles, the file and the main window always hold values
\* of their types: in particular currentprofile is a profile there is.
THEOREM TypeCorrect == Spec => []TypeOK
<1>1. Inv => TypeOK
  BY DEF Inv
<1> QED
  BY <1>1, Invariance, PTL

\* SelectedAgentProfile, ProtocolVxSupport: on the general page the boxes are
\* the protocols of the current profile, and no sub-page is shown that none of
\* them needs, whatever was set before.  Of the sub-pages that they do need it
\* says that SnmpV3's is shown, and nothing of the other two.
THEOREM PageIsProfile == Spec => []PageShowsProfile
<1>1. Inv => PageShowsProfile
  BY DEF Inv
<1> QED
  BY <1>1, Invariance, PTL

\* "Order is important" in ApplySupportedProtocol: it is enough, for any
\* profiles, that turning to a page changes the protocols of none and hides
\* no sub-page that these need.
THEOREM SelectionKeeps == Spec => SelectKeeps
<1>1. Inv /\ [Next]_vars => [KeepsStep]_vars
  BY Step DEF StepOK
<1> QED
  BY <1>1, Invariance, PTL DEF Spec, SelectKeeps, KeepsStep

\* Execute and SelectAgentProfile: refilling and setting the combobox of
\* users, whose slot writes to the current profile, loses no user.
THEOREM UsersKept == Spec => UserKept
<1>1. Inv /\ [Next]_vars => [UserStep]_vars
  BY Step DEF StepOK
<1> QED
  BY <1>1, Invariance, PTL DEF Spec, UserKept, UserStep

\* AgentProfileListChange: saving keeps the main window's choice.
THEOREM ChoicesKept == Spec => ChoiceKept
<1>1. Inv /\ [Next]_vars => [ChoiceStep]_vars
  BY Step DEF StepOK
<1> QED
  BY <1>1, Invariance, PTL DEF Spec, ChoiceKept, ChoiceStep
=============================================================================
