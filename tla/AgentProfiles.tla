---------------------------- MODULE AgentProfiles ----------------------------
(***************************************************************************)
(* AgentProfileManager and the profiles it owns, the USM user names it     *)
(* offers, and the main window's choice of a profile and a protocol        *)
(* (Agent::AgentProfileListChange, SelectAgentProfile).                    *)
(*                                                                         *)
(* All profiles are edited through ONE set of widgets: three protocol      *)
(* boxes, one name field and one combobox of user names.  Whatever sets a  *)
(* widget, a user or the program, runs the widget's slot, and the slot     *)
(* writes to currentprofile.  Of a profile's data the model keeps what     *)
(* goes through such a slot in more than one way: its protocols, the       *)
(* sub-pages these show in the tree, its name and its USM user.            *)
(***************************************************************************)
EXTENDS Integers, Sequences, FiniteSets

CONSTANTS
  Name,       \* profile names
  NewName,    \* "newagent"
  User,       \* USM user names
  UserLists,  \* the lists of users the USM profile dialog may make
  NoText,     \* the empty text
  Stored,     \* the contents agents.conf may have at the first start
  Choices,    \* the profiles and protocols that may be saved then
  MaxAgents,  \* bound: profiles
  Found,      \* the protocol sets with which Discovery may find an agent
  MaxEdits    \* bound: edits and choices

ASSUME NamesAssumption ==
  /\ NewName \in Name
  /\ NoText \notin User \cup Name
  /\ UserLists \subseteq Seq(User)
  /\ Choices \subseteq [profile : Name, proto : 1..3]
  /\ Found \subseteq SUBSET (1..3)
  /\ MaxAgents \in Nat /\ MaxEdits \in Nat

VARIABLES
  agents,     \* AgentProfileManager::agents, a sequence of profiles
  box,        \* the protocol boxes V1, V2, V3 that are checked
  nameText,   \* text of the name field
  combo,      \* the SecName combobox: its list and the text it shows
  current,    \* currentprofile, as a position in agents; 0 for NULL
  page,       \* the current item of the tree, which is also the page shown
  open,       \* the dialog is up (it is modal)
  users,      \* USMProfileManager::users, the names GetUsersList returns
  usmFile,    \* the users in the USM table and in its file
  file,       \* agents.conf
  main,       \* the main window: profile, protocol radio button, enabled ones
  saved,      \* ui/selectedprofile and ui/selectedproto
  edits       \* counts the steps bounded by MaxEdits

widgets == <<box, nameText, combo, current, page>>
rest == <<users, usmFile, file, main, saved, edits>>
vars == <<agents, widgets, open, rest>>
-----------------------------------------------------------------------------
Proto == {1, 2, 3}

\* A profile's sub-pages, each with the protocols that need it.
Uses == [v1v2c |-> {1, 2}, bulk |-> {2, 3}, v3 |-> {3}]
Sub == DOMAIN Uses
Page == {"general"} \cup Sub

\* The sub-pages that a profile with these protocols needs.
Needed(sup) == {g \in Sub : Uses[g] \cap sup # {}}

Profile == [name : Name, sup : SUBSET Proto, shown : SUBSET Sub,
            sec : User \cup {NoText}]
StoredProfile == [name : Name, sup : SUBSET Proto, sec : User \cup {NoText}]

ASSUME StoredAssumption == Stored \subseteq Seq(StoredProfile) \ {<<>>}

\* The constructor: all sub-items exist and are visible.
NewProfile(n, sup, sec) == [name |-> n, sup |-> sup, shown |-> Sub, sec |-> sec]

Names(as) == {as[i].name : i \in DOMAIN as}

\* GetAgentProfile and findText: the first of that name.
First(as, n) == CHOOSE i \in DOMAIN as :
  as[i].name = n /\ \A j \in DOMAIN as : as[j].name = n => i <= j
-----------------------------------------------------------------------------
(***************************************************************************)
(* The protocol boxes.  w holds the boxes and the profiles, c is           *)
(* currentprofile: what the slots of the boxes work on.                    *)
(***************************************************************************)
\* The sub-pages that showing or hiding is decided by box v alone.
Touched(bs, v) == {g \in Sub : v \in Uses[g] /\ Uses[g] \cap (bs \ {v}) = {}}

\* AgentProfile::ProtocolVxSupport past its check: profile p gets the
\* protocol and its sub-pages, or loses them.
Record(w, p, v, on) ==
  LET t == Touched(w.box, v) IN
  IF on THEN [w EXCEPT !.agents[p].sup = @ \cup {v}, !.agents[p].shown = @ \cup t]
        ELSE [w EXCEPT !.agents[p].sup = @ \ {v}, !.agents[p].shown = @ \ t]

\* "At least one protocol must be selected".
Refused(w, v, on) == ~on /\ w.box \ {v} = {}

\* Mutant of Check: a refused box is not checked again.
CheckRefuses(w, c, v, on) ==
  LET u == [w EXCEPT !.box = IF on THEN @ \cup {v} ELSE @ \ {v}] IN
  IF u.box = w.box \/ c = 0 \/ Refused(u, v, on) THEN u ELSE Record(u, c, v, on)

\* setCheckState: when the box changes, its slot records the protocol in the
\* current profile, or refuses, checks the box again and so records that.
Check(w, c, v, on) ==
  LET u == [w EXCEPT !.box = IF on THEN @ \cup {v} ELSE @ \ {v}] IN
  CASE u.box = w.box -> w
    [] u.box # w.box /\ c = 0 -> u
    [] u.box # w.box /\ c # 0 /\ Refused(u, v, on) -> Record(w, c, v, TRUE)
    [] OTHER -> Record(u, c, v, on)

ProtocolSupport(w, c, p, v, on) ==
  IF Refused(w, v, on) THEN Check(w, c, v, TRUE) ELSE Record(w, p, v, on)

\* One of the six steps of ApplySupportedProtocol, which reads the flag of
\* the profile again after it has set the box.
ApplyOne(w, c, p, v, on) ==
  IF (v \in w.agents[p].sup) # on THEN w
  ELSE LET u == Check(w, c, v, on)
       IN ProtocolSupport(u, c, p, v, v \in u.agents[p].sup)

ApplyAll(w, c, p, on) ==
  ApplyOne(ApplyOne(ApplyOne(w, c, p, 1, on), c, p, 2, on), c, p, 3, on)

\* Mutant of ApplySupportedProtocol: the unsupported ones are set first.
ApplySupportedProtocolReversed(w, c, p) ==
  ApplyAll(ApplyAll(w, c, p, FALSE), c, p, TRUE)

\* First the ones that are supported, then the ones that are not.
ApplySupportedProtocol(w, c, p) ==
  ApplyAll(ApplyAll(w, c, p, TRUE), c, p, FALSE)

Boxes == [box |-> box, agents |-> agents]

\* A new profile is appended, its protocols set while c is still current.
WithNew(w, c, profile) ==
  ApplySupportedProtocol([w EXCEPT !.agents = Append(@, profile)], c,
                         Len(w.agents) + 1)
-----------------------------------------------------------------------------
(***************************************************************************)
(* The tree: SelectedAgentProfile and AgentProfile::SelectAgentProfile.    *)
(***************************************************************************)
\* currentItemChanged to the top item of profile i, when the boxes and the
\* profiles are as in w.
SelectGeneral(w, i) ==
  /\ LET u == ApplySupportedProtocol(w, i, i)
     IN box' = u.box /\ agents' = u.agents
  /\ current' = i
  /\ page' = "general"
  /\ nameText' = w.agents[i].name

ClickGeneral(i) ==
  /\ open
  /\ <<i, "general">> # <<current, page>>
  /\ SelectGeneral(Boxes, i)
  /\ UNCHANGED <<combo, open, rest>>

\* On the SnmpV3 page the combobox is set to the user of the profile, or to
\* nothing when it does not offer that user.  If this changes it, SetSecName
\* writes what it now shows to the profile.
ShownUser(i) == IF \E k \in DOMAIN combo.list : combo.list[k] = agents[i].sec
                THEN agents[i].sec ELSE NoText

ClickSub(i, g) ==
  /\ open
  /\ g \in agents[i].shown
  /\ <<i, g>> # <<current, page>>
  /\ current' = i
  /\ page' = g
  /\ IF g = "v3" /\ combo.text # ShownUser(i)
     THEN /\ combo' = [combo EXCEPT !.text = ShownUser(i)]
          /\ agents' = [agents EXCEPT ![i].sec = ShownUser(i)]
     ELSE UNCHANGED <<combo, agents>>
  /\ UNCHANGED <<box, nameText, open, rest>>
-----------------------------------------------------------------------------
(***************************************************************************)
(* Edits in the dialog.                                                    *)
(***************************************************************************)
ToggleBox(v) ==
  /\ open
  /\ edits < MaxEdits
  /\ page = "general"
  /\ LET u == Check(Boxes, current, v, v \notin box)
     IN box' = u.box /\ agents' = u.agents
  /\ edits' = edits + 1
  /\ UNCHANGED <<nameText, combo, current, page, open, users, usmFile, file, main, saved>>

\* SetProfileName: the name field loses the focus, edited or not.
LeaveName(n) ==
  /\ open
  /\ page = "general" /\ current # 0
  /\ n # nameText => edits < MaxEdits
  /\ n # agents[current].name
  /\ nameText' = n
  /\ agents' = [agents EXCEPT ![current].name = n]
  /\ edits' = IF n = nameText THEN edits ELSE edits + 1
  /\ UNCHANGED <<box, combo, current, page, open, users, usmFile, file, main, saved>>

PickUser(u) ==
  /\ open
  /\ edits < MaxEdits
  /\ page = "v3"
  /\ \E k \in DOMAIN combo.list : combo.list[k] = u
  /\ u # combo.text
  /\ combo' = [combo EXCEPT !.text = u]
  /\ agents' = [agents EXCEPT ![current].sec = u]
  /\ edits' = edits + 1
  /\ UNCHANGED <<box, nameText, current, page, open, users, usmFile, file, main, saved>>

\* Add(): the protocols of the new profile are set before it is current.
Add ==
  /\ open
  /\ Len(agents) < MaxAgents
  /\ edits < MaxEdits
  /\ SelectGeneral(WithNew(Boxes, current, NewProfile(NewName, {1}, NoText)),
                   Len(agents) + 1)
  /\ edits' = edits + 1
  /\ UNCHANGED <<combo, open, users, usmFile, file, main, saved>>

\* Delete(): the tree makes the next top item current, or the previous one.
Without(as, i) == SubSeq(as, 1, i - 1) \o SubSeq(as, i + 1, Len(as))

Delete ==
  /\ open
  /\ edits < MaxEdits
  /\ current # 0
  /\ LET as == Without(agents, current) IN
     IF as = <<>>
     THEN agents' = as /\ current' = 0 /\ page' = "general" /\ UNCHANGED <<box, nameText>>
     ELSE SelectGeneral([box |-> box, agents |-> as],
                        IF current = Len(agents) THEN current - 1 ELSE current)
  /\ edits' = edits + 1
  /\ UNCHANGED <<combo, open, users, usmFile, file, main, saved>>
-----------------------------------------------------------------------------
(***************************************************************************)
(* The main window: which profile and protocol requests are made with.     *)
(* `main.proto' is the radio button that is down.                          *)
(***************************************************************************)
Lowest(sup) == CHOOSE v \in sup : \A x \in sup : v <= x

\* Mutant of Selected: the preferred protocol is selected unconditionally.
SelectedAnyhow(m, as, n, pref) ==
  IF n \notin Names(as) THEN [m EXCEPT !.profile = n, !.enabled = {}]
  ELSE [m EXCEPT !.profile = n, !.enabled = as[First(as, n)].sup, !.proto = pref]

\* SelectAgentProfile for the profile named n and a preferred protocol (0 if
\* none).  Without a protocol the radio buttons stay as they are.
Selected(m, as, n, pref) ==
  IF n \notin Names(as) THEN [m EXCEPT !.profile = n, !.enabled = {}]
  ELSE LET sup == as[First(as, n)].sup IN
       [m EXCEPT !.profile = n, !.enabled = sup,
                 !.proto = IF pref \in sup THEN pref
                           ELSE IF sup = {} THEN @ ELSE Lowest(sup)]

\* ... which saves the choice, unless the profile was not found.
SaveChoice(m, as) ==
  saved' = IF m.profile \notin Names(as) THEN saved
           ELSE [profile |-> m.profile,
                 proto |-> IF m.enabled = {} THEN 0 ELSE m.proto]

\* Mutant of ListChanged: the radio button is read after the refill.
ListChangedLate(m, as) ==
  IF as = <<>> THEN [m EXCEPT !.list = {}, !.profile = NoText, !.enabled = {}]
  ELSE LET filled == Selected([m EXCEPT !.list = Names(as)], as, as[1].name, 0)
           kept == m.profile \in Names(as)
       IN Selected(filled, as, IF kept THEN m.profile ELSE as[1].name,
                               IF kept THEN filled.proto ELSE 0)

\* AgentProfileListChange: refilling the combobox selects its first entry,
\* then the profile and the protocol that were selected before.
ListChanged(m, as) ==
  IF as = <<>> THEN [m EXCEPT !.list = {}, !.profile = NoText, !.enabled = {}]
  ELSE LET filled == Selected([m EXCEPT !.list = Names(as)], as, as[1].name, 0)
           kept == m.profile \in Names(as)
       IN Selected(filled, as, IF kept THEN m.profile ELSE as[1].name,
                               IF kept THEN m.proto ELSE 0)

Emit(as) == main' = ListChanged(main, as) /\ SaveChoice(main', as)

SelectMain(n, pref) ==
  /\ ~open
  /\ edits < MaxEdits
  /\ n \in main.list
  /\ main' = Selected(main, agents, n, pref)
  /\ SaveChoice(main', agents)
  /\ edits' = edits + 1
  /\ UNCHANGED <<agents, widgets, open, users, usmFile, file>>

\* The combobox, and the radio buttons (SelectAgentProto).
ChooseProfile(n) == n # main.profile /\ SelectMain(n, 0)
ChooseProto(v) == v \in main.enabled \ {main.proto} /\ SelectMain(main.profile, v)
-----------------------------------------------------------------------------
(***************************************************************************)
(* Opening and closing the dialog, Discovery's Add, restarts.              *)
(***************************************************************************)
ToStored(as) == [i \in DOMAIN as |-> [name |-> as[i].name, sup |-> as[i].sup,
                                      sec |-> as[i].sec]]

\* Mutant of Refill: the user is read from the profile after the refill.
RefillLate(as, i) ==
  LET text == IF users = <<>> THEN NoText ELSE users[1] IN
  /\ combo' = [list |-> users, text |-> text]
  /\ agents' = IF i = 0 \/ text = combo.text THEN as ELSE [as EXCEPT ![i].sec = text]

\* Execute refills the combobox of users, which selects the first one and so
\* writes it to the current profile, then selects the user that the profile
\* had, or the first one.
Refill(as, i) ==
  LET had == IF i = 0 THEN NoText ELSE as[i].sec
      text == IF \E k \in DOMAIN users : users[k] = had THEN had
              ELSE IF users = <<>> THEN NoText ELSE users[1]
  IN /\ combo' = [list |-> users, text |-> text]
     /\ agents' = IF i = 0 \/ (users = <<>> /\ combo.text = NoText) THEN as
                  ELSE [as EXCEPT ![i].sec = text]

\* Execute, from the menu (n = NoText) or after SetSelectedAgent from a
\* combobox of names, which may be out of date.
OpenDialog(n) ==
  /\ ~open
  /\ open' = TRUE
  /\ LET i == IF n \in Names(agents) THEN First(agents, n) ELSE current
         moves == n \in Names(agents) /\ <<i, "general">> # <<current, page>>
         u == IF moves THEN ApplySupportedProtocol(Boxes, i, i) ELSE Boxes
     IN /\ box' = u.box
        /\ current' = i
        /\ page' = IF moves THEN "general" ELSE page
        /\ nameText' = IF moves THEN agents[i].name ELSE nameText
        /\ Refill(u.agents, i)
  /\ UNCHANGED rest

Accept ==
  /\ open
  /\ open' = FALSE
  /\ file' = ToStored(agents)
  /\ Emit(agents)
  /\ UNCHANGED <<agents, widgets, users, usmFile, edits>>

\* Nothing is undone.
Cancel == open /\ open' = FALSE /\ UNCHANGED <<agents, widgets, rest>>

\* Add(name, ...): an agent that Discovery found becomes a profile cloned
\* from another one, unless there is one of its name.
AddFound(n, sup, from) ==
  /\ ~open
  /\ Len(agents) < MaxAgents
  /\ edits < MaxEdits
  /\ from \in Names(agents) /\ n \notin Names(agents)
  /\ LET sec == agents[First(agents, from)].sec
         u == WithNew(Boxes, current, NewProfile(n, sup, sec))
     IN /\ box' = u.box
        /\ agents' = u.agents
        /\ file' = ToStored(u.agents)
        /\ Emit(u.agents)
  /\ nameText' = n
  /\ edits' = edits + 1
  /\ UNCHANGED <<combo, current, page, open, users, usmFile>>

\* The USM profile dialog: its list of users changes even when it is
\* cancelled; OK rebuilds the USM table from it and saves that.
UsmDialog(us, accepted) ==
  /\ ~open
  /\ edits < MaxEdits
  /\ us # users \/ (accepted /\ us # usmFile)
  /\ users' = us
  /\ usmFile' = IF accepted THEN us ELSE usmFile
  /\ edits' = edits + 1
  /\ UNCHANGED <<agents, widgets, open, file, main, saved>>

\* What the constructor makes of agents.conf: every profile is created with
\* no current one, then the first is selected.
Loaded(f) ==
  LET load[k \in 0..Len(f)] ==
        IF k = 0 THEN [box |-> {}, agents |-> <<>>]
        ELSE WithNew(load[k-1], 0, NewProfile(f[k].name, f[k].sup, f[k].sec))
      w == load[Len(f)]
  IN IF f = <<>> THEN w ELSE ApplySupportedProtocol(w, 1, 1)

\* Agent::Init: the list is filled in, then the saved choice is selected; if
\* that profile is gone all radio buttons are disabled.
StartChoice(m, as, choice) ==
  IF choice.profile \in Names(as) THEN Selected(m, as, choice.profile, choice.proto)
  ELSE [m EXCEPT !.enabled = {}]

Idle == [list |-> {}, profile |-> NoText, proto |-> 1, enabled |-> {}]
StartMain(as, choice) == StartChoice(ListChanged(Idle, as), as, choice)

\* Quitting with the main window or being killed, and starting again.
Restart ==
  /\ LET w == Loaded(file) IN
     /\ agents' = w.agents
     /\ box' = w.box
     /\ nameText' = IF file = <<>> THEN NoText ELSE file[1].name
     /\ main' = StartMain(w.agents, saved)
     /\ saved' = IF saved.profile \in Names(w.agents) \/ w.agents = <<>> THEN saved
                 ELSE [profile |-> main'.profile,
                       proto |-> IF w.agents[1].sup = {} THEN 0 ELSE main'.proto]
  /\ combo' = [list |-> <<>>, text |-> NoText]
  /\ current' = IF file = <<>> THEN 0 ELSE 1
  /\ page' = "general"
  /\ open' = FALSE
  /\ users' = usmFile
  /\ UNCHANGED <<usmFile, file, edits>>
-----------------------------------------------------------------------------
Init ==
  /\ file \in Stored
  /\ usmFile \in UserLists /\ users = usmFile
  /\ LET w == Loaded(file) IN
     /\ agents = w.agents
     /\ box = w.box
     /\ \E choice \in Choices :
          main = StartMain(w.agents, choice) /\ saved = choice
  /\ nameText = file[1].name
  /\ combo = [list |-> <<>>, text |-> NoText]
  /\ current = 1 /\ page = "general"
  /\ open = FALSE
  /\ edits = 0

Next ==
  \/ \E i \in DOMAIN agents : ClickGeneral(i) \/ \E g \in Sub : ClickSub(i, g)
  \/ \E v \in Proto : ToggleBox(v)
  \/ \E n \in Name : LeaveName(n)
  \/ \E u \in User : PickUser(u)
  \/ Add
  \/ Delete
  \/ \E n \in Name : ChooseProfile(n)
  \/ \E v \in Proto : ChooseProto(v)
  \/ \E n \in main.list \cup {NoText} : OpenDialog(n)
  \/ Accept
  \/ Cancel
  \/ \E n \in Name, sup \in Found, from \in main.list : AddFound(n, sup, from)
  \/ \E us \in UserLists, accepted \in BOOLEAN : UsmDialog(us, accepted)
  \/ Restart

Spec == Init /\ [][Next]_vars
-----------------------------------------------------------------------------
TypeOK ==
  /\ agents \in Seq(Profile)
  /\ box \subseteq Proto
  /\ nameText \in Name \cup {NoText}
  /\ combo \in [list : Seq(User), text : User \cup {NoText}]
  /\ current \in 0..Len(agents)
  /\ page \in Page
  /\ open \in BOOLEAN
  /\ users \in Seq(User) /\ usmFile \in Seq(User)
  /\ file \in Seq(StoredProfile)
  /\ main \in [list : SUBSET Name, profile : Name \cup {NoText}, proto : Proto,
               enabled : SUBSET Proto]
  /\ saved \in [profile : Name, proto : Proto \cup {0}]
  /\ edits \in 0..MaxEdits

\* SelectedAgentProfile, ProtocolVxSupport: while the general page is shown,
\* the protocol boxes are the protocols of its profile, and the tree shows no
\* sub-page that none of these needs, whatever the boxes were set for before.
\* A sub-page that one of them does need may be hidden, all but SnmpV3's: the
\* slot of a box leaves v1v2c and bulk alone while another box that shows
\* them is checked, even when that one was set for another profile.
PageShowsProfile ==
  page = "general" /\ current # 0 =>
    LET p == agents[current] IN
    /\ box = p.sup
    /\ p.shown \subseteq Needed(p.sup)
    /\ 3 \in p.sup => "v3" \in p.shown

\* Profile q has the protocols of p, and every sub-page that p showed and
\* that they need.
Keeps(p, q) ==
  q.sup = p.sup /\ p.shown \cap Needed(p.sup) \subseteq q.shown

\* "Order is important" in ApplySupportedProtocol: turning to a page, of the
\* same profile or of another, sets boxes whose slots write to a profile, but
\* changes the protocols of none and hides no sub-page that one of its
\* protocols needs.
SelectKeeps ==
  [][open /\ open' /\ <<current, page>>' # <<current, page>> /\ Len(agents') = Len(agents) =>
       \A i \in DOMAIN agents :
         agents[i].sup # {} => Keeps(agents[i], agents'[i])]_vars

\* Execute and SelectAgentProfile, which set a combobox whose slot writes to
\* the current profile: opening the dialog and turning its pages leave every
\* profile the USM user it has, as long as the user list has that user.
UserKept ==
  [][ /\ open'
      /\ <<open, current, page>>' # <<open, current, page>>
      /\ Len(agents') = Len(agents)
      => \A i \in DOMAIN agents :
           (\E k \in DOMAIN users : users[k] = agents[i].sec) =>
             agents'[i].sec = agents[i].sec]_vars

\* AgentProfileListChange: when the profiles that are added, renamed, deleted
\* or edited are saved, the main window keeps the profile it had if there
\* still is one, and the protocol if that profile still supports it.
ChoiceKept ==
  [][file' # file /\ main.profile \in Names(agents') =>
       /\ main'.profile = main.profile
       /\ main.proto \in agents'[First(agents', main.profile)].sup
            => main'.proto = main.proto]_vars
=============================================================================
