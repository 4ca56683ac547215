------------------------------- MODULE Panels -------------------------------
(***************************************************************************)
(* The buttons of the panels in one group: internal/bot/callbacks.go with  *)
(* the settings of internal/db/groups.go.  Handlers run at the same time,  *)
(* one call to Telegram or to the database is one step, and the people who *)
(* press gain and lose their rights meanwhile.                             *)
(***************************************************************************)
EXTENDS Integers, FiniteSets

CONSTANTS
  People,      \* people who press buttons
  Handlers,    \* callbacks that may be handled at the same time
  DayMinutes,  \* steps of the quote time in a day
  MaxPresses   \* presses (bound)

ASSUME PanelsAssumption == DayMinutes \in Nat \ {0}

VARIABLES
  admins,    \* who is an administrator, as Telegram would say now
  settings,  \* the row of the group: a toggle, the quote time, who accepted
  language,  \* people's own language, chosen on a private panel
  press,     \* the handlers
  presses,   \* presses so far
  owed       \* history: what the changes that were made add up to

panelsVars == <<admins, settings, language, press, presses, owed>>

\* Every group panel belongs to who opened it; the welcome message to nobody.
GroupActions == {"home", "toggle", "later"}
Actions == GroupActions \cup {"close", "private", "accept", "unknown"}
AdminOnly(action) == action \in {"toggle", "later", "accept"}

Idle == [pc |-> "idle", who |-> "none", owner |-> "none", action |-> "unknown",
         snap |-> [on |-> FALSE, time |-> 0, acceptedBy |-> "none"], everAdmin |-> FALSE, answers |-> 0]

PanelsInit ==
  /\ admins \in SUBSET People
  /\ settings = [on |-> FALSE, time |-> 0, acceptedBy |-> "none"]
  /\ language = [p \in People |-> "auto"]
  /\ press = [h \in Handlers |-> Idle]
  /\ presses = 0
  /\ owed = [on |-> FALSE, time |-> 0]

-----------------------------------------------------------------------------
In(h, pc) == press[h].pc = pc
Moves(h, pc) == press' = [press EXCEPT ![h].pc = pc]
\* The press is over; what its handler knew is gone.
Answered(h) ==
  press' = [press EXCEPT ![h] = [Idle EXCEPT !.pc = "done", !.answers = press[h].answers + 1]]
Kept == UNCHANGED <<admins, settings, language, presses, owed>>

\* A button of a panel that anybody can see.
Press(h) ==
  /\ press[h].pc \in {"idle", "done"} /\ presses < MaxPresses
  /\ \E who \in People, owner \in People \cup {"nobody"}, action \in Actions :
       /\ owner = "nobody" => action = "accept"
       /\ press' = [press EXCEPT ![h] = [Idle EXCEPT !.pc = "gate", !.who = who, !.owner = owner,
                                          !.action = action, !.everAdmin = who \in admins]]
  /\ presses' = presses + 1
  /\ UNCHANGED <<admins, settings, language, owed>>

(* menuCallback and agreementCallback up to their first call: the data must *)
(* be readable and the panel the person's own; Close is not throttled.      *)
Gate(h) ==
  /\ In(h, "gate")
  /\ LET r == press[h] IN
     \/ /\ r.action = "unknown" \/ r.owner \notin {r.who, "nobody"}
        /\ Moves(h, "answer")
     \/ /\ r.action # "unknown" /\ r.owner \in {r.who, "nobody"}
        /\ \E throttled \in IF r.action \in {"close", "accept"} THEN {FALSE} ELSE BOOLEAN :
             Moves(h, CASE throttled -> "answer"
                       [] r.action = "close" -> "close"
                       [] r.action = "accept" -> "admin"
                       [] r.action = "private" -> "act"
                       [] OTHER -> "group")
  /\ Kept

\* group: the person and the chat are recorded, then the row is read.
ReadGroup(h) ==
  /\ In(h, "group")
  /\ \/ press' = [press EXCEPT ![h].pc = IF press[h].action = "accept" THEN "act" ELSE "admin",
                               ![h].snap = settings]
     \/ Moves(h, "answer")
  /\ Kept

\* isAdmin asks Telegram on every use; an error is answered with a dialog.
CheckAdmin(h) ==
  /\ In(h, "admin")
  /\ \/ /\ AdminOnly(press[h].action) => press[h].who \in admins
        /\ Moves(h, CASE press[h].action = "accept" -> "group"
                     [] press[h].action = "home" -> "draw"
                     [] OTHER -> "act")
     \/ Moves(h, "answer")
  /\ Kept

\* Mutant: the new value is computed from the row the handler read before.
ActOnSnapshot(h) ==
  /\ In(h, "act") /\ press[h].action \in {"toggle", "later"}
  /\ LET g == press[h].snap IN
     \/ /\ press[h].action = "toggle"
        /\ settings' = [settings EXCEPT !.on = ~g.on]
        /\ owed' = [owed EXCEPT !.on = ~@]
     \/ /\ press[h].action = "later"
        /\ settings' = [settings EXCEPT !.time = (g.time + 1) % DayMinutes]
        /\ owed' = [owed EXCEPT !.time = (@ + 1) % DayMinutes]
  /\ Moves(h, "reread")
  /\ UNCHANGED <<admins, language, presses>>

\* updateLocked: the row is read under its lock, and the new value computed from it.
Change(h) ==
  /\ In(h, "act") /\ press[h].action \in {"toggle", "later"}
  /\ \/ /\ press[h].action = "toggle"
        /\ settings' = [settings EXCEPT !.on = ~@]
        /\ owed' = [owed EXCEPT !.on = ~@]
     \/ /\ press[h].action = "later"
        /\ settings' = [settings EXCEPT !.time = (@ + 1) % DayMinutes]
        /\ owed' = [owed EXCEPT !.time = (@ + 1) % DayMinutes]
  /\ Moves(h, "reread")
  /\ UNCHANGED <<admins, language, presses>>

\* Mutant: the last admin to press is on record.
AcceptAgain(h) ==
  /\ In(h, "act") /\ press[h].action = "accept"
  /\ settings' = [settings EXCEPT !.acceptedBy = press[h].who]
  /\ Moves(h, "draw")
  /\ UNCHANGED <<admins, language, presses, owed>>

\* AcceptAgreement, under the lock as well: a second acceptance changes nothing.
AcceptAgreement(h) ==
  /\ In(h, "act") /\ press[h].action = "accept"
  /\ settings' = [settings EXCEPT !.acceptedBy = IF @ = "none" THEN press[h].who ELSE @]
  /\ Moves(h, "draw")
  /\ UNCHANGED <<admins, language, presses, owed>>

\* privateMenu: the person is recorded, and the language is theirs or automatic again.
ChooseLanguage(h) ==
  /\ In(h, "act") /\ press[h].action = "private"
  /\ \E l \in {"auto", "chosen"} : language' = [language EXCEPT ![press[h].who] = l]
  /\ Moves(h, "draw")
  /\ UNCHANGED <<admins, settings, presses, owed>>

\* A change that fails changes nothing, and neither does an invalid payload.
ActFails(h) ==
  /\ In(h, "act")
  /\ Moves(h, "answer")
  /\ Kept

\* The row is read again, so that the panel shows what it is now.
Reread(h) ==
  /\ In(h, "reread")
  /\ \/ press' = [press EXCEPT ![h].pc = "draw", ![h].snap = settings]
     \/ Moves(h, "answer")
  /\ Kept

\* editPanel: an edit that fails is logged, and the press is answered all the same.
Draw(h) ==
  /\ In(h, "draw")
  /\ Moves(h, "answer")
  /\ Kept

\* Mutant: the answer of Close does not say that it was sent.
ClosePanelForgets(h) ==
  /\ In(h, "close")
  /\ press' = [press EXCEPT ![h].pc = "answer", ![h].answers = @ + 1]
  /\ Kept

\* closePanel answers first, then removes the messages.
ClosePanel(h) ==
  /\ In(h, "close")
  /\ Answered(h)
  /\ Kept

\* onCallback answers what its handler has not answered, also after a failure.
Respond(h) ==
  /\ In(h, "answer")
  /\ Answered(h)
  /\ Kept

\* An administrator is made or dismissed.
Rights ==
  /\ \E who \in People :
       /\ admins' = IF who \in admins THEN admins \ {who} ELSE admins \cup {who}
       /\ press' = [h \in Handlers |-> [press[h] EXCEPT
                     !.everAdmin = @ \/ (press[h].who = who /\ who \in admins')]]
  /\ UNCHANGED <<settings, language, presses, owed>>

PanelsNext ==
  \/ \E h \in Handlers :
       \/ Press(h) \/ Gate(h) \/ ReadGroup(h) \/ CheckAdmin(h)
       \/ Change(h) \/ AcceptAgreement(h) \/ ChooseLanguage(h) \/ ActFails(h)
       \/ Reread(h) \/ Draw(h) \/ ClosePanel(h) \/ Respond(h)
  \/ Rights

PanelsSpec == PanelsInit /\ [][PanelsNext]_panelsVars

-----------------------------------------------------------------------------
(***************************************************************************)
(* Properties                                                              *)
(***************************************************************************)
\* "Every press is answered exactly once, whatever path it took" (callbacks.go:23).
AnsweredOnce ==
  \A h \in Handlers : press[h].answers = IF press[h].pc = "done" THEN 1 ELSE 0

\* No change is lost: the row is what all the presses that went through add up to, however
\* the handlers of several administrators overlap (groups.go:134).
NoLostPress == settings.on = owed.on /\ settings.time = owed.time

\* A setting of the group changes only for somebody who was an administrator at some time
\* since the press, and the acceptance that is on record stays the first one, whoever
\* accepts at the same time (groups.go:207).
AdminsDecide ==
  settings' # settings =>
    /\ \E h \in Handlers : press[h].pc = "act" /\ press'[h].pc # "act" /\ press[h].everAdmin
    /\ settings.acceptedBy # "none" => settings'.acceptedBy = settings.acceptedBy

\* A press is answered once, counts once, and is made by somebody who may.
PressesAreSound == [][AnsweredOnce' /\ NoLostPress' /\ AdminsDecide]_panelsVars
=============================================================================
