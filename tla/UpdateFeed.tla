----------------------------- MODULE UpdateFeed -----------------------------
(***************************************************************************)
(* From Telegram to the database: the update poller of internal/bot/bot.go *)
(* (offset, slots, confirmation), the handlers that collect a group's day  *)
(* (bot/collect.go, bot/events.go) and the queries they run                *)
(* (db/messages.go, db/reactions.go, db/groups.go).                        *)
(*                                                                         *)
(* Telegram keeps the updates of the bot in a log and delivers every one   *)
(* that no later getUpdates has passed.  A process accepts an update when  *)
(* it takes a slot for it; the handlers of several updates run at once.    *)
(* A transaction is one step, and so is every other call.                  *)
(*                                                                         *)
(* One group is modelled, which may become a supergroup: the chat Old is   *)
(* then closed and the chat New opened.  A text is the number of its       *)
(* edits plus one, 0 when there is none; one emoji stands for all.         *)
(***************************************************************************)
EXTENDS Integers, FiniteSets, Sequences

CONSTANTS
  Slots,        \* updates handled at once (workers)
  Msgs,         \* messages of the group
  NoMsg,        \* an update that is about no message
  Media,        \* those with a file
  Anonymous,    \* those whose reactions Telegram reports as totals
  SaveTries,    \* tries to store a message (saveAttempts of bot and db)
  MaxUpdates,   \* updates (bound)
  MaxFaults,    \* calls that fail (bound)
  MaxEnds       \* stops and crashes of the process (bound)

ASSUME UpdateFeedAssumption ==
  /\ NoMsg \notin Msgs /\ Media \subseteq Msgs /\ Anonymous \subseteq Msgs
  /\ SaveTries \in Nat \ {0}
  /\ MaxUpdates \in Nat /\ MaxFaults \in Nat /\ MaxEnds \in Nat

Chats == {"old", "new"}
Kinds == {"message", "service", "edited_message", "message_reaction",
          "message_reaction_count", "left", "added", "migrate"}
\* arg: the text of a message, the change or the total of its reactions; 1 for a
\* migration notice with a sender, 0 for one of an anonymous admin.
Update == [kind : Kinds, chat : Chats, m : Msgs \cup {NoMsg}, arg : Int]

\* What the handler of an update does next.
Labels == {"idle", "ensure", "save", "edit", "delta", "totals", "pause", "getChat", "move"}
Free == [n |-> 0, pc |-> "idle", tries |-> 0]

VARIABLES
  \* the chat as its members see it
  member,    \* is the bot in the group
  chat,      \* the group's chat
  posted,    \* the chat of each message that is posted
  text,      \* the texts of the messages
  likes,     \* their reactions
  \* Telegram
  log,       \* the updates, oldest first
  dropped,   \* updates up to this one are not delivered again
  \* the process
  phase,     \* "down", "up" or "stopping"
  offset,    \* offset: the first update that is not accepted, 0 at first
  batch,     \* updates delivered and not accepted
  polling,   \* poll has not returned
  slot,      \* the handlers
  \* the database
  dbText,    \* messages.text, by message and chat id; 0 without a row
  dbLikes,   \* reactions.count of the row
  group,     \* group_settings: is_active
  \* history and bounds
  starts,    \* how often an update was accepted
  ends,      \* ... and how often its handler ended
  told,      \* updates whose failure the developers were told
  overlap,   \* have two handlers ever run at once
  cut,       \* stops that lost their confirmation, and crashes
  faults, restarts

world == <<member, chat, posted, text, likes>>
telegram == <<log, dropped>>
process == <<phase, offset, batch, polling, slot>>
db == <<dbText, dbLikes, group>>
history == <<starts, ends, told, overlap, cut>>
vars == <<world, telegram, process, db, history, faults, restarts>>

Fault == faults < MaxFaults /\ faults' = faults + 1
NoFault == UNCHANGED faults

(***************************************************************************)
(* The chat                                                                *)
(***************************************************************************)
Tell(updates) ==
  /\ Len(log) + Len(updates) <= MaxUpdates
  /\ log' = log \o updates
  /\ UNCHANGED <<dropped, process, db, history, faults, restarts>>

About(kind, m, arg) == <<[kind |-> kind, chat |-> chat, m |-> m, arg |-> arg]>>

\* Only a message of the present chat can still be edited or reacted to.
Here(m) == member /\ posted[m] = chat

Post(m) ==
  /\ member /\ posted[m] = "none"
  /\ posted' = [posted EXCEPT ![m] = chat] /\ text' = [text EXCEPT ![m] = 1]
  /\ Tell(About("message", m, 1))
  /\ UNCHANGED <<member, chat, likes>>

EditText(m) ==
  /\ Here(m)
  /\ text' = [text EXCEPT ![m] = @ + 1]
  /\ Tell(About("edited_message", m, text[m] + 1))
  /\ UNCHANGED <<member, chat, posted, likes>>

\* A person reacts, or takes it back.
React(m) ==
  /\ Here(m)
  /\ \E change \in {1, -1} :
       /\ likes[m] + change >= 0
       /\ likes' = [likes EXCEPT ![m] = @ + change]
       /\ Tell(IF m \in Anonymous
               THEN About("message_reaction_count", m, likes[m] + change)
               ELSE About("message_reaction", m, change))
  /\ UNCHANGED <<member, chat, posted, text>>

\* The bot is removed from the group, or added again.
Membership ==
  /\ member' = ~member
  /\ Tell(About(IF member THEN "left" ELSE "added", NoMsg, 0))
  /\ UNCHANGED <<chat, posted, text, likes>>

\* The group becomes a supergroup; the bot may see a service message there too.
Upgrade ==
  /\ member /\ chat = "old"
  /\ chat' = "new"
  /\ \E sender \in {0, 1},
        service \in {<<>>, <<[kind |-> "service", chat |-> "new", m |-> NoMsg, arg |-> 0]>>} :
       Tell(About("migrate", NoMsg, sender) \o service)
  /\ UNCHANGED <<member, posted, text, likes>>

(***************************************************************************)
(* The poller                                                              *)
(***************************************************************************)
Busy == {s \in Slots : slot[s].pc # "idle"}
Greater(a, b) == IF a < b THEN b ELSE a

\* Telegram drops what an offset has passed.
Passed(o) == dropped' = Greater(dropped, o - 1)

\* getUpdates: the whole log from the offset on; the answer may be lost, whether
\* Telegram has seen the offset or not.
Poll ==
  /\ phase = "up" /\ polling /\ batch = <<>>
  /\ \/ /\ Passed(offset)
        /\ batch' = [i \in 1..(Len(log) - dropped') |-> dropped' + i]
        /\ NoFault
     \/ /\ Fault
        /\ Passed(offset) \/ UNCHANGED dropped
        /\ UNCHANGED batch
  /\ UNCHANGED <<world, log, phase, offset, polling, slot, db, history, restarts>>

\* Mutant: the offset moves past the whole batch at once.
NextOffsetOfBatch(n) == Len(log) + 1

\* The offset after update n is accepted.
NextOffset(n) == n + 1

\* dispatch: where the handler of an update starts.
FirstStep(kind) ==
  CASE kind \in {"message", "service", "added"} -> "ensure"
    [] kind = "edited_message" -> "edit"
    [] kind = "message_reaction" -> "delta"
    [] kind = "message_reaction_count" -> "totals"
    [] kind = "left" -> "pause"
    [] kind = "migrate" -> "getChat"

\* Taking a slot is accepting the update, also while the process is stopping.
Accept(s) ==
  LET n == Head(batch) IN
  /\ polling /\ batch # <<>> /\ slot[s].pc = "idle"
  /\ batch' = Tail(batch)
  /\ offset' = NextOffset(n)
  /\ slot' = [slot EXCEPT ![s] = [n |-> n, pc |-> FirstStep(log[n].kind), tries |-> 0]]
  /\ starts' = [starts EXCEPT ![n] = @ + 1]
  /\ overlap' = (overlap \/ Busy # {})
  /\ UNCHANGED <<world, telegram, phase, polling, db, ends, told, cut, faults, restarts>>

Boot ==
  /\ phase = "down"
  /\ phase' = "up" /\ polling' = TRUE
  /\ offset' = 0 /\ batch' = <<>>
  /\ UNCHANGED <<world, telegram, slot, db, history, faults, restarts>>

Shutdown ==
  /\ phase = "up" /\ restarts < MaxEnds
  /\ phase' = "stopping"
  /\ restarts' = restarts + 1
  /\ UNCHANGED <<world, telegram, offset, batch, polling, slot, db, history, faults>>

\* poll returns with updates it has not accepted.
PollReturns ==
  /\ phase = "stopping" /\ polling
  /\ polling' = FALSE /\ batch' = <<>>
  /\ UNCHANGED <<world, telegram, phase, offset, slot, db, history, faults, restarts>>

\* Mutant: the last updates are not confirmed.
ConfirmNothing(o) == UNCHANGED <<dropped, cut, faults>>

\* confirm: a getUpdates that only carries the offset, tried once.
Confirm(o) ==
  \/ Passed(o) /\ UNCHANGED cut /\ NoFault
  \/ o > 0 /\ Fault /\ cut' = cut + 1 /\ (Passed(o) \/ UNCHANGED dropped)

\* Mutant: the handlers are not waited for.
HandlersIgnored == TRUE

\* wg.Wait is over.
HandlersDone == Busy = {}

\* Run ends.
Exit ==
  /\ phase = "stopping" /\ ~polling /\ HandlersDone
  /\ phase' = "down"
  /\ slot' = [s \in Slots |-> Free]
  /\ Confirm(offset)
  /\ UNCHANGED <<world, log, offset, batch, polling, db, starts, ends, told, overlap, restarts>>

Crash ==
  /\ phase # "down" /\ restarts < MaxEnds
  /\ phase' = "down" /\ polling' = FALSE /\ batch' = <<>>
  /\ slot' = [s \in Slots |-> Free]
  /\ restarts' = restarts + 1 /\ cut' = cut + 1
  /\ UNCHANGED <<world, telegram, offset, db, starts, ends, told, overlap, faults>>

(***************************************************************************)
(* The handlers                                                            *)
(***************************************************************************)
At(s, pc) == slot[s].pc = pc
Upd(s) == log[slot[s].n]
Goto(s, pc) == slot' = [slot EXCEPT ![s].pc = pc] /\ UNCHANGED <<ends, told>>
End(s) ==
  /\ slot' = [slot EXCEPT ![s] = Free]
  /\ ends' = [ends EXCEPT ![slot[s].n] = @ + 1]
Quietly == UNCHANGED told
\* fail: the alert is sent on the handler's own context, so it is lost when the
\* handler's time is over.
Alert(s) == told' \in {told, told \cup {slot[s].n}}

\* The rest of the state no handler touches.
HandlerFrame ==
  UNCHANGED <<world, telegram, phase, offset, batch, polling, starts, overlap, cut, restarts>>

\* A query that ends the handler: done, or failed with its effect or without it.
LastQuery(s, done, before) ==
  /\ \/ done /\ NoFault /\ Quietly
     \/ Fault /\ Alert(s) /\ (done \/ before)
  /\ End(s)
  /\ HandlerFrame

\* Ensure: the group has a row, and is active.
Ensured(c) == group' = [group EXCEPT ![c] = "active"]

Ensure(s) ==
  LET u == Upd(s) IN
  /\ At(s, "ensure")
  /\ \/ /\ Ensured(u.chat) /\ NoFault
        /\ IF u.kind = "message" THEN Goto(s, "save") ELSE End(s) /\ Quietly
     \/ Fault /\ (Ensured(u.chat) \/ UNCHANGED group) /\ End(s) /\ Alert(s)
  /\ HandlerFrame
  /\ UNCHANGED <<dbText, dbLikes>>

\* An update of message m in chat c finds its row.
Row(m, c) == dbText[m][c] > 0

\* saveOnce: a message that is stored already stays as it is.
Insert(m, c, t) ==
  IF Row(m, c) THEN UNCHANGED <<dbText, dbLikes>>
  ELSE dbText' = [dbText EXCEPT ![m][c] = t] /\ UNCHANGED dbLikes

\* Save: tried again after a failure, then the developers are told.
Save(s) ==
  LET u == Upd(s) IN
  /\ At(s, "save")
  /\ \/ Insert(u.m, u.chat, u.arg) /\ NoFault /\ End(s) /\ Quietly
     \/ /\ Fault
        /\ Insert(u.m, u.chat, u.arg) \/ UNCHANGED <<dbText, dbLikes>>
        /\ \/ /\ slot[s].tries + 1 < SaveTries
              /\ slot' = [slot EXCEPT ![s].tries = @ + 1]
              /\ UNCHANGED <<ends, told>>
           \/ End(s) /\ Alert(s)
  /\ HandlerFrame
  /\ UNCHANGED group

\* Edit: the text of a message with a file is kept.
EditRow(s) ==
  LET u == Upd(s) IN
  /\ At(s, "edit")
  /\ LastQuery(s, dbText' = IF Row(u.m, u.chat) /\ u.m \notin Media
                            THEN [dbText EXCEPT ![u.m][u.chat] = u.arg] ELSE dbText,
                  UNCHANGED dbText)
  /\ UNCHANGED <<dbLikes, group>>

\* A count that reaches 0 is deleted; taking away what was never seen changes nothing.
DeltaOf(count, change) == Greater(0, count + change)

\* ApplyDelta, under the lock of the message's row.
ApplyDelta(s) ==
  LET u == Upd(s) IN
  /\ At(s, "delta")
  /\ LastQuery(s, dbLikes' = IF Row(u.m, u.chat)
                             THEN [dbLikes EXCEPT ![u.m][u.chat] = DeltaOf(@, u.arg)] ELSE dbLikes,
                  UNCHANGED dbLikes)
  /\ UNCHANGED <<dbText, group>>

\* SyncAbsolute
SyncAbsolute(s) ==
  LET u == Upd(s) IN
  /\ At(s, "totals")
  /\ LastQuery(s, dbLikes' = IF Row(u.m, u.chat)
                             THEN [dbLikes EXCEPT ![u.m][u.chat] = u.arg] ELSE dbLikes,
                  UNCHANGED dbLikes)
  /\ UNCHANGED <<dbText, group>>

\* SetActive(false)
Pause(s) ==
  LET c == Upd(s).chat IN
  /\ At(s, "pause")
  /\ LastQuery(s, group' = IF group[c] = "none" THEN group
                           ELSE [group EXCEPT ![c] = "paused"],
                  UNCHANGED group)
  /\ UNCHANGED <<dbText, dbLikes>>

\* onMigrated asks Telegram for the new chat first.
GetChat(s) ==
  /\ At(s, "getChat")
  /\ \/ Goto(s, "move") /\ NoFault
     \/ Fault /\ End(s) /\ Alert(s)
  /\ HandlerFrame
  /\ UNCHANGED db

\* Is the chat New in core.chat?  Once the sender of the notice was recorded there
\* (touch), or another bot that shares the table knows the chat.
KnownWith(sender) == IF sender = 1 THEN {TRUE} ELSE BOOLEAN

\* Nothing is moved onto settings the chat New already has.
Movable == group["new"] = "none" /\ group["old"] # "none"

\* What was stored under the old chat id is found under the new one.
Rekeyed(table, empty) == [table EXCEPT !["new"] = table["old"], !["old"] = empty]

\* Mutant: the messages stay behind.
MoveSettingsOnly(sender) ==
  \E known \in KnownWith(sender) :
    /\ group' = IF known /\ Movable THEN Rekeyed(group, "none") ELSE group
    /\ UNCHANGED <<dbText, dbLikes>>

\* MigrateChatID.  A chat without settings has no messages either, so no row of the
\* new chat is in the way.
MoveGroup(sender) ==
  \E known \in KnownWith(sender) :
    IF known /\ Movable
    THEN /\ group' = Rekeyed(group, "none")
         /\ dbText' = [m \in Msgs |-> Rekeyed(dbText[m], 0)]
         /\ dbLikes' = [m \in Msgs |-> Rekeyed(dbLikes[m], 0)]
    ELSE UNCHANGED db

Move(s) ==
  /\ At(s, "move")
  /\ LastQuery(s, MoveGroup(Upd(s).arg), UNCHANGED db)

Handle(s) ==
  \/ Ensure(s) \/ Save(s) \/ EditRow(s) \/ ApplyDelta(s) \/ SyncAbsolute(s)
  \/ Pause(s) \/ GetChat(s) \/ Move(s)

Init ==
  /\ member = TRUE /\ chat = "old"
  /\ posted = [m \in Msgs |-> "none"]
  /\ text = [m \in Msgs |-> 0] /\ likes = [m \in Msgs |-> 0]
  /\ log = <<>> /\ dropped = 0
  /\ phase = "down" /\ offset = 0 /\ batch = <<>> /\ polling = FALSE
  /\ slot = [s \in Slots |-> Free]
  /\ dbText = [m \in Msgs |-> [c \in Chats |-> 0]]
  /\ dbLikes = [m \in Msgs |-> [c \in Chats |-> 0]]
  /\ group = [c \in Chats |-> IF c = "old" THEN "active" ELSE "none"]
  /\ starts = [n \in 1..MaxUpdates |-> 0] /\ ends = [n \in 1..MaxUpdates |-> 0]
  /\ told = {} /\ overlap = FALSE /\ cut = 0 /\ faults = 0 /\ restarts = 0

Next ==
  \/ \E m \in Msgs : Post(m) \/ EditText(m) \/ React(m)
  \/ Membership \/ Upgrade
  \/ Poll \/ Boot \/ Shutdown \/ PollReturns \/ Exit \/ Crash
  \/ \E s \in Slots : Accept(s) \/ Handle(s)

Spec == Init /\ [][Next]_vars

-----------------------------------------------------------------------------
(***************************************************************************)
(* Properties                                                              *)
(***************************************************************************)
\* Types of the variables.
TypeOK ==
  /\ member \in BOOLEAN /\ chat \in Chats
  /\ posted \in [Msgs -> Chats \cup {"none"}]
  /\ text \in [Msgs -> Nat] /\ likes \in [Msgs -> Nat]
  /\ log \in Seq(Update) /\ dropped \in 0..Len(log)
  /\ phase \in {"down", "up", "stopping"} /\ polling \in BOOLEAN
  /\ offset \in 0..(Len(log) + 1) /\ batch \in Seq(1..Len(log))
  /\ slot \in [Slots -> [n : 0..Len(log), pc : Labels, tries : 0..(SaveTries - 1)]]
  /\ dbText \in [Msgs -> [Chats -> Nat]] /\ dbLikes \in [Msgs -> [Chats -> Nat]]
  /\ group \in [Chats -> {"active", "paused", "none"}]
  /\ starts \in [1..MaxUpdates -> Nat] /\ ends \in [1..MaxUpdates -> Nat]
  /\ told \subseteq 1..Len(log) /\ overlap \in BOOLEAN
  /\ cut \in Nat /\ faults \in Nat /\ restarts \in Nat

\* An update that no handler has started is never dropped, whenever the process
\* stops or crashes and whichever answer is lost ("an update that was never
\* started is delivered again after a restart", bot.go).
NothingSkipped == \A n \in 1..dropped : starts[n] > 0

\* An update is handled a second time only when the process crashed or its last
\* confirmation was lost ("a repeated reaction update would be counted twice").
RepeatedOnlyAfterCut == \A n \in DOMAIN starts : starts[n] <= 1 + cut

\* An update is handled once, and again or not at all only across a cut.
HandledOnce == TypeOK /\ NothingSkipped /\ RepeatedOnlyAfterCut

\* A stop cuts no handler in half: without a crash, what Telegram has dropped when
\* the process is down has been handled to its end.
StopFinishesAccepted ==
  phase = "down" /\ cut = 0 => \A n \in 1..dropped : ends[n] = starts[n]

\* All is handled, and nothing failed on the way.
Settled ==
  /\ phase = "up" /\ Busy = {} /\ cut = 0 /\ faults = 0
  /\ \A n \in 1..Len(log) : ends[n] > 0

\* Handled one at a time, the updates give the database what the members see: the
\* group where it is and whether the bot is in it, and its messages with their last
\* texts (the first one for a file) and their reactions.
SerialIsFaithful ==
  Settled /\ ~overlap /\ (\A n \in 1..Len(log) : log[n].kind = "migrate" => log[n].arg = 1) =>
    /\ group[chat] = IF member THEN "active" ELSE "paused"
    /\ chat = "new" => group["old"] = "none" /\ \A m \in Msgs : ~Row(m, "old")
    /\ \A m \in Msgs : posted[m] # "none" =>
         /\ dbText[m][chat] = IF m \in Media THEN 1 ELSE text[m]
         /\ dbLikes[m][chat] = likes[m]

Upgraded(n) == log[n].kind = "migrate" /\ ends[n] > 0

\* What events.go says of a group that became a supergroup: "its settings, messages
\* and quotes move to the new chat id", or else the developers are told.
MovedOrTold ==
  \A n \in 1..Len(log) :
    Upgraded(n) /\ log[n].arg = 1 => group["old"] = "none" \/ n \in told

\* What a test says of a notice without a sender: "the group still moves".
UnsignedMoves ==
  \A n \in 1..Len(log) : Upgraded(n) /\ log[n].arg = 0 => group["old"] = "none" \/ n \in told
=============================================================================
