-------------------------- MODULE UpdateFeedProofs --------------------------
(***************************************************************************)
(* Proofs about the update poller and its handlers, for any number of      *)
(* slots, messages, updates, failed calls, stops and crashes: first in which *)
(* order updates are taken and how often they are started, then that the   *)
(* database, without overlap and failures, is the log replayed.            *)
(***************************************************************************)
EXTENDS UpdateFeed, SequenceTheorems, TLAPS

\* The kinds that are about a message, and those whose argument is no change.
OfMessage == {"message", "edited_message", "message_reaction", "message_reaction_count"}
EntryOK(u) == u.kind \in OfMessage =>
                u.m \in Msgs /\ (u.kind # "message_reaction" => u.arg \in Nat)

\* A handler works on an update of the log, and on one of its own kind.
SlotsOK == \A s \in Slots :
  /\ slot[s].pc # "idle" => slot[s].n \in 1..Len(log)
  /\ slot[s].pc = "save" => log[slot[s].n].kind = "message"
  /\ slot[s].pc = "edit" => log[slot[s].n].kind = "edited_message"
  /\ slot[s].pc = "delta" => log[slot[s].n].kind = "message_reaction"
  /\ slot[s].pc = "totals" => log[slot[s].n].kind = "message_reaction_count"

LogOK == Len(log) <= MaxUpdates /\ \A n \in 1..Len(log) : EntryOK(log[n])

\* What the process has accepted or found dropped; the batch goes on from there.
Base == Greater(dropped, offset - 1)
InOrder ==
  /\ offset > 0 => dropped < offset
  /\ \A i \in 1..Len(batch) : batch[i] = Base + i
  /\ phase = "down" => ~polling /\ \A s \in Slots : slot[s].pc = "idle"

\* What will be delivered again has been started by a cut at most.
Again == IF phase = "down" THEN dropped ELSE Base
Counted ==
  /\ \A n \in 1..Base : starts[n] > 0
  /\ \A n \in 1..MaxUpdates : n > Again => starts[n] <= cut
  /\ RepeatedOnlyAfterCut

\* Without a cut a started update has one handler until it ends.
Handled(n) == \E s \in Slots : slot[s].pc # "idle" /\ slot[s].n = n
EndsOnce == cut = 0 =>
  /\ \A n \in 1..MaxUpdates : IF Handled(n) THEN starts[n] = 1 /\ ends[n] = 0 ELSE ends[n] = starts[n]
  /\ \A s, t \in Slots : slot[s].pc # "idle" /\ slot[t].pc # "idle" /\ slot[s].n = slot[t].n => s = t

FeedInv == TypeOK /\ LogOK /\ SlotsOK /\ InOrder /\ Counted /\ EndsOnce

(***************************************************************************)
(* What the members do                                                     *)
(***************************************************************************)
LEMMA LongerSeq ==
  ASSUME NEW a \in Nat, NEW b \in Nat, a <= b, NEW q \in Seq(1..a) PROVE q \in Seq(1..b)
<1>1. \A i \in 1..Len(q) : q[i] \in 1..b
  BY ElementOfSeq
<1> QED BY <1>1

LEMMA AboutOne ==
  ASSUME TypeOK, NEW k \in Kinds, NEW m \in Msgs \cup {NoMsg}, NEW a \in Int,
         k \in OfMessage => m \in Msgs /\ (k # "message_reaction" => a \in Nat)
  PROVE  /\ About(k, m, a) \in Seq(Update) /\ Len(About(k, m, a)) = 1
         /\ EntryOK(About(k, m, a)[1])
<1>1. [kind |-> k, chat |-> chat, m |-> m, arg |-> a] \in Update
  BY DEF Update, TypeOK
<1> QED BY <1>1 DEF About, EntryOK

WorldOK ==
  /\ member' \in BOOLEAN /\ chat' \in Chats
  /\ posted' \in [Msgs -> Chats \cup {"none"}]
  /\ text' \in [Msgs -> Nat] /\ likes' \in [Msgs -> Nat]
Told(us) == us \in Seq(Update) /\ (\A i \in 1..Len(us) : EntryOK(us[i])) /\ Tell(us)

LEMMA ChatTells ==
  ASSUME TypeOK, (\E m \in Msgs : Post(m) \/ EditText(m) \/ React(m)) \/ Membership \/ Upgrade
  PROVE  WorldOK /\ \E us : Told(us)
<1>1. /\ posted \in [Msgs -> Chats \cup {"none"}] /\ chat \in Chats /\ member \in BOOLEAN
      /\ text \in [Msgs -> Nat] /\ likes \in [Msgs -> Nat]
  BY DEF TypeOK
<1>2. ASSUME NEW k \in Kinds, NEW m \in Msgs \cup {NoMsg}, NEW a \in Int,
             k \in OfMessage => m \in Msgs /\ (k # "message_reaction" => a \in Nat), Tell(About(k, m, a))
      PROVE  \E us : Told(us)
  <2>1. Told(About(k, m, a))
    <3> HIDE DEF TypeOK
    <3>1. Len(About(k, m, a)) = 1 /\ EntryOK(About(k, m, a)[1]) /\ About(k, m, a) \in Seq(Update)
      BY <1>2, AboutOne
    <3> QED BY <1>2, <3>1 DEF Told
  <2> QED BY <2>1
<1>3. ASSUME NEW m \in Msgs, Post(m) PROVE WorldOK /\ \E us : Told(us)
  <2>1. WorldOK
    BY <1>1, <1>3 DEF Post, WorldOK, Chats
  <2>2. Tell(About("message", m, 1)) /\ "message" \in Kinds
    BY <1>3 DEF Post, Kinds
  <2> QED BY <1>2, <2>1, <2>2
<1>4. ASSUME NEW m \in Msgs, EditText(m) PROVE WorldOK /\ \E us : Told(us)
  <2>1. WorldOK
    BY <1>1, <1>4 DEF EditText, WorldOK
  <2>2. Tell(About("edited_message", m, text[m] + 1)) /\ "edited_message" \in Kinds /\ text[m] + 1 \in Nat
    BY <1>1, <1>4 DEF EditText, Kinds
  <2> QED BY <1>2, <2>1, <2>2
<1>5. ASSUME NEW m \in Msgs, React(m) PROVE WorldOK /\ \E us : Told(us)
  <2>1. PICK d \in {1, -1} :
          /\ likes[m] + d >= 0 /\ likes' = [likes EXCEPT ![m] = @ + d]
          /\ Tell(IF m \in Anonymous THEN About("message_reaction_count", m, likes[m] + d)
                                     ELSE About("message_reaction", m, d))
          /\ UNCHANGED <<member, chat, posted, text>>
    BY <1>5 DEF React
  <2>2. likes[m] + d \in Nat /\ d \in Int
    BY <1>1, <2>1
  <2>3. WorldOK
    BY <1>1, <2>1, <2>2 DEF WorldOK
  <2>4. CASE m \in Anonymous
    <3>1. Tell(About("message_reaction_count", m, likes[m] + d)) /\ "message_reaction_count" \in Kinds
      BY <2>1, <2>4 DEF Kinds
    <3> QED BY <1>2, <2>2, <2>3, <3>1
  <2>5. CASE m \notin Anonymous
    <3>1. Tell(About("message_reaction", m, d)) /\ "message_reaction" \in Kinds
      BY <2>1, <2>5 DEF Kinds
    <3> QED BY <1>2, <2>2, <2>3, <3>1
  <2> QED BY <2>4, <2>5
<1>6. CASE Membership
  <2>1. WorldOK
    BY <1>1, <1>6 DEF Membership, WorldOK
  <2>2. Tell(About("left", NoMsg, 0)) \/ Tell(About("added", NoMsg, 0))
    BY <1>6 DEF Membership
  <2>3. {"left", "added"} \subseteq Kinds \ OfMessage
    BY DEF Kinds, OfMessage
  <2> QED BY <1>2, <2>1, <2>2, <2>3
<1>7. CASE Upgrade
  <2>1. WorldOK
    BY <1>1, <1>7 DEF Upgrade, WorldOK, Chats
  <2> DEFINE one == [kind |-> "service", chat |-> "new", m |-> NoMsg, arg |-> 0]
  <2>2. PICK d \in {0, 1}, e \in {<<>>, <<one>>} : Tell(About("migrate", NoMsg, d) \o e)
    BY <1>7 DEF Upgrade
  <2>3. one \in Update /\ EntryOK(one)
    BY DEF Update, Kinds, Chats, EntryOK, OfMessage
  <2> HIDE DEF one
  <2>4. e \in Seq(Update) /\ \A i \in 1..Len(e) : EntryOK(e[i])
    <3>1. CASE e = <<>>
      BY <3>1, EmptySeq
    <3>2. CASE e = <<one>>
      <4>1. e \in Seq(Update) /\ Len(e) = 1 /\ e[1] = one
        BY <2>3, <3>2
      <4> QED BY <2>3, <4>1
    <3> QED BY <3>1, <3>2
  <2> DEFINE a == About("migrate", NoMsg, d)
  <2>5. a \in Seq(Update) /\ Len(a) = 1 /\ EntryOK(a[1])
    <3>1. "migrate" \in Kinds \ OfMessage /\ d \in Int
      BY DEF Kinds, OfMessage
    <3> QED BY <3>1, AboutOne
  <2>6. Tell(a \o e)
    BY <2>2
  <2> HIDE DEF a
  <2>7. a \o e \in Seq(Update) /\ \A i \in 1..Len(a \o e) : EntryOK((a \o e)[i])
    <3>1. /\ a \o e \in Seq(Update) /\ Len(a \o e) = 1 + Len(e)
          /\ \A i \in 1..Len(a) + Len(e) : (a \o e)[i] = IF i <= Len(a) THEN a[i] ELSE e[i - Len(a)]
      <4>1. /\ a \o e \in Seq(Update) /\ Len(a \o e) = Len(a) + Len(e)
            /\ \A i \in 1..Len(a) + Len(e) : (a \o e)[i] = IF i <= Len(a) THEN a[i] ELSE e[i - Len(a)]
        BY <2>4, <2>5, ConcatProperties, Zenon
      <4> QED BY <2>5, <4>1
    <3>2. Len(e) \in Nat
      BY <2>4
    <3> SUFFICES ASSUME NEW i \in 1..Len(a \o e) PROVE EntryOK((a \o e)[i])
      BY <3>1
    <3>3. CASE i = 1
      BY <2>5, <3>1, <3>2, <3>3
    <3>4. CASE i # 1
      <4>1. i - 1 \in 1..Len(e) /\ (a \o e)[i] = e[i - 1]
        BY <2>5, <3>1, <3>2, <3>4
      <4> QED BY <2>4, <4>1
    <3> QED BY <3>3, <3>4
  <2>8. Told(a \o e)
    BY <2>6, <2>7 DEF Told
  <2> QED BY <2>1, <2>8
<1> QED BY <1>3, <1>4, <1>5, <1>6, <1>7

LEMMA FeedTold ==
  ASSUME FeedInv, WorldOK, NEW us, Told(us) PROVE FeedInv'
<1>1. /\ us \in Seq(Update) /\ log \in Seq(Update) /\ log' = log \o us /\ Len(log) + Len(us) <= MaxUpdates
      /\ UNCHANGED <<dropped, process, db, history, faults, restarts>>
  BY DEF Told, Tell, FeedInv, TypeOK
<1>2. /\ log' \in Seq(Update) /\ Len(log') = Len(log) + Len(us) /\ Len(us) \in Nat /\ Len(log) \in Nat
      /\ \A i \in 1..Len(log') : log'[i] = IF i <= Len(log) THEN log[i] ELSE us[i - Len(log)]
  BY <1>1, ConcatProperties
<1>3. TypeOK'
  <2>1. batch \in Seq(1..Len(log')) /\ 1..Len(log) \subseteq 1..Len(log') /\ 0..Len(log) \subseteq 0..Len(log')
    BY <1>2, LongerSeq DEF FeedInv, TypeOK
  <2>2. slot \in [Slots -> [n : 0..Len(log'), pc : Labels, tries : 0..(SaveTries - 1)]]
    <3> SUFFICES ASSUME NEW s \in Slots
                 PROVE  slot[s] \in [n : 0..Len(log'), pc : Labels, tries : 0..(SaveTries - 1)]
      BY DEF FeedInv, TypeOK
    <3>1. slot[s] \in [n : 0..Len(log), pc : Labels, tries : 0..(SaveTries - 1)]
      BY DEF FeedInv, TypeOK
    <3> QED BY <2>1, <3>1
  <2>3. dropped \in 0..Len(log') /\ offset \in 0..(Len(log') + 1) /\ told \subseteq 1..Len(log')
    BY <1>2, <2>1 DEF FeedInv, TypeOK
  <2> QED BY <1>1, <1>2, <2>1, <2>2, <2>3 DEF FeedInv, TypeOK, WorldOK, process, db, history
<1>4. LogOK'
  <2> SUFFICES ASSUME NEW n \in 1..Len(log') PROVE EntryOK(log'[n])
    BY <1>1, <1>2 DEF LogOK, EntryOK
  <2>1. CASE n <= Len(log)
    BY <1>2, <2>1 DEF FeedInv, LogOK
  <2>2. CASE ~(n <= Len(log))
    <3>1. n - Len(log) \in 1..Len(us) /\ log'[n] = us[n - Len(log)]
      BY <1>2, <2>2
    <3> QED BY <3>1 DEF Told
  <2> QED BY <2>1, <2>2
<1>5. SlotsOK'
  <2> SUFFICES ASSUME NEW s \in Slots, slot[s].pc # "idle"
               PROVE  /\ slot[s].n \in 1..Len(log')
                      /\ log'[slot[s].n] = log[slot[s].n]
    BY <1>1 DEF FeedInv, SlotsOK, process
  <2>1. slot[s].n \in 1..Len(log)
    BY DEF FeedInv, SlotsOK
  <2> QED BY <1>2, <2>1
<1>6. InOrder' /\ Counted' /\ EndsOnce'
  BY <1>1 DEF FeedInv, InOrder, Counted, EndsOnce, Base, Again, Handled, RepeatedOnlyAfterCut, process, history
<1> QED BY <1>3, <1>4, <1>5, <1>6 DEF FeedInv

(***************************************************************************)
(* The poller                                                              *)
(***************************************************************************)
SlotRecord == [n : 0..Len(log), pc : Labels, tries : 0..(SaveTries - 1)]

\* What TypeOK says of the poller and of the handlers.
LEMMA PollerTypes ==
  ASSUME TypeOK
  PROVE  /\ Len(log) \in Nat /\ dropped \in 0..Len(log) /\ dropped \in Nat
         /\ offset \in 0..(Len(log) + 1) /\ offset \in Nat
         /\ batch \in Seq(1..Len(log)) /\ slot \in [Slots -> SlotRecord]
         /\ cut \in Nat /\ \A n \in 1..MaxUpdates : starts[n] \in Nat /\ ends[n] \in Nat
<1>1. Len(log) \in Nat
  BY DEF TypeOK
<1>2. dropped \in 0..Len(log) /\ offset \in 0..(Len(log) + 1) /\ batch \in Seq(1..Len(log))
  BY DEF TypeOK
<1>3. slot \in [Slots -> SlotRecord] /\ cut \in Nat
  BY DEF TypeOK, SlotRecord
<1>4. \A n \in 1..MaxUpdates : starts[n] \in Nat /\ ends[n] \in Nat
  BY DEF TypeOK
<1> QED BY <1>1, <1>2, <1>3, <1>4

LEMMA FreeType == TypeOK => Free \in SlotRecord /\ Free.pc = "idle"
  BY UpdateFeedAssumption DEF Free, SlotRecord, Labels, TypeOK

LEMMA BaseIs ==
  ASSUME TypeOK, InOrder
  PROVE  /\ Base = IF offset > 0 THEN offset - 1 ELSE dropped
         /\ Base \in 0..Len(log) /\ Base \in Nat /\ dropped <= Base
         /\ Greater(dropped, offset - 1) = Base
  BY PollerTypes DEF Base, Greater, InOrder

\* Steps that leave the database, the chat and the log alone.
LEMMA PollerKeepsTypes ==
  ASSUME TypeOK, UNCHANGED <<world, log, db, told>>,
         dropped' \in 0..Len(log), phase' \in {"down", "up", "stopping"}, polling' \in BOOLEAN,
         offset' \in 0..(Len(log) + 1), batch' \in Seq(1..Len(log)), slot' \in [Slots -> SlotRecord],
         starts' \in [1..MaxUpdates -> Nat], ends' \in [1..MaxUpdates -> Nat], overlap' \in BOOLEAN,
         cut' \in Nat, faults' \in Nat, restarts' \in Nat
  PROVE  TypeOK'
  BY DEF TypeOK, SlotRecord, world, db

LEMMA FeedPoll ==
  ASSUME FeedInv, Poll PROVE FeedInv'
<1> USE DEF FeedInv
<1>1. /\ UNCHANGED <<world, log, phase, offset, polling, slot, db, history, restarts>>
      /\ phase = "up" /\ faults' \in {faults, faults + 1} /\ faults' \in Nat
  BY DEF Poll, Fault, NoFault, TypeOK
<1>2. \/ UNCHANGED <<dropped, batch>>
      \/ dropped' = Base /\ UNCHANGED batch /\ batch = <<>>
      \/ dropped' = Base /\ batch' = [i \in 1..(Len(log) - dropped') |-> dropped' + i]
  BY BaseIs DEF Poll, Passed
<1>3. Base' = Base /\ dropped' \in 0..Base /\ (offset > 0 => dropped' < offset)
  <2>1. CASE dropped' = dropped
    BY <1>1, <2>1, BaseIs, PollerTypes DEF Base, InOrder
  <2>2. CASE dropped' = Base
    <3>1. Greater(Base, offset - 1) = Base
      BY BaseIs, PollerTypes DEF Greater
    <3> QED BY <1>1, <2>2, <3>1, BaseIs, PollerTypes DEF Base
  <2> QED BY <1>2, <2>1, <2>2
<1>4. batch' \in Seq(1..Len(log)) /\ \A i \in 1..Len(batch') : batch'[i] = Base + i
  <2>1. CASE batch' = batch
    BY <2>1, PollerTypes DEF InOrder
  <2>2. CASE batch' = [i \in 1..(Len(log) - Base) |-> Base + i]
    <3>1. Len(log) - Base \in Nat
      BY BaseIs, PollerTypes
    <3>2. Len(batch') = Len(log) - Base /\ \A i \in 1..Len(batch') : batch'[i] = Base + i
      BY <2>2, <3>1
    <3>3. \A i \in 1..(Len(log) - Base) : Base + i \in 1..Len(log)
      BY BaseIs, PollerTypes
    <3>4. batch' \in Seq(1..Len(log))
      BY <2>2, <3>1, <3>3
    <3> QED BY <3>2, <3>4
  <2> QED BY <1>2, <2>1, <2>2
<1>5. TypeOK'
  <2>1. dropped' \in 0..Len(log)
    BY <1>3, BaseIs, PollerTypes
  <2> QED BY <1>1, <1>4, <2>1, PollerTypes, PollerKeepsTypes DEF TypeOK, history
<1>6. LogOK' /\ SlotsOK' /\ EndsOnce'
  BY <1>1 DEF LogOK, SlotsOK, EndsOnce, Handled, history
<1>7. InOrder'
  BY <1>1, <1>3, <1>4 DEF InOrder
<1>8. Counted'
  BY <1>1, <1>3 DEF Counted, Again, RepeatedOnlyAfterCut, history
<1> QED BY <1>5, <1>6, <1>7, <1>8

LEMMA FeedAccept ==
  ASSUME FeedInv, NEW s \in Slots, Accept(s) PROVE FeedInv'
<1> USE DEF FeedInv
<1>0. PICK n : n = Head(batch)
  OBVIOUS
<1> DEFINE x == [n |-> n, pc |-> FirstStep(log[n].kind), tries |-> 0]
<1>1. /\ polling /\ batch # <<>> /\ slot[s].pc = "idle" /\ batch' = Tail(batch)
      /\ offset' = n + 1 /\ slot' = [slot EXCEPT ![s] = x]
      /\ starts' = [starts EXCEPT ![n] = @ + 1]
      /\ UNCHANGED <<world, telegram, phase, polling, db, ends, told, cut, faults, restarts>>
      /\ overlap' = (overlap \/ Busy # {})
  BY <1>0 DEF Accept, NextOffset
<1>2. /\ n = Base + 1 /\ n \in 1..Len(log) /\ Len(batch) \in Nat \ {0} /\ Len(Tail(batch)) = Len(batch) - 1
      /\ Tail(batch) \in Seq(1..Len(log))
      /\ \A i \in 1..Len(Tail(batch)) : Tail(batch)[i] = Base + 1 + i
  <2>1. batch \in Seq(1..Len(log)) /\ batch # <<>> /\ Len(batch) \in Nat \ {0}
    BY <1>1, PollerTypes, EmptySeq
  <2>2. n = batch[1] /\ n \in 1..Len(log)
    BY <1>0, <2>1
  <2>3. /\ Len(Tail(batch)) = Len(batch) - 1 /\ Tail(batch) \in Seq(1..Len(log))
        /\ \A i \in 1..Len(Tail(batch)) : Tail(batch)[i] = batch[i + 1]
    BY <2>1, HeadTailProperties
  <2>4. \A i \in 1..Len(batch) : batch[i] = Base + i
    BY DEF InOrder
  <2>5. \A i \in 1..Len(Tail(batch)) : i + 1 \in 1..Len(batch) /\ Tail(batch)[i] = Base + (i + 1)
    BY <2>1, <2>3, <2>4
  <2> QED BY <2>1, <2>2, <2>3, <2>4, <2>5, BaseIs
<1>3. log[n] \in Update /\ EntryOK(log[n]) /\ n \in 1..MaxUpdates
  <2>1. log \in Seq(Update) /\ Len(log) <= MaxUpdates /\ MaxUpdates \in Nat
    BY UpdateFeedAssumption DEF TypeOK, LogOK
  <2> QED BY <1>2, <2>1, PollerTypes DEF LogOK
<1>4. /\ FirstStep(log[n].kind) \in Labels \ {"idle", "save", "move"}
      /\ FirstStep(log[n].kind) = "edit" => log[n].kind = "edited_message"
      /\ FirstStep(log[n].kind) = "delta" => log[n].kind = "message_reaction"
      /\ FirstStep(log[n].kind) = "totals" => log[n].kind = "message_reaction_count"
  <2>1. log[n].kind \in Kinds
    BY <1>3 DEF Update
  <2> QED BY <2>1 DEF FirstStep, Kinds, Labels
<1>5. x \in SlotRecord /\ x.pc \in Labels \ {"idle", "save", "move"} /\ x.n = n
  BY <1>2, <1>4, UpdateFeedAssumption, PollerTypes DEF SlotRecord
<1>6. phase # "down" /\ phase' = phase
  BY <1>1 DEF InOrder
<1>7. Base' = Base + 1 /\ dropped' = dropped /\ dropped < offset'
  <2>1. offset' = Base + 2 /\ dropped' = dropped
    BY <1>1, <1>2, BaseIs DEF telegram
  <2>2. Greater(dropped, offset' - 1) = Base + 1
    BY <2>1, BaseIs, PollerTypes DEF Greater
  <2> QED BY <2>1, <2>2, BaseIs, PollerTypes DEF Base
<1>8. /\ starts' \in [1..MaxUpdates -> Nat] /\ starts'[n] = starts[n] + 1
      /\ \A k \in 1..MaxUpdates : k # n => starts'[k] = starts[k]
      /\ starts[n] <= cut /\ starts[n] \in Nat
  <2>1. starts \in [1..MaxUpdates -> Nat]
    BY DEF TypeOK
  <2>2. starts[n] <= cut
    BY <1>2, <1>3, <1>6, BaseIs DEF Counted, Again
  <2> QED BY <1>1, <1>3, <2>1, <2>2
<1>9. slot' \in [Slots -> SlotRecord] /\ slot'[s] = x /\ \A t \in Slots : t # s => slot'[t] = slot[t]
  BY <1>1, <1>5, PollerTypes
<1> HIDE DEF x
<1>10. TypeOK'
  <2>1. offset' \in 0..(Len(log) + 1) /\ overlap' \in BOOLEAN
    <3>1. offset' \in 0..(Len(log) + 1)
      BY <1>1, <1>2, PollerTypes
    <3>2. overlap' \in BOOLEAN
      BY <1>1, Zenon
    <3> QED BY <3>1, <3>2
  <2> QED BY <1>1, <1>2, <1>8, <1>9, <2>1, PollerTypes, PollerKeepsTypes DEF TypeOK, telegram
<1>11. LogOK'
  BY <1>1 DEF LogOK, telegram
<1>12. SlotsOK'
  <2>1. log' = log
    BY <1>1 DEF telegram
  <2> SUFFICES ASSUME NEW t \in Slots
               PROVE  /\ slot'[t].pc # "idle" => slot'[t].n \in 1..Len(log)
                      /\ slot'[t].pc = "save" => log[slot'[t].n].kind = "message"
                      /\ slot'[t].pc = "edit" => log[slot'[t].n].kind = "edited_message"
                      /\ slot'[t].pc = "delta" => log[slot'[t].n].kind = "message_reaction"
                      /\ slot'[t].pc = "totals" => log[slot'[t].n].kind = "message_reaction_count"
    BY <2>1 DEF SlotsOK
  <2>2. CASE t = s
    BY <1>2, <1>4, <1>5, <1>9, <2>2 DEF x
  <2>3. CASE t # s
    BY <1>9, <2>3 DEF SlotsOK
  <2> QED BY <2>2, <2>3
<1>13. InOrder'
  <2>1. \A i \in 1..Len(batch') : batch'[i] = Base' + i
    BY <1>1, <1>2, <1>7
  <2> QED BY <1>6, <1>7, <2>1 DEF InOrder
<1>14. Counted'
  <2>1. cut' = cut /\ Base \in Nat /\ cut \in Nat
    BY <1>1, BaseIs, PollerTypes
  <2>2. \A k \in 1..Base' : starts'[k] > 0
    <3> SUFFICES ASSUME NEW k \in 1..(Base + 1) PROVE starts'[k] > 0
      BY <1>7
    <3>1. k \in 1..MaxUpdates
      <4>1. n = Base + 1 /\ n \in 1..MaxUpdates /\ MaxUpdates \in Nat
        BY <1>2, <1>3, UpdateFeedAssumption
      <4> QED BY <2>1, <4>1
    <3>2. CASE k = n
      BY <1>8, <3>2
    <3>3. CASE k # n
      <4>1. k \in 1..Base
        BY <1>2, <2>1, <3>3
      <4> QED BY <1>8, <3>1, <3>3, <4>1 DEF Counted
    <3> QED BY <3>2, <3>3
  <2>3. \A k \in 1..MaxUpdates : k > Again' => starts'[k] <= cut
    <3> SUFFICES ASSUME NEW k \in 1..MaxUpdates, k > Base + 1 PROVE starts'[k] <= cut
      BY <1>6, <1>7 DEF Again
    <3>1. k > Base /\ k # n
      BY <1>2, <2>1
    <3> QED BY <1>6, <1>8, <3>1 DEF Counted, Again
  <2>4. RepeatedOnlyAfterCut'
    <3>1. \A k \in 1..MaxUpdates : starts[k] <= 1 + cut
      BY DEF Counted, RepeatedOnlyAfterCut, TypeOK
    <3>2. \A k \in 1..MaxUpdates : starts'[k] <= 1 + cut
      BY <1>8, <2>1, <3>1
    <3> QED BY <1>8, <2>1, <3>2 DEF RepeatedOnlyAfterCut
  <2> QED BY <2>1, <2>2, <2>3, <2>4 DEF Counted
<1>15. EndsOnce'
  <2> SUFFICES ASSUME cut = 0
               PROVE  /\ \A k \in 1..MaxUpdates :
                           IF Handled(k)' THEN starts'[k] = 1 /\ ends[k] = 0 ELSE ends[k] = starts'[k]
                      /\ \A t, u \in Slots : slot'[t].pc # "idle" /\ slot'[u].pc # "idle"
                                               /\ slot'[t].n = slot'[u].n => t = u
    BY <1>1 DEF EndsOnce
  <2>1. starts[n] = 0 /\ starts'[n] = 1
    BY <1>8
  <2>2. ~Handled(n) /\ ends[n] = 0
    BY <1>3, <2>1 DEF EndsOnce
  <2>3. \A k : k # n => (Handled(k)' <=> Handled(k))
    BY <1>1, <1>5, <1>9 DEF Handled
  <2>4. Handled(n)'
    BY <1>5, <1>9 DEF Handled
  <2>5. \A k \in 1..MaxUpdates :
          IF Handled(k)' THEN starts'[k] = 1 /\ ends[k] = 0 ELSE ends[k] = starts'[k]
    <3> SUFFICES ASSUME NEW k \in 1..MaxUpdates
                 PROVE  IF Handled(k)' THEN starts'[k] = 1 /\ ends[k] = 0 ELSE ends[k] = starts'[k]
      OBVIOUS
    <3>1. CASE k = n
      BY <2>1, <2>2, <2>4, <3>1
    <3>2. CASE k # n
      <4>1. IF Handled(k) THEN starts[k] = 1 /\ ends[k] = 0 ELSE ends[k] = starts[k]
        BY DEF EndsOnce
      <4> QED BY <1>8, <2>3, <3>2, <4>1
    <3> QED BY <3>1, <3>2
  <2>6. \A t \in Slots : t # s /\ slot[t].pc # "idle" => slot[t].n # n
    BY <2>2 DEF Handled
  <2>7. \A t, u \in Slots : slot'[t].pc # "idle" /\ slot'[u].pc # "idle" /\ slot'[t].n = slot'[u].n => t = u
    BY <1>5, <1>9, <2>6 DEF EndsOnce
  <2> QED BY <2>5, <2>7
<1> QED BY <1>10, <1>11, <1>12, <1>13, <1>14, <1>15

\* A process that starts, or is told to stop.
LEMMA FeedTurns ==
  ASSUME FeedInv, Boot \/ Shutdown \/ PollReturns PROVE FeedInv'
<1> USE DEF FeedInv
<1>1. /\ UNCHANGED <<world, telegram, slot, db, history, faults>>
      /\ phase' \in {"up", "stopping"} /\ polling' \in BOOLEAN
      /\ restarts' \in Nat
      /\ \/ phase = "down" /\ offset' = 0 /\ batch' = <<>>
         \/ phase # "down" /\ offset' = offset /\ batch' \in {batch, <<>>}
  <2>1. polling \in BOOLEAN /\ restarts \in Nat
    BY DEF TypeOK
  <2>2. CASE Boot
    BY <2>1, <2>2 DEF Boot
  <2>3. CASE Shutdown
    BY <2>1, <2>3 DEF Shutdown
  <2>4. CASE PollReturns
    BY <2>1, <2>4 DEF PollReturns
  <2> QED BY <2>2, <2>3, <2>4
<1>2. /\ dropped' = dropped /\ log' = log /\ starts' = starts /\ ends' = ends /\ cut' = cut /\ told' = told
      /\ overlap' = overlap
  BY <1>1 DEF telegram, history
<1>3. Greater(dropped, 0 - 1) = dropped
  BY PollerTypes DEF Greater
<1>4. offset' = 0 => Base' = dropped
  BY <1>2, <1>3 DEF Base
<1>5. offset' = offset => Base' = Base
  BY <1>2 DEF Base
<1>6. Base' <= Base /\ Base' \in Nat /\ Base \in Nat /\ offset' \in 0..(Len(log) + 1)
  BY <1>1, <1>4, <1>5, BaseIs, PollerTypes
<1>7. batch' \in Seq(1..Len(log)) /\ (batch' = <<>> \/ (batch' = batch /\ offset' = offset))
  BY <1>1, PollerTypes, EmptySeq
<1>8. TypeOK'
  BY <1>1, <1>2, <1>6, <1>7, PollerTypes, PollerKeepsTypes DEF TypeOK
<1>9. LogOK' /\ SlotsOK' /\ EndsOnce'
  BY <1>1, <1>2 DEF LogOK, SlotsOK, EndsOnce, Handled
<1>10. InOrder'
  <2>1. \A i \in 1..Len(batch') : batch'[i] = Base' + i
    BY <1>5, <1>7, EmptySeq DEF InOrder
  <2> QED BY <1>1, <1>2, <2>1 DEF InOrder
<1>11. Counted'
  <2>1. Again' = Again
    BY <1>1, <1>2, <1>4, <1>5 DEF Again
  <2>2. \A n \in 1..Base' : n \in 1..Base
    BY <1>6
  <2> QED BY <1>2, <2>1, <2>2 DEF Counted, RepeatedOnlyAfterCut
<1> QED BY <1>8, <1>9, <1>10, <1>11

\* A process that is over, by itself or not.
LEMMA FeedEnds ==
  ASSUME FeedInv, Exit \/ Crash PROVE FeedInv'
<1> USE DEF FeedInv
<1>1. /\ UNCHANGED <<world, log, offset, db, starts, ends, told, overlap>>
      /\ phase # "down" /\ phase' = "down" /\ polling' = FALSE
      /\ batch' \in {batch, <<>>} /\ slot' = [s \in Slots |-> Free]
      /\ faults' \in {faults, faults + 1} /\ restarts' \in {restarts, restarts + 1}
  BY DEF Exit, Crash, Confirm, Fault, NoFault, InOrder, telegram
<1>2. \/ Busy = {} /\ dropped' = Base /\ cut' = cut
      \/ dropped' \in {dropped, Base} /\ cut' = cut + 1
  BY BaseIs DEF Exit, Crash, Confirm, Passed, telegram, HandlersDone
<1>3. Base' = Base
  <2>1. Greater(Base, offset - 1) = Base
    BY BaseIs, PollerTypes DEF Greater
  <2> QED BY <1>1, <1>2, <2>1, BaseIs DEF Base
<1>4. dropped' \in 0..Base /\ dropped' \in 0..Len(log) /\ cut' \in Nat /\ cut <= cut'
      /\ (offset > 0 => dropped' < offset)
  BY <1>2, BaseIs, PollerTypes DEF InOrder
<1>5. batch' \in Seq(1..Len(log)) /\ \A i \in 1..Len(batch') : batch'[i] = Base + i
  <2>1. CASE batch' = batch
    BY <2>1, PollerTypes DEF InOrder
  <2>2. CASE batch' = <<>>
    BY <2>2, EmptySeq
  <2> QED BY <1>1, <2>1, <2>2
<1>6. \A s \in Slots : slot'[s] = Free /\ slot'[s].pc = "idle"
  BY <1>1, FreeType
<1>7. TypeOK'
  <2>1. slot' \in [Slots -> SlotRecord]
    BY <1>1, FreeType
  <2>2. faults' \in Nat /\ restarts' \in Nat /\ starts' \in [1..MaxUpdates -> Nat]
        /\ ends' \in [1..MaxUpdates -> Nat]
    BY <1>1 DEF TypeOK
  <2> QED BY <1>1, <1>4, <1>5, <2>1, <2>2, PollerTypes, PollerKeepsTypes DEF TypeOK
<1>8. LogOK' /\ SlotsOK'
  BY <1>1, <1>6 DEF LogOK, SlotsOK, Labels
<1>9. InOrder'
  BY <1>1, <1>3, <1>4, <1>5, <1>6 DEF InOrder
<1>10. Counted'
  <2>1. \A n \in 1..MaxUpdates : starts[n] \in Nat /\ starts[n] <= 1 + cut /\ (n > Base => starts[n] <= cut)
    BY <1>1, PollerTypes DEF Counted, Again, RepeatedOnlyAfterCut, TypeOK
  <2>2. cut \in Nat /\ cut' \in {cut, cut + 1}
    BY <1>2, PollerTypes
  <2>3. \A n \in 1..MaxUpdates : n > dropped' => starts[n] <= cut'
    <3>1. CASE dropped' = Base /\ cut' = cut
      BY <2>1, <3>1
    <3>2. CASE cut' = cut + 1
      BY <2>1, <2>2, <3>2
    <3> QED BY <1>2, <3>1, <3>2
  <2>4. RepeatedOnlyAfterCut'
    <3>1. \A n \in 1..MaxUpdates : starts[n] <= 1 + cut'
      BY <2>1, <2>2
    <3> QED BY <1>1, <3>1 DEF RepeatedOnlyAfterCut, TypeOK
  <2> QED BY <1>1, <1>3, <2>3, <2>4 DEF Counted, Again
<1>11. EndsOnce'
  <2>1. CASE Busy = {} /\ cut' = cut
    <3>1. \A n : ~Handled(n) /\ ~Handled(n)'
      BY <1>6, <2>1 DEF Handled, Busy
    <3> QED BY <1>1, <1>6, <2>1, <3>1 DEF EndsOnce
  <2>2. CASE cut' = cut + 1
    BY <2>2, PollerTypes DEF EndsOnce
  <2> QED BY <1>2, <2>1, <2>2
<1> QED BY <1>7, <1>8, <1>9, <1>10, <1>11

(***************************************************************************)
(* The handlers                                                            *)
(***************************************************************************)
\* What a handler makes of its slot and of the history.
LEMMA HandlerMoves ==
  ASSUME FeedInv, NEW s \in Slots, Handle(s)
  PROVE  /\ HandlerFrame /\ slot[s].pc # "idle" /\ faults' \in {faults, faults + 1}
         /\ \/ \E l \in {"save", "move"} : /\ slot' = [slot EXCEPT ![s].pc = l]
                                           /\ UNCHANGED <<ends, told>>
                                           /\ l = "save" => Upd(s).kind = "message"
            \/ /\ slot' = [slot EXCEPT ![s].tries = @ + 1] /\ UNCHANGED <<ends, told>>
               /\ slot[s].tries + 1 < SaveTries
            \/ End(s) /\ told' \in {told, told \cup {slot[s].n}}
<1>1. CASE Ensure(s)
  <2>1. slot[s].pc = "ensure" /\ HandlerFrame
    BY <1>1 DEF Ensure, At
  <2>2. \/ NoFault /\ Upd(s).kind = "message" /\ Goto(s, "save")
        \/ NoFault /\ End(s) /\ Quietly
        \/ Fault /\ End(s) /\ Alert(s)
    BY <1>1 DEF Ensure
  <2> QED BY <2>1, <2>2 DEF Goto, Alert, Quietly, NoFault, Fault
<1>2. CASE Save(s)
  BY <1>2 DEF Save, At, Goto, Alert, Quietly, NoFault, Fault
<1>3. CASE EditRow(s) \/ ApplyDelta(s) \/ SyncAbsolute(s) \/ Pause(s) \/ Move(s)
  <2>1. slot[s].pc # "idle" /\ \E a, b : LastQuery(s, a, b)
    BY <1>3 DEF EditRow, ApplyDelta, SyncAbsolute, Pause, Move, At
  <2> QED BY <2>1 DEF LastQuery, Alert, Quietly, NoFault, Fault
<1>4. CASE GetChat(s)
  <2>1. slot[s].pc = "getChat" /\ HandlerFrame
    BY <1>4 DEF GetChat, At
  <2>2. (NoFault /\ Goto(s, "move")) \/ (Fault /\ End(s) /\ Alert(s))
    BY <1>4 DEF GetChat
  <2> QED BY <2>1, <2>2 DEF Goto, Alert, NoFault, Fault
<1> QED BY <1>1, <1>2, <1>3, <1>4 DEF Handle

\* The database keeps its types: a text and a total are no negative numbers.
LEMMA HandlerTypes ==
  ASSUME FeedInv, NEW s \in Slots, Handle(s)
  PROVE  /\ dbText' \in [Msgs -> [Chats -> Nat]] /\ dbLikes' \in [Msgs -> [Chats -> Nat]]
         /\ group' \in [Chats -> {"active", "paused", "none"}]
<1> USE DEF FeedInv
<1> DEFINE u == Upd(s)
           DbOK == /\ dbText' \in [Msgs -> [Chats -> Nat]] /\ dbLikes' \in [Msgs -> [Chats -> Nat]]
                   /\ group' \in [Chats -> {"active", "paused", "none"}]
<1>1. /\ dbText \in [Msgs -> [Chats -> Nat]] /\ dbLikes \in [Msgs -> [Chats -> Nat]]
      /\ group \in [Chats -> {"active", "paused", "none"}]
  BY DEF TypeOK
<1>2. slot[s].pc # "idle" => u \in Update /\ EntryOK(u)
  <2>1. log \in Seq(Update)
    BY DEF TypeOK
  <2> QED BY <2>1 DEF SlotsOK, LogOK, Upd
<1>3. CASE Ensure(s)
  BY <1>1, <1>3 DEF Ensure, Ensured
<1>4. CASE Save(s)
  <2>1. u.m \in Msgs /\ u.chat \in Chats /\ u.arg \in Nat
    BY <1>2, <1>4 DEF Save, At, SlotsOK, Upd, EntryOK, OfMessage, Update
  <2>2. group' = group /\ (Insert(u.m, u.chat, u.arg) \/ UNCHANGED <<dbText, dbLikes>>)
    BY <1>4 DEF Save
  <2>3. [dbText EXCEPT ![u.m][u.chat] = u.arg] \in [Msgs -> [Chats -> Nat]]
    BY <1>1, <2>1
  <2> QED BY <1>1, <2>2, <2>3 DEF Insert
<1>5. CASE EditRow(s)
  <2>1. u.m \in Msgs /\ u.chat \in Chats /\ u.arg \in Nat
    BY <1>2, <1>5 DEF EditRow, At, SlotsOK, Upd, EntryOK, OfMessage, Update
  <2>2. /\ UNCHANGED <<dbLikes, group>>
        /\ dbText' = dbText \/ dbText' = [dbText EXCEPT ![u.m][u.chat] = u.arg]
    BY <1>5 DEF EditRow, LastQuery
  <2>3. [dbText EXCEPT ![u.m][u.chat] = u.arg] \in [Msgs -> [Chats -> Nat]]
    BY <1>1, <2>1
  <2> QED BY <1>1, <2>2, <2>3
<1>6. CASE ApplyDelta(s)
  <2>1. u.m \in Msgs /\ u.chat \in Chats /\ u.arg \in Int
    BY <1>2, <1>6 DEF ApplyDelta, At, SlotsOK, Upd, EntryOK, OfMessage, Update
  <2>2. /\ UNCHANGED <<dbText, group>>
        /\ \/ dbLikes' = dbLikes
           \/ dbLikes' = [dbLikes EXCEPT ![u.m][u.chat] = DeltaOf(dbLikes[u.m][u.chat], u.arg)]
    BY <1>6 DEF ApplyDelta, LastQuery
  <2>3. DeltaOf(dbLikes[u.m][u.chat], u.arg) \in Nat
    BY <1>1, <2>1 DEF DeltaOf, Greater
  <2>4. \A d \in Nat : [dbLikes EXCEPT ![u.m][u.chat] = d] \in [Msgs -> [Chats -> Nat]]
    BY <1>1, <2>1
  <2> QED BY <1>1, <2>2, <2>3, <2>4
<1>7. CASE SyncAbsolute(s)
  <2>1. u.m \in Msgs /\ u.chat \in Chats /\ u.arg \in Nat
    BY <1>2, <1>7 DEF SyncAbsolute, At, SlotsOK, Upd, EntryOK, OfMessage, Update
  <2>2. /\ UNCHANGED <<dbText, group>>
        /\ dbLikes' = dbLikes \/ dbLikes' = [dbLikes EXCEPT ![u.m][u.chat] = u.arg]
    BY <1>7 DEF SyncAbsolute, LastQuery
  <2>3. [dbLikes EXCEPT ![u.m][u.chat] = u.arg] \in [Msgs -> [Chats -> Nat]]
    BY <1>1, <2>1
  <2> QED BY <1>1, <2>2, <2>3
<1>8. CASE Pause(s)
  <2>1. /\ UNCHANGED <<dbText, dbLikes>>
        /\ group' = group \/ group' = [group EXCEPT ![u.chat] = "paused"]
    BY <1>8 DEF Pause, LastQuery
  <2> QED BY <1>1, <2>1
<1>9. CASE GetChat(s)
  BY <1>1, <1>9 DEF GetChat, db
<1>10. CASE Move(s)
  <2>1. \/ UNCHANGED db
        \/ /\ group' = Rekeyed(group, "none")
           /\ dbText' = [m \in Msgs |-> Rekeyed(dbText[m], 0)]
           /\ dbLikes' = [m \in Msgs |-> Rekeyed(dbLikes[m], 0)]
    BY <1>10 DEF Move, LastQuery, MoveGroup
  <2>2. /\ Rekeyed(group, "none") \in [Chats -> {"active", "paused", "none"}]
        /\ \A m \in Msgs : /\ Rekeyed(dbText[m], 0) \in [Chats -> Nat]
                           /\ Rekeyed(dbLikes[m], 0) \in [Chats -> Nat]
    BY <1>1 DEF Rekeyed, Chats
  <2> QED BY <1>1, <2>1, <2>2 DEF db
<1> QED BY <1>3, <1>4, <1>5, <1>6, <1>7, <1>8, <1>9, <1>10 DEF Handle

LEMMA FeedHandle ==
  ASSUME FeedInv, NEW s \in Slots, Handle(s) PROVE FeedInv'
<1> USE DEF FeedInv
<1> DEFINE x == slot[s]
<1>1. PICK k : k = slot[s].n
  OBVIOUS
<1>2. /\ UNCHANGED <<world, telegram, phase, offset, batch, polling, starts, overlap, cut, restarts>>
      /\ x.pc # "idle" /\ faults' \in {faults, faults + 1}
      /\ x \in SlotRecord /\ k \in 1..Len(log) /\ k \in 1..MaxUpdates
  <2>1. x.pc # "idle" /\ HandlerFrame /\ faults' \in {faults, faults + 1}
    BY HandlerMoves
  <2>2. k \in 1..Len(log) /\ Len(log) <= MaxUpdates /\ MaxUpdates \in Nat
    BY <1>1, <2>1, UpdateFeedAssumption DEF SlotsOK, LogOK
  <2> QED BY <2>1, <2>2, PollerTypes DEF HandlerFrame
<1>3. /\ \A t \in Slots : t # s => slot'[t] = slot[t]
      /\ slot' \in [Slots -> SlotRecord]
      /\ \/ /\ slot'[s].pc # "idle" /\ slot'[s].n = k /\ UNCHANGED <<ends, told>>
            /\ slot'[s].pc \in {x.pc, "save", "move"}
            /\ slot'[s].pc = "save" => x.pc = "save" \/ log[k].kind = "message"
         \/ /\ slot'[s].pc = "idle" /\ ends' = [ends EXCEPT ![k] = @ + 1]
            /\ told' \in {told, told \cup {k}}
  <2>1. slot \in [Slots -> SlotRecord]
    BY PollerTypes
  <2>2. CASE \E l \in {"save", "move"} : /\ slot' = [slot EXCEPT ![s].pc = l]
                                         /\ UNCHANGED <<ends, told>>
                                         /\ l = "save" => Upd(s).kind = "message"
    <3>1. PICK l \in {"save", "move"} : /\ slot' = [slot EXCEPT ![s].pc = l]
                                        /\ UNCHANGED <<ends, told>>
                                        /\ l = "save" => Upd(s).kind = "message"
      BY <2>2
    <3>2. l \in Labels \ {"idle"}
      BY DEF Labels
    <3>3. slot'[s] = [x EXCEPT !.pc = l]
      BY <2>1, <3>1
    <3>4. slot'[s].pc = l /\ slot'[s].n = k /\ slot'[s] \in SlotRecord
      BY <1>1, <2>1, <3>2, <3>3 DEF SlotRecord
    <3> QED BY <1>1, <2>1, <3>1, <3>2, <3>4 DEF Upd
  <2>3. CASE /\ slot' = [slot EXCEPT ![s].tries = @ + 1] /\ UNCHANGED <<ends, told>>
             /\ slot[s].tries + 1 < SaveTries
    <3>1. slot'[s] = [x EXCEPT !.tries = x.tries + 1]
      BY <2>1, <2>3
    <3>2. x.tries + 1 \in 0..(SaveTries - 1)
      BY <1>2, <2>3, UpdateFeedAssumption DEF SlotRecord
    <3>3. slot'[s].pc = x.pc /\ slot'[s].n = k /\ slot'[s] \in SlotRecord
      BY <1>1, <2>1, <3>1, <3>2 DEF SlotRecord
    <3> QED BY <1>2, <2>1, <2>3, <3>3
  <2>4. CASE End(s) /\ told' \in {told, told \cup {slot[s].n}}
    <3>1. slot' = [slot EXCEPT ![s] = Free] /\ ends' = [ends EXCEPT ![k] = @ + 1]
      BY <1>1, <2>4 DEF End
    <3> QED BY <1>1, <2>1, <2>4, <3>1, FreeType
  <2> QED BY <2>2, <2>3, <2>4, HandlerMoves
<1>4. /\ log' = log /\ dropped' = dropped /\ Base' = Base /\ Again' = Again
      /\ ends' \in [1..MaxUpdates -> Nat] /\ told' \subseteq 1..Len(log)
  <2>1. log' = log /\ dropped' = dropped
    BY <1>2 DEF telegram
  <2>2. ends' \in [1..MaxUpdates -> Nat]
    BY <1>2, <1>3 DEF TypeOK
  <2>3. told' \subseteq 1..Len(log)
    BY <1>2, <1>3 DEF TypeOK
  <2> QED BY <1>2, <2>1, <2>2, <2>3 DEF Base, Again
<1>5. TypeOK'
  <2>1. /\ member' \in BOOLEAN /\ chat' \in Chats /\ posted' \in [Msgs -> Chats \cup {"none"}]
        /\ text' \in [Msgs -> Nat] /\ likes' \in [Msgs -> Nat]
    BY <1>2 DEF TypeOK, world
  <2>2. /\ log' \in Seq(Update) /\ dropped' \in 0..Len(log')
        /\ phase' \in {"down", "up", "stopping"} /\ polling' \in BOOLEAN
        /\ offset' \in 0..(Len(log') + 1) /\ batch' \in Seq(1..Len(log'))
    BY <1>2, <1>4 DEF TypeOK
  <2>3. slot' \in [Slots -> [n : 0..Len(log'), pc : Labels, tries : 0..(SaveTries - 1)]]
    BY <1>3, <1>4 DEF SlotRecord
  <2>4. /\ starts' \in [1..MaxUpdates -> Nat] /\ ends' \in [1..MaxUpdates -> Nat]
        /\ told' \subseteq 1..Len(log') /\ overlap' \in BOOLEAN
        /\ cut' \in Nat /\ faults' \in Nat /\ restarts' \in Nat
    BY <1>2, <1>4 DEF TypeOK
  <2> QED BY <2>1, <2>2, <2>3, <2>4, HandlerTypes DEF TypeOK
<1>6. LogOK'
  BY <1>4 DEF LogOK
<1>7. SlotsOK'
  <2> SUFFICES ASSUME NEW t \in Slots
               PROVE  /\ slot'[t].pc # "idle" => slot'[t].n \in 1..Len(log)
                      /\ slot'[t].pc = "save" => log[slot'[t].n].kind = "message"
                      /\ slot'[t].pc = "edit" => log[slot'[t].n].kind = "edited_message"
                      /\ slot'[t].pc = "delta" => log[slot'[t].n].kind = "message_reaction"
                      /\ slot'[t].pc = "totals" => log[slot'[t].n].kind = "message_reaction_count"
    BY <1>4 DEF SlotsOK
  <2>1. CASE t = s
    BY <1>1, <1>2, <1>3, <2>1 DEF SlotsOK
  <2>2. CASE t # s
    BY <1>3, <2>2 DEF SlotsOK
  <2> QED BY <2>1, <2>2
<1>8. InOrder'
  BY <1>2, <1>3, <1>4 DEF InOrder
<1>9. Counted'
  BY <1>2, <1>4 DEF Counted, RepeatedOnlyAfterCut
<1>10. EndsOnce'
  <2> SUFFICES ASSUME cut = 0
               PROVE  /\ \A n \in 1..MaxUpdates :
                           IF Handled(n)' THEN starts[n] = 1 /\ ends'[n] = 0 ELSE ends'[n] = starts[n]
                      /\ \A t, u \in Slots : slot'[t].pc # "idle" /\ slot'[u].pc # "idle"
                                               /\ slot'[t].n = slot'[u].n => t = u
    BY <1>2 DEF EndsOnce
  <2>1. /\ \A n \in 1..MaxUpdates : IF Handled(n) THEN starts[n] = 1 /\ ends[n] = 0 ELSE ends[n] = starts[n]
        /\ \A t, u \in Slots : slot[t].pc # "idle" /\ slot[u].pc # "idle" /\ slot[t].n = slot[u].n => t = u
    BY DEF EndsOnce
  <2>2. Handled(k) /\ \A t \in Slots : t # s /\ slot[t].pc # "idle" => slot[t].n # k
    BY <1>1, <1>2, <2>1 DEF Handled
  <2>3. \A t, u \in Slots : slot'[t].pc # "idle" /\ slot'[u].pc # "idle" /\ slot'[t].n = slot'[u].n => t = u
    BY <1>3, <2>1, <2>2
  <2>4. \A n : n # k => (Handled(n)' <=> Handled(n))
    BY <1>1, <1>3 DEF Handled
  <2>5. CASE slot'[s].pc # "idle" /\ slot'[s].n = k /\ UNCHANGED <<ends, told>>
    <3>1. Handled(k)'
      BY <2>5 DEF Handled
    <3>2. \A n \in 1..MaxUpdates : IF Handled(n)' THEN starts[n] = 1 /\ ends'[n] = 0 ELSE ends'[n] = starts[n]
      <4> SUFFICES ASSUME NEW n \in 1..MaxUpdates
                   PROVE  IF Handled(n)' THEN starts[n] = 1 /\ ends'[n] = 0 ELSE ends'[n] = starts[n]
        OBVIOUS
      <4>1. Handled(n)' <=> Handled(n)
        BY <2>2, <2>4, <3>1
      <4>2. ends'[n] = ends[n]
        BY <2>5
      <4> QED BY <2>1, <4>1, <4>2
    <3> QED BY <2>3, <3>2
  <2>6. CASE slot'[s].pc = "idle" /\ ends' = [ends EXCEPT ![k] = @ + 1]
    <3>1. ~Handled(k)'
      BY <1>3, <2>2, <2>6 DEF Handled
    <3>2. \A n \in 1..MaxUpdates : IF Handled(n)' THEN starts[n] = 1 /\ ends'[n] = 0 ELSE ends'[n] = starts[n]
      <4> SUFFICES ASSUME NEW n \in 1..MaxUpdates
                   PROVE  IF Handled(n)' THEN starts[n] = 1 /\ ends'[n] = 0 ELSE ends'[n] = starts[n]
        OBVIOUS
      <4>1. ends \in [1..MaxUpdates -> Nat]
        BY DEF TypeOK
      <4>2. CASE n = k
        <5>1. starts[n] = 1 /\ ends[n] = 0
          BY <2>1, <2>2, <4>2
        <5>2. ends'[n] = ends[n] + 1
          BY <2>6, <4>1, <4>2
        <5> QED BY <3>1, <4>2, <5>1, <5>2
      <4>3. CASE n # k
        <5>1. ends'[n] = ends[n]
          BY <2>6, <4>1, <4>3
        <5>2. Handled(n)' <=> Handled(n)
          BY <2>4, <4>3
        <5> QED BY <2>1, <5>1, <5>2
      <4> QED BY <4>2, <4>3
    <3> QED BY <2>3, <3>2
  <2> QED BY <1>3, <2>5, <2>6
<1> QED BY <1>5, <1>6, <1>7, <1>8, <1>9, <1>10

(***************************************************************************)
(* The theorems                                                            *)
(***************************************************************************)
LEMMA FeedInit == Init => FeedInv
<1> SUFFICES ASSUME Init PROVE FeedInv
  OBVIOUS
<1>1. /\ log = <<>> /\ Len(log) = 0 /\ log \in Seq(Update) /\ batch = <<>> /\ batch \in Seq(1..Len(log))
      /\ Len(batch) = 0
  BY EmptySeq DEF Init
<1>2. slot = [s \in Slots |-> Free] /\ Free \in SlotRecord /\ Free.pc = "idle"
  BY <1>1, UpdateFeedAssumption DEF Init, Free, SlotRecord, Labels
<1>3. dropped = 0 /\ offset = 0 /\ cut = 0 /\ phase = "down" /\ ~polling /\ Base = 0
  BY DEF Init, Base, Greater
<1>4. starts = [n \in 1..MaxUpdates |-> 0] /\ ends = [n \in 1..MaxUpdates |-> 0]
  BY DEF Init
<1>5. TypeOK
  <2>1. /\ member \in BOOLEAN /\ chat \in Chats /\ posted \in [Msgs -> Chats \cup {"none"}]
        /\ text \in [Msgs -> Nat] /\ likes \in [Msgs -> Nat]
    BY DEF Init, Chats
  <2>2. polling \in BOOLEAN /\ overlap \in BOOLEAN
    BY Zenon DEF Init
  <2>7. /\ phase \in {"down", "up", "stopping"}
        /\ dropped \in 0..Len(log) /\ offset \in 0..(Len(log) + 1)
    BY <1>1, <1>3
  <2>3. slot \in [Slots -> [n : 0..Len(log), pc : Labels, tries : 0..(SaveTries - 1)]]
    BY <1>2 DEF SlotRecord
  <2>4. /\ dbText \in [Msgs -> [Chats -> Nat]] /\ dbLikes \in [Msgs -> [Chats -> Nat]]
    BY DEF Init
  <2>5. group \in [Chats -> {"active", "paused", "none"}]
    BY DEF Init
  <2>6. /\ starts \in [1..MaxUpdates -> Nat] /\ ends \in [1..MaxUpdates -> Nat]
        /\ told \subseteq 1..Len(log)
        /\ cut \in Nat /\ faults \in Nat /\ restarts \in Nat
    BY <1>4 DEF Init
  <2> QED BY <1>1, <2>1, <2>2, <2>3, <2>4, <2>5, <2>6, <2>7 DEF TypeOK
<1>6. LogOK /\ SlotsOK /\ InOrder
  BY <1>1, <1>2, <1>3, UpdateFeedAssumption DEF LogOK, SlotsOK, InOrder
<1>7. Counted
  BY <1>3, <1>4 DEF Counted, RepeatedOnlyAfterCut
<1>8. EndsOnce
  BY <1>2, <1>4 DEF EndsOnce, Handled
<1> QED BY <1>5, <1>6, <1>7, <1>8 DEF FeedInv

LEMMA FeedStep == FeedInv /\ [Next]_vars => FeedInv'
<1> SUFFICES ASSUME FeedInv, [Next]_vars PROVE FeedInv'
  OBVIOUS
<1>1. CASE (\E m \in Msgs : Post(m) \/ EditText(m) \/ React(m)) \/ Membership \/ Upgrade
  BY <1>1, ChatTells, FeedTold DEF FeedInv
<1>2. CASE Poll \/ Boot \/ Shutdown \/ PollReturns \/ Exit \/ Crash
  BY <1>2, FeedPoll, FeedTurns, FeedEnds
<1>3. CASE \E s \in Slots : Accept(s) \/ Handle(s)
  BY <1>3, FeedAccept, FeedHandle
<1>4. CASE UNCHANGED vars
  BY <1>4 DEF vars, world, telegram, process, db, history, FeedInv, TypeOK, LogOK, SlotsOK, InOrder,
      Counted, EndsOnce, Base, Again, Handled, RepeatedOnlyAfterCut
<1> QED BY <1>1, <1>2, <1>3, <1>4 DEF Next

\* The invariant of the poller: it accepts the updates in order, what is accepted has
\* started, and without a cut a started update has one handler until it ends.
THEOREM FeedInvariant == Spec => []FeedInv
<1> QED BY FeedInit, FeedStep, PTL DEF Spec

\* An update is handled once, and again or not at all only across a crash or a lost
\* confirmation: whenever the process stops and whichever answers are lost.
THEOREM HandledOnceAlways == Spec => []HandledOnce
<1>1. FeedInv => HandledOnce
  <2> SUFFICES ASSUME FeedInv PROVE HandledOnce
    OBVIOUS
  <2>1. dropped <= Base /\ dropped \in Nat /\ Base \in Nat
    BY BaseIs, PollerTypes DEF FeedInv
  <2>2. NothingSkipped
    BY <2>1 DEF FeedInv, Counted, NothingSkipped
  <2> QED BY <2>2 DEF FeedInv, Counted, HandledOnce
<1> QED BY <1>1, FeedInvariant, PTL

\* A stop cuts no handler in half: without a crash or a lost confirmation, what
\* Telegram has dropped is handled to its end when the process is down.
THEOREM StopsFinish == Spec => []StopFinishesAccepted
<1>1. FeedInv => StopFinishesAccepted
  <2> SUFFICES ASSUME FeedInv, phase = "down", cut = 0, NEW n \in 1..dropped
               PROVE  ends[n] = starts[n]
    BY DEF StopFinishesAccepted
  <2>1. ~Handled(n)
    BY DEF FeedInv, InOrder, Handled
  <2>2. n \in 1..MaxUpdates
    BY PollerTypes, UpdateFeedAssumption DEF FeedInv, LogOK
  <2> QED BY <2>1, <2>2 DEF FeedInv, EndsOnce
<1> QED BY <1>1, FeedInvariant, PTL


(***************************************************************************)
(* One at a time: the database as the log so far                           *)
(***************************************************************************)
Table == [Msgs -> [Chats -> Nat]]
Db == [t : Table, l : Table, g : [Chats -> {"active", "paused", "none"}]]
DbNow == [t |-> dbText, l |-> dbLikes, g |-> group]
NoRows == [m \in Msgs |-> [c \in Chats |-> 0]]
FirstDb == [t |-> NoRows, l |-> NoRows, g |-> [c \in Chats |-> IF c = "old" THEN "active" ELSE "none"]]

\* What the whole handler of the update u makes of the database d.
Moves(d, u) == u.kind = "migrate" /\ d.g["new"] = "none" /\ d.g["old"] # "none"
HasRow(d, u) == d.t[u.m][u.chat] > 0
Writes(d, u) == \/ u.kind = "message" /\ ~HasRow(d, u)
                \/ u.kind = "edited_message" /\ HasRow(d, u) /\ u.m \notin Media
TextAfter(d, u) ==
  IF Moves(d, u) THEN [m \in Msgs |-> Rekeyed(d.t[m], 0)]
  ELSE IF Writes(d, u) THEN [d.t EXCEPT ![u.m][u.chat] = u.arg] ELSE d.t
LikesAfter(d, u) ==
  IF Moves(d, u) THEN [m \in Msgs |-> Rekeyed(d.l[m], 0)]
  ELSE IF u.kind = "message_reaction" /\ HasRow(d, u)
       THEN [d.l EXCEPT ![u.m][u.chat] = DeltaOf(@, u.arg)]
  ELSE IF u.kind = "message_reaction_count" /\ HasRow(d, u)
       THEN [d.l EXCEPT ![u.m][u.chat] = u.arg] ELSE d.l
GroupAfter(d, u) ==
  IF Moves(d, u) THEN Rekeyed(d.g, "none")
  ELSE IF u.kind \in {"message", "service", "added"} THEN [d.g EXCEPT ![u.chat] = "active"]
  ELSE IF u.kind = "left" /\ d.g[u.chat] # "none" THEN [d.g EXCEPT ![u.chat] = "paused"] ELSE d.g
After(d, u) == [t |-> TextAfter(d, u), l |-> LikesAfter(d, u), g |-> GroupAfter(d, u)]

\* The database d is what the members see.
Other(c) == IF c = "old" THEN "new" ELSE "old"
MirrorsGroup(d) ==
  d.g[chat] = (IF member THEN "active" ELSE "paused") /\ d.g[Other(chat)] = "none"
MirrorsMsg(d, m) ==
  /\ d.t[m][Other(chat)] = 0 /\ d.l[m][Other(chat)] = 0 /\ d.l[m][chat] = likes[m]
  /\ d.t[m][chat] = IF posted[m] # "none" /\ m \in Media THEN 1 ELSE text[m]
  /\ posted[m] = "none" => text[m] = 0 /\ likes[m] = 0
  /\ posted[m] # "none" => text[m] > 0
Mirrors(d) == MirrorsGroup(d) /\ \A m \in Msgs : MirrorsMsg(d, m)

\* st is the database after each update of the log, handled in order.
Replays(st, lg) ==
  /\ st[0] = FirstDb
  /\ \A n \in 0..Len(lg) : st[n] \in Db
  /\ \A n \in 1..Len(lg) : st[n] = After(st[n - 1], lg[n])

\* The handler s, which found the database d, is as far as its next call says.
AtWork(d, s) ==
  LET u == Upd(s) IN
  /\ dbText = d.t /\ dbLikes = d.l
  /\ group = IF slot[s].pc = "save" THEN [d.g EXCEPT ![u.chat] = "active"] ELSE d.g
  /\ \/ slot[s].pc = FirstStep(u.kind)
     \/ slot[s].pc = "save" /\ u.kind = "message"
     \/ slot[s].pc = "move" /\ u.kind = "migrate"

Signed(lg) == \A n \in 1..Len(lg) : lg[n].kind = "migrate" => lg[n].arg = 1
Ordered == cut = 0 /\ faults = 0 /\ ~overlap /\ Signed(log)

Stands(st) ==
  /\ Busy = {} => DbNow = st[Base]
  /\ \A s \in Busy : Busy = {s} /\ slot[s].n = Base /\ Base > 0 /\ AtWork(st[Base - 1], s)

\* Without failures and overlap the database is the log up to the last update that was
\* accepted, and the whole log is what the members see.
SerialFeed ==
  Ordered => \E st : Replays(st, log) /\ Mirrors(st[Len(log)]) /\ Stands(st)

LEMMA Fields == \A d, u : /\ After(d, u).t = TextAfter(d, u) /\ After(d, u).l = LikesAfter(d, u)
                          /\ After(d, u).g = GroupAfter(d, u)
  BY DEF After

LEMMA AfterTypes ==
  ASSUME NEW d \in Db, NEW u \in Update, EntryOK(u) PROVE After(d, u) \in Db
<1>1. d.t \in Table /\ d.l \in Table /\ d.g \in [Chats -> {"active", "paused", "none"}]
  BY DEF Db
<1>2. u.chat \in Chats /\ u.arg \in Int /\ (u.kind \in OfMessage => u.m \in Msgs)
      /\ (u.kind \in OfMessage \ {"message_reaction"} => u.arg \in Nat)
  BY DEF Update, EntryOK
<1>3. \A q \in Table : [m \in Msgs |-> Rekeyed(q[m], 0)] \in Table
  <2> SUFFICES ASSUME NEW q \in Table, NEW m \in Msgs PROVE Rekeyed(q[m], 0) \in [Chats -> Nat]
    BY DEF Table
  <2> QED BY DEF Rekeyed, Table, Chats
<1>4. \A q \in Table, m \in Msgs, a \in Nat : [q EXCEPT ![m][u.chat] = a] \in Table
  BY <1>2 DEF Table
<1>5. TextAfter(d, u) \in Table
  <2>1. CASE Moves(d, u)
    BY <1>1, <1>3, <2>1 DEF TextAfter
  <2>2. CASE ~Moves(d, u) /\ Writes(d, u)
    BY <1>1, <1>2, <1>4, <2>2 DEF TextAfter, Writes, OfMessage
  <2>3. CASE ~Moves(d, u) /\ ~Writes(d, u)
    BY <1>1, <2>3 DEF TextAfter
  <2> QED BY <2>1, <2>2, <2>3
<1>6. LikesAfter(d, u) \in Table
  <2>1. CASE Moves(d, u)
    BY <1>1, <1>3, <2>1 DEF LikesAfter
  <2>2. CASE ~Moves(d, u) /\ u.kind = "message_reaction" /\ HasRow(d, u)
    <3>1. u.m \in Msgs /\ d.l[u.m][u.chat] \in Nat
      BY <1>1, <1>2, <2>2 DEF OfMessage, Table
    <3>2. DeltaOf(d.l[u.m][u.chat], u.arg) \in Nat
      BY <1>2, <3>1 DEF DeltaOf, Greater
    <3>3. LikesAfter(d, u) = [d.l EXCEPT ![u.m][u.chat] = DeltaOf(d.l[u.m][u.chat], u.arg)]
      BY <2>2 DEF LikesAfter
    <3> QED BY <1>1, <1>4, <3>1, <3>2, <3>3
  <2>3. CASE ~Moves(d, u) /\ u.kind = "message_reaction_count" /\ HasRow(d, u)
    BY <1>1, <1>2, <1>4, <2>3 DEF LikesAfter, OfMessage
  <2>4. CASE /\ ~Moves(d, u) /\ ~(u.kind = "message_reaction" /\ HasRow(d, u))
             /\ ~(u.kind = "message_reaction_count" /\ HasRow(d, u))
    BY <1>1, <2>4, Zenon DEF LikesAfter
  <2> QED BY <2>1, <2>2, <2>3, <2>4
<1>7. GroupAfter(d, u) \in [Chats -> {"active", "paused", "none"}]
  BY <1>1, <1>2 DEF GroupAfter, Rekeyed, Chats
<1> QED BY <1>5, <1>6, <1>7 DEF After, Db

\* One more update, one more database.
LEMMA ReplayMore ==
  ASSUME NEW lg \in Seq(Update), NEW st, Replays(st, lg), NEW u \in Update, EntryOK(u)
  PROVE  \E new : /\ Replays(new, Append(lg, u))
                  /\ \A n \in 0..Len(lg) : new[n] = st[n]
                  /\ new[Len(Append(lg, u))] = After(st[Len(lg)], u)
<1> DEFINE k == Len(lg)
           new == [n \in 0..(k + 1) |-> IF n <= k THEN st[n] ELSE After(st[k], u)]
<1>1. /\ k \in Nat /\ Len(Append(lg, u)) = k + 1 /\ Append(lg, u)[k + 1] = u
      /\ \A n \in 1..k : Append(lg, u)[n] = lg[n]
  OBVIOUS
<1>2. (\A n \in 0..k : new[n] = st[n]) /\ new[k + 1] = After(st[k], u)
  BY <1>1
<1>3. /\ st[0] = FirstDb /\ \A n \in 0..k : st[n] \in Db
      /\ \A n \in 1..k : st[n] = After(st[n - 1], lg[n])
  BY DEF Replays
<1> HIDE DEF new
<1>4. new[0] = FirstDb
  BY <1>1, <1>2, <1>3
<1>5. \A n \in 0..(k + 1) : new[n] \in Db
  <2>1. After(st[k], u) \in Db
    BY <1>1, <1>3, AfterTypes
  <2> SUFFICES ASSUME NEW n \in 0..(k + 1) PROVE new[n] \in Db
    OBVIOUS
  <2>2. CASE n = k + 1
    BY <1>2, <2>1, <2>2
  <2>3. CASE n # k + 1
    <3>1. n \in 0..k
      BY <1>1, <2>3
    <3> QED BY <1>2, <1>3, <3>1
  <2> QED BY <2>2, <2>3
<1>6. \A n \in 1..(k + 1) : new[n] = After(new[n - 1], Append(lg, u)[n])
  <2> SUFFICES ASSUME NEW n \in 1..(k + 1) PROVE new[n] = After(new[n - 1], Append(lg, u)[n])
    OBVIOUS
  <2>1. CASE n = k + 1
    <3>1. n - 1 = k /\ k \in 0..k
      BY <1>1, <2>1
    <3>2. Append(lg, u)[n] = u /\ new[n - 1] = st[k] /\ new[n] = After(st[k], u)
      BY <1>1, <1>2, <2>1, <3>1
    <3> QED BY <3>2
  <2>2. CASE n # k + 1
    <3>1. n \in 1..k /\ n \in 0..k /\ n - 1 \in 0..k
      BY <1>1, <2>2
    <3>2. Append(lg, u)[n] = lg[n] /\ new[n - 1] = st[n - 1] /\ new[n] = st[n]
      BY <1>1, <1>2, <3>1
    <3> QED BY <1>3, <3>1, <3>2
  <2> QED BY <2>1, <2>2
<1>7. Replays(new, Append(lg, u))
  BY <1>1, <1>4, <1>5, <1>6 DEF Replays
<1> QED BY <1>1, <1>2, <1>7

(***************************************************************************)
(* What the members do, and what a handler makes of it                     *)
(***************************************************************************)
\* Each update takes what the members saw to what they see.
LEMMA MirrorsPost ==
  ASSUME TypeOK, NEW d \in Db, Mirrors(d), NEW m \in Msgs, Post(m),
         NEW u, u = About("message", m, 1)[1], NEW e, e = After(d, u)
  PROVE  Mirrors(e)'
<1>1. u.kind = "message" /\ u.chat = chat /\ u.m = m /\ u.arg = 1
  BY DEF About
<1>2. /\ member /\ posted[m] = "none" /\ posted' = [posted EXCEPT ![m] = chat]
      /\ text' = [text EXCEPT ![m] = 1] /\ UNCHANGED <<member, chat, likes>>
  BY DEF Post
<1>3. chat \in Chats /\ posted \in [Msgs -> Chats \cup {"none"}] /\ text \in [Msgs -> Nat]
      /\ d.t \in Table /\ d.l \in Table /\ d.g \in [Chats -> {"active", "paused", "none"}]
  BY DEF TypeOK, Db
<1>4. ~Moves(d, u) /\ Writes(d, u)
  <2>1. d.t[m][chat] = 0
    BY <1>2 DEF Mirrors, MirrorsMsg
  <2> QED BY <1>1, <2>1 DEF Moves, Writes, HasRow
<1>5. e.t = [d.t EXCEPT ![m][chat] = 1] /\ e.l = d.l /\ e.g = [d.g EXCEPT ![chat] = "active"]
  <2>0. e.t = TextAfter(d, u) /\ e.l = LikesAfter(d, u) /\ e.g = GroupAfter(d, u)
    BY Fields
  <2>1. TextAfter(d, u) = [d.t EXCEPT ![m][chat] = 1]
    BY <1>1, <1>4 DEF TextAfter
  <2>2. LikesAfter(d, u) = d.l
    BY <1>1, <1>4 DEF LikesAfter
  <2>3. GroupAfter(d, u) = [d.g EXCEPT ![chat] = "active"]
    BY <1>1, <1>4 DEF GroupAfter
  <2> QED BY <2>0, <2>1, <2>2, <2>3
<1>6. MirrorsGroup(e)'
  BY <1>2, <1>3, <1>5 DEF Mirrors, MirrorsGroup, Other, Chats
<1>7. ASSUME NEW o \in Msgs PROVE MirrorsMsg(e, o)'
  BY <1>2, <1>3, <1>5 DEF Mirrors, MirrorsMsg, Other, Chats, Table
<1> QED BY <1>6, <1>7 DEF Mirrors

LEMMA MirrorsEdit ==
  ASSUME TypeOK, NEW d \in Db, Mirrors(d), NEW m \in Msgs, EditText(m),
         NEW u, u = About("edited_message", m, text[m] + 1)[1], NEW e, e = After(d, u)
  PROVE  Mirrors(e)'
<1>1. u.kind = "edited_message" /\ u.chat = chat /\ u.m = m /\ u.arg = text[m] + 1
  BY DEF About
<1>2. /\ posted[m] # "none" /\ text' = [text EXCEPT ![m] = text[m] + 1]
      /\ UNCHANGED <<member, chat, posted, likes>>
  BY DEF EditText, Here, TypeOK, Chats
<1>3. chat \in Chats /\ posted \in [Msgs -> Chats \cup {"none"}] /\ text \in [Msgs -> Nat]
      /\ d.t \in Table /\ d.l \in Table /\ d.g \in [Chats -> {"active", "paused", "none"}]
  BY DEF TypeOK, Db
<1>4. d.t[m][chat] > 0
  BY <1>2, <1>3 DEF Mirrors, MirrorsMsg
<1>5. ~Moves(d, u) /\ HasRow(d, u)
  BY <1>1, <1>4 DEF Moves, HasRow
<1>6. e.t = (IF m \in Media THEN d.t ELSE [d.t EXCEPT ![m][chat] = text[m] + 1])
      /\ e.l = d.l /\ e.g = d.g
  <2>0. e.t = TextAfter(d, u) /\ e.l = LikesAfter(d, u) /\ e.g = GroupAfter(d, u)
    BY Fields
  <2>1. TextAfter(d, u) = IF m \in Media THEN d.t ELSE [d.t EXCEPT ![m][chat] = text[m] + 1]
    BY <1>1, <1>5 DEF TextAfter, Writes
  <2>2. LikesAfter(d, u) = d.l
    BY <1>1, <1>5 DEF LikesAfter
  <2>3. GroupAfter(d, u) = d.g
    BY <1>1, <1>5 DEF GroupAfter
  <2> QED BY <2>0, <2>1, <2>2, <2>3
<1>7. MirrorsGroup(e)'
  BY <1>2, <1>6 DEF Mirrors, MirrorsGroup
<1>8. ASSUME NEW o \in Msgs PROVE MirrorsMsg(e, o)'
  <2>1. CASE m \in Media
    BY <1>2, <1>3, <1>6, <2>1 DEF Mirrors, MirrorsMsg
  <2>2. CASE m \notin Media
    BY <1>2, <1>3, <1>6, <2>2 DEF Mirrors, MirrorsMsg, Other, Chats, Table
  <2> QED BY <2>1, <2>2
<1> QED BY <1>7, <1>8 DEF Mirrors

LEMMA MirrorsReact ==
  ASSUME TypeOK, NEW d \in Db, Mirrors(d), NEW m \in Msgs, Here(m), NEW i \in {1, -1}, likes[m] + i >= 0,
         likes' = [likes EXCEPT ![m] = @ + i], UNCHANGED <<member, chat, posted, text>>,
         NEW u, u = (IF m \in Anonymous THEN About("message_reaction_count", m, likes[m] + i)
                     ELSE About("message_reaction", m, i))[1],
         NEW e, e = After(d, u)
  PROVE  Mirrors(e)'
<1>1. u.chat = chat /\ u.m = m
      /\ \/ u.kind = "message_reaction_count" /\ u.arg = likes[m] + i
         \/ u.kind = "message_reaction" /\ u.arg = i
  BY DEF About
<1>2. posted[m] # "none"
  BY DEF Here, TypeOK, Chats
<1>3. chat \in Chats /\ posted \in [Msgs -> Chats \cup {"none"}] /\ text \in [Msgs -> Nat]
      /\ likes \in [Msgs -> Nat]
      /\ d.t \in Table /\ d.l \in Table /\ d.g \in [Chats -> {"active", "paused", "none"}]
  BY DEF TypeOK, Db
<1>4. d.t[m][chat] > 0 /\ d.l[m][chat] = likes[m]
  BY <1>2, <1>3 DEF Mirrors, MirrorsMsg
<1>5. ~Moves(d, u) /\ HasRow(d, u)
  BY <1>1, <1>4 DEF Moves, HasRow
<1>6. DeltaOf(d.l[m][chat], i) = likes[m] + i
  BY <1>3, <1>4 DEF DeltaOf, Greater
<1>7. e.t = d.t /\ e.g = d.g
  BY <1>1, <1>5, Fields DEF TextAfter, GroupAfter, Writes
<1>8. e.l = [d.l EXCEPT ![m][chat] = likes[m] + i]
  <2>1. e.l = LikesAfter(d, u)
    BY Fields
  <2>2. CASE u.kind = "message_reaction" /\ u.arg = i
    BY <1>1, <1>5, <1>6, <2>1, <2>2 DEF LikesAfter
  <2>3. CASE u.kind = "message_reaction_count" /\ u.arg = likes[m] + i
    BY <1>1, <1>5, <2>1, <2>3 DEF LikesAfter
  <2> QED BY <1>1, <2>2, <2>3
<1>9. MirrorsGroup(e)'
  BY <1>7 DEF Mirrors, MirrorsGroup
<1>10. ASSUME NEW o \in Msgs PROVE MirrorsMsg(e, o)'
  BY <1>2, <1>3, <1>7, <1>8 DEF Mirrors, MirrorsMsg, Other, Chats, Table
<1> QED BY <1>9, <1>10 DEF Mirrors

LEMMA MirrorsMembership ==
  ASSUME TypeOK, NEW d \in Db, Mirrors(d), Membership,
         NEW u, u = About(IF member THEN "left" ELSE "added", NoMsg, 0)[1], NEW e, e = After(d, u)
  PROVE  Mirrors(e)'
<1>1. u.chat = chat /\ u.kind = IF member THEN "left" ELSE "added"
  BY DEF About
<1>2. member' = ~member /\ UNCHANGED <<chat, posted, text, likes>>
  BY DEF Membership
<1>3. chat \in Chats /\ d.g \in [Chats -> {"active", "paused", "none"}]
      /\ d.g[chat] = IF member THEN "active" ELSE "paused"
  BY DEF TypeOK, Db, Mirrors, MirrorsGroup
<1>4. ~Moves(d, u) /\ e.t = d.t /\ e.l = d.l
  BY <1>1, Fields DEF Moves, TextAfter, LikesAfter, Writes
<1>5. e.g = [d.g EXCEPT ![chat] = IF member THEN "paused" ELSE "active"]
  BY <1>1, <1>3, <1>4, Fields DEF GroupAfter
<1>6. MirrorsGroup(e)'
  <2>1. CASE member
    BY <1>2, <1>3, <1>5, <2>1 DEF Mirrors, MirrorsGroup, Other, Chats
  <2>2. CASE ~member
    BY <1>2, <1>3, <1>5, <2>2 DEF Mirrors, MirrorsGroup, Other, Chats
  <2> QED BY <2>1, <2>2
<1>7. ASSUME NEW o \in Msgs PROVE MirrorsMsg(e, o)'
  BY <1>2, <1>4 DEF Mirrors, MirrorsMsg
<1> QED BY <1>6, <1>7 DEF Mirrors

\* The group moves with its rows; the service message in its new chat changes nothing.
LEMMA MirrorsUpgrade ==
  ASSUME TypeOK, NEW d \in Db, Mirrors(d), member, chat = "old", chat' = "new",
         UNCHANGED <<member, posted, text, likes>>,
         NEW u, u.kind = "migrate", NEW e, e = After(d, u)
  PROVE  Mirrors(e)'
<1>1. d.t \in Table /\ d.l \in Table /\ d.g \in [Chats -> {"active", "paused", "none"}]
  BY DEF Db
<1>2. Moves(d, u)
  BY DEF Mirrors, MirrorsGroup, Moves, Other
<1>3. /\ e.t = [m \in Msgs |-> Rekeyed(d.t[m], 0)] /\ e.l = [m \in Msgs |-> Rekeyed(d.l[m], 0)]
      /\ e.g = Rekeyed(d.g, "none")
  BY <1>2, Fields DEF TextAfter, LikesAfter, GroupAfter
<1>4. \A f, z : DOMAIN f = Chats => Rekeyed(f, z)["new"] = f["old"] /\ Rekeyed(f, z)["old"] = z
  BY DEF Rekeyed, Chats
<1>5. MirrorsGroup(e)'
  BY <1>1, <1>3, <1>4 DEF Mirrors, MirrorsGroup, Other
<1>6. ASSUME NEW o \in Msgs PROVE MirrorsMsg(e, o)'
  <2>1. e.t[o]["new"] = d.t[o]["old"] /\ e.t[o]["old"] = 0
        /\ e.l[o]["new"] = d.l[o]["old"] /\ e.l[o]["old"] = 0
    BY <1>1, <1>3, <1>4 DEF Table
  <2> QED BY <2>1 DEF Mirrors, MirrorsMsg, Other
<1> QED BY <1>5, <1>6 DEF Mirrors

LEMMA MirrorsService ==
  ASSUME NEW d \in Db, member, chat = "old", chat' = "new", member' = member, Mirrors(d)',
         NEW u, u.kind = "service", u.chat = "new", NEW e, e = After(d, u)
  PROVE  Mirrors(e)'
<1>1. d.g \in [Chats -> {"active", "paused", "none"}] /\ d.g["new"] = "active"
  BY DEF Db, Mirrors, MirrorsGroup
<1>2. e.t = d.t /\ e.l = d.l /\ e.g = d.g
  <2>0. e.t = TextAfter(d, u) /\ e.l = LikesAfter(d, u) /\ e.g = GroupAfter(d, u)
    BY Fields
  <2>1. TextAfter(d, u) = d.t
    BY DEF TextAfter, Moves, Writes
  <2>2. LikesAfter(d, u) = d.l
    BY DEF LikesAfter, Moves
  <2>3. GroupAfter(d, u) = d.g
    BY <1>1 DEF GroupAfter, Moves
  <2> QED BY <2>0, <2>1, <2>2, <2>3
<1> QED BY <1>2 DEF Mirrors, MirrorsGroup, MirrorsMsg

\* A longer log changes nothing of what the handlers have done.
LEMMA StandsStays ==
  ASSUME FeedInv, NEW st, Stands(st), NEW new, \A n \in 0..Len(log) : new[n] = st[n],
         \A n \in 1..Len(log) : log'[n] = log[n], UNCHANGED <<dropped, process, db>>
  PROVE  Stands(new)'
<1>1. Base' = Base /\ Busy' = Busy /\ DbNow' = DbNow /\ slot' = slot
      /\ dbText' = dbText /\ dbLikes' = dbLikes /\ group' = group
  BY DEF Base, Busy, DbNow, process, db
<1>2. Base \in 0..Len(log) /\ Base \in Nat /\ Len(log) \in Nat
  BY BaseIs, PollerTypes DEF FeedInv
<1>3. Busy = {} => DbNow = new[Base]
  BY <1>2 DEF Stands
<1>4. ASSUME NEW s \in Busy
      PROVE  Busy = {s} /\ slot[s].n = Base /\ Base > 0 /\ AtWork(new[Base - 1], s)'
  <2>1. Busy = {s} /\ slot[s].n = Base /\ Base > 0 /\ AtWork(st[Base - 1], s)
    BY DEF Stands
  <2>2. Base - 1 \in 0..Len(log) /\ Base \in 1..Len(log)
    BY <1>2, <2>1
  <2>3. Upd(s)' = Upd(s)
    BY <1>1, <2>1, <2>2 DEF Upd
  <2>4. new[Base - 1] = st[Base - 1] /\ (new[Base - 1])' = new[Base - 1]
    BY <1>1, <2>2
  <2>5. AtWork(st[Base - 1], s)'
    BY <1>1, <2>1, <2>3 DEF AtWork
  <2> QED BY <1>1, <2>1, <2>4, <2>5
<1> QED BY <1>1, <1>3, <1>4 DEF Stands

LEMMA AboutUpdate ==
  ASSUME FeedInv, NEW k \in Kinds, NEW m \in Msgs \cup {NoMsg}, NEW a \in Int,
         k \in OfMessage => m \in Msgs /\ (k # "message_reaction" => a \in Nat)
  PROVE  \E u \in Update : About(k, m, a) = <<u>> /\ u = About(k, m, a)[1] /\ EntryOK(u)
<1> DEFINE u == [kind |-> k, chat |-> chat, m |-> m, arg |-> a]
<1>1. u \in Update /\ EntryOK(u)
  BY DEF Update, FeedInv, TypeOK, EntryOK
<1> HIDE DEF u
<1>2. About(k, m, a) = <<u>>
  BY DEF About, u
<1> QED BY <1>1, <1>2

\* What is told once leaves the database the members see behind the log.
SerialSince(st) == Replays(st, log) /\ Mirrors(st[Len(log)]) /\ Stands(st)

LEMMA SerialOne ==
  ASSUME FeedInv, NEW st, SerialSince(st), NEW u \in Update, EntryOK(u), Tell(<<u>>),
         \A e : e = After(st[Len(log)], u) => Mirrors(e)'
  PROVE  \E new : SerialSince(new)'
<1>1. log \in Seq(Update) /\ log' = Append(log, u) /\ UNCHANGED <<dropped, process, db>>
  <2>1. log \in Seq(Update) /\ log' = log \o <<u>>
    BY DEF Tell, FeedInv, TypeOK
  <2> QED BY <2>1 DEF Tell
<1>2. PICK new : /\ Replays(new, Append(log, u)) /\ \A n \in 0..Len(log) : new[n] = st[n]
                 /\ new[Len(Append(log, u))] = After(st[Len(log)], u)
  BY <1>1, ReplayMore DEF SerialSince
<1>3. \A n \in 1..Len(log) : log'[n] = log[n]
  BY <1>1
<1>4. Stands(new)'
  BY <1>1, <1>2, <1>3, StandsStays DEF SerialSince
<1>5. PICK e : e = new[Len(log')]
  OBVIOUS
<1>6. Mirrors(e)'
  BY <1>1, <1>2, <1>5
<1>7. Mirrors(new[Len(log)])'
  BY <1>5, <1>6
<1>8. Replays(new, log)'
  BY <1>1, <1>2
<1> QED BY <1>4, <1>7, <1>8 DEF SerialSince

LEMMA SerialTwo ==
  ASSUME FeedInv, NEW st, SerialSince(st), NEW u \in Update, EntryOK(u), NEW v \in Update, EntryOK(v),
         Tell(<<u>> \o <<v>>), \A e : e = After(After(st[Len(log)], u), v) => Mirrors(e)'
  PROVE  \E new : SerialSince(new)'
<1>1. /\ log \in Seq(Update) /\ log' = Append(Append(log, u), v)
      /\ UNCHANGED <<dropped, process, db>>
  <2>1. log \in Seq(Update) /\ log' = log \o (<<u>> \o <<v>>)
    BY DEF Tell, FeedInv, TypeOK
  <2>2. /\ \A s, t, q \in Seq(Update) : (s \o t) \o q = s \o (t \o q)
        /\ \A s \in Seq(Update), x \in Update : Append(s, x) = s \o <<x>> /\ Append(s, x) \in Seq(Update)
    <3>1. \A s, t, q \in Seq(Update) : (s \o t) \o q = s \o (t \o q)
      BY ConcatAssociative, SMT
    <3>2. \A s \in Seq(Update), x \in Update : Append(s, x) = s \o <<x>>
      BY AppendIsConcat, Zenon
    <3>3. \A s \in Seq(Update), x \in Update : Append(s, x) \in Seq(Update)
      OBVIOUS
    <3> QED BY <3>1, <3>2, <3>3, Zenon
  <2>3. <<u>> \in Seq(Update) /\ <<v>> \in Seq(Update)
    OBVIOUS
  <2>4. (log \o <<u>>) \o <<v>> = log \o (<<u>> \o <<v>>)
    BY <2>1, <2>2, <2>3, Zenon
  <2>5. Append(log, u) \in Seq(Update) /\ Append(log, u) = log \o <<u>>
        /\ Append(Append(log, u), v) = Append(log, u) \o <<v>>
    BY <2>1, <2>2, Zenon
  <2>6. Append(Append(log, u), v) = log \o (<<u>> \o <<v>>)
    BY <2>4, <2>5, Zenon
  <2> QED BY <2>1, <2>6, Zenon DEF Tell
<1> DEFINE lg == Append(log, u)
<1>2. PICK one : /\ Replays(one, lg) /\ \A n \in 0..Len(log) : one[n] = st[n]
                 /\ one[Len(lg)] = After(st[Len(log)], u)
  BY <1>1, ReplayMore DEF SerialSince
<1>3. lg \in Seq(Update) /\ Len(lg) = Len(log) + 1 /\ Len(log) \in Nat
  BY <1>1
<1>4. PICK new : /\ Replays(new, Append(lg, v)) /\ \A n \in 0..Len(lg) : new[n] = one[n]
                 /\ new[Len(Append(lg, v))] = After(one[Len(lg)], v)
  <2> HIDE DEF lg
  <2>1. lg \in Seq(Update) /\ Replays(one, lg) /\ v \in Update /\ EntryOK(v)
    BY <1>2, <1>3
  <2> QED BY <2>1, ReplayMore
<1>5. \A n \in 0..Len(log) : new[n] = st[n]
  BY <1>2, <1>3, <1>4
<1>6. \A n \in 1..Len(log) : log'[n] = log[n]
  BY <1>1
<1>7. Stands(new)'
  BY <1>1, <1>5, <1>6, StandsStays DEF SerialSince
<1>8. PICK e : e = new[Len(log')]
  OBVIOUS
<1>9. Mirrors(e)'
  BY <1>1, <1>2, <1>4, <1>8
<1>10. Mirrors(new[Len(log)])'
  BY <1>8, <1>9
<1>11. Replays(new, log)'
  BY <1>1, <1>4
<1> QED BY <1>7, <1>10, <1>11 DEF SerialSince

LEMMA SerialTold ==
  ASSUME FeedInv, SerialFeed, (\E m \in Msgs : Post(m) \/ EditText(m) \/ React(m)) \/ Membership \/ Upgrade
  PROVE  SerialFeed'
<1>1. /\ log \in Seq(Update) /\ TypeOK
      /\ text \in [Msgs -> Nat] /\ likes \in [Msgs -> Nat]
  BY DEF FeedInv, TypeOK
<1>2. SUFFICES ASSUME Ordered' PROVE \E new : SerialSince(new)'
  BY DEF SerialFeed, SerialSince
<1>3. PICK us \in Seq(Update) : Tell(us)
  BY ChatTells DEF FeedInv, Told
<1>4. Ordered
  <2>1. /\ log' = log \o us /\ UNCHANGED <<history, faults>>
    BY <1>3 DEF Tell
  <2>2. \A n \in 1..Len(log) : n \in 1..Len(log') /\ log'[n] = log[n]
    BY <1>1, <2>1, ConcatProperties
  <2> QED BY <1>2, <2>1, <2>2 DEF Ordered, Signed, history
<1>5. PICK st : SerialSince(st)
  BY <1>4 DEF SerialFeed, SerialSince
<1>6. PICK d : d = st[Len(log)]
  OBVIOUS
<1>7. d \in Db /\ Mirrors(d)
  BY <1>1, <1>5, <1>6 DEF SerialSince, Replays
<1>8. ASSUME NEW m \in Msgs, Post(m) PROVE \E new : SerialSince(new)'
  <2>1. "message" \in Kinds /\ Tell(About("message", m, 1))
    BY <1>8 DEF Kinds, Post
  <2>2. PICK u \in Update : About("message", m, 1) = <<u>> /\ u = About("message", m, 1)[1] /\ EntryOK(u)
    BY <2>1, AboutUpdate
  <2>3. Tell(<<u>>)
    BY <2>1, <2>2
  <2>4. \A e : e = After(d, u) => Mirrors(e)'
    BY <1>1, <1>7, <1>8, <2>2, MirrorsPost
  <2> QED BY <1>5, <1>6, <2>2, <2>3, <2>4, SerialOne
<1>9. ASSUME NEW m \in Msgs, EditText(m) PROVE \E new : SerialSince(new)'
  <2>1. "edited_message" \in Kinds /\ Tell(About("edited_message", m, text[m] + 1)) /\ text[m] + 1 \in Nat
    BY <1>1, <1>9 DEF Kinds, EditText
  <2>2. PICK u \in Update : /\ About("edited_message", m, text[m] + 1) = <<u>> /\ EntryOK(u)
                            /\ u = About("edited_message", m, text[m] + 1)[1]
    BY <2>1, AboutUpdate
  <2>3. Tell(<<u>>)
    BY <2>1, <2>2
  <2>4. \A e : e = After(d, u) => Mirrors(e)'
    BY <1>1, <1>7, <1>9, <2>2, MirrorsEdit
  <2> QED BY <1>5, <1>6, <2>2, <2>3, <2>4, SerialOne
<1>10. ASSUME NEW m \in Msgs, React(m) PROVE \E new : SerialSince(new)'
  <2>1. PICK i \in {1, -1} :
          /\ likes[m] + i >= 0 /\ likes' = [likes EXCEPT ![m] = @ + i]
          /\ Tell(IF m \in Anonymous THEN About("message_reaction_count", m, likes[m] + i)
                                     ELSE About("message_reaction", m, i))
          /\ UNCHANGED <<member, chat, posted, text>>
    BY <1>10 DEF React
  <2>2. Here(m) /\ i \in Int /\ likes[m] + i \in Nat
    BY <1>1, <1>10, <2>1 DEF React
  <2> DEFINE q == IF m \in Anonymous THEN About("message_reaction_count", m, likes[m] + i)
                  ELSE About("message_reaction", m, i)
  <2>3. \E u \in Update : q = <<u>> /\ u = q[1] /\ EntryOK(u)
    <3>1. {"message_reaction_count", "message_reaction"} \subseteq Kinds
      BY DEF Kinds
    <3>2. CASE m \in Anonymous
      BY <2>2, <3>1, <3>2, AboutUpdate
    <3>3. CASE m \notin Anonymous
      BY <2>2, <3>1, <3>3, AboutUpdate
    <3> QED BY <3>2, <3>3
  <2>4. PICK u \in Update : q = <<u>> /\ u = q[1] /\ EntryOK(u)
    BY <2>3
  <2>5. Tell(<<u>>)
    BY <2>1, <2>4
  <2>6. \A e : e = After(d, u) => Mirrors(e)'
    BY <1>1, <1>7, <2>1, <2>2, <2>4, MirrorsReact
  <2> QED BY <1>5, <1>6, <2>4, <2>5, <2>6, SerialOne
<1>11. CASE Membership
  <2> DEFINE k == IF member THEN "left" ELSE "added"
  <2>1. k \in Kinds \ OfMessage /\ Tell(About(k, NoMsg, 0))
    BY <1>11 DEF Kinds, OfMessage, Membership
  <2>2. PICK u \in Update : About(k, NoMsg, 0) = <<u>> /\ u = About(k, NoMsg, 0)[1] /\ EntryOK(u)
    <3>1. /\ k \in Kinds /\ NoMsg \in Msgs \cup {NoMsg} /\ 0 \in Int
          /\ k \in OfMessage => NoMsg \in Msgs /\ (k # "message_reaction" => 0 \in Nat)
      BY <2>1
    <3> HIDE DEF k
    <3> QED BY <3>1, AboutUpdate, Zenon
  <2>3. Tell(<<u>>)
    BY <2>1, <2>2
  <2>4. \A e : e = After(d, u) => Mirrors(e)'
    BY <1>1, <1>7, <1>11, <2>2, MirrorsMembership
  <2> QED BY <1>5, <1>6, <2>2, <2>3, <2>4, SerialOne
<1>12. CASE Upgrade
  <2> DEFINE v == [kind |-> "service", chat |-> "new", m |-> NoMsg, arg |-> 0]
  <2>1. PICK i \in {0, 1}, s \in {<<>>, <<v>>} : Tell(About("migrate", NoMsg, i) \o s)
    BY <1>12 DEF Upgrade
  <2>2. member /\ chat = "old" /\ chat' = "new" /\ UNCHANGED <<member, posted, text, likes>>
    BY <1>12 DEF Upgrade
  <2>3. "migrate" \in Kinds \ OfMessage /\ i \in Int
    BY DEF Kinds, OfMessage
  <2>4. PICK u \in Update : /\ About("migrate", NoMsg, i) = <<u>> /\ EntryOK(u)
                            /\ u = About("migrate", NoMsg, i)[1]
    BY <2>3, AboutUpdate
  <2>5. u.kind = "migrate"
    BY <2>4 DEF About
  <2>6. \A e : e = After(d, u) => Mirrors(e)'
    BY <1>1, <1>7, <2>2, <2>5, MirrorsUpgrade
  <2>7. CASE s = <<>>
    <3>1. Tell(<<u>>)
      BY <2>1, <2>4, <2>7, ConcatEmptySeq
    <3> QED BY <1>5, <1>6, <2>4, <2>6, <3>1, SerialOne
  <2>8. CASE s = <<v>>
    <3>1. v \in Update /\ EntryOK(v) /\ v.kind = "service" /\ v.chat = "new"
      BY DEF Update, Kinds, Chats, EntryOK, OfMessage
    <3> HIDE DEF v
    <3>2. Tell(<<u>> \o <<v>>)
      BY <2>1, <2>4, <2>8
    <3>3. PICK f : f = After(d, u)
      OBVIOUS
    <3>4. f \in Db /\ Mirrors(f)'
      BY <1>7, <2>4, <2>6, <3>3, AfterTypes
    <3>5. \A e : e = After(f, v) => Mirrors(e)'
      BY <2>2, <3>1, <3>4, MirrorsService
    <3>6. \A e : e = After(After(st[Len(log)], u), v) => Mirrors(e)'
      BY <1>6, <3>3, <3>5
    <3> QED BY <1>5, <2>4, <3>1, <3>2, <3>6, SerialTwo
  <2> QED BY <2>1, <2>7, <2>8
<1> QED BY <1>8, <1>9, <1>10, <1>11, <1>12

(***************************************************************************)
(* What the poller does                                                    *)
(***************************************************************************)
\* The poller leaves the database, and the log, as they are.
LEMMA SerialPoller ==
  ASSUME FeedInv, SerialFeed, UNCHANGED <<world, log, db>>, Ordered' => Ordered,
         Ordered' => \A st : SerialSince(st) => Stands(st)'
  PROVE  SerialFeed'
<1>1. SUFFICES ASSUME Ordered' PROVE \E st : SerialSince(st)'
  BY DEF SerialFeed, SerialSince
<1>2. PICK st : SerialSince(st)
  BY <1>1 DEF SerialFeed, SerialSince
<1>3. Replays(st, log)' /\ Stands(st)'
  BY <1>1, <1>2 DEF SerialSince
<1>4. Mirrors(st[Len(log)])'
  BY <1>2 DEF SerialSince, Mirrors, MirrorsGroup, MirrorsMsg, world
<1> QED BY <1>3, <1>4 DEF SerialSince

\* Nothing is handed in twice without a cut: a new process starts where the last one was.
LEMMA BootFromBase ==
  ASSUME FeedInv, cut = 0, phase = "down" PROVE Base = dropped
<1>1. Base \in 0..Len(log) /\ Base \in Nat /\ dropped <= Base /\ dropped \in Nat /\ Len(log) <= MaxUpdates
  BY BaseIs, PollerTypes DEF FeedInv, LogOK
<1>2. SUFFICES ASSUME dropped < Base PROVE FALSE
  BY <1>1
<1>3. Base \in 1..Base /\ Base \in 1..MaxUpdates /\ Base > dropped
  BY <1>1, <1>2, PollerTypes, UpdateFeedAssumption DEF FeedInv
<1>4. starts[Base] > 0 /\ starts[Base] <= 0
  BY <1>3 DEF FeedInv, Counted, Again
<1>5. starts[Base] \in Nat
  BY <1>3, PollerTypes DEF FeedInv
<1> QED BY <1>4, <1>5

\* A step that leaves the handlers alone, and the place of the poller in the log.
LEMMA StandsThere ==
  ASSUME NEW st, Stands(st), UNCHANGED <<log, db, Base, slot>> PROVE Stands(st)'
<1>1. /\ Base' = Base /\ Busy' = Busy /\ DbNow' = DbNow /\ slot' = slot /\ log' = log
      /\ dbText' = dbText /\ dbLikes' = dbLikes /\ group' = group
  BY DEF Busy, DbNow, db
<1>2. ASSUME NEW s \in Busy PROVE AtWork(st[Base - 1], s)'
  <2>1. AtWork(st[Base - 1], s)
    BY DEF Stands
  <2> QED BY <1>1, <2>1 DEF AtWork, Upd
<1> QED BY <1>1, <1>2 DEF Stands

LEMMA SerialPolls ==
  ASSUME FeedInv, SerialFeed, Poll \/ Boot \/ Shutdown \/ PollReturns \/ Exit \/ Crash
  PROVE  SerialFeed'
<1>1. /\ TypeOK /\ InOrder /\ cut \in Nat /\ faults \in Nat /\ Greater(Base, offset - 1) = Base
      /\ Greater(dropped, offset - 1) = Base
  <2>1. TypeOK /\ InOrder /\ cut \in Nat /\ faults \in Nat
    BY DEF FeedInv, TypeOK
  <2> QED BY <2>1, BaseIs, PollerTypes DEF Greater
<1>2. ASSUME UNCHANGED <<world, log, db, overlap>>, cut' \in {cut, cut + 1}, faults' \in {faults, faults + 1},
             cut' = 0 /\ faults' = 0 => \A st : Stands(st) => Stands(st)'
      PROVE  SerialFeed'
  <2>1. Ordered' => Ordered /\ cut' = 0 /\ faults' = 0
    BY <1>1, <1>2 DEF Ordered, Signed
  <2> QED BY <1>2, <2>1, SerialPoller DEF SerialSince
<1>3. CASE Poll
  <2>1. /\ UNCHANGED <<world, log, db, overlap, cut, slot>> /\ offset' = offset
        /\ faults' \in {faults, faults + 1}
    BY <1>3 DEF Poll, Fault, NoFault, history
  <2>2. dropped' = dropped \/ dropped' = Base
    BY <1>1, <1>3 DEF Poll, Passed
  <2>3. Base' = Base
    BY <1>1, <2>1, <2>2 DEF Base
  <2> QED BY <1>2, <2>1, <2>3, StandsThere
<1>4. CASE Boot
  <2>1. UNCHANGED <<world, log, dropped, db, overlap, cut, faults, slot>> /\ offset' = 0 /\ phase = "down"
    BY <1>4 DEF Boot, history, telegram
  <2>2. Base' = dropped
    BY <1>1, <2>1, PollerTypes DEF Base, Greater
  <2>3. cut = 0 => Base' = Base
    BY <2>1, <2>2, BootFromBase
  <2> QED BY <1>2, <2>1, <2>3, StandsThere
<1>5. CASE Shutdown \/ PollReturns
  <2>1. UNCHANGED <<world, log, dropped, db, overlap, cut, faults, slot, offset>>
    BY <1>5 DEF Shutdown, PollReturns, history, telegram
  <2>2. Base' = Base
    BY <2>1 DEF Base
  <2> QED BY <1>2, <2>1, <2>2, StandsThere
<1>6. CASE Exit
  <2>1. /\ UNCHANGED <<world, log, offset, db, overlap>> /\ Busy = {}
        /\ slot' = [s \in Slots |-> Free]
        /\ \/ dropped' = Base /\ cut' = cut /\ faults' = faults
           \/ cut' = cut + 1 /\ faults' = faults + 1
    BY <1>1, <1>6 DEF Exit, Confirm, Passed, NoFault, Fault, HandlersDone
  <2>2. cut' = 0 => Base' = Base
    BY <1>1, <2>1 DEF Base
  <2>3. Busy' = {}
    BY <1>1, <2>1, FreeType DEF Busy
  <2>4. ASSUME cut' = 0, NEW st, Stands(st) PROVE Stands(st)'
    <3>1. DbNow' = st[Base']
      BY <2>1, <2>2, <2>4 DEF Stands, DbNow, db
    <3> QED BY <2>3, <3>1 DEF Stands
  <2> QED BY <1>2, <2>1, <2>4
<1>7. CASE Crash
  <2>1. UNCHANGED <<world, log, db, overlap, faults>> /\ cut' = cut + 1
    BY <1>7 DEF Crash, telegram
  <2> QED BY <1>1, <1>2, <2>1
<1> QED BY <1>3, <1>4, <1>5, <1>6, <1>7

LEMMA SerialAccept ==
  ASSUME FeedInv, SerialFeed, NEW s \in Slots, Accept(s) PROVE SerialFeed'
<1>1. PICK n : n = Head(batch)
  OBVIOUS
<1> DEFINE x == [n |-> n, pc |-> FirstStep(log[n].kind), tries |-> 0]
<1>2. /\ batch # <<>> /\ slot[s].pc = "idle" /\ offset' = n + 1 /\ slot' = [slot EXCEPT ![s] = x]
      /\ UNCHANGED <<world, log, dropped, db, cut, faults>> /\ overlap' = (overlap \/ Busy # {})
  BY <1>1 DEF Accept, NextOffset, telegram
<1>3. TypeOK /\ InOrder
  BY DEF FeedInv
<1>4. n = Base + 1 /\ n \in 1..Len(log) /\ Base \in Nat /\ dropped <= Base /\ dropped \in Nat
  <2>1. batch \in Seq(1..Len(log)) /\ Len(batch) \in Nat \ {0}
    BY <1>2, <1>3, PollerTypes, EmptySeq
  <2>2. n = batch[1] /\ n \in 1..Len(log)
    BY <1>1, <1>2, <2>1
  <2>3. batch[1] = Base + 1
    BY <1>3, <2>1 DEF InOrder
  <2> QED BY <1>3, <2>2, <2>3, BaseIs, PollerTypes
<1>5. Base' = n
  <2>1. Greater(dropped, offset' - 1) = n
    BY <1>2, <1>4 DEF Greater
  <2> QED BY <1>2, <2>1 DEF Base
<1>6. FirstStep(log[n].kind) # "idle" /\ FirstStep(log[n].kind) # "save"
  <2>1. log \in Seq(Update)
    BY <1>3 DEF TypeOK
  <2>2. n \in 1..Len(log)
    BY <1>4
  <2>3. log[n] \in Update
    BY <2>1, <2>2
  <2>4. log[n].kind \in Kinds
    BY <2>3 DEF Update
  <2>5. FirstStep(log[n].kind) \in {"ensure", "edit", "delta", "totals", "pause", "getChat"}
    BY <2>4 DEF FirstStep, Kinds
  <2> QED BY <2>5
<1>7. slot'[s] = x /\ \A t \in Slots : t # s => slot'[t] = slot[t]
  BY <1>2, <1>3, PollerTypes
<1>8. slot'[s].n = n /\ slot'[s].pc = FirstStep(log[n].kind)
  BY <1>7
<1> HIDE DEF x
<1>9. Ordered' => Ordered /\ Busy = {}
  BY <1>2, Zenon DEF Ordered, Signed
<1>10. ASSUME Busy = {}, NEW st, Stands(st) PROVE Stands(st)'
  <2>1. PICK d : d = st[Base]
    OBVIOUS
  <2>2. dbText' = d.t /\ dbLikes' = d.l /\ group' = d.g
    BY <1>2, <1>10, <2>1 DEF Stands, DbNow, db
  <2>3. Busy' = {s}
    BY <1>6, <1>7, <1>8, <1>10 DEF Busy
  <2>4. Upd(s)' = log[n]
    BY <1>2, <1>8 DEF Upd
  <2>5. AtWork(d, s)'
    BY <1>6, <1>8, <2>2, <2>4 DEF AtWork
  <2>6. AtWork(st[Base - 1], s)'
    <3>1. (st[Base - 1])' = d
      BY <1>4, <1>5, <2>1
    <3> QED BY <2>5, <3>1 DEF AtWork
  <2>7. n > 0
    BY <1>4
  <2> QED BY <1>5, <1>8, <2>3, <2>6, <2>7 DEF Stands
<1> QED BY <1>2, <1>9, <1>10, SerialPoller DEF SerialSince

(***************************************************************************)
(* What the handlers do                                                    *)
(***************************************************************************)
\* A handler that nothing fails goes on with its work, or leaves the database the
\* update makes.
LEMMA HandlerSerial ==
  ASSUME FeedInv, NEW s \in Slots, Handle(s), faults' = faults, NEW d \in Db, AtWork(d, s),
         Upd(s).kind = "migrate" => Upd(s).arg = 1
  PROVE  \/ slot'[s].pc # "idle" /\ slot'[s].n = slot[s].n /\ AtWork(d, s)'
         \/ slot'[s].pc = "idle" /\ DbNow' = After(d, Upd(s))
<1>1. PICK u : u = Upd(s)
  OBVIOUS
<1>2. /\ slot \in [Slots -> SlotRecord] /\ faults \in Nat /\ slot[s].pc # "idle" /\ HandlerFrame
      /\ log' = log /\ slot[s].n \in 1..Len(log)
  BY HandlerMoves, PollerTypes DEF FeedInv, TypeOK, HandlerFrame, telegram, SlotsOK
<1>3. u.kind \in Kinds
  <2>1. log \in Seq(Update)
    BY DEF FeedInv, TypeOK
  <2>2. u \in Update
    BY <1>1, <1>2, <2>1 DEF Upd
  <2> QED BY <2>2 DEF Update
<1>4. ~Fault
  BY <1>2 DEF Fault
<1>5. /\ dbText = d.t /\ dbLikes = d.l
      /\ group = IF slot[s].pc = "save" THEN [d.g EXCEPT ![u.chat] = "active"] ELSE d.g
      /\ \/ slot[s].pc = FirstStep(u.kind)
         \/ slot[s].pc = "save" /\ u.kind = "message"
         \/ slot[s].pc = "move" /\ u.kind = "migrate"
  BY <1>1 DEF AtWork
<1>6. End(s) => slot'[s].pc = "idle"
  BY <1>2, FreeType DEF End, FeedInv
<1>7. \A l : Goto(s, l) => slot'[s].pc = l /\ slot'[s].n = slot[s].n
  BY <1>2 DEF Goto, SlotRecord
<1>8. ASSUME NEW l, Goto(s, l), dbText' = d.t, dbLikes' = d.l,
             group' = IF l = "save" THEN [d.g EXCEPT ![u.chat] = "active"] ELSE d.g,
             (l = "save" /\ u.kind = "message") \/ (l = "move" /\ u.kind = "migrate")
      PROVE  slot'[s].pc # "idle" /\ slot'[s].n = slot[s].n /\ AtWork(d, s)'
  <2>1. slot'[s].pc = l /\ slot'[s].n = slot[s].n
    BY <1>7, <1>8
  <2>2. Upd(s)' = u
    BY <1>1, <1>2, <2>1 DEF Upd
  <2>3. AtWork(d, s)'
    BY <1>8, <2>1, <2>2 DEF AtWork
  <2> QED BY <1>8, <2>1, <2>3
<1>9. ASSUME End(s), dbText' = TextAfter(d, u), dbLikes' = LikesAfter(d, u), group' = GroupAfter(d, u)
      PROVE  slot'[s].pc = "idle" /\ DbNow' = After(d, Upd(s))
  BY <1>1, <1>6, <1>9 DEF DbNow, After
<1>10. \A a, b : LastQuery(s, a, b) => a /\ End(s)
  BY <1>4, Zenon DEF LastQuery
<1>11. CASE Ensure(s)
  <2>1. /\ slot[s].pc = "ensure" /\ group' = [group EXCEPT ![u.chat] = "active"]
        /\ dbText' = dbText /\ dbLikes' = dbLikes
        /\ IF u.kind = "message" THEN Goto(s, "save") ELSE End(s)
    BY <1>1, <1>4, <1>11 DEF Ensure, At, Ensured
  <2>2. u.kind \in {"message", "service", "added"}
    BY <1>3, <1>5, <2>1 DEF FirstStep, Kinds
  <2>3. group = d.g
    BY <1>5, <2>1
  <2>4. CASE u.kind = "message"
    BY <1>5, <1>8, <2>1, <2>3, <2>4
  <2>5. CASE u.kind # "message"
    <3>1. TextAfter(d, u) = d.t /\ LikesAfter(d, u) = d.l
      BY <2>2, <2>5 DEF TextAfter, LikesAfter, Moves, Writes
    <3>2. GroupAfter(d, u) = [d.g EXCEPT ![u.chat] = "active"]
      BY <2>2 DEF GroupAfter, Moves
    <3> QED BY <1>5, <1>9, <2>1, <2>3, <2>5, <3>1, <3>2
  <2> QED BY <2>4, <2>5
<1>12. CASE Save(s)
  <2>1. /\ slot[s].pc = "save" /\ Insert(u.m, u.chat, u.arg) /\ End(s) /\ group' = group
    BY <1>1, <1>4, <1>12 DEF Save, At
  <2>2. u.kind = "message" /\ group = [d.g EXCEPT ![u.chat] = "active"]
    BY <1>3, <1>5, <2>1 DEF FirstStep, Kinds
  <2>3. ~Moves(d, u)
    BY <2>2 DEF Moves
  <2>4. GroupAfter(d, u) = [d.g EXCEPT ![u.chat] = "active"]
    BY <2>2, <2>3 DEF GroupAfter
  <2>5. LikesAfter(d, u) = d.l
    BY <2>2, <2>3 DEF LikesAfter
  <2>6. TextAfter(d, u) = IF HasRow(d, u) THEN d.t ELSE [d.t EXCEPT ![u.m][u.chat] = u.arg]
    BY <2>2, <2>3 DEF TextAfter, Writes
  <2>7. Row(u.m, u.chat) = HasRow(d, u)
    BY <1>5 DEF Row, HasRow
  <2>8. dbText' = TextAfter(d, u) /\ dbLikes' = d.l
    <3>1. CASE HasRow(d, u)
      BY <1>5, <2>1, <2>6, <2>7, <3>1 DEF Insert
    <3>2. CASE ~HasRow(d, u)
      BY <1>5, <2>1, <2>6, <2>7, <3>2 DEF Insert
    <3> QED BY <3>1, <3>2
  <2> QED BY <1>9, <2>1, <2>2, <2>4, <2>5, <2>8
<1>13. CASE EditRow(s)
  <2>1. /\ slot[s].pc = "edit" /\ End(s) /\ dbLikes' = dbLikes /\ group' = group
        /\ dbText' = IF Row(u.m, u.chat) /\ u.m \notin Media
                     THEN [dbText EXCEPT ![u.m][u.chat] = u.arg] ELSE dbText
    BY <1>1, <1>10, <1>13 DEF EditRow, At
  <2>2. u.kind = "edited_message" /\ group = d.g
    BY <1>3, <1>5, <2>1 DEF FirstStep, Kinds
  <2>3. ~Moves(d, u) /\ Row(u.m, u.chat) = HasRow(d, u)
    BY <1>5, <2>2 DEF Moves, Row, HasRow
  <2>4. GroupAfter(d, u) = d.g /\ LikesAfter(d, u) = d.l
    BY <2>2, <2>3 DEF GroupAfter, LikesAfter
  <2>5. TextAfter(d, u) = IF HasRow(d, u) /\ u.m \notin Media
                          THEN [d.t EXCEPT ![u.m][u.chat] = u.arg] ELSE d.t
    BY <2>2, <2>3 DEF TextAfter, Writes
  <2>6. dbText' = TextAfter(d, u)
    BY <1>5, <2>1, <2>3, <2>5
  <2> QED BY <1>5, <1>9, <2>1, <2>2, <2>4, <2>6
<1>14. CASE ApplyDelta(s)
  <2>1. /\ slot[s].pc = "delta" /\ End(s) /\ dbText' = dbText /\ group' = group
        /\ dbLikes' = IF Row(u.m, u.chat)
                      THEN [dbLikes EXCEPT ![u.m][u.chat] = DeltaOf(@, u.arg)] ELSE dbLikes
    BY <1>1, <1>10, <1>14 DEF ApplyDelta, At
  <2>2. u.kind = "message_reaction" /\ group = d.g
    BY <1>3, <1>5, <2>1 DEF FirstStep, Kinds
  <2>3. ~Moves(d, u) /\ Row(u.m, u.chat) = HasRow(d, u)
    BY <1>5, <2>2 DEF Moves, Row, HasRow
  <2>4. GroupAfter(d, u) = d.g /\ TextAfter(d, u) = d.t
    BY <2>2, <2>3 DEF GroupAfter, TextAfter, Writes
  <2>5. LikesAfter(d, u) = IF HasRow(d, u) THEN [d.l EXCEPT ![u.m][u.chat] = DeltaOf(@, u.arg)] ELSE d.l
    BY <2>2, <2>3 DEF LikesAfter
  <2>6. dbLikes' = LikesAfter(d, u)
    BY <1>5, <2>1, <2>3, <2>5
  <2> QED BY <1>5, <1>9, <2>1, <2>2, <2>4, <2>6
<1>15. CASE SyncAbsolute(s)
  <2>1. /\ slot[s].pc = "totals" /\ End(s) /\ dbText' = dbText /\ group' = group
        /\ dbLikes' = IF Row(u.m, u.chat) THEN [dbLikes EXCEPT ![u.m][u.chat] = u.arg] ELSE dbLikes
    BY <1>1, <1>10, <1>15 DEF SyncAbsolute, At
  <2>2. u.kind = "message_reaction_count" /\ group = d.g
    BY <1>3, <1>5, <2>1 DEF FirstStep, Kinds
  <2>3. ~Moves(d, u) /\ Row(u.m, u.chat) = HasRow(d, u)
    BY <1>5, <2>2 DEF Moves, Row, HasRow
  <2>4. GroupAfter(d, u) = d.g /\ TextAfter(d, u) = d.t
    BY <2>2, <2>3 DEF GroupAfter, TextAfter, Writes
  <2>5. LikesAfter(d, u) = IF HasRow(d, u) THEN [d.l EXCEPT ![u.m][u.chat] = u.arg] ELSE d.l
    BY <2>2, <2>3 DEF LikesAfter
  <2>6. dbLikes' = LikesAfter(d, u)
    BY <1>5, <2>1, <2>3, <2>5
  <2> QED BY <1>5, <1>9, <2>1, <2>2, <2>4, <2>6
<1>16. CASE Pause(s)
  <2>1. /\ slot[s].pc = "pause" /\ End(s) /\ dbText' = dbText /\ dbLikes' = dbLikes
        /\ group' = IF group[u.chat] = "none" THEN group ELSE [group EXCEPT ![u.chat] = "paused"]
    BY <1>1, <1>10, <1>16 DEF Pause, At
  <2>2. u.kind = "left" /\ group = d.g
    BY <1>3, <1>5, <2>1 DEF FirstStep, Kinds
  <2>3. TextAfter(d, u) = d.t /\ LikesAfter(d, u) = d.l
    BY <2>2 DEF TextAfter, LikesAfter, Moves, Writes
  <2>4. GroupAfter(d, u) = IF d.g[u.chat] = "none" THEN d.g ELSE [d.g EXCEPT ![u.chat] = "paused"]
    BY <2>2 DEF GroupAfter, Moves
  <2> QED BY <1>5, <1>9, <2>1, <2>2, <2>3, <2>4
<1>17. CASE GetChat(s)
  <2>1. slot[s].pc = "getChat" /\ Goto(s, "move") /\ dbText' = dbText /\ dbLikes' = dbLikes /\ group' = group
    BY <1>4, <1>17 DEF GetChat, At, db
  <2>2. u.kind = "migrate" /\ group = d.g
    BY <1>3, <1>5, <2>1 DEF FirstStep, Kinds
  <2> QED BY <1>5, <1>8, <2>1, <2>2
<1>18. CASE Move(s)
  <2>1. slot[s].pc = "move" /\ End(s) /\ MoveGroup(u.arg)
    BY <1>1, <1>10, <1>18 DEF Move, At
  <2>2. u.kind = "migrate" /\ group = d.g
    BY <1>3, <1>5, <2>1 DEF FirstStep, Kinds
  <2>3. IF Movable
        THEN /\ group' = Rekeyed(group, "none")
             /\ dbText' = [m \in Msgs |-> Rekeyed(dbText[m], 0)]
             /\ dbLikes' = [m \in Msgs |-> Rekeyed(dbLikes[m], 0)]
        ELSE UNCHANGED db
    BY <1>1, <2>1, <2>2 DEF MoveGroup, KnownWith
  <2>4. Movable <=> Moves(d, u)
    BY <2>2 DEF Movable, Moves
  <2>5. CASE Moves(d, u)
    BY <1>5, <1>9, <2>1, <2>2, <2>3, <2>4, <2>5 DEF TextAfter, LikesAfter, GroupAfter
  <2>6. CASE ~Moves(d, u)
    <3>1. TextAfter(d, u) = d.t /\ LikesAfter(d, u) = d.l
      BY <2>2, <2>6 DEF TextAfter, LikesAfter, Writes
    <3>2. GroupAfter(d, u) = d.g
      BY <2>2, <2>6 DEF GroupAfter
    <3> QED BY <1>5, <1>9, <2>1, <2>2, <2>3, <2>4, <2>6, <3>1, <3>2 DEF db
  <2> QED BY <2>5, <2>6
<1> QED BY <1>11, <1>12, <1>13, <1>14, <1>15, <1>16, <1>17, <1>18 DEF Handle

LEMMA SerialHandle ==
  ASSUME FeedInv, SerialFeed, NEW s \in Slots, Handle(s) PROVE SerialFeed'
<1>1. /\ UNCHANGED <<world, log, dropped, offset, overlap, cut>> /\ faults' \in {faults, faults + 1}
      /\ faults \in Nat /\ slot[s].pc # "idle" /\ slot[s].n \in 1..Len(log)
      /\ \A t \in Slots : t # s => slot'[t] = slot[t]
  <2>1. /\ HandlerFrame /\ faults' \in {faults, faults + 1} /\ slot[s].pc # "idle"
        /\ slot \in [Slots -> SlotRecord] /\ faults \in Nat
    BY HandlerMoves, PollerTypes DEF FeedInv, TypeOK
  <2>2. \A t \in Slots : t # s => slot'[t] = slot[t]
    BY <2>1, HandlerMoves DEF End
  <2> QED BY <2>1, <2>2 DEF HandlerFrame, telegram, FeedInv, SlotsOK
<1>2. SUFFICES ASSUME Ordered' PROVE \E st : SerialSince(st)'
  BY DEF SerialFeed, SerialSince
<1>3. Ordered /\ faults' = faults
  BY <1>1, <1>2 DEF Ordered, Signed
<1>4. PICK st : SerialSince(st)
  BY <1>3 DEF SerialFeed, SerialSince
<1>5. s \in Busy /\ Busy = {s} /\ slot[s].n = Base /\ Base > 0
  BY <1>1, <1>4 DEF SerialSince, Stands, Busy
<1>6. Base' = Base /\ Base \in 1..Len(log) /\ Base - 1 \in 0..Len(log)
  BY <1>1, <1>5 DEF Base
<1>7. PICK d : d = st[Base - 1]
  OBVIOUS
<1>8. d \in Db /\ AtWork(d, s)
  <2>1. d \in Db
    BY <1>4, <1>6, <1>7 DEF SerialSince, Replays
  <2>2. AtWork(st[Base - 1], s)
    BY <1>4, <1>5 DEF SerialSince, Stands
  <2> QED BY <1>7, <2>1, <2>2
<1>9. Upd(s) = log[Base] /\ (Upd(s).kind = "migrate" => Upd(s).arg = 1)
  BY <1>3, <1>5, <1>6 DEF Upd, Ordered, Signed
<1>10. st[Base] = After(d, log[Base])
  BY <1>4, <1>6, <1>7 DEF SerialSince, Replays
<1>11. \/ slot'[s].pc # "idle" /\ slot'[s].n = slot[s].n /\ AtWork(d, s)'
       \/ slot'[s].pc = "idle" /\ DbNow' = st[Base]
  BY <1>3, <1>8, <1>9, <1>10, HandlerSerial
<1>12. \A t \in Slots : t # s => slot'[t].pc = "idle"
  BY <1>1, <1>5 DEF Busy
<1>13. Stands(st)'
  <2>1. CASE slot'[s].pc # "idle" /\ slot'[s].n = slot[s].n /\ AtWork(d, s)'
    <3>1. Busy' = {s}
      BY <1>12, <2>1 DEF Busy
    <3>2. (st[Base - 1])' = d
      BY <1>6, <1>7
    <3>3. AtWork(st[Base - 1], s)'
      BY <2>1, <3>2 DEF AtWork
    <3> QED BY <1>5, <1>6, <2>1, <3>1, <3>3 DEF Stands
  <2>2. CASE slot'[s].pc = "idle" /\ DbNow' = st[Base]
    <3>1. Busy' = {}
      BY <1>12, <2>2 DEF Busy
    <3> QED BY <1>6, <2>2, <3>1 DEF Stands
  <2> QED BY <1>11, <2>1, <2>2
<1>14. Mirrors(st[Len(log)])'
  BY <1>1, <1>4 DEF SerialSince, Mirrors, MirrorsGroup, MirrorsMsg, world
<1>15. Replays(st, log)'
  BY <1>1, <1>4 DEF SerialSince
<1> QED BY <1>13, <1>14, <1>15 DEF SerialSince

LEMMA SerialInit == Init => SerialFeed
<1> SUFFICES ASSUME Init PROVE \E st : Replays(st, log) /\ Mirrors(st[Len(log)]) /\ Stands(st)
  BY DEF SerialFeed
<1> DEFINE st == [n \in {0} |-> FirstDb]
<1>1. log = <<>> /\ Len(log) = 0 /\ st[0] = FirstDb
  BY EmptySeq DEF Init
<1>2. FirstDb \in Db
  BY DEF FirstDb, Db, NoRows, Table
<1>3. DbNow = FirstDb /\ Base = 0 /\ Busy = {}
  BY DEF Init, DbNow, FirstDb, NoRows, Base, Greater, Busy, Free
<1>4. Mirrors(FirstDb)
  <2>1. MirrorsGroup(FirstDb)
    BY DEF Init, MirrorsGroup, FirstDb, Other, Chats
  <2>2. \A m \in Msgs : MirrorsMsg(FirstDb, m)
    BY DEF Init, MirrorsMsg, FirstDb, NoRows, Other, Chats
  <2> QED BY <2>1, <2>2 DEF Mirrors
<1> HIDE DEF st
<1>5. Replays(st, log)
  BY <1>1, <1>2 DEF Replays
<1>6. Stands(st)
  BY <1>1, <1>3 DEF Stands
<1> QED BY <1>1, <1>4, <1>5, <1>6

LEMMA SerialStep == FeedInv /\ SerialFeed /\ [Next]_vars => SerialFeed'
<1> SUFFICES ASSUME FeedInv, SerialFeed, [Next]_vars PROVE SerialFeed'
  OBVIOUS
<1>1. CASE (\E m \in Msgs : Post(m) \/ EditText(m) \/ React(m)) \/ Membership \/ Upgrade
  BY <1>1, SerialTold
<1>2. CASE Poll \/ Boot \/ Shutdown \/ PollReturns \/ Exit \/ Crash
  BY <1>2, SerialPolls
<1>3. CASE \E s \in Slots : Accept(s) \/ Handle(s)
  BY <1>3, SerialAccept, SerialHandle
<1>4. CASE UNCHANGED vars
  <2>1. UNCHANGED <<world, log, dropped, offset, slot, db, overlap, cut, faults>>
    BY <1>4 DEF vars, telegram, process, history
  <2>2. (Ordered' => Ordered) /\ Base' = Base
    BY <2>1 DEF Ordered, Signed, Base
  <2>3. \A st : SerialSince(st) => Stands(st)'
    BY <2>1, <2>2, StandsThere DEF SerialSince
  <2> QED BY <2>1, <2>2, <2>3, SerialPoller
<1> QED BY <1>1, <1>2, <1>3, <1>4 DEF Next

\* All is handled, without failures and one update at a time: the database is then the
\* whole log, so it is what the members see.
LEMMA SettledMirrors ==
  ASSUME FeedInv, SerialFeed PROVE SerialIsFaithful
<1> SUFFICES ASSUME Settled, ~overlap, \A n \in 1..Len(log) : log[n].kind = "migrate" => log[n].arg = 1
             PROVE  /\ group[chat] = IF member THEN "active" ELSE "paused"
                    /\ chat = "new" => group["old"] = "none" /\ \A m \in Msgs : ~Row(m, "old")
                    /\ \A m \in Msgs : posted[m] # "none" =>
                         /\ dbText[m][chat] = IF m \in Media THEN 1 ELSE text[m]
                         /\ dbLikes[m][chat] = likes[m]
  BY DEF SerialIsFaithful
<1>1. /\ phase = "up" /\ Busy = {} /\ cut = 0 /\ faults = 0
      /\ \A n \in 1..Len(log) : ends[n] > 0
  BY DEF Settled
<1>2. PICK st : Mirrors(st[Len(log)]) /\ Stands(st)
  BY <1>1 DEF SerialFeed, Ordered, Signed
<1>3. Base \in 0..Len(log) /\ Len(log) \in Nat /\ Len(log) <= MaxUpdates /\ MaxUpdates \in Nat
  BY BaseIs, PollerTypes, UpdateFeedAssumption DEF FeedInv, LogOK
<1>4. Base = Len(log)
  <2> SUFFICES ASSUME Base # Len(log) PROVE FALSE
    OBVIOUS
  <2> DEFINE k == Len(log)
  <2>1. k \in 1..Len(log) /\ k \in 1..MaxUpdates /\ k > Base
    BY <1>3
  <2> HIDE DEF k
  <2>2. starts[k] <= 0 /\ starts[k] \in Nat /\ ends[k] > 0
    BY <1>1, <2>1, PollerTypes DEF FeedInv, Counted, Again
  <2>3. ~Handled(k)
    BY <1>1 DEF Handled, Busy
  <2>4. ends[k] = starts[k]
    BY <1>1, <2>1, <2>3 DEF FeedInv, EndsOnce
  <2> QED BY <2>2, <2>4
<1>5. DbNow = st[Len(log)]
  BY <1>1, <1>2, <1>4 DEF Stands
<1>6. Mirrors(DbNow)
  BY <1>2, <1>5
<1>7. DbNow.t = dbText /\ DbNow.l = dbLikes /\ DbNow.g = group
  BY DEF DbNow
<1>8. chat \in Chats
  BY DEF FeedInv, TypeOK
<1>9. MirrorsGroup(DbNow) /\ \A m \in Msgs : MirrorsMsg(DbNow, m)
  BY <1>6 DEF Mirrors
<1>10. group[chat] = IF member THEN "active" ELSE "paused"
  BY <1>7, <1>9 DEF MirrorsGroup
<1>11. chat = "new" => group["old"] = "none" /\ \A m \in Msgs : ~Row(m, "old")
  BY <1>7, <1>9 DEF MirrorsGroup, MirrorsMsg, Other, Row
<1>12. ASSUME NEW m \in Msgs, posted[m] # "none"
       PROVE  dbText[m][chat] = (IF m \in Media THEN 1 ELSE text[m]) /\ dbLikes[m][chat] = likes[m]
  BY <1>7, <1>9, <1>12 DEF MirrorsMsg
<1> QED BY <1>10, <1>11, <1>12

\* Handled one at a time and without failures, the updates give the database what the
\* members see, whatever they did, however the updates were batched and however often
\* the process was stopped between them.
THEOREM SerialAlwaysFaithful == Spec => []SerialIsFaithful
<1>1. Init => FeedInv /\ SerialFeed
  BY FeedInit, SerialInit
<1>2. (FeedInv /\ SerialFeed) /\ [Next]_vars => (FeedInv /\ SerialFeed)'
  BY FeedStep, SerialStep
<1>3. FeedInv /\ SerialFeed => SerialIsFaithful
  BY SettledMirrors
<1> QED BY <1>1, <1>2, <1>3, PTL DEF Spec
=============================================================================
