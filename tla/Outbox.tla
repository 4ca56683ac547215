------------------------------- MODULE Outbox -------------------------------
(***************************************************************************)
(* What the bot sends by itself: internal/telegram/client.go.  A post is   *)
(* repeated while Telegram answers 429, and its last error must tell the   *)
(* scheduler whether the post may be out.  Alerts to the developers are    *)
(* held back by key; a small map remembers the keys.                       *)
(***************************************************************************)
EXTENDS Integers, FiniteSets

CONSTANTS
  Sends,          \* posts that are under way
  FloodAttempts,  \* floodAttempts
  AlertKeys,      \* keys of alerts
  MaxAlertKeys,   \* maxAlertKeys
  AlertCooldown   \* alertCooldown, in ticks

ASSUME OutboxAssumption ==
  /\ FloodAttempts \in Nat \ {0} /\ MaxAlertKeys \in Nat \ {0} /\ AlertCooldown \in Nat \ {0}
  /\ IsFiniteSet(AlertKeys)

VARIABLES
  post,     \* the posts; history: how often Telegram posted it (delivered), and
            \* whether an answer left that open (open)
  alerted,  \* Client.alerted: how long ago the alert of a key was allowed
  quiet     \* history: how long ago a key was last alerted, at most AlertCooldown

outboxVars == <<post, alerted, quiet>>

OutboxInit ==
  /\ post = [s \in Sends |-> [pc |-> "idle", attempt |-> 1, alive |-> TRUE,
                              delivered |-> 0, open |-> FALSE, error |-> "none"]]
  /\ alerted = [k \in {} |-> 0]
  /\ quiet = [k \in AlertKeys |-> AlertCooldown]

-----------------------------------------------------------------------------
(* One attempt: the message, 429, another 4xx, an error of the server, no   *)
(* answer or one that cannot be read.  Only the last two leave it open      *)
(* whether Telegram posted the message.                                     *)
Answers == {"none", "flood", "refused", "server", "lost"}
Deliveries(o) ==
  CASE o = "none" -> {1}
    [] o \in {"server", "lost"} -> {0, 1}
    [] OTHER -> {0}

\* Mutant: an error of the server is waited out like a flood.
FloodOrServer(o) == o \in {"flood", "server"}

\* floodDelay: found by type, also when a context error is joined to it.
Flood(o) == o = "flood"

\* Mutant: only a lost answer leaves the outcome open.
UnknownIfLost(o) == o = "lost"

\* OutcomeUnknown, asked of the error that withFloodRetry returned.
OutcomeUnknown(o) == o \in {"server", "lost"}

Send(s) ==
  /\ post[s].pc = "idle"
  /\ post' = [post EXCEPT ![s].pc = "sending"]
  /\ UNCHANGED <<alerted, quiet>>

\* withFloodRetry, after one attempt with the answer o that made n messages.
After(p, o, n) ==
  [p EXCEPT !.pc = IF Flood(o) /\ p.attempt < FloodAttempts /\ p.alive
                   THEN "waiting" ELSE "done",
            !.delivered = @ + n,
            !.open = @ \/ Deliveries(o) = {0, 1},
            !.error = o]

Attempt(s) ==
  /\ post[s].pc = "sending"
  /\ \E o \in Answers : \E n \in Deliveries(o) :
       post' = [post EXCEPT ![s] = After(post[s], o, n)]
  /\ UNCHANGED <<alerted, quiet>>

WaitOver(s) ==
  /\ post[s].pc = "waiting"
  /\ post' = [post EXCEPT ![s].pc = "sending", ![s].attempt = @ + 1]
  /\ UNCHANGED <<alerted, quiet>>

\* The context of the caller ended: its error is joined to the 429.
WaitCut(s) ==
  /\ post[s].pc = "waiting" /\ ~post[s].alive
  /\ post' = [post EXCEPT ![s].pc = "done"]
  /\ UNCHANGED <<alerted, quiet>>

Deadline(s) ==
  /\ post[s].pc \in {"sending", "waiting"} /\ post[s].alive
  /\ post' = [post EXCEPT ![s].alive = FALSE]
  /\ UNCHANGED <<alerted, quiet>>

-----------------------------------------------------------------------------
Held(k) == k \in DOMAIN alerted /\ alerted[k] < AlertCooldown
Kept(keys) == [k \in keys |-> alerted[k]]
Hot == {k \in DOMAIN alerted : Held(k)}
Oldest == {k \in Hot : \A j \in Hot : alerted[j] <= alerted[k]}

\* Mutant: a full map is emptied.
PruneAll == {{}}

\* pruneAlerts: the keys that are quiet again go, then one of the oldest.
PruneAlerts ==
  IF Cardinality(Hot) < MaxAlertKeys THEN {Hot} ELSE {Hot \ {k} : k \in Oldest}

\* Alert, with allowAlert: a key that is held back sends nothing.
Alert(k) ==
  /\ ~Held(k)
  /\ \E keys \in IF Cardinality(DOMAIN alerted) >= MaxAlertKeys
                 THEN PruneAlerts ELSE {DOMAIN alerted} :
       alerted' = [j \in keys \cup {k} |-> IF j = k THEN 0 ELSE alerted[j]]
  /\ quiet' = [quiet EXCEPT ![k] = 0]
  /\ UNCHANGED post

Older(age) == IF age < AlertCooldown THEN age + 1 ELSE age
OutboxTick ==
  /\ \E k \in AlertKeys : quiet[k] < AlertCooldown
  /\ alerted' = [k \in DOMAIN alerted |-> Older(alerted[k])]
  /\ quiet' = [k \in AlertKeys |-> Older(quiet[k])]
  /\ UNCHANGED post

OutboxNext ==
  \/ \E s \in Sends : Send(s) \/ Attempt(s) \/ WaitOver(s) \/ WaitCut(s) \/ Deadline(s)
  \/ \E k \in AlertKeys : Alert(k)
  \/ OutboxTick

OutboxSpec == OutboxInit /\ [][OutboxNext]_outboxVars

-----------------------------------------------------------------------------
(***************************************************************************)
(* Properties                                                              *)
(***************************************************************************)
\* "A definite refusal was not" delivered, anything else may have been
\* (client.go:315): whatever the attempts of one post came back with, and wherever the
\* deadline fell, a post that is reported as refused is not in the chat, and one is
\* reported as unknown only when an answer really left it open.
RefusedMeansNotPosted ==
  \A s \in Sends :
    post[s].pc = "done" /\ post[s].error # "none" =>
      /\ OutcomeUnknown(post[s].error) <=> post[s].open
      /\ post[s].delivered > 0 => OutcomeUnknown(post[s].error)

\* The attempts of one post never put it into the chat twice: only an answer that
\* proves that nothing was posted is followed by another attempt.
PostedAtMostOnce == \A s \in Sends : post[s].delivered <= 1

\* What the scheduler relies on: a post is in the chat once, or not at all, or its
\* outcome is reported as unknown.
PostsAreHonest == RefusedMeansNotPosted /\ PostedAtMostOnce

\* The map of the alerts is bounded ("so the map cannot grow without bound"), and the
\* bound costs as little as it can: an alert is repeated within its cooldown only when
\* at least as many other keys as the map holds were alerted since.
QuietUnlessCrowded ==
  [][/\ Cardinality(DOMAIN alerted') <= MaxAlertKeys
     /\ \A k \in AlertKeys :
          quiet'[k] = 0 /\ quiet[k] # 0 /\ quiet[k] < AlertCooldown =>
            Cardinality({j \in AlertKeys \ {k} : quiet[j] <= quiet[k]}) >= MaxAlertKeys
    ]_outboxVars
=============================================================================
