------------------------------- MODULE Answers -------------------------------
(***************************************************************************)
(* From the day's messages and the model's answer to the quote and the     *)
(* report: internal/ai/parse.go, internal/scoring/scoring.go and the score *)
(* rows of internal/scheduler/pgreports.go.  The answer is JSON that       *)
(* nobody can trust; a value of it is a token.  Scores are in twentieths.  *)
(***************************************************************************)
EXTENDS Integers, Sequences, FiniteSets, Functions

CONSTANTS
  Sources,      \* windows: sequences of [id, sticker, tagged], oldest first
  Replies,      \* answers: [good, entries, quote]
  MaxMessages,  \* maxMessages of Prepare
  MaxContext    \* scoring.MaxContext

(* A token is a number or a string of digits, in halves, a number out of    *)
(* the range of ids, or nothing that can be read ("none", also if absent).  *)
Tokens == [type : {"number", "text", "huge", "none"}, half : Int]
Message == [id : Nat \ {0}, sticker : BOOLEAN, tagged : BOOLEAN]
Entry == [id : Tokens, score : Tokens]
Choice == [primary : Tokens, context : Seq(Tokens), needed : BOOLEAN]

\* The ids of messages count from 1 (bigserial), and an answer has one quote or none.
ASSUME AnswersAssumption ==
  /\ MaxMessages \in Nat \ {0}
  /\ MaxContext \in Nat \ {0}
  /\ Sources \subseteq Seq(Message)
  /\ Replies \subseteq [good : BOOLEAN, entries : Seq(Entry), quote : SUBSET Choice]
  /\ \A r \in Replies : \A p, q \in r.quote : p = q

VARIABLES
  source,  \* the messages of the window
  reply,   \* the answer of the model
  stage,   \* "asked", "failed", "parsed", "picked", "recorded"
  day,     \* Day.Messages
  result,  \* the parsed answer: scores and quote
  picked,  \* the quote, its score and its context
  rows     \* the score rows of the report

answersVars == <<source, reply, stage, day, result, picked, rows>>

Ids(msgs) == {msgs[i].id : i \in DOMAIN msgs}
NoPick == [best |-> {}, score |-> 0, context |-> <<>>]

\* What s holds at the places of K, in their order.
SelectAt(s, K) ==
  [n \in 1..Cardinality(K) |-> s[CHOOSE k \in K : Cardinality({j \in K : j < k}) = n - 1]]

\* Prepare: the bot's own posts are left out, then the newest are kept.
Prepare(msgs) ==
  LET kept == SelectAt(msgs, {i \in DOMAIN msgs : ~msgs[i].tagged}) IN
  IF Len(kept) > MaxMessages THEN SubSeq(kept, Len(kept) - MaxMessages + 1, Len(kept)) ELSE kept

AnswersInit ==
  /\ source \in Sources /\ reply \in Replies
  /\ stage = "asked"
  /\ day = Prepare(source)
  /\ result = [scores |-> <<>>, quote |-> {}]
  /\ picked = NoPick
  /\ rows = <<>>

-----------------------------------------------------------------------------
Half(h) == IF h >= 0 THEN h \div 2 ELSE -((-h) \div 2)

\* parseIntLike: a fraction is cut toward zero, but only outside quotes.
IntLike(t) ==
  IF t.type = "number" \/ (t.type = "text" /\ t.half % 2 = 0) THEN {Half(t.half)} ELSE {}
Unreadable(t) == IntLike(t) = {} /\ t.type # "huge"

\* parseFloatLike, clamped to 0..10 and divided by 10.
ScoreLike(t) ==
  CASE t.type \in {"number", "text"} ->
         {CASE t.half < 0 -> 0 [] t.half > 20 -> 20 [] OTHER -> t.half}
    [] t.type = "huge" -> {20}
    [] OTHER -> {}

Position(scores, id) == {i \in DOMAIN scores : scores[i].id = id}

\* Mutant: an id that comes twice keeps its first score.
KeepFirst(scores, id, v) ==
  IF Position(scores, id) # {} THEN scores ELSE Append(scores, [id |-> id, value |-> v])

\* An id that comes twice keeps its first position and its last score.
KeepLast(scores, id, v) ==
  IF Position(scores, id) # {}
  THEN [i \in DOMAIN scores |-> [scores[i] EXCEPT !.value = IF scores[i].id = id THEN v ELSE @]]
  ELSE Append(scores, [id |-> id, value |-> v])

\* normalizeScores: one entry that cannot be read fails the answer, unless its id is
\* not one of the request.
TakeEntry(msgs, acc, e) ==
  LET known == IntLike(e.id) \cap Ids(msgs) IN
  CASE ~acc.ok \/ (known = {} /\ ~Unreadable(e.id)) -> acc
    [] acc.ok /\ known # {} /\ ScoreLike(e.score) # {} ->
         [acc EXCEPT !.scores = KeepLast(@, CHOOSE i \in known : TRUE,
                                            CHOOSE v \in ScoreLike(e.score) : TRUE)]
    [] OTHER -> [acc EXCEPT !.ok = FALSE]
NormalizeScores(msgs, entries) ==
  LET norm[n \in 0..Len(entries)] ==
        IF n = 0 THEN [ok |-> TRUE, scores |-> <<>>] ELSE TakeEntry(msgs, norm[n - 1], entries[n])
  IN norm[Len(entries)]

\* parseQuote: what cannot be read inside the block is dropped; 0 is no pick.
ParseQuote(q) ==
  LET readable == SelectAt(q.context, {i \in DOMAIN q.context : IntLike(q.context[i]) # {}}) IN
  [primary |-> IF IntLike(q.primary) = {} THEN 0 ELSE Half(q.primary.half),
   context |-> [i \in DOMAIN readable |-> Half(readable[i].half)],
   needed |-> q.needed]

ParsedAnswer(msgs, answer) ==
  [scores |-> NormalizeScores(msgs, answer.entries).scores,
   quote |-> {ParseQuote(q) : q \in answer.quote}]

\* parseEvaluation.  good stands for the document, its day block and its list.
ParseEvaluation ==
  /\ stage = "asked"
  /\ IF reply.good /\ NormalizeScores(day, reply.entries).ok
     THEN /\ stage' = "parsed"
          /\ result' = ParsedAnswer(day, reply)
     ELSE /\ stage' = "failed"
          /\ UNCHANGED result
  /\ UNCHANGED <<source, reply, day, picked, rows>>

-----------------------------------------------------------------------------
Sticker(msgs, id) == \E i \in DOMAIN msgs : msgs[i].id = id /\ msgs[i].sticker
Eligible(msgs) == {id \in Ids(msgs) : ~Sticker(msgs, id)}

\* The highest score of a message that can be the quote; a tie goes to the first.
Fallback(msgs, s) ==
  LET of == {i \in DOMAIN s : s[i].id \in Eligible(msgs)}
  IN {s[i].id : i \in {i \in of : \A j \in of : s[j].value < s[i].value
                                                  \/ (s[j].value = s[i].value /\ i <= j)}}

ValidPrimary(msgs, quote) == {q.primary : q \in quote} \cap Eligible(msgs)

\* dedupe: the places where an id comes first.
Firsts(ids) == {i \in DOMAIN ids : \A j \in 1..(i - 1) : ids[j] # ids[i]}

\* Mutant: the window starts two before the quote and is cut at the end.
CutAtEnd(selected, best) ==
  LET idx == CHOOSE i \in DOMAIN selected : selected[i] = best
      start == IF idx - MaxContext \div 2 < 1 THEN 1 ELSE idx - MaxContext \div 2
  IN IF Len(selected) <= MaxContext THEN selected
     ELSE SubSeq(selected, start, IF start + MaxContext - 1 > Len(selected)
                                  THEN Len(selected) ELSE start + MaxContext - 1)

\* limitContext: the quote near the middle, the window inside the selection.
LimitContext(selected, best) ==
  LET idx == CHOOSE i \in DOMAIN selected : selected[i] = best
      last == Len(selected) - MaxContext + 1
      start == CASE idx - MaxContext \div 2 < 1 -> 1
                 [] idx - MaxContext \div 2 > last -> last
                 [] OTHER -> idx - MaxContext \div 2
  IN IF Len(selected) <= MaxContext THEN selected
     ELSE SubSeq(selected, start, start + MaxContext - 1)

\* The messages the model chose, with the quote at the end if it was left out.
Selection(msgs, q, best) ==
  LET chosen == SelectAt(q.context, {i \in Firsts(q.context) : q.context[i] \in Ids(msgs)}) IN
  IF best \in Range(chosen) THEN chosen ELSE Append(chosen, best)

\* validContext.
ValidContext(msgs, quote, best) ==
  IF \E q \in quote : q.context # <<>> \/ q.needed
  THEN LET q == CHOOSE q \in quote : TRUE IN LimitContext(Selection(msgs, q, best), best)
  ELSE <<>>

Best(msgs, res) ==
  IF ValidPrimary(msgs, res.quote) # {} THEN ValidPrimary(msgs, res.quote)
                                        ELSE Fallback(msgs, res.scores)

\* The score of a message; absent stands for the score of one the model did not list.
ScoreOf(scores, id, absent) ==
  LET at == Position(scores, id) IN
  IF at = {} THEN absent ELSE scores[CHOOSE i \in at : TRUE].value

\* Pick.  The score of a quote that the model did not score is neutral, 0.5.
Picked(msgs, res) ==
  IF Best(msgs, res) = {} THEN NoPick
  ELSE LET id == CHOOSE i \in Best(msgs, res) : TRUE
       IN [best |-> Best(msgs, res),
           score |-> ScoreOf(res.scores, id, 10),
           context |-> ValidContext(msgs, res.quote, id)]

Pick ==
  /\ stage = "parsed"
  /\ stage' = "picked"
  /\ picked' = Picked(day, result)
  /\ UNCHANGED <<source, reply, day, result, rows>>

-----------------------------------------------------------------------------
InContext(quote, id) == \E q \in quote : id \in Range(q.context)

\* The messages that come before msgs[i] by score, and by position among equal ones.
Above(scores, msgs, i) ==
  {j \in DOMAIN msgs :
     \/ ScoreOf(scores, msgs[j].id, 0) > ScoreOf(scores, msgs[i].id, 0)
     \/ ScoreOf(scores, msgs[j].id, 0) = ScoreOf(scores, msgs[i].id, 0) /\ j < i}

\* Mutant: only scored messages are recorded.
RecordedScored(res, pick, m) == Position(res.scores, m.id) # {}

\* Scored, the quote, or chosen as context.
Recorded(res, pick, m) ==
  Position(res.scores, m.id) # {} \/ m.id \in pick.best \/ InContext(res.quote, m.id)

\* scoreRows.
RowsOf(msgs, res, pick) ==
  LET kept == SelectAt(msgs, {i \in DOMAIN msgs : Recorded(res, pick, msgs[i])}) IN
  [i \in DOMAIN kept |->
     [id |-> kept[i].id,
      score |-> ScoreOf(res.scores, kept[i].id, 0),
      rank |-> Cardinality(Above(res.scores, kept, i)) + 1,
      primary |-> kept[i].id \in pick.best,
      inContext |-> InContext(res.quote, kept[i].id)]]

ScoreRows ==
  /\ stage = "picked"
  /\ stage' = "recorded"
  /\ rows' = RowsOf(day, result, picked)
  /\ UNCHANGED <<source, reply, day, result, picked>>

AnswersNext == ParseEvaluation \/ Pick \/ ScoreRows

AnswersSpec == AnswersInit /\ [][AnswersNext]_answersVars

-----------------------------------------------------------------------------
(***************************************************************************)
(* Properties                                                              *)
(***************************************************************************)
\* What the answer says of a message: the last score it lists, the first place.
Listed(entries, id) == {i \in DOMAIN entries : IntLike(entries[i].id) = {id}}
FirstAt(entries, id) ==
  CHOOSE i \in Listed(entries, id) : \A j \in Listed(entries, id) : i <= j
LastAt(entries, id) ==
  CHOOSE i \in Listed(entries, id) : \A j \in Listed(entries, id) : j <= i
LastScore(entries, id) == CHOOSE v \in ScoreLike(entries[LastAt(entries, id)].score) : TRUE

\* The id the answer asks for, if it can be the quote.
Wished(msgs, answer) == (UNION {IntLike(q.primary) : q \in answer.quote}) \cap Eligible(msgs)
Candidates(msgs, answer) == {id \in Eligible(msgs) : Listed(answer.entries, id) # {}}

\* other comes after id: a lower score, or the same and a later first place.
Behind(entries, other, id) ==
  \/ LastScore(entries, other) < LastScore(entries, id)
  \/ /\ LastScore(entries, other) = LastScore(entries, id)
     /\ FirstAt(entries, id) < FirstAt(entries, other)

\* The quote of the day ("the model's own pick wins when it is a message of the day and
\* not a sticker; otherwise the highest score, and on a tie the one the model listed
\* first", scoring.go:208), read off the raw answer: whatever ids it repeats or invents
\* and however it writes its numbers, also when the day was cut to its newest messages.
BestOfAnswer(msgs, answer, best) ==
  LET wished == Wished(msgs, answer) IN
  /\ wished # {} => best = wished
  /\ wished = {} => \A id \in best :
       /\ id \in Candidates(msgs, answer)
       /\ \A other \in Candidates(msgs, answer) \ {id} : Behind(answer.entries, other, id)
  /\ best = {} <=> wished \cup Candidates(msgs, answer) = {}
QuoteIsBest == stage \in {"picked", "recorded"} => BestOfAnswer(day, reply, picked.best)

\* The context shows the quote: a context that is not empty contains the quote once, no
\* message twice and none from outside the day, is as long as the limit allows, and has
\* two messages before the quote when the model chose that many (scoring.go:300).
Shows(msgs, full, context, id) ==
  LET At(s) == {i \in DOMAIN s : s[i] = id}
      Before(s) == CHOOSE n \in 0..Len(s) : n + 1 \in At(s)
  IN /\ Cardinality(At(context)) = 1
     /\ Range(context) \subseteq Ids(msgs)
     /\ IsInjective(context)
     /\ Len(context) = IF Len(full) > MaxContext THEN MaxContext ELSE Len(full)
     /\ Before(context) < MaxContext \div 2 => Before(context) = Before(full)
     /\ \E k \in 0..Len(full) : \A i \in DOMAIN context : context[i] = full[k + i]
ContextAroundQuote ==
  picked.context # <<>> =>
    \E q \in result.quote : \E id \in picked.best :
      Shows(day, Selection(day, q, id), picked.context, id)

\* The score the answer gives a message; absent stands for that of one it does not list.
ScoreInAnswer(answer, id, absent) ==
  IF Listed(answer.entries, id) = {} THEN absent ELSE LastScore(answer.entries, id)

\* The report agrees with the post and with the answer that both are made from: exactly
\* the quote is its primary row, every message the post shows as context has a row that
\* says so, and the ranks count the rows by score and then by position in the day.
RowsMatch(table, pick) ==
  /\ {r.id : r \in {r \in Range(table) : r.primary}} = pick.best
  /\ \A i \in DOMAIN pick.context :
       \E r \in Range(table) : r.id = pick.context[i] /\ (r.inContext \/ r.primary)
  /\ {r.rank : r \in Range(table)} = DOMAIN table
  /\ \A i, j \in DOMAIN table :
       table[i].rank < table[j].rank =>
         table[i].score > table[j].score \/ (table[i].score = table[j].score /\ i < j)

\* Every message of the day that the answer scores has a row.  A row and the quote have
\* the score that the answer lists last for their message.  They differ for a quote that
\* it does not list: recorded with 0 (pgreports.go), posted with 0.5 (neutralScore).
ScoresMatch(msgs, answer, table, pick) ==
  /\ \A id \in Ids(msgs) : Listed(answer.entries, id) # {} => \E r \in Range(table) : r.id = id
  /\ \A r \in Range(table) : r.score = ScoreInAnswer(answer, r.id, 0)
  /\ \A id \in pick.best : pick.score = ScoreInAnswer(answer, id, 10)

ReportMatchesQuote ==
  stage = "recorded" => RowsMatch(rows, picked) /\ ScoresMatch(day, reply, rows, picked)

\* The post and the report that are made of one answer say the same of the quote, its
\* context and the scores, but for the score of a quote that the answer does not score.
\* A day that is evaluated again, after a failed post, is another answer: its quote is
\* posted while the report of the first one stays (pgreports.go:156).
ReportAgrees == ContextAroundQuote /\ ReportMatchesQuote
=============================================================================
