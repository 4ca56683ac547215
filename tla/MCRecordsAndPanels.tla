-------------------------- MODULE MCRecordsAndPanels --------------------------
(***************************************************************************)
(* The answers and their records, the panels and the start of the process, *)
(* side by side: one behaviour runs one machine, chosen in its first state.*)
(***************************************************************************)
EXTENDS Answers, AuditLog, Reports, Startup, Panels, PanelMemory, TLC

VARIABLE machine

(* A window with a sticker, and one that is longer than a request may be    *)
(* and holds a post of the bot.                                             *)
Msg(id) == [id |-> id, sticker |-> FALSE, tagged |-> FALSE]
ShortDay == <<Msg(1), [Msg(2) EXCEPT !.sticker = TRUE], Msg(3), Msg(4)>>
LongDay == <<Msg(5), Msg(1), [Msg(2) EXCEPT !.tagged = TRUE], Msg(3), Msg(4), Msg(6)>>
MCSources == {ShortDay, LongDay}

(* Answers: every list of up to three entries of a few tokens, with or      *)
(* without a quote; and every quote with up to four messages of context.    *)
UpTo(n, S) == UNION {[1..k -> S] : k \in 0..n}
Token(type, half) == [type |-> type, half |-> half]
Num(n) == Token("number", 2 * n)
Nothing == Token("none", 0)
Quote(primary, context, needed) == [primary |-> primary, context |-> context, needed |-> needed]
IdTokens == {Num(1), Token("text", 4), Token("number", 7), Token("text", 7), Token("huge", 0)}
ScoreTokens == {Token("number", -1), Token("text", 40), Nothing}
Scorings ==
  [good : {TRUE}, entries : UpTo(3, [id : IdTokens, score : ScoreTokens]),
   quote : {{}} \cup {{Quote(p, <<Num(3)>>, TRUE)} : p \in {Nothing, Token("number", 3)}}]
Contexts == UpTo(4, {Num(1), Num(2), Num(3), Num(4)}) \cup UpTo(2, {Num(1), Num(9), Nothing})
Quotings ==
  [good : {TRUE},
   entries : {<<>>, <<[id |-> Num(3), score |-> Num(4)], [id |-> Num(1), score |-> Num(4)]>>},
   quote : {{Quote(p, c, needed)} : p \in {Nothing, Num(1), Num(2), Num(4)}, c \in Contexts,
              needed \in BOOLEAN}]
NoAnswer == [good |-> FALSE, entries |-> <<>>, quote |-> {}]
MCReplies == Scorings \cup Quotings \cup {NoAnswer}

\* Logs: none; all kinds of lines; one that ends in a torn line.
BlankLine == [Line(NoDate, {}, TRUE) EXCEPT !.blank = TRUE]
MCLogs == {<<>>, <<Line(1, {}, TRUE), Line(NoDate, {}, TRUE), Line(0, {}, TRUE), BlankLine>>,
           <<Line(0, {}, TRUE), Line(2, {}, FALSE)>>}

\* Two releases, the newer one with one more migration.
MCFiles == [p \in {"old", "new"} |-> IF p = "old" THEN {1, 2} ELSE {1, 2, 3}]

\* No property tells one handler or writer from another.
MCSymmetry == Permutations(Handlers) \cup Permutations(Writers)

Machines == {"answers", "audit", "reports", "startup", "panels", "throttle", "registry"}

\* A machine that is not chosen has one first state.
RecordsInit ==
  /\ machine \in Machines
  /\ IF machine = "answers" THEN TRUE ELSE source = ShortDay /\ reply = NoAnswer
  /\ IF machine = "audit" THEN TRUE ELSE log = <<>>
  /\ IF machine = "startup" THEN TRUE ELSE db = CHOOSE d \in Databases : TRUE
  /\ IF machine = "panels" THEN TRUE ELSE admins = {}
  /\ AnswersInit /\ AuditInit /\ ReportsInit /\ StartupInit /\ PanelsInit /\ MemoryInit

Rest(chosen) ==
  /\ chosen # "answers" => UNCHANGED answersVars
  /\ chosen # "audit" => UNCHANGED auditVars
  /\ chosen # "reports" => UNCHANGED reportsVars
  /\ chosen # "startup" => UNCHANGED startupVars
  /\ chosen # "panels" => UNCHANGED panelsVars
  /\ chosen # "throttle" => UNCHANGED throttleVars
  /\ chosen # "registry" => UNCHANGED registryVars

RecordsNext ==
  /\ \/ machine = "answers"  /\ AnswersNext
     \/ machine = "audit"    /\ AuditNext
     \/ machine = "reports"  /\ ReportsNext
     \/ machine = "startup"  /\ StartupNext
     \/ machine = "panels"   /\ PanelsNext
     \/ machine = "throttle" /\ ThrottleNext
     \/ machine = "registry" /\ RegistryNext
  /\ UNCHANGED machine
  /\ Rest(machine)

RecordsSpec ==
  RecordsInit
  /\ [][RecordsNext]_<<machine, answersVars, auditVars, reportsVars, startupVars, panelsVars,
                       throttleVars, registryVars>>
=============================================================================
