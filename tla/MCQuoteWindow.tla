--------------------------- MODULE MCQuoteWindow ---------------------------
(* Half-hour units: a change of an hour skips or repeats two readings, one of *)
(* half an hour (Lord Howe) one.                                             *)
EXTENDS QuoteWindow

\* UTC+2, +2:30 and +3.
East == {4, 5, 6}

\* The zone changes between midnight and six in the morning of day 2.
Night == 92..103
============================================================================
