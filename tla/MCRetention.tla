---------------------------- MODULE MCRetention -----------------------------
(***************************************************************************)
(* Crontab lines: the special words, and one of each kind the branches of  *)
(* decide_interval tell apart, with the longest time between two runs.     *)
(***************************************************************************)
EXTENDS ScriptherderRetention

Special(word, gap) ==
    [word |-> word, hour |-> "n", monthday |-> "n", month |-> "n",
     weekday |-> "n", gap |-> gap]

Fixed(hour, monthday, month, weekday, gap) ==
    [word |-> "", hour |-> hour, monthday |-> monthday, month |-> month,
     weekday |-> weekday, gap |-> gap]

Day == 24

\* The lines whose gap is what the branch they fall into has in mind
PlainLines ==
    {Special("@hourly", 1), Special("@daily", Day), Special("@midnight", Day),
     Special("@weekly", 7 * Day), Special("@monthly", 31 * Day),
     Special("@yearly", 365 * Day), Special("@annually", 365 * Day),
     Fixed("*", "*", "*", "*", 1),              \* 17 * * * *
     Fixed("n", "*", "*", "*", Day),            \* 15 3 * * *
     Fixed("n", "*", "*", "n", 7 * Day),        \* 0 3 * * 0
     Fixed("n", "n", "*", "*", 31 * Day),       \* 0 0 1 * *
     Fixed("n", "n", "n", "*", 365 * Day)}      \* 0 0 1 1 *

\* Those for which it is not, leap years among them
OddLines ==
    {Fixed("*/n", "*", "*", "*", 23),           \* 0 */23 * * *
     Fixed("*/n", "*", "*", "n", 52),           \* 0 */4 * * 1-5
     Fixed("n", "*/n", "*", "*", 2 * Day),      \* 0 3 */2 * *
     Fixed("n", "n", "*", "*", 62 * Day),       \* 0 0 31 * *
     Fixed("n", "n", "*", "n", 7 * Day),        \* 0 0 13 * 5
     Fixed("n", "*", "n", "n", 342 * Day),      \* 0 0 * 6 1
     Special("@yearly", 366 * Day),
     Fixed("n", "n", "n", "*", 1461 * Day)}     \* 0 0 29 2 *

AllLines == PlainLines \cup OddLines

=============================================================================
