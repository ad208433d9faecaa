---------------------------- MODULE MCCalendar ----------------------------
(* Small instances of Calendar for TLC. *)
EXTENDS Calendar, TLC

CONSTANTS one, two

Full(d, m, y) == [form |-> TRUE, day |-> d, month |-> m, year |-> y]

\* The leap day of two years and of a century that is no leap year, a day alone
\* and an empty line.
MCInputs ==
  {Full(29, 2, 2024), Full(29, 2, 2020), Full(29, 2, 1900),
   [form |-> FALSE, day |-> 28, month |-> NULL, year |-> NULL],
   [form |-> FALSE, day |-> NULL, month |-> NULL, year |-> NULL]}

Symmetric == Permutations(Apps)
=============================================================================
