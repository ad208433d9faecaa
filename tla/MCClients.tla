----------------------------- MODULE MCClients -----------------------------
(* Secrets of two bytes, arrays of a few characters, the lines that matter. *)
EXTENDS Clients

MCSize == [ID |-> 3, secret |-> 8, data |-> 5]

MCBuffer == [cl |-> 5, full |-> 4]

\* In the menu: the items, a letter, and a whole SEND and a whole UPDATE on one
\* line, with which cl comes to the second UPDATE of a block and to a block stored
\* before that.  IDs that fit and that do not.  Secrets: a well-formed one in both
\* cases, another one, one with a digit too many, one with its space in front, one
\* that is short and has a bad character, one with a byte too many.
MCInputs ==
  [choice |-> {<<"1">>, <<"2">>, <<"3">>, <<"4">>, <<"5">>, <<"x">>}
               \cup {<<c, " ", "1", "f", "a", "f", " ", "1", "f", " ", "f", "1">> : c \in {"1", "2"}},
   ID |-> {<<"1">>, <<"1", "f", "f">>},
   secret |-> {<<"a", "f", " ", "1", "f">>, <<"A", "f", " ", "1", "F">>, <<"a", "f", " ", "f", "f">>,
               <<"1", "a", "f", " ", "f", "f">>, <<" ", "f", "f">>, <<"f", "x">>,
               <<"f", " ", "f", " ", "f">>},
   data |-> {<<"f", "1">>, <<"f", "f", "f", "f">>},
   offset |-> {<<"1">>, <<"x">>},
   length |-> {<<"1">>, <<"x">>}]
=============================================================================
