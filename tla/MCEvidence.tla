----------------------------- MODULE MCEvidence -----------------------------
EXTENDS Evidence

Value(label, text) == [label |-> label, text |-> text]

\* A value in another, two that cross, one that runs into itself, one that is
\* encoded and quoted.
MCValues ==
  {Value("member", <<"1", "2">>), Value("branch", <<"2", "3", "1">>), Value("pin", <<"1", "1">>),
   Value("name", <<"1", " ", Quote>>)}

MCTexts ==
  {<<"3", "1", "2", "3", "1", "2">>, <<"2", "3", "1", "1", "1">>,
   <<"1", "+", "%22", "1", "%20", "%22">>, <<"2", Quote, "1", " ", Escaped, Quote>>,
   <<Quote, "1", "2", "1", " ", Escaped, Quote>>}

MCGoalWords == <<Value("goal", <<"3">>)>>

MCWriters == Permutations(Writers)
=============================================================================
