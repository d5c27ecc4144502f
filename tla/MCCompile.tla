----------------------------- MODULE MCCompile -----------------------------
EXTENDS Compile

NoOne == [kind |-> "none", name |-> Absent, literal |-> <<>>]
GoalDerived(name, literal) == [kind |-> "goalDerived", name |-> name, literal |-> literal]
Fixed(literal) == [kind |-> "constant", name |-> Absent, literal |-> literal]

\* The member the goal names, one word of it the caller made public, and one of
\* them hidden in the name of a control.
MCGoal == <<"savings", "of", "12345">>
MCPublicTerms == {"savings", "of"}
MCLower == [word \in {"Savings"} |-> "savings"]
MCEntry == [path |-> <<"start">>, query |-> <<"tenant-7">>]
MCLabels == [region \in {<<"Accounts">>} |-> <<<<"Primary", "Savings">>, <<"Checking">>>>]
MCReads == [cell \in {<<"Balance">>, <<"Limit">>} |-> <<"4182">>]
MCTypedByHand == {<<"tenant-7">>, <<"Checking">>}

Intents == {<<"look", "up">>, <<"look", "up", "12345">>}

Verb(verb, targets, values, ids) ==
  [verb : {verb}, target : targets, value : values, bindAs : ids, intent : Intents]

MCProposals ==
  Verb("click", {<<"Search">>, <<"Member", "12345">>}, {NoOne}, {Absent})
    \cup Verb("navigate", {<<"menu">>}, {NoOne}, {Absent})
    \cup Verb("fill", {<<"Number">>},
              {GoalDerived("memberId", <<"12345">>), GoalDerived("memberId", <<"savings">>),
               Fixed(<<"12345">>), Fixed(<<"savings">>), Fixed(<<"all">>)}, {Absent})
    \cup Verb("extract", {<<"Balance">>}, {NoOne}, {"balance", "open"})
    \cup Verb("selectFromList", {<<"Accounts">>},
              {GoalDerived("accountType", <<"savings">>), GoalDerived("memberId", <<"savings">>)},
              {Absent})

MCEndings == {[summary |-> <<"the", "balance">>, description |-> <<"balance">>],
              [summary |-> <<"of", "12345">>, description |-> <<"balance">>],
              [summary |-> <<"the", "balance">>, description |-> <<"4182">>]}
=============================================================================
