------------------------------- MODULE MCReplay -------------------------------
EXTENDS ReplayProofs, TLC

CONSTANTS Filed, NoAccount, Approval, Today, Yesterday

Rules1 == <<[attempts |-> 3, atStep |-> FALSE, riskyRemedy |-> FALSE, justified |-> FALSE],
            [attempts |-> 2, atStep |-> TRUE, riskyRemedy |-> FALSE, justified |-> TRUE]>>

\* A list, then a press, with an argued at-step rule; the list may stand for an
\* code a person ruled to need one, and the press for another.
Pressing ==
  [steps |-> <<"select", "press">>, rules |-> Rules1, outcomes |-> {Filed},
   noMatch |-> [code |-> NoAccount, declared |-> FALSE],
   human |-> (NoAccount :> 1 @@ Approval :> 2), outputs |-> {}]

\* A page, then a value read from it, every rule reads again.
Reading ==
  [steps |-> <<"open", "extract">>, rules |-> Rules1, outcomes |-> {Filed},
   noMatch |-> [code |-> NoAccount, declared |-> FALSE],
   human |-> (Approval :> 1), outputs |-> {2}]

\* A press recovered by pressing something else, once.
Dismissing ==
  [steps |-> <<"press", "extract">>,
   rules |-> <<[attempts |-> 1, atStep |-> FALSE, riskyRemedy |-> TRUE, justified |-> FALSE]>>,
   outcomes |-> {}, noMatch |-> [code |-> NoAccount, declared |-> FALSE],
   human |-> (NoAccount :> 1), outputs |-> {2}]

\* A list whose emptiness is an answer, and no code for a person.
Listing ==
  [steps |-> <<"extract", "select">>,
   rules |-> <<[attempts |-> 4, atStep |-> FALSE, riskyRemedy |-> FALSE, justified |-> FALSE]>>,
   outcomes |-> {NoAccount}, noMatch |-> [code |-> NoAccount, declared |-> TRUE],
   human |-> <<>>, outputs |-> {1}]

\* Refused: the second step is risky, and nothing argues for repeating it.
Unsafe ==
  [steps |-> <<"extract", "press">>,
   rules |-> <<[attempts |-> 1, atStep |-> TRUE, riskyRemedy |-> FALSE, justified |-> FALSE]>>,
   outcomes |-> {Filed}, noMatch |-> [code |-> NoAccount, declared |-> FALSE],
   human |-> <<>>, outputs |-> {1}]

MCCapabilities == {Pressing, Reading, Dismissing, Listing, Unsafe}
MCCodes == {Filed, NoAccount, Approval}
MCValues == {Today, Yesterday}
=============================================================================
