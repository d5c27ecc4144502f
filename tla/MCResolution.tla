---------------------------- MODULE MCResolution ----------------------------
EXTENDS Resolution

CONSTANTS A, B, V

MCWords == {A, B, V, "#"}

Node(role, name, value, frame) == [role |-> role, name |-> name, value |-> value, frame |-> frame]

Kinds == {Node("table", Absent, Absent, Absent), Node("row", Absent, Absent, Absent),
          Node("cell", <<A>>, Absent, Absent), Node("cell", Absent, <<V>>, Absent),
          Node("button", <<A, B>>, Absent, Absent), Node("button", <<A>>, Absent, Absent),
          Node("cell", <<A>>, <<V>>, Absent), Node("row", <<A>>, Absent, Absent)}

Tree(kind, up) ==
  [n \in DOMAIN kind |-> [role |-> kind[n].role, name |-> kind[n].name, value |-> kind[n].value,
                          frame |-> kind[n].frame, parent |-> up[n]]]

\* Every forest of so many nodes, the first of them of the kinds given.
Forests(size, first) ==
  {Tree(kind, up) :
     kind \in {k \in [1..size -> Kinds] : k[1] \in first},
     up \in {f \in [1..size -> 0..(size - 1)] :
               IsScreen([n \in 1..size |-> [parent |-> f[n]]])}}

\* Two panels as the application writes them: a heading in the first row, then a
\* row of a caption and what it captions; the second may stand in the first, or
\* in a frame.
Panels ==
  {Tree(<<Node("table", Absent, Absent, Absent), Node("cell", heading, Absent, Absent),
          Node("row", Absent, Absent, Absent), Node("cell", <<B>>, Absent, Absent), control,
          outer, Node("cell", <<A>>, Absent, Absent), Node("button", name, Absent, Absent)>>,
        <<0, 1, 1, 3, 3, under, 6, 6>>) :
     heading \in {<<A>>, <<A, B>>, <<V>>},
     control \in {Node("button", <<A>>, Absent, Absent), Node("textbox", <<A>>, <<V>>, Absent),
                  Node("cell", Absent, <<V>>, Absent)},
     outer \in {Node("table", Absent, Absent, Absent), Node("iframe", Absent, Absent, <<A>>),
                Node("group", <<B>>, Absent, Absent)},
     under \in {0, 1}, name \in {<<A>>, <<A, "#">>, <<A, B>>, <<A, B, V>>}}

MCScreens ==
  Forests(1, Kinds) \cup Forests(2, Kinds) \cup Forests(3, Kinds)
  \cup Forests(4, {Node("table", Absent, Absent, Absent)}) \cup Panels

Region(role, name) == [role |-> role, name |-> name]

MCTargets ==
  {[NoTarget EXCEPT !.role = role, !.name = name, !.within = within] :
     role \in {Absent, "button"}, name \in {Absent, <<A>>, <<A, B>>},
     within \in {Absent, Region(Absent, <<A>>), Region("table", <<A>>)}}
  \cup {[NoTarget EXCEPT !.role = role, !.label = <<A>>, !.name = name] :
          role \in {Absent, "cell"}, name \in {Absent, <<B>>}}
  \cup {[NoTarget EXCEPT !.role = role, !.textNear = <<A>>] : role \in {Absent, "cell", "button"}}
  \cup {[NoTarget EXCEPT !.name = <<B>>, !.exact = TRUE], [NoTarget EXCEPT !.name = <<A>>, !.nth = 1]}

MCRequests ==
  {[list |-> [itemRole |-> role, within |-> within], wanted |-> wanted, declared |-> declared] :
     role \in {"button", "row"}, within \in {Absent, Region(Absent, <<A>>)},
     wanted \in {<<A>>, <<B>>}, declared \in BOOLEAN}
=============================================================================
