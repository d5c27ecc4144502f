----------------------------- MODULE Resolution -----------------------------
(***************************************************************************)
(* Target resolution and selection: how a description of a control becomes *)
(* one node of the accessibility tree, or a report of why it did not.      *)
(*                                                                         *)
(* A screen is a sequence of nodes in document order, each naming its      *)
(* parent; 0 is the document.  A text is the sequence of its words, so two *)
(* spellings that normalise to one text are one value here.  A reader (a   *)
(* person or a model) asks for a Target, and on the same screen may take   *)
(* any Target the answer tells it to try.                                  *)
(***************************************************************************)
EXTENDS Integers, SequencesExt

CONSTANTS
  Screens,   \* the accessibility trees a snapshot may hold
  Targets,   \* the Targets a reader may begin with
  Requests,  \* the selections a Step may make: [list, wanted, declared]
  Words,     \* the words a screen is written in and asked about
  Absent,    \* a property that is not there
  MaxTurns   \* how many Targets a reader may try in a row

Root == 0

Texts == Seq(Words)
Optional(S) == S \cup {Absent}
NodeType == [role : STRING, name : Optional(Texts), value : Optional(Texts),
             frame : Optional(Texts), parent : Nat]
ScopeType == [role : Optional(STRING), name : Optional(Texts)]
TargetType == [role : Optional(STRING), name : Optional(Texts), exact : BOOLEAN,
               label : Optional(Texts), textNear : Optional(Texts),
               within : Optional(ScopeType), nth : Optional(Nat)]
RequestType == [list : [itemRole : STRING, within : Optional(ScopeType)],
                wanted : Texts, declared : BOOLEAN]

SectionRoles == {"table", "grid", "treegrid", "form", "search", "region", "group", "list",
                 "listbox", "article", "main", "navigation", "complementary", "banner",
                 "contentinfo", "dialog", "tabpanel"}
ControlRoles == {"textbox", "searchbox", "button", "link", "checkbox", "radio", "combobox",
                 "listbox", "slider", "spinbutton", "switch", "menuitem", "option", "tab"}
RecordRoles == {"row", "listitem", "group", "form"}
FrameRoles == {"iframe", "frame"}
Marks == {"#"}
Strategies == {"within", "role", "name", "label", "textNear", "ordinal"}

\* What stands above each node: its parent, and all that stands above that.
\* A parent comes before its children, so the recursion ends at the document.
Above(tree) ==
  LET above[n \in DOMAIN tree] ==
        {tree[n].parent} \cup (IF tree[n].parent = Root THEN {} ELSE above[tree[n].parent])
  IN above

\* Document order: a node comes after its parent, and hangs from the node before
\* it or from one above that.
IsScreen(tree) ==
  /\ \A n \in DOMAIN tree : tree[n].parent \in 0..(n - 1)
  /\ \A n \in DOMAIN tree \ {1} : tree[n].parent \in {n - 1} \cup Above(tree)[n - 1]

ASSUME ScreenAssumption == \A tree \in Screens : tree \in Seq(NodeType) /\ IsScreen(tree)
ASSUME AskedAssumption == Targets \subseteq TargetType /\ Requests \subseteq RequestType
ASSUME AbsentAssumption ==
  /\ Absent \notin STRING /\ Absent \notin Strategies
  /\ Absent \notin Texts /\ Absent \notin ScopeType /\ Absent \notin Nat
ASSUME TurnsAssumption == MaxTurns \in Nat \ {0}

VARIABLES
  index,    \* the indexed tree the answer is read from
  target,   \* the Target asked for last
  answer,   \* what came back
  turns     \* how many Targets have been tried

vars == <<index, target, answer, turns>>

-----------------------------------------------------------------------------
\* The indexed tree

Index(tree) == [node |-> tree, above |-> Above(tree)]
Nodes(ix) == DOMAIN ix.node
IsAncestorOf(ix, a, n) == n # Root /\ a \in ix.above[n]
Subtree(ix, n) == {m \in Nodes(ix) : m = n \/ IsAncestorOf(ix, n, m)}
Children(ix, n) == {m \in Nodes(ix) : ix.node[m].parent = n}
Lineage(ix, n) == {n} \cup (IF n = Root THEN {} ELSE ix.above[n])
TreeDistance(ix, a, b) ==
  Cardinality(Lineage(ix, a) \ Lineage(ix, b)) + Cardinality(Lineage(ix, b) \ Lineage(ix, a))
Innermost(ix, S) == {n \in S : ~\E m \in S : IsAncestorOf(ix, n, m)}

\* The members of S in document order: the i-th has i members up to itself.
InOrder(S) ==
  [i \in 1..Cardinality(S) |-> CHOOSE n \in S : Cardinality({m \in S : m <= n}) = i]

Text(part) == IF part = Absent THEN <<>> ELSE part
OwnText(node) == Text(node.name) \o Text(node.value)
Identity(node) == IF node.name # Absent THEN node.name ELSE Text(node.value)
NodeText(ix, n) ==
  FlattenSeq([i \in 1..Cardinality(Subtree(ix, n)) |-> OwnText(ix.node[InOrder(Subtree(ix, n))[i]])])
Includes(text, part) ==
  \E at \in 0..(Len(text) - Len(part)) : SubSeq(text, at + 1, at + Len(part)) = part
TokensOf(text) == ToSet(text) \ Marks
IsTokenSubsetOf(wanted, label) ==
  TokensOf(wanted) # {} /\ TokensOf(wanted) \subseteq TokensOf(label)

-----------------------------------------------------------------------------
\* Regions and captions

ContainerOf(ix, n) ==
  Max({Root} \cup {a \in ix.above[n] \ {Root} : ix.node[a].role \in SectionRoles})

HeadingOf(ix, section) ==
  LET readable == {n \in Subtree(ix, section) \ {section} :
                     ix.node[n].role \notin ControlRoles /\ OwnText(ix.node[n]) # <<>>}
  IN IF Identity(ix.node[section]) # <<>> THEN Identity(ix.node[section])
     ELSE IF readable # {} THEN OwnText(ix.node[Min(readable)]) ELSE <<>>

RegionOf(ix, n) ==
  IF ContainerOf(ix, n) = Root THEN <<>> ELSE HeadingOf(ix, ContainerOf(ix, n))

RegionsOffered(ix) ==
  {HeadingOf(ix, n) : n \in {m \in Nodes(ix) : ix.node[m].role \in SectionRoles}} \ {<<>>}

\* The readable leaf before a node, in the record that holds it.
LabelOf(ix, n) ==
  LET records == {a \in ix.above[n] \ {Root} : ix.node[a].role \in RecordRoles}
      scope   == IF records # {} THEN Max(records) ELSE ix.node[n].parent
      leaves  == {m \in Subtree(ix, scope) : Children(ix, m) = {}}
      first   == Min(leaves \cap Subtree(ix, n))
      before  == {m \in leaves : m < first /\ ix.node[m].role \notin ControlRoles
                                 /\ OwnText(ix.node[m]) # <<>>}
  IN IF before = {} THEN Absent ELSE OwnText(ix.node[Max(before)])

-----------------------------------------------------------------------------
\* Narrowing

\* A fault: containment is tried first, so an exact name loses to a longer one.
NarrowByText_ContainsFirst(S, wanted, read, exactOnly, byTokens) ==
  [found |-> {n \in S : Includes(Text(read[n]), wanted)}, how |-> "contains"]

\* Three rungs, each tried only when the ones before it found nothing.
NarrowByText(S, wanted, read, exactOnly, byTokens) ==
  LET exact    == {n \in S : Text(read[n]) = wanted}
      contains == {n \in S : Includes(Text(read[n]), wanted)}
      tokens   == {n \in S : IsTokenSubsetOf(Text(read[n]), wanted)}
  IN CASE exact # {} \/ exactOnly -> [found |-> exact, how |-> "exact"]
       [] exact = {} /\ ~exactOnly /\ (contains # {} \/ ~byTokens \/ tokens = {}) ->
            [found |-> contains, how |-> "contains"]
       [] OTHER -> [found |-> tokens, how |-> "tokens"]

Names(ix) == [n \in Nodes(ix) |-> Identity(ix.node[n])]
Labels(ix) == [n \in Nodes(ix) |-> LabelOf(ix, n)]

HeadedBy(ix, heading) ==
  {IF Children(ix, n) # {} THEN n ELSE ContainerOf(ix, n) :
     n \in NarrowByText(Nodes(ix), heading, Names(ix), FALSE, FALSE).found}

\* fallbacks: whether the rungs added last, the words of a name and the role of
\* a region that is only headed, are there. The code has them always.
ScopeOf(ix, scope, fallbacks) ==
  LET byRole == {n \in Nodes(ix) : ix.node[n].role = scope.role}
      named  == IF scope.name = Absent THEN byRole
                ELSE NarrowByText(byRole, scope.name, Names(ix), FALSE, FALSE).found
  IN CASE scope.role # Absent /\ (named # {} \/ scope.name = Absent) -> named
       [] scope.role # Absent /\ named = {} /\ scope.name # Absent ->
            IF fallbacks
            THEN {n \in HeadedBy(ix, scope.name) \ {Root} : ix.node[n].role = scope.role}
            ELSE {}
       [] scope.role = Absent /\ scope.name = Absent -> {Root}
       [] OTHER -> HeadedBy(ix, scope.name)

Inside(ix, S, scopes) == {n \in S : \E root \in scopes : n = root \/ IsAncestorOf(ix, root, n)}

AnchorsFor(ix, near) ==
  IF near = <<>> THEN {} ELSE {n \in Nodes(ix) : Includes(OwnText(ix.node[n]), near)}

\* A control named exactly so stands at the text; anything else is measured
\* against what reads it, itself excepted.
Nearness(ix, n, anchors, near) ==
  IF ix.node[n].role \in ControlRoles /\ OwnText(ix.node[n]) = near THEN 0
  ELSE Min({TreeDistance(ix, n, a) : a \in anchors \ {n}})

Measurable(ix, n, anchors, near) ==
  \/ ix.node[n].role \in ControlRoles /\ OwnText(ix.node[n]) = near
  \/ anchors \ {n} # {}

Nearest(ix, S, near) ==
  LET anchors  == AnchorsFor(ix, near)
      scored   == {n \in S : Measurable(ix, n, anchors, near)}
      distance == [n \in scored |-> Nearness(ix, n, anchors, near)]
  IN IF anchors = {} THEN {} ELSE {n \in scored : \A m \in scored : distance[n] <= distance[m]}

\* What is left, what the last criterion was offered, and whether it left none.
Unnarrowed(ix) == [left |-> Nodes(ix), offered |-> Nodes(ix), by |-> Absent, failed |-> FALSE]

Narrow(so, wanted, strategy, left) ==
  IF so.failed \/ wanted = Absent THEN so
  ELSE [left |-> left, offered |-> so.left, by |-> strategy, failed |-> left = {}]

Narrowing(ix, t, fallbacks) ==
  LET within == Narrow(Unnarrowed(ix), t.within, "within",
                  IF t.within = Absent THEN {}
                  ELSE Inside(ix, Nodes(ix), ScopeOf(ix, t.within, fallbacks)))
      role   == Narrow(within, t.role, "role", {n \in within.left : ix.node[n].role = t.role})
      name   == Narrow(role, t.name, "name",
                  IF t.name = Absent THEN {}
                  ELSE NarrowByText(role.left, t.name, Names(ix), t.exact, fallbacks).found)
      label  == Narrow(name, t.label, "label",
                  IF t.label = Absent THEN {}
                  ELSE NarrowByText(name.left, t.label, Labels(ix), FALSE, FALSE).found)
  IN Narrow(label, t.textNear, "textNear",
            IF t.textNear = Absent THEN {} ELSE Nearest(ix, label.left, t.textNear))

-----------------------------------------------------------------------------
\* Remedies: the Targets an answer's advice tells a reader to try next

Scoped(t, heading) == [t EXCEPT !.within = [role |-> Absent, name |-> heading]]
Unscoped(t) == [t EXCEPT !.within = Absent]

\* A fault: positions are counted from one.
RemedyFor_FromOne(ix, t, matches) == {[t EXCEPT !.nth = i] : i \in DOMAIN matches}

\* A region when every candidate has one of its own, and a position always.
RemedyFor(ix, t, matches) ==
  LET regions == [i \in DOMAIN matches |-> RegionOf(ix, matches[i])]
  IN {[t EXCEPT !.nth = i - 1] : i \in DOMAIN matches}
     \cup (IF <<>> \notin Range(regions) /\ IsInjective(regions)
           THEN {Scoped(t, region) : region \in Range(regions)} ELSE {})

ScopeNamesAFrame(ix, scope) ==
  \/ scope.role \in FrameRoles
  \/ scope.name # Absent /\ \E n \in Nodes(ix) : ix.node[n].frame = scope.name

RegionAdvice(ix, t) == {Unscoped(t)} \cup {Scoped(t, region) : region \in RegionsOffered(ix)}

WithinRemedy(ix, t) ==
  IF /\ ~ScopeNamesAFrame(ix, t.within)
     /\ t.within.role # Absent /\ t.within.name # Absent
     /\ HeadedBy(ix, t.within.name) # {}
  THEN {Scoped(t, t.within.name)}
  ELSE RegionAdvice(ix, t)

RoleRemedy(ix, t, offered) ==
  IF \E n \in Nodes(ix) : ix.node[n].role = t.role
  THEN {Unscoped(t)}
  ELSE {[t EXCEPT !.role = ix.node[n].role] : n \in offered}

\* A fault: the role that excluded the node is kept.
ReachFor_KeepsTheRole(ix, t, n) == {Unscoped(t)}

\* A node found elsewhere: by its role, in the region it is in or in any.
ReachFor(ix, t, n) ==
  LET there == [t EXCEPT !.role = ix.node[n].role]
  IN {Unscoped(there)} \cup (IF RegionOf(ix, n) = <<>> THEN {} ELSE {Scoped(there, RegionOf(ix, n))})

NameRemedy(ix, t) ==
  LET all      == Nodes(ix)
      found    == NarrowByText(all, t.name, Names(ix), t.exact, TRUE).found
      loosely  == NarrowByText(all, t.name, Names(ix), FALSE, TRUE).found
      caption  == [t EXCEPT !.name = Absent, !.label = t.name]
  IN CASE found # {} ->
            ReachFor(ix, t, Min(found))
            \cup (IF ix.node[Min(found)].role \in ControlRoles \/ t.label # Absent THEN {}
                  ELSE {Unscoped([caption EXCEPT !.role = ix.node[Min(found)].role])})
       [] found = {} /\ t.exact /\ loosely # {} -> {[t EXCEPT !.exact = FALSE]}
       [] OTHER -> {caption}

LabelRemedy(ix, t) ==
  LET found == NarrowByText(Nodes(ix), t.label, Labels(ix), FALSE, FALSE).found
  IN IF found = {} THEN {} ELSE ReachFor(ix, [t EXCEPT !.name = Absent], Min(found))

RemedyForUnresolved(ix, t, strategy, offered) ==
  CASE strategy = "within"   -> WithinRemedy(ix, t)
    [] strategy = "role"     -> RoleRemedy(ix, t, offered)
    [] strategy = "name"     -> NameRemedy(ix, t)
    [] strategy = "label"    -> LabelRemedy(ix, t)
    [] strategy = "textNear" -> {[t EXCEPT !.textNear = Absent]}
    [] strategy = "ordinal"  -> {[t EXCEPT !.nth = Absent]}
    [] strategy = Absent     -> {}

-----------------------------------------------------------------------------
\* Resolution and selection

NoAnswer == [tag |-> "Unasked", node |-> Root, matches |-> <<>>, narrowedBy |-> Absent, remedy |-> {}]

Found(node, matches) == [NoAnswer EXCEPT !.tag = "Resolved", !.node = node, !.matches = matches]

NotFound(ix, t, strategy, offered) ==
  [NoAnswer EXCEPT !.tag = "NotFound", !.narrowedBy = strategy,
                   !.remedy = RemedyForUnresolved(ix, t, strategy, offered)]

ResolveTargetIn(ix, t, fallbacks) ==
  LET so      == Narrowing(ix, t, fallbacks)
      matches == InOrder(Innermost(ix, so.left))
  IN CASE matches = <<>> -> NotFound(ix, t, so.by, so.offered)
       [] matches # <<>> /\ t.nth # Absent ->
            IF t.nth < Len(matches) THEN Found(matches[t.nth + 1], matches)
            ELSE NotFound(ix, t, "ordinal", ToSet(matches))
       [] Len(matches) > 1 /\ t.nth = Absent ->
            [NoAnswer EXCEPT !.tag = "Ambiguous", !.matches = matches,
                             !.remedy = RemedyFor(ix, t, matches)]
       [] OTHER -> Found(matches[1], matches)

LabelTextOf(ix, n) == IF Identity(ix.node[n]) # <<>> THEN Identity(ix.node[n]) ELSE NodeText(ix, n)

ListItemsIn(ix, list) ==
  LET there == IF list.within = Absent THEN Nodes(ix)
               ELSE Inside(ix, Nodes(ix), ScopeOf(ix, list.within, TRUE))
  IN Innermost(ix, {n \in there : ix.node[n].role = list.itemRole})

SelectFrom(ix, list, wanted) ==
  InOrder({n \in ListItemsIn(ix, list) : IsTokenSubsetOf(wanted, LabelTextOf(ix, n))})

NoTarget == [role |-> Absent, name |-> Absent, exact |-> FALSE, label |-> Absent,
             textNear |-> Absent, within |-> Absent, nth |-> Absent]

\* A fault: the item is named without the role it was listed for.
TargetForItem_AnyRole(list, label) ==
  [NoTarget EXCEPT !.name = label, !.exact = TRUE, !.within = list.within]

TargetForItem(list, label) ==
  [NoTarget EXCEPT !.role = list.itemRole, !.name = label, !.exact = TRUE, !.within = list.within]

\* The one item whose label carries every token asked for; the press that
\* follows names it by that label.
ChooseItem(ix, request) ==
  LET matches == SelectFrom(ix, request.list, request.wanted)
      label   == LabelTextOf(ix, matches[1])
  IN CASE matches = <<>> -> [NoAnswer EXCEPT !.tag = IF request.declared THEN "Declared" ELSE "NoMatch"]
       [] Len(matches) > 1 -> [NoAnswer EXCEPT !.tag = "AmbiguousMatch", !.matches = matches]
       [] Len(matches) = 1 ->
            [NoAnswer EXCEPT !.tag = "Chosen", !.node = matches[1], !.matches = matches,
                             !.remedy = {TargetForItem(request.list, label)}]

-----------------------------------------------------------------------------
\* The reader

Init ==
  /\ index \in {Index(tree) : tree \in Screens}
  /\ target = NoTarget
  /\ answer = NoAnswer
  /\ turns = 0

Ask(t) ==
  /\ target' = t
  /\ answer' = ResolveTargetIn(index, t, TRUE)
  /\ turns' = turns + 1
  /\ UNCHANGED index

Choose(request) ==
  /\ answer' = ChooseItem(index, request)
  /\ UNCHANGED <<index, target, turns>>

Begin ==
  /\ answer.tag = "Unasked"
  /\ \/ \E t \in Targets : Ask(t)
     \/ \E request \in Requests : Choose(request)

\* The reader takes one of the Targets the answer spells out; the engine presses
\* what a selection chose.
Follow ==
  /\ turns < MaxTurns
  /\ \E t \in answer.remedy : Ask(t)

Next == Begin \/ Follow

Spec == Init /\ [][Next]_vars

-----------------------------------------------------------------------------
\* What is checked

TypeOK ==
  /\ answer.tag \in {"Unasked", "Resolved", "NotFound", "Ambiguous", "Chosen", "Declared",
                     "NoMatch", "AmbiguousMatch"}
  /\ answer.node \in Nodes(index) \cup {Root}
  /\ answer.matches \in Seq(Nodes(index))
  /\ answer.narrowedBy \in Strategies \cup {Absent}
  /\ answer.remedy \subseteq TargetType
  /\ target \in TargetType
  /\ turns \in 0..MaxTurns
  /\ answer.tag \in {"Resolved", "Chosen"} <=> answer.node # Root

\* How well a text answers a wanted one: 3 is the same text, 0 is no answer.
Rung(text, wanted, exactOnly, byTokens) ==
  CASE text = wanted -> 3
    [] text # wanted /\ ~exactOnly /\ Includes(text, wanted) -> 2
    [] text # wanted /\ ~exactOnly /\ ~Includes(text, wanted)
         /\ byTokens /\ IsTokenSubsetOf(text, wanted) -> 1
    [] OTHER -> 0

\* S without those another of S answers better, or that do not answer at all.
Best(S, rung) == {n \in S : rung[n] > 0 /\ \A m \in S : rung[m] <= rung[n]}

\* The nodes a Target describes, said without the order the code narrows in:
\* the role and the region are conditions, the name and the caption a contest.
Described(ix, t) ==
  LET scoped == {n \in Nodes(ix) :
                   /\ t.role \in {Absent, ix.node[n].role}
                   /\ \/ t.within = Absent
                      \/ Lineage(ix, n) \cap ScopeOf(ix, t.within, TRUE) # {}}
      named  == IF t.name = Absent THEN scoped
                ELSE Best(scoped, [n \in scoped |-> Rung(Identity(ix.node[n]), t.name, t.exact, TRUE)])
  IN IF t.label = Absent THEN named
     ELSE Best(named, [n \in named |-> Rung(Text(LabelOf(ix, n)), t.label, FALSE, FALSE)])

\* Of two nodes, the first stands further from a text, or nowhere near it.
FurtherFrom(ix, near, n, m) ==
  LET anchors == AnchorsFor(ix, near)
  IN \/ ~Measurable(ix, n, anchors, near)
     \/ Nearness(ix, n, anchors, near) > Nearness(ix, m, anchors, near)

\* Nothing chooses for the reader: a Target without a position resolves to a
\* node only when whatever else it describes encloses that node or stands
\* further from the text it was to be near.
NothingIsGuessed ==
  (answer.tag = "Resolved" /\ target.nth = Absent) =>
    /\ answer.node \in Described(index, target)
    /\ \A n \in Described(index, target) \ {answer.node} :
         \/ IsAncestorOf(index, n, answer.node)
         \/ target.textNear # Absent /\ FurtherFrom(index, target.textNear, n, answer.node)

\* A position an ambiguity report gives is the candidate the report numbered.
PositionIsTheCandidate ==
  [][(answer.tag = "Ambiguous" /\ target'.nth # Absent) =>
       /\ answer'.tag = "Resolved"
       /\ answer'.node = answer.matches[target'.nth + 1]]_vars

\* Where in a resolution a report says it ended; last, that nothing was asked of a
\* screen with nothing on it.
Rank(strategy) ==
  CHOOSE i \in 1..7 :
    <<"within", "role", "name", "label", "textNear", "ordinal", Absent>>[i] = strategy

\* A heading read off a node that says its name and its value: the two together
\* are what it is offered as, the name alone is what it is found by.
SaidInTwo(ix, heading) ==
  \E n \in Nodes(ix) : /\ ix.node[n].name # Absent /\ ix.node[n].value # Absent
                       /\ OwnText(ix.node[n]) = heading

\* Advice can be taken: on a screen that does not change, what a report says to
\* try fails at a later criterion if it fails, or asks for less of the name, so
\* a reader that does what it is told cannot go round.  Not so of advice that
\* adds a region to what failed within none, or names one by a heading said in two.
AdviceGetsFurther ==
  [][(/\ answer.tag = "NotFound" /\ answer'.tag = "NotFound"
      /\ \/ target'.within = Absent
         \/ answer.narrowedBy = "within" /\ ~SaidInTwo(index, target'.within.name)) =>
       \/ Rank(answer'.narrowedBy) > Rank(answer.narrowedBy)
       \/ target.exact /\ ~target'.exact]_vars

\* The control pressed for a selection is the item it chose: an item with a name
\* of its own is among what its Target finds, and anything else found for it is
\* an item that encloses another, which the list left out.
PressLandsOnTheItem ==
  [][answer.tag = "Chosen" =>
       /\ Identity(index.node[answer.node]) # <<>> => answer.node \in ToSet(answer'.matches)
       /\ \A n \in ToSet(answer'.matches) \ {answer.node} :
            \E m \in Nodes(index) : IsAncestorOf(index, n, m) /\ index.node[m].role = target'.role]_vars

=============================================================================
