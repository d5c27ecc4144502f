----------------------------- MODULE GateProofs -----------------------------
(***************************************************************************)
(* What the two gates of the system let through, for any policy file and   *)
(* any run, and what scrubbing leaves of any text.                         *)
(*                                                                         *)
(* Policy.  What a loaded policy allows is what its file writes down, for  *)
(* every document a reviewer may write, however long, and every request.   *)
(* The argument is one invariant: a policy that is there was compiled from *)
(* a document that loads.  Decide is then reduced to a conjunction, and    *)
(* each conjunct is read off the document.                                 *)
(*                                                                         *)
(* Scrub.  What comes out as it went in says nothing that is known, unless *)
(* the value itself says a placeholder.  Wherever a value is, some span    *)
(* that was chosen crosses it, or the choice would have taken it; spans    *)
(* that cross become one; a span never makes a text longer, so a text of   *)
(* the same length had each of them replaced by as much as it held, and a  *)
(* quotation is never put back as it was.                                  *)
(*                                                                         *)
(* Compile.  A stored document is a faithful account of its run, for every *)
(* proposal, order of proposals and length of run.  What is kept while the *)
(* run grows (Kept) is that each name a step was filled with, each         *)
(* parameter and each default of a choice is what some step gave it, and   *)
(* that a gap names the step it came after.  The compiler relies on that   *)
(* and on its own refusals: without unique step ids a gap could not be     *)
(* found again.  Nothing of the run is in it because what is known, and    *)
(* what the document is made of, stays what scrubbing speaks of (Told).    *)
(***************************************************************************)
EXTENDS Policy, Compile, FiniteSetTheorems, SequenceTheorems, WellFoundedInduction, TLAPS

-----------------------------------------------------------------------------
\* The policy

\* A policy in force is the compilation of a document that loads.
FromItsFile ==
  policy # None => /\ policy = CompilePolicy(policy.document)
                   /\ Loads(policy.document)

-----------------------------------------------------------------------------
\* The order in which decide asks is of no matter to what it allows.
LEMMA DecideAllows ==
  ASSUME NEW compiled, NEW r
  PROVE  Decide(compiled, r).verdict = "allow" <=>
           /\ RiskOf(r.type) # "unknown"
           /\ r.type \in compiled.permitted[r.mode]
           /\ r.type # "navigate" => OriginOf(r.page) # None
           /\ OriginOf(r.page) # None => AllowedBy(compiled.origins, OriginOf(r.page))
           /\ r.type = "navigate" => /\ OriginOf(r.subject) # None
                                     /\ AllowedBy(compiled.origins, r.subject)
BY DEF Decide, Verdict

LEMMA DecideAssistAllows ==
  ASSUME NEW compiled, NEW r
  PROVE  DecideAssist(compiled, r).verdict = "allow" <=>
           /\ r.mode = "replay" /\ compiled.assist # None
           /\ OriginOf(r.page) # None
           /\ AllowedBy(compiled.origins, r.page)
BY DEF DecideAssist, Verdict

\* The type of an action is known exactly when it is one of the vocabulary.
LEMMA RiskIsKnown ==
  ASSUME NEW type
  PROVE  RiskOf(type) # "unknown" <=> type \in ActionTypes
BY DEF RiskOf, ActionTypes, RISK

\* An origin matches what the page it is the origin of matches.
LEMMA OriginIsEnough ==
  ASSUME NEW url, IsWeb(url), OriginOf(url) # None, NEW patterns
  PROVE  AllowedBy(patterns, OriginOf(url)) <=> AllowedBy(patterns, url)
<1>1. url # None
  BY DEF IsWeb
<1>2. /\ OriginOf(url).scheme = url.scheme /\ OriginOf(url).host = url.host
      /\ OriginOf(url).port = url.port
  BY DEF OriginOf
<1>3. PortOf(OriginOf(url)) = PortOf(url)
  BY <1>2 DEF PortOf
<1>4. ASSUME NEW pattern \in patterns
      PROVE  OriginMatches(pattern, OriginOf(url)) <=> OriginMatches(pattern, url)
  BY <1>1, <1>2, <1>3 DEF OriginMatches
<1> QED
  BY <1>4 DEF AllowedBy

\* The compiled patterns cover what the lines of the document cover.
LEMMA CoveredIsListed ==
  ASSUME NEW document, Loads(document), NEW url
  PROVE  AllowedBy(CompilePolicy(document).origins, url) <=> Listed(document, url)
<1>1. \A source \in document.origins : IsPattern(source)
  BY DEF Loads
<1> QED
  BY <1>1 DEF AllowedBy, Listed, CompilePolicy

\* In a document that loads, an entry is taken wherever it stands.
LEMMA PermittedIsWritten ==
  ASSUME NEW document, Loads(document), NEW mode \in MODES, NEW type
  PROVE  type \in CompilePolicy(document).permitted[mode] <=>
           /\ \E i \in DOMAIN document.actions :
                document.actions[i].type = type /\ Acceptable(document.actions[i])
           /\ document.modes[mode] # None => type \in document.modes[mode]
<1>1. CompilePolicy(document).permitted[mode] = Narrowed(document, mode)
  BY DEF CompilePolicy, Permitted
<1>2. \A i \in DOMAIN document.actions : Taken(document, i)
  BY DEF Loads
<1>3. type \in Overall(document) <=>
        \E i \in DOMAIN document.actions :
          document.actions[i].type = type /\ Acceptable(document.actions[i])
  BY <1>2 DEF Overall, Taken
<1> QED
  BY <1>1, <1>3 DEF Narrowed

\* What a document that loads is compiled to allows what it writes down.
LEMMA AllowedIffWritten ==
  ASSUME NEW document, Loads(document), NEW r \in Requests
  PROVE  r \in Allowed(CompilePolicy(document)) <=> WrittenDown(document, r)
<1> DEFINE compiled == CompilePolicy(document)
<1>1. r.mode \in MODES
  BY ModesAssumption
<1>2. OriginOf(r.page) # None <=> IsWeb(r.page)
  BY WhereaboutsAssumption DEF OriginOf
<1>3. r.type = "navigate" => (OriginOf(r.subject) # None <=> IsWeb(r.subject))
  BY WhereaboutsAssumption DEF OriginOf
<1>4. IsWeb(r.page) =>
        (AllowedBy(compiled.origins, OriginOf(r.page)) <=> Listed(document, r.page))
  BY <1>2, OriginIsEnough, CoveredIsListed
<1>5. AllowedBy(compiled.origins, r.subject) <=> Listed(document, r.subject)
  BY CoveredIsListed
<1>6. RiskOf(r.type) # "unknown" /\ r.type \in compiled.permitted[r.mode] <=>
        /\ \E i \in DOMAIN document.actions :
             /\ document.actions[i].type = r.type
             /\ RiskOf(r.type) = "risky" => Justified(document.actions[i].because)
        /\ document.modes[r.mode] # None => r.type \in document.modes[r.mode]
  <2>1. \A i \in DOMAIN document.actions : Acceptable(document.actions[i])
    BY DEF Loads, Taken
  <2>2. \A i \in DOMAIN document.actions : document.actions[i].type \in ActionTypes
    BY <2>1 DEF Acceptable
  <2> QED
    BY <1>1, <2>1, <2>2, PermittedIsWritten, RiskIsKnown DEF Acceptable
<1>7. r \in Allowed(compiled) <=> Decide(compiled, r).verdict = "allow"
  BY DEF Allowed
<1> HIDE DEF compiled
<1> QED
  BY <1>2, <1>3, <1>4, <1>5, <1>6, <1>7, DecideAllows DEF WrittenDown, compiled

-----------------------------------------------------------------------------
\* A policy in force was compiled from a document that loads, whatever the file
\* has become since (PolicyDocument.ts, loadPolicy before a run begins).
THEOREM PolicyIsCompiled == Spec => []FromItsFile
<1>1. Init => FromItsFile
  BY DEF Init, FromItsFile
<1>2. FromItsFile /\ [Next]_vars => FromItsFile'
  <2> SUFFICES ASSUME FromItsFile, [Next]_vars PROVE FromItsFile'
    OBVIOUS
  <2>1. CASE LoadPolicy
    <3>1. policy'.document = file /\ policy' = CompilePolicy(file) /\ Loads(file)
      BY <2>1 DEF LoadPolicy, CompilePolicy
    <3> QED
      BY <3>1 DEF FromItsFile
  <2>2. CASE UNCHANGED policy
    BY <2>2 DEF FromItsFile
  <2>3. [Next]_vars => LoadPolicy \/ UNCHANGED policy
    BY DEF Next, vars, AddAction, StrikeAction, AddOrigin, StrikeOrigin, ChangeMode,
           ChangeAssist, LoseFile, Write
  <2> QED
    BY <2>1, <2>2, <2>3
<1> QED
  BY <1>1, <1>2, PTL DEF Spec

\* What a loaded policy allows is exactly what its file writes down, whatever is
\* written in it and whatever is asked (compilePolicy and decide).
THEOREM PolicyAllowsWhatIsWritten == Spec => []AllowedIsWrittenDown
<1>1. FromItsFile => AllowedIsWrittenDown
  <2> SUFFICES ASSUME FromItsFile, policy # None, NEW r \in Requests
               PROVE  r \in Allowed(policy) <=> WrittenDown(policy.document, r)
    BY DEF AllowedIsWrittenDown
  <2>1. policy = CompilePolicy(policy.document) /\ Loads(policy.document)
    BY DEF FromItsFile
  <2>2. r \in Allowed(CompilePolicy(policy.document)) <=> WrittenDown(policy.document, r)
    BY <2>1, AllowedIffWritten
  <2> QED
    BY <2>1, <2>2
<1> QED
  BY <1>1, PolicyIsCompiled, PTL

\* No action is allowed from or to, and no screen is sent from, a page off the
\* list, whatever the file became (decide, decideAssist).
THEOREM PolicyKeepsToTheList == Spec => []NothingOffTheList
<1>1. NothingOffTheList
  <2> SUFFICES ASSUME policy # None PROVE NothingOffTheList
    BY DEF NothingOffTheList
  <2>1. ASSUME NEW r \in Allowed(policy)
        PROVE  /\ IsWeb(r.page) => AllowedBy(policy.origins, r.page)
               /\ r.type = "navigate" => AllowedBy(policy.origins, r.subject)
    <3>1. r \in Requests /\ Decide(policy, r).verdict = "allow"
      BY DEF Allowed
    <3>2. IsWeb(r.page) => OriginOf(r.page) # None
      BY <3>1, WhereaboutsAssumption
    <3> QED
      BY <3>1, <3>2, DecideAllows, OriginIsEnough
  <2>2. ASSUME NEW r \in AllowedToAsk(policy)
        PROVE  policy.assist # None /\ AllowedBy(policy.origins, r.page)
    <3>1. DecideAssist(policy, r).verdict = "allow"
      BY DEF AllowedToAsk
    <3> QED
      BY <3>1, DecideAssistAllows
  <2> QED
    BY <2>1, <2>2 DEF NothingOffTheList
<1> QED
  BY <1>1, PTL

\* Striking lines out of a policy never allows a run anything it was denied
\* before, however many lines and whichever they are (compilePolicy).
THEOREM StrikingOutAllowsNothing == Spec => StrikingOutNeverAllows
<1> DEFINE Step == /\ policy # None /\ policy' # policy
                   /\ StruckOut(policy.document, policy'.document)
           Shrinks == /\ Allowed(policy') \subseteq Allowed(policy)
                      /\ AllowedToAsk(policy') \subseteq AllowedToAsk(policy)
<1>1. FromItsFile /\ [Next]_vars => [Step => Shrinks]_vars
  <2> SUFFICES ASSUME FromItsFile, Next, Step PROVE Shrinks
    BY DEF vars
  <2>1. LoadPolicy
    BY DEF Next, AddAction, StrikeAction, AddOrigin, StrikeOrigin, ChangeMode,
           ChangeAssist, LoseFile, Write
  <2> DEFINE old == policy.document
             new == policy'.document
  <2>2. policy = CompilePolicy(old) /\ Loads(old)
    BY DEF FromItsFile
  <2>3. new = file /\ policy' = CompilePolicy(new) /\ Loads(new)
    BY <2>1 DEF LoadPolicy, CompilePolicy
  <2>4. StruckOut(old, new)
    OBVIOUS
  <2>5. ASSUME NEW url, Listed(new, url) PROVE Listed(old, url)
    BY <2>4, <2>5 DEF Listed, StruckOut
  <2>6. ASSUME NEW r \in Requests, WrittenDown(new, r) PROVE WrittenDown(old, r)
    <3> HIDE DEF old, new
    <3>1. PICK i \in DOMAIN new.actions :
            /\ new.actions[i].type = r.type
            /\ RiskOf(r.type) = "risky" => Justified(new.actions[i].because)
      BY <2>6 DEF WrittenDown
    <3>2. PICK j \in DOMAIN old.actions : new.actions[i] = old.actions[j]
      BY <2>4 DEF StruckOut
    <3>3. old.modes[r.mode] # None => r.type \in old.modes[r.mode]
      BY <2>4, <2>6, ModesAssumption DEF StruckOut, WrittenDown
    <3>4. /\ r.type # "navigate" => IsWeb(r.page)
          /\ IsWeb(r.page) => Listed(old, r.page)
          /\ r.type = "navigate" => IsWeb(r.subject) /\ Listed(old, r.subject)
      BY <2>5, <2>6 DEF WrittenDown
    <3>5. \E k \in DOMAIN old.actions :
            /\ old.actions[k].type = r.type
            /\ RiskOf(r.type) = "risky" => Justified(old.actions[k].because)
      BY <3>1, <3>2
    <3> QED
      BY <3>3, <3>4, <3>5 DEF WrittenDown
  <2>7. Allowed(policy') \subseteq Allowed(policy)
    <3> SUFFICES ASSUME NEW r \in Allowed(policy') PROVE r \in Allowed(policy)
      OBVIOUS
    <3>1. r \in Requests
      BY DEF Allowed
    <3>2. WrittenDown(new, r)
      BY <2>3, <3>1, AllowedIffWritten
    <3> QED
      BY <2>2, <2>6, <3>1, <3>2, AllowedIffWritten
  <2>8. AllowedToAsk(policy') \subseteq AllowedToAsk(policy)
    <3> SUFFICES ASSUME NEW r \in AllowedToAsk(policy') PROVE r \in AllowedToAsk(policy)
      OBVIOUS
    <3>1. r \in Consultations /\ DecideAssist(policy', r).verdict = "allow"
      BY DEF AllowedToAsk
    <3>2. /\ r.mode = "replay" /\ policy'.assist # None /\ OriginOf(r.page) # None
          /\ AllowedBy(policy'.origins, r.page)
      BY <3>1, DecideAssistAllows
    <3>3. policy.assist # None
      BY <2>2, <2>3, <2>4, <3>2 DEF StruckOut, CompilePolicy
    <3>4. AllowedBy(policy.origins, r.page)
      BY <2>2, <2>3, <2>5, <3>2, CoveredIsListed
    <3> QED
      BY <3>1, <3>2, <3>3, <3>4, DecideAssistAllows DEF AllowedToAsk
  <2> QED
    BY <2>7, <2>8
<1> QED
  BY <1>1, PolicyIsCompiled, PTL DEF Spec, StrikingOutNeverAllows

-----------------------------------------------------------------------------
\* Choosing, and what is found

\* A set of naturals has a least member.
LEMMA Least ==
  ASSUME NEW T, T \subseteq Nat, T # {}
  PROVE  \E n \in T : \A m \in T : n <= m
<1>1. \E x \in T : \A y \in T : ~ (<<y, x>> \in OpToRel(<, Nat))
  BY NatLessThanWellFounded, WFMin
<1>2. \A y, x \in Nat : <<y, x>> \in OpToRel(<, Nat) <=> y < x
  BY Zenon DEF OpToRel
<1>3. \E x \in T : \A y \in T : ~ (y < x)
  BY <1>1, <1>2, Zenon
<1> QED
  BY <1>3

\* What is chosen of the first n of a graded set.
ChosenOf(all, bars, rank, n, some) ==
  /\ some \subseteq all
  /\ \A x \in all : rank[x] < n => (x \in some <=> \A y \in all : <<y, x>> \in bars => y \notin some)

\* The choice is made, one after another, where nothing is barred by what comes after it.
LEMMA ChosenExists ==
  ASSUME NEW all, NEW bars, NEW rank, \A x \in all : rank[x] \in Nat,
         \A x, y \in all : <<y, x>> \in bars => rank[y] < rank[x],
         NEW n \in Nat
  PROVE  \E some : ChosenOf(all, bars, rank, n, some)
<1> DEFINE T == {k \in Nat : ~\E some : ChosenOf(all, bars, rank, k, some)}
<1> SUFFICES ASSUME T # {} PROVE FALSE
  OBVIOUS
<1>1. PICK k \in T : \A m \in T : k <= m
  <2>1. T \subseteq Nat
    OBVIOUS
  <2> HIDE DEF T
  <2> QED
    BY <2>1, Least
<1>2. k \in Nat /\ ~\E some : ChosenOf(all, bars, rank, k, some)
  BY <1>1
<1>3. k # 0
  <2>1. ChosenOf(all, bars, rank, 0, {})
    BY DEF ChosenOf
  <2> QED
    BY <1>2, <2>1
<1>4. PICK some : ChosenOf(all, bars, rank, k - 1, some)
  <2>1. k - 1 \in Nat /\ ~(k <= k - 1)
    BY <1>2, <1>3
  <2>2. k - 1 \notin T
    BY <1>1, <2>1
  <2> QED
    BY <2>1, <2>2
<1> DEFINE more == {x \in all : rank[x] < k /\ \A y \in all : <<y, x>> \in bars => y \notin some}
<1>5. \A x \in all : rank[x] < k - 1 => (x \in more <=> x \in some)
  <2>1. \A x \in all : rank[x] < k - 1 => rank[x] < k
    BY <1>2
  <2> QED
    BY <1>4, <2>1 DEF ChosenOf
<1>6. \A x \in all : rank[x] < k => (x \in more <=> \A y \in all : <<y, x>> \in bars => y \notin more)
  <2> SUFFICES ASSUME NEW x \in all, rank[x] < k
               PROVE  x \in more <=> \A y \in all : <<y, x>> \in bars => y \notin more
    OBVIOUS
  <2>1. \A y \in all : <<y, x>> \in bars => rank[y] < k - 1
    BY <1>2
  <2>2. \A y \in all : <<y, x>> \in bars => (y \in more <=> y \in some)
    BY <1>5, <2>1
  <2> QED
    BY <2>2
<1>7. ChosenOf(all, bars, rank, k, more)
  <2>1. more \subseteq all
    OBVIOUS
  <2> HIDE DEF more
  <2> QED
    BY <1>6, <2>1 DEF ChosenOf
<1> QED
  BY <1>2, <1>7

LEMMA ChosenIs ==
  ASSUME NEW all, NEW bars, NEW N \in Nat, NEW rank, \A x \in all : rank[x] \in 0..N,
         \A x, y \in all : <<y, x>> \in bars => rank[y] < rank[x]
  PROVE  /\ Chosen(all, bars) \subseteq all
         /\ \A x \in all : x \in Chosen(all, bars) <=>
                             \A y \in all : <<y, x>> \in bars => y \notin Chosen(all, bars)
<1> DEFINE Choice(g) == [x \in all |-> \A y \in all : <<y, x>> \in bars => ~g[y]]
           c == CHOOSE g : g = Choice(g)
<1>1. PICK some : ChosenOf(all, bars, rank, N + 1, some)
  BY ChosenExists
<1>2. some \subseteq all /\ \A x \in all : x \in some <=> \A y \in all : <<y, x>> \in bars => y \notin some
  BY <1>1 DEF ChosenOf
<1> DEFINE h == [x \in all |-> x \in some]
<1>3. h = Choice(h)
  <2>1. \A x \in all : h[x] <=> x \in some
    BY Zenon
  <2>2. \A x \in all : (x \in some) = (\A y \in all : <<y, x>> \in bars => ~h[y])
    <3> TAKE x \in all
    <3> DEFINE Q == \A y \in all : <<y, x>> \in bars => ~h[y]
    <3>1. Q \in BOOLEAN
      OBVIOUS
    <3>2. x \in some <=> Q
      <4> HIDE DEF h
      <4> QED
        BY <1>2, <2>1
    <3> HIDE DEF Q
    <3>3. (x \in some) = Q
      BY <3>1, <3>2, Zenon
    <3> QED
      BY <3>3 DEF Q
  <2> QED
    BY <2>2, Zenon
<1>4. c = Choice(c)
  BY <1>3, Zenon
<1>5. Chosen(all, bars) = {x \in all : c[x]}
  BY Zenon DEF Chosen
<1>6. \A x \in all : c[x] = (\A y \in all : <<y, x>> \in bars => ~c[y])
  BY <1>4, Zenon
<1> HIDE DEF c
<1> QED
  BY <1>5, <1>6, Zenon

-----------------------------------------------------------------------------
\* A sequence, whatever it is of.
Listing(s) == \E S : s \in Seq(S)

LEMMA LenOfListing ==
  ASSUME NEW s, Listing(s)
  PROVE  Len(s) \in Nat /\ DOMAIN s = 1..Len(s) /\ (s = <<>> <=> Len(s) = 0)
<1>1. PICK S : s \in Seq(S)
  BY DEF Listing
<1> QED
  BY <1>1

\* What is found is somewhere, and where something is, something is found.
LEMMA FoundIs ==
  ASSUME NEW text, Listing(text), NEW find, Listing(find), find # <<>>
  PROVE  /\ \A i \in Found(find, text) : i \in DOMAIN text /\ Occurs(find, text, i)
         /\ \A j \in DOMAIN text : Occurs(find, text, j) =>
              \E i \in Found(find, text) : i <= j /\ j < i + Len(find)
<1> DEFINE all == {i \in DOMAIN text : Occurs(find, text, i)}
           bars == {b \in all \X all : b[1] < b[2] /\ b[2] < b[1] + Len(find)}
           rank == [i \in all |-> i]
<1>1. Found(find, text) = Chosen(all, bars)
  BY DEF Found
<1>2. Len(text) \in Nat /\ DOMAIN text = 1..Len(text) /\ Len(find) \in Nat /\ Len(find) # 0
  BY LenOfListing
<1>3. all \subseteq Nat /\ \A i \in all : rank[i] \in 0..Len(text)
  BY <1>2
<1>4. \A x, y \in all : <<y, x>> \in bars <=> y < x /\ x < y + Len(find)
  OBVIOUS
<1>5. \A x, y \in all : <<y, x>> \in bars => rank[y] < rank[x]
  BY <1>4
<1> HIDE DEF bars, rank
<1>6. /\ Chosen(all, bars) \subseteq all
      /\ \A x \in all : x \in Chosen(all, bars) <=>
                          \A y \in all : <<y, x>> \in bars => y \notin Chosen(all, bars)
  <2> HIDE DEF all
  <2> QED
    BY <1>2, <1>3, <1>5, ChosenIs
<1>7. \A j \in all : \E i \in Chosen(all, bars) : i <= j /\ j < i + Len(find)
  <2> TAKE j \in all
  <2>1. CASE j \in Chosen(all, bars)
    <3>1. j <= j /\ j < j + Len(find)
      BY <1>2, <1>3
    <3> QED
      BY <2>1, <3>1
  <2>2. CASE j \notin Chosen(all, bars)
    <3>1. PICK y \in all : <<y, j>> \in bars /\ y \in Chosen(all, bars)
      BY <1>6, <2>2
    <3>2. y <= j /\ j < y + Len(find)
      BY <1>3, <1>4, <3>1
    <3> QED
      BY <3>1, <3>2
  <2> QED
    BY <2>1, <2>2
<1> QED
  BY <1>1, <1>6, <1>7

-----------------------------------------------------------------------------
\* Needles that can be looked for.
Fit(needles) ==
  /\ IsFiniteSet(needles)
  /\ \A n \in needles : Listing(n.find) /\ n.find # <<>> /\ n.given \in Nat

LEMMA SizeIsNat ==
  ASSUME NEW text, Listing(text)
  PROVE  Size(text) \in Nat
<1> DEFINE long == {i \in DOMAIN text : text[i] \in {PercentSpace, PercentQuote}}
<1>1. Len(text) \in Nat /\ DOMAIN text = 1..Len(text)
  BY LenOfListing
<1>2. IsFiniteSet(long)
  <2>1. IsFiniteSet(1..Len(text)) /\ long \subseteq 1..Len(text)
    BY <1>1, FS_Interval
  <2> QED
    BY <2>1, FS_Subset
<1>3. Cardinality(long) \in Nat
  BY <1>2, FS_CardinalityType
<1> HIDE DEF long
<1> QED
  BY <1>1, <1>3 DEF Size, long

LEMMA SoonerRank ==
  ASSUME NEW needles, Fit(needles), NEW n \in needles, NEW m \in needles
  PROVE  LET rank(k) == Cardinality({q \in needles : Sooner(q, k)})
         IN /\ rank(n) \in 0..Cardinality(needles)
            /\ Sooner(m, n) => rank(m) < rank(n)
<1> DEFINE S(k) == {q \in needles : Sooner(q, k)}
<1>1. \A k \in needles : Size(k.find) \in Nat /\ k.given \in Nat
  BY SizeIsNat DEF Fit
<1>2. ASSUME NEW k \in needles
      PROVE  IsFiniteSet(S(k)) /\ Cardinality(S(k)) \in 0..Cardinality(needles)
  <2>1. IsFiniteSet(needles) /\ S(k) \subseteq needles
    BY DEF Fit
  <2> HIDE DEF S
  <2>2. IsFiniteSet(S(k)) /\ Cardinality(S(k)) <= Cardinality(needles)
    BY <2>1, FS_Subset
  <2>3. Cardinality(S(k)) \in Nat /\ Cardinality(needles) \in Nat
    BY <2>1, <2>2, FS_CardinalityType
  <2> QED
    BY <2>2, <2>3
<1>3. ASSUME Sooner(m, n) PROVE Cardinality(S(m)) < Cardinality(S(n))
  <2>1. S(m) \subseteq S(n)
    <3> SUFFICES ASSUME NEW q \in needles, Sooner(q, m) PROVE Sooner(q, n)
      OBVIOUS
    <3> QED
      BY <1>1, <1>3 DEF Sooner
  <2>2. m \in S(n) /\ m \notin S(m)
    BY <1>1, <1>3 DEF Sooner
  <2> HIDE DEF S
  <2>3. S(m) # S(n)
    BY <2>2
  <2>4. Cardinality(S(m)) <= Cardinality(S(n)) /\ Cardinality(S(m)) # Cardinality(S(n))
    BY <1>2, <2>1, <2>3, FS_Subset
  <2>5. Cardinality(S(m)) \in Nat /\ Cardinality(S(n)) \in Nat
    BY <1>2, FS_CardinalityType
  <2> QED
    BY <2>4, <2>5
<1> QED
  BY <1>2, <1>3

LEMMA PlacesAre ==
  ASSUME NEW text, Listing(text), NEW needles, Fit(needles)
  PROVE  /\ \A p \in Places(needles, text) :
              /\ p.needle \in needles /\ p.span.start \in DOMAIN text
              /\ Occurs(p.needle.find, text, p.span.start)
              /\ p.span.end = p.span.start + Len(p.needle.find) /\ p.span.text = <<p.needle.replace>>
         /\ \A n \in needles : \A j \in DOMAIN text : Occurs(n.find, text, j) =>
              \E p \in Places(needles, text) : p.needle = n
<1> DEFINE place(n, i) == [needle |-> n, span |-> Span(i, i + Len(n.find), <<n.replace>>)]
<1>1. \A p : p \in Places(needles, text) <=>
               \E n \in needles : \E i \in Found(n.find, text) : p = place(n, i)
  BY DEF Places
<1>2. \A n \in needles : \A i \in Found(n.find, text) : i \in DOMAIN text /\ Occurs(n.find, text, i)
  BY FoundIs DEF Fit
<1>3. \A n, i : /\ place(n, i).needle = n /\ place(n, i).span.start = i
                /\ place(n, i).span.end = i + Len(n.find) /\ place(n, i).span.text = <<n.replace>>
  BY DEF Span
<1>4. ASSUME NEW n \in needles, NEW j \in DOMAIN text, Occurs(n.find, text, j)
      PROVE  \E p \in Places(needles, text) : p.needle = n
  <2>1. PICK i \in Found(n.find, text) : TRUE
    BY <1>4, FoundIs DEF Fit
  <2> HIDE DEF place
  <2> QED
    BY <1>1, <1>3, <2>1
<1>5. ASSUME NEW p \in Places(needles, text)
      PROVE  /\ p.needle \in needles /\ p.span.start \in DOMAIN text
             /\ Occurs(p.needle.find, text, p.span.start)
             /\ p.span.end = p.span.start + Len(p.needle.find) /\ p.span.text = <<p.needle.replace>>
  <2>1. PICK n \in needles : \E i \in Found(n.find, text) : p = place(n, i)
    BY <1>1
  <2>0. PICK i \in Found(n.find, text) : p = place(n, i)
    BY <2>1
  <2>2. /\ p.needle = n /\ p.span.start = i
        /\ p.span.end = i + Len(n.find) /\ p.span.text = <<n.replace>>
    <3> HIDE DEF place
    <3> QED
      BY <1>3, <2>0
  <2> HIDE DEF place
  <2> QED
    BY <1>2, <2>2
<1> QED
  BY <1>4, <1>5

\* The spans of the values themselves: each is where its needle is, and what is
\* somewhere in the text is crossed by one of them somewhere.
LEMMA RawSpansAre ==
  ASSUME NEW text, Listing(text), NEW needles, Fit(needles)
  PROVE  /\ \A r \in RawSpans(needles, text) :
              \E n \in needles :
                /\ r.start \in DOMAIN text /\ Occurs(n.find, text, r.start)
                /\ r.end = r.start + Len(n.find) /\ r.text = <<n.replace>>
         /\ \A n \in needles : \A j \in DOMAIN text : Occurs(n.find, text, j) =>
              \E r \in RawSpans(needles, text) : \E i \in DOMAIN text :
                Occurs(n.find, text, i) /\ r.start < i + Len(n.find) /\ i < r.end
<1> DEFINE all == Places(needles, text)
           bars == {b \in all \X all : /\ Sooner(b[1].needle, b[2].needle)
                                       /\ Crosses(b[1].span, b[2].span)}
           rank(k) == Cardinality({q \in needles : Sooner(q, k)})
           ranks == [p \in all |-> rank(p.needle)]
           N == Cardinality(needles)
<1>1. RawSpans(needles, text) = {p.span : p \in Chosen(all, bars)}
  BY DEF RawSpans
<1>2. \A x, y \in all : <<y, x>> \in bars <=> Sooner(y.needle, x.needle) /\ Crosses(y.span, x.span)
  <2> HIDE DEF all
  <2> QED
    OBVIOUS
<1>3. N \in Nat
  BY FS_CardinalityType DEF Fit
<1>4. \A p \in all : p.needle \in needles
  BY PlacesAre
<1>5. \A m, n \in needles : rank(n) \in 0..N /\ (Sooner(m, n) => rank(m) < rank(n))
  BY SoonerRank
<1> HIDE DEF all, bars, rank, N
<1>6. \A p \in all : ranks[p] = rank(p.needle)
  OBVIOUS
<1> HIDE DEF ranks
<1>7. /\ \A x \in all : ranks[x] \in 0..N
      /\ \A x, y \in all : <<y, x>> \in bars => ranks[y] < ranks[x]
  BY <1>2, <1>4, <1>5, <1>6
<1>8. /\ Chosen(all, bars) \subseteq all
      /\ \A x \in all : x \in Chosen(all, bars) <=>
                          \A y \in all : <<y, x>> \in bars => y \notin Chosen(all, bars)
  BY <1>3, <1>7, ChosenIs
<1>9. \A p \in all : /\ p.span.start \in DOMAIN text
                     /\ Occurs(p.needle.find, text, p.span.start)
                     /\ p.span.end = p.span.start + Len(p.needle.find) /\ p.span.text = <<p.needle.replace>>
  BY PlacesAre DEF all
<1>10. ASSUME NEW r \in RawSpans(needles, text)
       PROVE  \E n \in needles :
                /\ r.start \in DOMAIN text /\ Occurs(n.find, text, r.start)
                /\ r.end = r.start + Len(n.find) /\ r.text = <<n.replace>>
  BY <1>1, <1>4, <1>8, <1>9
<1>11. ASSUME NEW n \in needles, NEW j \in DOMAIN text, Occurs(n.find, text, j)
       PROVE  \E r \in RawSpans(needles, text) : \E i \in DOMAIN text :
                Occurs(n.find, text, i) /\ r.start < i + Len(n.find) /\ i < r.end
  <2>1. PICK p \in all : p.needle = n
    BY <1>11, PlacesAre DEF all
  <2> DEFINE i == p.span.start
  <2>2. /\ i \in DOMAIN text /\ Occurs(n.find, text, i)
        /\ p.span.end = i + Len(n.find)
    BY <1>9, <2>1 DEF Span
  <2>3. i \in Nat /\ Len(n.find) \in Nat /\ Len(n.find) # 0
    BY <2>2, LenOfListing DEF Fit
  <2>4. \E q \in Chosen(all, bars) : q.span.start < p.span.end /\ p.span.start < q.span.end
    <3>1. CASE p \in Chosen(all, bars)
      <4>1. p.span.start < p.span.end
        BY <2>2, <2>3
      <4> QED
        BY <3>1, <4>1
    <3>2. CASE p \notin Chosen(all, bars)
      <4>1. PICK q \in all : <<q, p>> \in bars /\ q \in Chosen(all, bars)
        BY <1>8, <3>2
      <4>2. q.span.start < p.span.end /\ q.span.end > p.span.start
        BY <1>2, <4>1 DEF Crosses
      <4> QED
        BY <4>1, <4>2
    <3> QED
      BY <3>1, <3>2
  <2>5. PICK q \in Chosen(all, bars) : q.span.start < p.span.end /\ p.span.start < q.span.end
    BY <2>4
  <2>6. q.span \in RawSpans(needles, text)
    BY <1>1
  <2> QED
    BY <2>2, <2>5, <2>6
<1> QED
  BY <1>10, <1>11

\* The same places, other marks.
LEMMA SameLength ==
  ASSUME NEW text, Listing(text), NEW other, NEW M,
         DOMAIN other = DOMAIN text, other = [i \in DOMAIN text |-> other[i]],
         \A i \in DOMAIN text : other[i] \in M
  PROVE  other \in Seq(M) /\ Len(other) = Len(text)
<1>1. Len(text) \in Nat /\ DOMAIN text = 1..Len(text)
  BY LenOfListing
<1>2. other \in [1..Len(text) -> M]
  BY <1>1
<1> QED
  BY <1>1, <1>2

LEMMA SpellingsAre ==
  ASSUME NEW value, Listing(value.text)
  PROVE  /\ Spellings(value)[1] = value.text
         /\ \A k \in 1..3 : /\ Listing(Spellings(value)[k])
                            /\ Len(Spellings(value)[k]) = Len(value.text)
<1> DEFINE text == value.text
           a == PercentEncoded(text)
           b == FormEncoded(text)
<1>1. a \in Seq({a[i] : i \in DOMAIN text}) /\ Len(a) = Len(text)
  <2>1. DOMAIN a = DOMAIN text /\ a = [i \in DOMAIN text |-> a[i]]
    BY DEF PercentEncoded, Each
  <2> HIDE DEF a
  <2> QED
    BY <2>1, SameLength
<1>2. Listing(a)
  BY <1>1 DEF Listing
<1>3. b \in Seq({b[i] : i \in DOMAIN a}) /\ Len(b) = Len(a)
  <2>1. DOMAIN b = DOMAIN a /\ b = [i \in DOMAIN a |-> b[i]]
    BY DEF FormEncoded, Each
  <2> HIDE DEF a, b
  <2> QED
    BY <1>2, <2>1, SameLength
<1>4. Listing(b)
  BY <1>3 DEF Listing
<1>5. Spellings(value) = <<text, a, b>>
  BY DEF Spellings
<1> HIDE DEF a, b
<1>6. \A k \in 1..3 : k = 1 \/ k = 2 \/ k = 3
  OBVIOUS
<1> QED
  BY <1>1, <1>2, <1>3, <1>4, <1>5, <1>6

\* A value that is there to be taken out is looked for, as it is.
LEMMA NeedlesAre ==
  ASSUME NEW values, Listing(values), \A i \in DOMAIN values : Listing(values[i].text)
  PROVE  /\ Fit(Needles(values))
         /\ \A n \in Needles(values) :
              \E i \in DOMAIN values : n.replace = PlaceholderFor(values[i].label)
         /\ \A i \in DOMAIN values : values[i].text # <<>> =>
              \E n \in Needles(values) : n.find = values[i].text
<1> DEFINE some == {j \in DOMAIN values : values[j].text # <<>>}
           needle(i, k) == [find |-> Spellings(values[i])[k],
                            replace |-> PlaceholderFor(values[i].label), given |-> 3 * i + k]
           spelled == {needle(i, k) : i \in some, k \in 1..3}
           first(n) == \A other \in spelled : other.find = n.find => n.given <= other.given
           L == Len(values)
<1>1. Needles(values) = {n \in spelled : first(n)}
  BY DEF Needles
<1>2. L \in Nat /\ DOMAIN values = 1..L
  BY LenOfListing
<1>3. \A i \in some, k \in 1..3 :
        /\ needle(i, k).find = Spellings(values[i])[k]
        /\ needle(i, k).replace = PlaceholderFor(values[i].label)
        /\ needle(i, k).given = 3 * i + k
        /\ needle(i, k) \in spelled
  OBVIOUS
<1>4. \A n \in spelled : \E i \in some, k \in 1..3 : n = needle(i, k)
  OBVIOUS
<1> HIDE DEF needle, spelled
<1>5. \A n \in spelled : \E i \in some, k \in 1..3 :
        /\ n = needle(i, k) /\ n.find = Spellings(values[i])[k]
        /\ n.replace = PlaceholderFor(values[i].label) /\ n.given = 3 * i + k
  <2> TAKE n \in spelled
  <2>1. PICK i \in some, k \in 1..3 : n = needle(i, k)
    BY <1>4
  <2> WITNESS i \in some, k \in 1..3
  <2> QED
    BY <1>3, <2>1
<1>6. \A n \in spelled : Listing(n.find) /\ n.find # <<>> /\ n.given \in 0..(3 * L + 3)
  <2> TAKE n \in spelled
  <2>1. PICK i \in some, k \in 1..3 : n.find = Spellings(values[i])[k] /\ n.given = 3 * i + k
    BY <1>5
  <2>2. /\ Listing(Spellings(values[i])[k]) /\ Len(Spellings(values[i])[k]) = Len(values[i].text)
        /\ Len(values[i].text) # 0
    BY SpellingsAre, LenOfListing
  <2>3. i \in 1..L
    BY <1>2
  <2> QED
    BY <1>2, <2>1, <2>2, <2>3, LenOfListing
<1>7. IsFiniteSet(spelled)
  <2> DEFINE f == [n \in spelled |-> n.given]
             T == 0..(3 * L + 3)
  <2>1. f \in [spelled -> T]
    BY <1>6
  <2>2. \A n, m \in spelled : f[n] = f[m] => n = m
    <3> SUFFICES ASSUME NEW n \in spelled, NEW m \in spelled, n.given = m.given PROVE n = m
      OBVIOUS
    <3>1. PICK i \in some, k \in 1..3 : n = needle(i, k) /\ n.given = 3 * i + k
      BY <1>5
    <3>2. PICK j \in some, l \in 1..3 : m = needle(j, l) /\ m.given = 3 * j + l
      BY <1>5
    <3>3. i \in Nat /\ j \in Nat /\ 3 * i + k = 3 * j + l
      BY <1>2, <3>1, <3>2
    <3>4. i = j /\ k = l
      BY <3>3
    <3> QED
      BY <3>1, <3>2, <3>4
  <2>3. IsFiniteSet(T)
    BY <1>2, FS_Interval
  <2> HIDE DEF f, T
  <2>4. f \in Injection(spelled, T)
    BY <2>1, <2>2 DEF Injection, IsInjective
  <2> QED
    BY <2>3, <2>4, FS_Injection
<1>8. Fit(Needles(values))
  <2>1. Needles(values) \subseteq spelled
    BY <1>1
  <2>2. IsFiniteSet(Needles(values))
    BY <1>7, <2>1, FS_Subset
  <2> QED
    BY <1>2, <1>6, <2>1, <2>2 DEF Fit
<1>9. ASSUME NEW i \in DOMAIN values, values[i].text # <<>>
      PROVE  \E n \in Needles(values) : n.find = values[i].text
  <2> DEFINE T == {n.given : n \in {m \in spelled : m.find = values[i].text}}
  <2>1. needle(i, 1) \in spelled /\ needle(i, 1).find = values[i].text
    BY <1>3, <1>9, SpellingsAre
  <2>2. T \subseteq Nat /\ T # {}
    BY <1>2, <1>6, <2>1
  <2>3. PICK g \in T : \A m \in T : g <= m
    <3> HIDE DEF T
    <3> QED
      BY <2>2, Least
  <2>4. PICK n \in spelled : n.find = values[i].text /\ n.given = g
    OBVIOUS
  <2>5. first(n)
    BY <2>3, <2>4
  <2> QED
    BY <1>1, <2>4, <2>5
<1>10. \A n \in Needles(values) : \E i \in DOMAIN values : n.replace = PlaceholderFor(values[i].label)
  BY <1>1, <1>5
<1> QED
  BY <1>8, <1>9, <1>10

-----------------------------------------------------------------------------
\* Spans of a text of n marks, none of which is replaced by more than it holds.
Spanning(spans, n, M) ==
  \A s \in spans : /\ s.start \in 1..n /\ s.end \in 1..(n + 1) /\ s.start < s.end
                   /\ s.text \in Seq(M) /\ Len(s.text) <= s.end - s.start

\* Where no span goes across.
Edge(spans, i) == \A s \in spans : ~(s.start < i /\ i < s.end)

Overlap == PlaceholderFor("overlapping-values")

\* What spans that cross become goes from one edge to the next.
LEMMA MergedAre ==
  ASSUME NEW n \in Nat, NEW M, NEW spans, Spanning(spans, n, M), Overlap \in M
  PROVE  /\ Spanning(Merged(spans), n, M)
         /\ \A m \in Merged(spans) :
              /\ Edge(spans, m.start) /\ Edge(spans, m.end)
              /\ \A i \in (m.start + 1)..(m.end - 1) : ~Edge(spans, i)
              /\ m \in spans \/ (Len(m.text) = 1 /\ m.end - m.start # 1)
              /\ \E s \in spans : s.start = m.start
         /\ \A s \in spans : Edge(spans, s.start) => \E m \in Merged(spans) : m.start = s.start
<1> DEFINE whole == {s \in spans : Edge(spans, s.start) /\ Edge(spans, s.end)}
           between(c) == /\ c.start < c.end /\ Edge(spans, c.start) /\ Edge(spans, c.end)
                         /\ \A i \in (c.start + 1)..(c.end - 1) : ~Edge(spans, i)
           joined == {Span(s.start, e.end, <<Overlap>>) : s \in spans, e \in spans}
           crossed == {c \in joined : between(c) /\ \A s \in whole : s.start # c.start}
<1>1. Merged(spans) = whole \cup crossed
  BY DEF Merged, Edge, Overlap
<1>2. \A s \in spans : s.start \in Nat /\ s.end \in Nat /\ s.start < s.end /\ s.end <= n + 1
  BY DEF Spanning
<1>3. \A a, b : Span(a, b, <<Overlap>>).start = a /\ Span(a, b, <<Overlap>>).end = b
                /\ Span(a, b, <<Overlap>>).text = <<Overlap>>
  BY DEF Span
<1>4. \A c \in joined : \E s, e \in spans : c.start = s.start /\ c.end = e.end /\ c.text = <<Overlap>>
  BY <1>3
<1>5. \A s, e \in spans : Span(s.start, e.end, <<Overlap>>) \in joined
  OBVIOUS
<1> HIDE DEF joined
<1>6. ASSUME NEW c \in crossed
      PROVE  /\ c.start \in 1..n /\ c.end \in 1..(n + 1) /\ c.start < c.end
             /\ c.text \in Seq(M) /\ Len(c.text) = 1 /\ c.end - c.start # 1
             /\ Len(c.text) <= c.end - c.start
  <2>1. PICK s \in spans, e \in spans : c.start = s.start /\ c.end = e.end /\ c.text = <<Overlap>>
    BY <1>4
  <2>2. c.start \in 1..n /\ c.end \in 1..(n + 1) /\ c.start < c.end
    BY <2>1 DEF Spanning
  <2>3. c.end - c.start # 1
    <3> SUFFICES ASSUME c.end = c.start + 1 PROVE FALSE
      BY <2>2
    <3>1. s.end = c.end
      <4>1. ~(s.start < c.end /\ c.end < s.end)
        BY DEF Edge
      <4> QED
        BY <1>2, <2>1, <4>1
    <3>2. s \in whole /\ s.start = c.start
      BY <2>1, <3>1
    <3> QED
      BY <3>2
  <2>4. c.text \in Seq(M) /\ Len(c.text) = 1
    BY <2>1
  <2>5. 1 <= c.end - c.start
    BY <2>2
  <2> QED
    BY <2>2, <2>3, <2>4, <2>5
<1>7. Spanning(Merged(spans), n, M)
  BY <1>1, <1>6 DEF Spanning
<1>8. ASSUME NEW m \in Merged(spans)
      PROVE  /\ Edge(spans, m.start) /\ Edge(spans, m.end)
             /\ \A i \in (m.start + 1)..(m.end - 1) : ~Edge(spans, i)
             /\ m \in spans \/ (Len(m.text) = 1 /\ m.end - m.start # 1)
             /\ \E s \in spans : s.start = m.start
  <2>1. CASE m \in whole
    <3>1. \A i \in (m.start + 1)..(m.end - 1) : m.start < i /\ i < m.end
      BY <1>2, <2>1
    <3> QED
      BY <2>1, <3>1 DEF Edge
  <2>2. CASE m \in crossed
    BY <1>4, <1>6, <2>2
  <2> QED
    BY <1>1, <2>1, <2>2
<1>9. ASSUME NEW s \in spans, Edge(spans, s.start)
      PROVE  \E m \in Merged(spans) : m.start = s.start
  <2> DEFINE T == {i \in Nat : s.start < i /\ Edge(spans, i)}
  <2>1. n + 1 \in T
    BY <1>2 DEF Edge, Spanning
  <2>2. PICK b \in T : \A i \in T : b <= i
    <3>1. T \subseteq Nat /\ T # {}
      BY <2>1
    <3> HIDE DEF T
    <3> QED
      BY <3>1, Least
  <2>3. b \in Nat /\ s.start < b /\ Edge(spans, b) /\ s.start \in Nat
    BY <1>2, <2>2
  <2>4. \A i \in (s.start + 1)..(b - 1) : ~Edge(spans, i)
    <3>1. \A i \in (s.start + 1)..(b - 1) : i \in Nat /\ s.start < i /\ ~(b <= i)
      BY <2>3
    <3> QED
      BY <2>2, <3>1
  <2>5. \E e \in spans : e.end = b
    <3>1. CASE b = s.start + 1
      <4>1. ~(s.start < b /\ b < s.end)
        BY <2>3 DEF Edge
      <4> QED
        BY <1>2, <2>3, <3>1, <4>1
    <3>2. CASE b # s.start + 1
      <4>1. b - 1 \in (s.start + 1)..(b - 1)
        BY <2>3, <3>2
      <4>2. PICK e \in spans : e.start < b - 1 /\ b - 1 < e.end
        BY <2>4, <4>1 DEF Edge
      <4>3. ~(e.start < b /\ b < e.end)
        BY <2>3 DEF Edge
      <4> QED
        BY <1>2, <2>3, <4>2, <4>3
    <3> QED
      BY <3>1, <3>2
  <2>6. PICK e \in spans : e.end = b
    BY <2>5
  <2> DEFINE c == Span(s.start, e.end, <<Overlap>>)
  <2>7. c \in joined /\ c.start = s.start /\ c.end = b
    BY <1>3, <1>5, <2>6
  <2> HIDE DEF c
  <2>8. between(c)
    BY <1>9, <2>3, <2>4, <2>7
  <2> QED
    BY <1>1, <2>7, <2>8
<1> QED
  BY <1>7, <1>8, <1>9

\* What comes of the text from i on, given what comes of it further on.
Going(text, merged, rest, i) ==
  IF i > Len(text) THEN <<>>
  ELSE IF \A m \in merged : m.start # i THEN <<text[i]>> \o rest[i + 1]
  ELSE From(merged, i).text \o rest[From(merged, i).end]

Gone(text, merged, rest, k) ==
  /\ rest = [i \in 1..(Len(text) + 1) |-> rest[i]]
  /\ \A i \in 1..(Len(text) + 1) : i + k > Len(text) + 1 => rest[i] = Going(text, merged, rest, i)

LEMMA FromIs ==
  ASSUME NEW n \in Nat, NEW M, NEW merged, Spanning(merged, n, M), NEW i, ~ \A m \in merged : m.start # i
  PROVE  /\ From(merged, i) \in merged /\ From(merged, i).start = i
         /\ i \in 1..n /\ From(merged, i).end \in 1..(n + 1) /\ i < From(merged, i).end
<1>1. From(merged, i) \in merged /\ From(merged, i).start = i
  BY Zenon DEF From
<1> QED
  BY <1>1 DEF Spanning

LEMMA GoneExists ==
  ASSUME NEW text, Listing(text), NEW M, NEW merged, Spanning(merged, Len(text), M), NEW n \in Nat
  PROVE  \E rest : Gone(text, merged, rest, n)
<1> DEFINE L == Len(text)
           T == {k \in Nat : ~\E rest : Gone(text, merged, rest, k)}
<1> SUFFICES ASSUME T # {} PROVE FALSE
  OBVIOUS
<1>0. L \in Nat
  BY LenOfListing
<1>1. PICK k \in T : \A m \in T : k <= m
  <2>1. T \subseteq Nat
    OBVIOUS
  <2> HIDE DEF T
  <2> QED
    BY <2>1, Least
<1>2. k \in Nat /\ ~\E rest : Gone(text, merged, rest, k)
  BY <1>1
<1>3. k # 0
  <2> DEFINE none == [i \in 1..(Len(text) + 1) |-> <<>>]
  <2>1. none = [i \in 1..(Len(text) + 1) |-> none[i]]
    OBVIOUS
  <2>2. \A i \in 1..(Len(text) + 1) : ~(i + 0 > Len(text) + 1)
    BY <1>0
  <2> HIDE DEF none
  <2>3. Gone(text, merged, none, 0)
    BY <2>1, <2>2 DEF Gone
  <2> QED
    BY <1>2, <2>3
<1>4. PICK g : Gone(text, merged, g, k - 1)
  <2>1. k - 1 \in Nat /\ ~(k <= k - 1)
    BY <1>2, <1>3
  <2>2. k - 1 \notin T
    BY <1>1, <2>1
  <2> QED
    BY <2>1, <2>2
<1> DEFINE now == L + 2 - k
           h == [i \in 1..(Len(text) + 1) |-> IF i = now THEN Going(text, merged, g, i) ELSE g[i]]
<1>5. h = [i \in 1..(Len(text) + 1) |-> h[i]]
  OBVIOUS
<1>6. \A i \in 1..(Len(text) + 1) : h[i] = IF i = now THEN Going(text, merged, g, i) ELSE g[i]
  OBVIOUS
<1> HIDE DEF h
<1>7. ASSUME NEW i \in 1..(Len(text) + 1), i + k > Len(text) + 1
      PROVE  h[i] = Going(text, merged, h, i)
  <2>1. i \in Nat /\ now \in Int /\ i >= now
    BY <1>0, <1>2, <1>7
  <2>2. \A j \in 1..(Len(text) + 1) : j > i => h[j] = g[j]
    BY <1>0, <1>6, <2>1
  <2>3. Going(text, merged, h, i) = Going(text, merged, g, i)
    <3>1. CASE i > Len(text)
      BY <3>1 DEF Going
    <3>2. CASE ~(i > Len(text)) /\ \A m \in merged : m.start # i
      <4>1. i + 1 \in 1..(Len(text) + 1) /\ i + 1 > i
        BY <1>0, <2>1, <3>2
      <4>2. h[i + 1] = g[i + 1]
        BY <2>2, <4>1
      <4> QED
        BY <3>2, <4>2 DEF Going
    <3>3. CASE ~(i > Len(text)) /\ ~ \A m \in merged : m.start # i
      <4>1. From(merged, i).end \in 1..(Len(text) + 1) /\ From(merged, i).end > i
        <5>1. From(merged, i).end \in 1..(L + 1) /\ i < From(merged, i).end
          BY <1>0, <3>3, FromIs
        <5> QED
          BY <1>0, <2>1, <5>1
      <4>2. h[From(merged, i).end] = g[From(merged, i).end]
        BY <2>2, <4>1
      <4> QED
        BY <3>3, <4>2 DEF Going
    <3> QED
      BY <3>1, <3>2, <3>3
  <2>4. CASE i = now
    BY <1>6, <2>3, <2>4
  <2>5. CASE i # now
    <3>1. i + (k - 1) > Len(text) + 1
      BY <1>0, <1>2, <2>1, <2>5
    <3>2. g[i] = Going(text, merged, g, i)
      BY <1>4, <3>1 DEF Gone
    <3> QED
      BY <1>6, <2>3, <2>5, <3>2
  <2> QED
    BY <2>4, <2>5
<1>8. Gone(text, merged, h, k)
  BY <1>5, <1>7 DEF Gone
<1> QED
  BY <1>2, <1>8

\* What the text becomes is what comes of it from its beginning.
LEMMA ReplacedIs ==
  ASSUME NEW text, Listing(text), NEW M, NEW merged, Spanning(merged, Len(text), M)
  PROVE  \E rest : /\ Replaced(text, merged) = rest[1]
                   /\ \A i \in 1..(Len(text) + 1) : rest[i] = Going(text, merged, rest, i)
<1> DEFINE Whole(g) == [i \in 1..(Len(text) + 1) |->
                          IF i > Len(text) THEN <<>>
                          ELSE IF \A m \in merged : m.start # i THEN <<text[i]>> \o g[i + 1]
                          ELSE From(merged, i).text \o g[From(merged, i).end]]
           c == CHOOSE g : g = Whole(g)
<1>0. Len(text) \in Nat
  BY LenOfListing
<1>1. PICK h : Gone(text, merged, h, Len(text) + 1)
  BY <1>0, GoneExists
<1>2. h = Whole(h)
  <2>1. \A i \in 1..(Len(text) + 1) : h[i] = Going(text, merged, h, i)
    <3>1. \A i \in 1..(Len(text) + 1) : i + (Len(text) + 1) > Len(text) + 1
      BY <1>0
    <3> QED
      BY <1>1, <3>1 DEF Gone
  <2>2. h = [i \in 1..(Len(text) + 1) |-> h[i]]
    BY <1>1 DEF Gone
  <2>3. h = [i \in 1..(Len(text) + 1) |-> Going(text, merged, h, i)]
    BY <2>1, <2>2, Zenon
  <2> QED
    BY <2>3, Zenon DEF Going
<1>3. c = Whole(c)
  BY <1>2, Zenon
<1>4. Replaced(text, merged) = c[1]
  BY Zenon DEF Replaced
<1>5. \A i \in 1..(Len(text) + 1) : c[i] = Going(text, merged, c, i)
  <2> DEFINE s == Whole(c)
  <2>1. c = s
    BY <1>3
  <2>2. \A i \in 1..(Len(text) + 1) : s[i] = Going(text, merged, c, i)
    <3> HIDE DEF c
    <3> QED
      BY Zenon DEF Going
  <2> HIDE DEF c, s
  <2> QED
    BY <2>1, <2>2
<1> QED
  BY <1>4, <1>5, Zenon

LEMMA Squeezed ==
  ASSUME NEW p \in Int, NEW q \in Int, NEW a \in Int, NEW b \in Int, NEW n \in Int,
         p <= b - a, q <= n + 1 - b
  PROVE  p + q <= n + 1 - a /\ (p + q = n + 1 - a => p = b - a /\ q = n + 1 - b)
OBVIOUS

\* What comes of a text is of the same marks and of those of the spans, and is no longer.
LEMMA GoingFits ==
  ASSUME NEW M, NEW text, text \in Seq(M), NEW merged, Spanning(merged, Len(text), M), NEW rest,
         \A i \in 1..(Len(text) + 1) : rest[i] = Going(text, merged, rest, i)
  PROVE  \A i \in 1..(Len(text) + 1) : rest[i] \in Seq(M) /\ Len(rest[i]) <= Len(text) + 1 - i
<1> DEFINE n == Len(text)
           Fine(i) == rest[i] \in Seq(M) /\ Len(rest[i]) <= n + 1 - i
           T == {n + 1 - i : i \in {j \in 1..(n + 1) : ~Fine(j)}}
<1> SUFFICES ASSUME T # {} PROVE FALSE
  OBVIOUS
<1>1. n \in Nat /\ DOMAIN text = 1..n /\ \A i \in 1..n : text[i] \in M
  OBVIOUS
<1>2. PICK k \in T : \A m \in T : k <= m
  <2>1. T \subseteq Nat
    <3>1. \A i \in 1..(n + 1) : n + 1 - i \in Nat
      BY <1>1
    <3> QED
      BY <3>1
  <2> HIDE DEF T
  <2> QED
    BY <2>1, Least
<1>3. PICK i \in 1..(n + 1) : ~Fine(i) /\ k = n + 1 - i
  OBVIOUS
<1>4. \A j \in 1..(n + 1) : j > i => Fine(j)
  <2> TAKE j \in 1..(n + 1)
  <2>1. j > i => ~(k <= n + 1 - j)
    BY <1>1, <1>3
  <2>2. ~Fine(j) => n + 1 - j \in T
    OBVIOUS
  <2> HIDE DEF T, Fine
  <2> QED
    BY <1>2, <2>1, <2>2
<1>5. rest[i] = Going(text, merged, rest, i) /\ i \in Nat
  BY <1>1
<1>6. CASE i > n
  <2>1. i = n + 1 /\ rest[i] = <<>>
    BY <1>1, <1>5, <1>6 DEF Going
  <2> QED
    BY <1>1, <1>3, <2>1
<1>7. CASE ~(i > n) /\ \A m \in merged : m.start # i
  <2>1. i \in 1..n /\ i + 1 \in 1..(n + 1) /\ i + 1 > i
    BY <1>1, <1>7
  <2>2. rest[i + 1] \in Seq(M) /\ Len(rest[i + 1]) <= n + 1 - (i + 1)
    BY <1>4, <2>1
  <2>3. rest[i] = <<text[i]>> \o rest[i + 1] /\ text[i] \in M
    BY <1>1, <1>5, <1>7, <2>1 DEF Going
  <2>4. <<text[i]>> \in Seq(M) /\ Len(<<text[i]>>) = 1
    BY <2>3
  <2>5. rest[i] \in Seq(M) /\ Len(rest[i]) = 1 + Len(rest[i + 1])
    BY <2>2, <2>3, <2>4
  <2>6. Len(rest[i + 1]) \in Nat
    BY <2>2
  <2> QED
    BY <1>1, <1>3, <2>1, <2>2, <2>5, <2>6
<1>8. CASE ~(i > n) /\ ~ \A m \in merged : m.start # i
  <2> DEFINE m == From(merged, i)
  <2>1. m \in merged /\ m.start = i /\ m.end \in 1..(n + 1) /\ i < m.end
    BY <1>1, <1>8, FromIs
  <2>2. m.text \in Seq(M) /\ Len(m.text) <= m.end - i
    BY <2>1 DEF Spanning
  <2>3. rest[i] = m.text \o rest[m.end]
    BY <1>5, <1>8 DEF Going
  <2> HIDE DEF m
  <2>4. rest[m.end] \in Seq(M) /\ Len(rest[m.end]) <= n + 1 - m.end
    BY <1>4, <2>1
  <2>5. rest[i] \in Seq(M) /\ Len(rest[i]) = Len(m.text) + Len(rest[m.end])
    BY <2>2, <2>3, <2>4
  <2>6. Len(m.text) \in Nat /\ Len(rest[m.end]) \in Nat
    BY <2>2, <2>4, LenProperties
  <2>7. m.end \in Int
    BY <1>1, <2>1
  <2>8. Len(rest[i]) <= n + 1 - i
    <3>1. Len(m.text) \in Int /\ Len(rest[m.end]) \in Int /\ i \in Int /\ n \in Int
      BY <1>1, <1>5, <2>6
    <3> HIDE DEF n
    <3>2. Len(m.text) + Len(rest[m.end]) <= n + 1 - i
      BY <2>2, <2>4, <2>7, <3>1, Squeezed
    <3> QED
      BY <2>5, <3>2
  <2> QED
    BY <1>3, <2>5, <2>8
<1> QED
  BY <1>6, <1>7, <1>8

LEMMA ReplacedFits ==
  ASSUME NEW M, NEW text, text \in Seq(M), NEW merged, Spanning(merged, Len(text), M)
  PROVE  Replaced(text, merged) \in Seq(M) /\ Len(Replaced(text, merged)) <= Len(text)
<1>1. Listing(text) /\ Len(text) \in Nat
  BY DEF Listing
<1>2. PICK rest : /\ Replaced(text, merged) = rest[1]
                  /\ \A i \in 1..(Len(text) + 1) : rest[i] = Going(text, merged, rest, i)
  BY <1>1, ReplacedIs
<1>3. 1 \in 1..(Len(text) + 1)
  BY <1>1
<1>4. rest[1] \in Seq(M) /\ Len(rest[1]) <= Len(text) + 1 - 1
  BY <1>2, <1>3, GoingFits
<1> QED
  BY <1>1, <1>2, <1>4

\* A stretch of a text, and two texts one after the other.
Stretch(z, text, a, b) == z = SubSeq(text, a, b)

Joined(z, x, y) == z = x \o y

LEMMA StretchIs ==
  ASSUME NEW M, NEW text, text \in Seq(M), NEW a \in 1..(Len(text) + 1), NEW b \in (a - 1)..Len(text),
         NEW z
  PROVE  Stretch(z, text, a, b) <=> /\ z \in Seq(M) /\ Len(z) = b + 1 - a
                                    /\ \A i \in 1..(b + 1 - a) : z[i] = text[a + i - 1]
<1> DEFINE s == SubSeq(text, a, b)
<1>1. a \in Int /\ b \in Int /\ Len(text) \in Nat /\ a - 1 <= b
  OBVIOUS
<1>2. \A i \in a..b : text[i] \in M
  BY <1>1
<1>3. b - a + 1 = b + 1 - a /\ (~(a <= b) => b + 1 - a = 0)
  BY <1>1
<1>4. s \in Seq(M) /\ Len(s) = b + 1 - a /\ \A i \in 1..(b + 1 - a) : s[i] = text[a + i - 1]
  BY <1>1, <1>2, <1>3, SubSeqProperties
<1> HIDE DEF s
<1>5. (z \in Seq(M) /\ Len(z) = b + 1 - a /\ \A i \in 1..(b + 1 - a) : z[i] = text[a + i - 1]) => z = s
  <2> SUFFICES ASSUME z \in Seq(M), Len(z) = b + 1 - a, \A i \in 1..(b + 1 - a) : z[i] = text[a + i - 1]
               PROVE  z = s
    OBVIOUS
  <2>1. \A i \in 1..Len(z) : z[i] = s[i]
    BY <1>4
  <2> QED
    BY <1>4, <2>1, SeqEqual
<1>6. Stretch(z, text, a, b) <=> z = s
  BY DEF Stretch, s
<1> QED
  BY <1>4, <1>5, <1>6

LEMMA StretchIf ==
  ASSUME NEW M, NEW text, text \in Seq(M), NEW a, NEW b, NEW z,
         a \in 1..(Len(text) + 1), b \in (a - 1)..Len(text),
         z \in Seq(M), Len(z) = b + 1 - a, \A i \in 1..(b + 1 - a) : z[i] = text[a + i - 1]
  PROVE  Stretch(z, text, a, b)
BY StretchIs

LEMMA JoinIs ==
  ASSUME NEW M, NEW x, x \in Seq(M), NEW y, y \in Seq(M), NEW z, Joined(z, x, y)
  PROVE  /\ Len(z) = Len(x) + Len(y)
         /\ \A i \in 1..(Len(x) + Len(y)) : z[i] = IF i <= Len(x) THEN x[i] ELSE y[i - Len(x)]
BY ConcatProperties DEF Joined

\* Of two stretches that make up a third, neither longer than its part of it, each is its part.
LEMMA Stretches ==
  ASSUME NEW M, NEW text, text \in Seq(M), NEW n \in 0..Len(text), NEW a \in 1..n, NEW b \in 1..(n + 1), a < b,
         NEW x, x \in Seq(M), Len(x) <= b - a, NEW y, y \in Seq(M), Len(y) <= n + 1 - b,
         NEW z, Joined(z, x, y), Stretch(z, text, a, n)
  PROVE  Stretch(x, text, a, b - 1) /\ Len(x) = b - a /\ Stretch(y, text, b, n)
<1> DEFINE p == Len(x)
           q == Len(y)
<1>1. /\ n \in Nat /\ p \in Nat /\ q \in Nat /\ a \in Nat /\ b \in Nat /\ 1 <= a /\ a <= n /\ b <= n + 1
      /\ Len(text) \in Nat /\ n <= Len(text)
  OBVIOUS
<1>2. Len(z) = p + q /\ \A i \in 1..(p + q) : z[i] = IF i <= p THEN x[i] ELSE y[i - p]
  BY JoinIs
<1>3. Len(z) = n + 1 - a /\ \A i \in 1..(n + 1 - a) : z[i] = text[a + i - 1]
  <2>1. a \in 1..(Len(text) + 1) /\ n \in (a - 1)..Len(text)
    BY <1>1
  <2> DEFINE was == Stretch(z, text, a, n)
  <2>2. was
    OBVIOUS
  <2>3. was => Len(z) = n + 1 - a /\ \A i \in 1..(n + 1 - a) : z[i] = text[a + i - 1]
    BY <2>1, StretchIs
  <2> QED
    BY <2>2, <2>3
<1>4. p <= b - a /\ q <= n + 1 - b /\ p + q = n + 1 - a
  BY <1>2, <1>3
<1> HIDE DEF p, q
<1>5. p = b - a /\ q = n + 1 - b
  BY <1>1, <1>4, Squeezed
<1>8. ASSUME NEW i \in 1..p PROVE x[i] = text[a + i - 1]
  <2>1. i \in 1..(p + q) /\ i <= p /\ i \in 1..(n + 1 - a)
    BY <1>1, <1>5
  <2>2. z[i] = x[i] /\ z[i] = text[a + i - 1]
    BY <1>2, <1>3, <2>1
  <2> QED
    BY <2>2
<1>9. ASSUME NEW i \in 1..q PROVE y[i] = text[b + i - 1]
  <2> DEFINE j == p + i
  <2>1. /\ j \in 1..(p + q) /\ ~(j <= p) /\ j \in 1..(n + 1 - a)
        /\ j - p = i /\ a + j - 1 = b + i - 1
    BY <1>1, <1>5
  <2> HIDE DEF j
  <2>2. z[j] = y[i] /\ z[j] = text[b + i - 1]
    BY <1>2, <1>3, <2>1
  <2> QED
    BY <2>2
<1>6. Stretch(x, text, a, b - 1)
  <2>1. b - 1 \in (a - 1)..Len(text) /\ a \in 1..(Len(text) + 1) /\ (b - 1) + 1 - a = p
    BY <1>1, <1>5
  <2> QED
    BY <1>5, <1>8, <2>1, StretchIf DEF p
<1>7. Stretch(y, text, b, n)
  <2>1. n \in (b - 1)..Len(text) /\ b \in 1..(Len(text) + 1) /\ n + 1 - b = q
    BY <1>1, <1>5
  <2> QED
    BY <1>5, <1>9, <2>1, StretchIf DEF q
<1> QED
  BY <1>5, <1>6, <1>7 DEF p

\* Before every place there is an edge, and a last one.
LEMMA LastEdge ==
  ASSUME NEW n \in Nat, NEW M, NEW spans, Spanning(spans, n, M), NEW i \in 2..(n + 1)
  PROVE  \E a \in 1..n : /\ a < i /\ Edge(spans, a)
                         /\ \A j \in (a + 1)..(i - 1) : ~Edge(spans, j)
<1> DEFINE T == {i - a : a \in {b \in 1..(i - 1) : Edge(spans, b)}}
<1>1. T \subseteq Nat
  OBVIOUS
<1>2. T # {}
  <2>1. Edge(spans, 1)
    <3>1. \A s \in spans : s.start \in Nat /\ 1 <= s.start
      BY DEF Spanning
    <3> QED
      BY <3>1 DEF Edge
  <2>2. 1 \in {b \in 1..(i - 1) : Edge(spans, b)}
    BY <2>1
  <2> QED
    BY <2>2
<1>3. PICK k \in T : \A m \in T : k <= m
  <2> HIDE DEF T
  <2> QED
    BY <1>1, <1>2, Least
<1>4. PICK a \in 1..(i - 1) : Edge(spans, a) /\ k = i - a
  OBVIOUS
<1>5. ASSUME NEW j \in (a + 1)..(i - 1), Edge(spans, j)
      PROVE  FALSE
  <2>1. i - j \in T
    BY <1>5
  <2>2. i - a <= i - j
    BY <1>3, <1>4, <2>1
  <2> QED
    BY <2>2
<1>6. a \in 1..n /\ a < i
  OBVIOUS
<1> QED
  BY <1>4, <1>5, <1>6

\* From one edge to the next: what a span makes of it, or the one mark that is there.
LEMMA NextEdge ==
  ASSUME NEW n \in Nat, NEW M, NEW spans, Spanning(spans, n, M), Overlap \in M,
         NEW a \in 1..n, NEW i \in 2..(n + 1), a < i, Edge(spans, a), Edge(spans, i),
         \A j \in (a + 1)..(i - 1) : ~Edge(spans, j)
  PROVE  IF \A m \in Merged(spans) : m.start # a THEN i = a + 1
         ELSE From(Merged(spans), a).end = i
<1>1. \A s \in spans : s.start \in Nat /\ s.end \in Nat /\ s.start < s.end
  BY DEF Spanning
<1>2. CASE \A m \in Merged(spans) : m.start # a
  <2> SUFFICES ASSUME i # a + 1 PROVE FALSE
    BY <1>2
  <2>1. a + 1 \in (a + 1)..(i - 1)
    OBVIOUS
  <2>2. PICK s \in spans : s.start < a + 1 /\ a + 1 < s.end
    BY <2>1 DEF Edge
  <2>3. s.start = a
    <3>1. ~(s.start < a /\ a < s.end)
      BY DEF Edge
    <3> QED
      BY <1>1, <2>2, <3>1
  <2> QED
    BY <1>2, <2>3, MergedAre
<1>3. CASE ~ \A m \in Merged(spans) : m.start # a
  <2> DEFINE m == From(Merged(spans), a)
  <2>1. Spanning(Merged(spans), n, M)
    BY MergedAre
  <2>2. m \in Merged(spans) /\ m.start = a /\ m.end \in 1..(n + 1) /\ a < m.end
    BY <1>3, <2>1, FromIs
  <2> HIDE DEF m
  <2>3. Edge(spans, m.end) /\ \A j \in (a + 1)..(m.end - 1) : ~Edge(spans, j)
    BY <2>2, MergedAre
  <2>4. ~(m.end < i)
    <3>1. m.end < i => m.end \in (a + 1)..(i - 1)
      BY <2>2
    <3> QED
      BY <2>3, <3>1
  <2>5. ~(i < m.end)
    <3>1. i < m.end => i \in (a + 1)..(m.end - 1)
      BY <2>2
    <3> QED
      BY <2>3, <3>1
  <2>6. m.end = i
    BY <2>2, <2>4, <2>5
  <2> QED
    BY <1>3, <2>6 DEF m
<1> QED
  BY <1>2, <1>3

\* Where a text comes out as it was, so does what follows every edge.
LEMMA TailsAreKept ==
  ASSUME NEW M, NEW text, text \in Seq(M), NEW n \in Nat, n = Len(text),
         NEW spans, Spanning(spans, n, M), Overlap \in M, NEW rest,
         \A i \in 1..(n + 1) : rest[i] = Going(text, Merged(spans), rest, i),
         rest[1] = text
  PROVE  \A i \in 1..(n + 1) : Edge(spans, i) => Stretch(rest[i], text, i, n)
<1> DEFINE T == {i \in 1..(n + 1) : Edge(spans, i) /\ ~Stretch(rest[i], text, i, n)}
           merged == Merged(spans)
<1> SUFFICES ASSUME T # {} PROVE FALSE
  OBVIOUS
<1>1. PICK i \in T : \A j \in T : i <= j
  <2>1. T \subseteq Nat
    OBVIOUS
  <2> HIDE DEF T
  <2> QED
    BY <2>1, Least
<1>2. i \in 1..(n + 1) /\ Edge(spans, i) /\ ~Stretch(rest[i], text, i, n)
  OBVIOUS
<1>3. i # 1
  <2>1. Stretch(text, text, 1, n)
    <3>1. SubSeq(text, 1, Len(text)) = text
      OBVIOUS
    <3> QED
      BY <3>1 DEF Stretch
  <2> QED
    BY <1>2, <2>1
<1>4. i \in 2..(n + 1)
  BY <1>2, <1>3
<1>5. PICK a \in 1..n : a < i /\ Edge(spans, a) /\ \A j \in (a + 1)..(i - 1) : ~Edge(spans, j)
  BY <1>4, LastEdge
<1>6. Stretch(rest[a], text, a, n)
  <2>1. a \in 1..(n + 1) /\ ~(i <= a)
    BY <1>2, <1>5
  <2> QED
    BY <1>1, <1>5, <2>1
<1>7. /\ Spanning(merged, n, M)
      /\ IF \A m \in merged : m.start # a THEN i = a + 1 ELSE From(merged, a).end = i
  BY <1>2, <1>4, <1>5, MergedAre, NextEdge
<1>8. rest[a] = Going(text, merged, rest, a) /\ ~(a > Len(text)) /\ a \in 1..(n + 1)
  BY <1>5
<1>9. rest[i] \in Seq(M) /\ Len(rest[i]) <= n + 1 - i
  <2>1. \A j \in 1..(Len(text) + 1) : rest[j] = Going(text, merged, rest, j)
    OBVIOUS
  <2> HIDE DEF merged
  <2> QED
    BY <1>2, <1>7, <2>1, GoingFits
<1> HIDE DEF merged, T
<1>10. \E x : x \in Seq(M) /\ Len(x) <= i - a /\ rest[a] = x \o rest[i]
  <2>1. CASE \A m \in merged : m.start # a
    <3>1. rest[a] = <<text[a]>> \o rest[a + 1] /\ i = a + 1
      BY <1>7, <1>8, <2>1 DEF Going
    <3>2. text[a] \in M
      BY <1>5
    <3>3. <<text[a]>> \in Seq(M) /\ Len(<<text[a]>>) <= i - a
      BY <1>5, <3>1, <3>2
    <3> QED
      BY <3>1, <3>3
  <2>2. CASE ~ \A m \in merged : m.start # a
    <3> DEFINE m == From(merged, a)
    <3>1. m \in merged /\ m.start = a /\ m.end = i
      BY <1>7, <2>2, FromIs
    <3>2. rest[a] = m.text \o rest[m.end]
      BY <1>8, <2>2 DEF Going
    <3> HIDE DEF m
    <3>3. m.text \in Seq(M) /\ Len(m.text) <= i - a
      BY <1>7, <3>1 DEF Spanning
    <3> QED
      BY <3>1, <3>2, <3>3
  <2> QED
    BY <2>1, <2>2
<1>11. PICK x : x \in Seq(M) /\ Len(x) <= i - a /\ rest[a] = x \o rest[i]
  BY <1>10
<1>12. Joined(rest[a], x, rest[i])
  BY <1>11 DEF Joined
<1>13. n \in 0..Len(text)
  OBVIOUS
<1>14. Stretch(rest[i], text, i, n)
  BY <1>2, <1>5, <1>6, <1>9, <1>11, <1>12, <1>13, Stretches
<1> QED
  BY <1>2, <1>14

\* Where a text comes out as it was, every span is in one that is replaced by what it holds.
LEMMA NothingTakenOut ==
  ASSUME NEW M, NEW text, text \in Seq(M), NEW spans, Spanning(spans, Len(text), M), Overlap \in M,
         Replaced(text, Merged(spans)) = text
  PROVE  \A s \in spans : \E m \in spans :
           m.start <= s.start /\ s.end <= m.end /\ Stretch(m.text, text, m.start, m.end - 1)
<1> DEFINE n == Len(text)
           merged == Merged(spans)
<1>1. Listing(text) /\ n \in Nat
  BY DEF Listing
<1>2. Spanning(merged, n, M)
  BY <1>1, MergedAre
<1>3. PICK rest : /\ Replaced(text, merged) = rest[1]
                  /\ \A i \in 1..(n + 1) : rest[i] = Going(text, merged, rest, i)
  BY <1>1, <1>2, ReplacedIs
<1>4. \A i \in 1..(n + 1) : Edge(spans, i) => Stretch(rest[i], text, i, n)
  BY <1>1, <1>3, TailsAreKept
<1>5. \A i \in 1..(n + 1) : rest[i] \in Seq(M) /\ Len(rest[i]) <= n + 1 - i
  BY <1>2, <1>3, GoingFits
<1> SUFFICES ASSUME NEW s \in spans
             PROVE  \E m \in spans : /\ m.start <= s.start /\ s.end <= m.end
                                     /\ Stretch(m.text, text, m.start, m.end - 1)
  OBVIOUS
<1>6. \A t \in spans : t.start \in 1..n /\ t.end \in 1..(n + 1) /\ t.start < t.end
  BY DEF Spanning
<1>7. PICK a \in 1..n : /\ a < s.start + 1 /\ Edge(spans, a)
                        /\ \A j \in (a + 1)..((s.start + 1) - 1) : ~Edge(spans, j)
  <2>1. s.start + 1 \in 2..(n + 1)
    BY <1>1, <1>6
  <2> QED
    BY <1>1, <2>1, LastEdge
<1>8. \E t \in spans : t.start = a
  <2>1. CASE a = s.start
    BY <2>1
  <2>2. CASE a # s.start
    <3>1. a + 1 \in (a + 1)..((s.start + 1) - 1)
      BY <1>1, <1>6, <1>7, <2>2
    <3>2. PICK t \in spans : t.start < a + 1 /\ a + 1 < t.end
      BY <1>7, <3>1 DEF Edge
    <3>3. ~(t.start < a /\ a < t.end)
      BY <1>7 DEF Edge
    <3> QED
      BY <1>1, <1>6, <3>2, <3>3
  <2> QED
    BY <2>1, <2>2
<1>9. ~ \A m \in merged : m.start # a
  <2>1. PICK t \in spans : t.start = a
    BY <1>8
  <2>2. \E m \in merged : m.start = t.start
    BY <1>1, <1>7, <2>1, MergedAre
  <2> QED
    BY <2>1, <2>2
<1> DEFINE m == From(merged, a)
<1>10. m \in merged /\ m.start = a /\ m.end \in 1..(n + 1) /\ a < m.end
  BY <1>1, <1>2, <1>9, FromIs
<1>11. rest[a] = m.text \o rest[m.end]
  <2>1. ~(a > Len(text)) /\ a \in 1..(n + 1)
    BY <1>1
  <2> QED
    BY <1>3, <1>9, <2>1 DEF Going
<1> HIDE DEF m
<1>12. /\ Edge(spans, m.end) /\ \A j \in (a + 1)..(m.end - 1) : ~Edge(spans, j)
       /\ m \in spans \/ (Len(m.text) = 1 /\ m.end - m.start # 1)
  BY <1>1, <1>10, MergedAre
<1>13. m.text \in Seq(M) /\ Len(m.text) <= m.end - a
  BY <1>2, <1>10 DEF Spanning
<1>14. Stretch(m.text, text, a, m.end - 1) /\ Len(m.text) = m.end - a
  <2>1. Joined(rest[a], m.text, rest[m.end])
    BY <1>11 DEF Joined
  <2>2. Stretch(rest[a], text, a, n) /\ n \in 0..Len(text) /\ a \in 1..n
    BY <1>1, <1>4, <1>7
  <2> DEFINE b == m.end
             x == m.text
             y == rest[m.end]
             z == rest[a]
  <2>3. y \in Seq(M) /\ Len(y) <= n + 1 - b /\ b \in 1..(n + 1) /\ a < b
    BY <1>5, <1>10
  <2>4. /\ x \in Seq(M) /\ Len(x) <= b - a
        /\ Joined(z, x, y) /\ Stretch(z, text, a, n) /\ n \in 0..Len(text) /\ a \in 1..n
    BY <1>13, <2>1, <2>2
  <2> HIDE DEF n, b, x, y, z
  <2>5. Stretch(x, text, a, b - 1) /\ Len(x) = b - a
    BY <2>3, <2>4, Stretches
  <2> QED
    BY <2>5 DEF b, x
<1>15. m \in spans
  BY <1>10, <1>12, <1>14
<1>16. s.start < m.end
  <2>1. ~(m.end \in (a + 1)..((s.start + 1) - 1))
    BY <1>7, <1>12
  <2> QED
    BY <1>1, <1>6, <1>10, <2>1
<1>17. s.end <= m.end
  <2>1. ~(s.start < m.end /\ m.end < s.end)
    BY <1>12 DEF Edge
  <2> QED
    BY <1>1, <1>6, <1>10, <1>16, <2>1
<1>18. m.start <= s.start
  BY <1>1, <1>6, <1>7, <1>10
<1> QED
  BY <1>10, <1>14, <1>15, <1>17, <1>18

-----------------------------------------------------------------------------
\* What a quotation writes, a mark at a time.
Decoded(mark) == IF mark = Escaped THEN Quote ELSE IF mark = TwiceEscaped THEN Escaped ELSE mark

Encoded(mark) == IF mark = Quote THEN Escaped ELSE IF mark = Escaped THEN TwiceEscaped ELSE mark

LEMMA DecodedEncoded ==
  ASSUME NEW mark, mark # TwiceEscaped
  PROVE  Decoded(Encoded(mark)) = mark
BY DEF Decoded, Encoded, Quote, Escaped, TwiceEscaped

LEMMA DecodeIs ==
  ASSUME NEW text, Listing(text), NEW M, \A i \in DOMAIN text : Decoded(text[i]) \in M
  PROVE  /\ Decode(text) \in Seq(M) /\ Len(Decode(text)) = Len(text)
         /\ \A i \in DOMAIN text : Decode(text)[i] = Decoded(text[i])
<1> DEFINE other == Decode(text)
<1>1. /\ DOMAIN other = DOMAIN text /\ other = [i \in DOMAIN text |-> other[i]]
      /\ \A i \in DOMAIN text : other[i] = Decoded(text[i])
  BY DEF Decode, Each, Decoded
<1> HIDE DEF other
<1>2. other \in Seq(M) /\ Len(other) = Len(text)
  BY <1>1, SameLength
<1> QED
  BY <1>1, <1>2 DEF other

LEMMA EncodeIs ==
  ASSUME NEW text, Listing(text), NEW M, \A i \in DOMAIN text : Encoded(text[i]) \in M
  PROVE  /\ Encode(text) \in Seq(M) /\ Len(Encode(text)) = Len(text)
         /\ \A i \in DOMAIN text : Encode(text)[i] = Encoded(text[i])
<1> DEFINE other == Encode(text)
<1>1. /\ DOMAIN other = DOMAIN text /\ other = [i \in DOMAIN text |-> other[i]]
      /\ \A i \in DOMAIN text : other[i] = Encoded(text[i])
  BY DEF Encode, Each, Encoded
<1> HIDE DEF other
<1>2. other \in Seq(M) /\ Len(other) = Len(text)
  BY <1>1, SameLength
<1> QED
  BY <1>1, <1>2 DEF other

\* What the marks of M say is in N.
Says(M, N) == \A mark \in M : Decoded(mark) \in N

\* A quotation, and what it says.
LEMMA QuotationsAre ==
  ASSUME NEW M, NEW text, text \in Seq(M), NEW N, Says(M, N),
         NEW q \in Quotations(text)
  PROVE  /\ q.start \in 1..Len(text) /\ q.end \in 1..(Len(text) + 1) /\ q.start + 1 < q.end
         /\ Content(text, q) \in Seq(N) /\ Len(Content(text, q)) = q.end - q.start - 2
         /\ \A i \in 1..(q.end - q.start - 2) : Content(text, q)[i] = Decoded(text[q.start + i])
<1>1. /\ q.start \in 1..Len(text) /\ q.end \in 1..(Len(text) + 1) /\ q.start + 1 < q.end
      /\ q.start \in Nat /\ q.end \in Nat
  BY DEF Quotations, Span
<1> DEFINE body == SubSeq(text, q.start + 1, q.end - 2)
           a == q.start + 1
           b == q.end - 2
<1>2. Stretch(body, text, a, b)
  BY DEF Stretch
<1>3. a \in 1..(Len(text) + 1) /\ b \in (a - 1)..Len(text) /\ b + 1 - a = q.end - q.start - 2
  BY <1>1
<1>4. body \in Seq(M) /\ Len(body) = b + 1 - a /\ \A i \in 1..(b + 1 - a) : body[i] = text[a + i - 1]
  <2> HIDE DEF body, a, b
  <2> QED
    BY <1>2, <1>3, StretchIs
<1>5. Listing(body) /\ DOMAIN body = 1..Len(body) /\ \A i \in DOMAIN body : Decoded(body[i]) \in N
  <2> HIDE DEF body
  <2> QED
    BY <1>4 DEF Listing, Says
<1>6. /\ Decode(body) \in Seq(N) /\ Len(Decode(body)) = Len(body)
      /\ \A i \in DOMAIN body : Decode(body)[i] = Decoded(body[i])
  BY <1>5, DecodeIs
<1>7. Content(text, q) = Decode(body)
  BY DEF Content
<1>8. \A i \in 1..(b + 1 - a) : a + i - 1 = q.start + i
  BY <1>1
<1> HIDE DEF body
<1>9. \A i \in 1..(b + 1 - a) : Content(text, q)[i] = Decoded(text[q.start + i])
  BY <1>4, <1>5, <1>6, <1>7, <1>8
<1> QED
  BY <1>1, <1>3, <1>4, <1>6, <1>7, <1>9

LEMMA WrappedIs ==
  ASSUME NEW M, NEW x, x \in Seq(M), NEW a \in M, NEW b \in M
  PROVE  LET z == <<a>> \o x \o <<b>>
         IN z \in Seq(M) /\ Len(z) = Len(x) + 2 /\ \A i \in 1..Len(x) : z[i + 1] = x[i]
<1> DEFINE y == <<a>> \o x
           z == y \o <<b>>
<1>1. <<a>> \in Seq(M) /\ <<b>> \in Seq(M) /\ Len(<<a>>) = 1 /\ Len(<<b>>) = 1 /\ Len(x) \in Nat
  OBVIOUS
<1>2. /\ y \in Seq(M) /\ Len(y) = 1 + Len(x)
      /\ \A i \in 1..(1 + Len(x)) : y[i] = IF i <= 1 THEN <<a>>[i] ELSE x[i - 1]
  BY <1>1, ConcatProperties
<1>3. /\ z \in Seq(M) /\ Len(z) = Len(y) + 1
      /\ \A i \in 1..(Len(y) + 1) : z[i] = IF i <= Len(y) THEN y[i] ELSE <<b>>[i - Len(y)]
  <2> HIDE DEF y
  <2> QED
    BY <1>1, <1>2, ConcatProperties
<1> HIDE DEF y, z
<1>4. ASSUME NEW i \in 1..Len(x) PROVE z[i + 1] = x[i]
  <2>1. i + 1 \in 1..(1 + Len(x)) /\ ~(i + 1 <= 1) /\ (i + 1) - 1 = i
    BY <1>1
  <2>2. y[i + 1] = x[i]
    BY <1>2, <2>1
  <2>3. i + 1 \in 1..(Len(y) + 1) /\ i + 1 <= Len(y)
    BY <1>1, <1>2, <2>1
  <2> QED
    BY <1>3, <2>2, <2>3
<1>5. z \in Seq(M) /\ Len(z) = Len(x) + 2
  BY <1>1, <1>2, <1>3
<1> QED
  BY <1>4, <1>5 DEF y, z

\* A quotation takes no more room without what it said, and never comes out as it was.
LEMMA QuotedSpansAre ==
  ASSUME NEW M, NEW text, text \in Seq(M), Quote \in M,
         NEW N, Says(M, N),
         NEW K, \A mark \in K : Encoded(mark) \in M,
         NEW raw, NEW inner, \A u \in Contents(text) : inner[u] \in Seq(K) /\ Len(inner[u]) <= Len(u)
  PROVE  /\ Spanning(QuotedSpans(text, raw, inner), Len(text), M)
         /\ TwiceEscaped \notin K =>
              \A m \in QuotedSpans(text, raw, inner) : ~Stretch(m.text, text, m.start, m.end - 1)
<1> DEFINE said(q) == inner[Content(text, q)]
           put(q) == Span(q.start, q.end, <<text[q.start]>> \o Encode(said(q)) \o <<Quote>>)
<1>1. \A m \in QuotedSpans(text, raw, inner) :
        \E q \in Quotations(text) : m = put(q) /\ said(q) # Content(text, q)
  BY DEF QuotedSpans
<1>2. ASSUME NEW m \in QuotedSpans(text, raw, inner)
      PROVE  /\ m.start \in 1..Len(text) /\ m.end \in 1..(Len(text) + 1) /\ m.start < m.end
             /\ m.text \in Seq(M) /\ Len(m.text) <= m.end - m.start
             /\ TwiceEscaped \notin K => ~Stretch(m.text, text, m.start, m.end - 1)
  <2>1. PICK q \in Quotations(text) : m = put(q) /\ said(q) # Content(text, q)
    BY <1>1
  <2>0. /\ q.start \in 1..Len(text) /\ q.end \in 1..(Len(text) + 1) /\ q.start + 1 < q.end
        /\ Content(text, q) \in Seq(N) /\ Len(Content(text, q)) = q.end - q.start - 2
        /\ \A i \in 1..(q.end - q.start - 2) : Content(text, q)[i] = Decoded(text[q.start + i])
    <3> HIDE DEF said, put
    <3> QED
      BY QuotationsAre, Zenon
  <2> DEFINE c == Content(text, q)
             x == inner[c]
             e == Encode(x)
             z == <<text[q.start]>> \o e \o <<Quote>>
  <2>2. m.start = q.start /\ m.end = q.end /\ m.text = z
    BY <2>1 DEF Span
  <2>3. /\ q.start \in 1..Len(text) /\ q.end \in 1..(Len(text) + 1) /\ q.start + 1 < q.end
        /\ c \in Seq(N) /\ Len(c) = q.end - q.start - 2
        /\ \A i \in 1..(q.end - q.start - 2) : c[i] = Decoded(text[q.start + i])
    BY <2>0
  <2>4. c \in Contents(text) /\ x # c
    BY <2>1 DEF Contents
  <2>5. x \in Seq(K) /\ Len(x) <= Len(c)
    BY <2>4
  <2> HIDE DEF c, x
  <2>6. Listing(x) /\ DOMAIN x = 1..Len(x) /\ Len(x) \in Nat /\ \A i \in DOMAIN x : x[i] \in K
    BY <2>5 DEF Listing
  <2>7. e \in Seq(M) /\ Len(e) = Len(x) /\ \A i \in DOMAIN x : e[i] = Encoded(x[i])
    BY <2>6, EncodeIs
  <2>8. text[q.start] \in M /\ q.start \in Nat /\ q.end \in Nat /\ Len(text) \in Nat
    BY <2>3
  <2> HIDE DEF e
  <2>9. z \in Seq(M) /\ Len(z) = Len(e) + 2 /\ \A i \in 1..Len(e) : z[i + 1] = e[i]
    BY <2>7, <2>8, WrappedIs
  <2> HIDE DEF z
  <2>10. Len(z) <= q.end - q.start
    BY <2>3, <2>5, <2>6, <2>7, <2>8, <2>9
  <2>11. ASSUME TwiceEscaped \notin K, Stretch(z, text, q.start, q.end - 1)
         PROVE  FALSE
    <3> DEFINE a == q.start
               b == q.end - 1
    <3>1. a \in 1..(Len(text) + 1) /\ b \in (a - 1)..Len(text) /\ b + 1 - a = q.end - q.start
      <4> DEFINE k == q.start
                 l == q.end
                 n == Len(text)
      <4>1. k \in 1..n /\ l \in 1..(n + 1) /\ k + 1 < l /\ k \in Nat /\ l \in Nat /\ n \in Nat
        BY <2>3, <2>8
      <4> HIDE DEF k, l, n
      <4>2. k \in 1..(n + 1) /\ l - 1 \in (k - 1)..n /\ (l - 1) + 1 - k = l - k
        BY <4>1
      <4> QED
        BY <4>2 DEF k, l, n
    <3> HIDE DEF a, b
    <3>2. Stretch(z, text, a, b)
      BY <2>11 DEF a, b
    <3>3. Len(z) = b + 1 - a /\ \A i \in 1..(b + 1 - a) : z[i] = text[a + i - 1]
      BY <3>1, <3>2, StretchIs
    <3>4. Len(x) = Len(c)
      BY <2>3, <2>7, <2>8, <2>9, <3>1, <3>3
    <3>5. ASSUME NEW i \in 1..Len(x) PROVE x[i] = c[i]
      <4>1. /\ i + 1 \in 1..(b + 1 - a) /\ a + (i + 1) - 1 = q.start + i
            /\ i \in 1..(q.end - q.start - 2)
        BY <2>3, <2>8, <3>1, <3>4 DEF a
      <4>2. z[i + 1] = text[q.start + i]
        BY <3>3, <4>1
      <4>3. z[i + 1] = Encoded(x[i])
        BY <2>6, <2>7, <2>9
      <4>4. c[i] = Decoded(Encoded(x[i]))
        BY <2>3, <4>1, <4>2, <4>3
      <4>5. x[i] # TwiceEscaped
        BY <2>6, <2>11
      <4> QED
        BY <4>4, <4>5, DecodedEncoded
    <3>6. x \in Seq(K \cup N) /\ c \in Seq(K \cup N)
      BY <2>3, <2>5
    <3>7. x = c
      BY <3>4, <3>5, <3>6, SeqEqual
    <3> QED
      BY <2>4, <3>7
  <2> QED
    BY <2>2, <2>3, <2>8, <2>9, <2>10, <2>11
<1> QED
  BY <1>2 DEF Spanning

\* What takes the place of a value is one of the marks of M.
Replacing(needles, M) == \A n \in needles : n.replace \in M

LEMMA OccursIs ==
  ASSUME NEW M, NEW text, text \in Seq(M), NEW find, Listing(find), find # <<>>,
         NEW at \in DOMAIN text, Occurs(find, text, at)
  PROVE  /\ at \in 1..Len(text) /\ Len(find) \in Nat /\ 0 < Len(find) /\ at + Len(find) - 1 <= Len(text)
         /\ at + Len(find) \in 1..(Len(text) + 1)
         /\ \A i \in 1..Len(find) : find[i] = text[at + i - 1]
<1> DEFINE k == Len(find)
           n == Len(text)
           b == at + k - 1
<1>1. k \in Nat /\ k # 0 /\ n \in Nat /\ at \in 1..n
  BY LenOfListing
<1>2. b <= n /\ Stretch(find, text, at, b)
  BY DEF Occurs, Stretch
<1> HIDE DEF k, n
<1>3. at \in 1..(n + 1) /\ b \in (at - 1)..n /\ b + 1 - at = k /\ at + k \in 1..(n + 1)
  BY <1>1, <1>2
<1> HIDE DEF b
<1>4. at \in 1..(Len(text) + 1) /\ b \in (at - 1)..Len(text)
  BY <1>3 DEF n
<1>5. \A i \in 1..(b + 1 - at) : find[i] = text[at + i - 1]
  <2> DEFINE a == at
             z == find
  <2>1. Stretch(z, text, a, b) /\ a \in 1..(Len(text) + 1) /\ b \in (a - 1)..Len(text)
    BY <1>2, <1>4
  <2> HIDE DEF a, z
  <2>2. \A i \in 1..(b + 1 - a) : z[i] = text[a + i - 1]
    BY <2>1, StretchIs
  <2> QED
    BY <2>2 DEF a, z
<1>6. \A i \in 1..k : find[i] = text[at + i - 1]
  BY <1>3, <1>5
<1>7. 0 < k /\ at + k - 1 <= n
  BY <1>1, <1>2 DEF b
<1> QED
  BY <1>1, <1>3, <1>6, <1>7 DEF k, n

\* A value takes no more room as a placeholder.
LEMMA RawSpansFit ==
  ASSUME NEW M, NEW text, text \in Seq(M), NEW needles, Fit(needles), Replacing(needles, M)
  PROVE  Spanning(RawSpans(needles, text), Len(text), M)
<1>1. Listing(text)
  BY DEF Listing
<1> SUFFICES ASSUME NEW r \in RawSpans(needles, text)
             PROVE  /\ r.start \in 1..Len(text) /\ r.end \in 1..(Len(text) + 1) /\ r.start < r.end
                    /\ r.text \in Seq(M) /\ Len(r.text) <= r.end - r.start
  BY DEF Spanning
<1>2. PICK n \in needles : /\ r.start \in DOMAIN text /\ Occurs(n.find, text, r.start)
                           /\ r.end = r.start + Len(n.find) /\ r.text = <<n.replace>>
  BY <1>1, RawSpansAre
<1> DEFINE f == n.find
           at == r.start
<1>3. Listing(f) /\ f # <<>>
  BY DEF Fit
<1>4. at \in DOMAIN text /\ Occurs(f, text, at) /\ r.end = at + Len(f)
  BY <1>2
<1>5. n.replace \in M
  BY DEF Replacing
<1>6. r.text \in Seq(M) /\ Len(r.text) = 1
  BY <1>2, <1>5
<1> HIDE DEF f, at
<1>7. at \in 1..Len(text) /\ Len(f) \in Nat /\ 0 < Len(f) /\ at + Len(f) \in 1..(Len(text) + 1)
  BY <1>3, <1>4, OccursIs
<1>8. at < at + Len(f) /\ 1 <= (at + Len(f)) - at
  BY <1>7
<1> QED
  BY <1>4, <1>6, <1>7, <1>8 DEF at

\* What is left of every content is no longer, and of the marks of K.
Left(inner, text, K) ==
  \A u \in Contents(text) : inner[u] \in Seq(K) /\ Len(inner[u]) <= Len(u)

\* The marks a text can be written in: what it says, and says again, stays writable.
Writes(K, M) == \A mark \in K : Encoded(mark) \in M

\* The spans of a text, both kinds.
LEMMA SpansFit ==
  ASSUME NEW M, NEW text, text \in Seq(M), NEW needles, Fit(needles), Replacing(needles, M),
         Quote \in M, NEW N, Says(M, N), NEW K, Writes(K, M),
         NEW inner, Left(inner, text, K)
  PROVE  LET raw == RawSpans(needles, text)
         IN Spanning(raw \cup QuotedSpans(text, raw, inner), Len(text), M)
<1> DEFINE raw == RawSpans(needles, text)
           quoted == QuotedSpans(text, raw, inner)
<1>1. Spanning(raw, Len(text), M)
  BY RawSpansFit
<1>2. Spanning(quoted, Len(text), M)
  <2> HIDE DEF raw
  <2> QED
    BY QuotedSpansAre DEF Left, Writes
<1> HIDE DEF raw, quoted
<1>3. Spanning(raw \cup quoted, Len(text), M)
  BY <1>1, <1>2 DEF Spanning
<1> QED
  BY <1>3 DEF raw, quoted

\* A text without the values is no longer than with them.
LEMMA ScrubWithFits ==
  ASSUME NEW M, NEW text, text \in Seq(M), NEW needles, Fit(needles), Replacing(needles, M),
         Quote \in M, Overlap \in M, NEW N, Says(M, N), NEW K, Writes(K, M),
         NEW inner, Left(inner, text, K)
  PROVE  /\ ScrubWith(needles, text, inner) \in Seq(M)
         /\ Len(ScrubWith(needles, text, inner)) <= Len(text)
<1> DEFINE spans == RawSpans(needles, text) \cup QuotedSpans(text, RawSpans(needles, text), inner)
           merged == Merged(spans)
<1>1. Spanning(spans, Len(text), M) /\ Len(text) \in Nat
  BY SpansFit
<1>2. ScrubWith(needles, text, inner) = Replaced(text, merged)
  BY DEF ScrubWith
<1>3. Spanning(merged, Len(text), M)
  <2> HIDE DEF spans
  <2> QED
    BY <1>1, MergedAre
<1> HIDE DEF merged
<1>4. Replaced(text, merged) \in Seq(M) /\ Len(Replaced(text, merged)) <= Len(text)
  BY <1>3, ReplacedFits
<1> QED
  BY <1>2, <1>4

\* Where a text comes out as it was, no value is left in it but one that stands
\* where its own placeholder does.
LEMMA ScrubWithLeaves ==
  ASSUME NEW M, NEW text, text \in Seq(M), NEW needles, Fit(needles), Replacing(needles, M),
         Quote \in M, Overlap \in M, NEW N, Says(M, N), NEW K, Writes(K, M), TwiceEscaped \notin K,
         NEW inner, Left(inner, text, K),
         ScrubWith(needles, text, inner) = text
  PROVE  \A r \in RawSpans(needles, text) :
           r.end = r.start + 1 /\ \E n \in needles : text[r.start] = n.replace
<1> DEFINE raw == RawSpans(needles, text)
           quoted == QuotedSpans(text, raw, inner)
           spans == raw \cup quoted
<1>1. Spanning(spans, Len(text), M) /\ Len(text) \in Nat
  BY SpansFit
<1>2. \A m \in quoted : ~Stretch(m.text, text, m.start, m.end - 1)
  <2> HIDE DEF raw
  <2> QED
    BY QuotedSpansAre DEF Left, Writes
<1>3. Replaced(text, Merged(spans)) = text
  BY DEF ScrubWith
<1>4. \A r \in raw : \E n \in needles : r.text = <<n.replace>>
  <2>1. Listing(text)
    BY DEF Listing
  <2> QED
    BY <2>1, RawSpansAre
<1> HIDE DEF raw, quoted
<1>5. raw \subseteq spans /\ \A m \in spans : m \in raw \/ m \in quoted
  OBVIOUS
<1> HIDE DEF spans
<1>6. ASSUME NEW r \in raw
      PROVE  r.end = r.start + 1 /\ \E n \in needles : text[r.start] = n.replace
  <2>1. PICK m \in spans : m.start <= r.start /\ r.end <= m.end /\ Stretch(m.text, text, m.start, m.end - 1)
    BY <1>1, <1>3, <1>5, NothingTakenOut
  <2>2. PICK n \in needles : m.text = <<n.replace>>
    BY <1>2, <1>4, <1>5, <2>1
  <2>3. /\ m.start \in 1..Len(text) /\ m.end \in 1..(Len(text) + 1) /\ m.start < m.end
        /\ r.start \in 1..Len(text) /\ r.end \in 1..(Len(text) + 1) /\ r.start < r.end
    BY <1>1, <1>5 DEF Spanning
  <2> DEFINE a == m.start
             b == m.end - 1
             z == m.text
             k == n.replace
  <2>4. a \in 1..(Len(text) + 1) /\ b \in (a - 1)..Len(text) /\ a \in Nat /\ b \in Nat /\ b + 1 - a \in Nat
        /\ 1 <= b + 1 - a
    <3> DEFINE i == m.start
               j == m.end
               l == Len(text)
    <3>1. i \in 1..l /\ j \in 1..(l + 1) /\ i < j /\ l \in Nat
      BY <1>1, <2>3
    <3> HIDE DEF i, j, l
    <3>2. i \in 1..(l + 1) /\ j - 1 \in (i - 1)..l /\ i \in Nat /\ j - 1 \in Nat /\ (j - 1) + 1 - i \in Nat
          /\ 1 <= (j - 1) + 1 - i
      BY <3>1
    <3> QED
      BY <3>2 DEF i, j, l
  <2>5. Stretch(z, text, a, b) /\ z = <<k>>
    BY <2>1, <2>2
  <2>6. b + 1 - a = 1 => r.start = a /\ r.end = a + 1
    <3> DEFINE i == m.start
               j == m.end
               f == r.start
               g == r.end
    <3>1. /\ i \in Nat /\ j \in Nat /\ f \in Nat /\ g \in Nat /\ i <= f /\ g <= j /\ f < g
      BY <1>1, <2>1, <2>3
    <3> HIDE DEF i, j, f, g
    <3>2. (j - 1) + 1 - i = 1 => f = i /\ g = i + 1
      BY <3>1
    <3> QED
      BY <3>2 DEF i, j, f, g
  <2> HIDE DEF a, b, z, k
  <2>7. Len(z) = b + 1 - a /\ \A i \in 1..(b + 1 - a) : z[i] = text[a + i - 1]
    BY <2>4, <2>5, StretchIs
  <2>8. Len(z) = 1 /\ z[1] = k
    BY <2>5
  <2>9. 1 \in 1..(b + 1 - a) /\ a + 1 - 1 = a
    BY <2>4
  <2>10. text[a] = k
    BY <2>7, <2>8, <2>9
  <2> QED
    BY <2>6, <2>7, <2>8, <2>10 DEF k
<1> QED
  BY <1>6 DEF raw

\* What the quotations of a text say is of the marks its own say.
LEMMA SaidIn ==
  ASSUME NEW M, NEW text, text \in Seq(M), NEW N, Says(M, N)
  PROVE  \A u \in Contents(text) : u \in Seq(N)
<1> SUFFICES ASSUME NEW q \in Quotations(text) PROVE Content(text, q) \in Seq(N)
  BY DEF Contents
<1> QED
  BY QuotationsAre

\* At the depth where nothing more is quoted.
LEMMA InnermostFits ==
  ASSUME NEW M, NEW text, text \in Seq(M), NEW needles, Fit(needles), Replacing(needles, M),
         Overlap \in M
  PROVE  /\ Innermost(needles, text) \in Seq(M)
         /\ Len(Innermost(needles, text)) <= Len(text)
<1> DEFINE inner == [u \in Contents(text) |-> u]
           raw == RawSpans(needles, text)
           merged == Merged(raw)
<1>1. QuotedSpans(text, raw, inner) = {}
  <2>1. \A s \in Quotations(text) : inner[Content(text, s)] = Content(text, s)
    BY DEF Contents
  <2> HIDE DEF inner, raw
  <2> QED
    BY <2>1 DEF QuotedSpans
<1>2. Innermost(needles, text) = Replaced(text, merged)
  <2> HIDE DEF inner
  <2>1. Innermost(needles, text) = ScrubWith(needles, text, inner)
    BY DEF Innermost, inner
  <2> QED
    BY <1>1, <2>1 DEF ScrubWith
<1>3. Spanning(raw, Len(text), M) /\ Len(text) \in Nat
  BY RawSpansFit
<1> HIDE DEF raw
<1>4. Spanning(merged, Len(text), M)
  BY <1>3, MergedAre
<1> HIDE DEF merged
<1>5. Replaced(text, merged) \in Seq(M) /\ Len(Replaced(text, merged)) <= Len(text)
  BY <1>4, ReplacedFits
<1> QED
  BY <1>2, <1>5

LEMMA InnerFits ==
  ASSUME NEW M, NEW text, text \in Seq(M), NEW needles, Fit(needles), Replacing(needles, M),
         Quote \in M, Overlap \in M, NEW N, Says(M, N), Writes(N, M), Replacing(needles, N), Overlap \in N
  PROVE  /\ Inner(needles, text) \in Seq(M)
         /\ Len(Inner(needles, text)) <= Len(text)
<1> DEFINE inner == [u \in Contents(text) |-> Innermost(needles, u)]
<1>1. \A u \in Contents(text) : u \in Seq(N)
  BY SaidIn
<1>2. \A u \in Contents(text) : Innermost(needles, u) \in Seq(N) /\ Len(Innermost(needles, u)) <= Len(u)
  BY <1>1, InnermostFits
<1>3. Left(inner, text, N)
  BY <1>2 DEF Left
<1>4. Inner(needles, text) = ScrubWith(needles, text, inner)
  BY DEF Inner
<1> HIDE DEF inner
<1>5. /\ ScrubWith(needles, text, inner) \in Seq(M)
      /\ Len(ScrubWith(needles, text, inner)) <= Len(text)
  BY <1>3, ScrubWithFits
<1> QED
  BY <1>4, <1>5

\* What takes the place of a value is no quotation mark of a quotation.
Plain(needles) ==
  /\ Overlap \notin {Escaped, TwiceEscaped}
  /\ \A n \in needles : n.replace \notin {Escaped, TwiceEscaped}

\* The marks of a text and of what becomes of it; of what its quotations say; and
\* of what the quotations in those say.
Marks(needles, text) ==
  Range(text) \cup {Quote, Escaped, TwiceEscaped, Overlap} \cup {n.replace : n \in needles}

Marks1(needles, text) == Marks(needles, text) \ {TwiceEscaped}

Marks2(needles, text) == Marks(needles, text) \ {Escaped, TwiceEscaped}

LEMMA DepthsAre ==
  ASSUME NEW text, Listing(text), NEW needles, Plain(needles)
  PROVE  LET U == Marks(needles, text)
             V == Marks1(needles, text)
             W == Marks2(needles, text)
         IN /\ text \in Seq(U) /\ TwiceEscaped \notin V
            /\ Says(U, V) /\ Says(V, W) /\ Writes(V, U) /\ Writes(W, V)
            /\ Quote \in U /\ Quote \in V /\ Overlap \in U /\ Overlap \in V /\ Overlap \in W
            /\ Replacing(needles, U) /\ Replacing(needles, V) /\ Replacing(needles, W)
<1> DEFINE U == Marks(needles, text)
           V == Marks1(needles, text)
           W == Marks2(needles, text)
<1>1. PICK S : text \in Seq(S)
  BY DEF Listing
<1>2. text \in Seq(U)
  <2>1. \A i \in 1..Len(text) : text[i] \in U
    BY <1>1 DEF Marks, Range
  <2> HIDE DEF U
  <2> QED
    BY <1>1, <2>1
<1>3. {Quote, Escaped, TwiceEscaped, Overlap} \subseteq U /\ \A n \in needles : n.replace \in U
  BY DEF Marks
<1>4. V = U \ {TwiceEscaped} /\ W = U \ {Escaped, TwiceEscaped}
  BY DEF Marks1, Marks2
<1> HIDE DEF U, V, W
<1>5. Says(U, V) /\ Says(V, W) /\ Writes(V, U) /\ Writes(W, V)
  BY <1>3, <1>4 DEF Says, Writes, Decoded, Encoded, Quote, Escaped, TwiceEscaped
<1>6. Quote \in U /\ Quote \in V
  BY <1>3, <1>4 DEF Quote, TwiceEscaped
<1>7. Overlap \in U /\ Overlap \in V /\ Overlap \in W
  BY <1>3, <1>4 DEF Plain
<1>8. Replacing(needles, U) /\ Replacing(needles, V) /\ Replacing(needles, W)
  BY <1>3, <1>4 DEF Plain, Replacing
<1> QED
  BY <1>2, <1>4, <1>5, <1>6, <1>7, <1>8 DEF U, V, W

\* Values that can be taken out.
Known(values) ==
  /\ Listing(values) /\ Overlap \notin {Escaped, TwiceEscaped}
  /\ \A i \in DOMAIN values :
       Listing(values[i].text) /\ PlaceholderFor(values[i].label) \notin {Escaped, TwiceEscaped}

\* Scrubbing never makes a text longer.
LEMMA ScrubbedFits ==
  ASSUME NEW values, Known(values), NEW text, Listing(text)
  PROVE  LET needles == Needles(values)
             inner == [u \in Contents(text) |-> Inner(needles, u)]
         IN /\ Fit(needles) /\ Plain(needles)
            /\ Left(inner, text, Marks1(needles, text))
            /\ Scrubbed(values, text) = ScrubWith(needles, text, inner)
            /\ Listing(Scrubbed(values, text)) /\ Len(Scrubbed(values, text)) <= Len(text)
<1> DEFINE needles == Needles(values)
           inner == [u \in Contents(text) |-> Inner(needles, u)]
           U == Marks(needles, text)
           V == Marks1(needles, text)
           W == Marks2(needles, text)
<1>1. /\ Fit(needles)
      /\ \A n \in needles : \E i \in DOMAIN values : n.replace = PlaceholderFor(values[i].label)
  BY NeedlesAre DEF Known
<1>2. Scrubbed(values, text) = ScrubWith(needles, text, inner)
  BY DEF Scrubbed
<1> HIDE DEF needles
<1>3. Plain(needles)
  BY <1>1 DEF Plain, Known
<1>4. /\ text \in Seq(U) /\ TwiceEscaped \notin V
      /\ Says(U, V) /\ Says(V, W) /\ Writes(V, U) /\ Writes(W, V)
      /\ Quote \in U /\ Quote \in V /\ Overlap \in U /\ Overlap \in V /\ Overlap \in W
      /\ Replacing(needles, U) /\ Replacing(needles, V) /\ Replacing(needles, W)
  BY <1>3, DepthsAre
<1> HIDE DEF U, V, W
<1>5. \A u \in Contents(text) : u \in Seq(V)
  BY <1>4, SaidIn
<1>6. \A u \in Contents(text) : Inner(needles, u) \in Seq(V) /\ Len(Inner(needles, u)) <= Len(u)
  BY <1>1, <1>4, <1>5, InnerFits
<1>7. Left(inner, text, V)
  BY <1>6 DEF Left
<1> HIDE DEF inner
<1>8. /\ ScrubWith(needles, text, inner) \in Seq(U)
      /\ Len(ScrubWith(needles, text, inner)) <= Len(text)
  BY <1>1, <1>4, <1>7, ScrubWithFits
<1>9. Listing(Scrubbed(values, text)) /\ Len(Scrubbed(values, text)) <= Len(text)
  BY <1>2, <1>8 DEF Listing
<1> QED
  BY <1>1, <1>2, <1>3, <1>7, <1>9 DEF needles, inner, V

\* A known value that is in a text which scrubbing changes nothing of itself says a
\* placeholder, however the values overlap and whatever the text quotes (Scrub.ts,
\* scrubbing).
THEOREM ScrubbedLeaves ==
  ASSUME NEW values, Known(values), NEW text, Listing(text), Scrubbed(values, text) = text,
         NEW i \in DOMAIN values, values[i].text # <<>>,
         NEW at \in DOMAIN text, Occurs(values[i].text, text, at)
  PROVE  \E j \in DOMAIN values : PlaceholderFor(values[j].label) \in Range(values[i].text)
<1> DEFINE needles == Needles(values)
           inner == [u \in Contents(text) |-> Inner(needles, u)]
           U == Marks(needles, text)
           V == Marks1(needles, text)
           W == Marks2(needles, text)
           value == values[i].text
<1>1. /\ Fit(needles) /\ Plain(needles)
      /\ Left(inner, text, V)
      /\ ScrubWith(needles, text, inner) = text
  BY ScrubbedFits
<1>2. /\ \A n \in needles : \E j \in DOMAIN values : n.replace = PlaceholderFor(values[j].label)
      /\ \A j \in DOMAIN values : values[j].text # <<>> => \E n \in needles : n.find = values[j].text
  BY NeedlesAre DEF Known
<1> HIDE DEF needles, inner
<1>3. /\ text \in Seq(U) /\ TwiceEscaped \notin V
      /\ Says(U, V) /\ Writes(V, U)
      /\ Quote \in U /\ Overlap \in U /\ Replacing(needles, U)
  BY <1>1, DepthsAre
<1>4. PICK n \in needles : n.find = value
  BY <1>2
<1> HIDE DEF U, V, W
<1>5. \A r \in RawSpans(needles, text) :
        r.end = r.start + 1 /\ \E k \in needles : text[r.start] = k.replace
  BY <1>1, <1>3, ScrubWithLeaves
<1>6. Listing(value) /\ value # <<>>
  BY DEF Known
<1> HIDE DEF value
<1>7. PICK r \in RawSpans(needles, text) : \E b \in DOMAIN text :
        Occurs(value, text, b) /\ r.start < b + Len(value) /\ b < r.end
  <2>1. Occurs(n.find, text, at)
    BY <1>4 DEF value
  <2>2. \E r \in RawSpans(needles, text) : \E b \in DOMAIN text :
          Occurs(n.find, text, b) /\ r.start < b + Len(n.find) /\ b < r.end
    BY <1>1, <2>1, RawSpansAre
  <2> QED
    BY <1>4, <2>2
<1>8. PICK b \in DOMAIN text : Occurs(value, text, b) /\ r.start < b + Len(value) /\ b < r.end
  BY <1>7
<1>9. Spanning(RawSpans(needles, text), Len(text), U)
  BY <1>1, <1>3, RawSpansFit
<1> DEFINE s == r.start
           at1 == (s - b) + 1
<1>10. s \in 1..Len(text) /\ r.end = s + 1 /\ \E k \in needles : text[s] = k.replace
  BY <1>5, <1>9 DEF Spanning
<1>11. /\ b \in 1..Len(text) /\ Len(value) \in Nat
       /\ \A k \in 1..Len(value) : value[k] = text[b + k - 1]
  BY <1>3, <1>6, <1>8, OccursIs
<1>12. s < b + Len(value) /\ b < s + 1
  BY <1>8, <1>10
<1> HIDE DEF s
<1>13. at1 \in 1..Len(value) /\ b + at1 - 1 = s
  BY <1>10, <1>11, <1>12
<1> HIDE DEF at1
<1>14. value[at1] = text[s]
  BY <1>11, <1>13
<1>15. DOMAIN value = 1..Len(value)
  BY <1>6, LenOfListing
<1>16. text[s] \in Range(value)
  BY <1>13, <1>14, <1>15 DEF Range
<1>17. PICK k \in needles : text[s] = k.replace
  BY <1>10
<1>18. PICK j \in DOMAIN values : k.replace = PlaceholderFor(values[j].label)
  BY <1>2
<1> QED
  BY <1>16, <1>17, <1>18 DEF value

-----------------------------------------------------------------------------
\* What the run keeps

Fields == {"stage", "attempted", "steps", "readings", "parameters", "selections", "gaps", "secrets",
           "summary", "outputs"}

\* A value as a proposal tags it.
Tagged(value) == value = [kind |-> value.kind, name |-> value.name, literal |-> value.literal]

\* Some step gave this name this literal.
Gave(steps, name, literal) ==
  \E i \in DOMAIN steps : /\ steps[i].value.kind = "goalDerived"
                          /\ steps[i].value.name = name /\ steps[i].value.literal = literal

Shaped(r) ==
  /\ DOMAIN r = Fields
  /\ Listing(r.steps) /\ Listing(r.parameters) /\ Listing(r.selections) /\ Listing(r.gaps)

\* What is recorded of a step says of its value what was done.
Faithful(r) ==
  \A i \in DOMAIN r.steps :
    /\ Tagged(r.steps[i].value)
    /\ r.steps[i].value.kind = "goalDerived" => r.steps[i].value.literal = r.steps[i].did.literal
    /\ r.steps[i].verb = "fill" => r.steps[i].value.kind \in {"goalDerived", "constant"}
    /\ r.steps[i].verb = "selectFromList" => r.steps[i].value.kind = "goalDerived"

\* A parameter as the run declares it.
Entered(q) == q = [name |-> q.name, literal |-> q.literal, usedBy |-> q.usedBy]

\* A parameter, and the default of a choice, is what some step gave its name.
Given(r) ==
  /\ \A q \in Range(r.parameters) :
       /\ Entered(q)
       /\ Gave(r.steps, q.name, q.literal)
  /\ \A i \in DOMAIN r.steps :
       r.steps[i].value.kind = "goalDerived" => \E q \in Range(r.parameters) : q.name = r.steps[i].value.name
  /\ \A s \in Range(r.selections) : Gave(r.steps, s.parameter, s.default)

\* A gap names the step it came after.
Placed(r) ==
  \A gap \in Range(r.gaps) :
    /\ gap.at \in 0..Len(r.steps)
    /\ gap.after = IF gap.at = 0 THEN "open" ELSE r.steps[gap.at].id

\* A document whose checkpoints say what that run saw.
Follows(r, doc) ==
  \A i \in 0..Len(r.steps) :
    LET gapped == \E gap \in Range(r.gaps) : gap.at = i
        said(a) == CASE a.assert = "stepRead" -> i > 0 /\ r.steps[i].verb = "extract"
                                                 /\ a.step = r.steps[i].id
                     [] a.assert = "targetReads" -> i > 0 /\ r.steps[i].verb = "fill" /\ ~gapped
                                                    /\ a.text = r.steps[i].target
                     [] OTHER -> i < Len(r.steps) /\ a.text = r.steps[i + 1].target
    IN /\ doc.steps[i + 1].expect # {}
       /\ \A a \in doc.steps[i + 1].expect : said(a)
       /\ gapped => \E a \in doc.steps[i + 1].expect :
                      a.assert \in {"targetPresent", "textPresent"}

ParameterNamed(r, name) == CHOOSE p \in Range(r.parameters) : p.name = name

SuppliedBy(r, doc, value) ==
  CASE value.from = "constant" -> value.text
    [] value.from = "parameter" /\ doc.inputs[value.name].type = "enum" ->
         doc.inputs[value.name].default
    [] value.from = "parameter" /\ doc.inputs[value.name].type # "enum" ->
         ParameterNamed(r, value.name).literal
    [] OTHER -> <<>>

HasTwoMeanings(r, name) ==
  \E i, j \in DOMAIN r.steps :
    /\ r.steps[i].value.kind = "goalDerived" /\ r.steps[i].value.name = name
    /\ r.steps[j].value = [r.steps[i].value EXCEPT !.literal = r.steps[j].did.literal]
    /\ r.steps[i].did.literal # r.steps[j].did.literal

\* A document whose plain steps are what that run did.
Repeats(r, doc) ==
  \A i \in DOMAIN r.steps :
    \/ /\ doc.steps[i + 1].target = r.steps[i].did.target
       /\ doc.steps[i + 1].type \in {"fill", "selectFromList"} =>
            SuppliedBy(r, doc, doc.steps[i + 1].value) = r.steps[i].did.literal
    \/ TakenOutOf(r.steps[i])
    \/ r.steps[i].value.kind = "goalDerived" /\ HasTwoMeanings(r, r.steps[i].value.name)

Kept ==
  /\ Shaped(run) /\ Faithful(run) /\ Given(run) /\ Placed(run)
  /\ stored # Absent => run.stage # "running"
  /\ Stored => Follows(run, stored) /\ Repeats(run, stored)

LEMMA RangeOf ==
  ASSUME NEW f
  PROVE  \A y : y \in Range(f) <=> \E x \in DOMAIN f : f[x] = y
BY DEF Range

LEMMA Appended ==
  ASSUME NEW s, Listing(s), NEW e
  PROVE  /\ Listing(Append(s, e)) /\ Len(s) \in Nat /\ Len(Append(s, e)) = Len(s) + 1
         /\ DOMAIN s = 1..Len(s) /\ DOMAIN Append(s, e) = 1..(Len(s) + 1)
         /\ \A i \in DOMAIN s : Append(s, e)[i] = s[i]
         /\ Append(s, e)[Len(s) + 1] = e
         /\ Range(Append(s, e)) = Range(s) \cup {e}
<1>1. PICK S : s \in Seq(S)
  BY DEF Listing
<1> DEFINE T == S \cup {e}
<1>2. s \in Seq(T) /\ e \in T
  BY <1>1
<1>3. Append(s, e) \in Seq(T)
  BY <1>2
<1>4. /\ Len(s) \in Nat /\ Len(Append(s, e)) = Len(s) + 1
      /\ DOMAIN s = 1..Len(s) /\ DOMAIN Append(s, e) = 1..(Len(s) + 1)
      /\ \A i \in DOMAIN s : Append(s, e)[i] = s[i]
      /\ Append(s, e)[Len(s) + 1] = e
  BY <1>2
<1>5. Range(Append(s, e)) = Range(s) \cup {e}
  <2>1. \A y : y \in Range(Append(s, e)) <=> y \in Range(s) \/ y = e
    BY <1>4 DEF Range
  <2> QED
    BY <2>1
<1> QED
  BY <1>3, <1>4, <1>5 DEF Listing

\* A step that is recorded of a turn that was not corrected.
LEMMA RecordedIs ==
  ASSUME NEW p \in Proposals, ~Corrected(p), NEW id, NEW secrets
  PROVE  LET step == Recorded(p, id, secrets)
         IN /\ Tagged(step.value) /\ step.id = id
            /\ step.value.kind = p.value.kind /\ step.value.name = p.value.name
            /\ step.did.literal = p.value.literal
            /\ p.value.kind = "goalDerived" => step.value.literal = p.value.literal
            /\ step.verb = "fill" => step.value.kind \in {"goalDerived", "constant"}
            /\ step.verb = "selectFromList" => step.value.kind = "goalDerived"
<1> DEFINE step == Recorded(p, id, secrets)
           v == p.value
<1>1. /\ v = [kind |-> v.kind, name |-> v.name, literal |-> v.literal]
      /\ p.verb = "fill" => v.kind \in {"goalDerived", "constant", "uiDerived"}
  BY ValuesAssumption
<1>2. /\ p.verb = "selectFromList" => v.kind = "goalDerived"
      /\ ~(p.verb = "fill" /\ v.kind = "uiDerived")
  BY DEF Corrected, Selectable
<1>3. /\ step.id = id /\ step.verb = p.verb /\ step.did.literal = p.value.literal
      /\ step.value = IF v.kind = "constant" THEN [v EXCEPT !.literal = Scrubbed(secrets, @)] ELSE v
  BY DEF Recorded
<1>4. /\ Tagged(step.value) /\ step.value.kind = v.kind /\ step.value.name = v.name
      /\ v.kind # "constant" => step.value = v
  <2> HIDE DEF step, v
  <2>1. CASE v.kind = "constant"
    BY <1>1, <1>3, <2>1 DEF Tagged
  <2>2. CASE v.kind # "constant"
    BY <1>1, <1>3, <2>2 DEF Tagged
  <2> QED
    BY <2>1, <2>2
<1> HIDE DEF step
<1> QED
  BY <1>1, <1>2, <1>3, <1>4 DEF step

\* After one step more, what was given is still given.
LEMMA GaveGrows ==
  ASSUME NEW s, Listing(s), NEW e, NEW name, NEW literal
  PROVE  /\ Gave(s, name, literal) => Gave(Append(s, e), name, literal)
         /\ (e.value.kind = "goalDerived" /\ e.value.name = name /\ e.value.literal = literal) =>
              Gave(Append(s, e), name, literal)
<1>1. /\ DOMAIN s \subseteq DOMAIN Append(s, e) /\ \A i \in DOMAIN s : Append(s, e)[i] = s[i]
      /\ Len(s) + 1 \in DOMAIN Append(s, e) /\ Append(s, e)[Len(s) + 1] = e
  BY Appended
<1> QED
  BY <1>1 DEF Gave

\* `next` declares what `was` did, and the name of a value of the goal.
Knowing(was, value, next) ==
  /\ Listing(next)
  /\ \A q \in Range(next) :
       /\ Entered(q)
       /\ \/ value.kind = "goalDerived" /\ q.name = value.name /\ q.literal = value.literal
          \/ \E o \in Range(was) : q.name = o.name /\ q.literal = o.literal
  /\ \A o \in Range(was) : \E q \in Range(next) : q.name = o.name
  /\ value.kind = "goalDerived" => \E q \in Range(next) : q.name = value.name

\* The parameters after a turn: those there were, and the name of this one.
LEMMA ParametersAre ==
  ASSUME NEW p, NEW id, Listing(run.parameters),
         \A q \in Range(run.parameters) : Entered(q)
  PROVE  Knowing(run.parameters, p.value, ParametersKnowing(p, id))
<1> DEFINE was == run.parameters
           next == ParametersKnowing(p, id)
           used == {i \in DOMAIN was : was[i].name = p.value.name}
           fresh == [name |-> p.value.name, literal |-> p.value.literal, usedBy |-> <<id>>]
           marked == [i \in DOMAIN was |->
                        IF i \in used THEN [was[i] EXCEPT !.usedBy = Append(@, id)] ELSE was[i]]
<1>1. next = IF p.value.kind # "goalDerived" THEN was
             ELSE IF used = {} THEN Append(was, fresh) ELSE marked
  BY DEF ParametersKnowing
<1>2. \A i \in DOMAIN was : was[i] \in Range(was)
                            /\ Entered(was[i])
  BY DEF Range
<1>3. Entered(fresh) /\ fresh.name = p.value.name /\ fresh.literal = p.value.literal
  BY DEF Entered
<1>4. CASE p.value.kind # "goalDerived"
  BY <1>1, <1>4 DEF Knowing
<1>5. CASE p.value.kind = "goalDerived" /\ used = {}
  <2>1. next = Append(was, fresh)
    BY <1>1, <1>5
  <2> HIDE DEF fresh, next
  <2>2. Listing(next) /\ Range(next) = Range(was) \cup {fresh}
    BY <2>1, Appended
  <2> QED
    BY <1>3, <1>5, <2>2 DEF next, Knowing
<1>6. CASE p.value.kind = "goalDerived" /\ used # {}
  <2>1. next = marked
    BY <1>1, <1>6
  <2>2. \A i \in DOMAIN was :
          /\ marked[i].name = was[i].name /\ marked[i].literal = was[i].literal
          /\ Entered(marked[i])
    <3> SUFFICES ASSUME NEW i \in DOMAIN was
                 PROVE  /\ marked[i].name = was[i].name /\ marked[i].literal = was[i].literal
                        /\ Entered(marked[i])
      OBVIOUS
    <3> DEFINE a == was[i].name
               b == was[i].literal
               c == was[i].usedBy
    <3>1. was[i] = [name |-> a, literal |-> b, usedBy |-> c]
      BY <1>2 DEF Entered
    <3>2. marked[i] = IF i \in used THEN [was[i] EXCEPT !.usedBy = Append(c, id)] ELSE was[i]
      BY Zenon
    <3> HIDE DEF a, b, c, used, marked
    <3>3. marked[i] = [name |-> a, literal |-> b, usedBy |-> c]
          \/ marked[i] = [name |-> a, literal |-> b, usedBy |-> Append(c, id)]
      <4>1. CASE i \in used
        <5>1. marked[i] = [was[i] EXCEPT !.usedBy = Append(c, id)]
          BY <3>2, <4>1
        <5> QED
          BY <3>1, <5>1
      <4>2. CASE i \notin used
        BY <3>1, <3>2, <4>2, Zenon
      <4> QED
        BY <4>1, <4>2
    <3> QED
      BY <3>1, <3>3 DEF Entered
  <2>3. DOMAIN marked = DOMAIN was
    OBVIOUS
  <2>4. Listing(marked)
    <3>1. PICK S : was \in Seq(S)
      BY DEF Listing
    <3>2. Len(was) \in Nat /\ DOMAIN was = 1..Len(was)
      BY <3>1
    <3> HIDE DEF used
    <3>3. marked \in [1..Len(was) -> Range(marked)]
      BY <3>2 DEF Range
    <3> HIDE DEF marked
    <3>4. marked \in Seq(Range(marked))
      BY <3>2, <3>3
    <3> QED
      BY <3>4 DEF Listing
  <2> HIDE DEF marked, next, used
  <2>5. \A q : q \in Range(next) <=> \E i \in DOMAIN was : marked[i] = q
    BY <2>1, <2>3 DEF Range
  <2>6. \A i \in DOMAIN was : marked[i].name = was[i].name /\ marked[i].literal = was[i].literal
    BY <2>2
  <2>7. \A i \in DOMAIN was : was[i] \in Range(was) /\ marked[i] \in Range(next)
    BY <1>2, <2>5
  <2>8. \A o \in Range(was) : \E q \in Range(next) : q.name = o.name
    <3> SUFFICES ASSUME NEW o \in Range(was) PROVE \E q \in Range(next) : q.name = o.name
      OBVIOUS
    <3>1. PICK i \in DOMAIN was : was[i] = o
      BY DEF Range
    <3>2. marked[i] \in Range(next) /\ marked[i].name = o.name
      BY <2>6, <2>7, <3>1
    <3> QED
      BY <3>2
  <2>9. \E q \in Range(next) : q.name = p.value.name
    <3>1. PICK i \in used : TRUE
      BY <1>6
    <3>2. i \in DOMAIN was /\ was[i].name = p.value.name
      BY <3>1 DEF used
    <3>3. marked[i] \in Range(next) /\ marked[i].name = p.value.name
      BY <2>6, <2>7, <3>2
    <3> QED
      BY <3>3
  <2>10. \A q \in Range(next) :
           /\ Entered(q)
           /\ \E o \in Range(was) : q.name = o.name /\ q.literal = o.literal
    <3> SUFFICES ASSUME NEW q \in Range(next)
                 PROVE  /\ Entered(q)
                        /\ \E o \in Range(was) : q.name = o.name /\ q.literal = o.literal
      OBVIOUS
    <3>1. PICK i \in DOMAIN was : marked[i] = q
      BY <2>5
    <3>2. Entered(q)
      BY <2>2, <3>1, Zenon
    <3>3. was[i] \in Range(was) /\ q.name = was[i].name /\ q.literal = was[i].literal
      BY <2>6, <2>7, <3>1
    <3> QED
      BY <3>2, <3>3
  <2> QED
    BY <2>1, <2>4, <2>8, <2>9, <2>10 DEF next, Knowing
<1> QED
  BY <1>4, <1>5, <1>6

-----------------------------------------------------------------------------
\* The run, step by step

\* Only these parts of a run are said anything of.
-----------------------------------------------------------------------------
\* What the run knows, and what it is written in

\* What the document will say is a text.
Worded(r) ==
  /\ \A i \in DOMAIN r.steps :
       /\ Listing(r.steps[i].target) /\ Listing(r.steps[i].intent) /\ Listing(r.steps[i].rationale)
       /\ Listing(r.steps[i].value.literal)
  /\ \A s \in Range(r.selections) :
       /\ Listing(s.values) /\ \A label \in Range(s.values) : Listing(label)
       /\ Listing(s.default)
  /\ Listing(r.summary) /\ \A output \in r.outputs : Listing(output.description)

LEMMA OwnRange ==
  ASSUME NEW s, Listing(s)
  PROVE  s \in Seq(Range(s))
<1>1. PICK S : s \in Seq(S)
  BY DEF Listing
<1>2. \A i \in 1..Len(s) : s[i] \in Range(s)
  BY <1>1 DEF Range
<1> DEFINE T == Range(s)
<1>3. \A i \in 1..Len(s) : s[i] \in T
  BY <1>2
<1> HIDE DEF T
<1>4. s \in Seq(T)
  BY <1>1, <1>3
<1> QED
  BY <1>4 DEF T

LEMMA DeclassifiedIs ==
  ASSUME NEW secrets, Listing(secrets), NEW secret
  PROVE  /\ Listing(Declassify(secrets, secret))
         /\ Range(Declassify(secrets, secret)) \subseteq Range(secrets)
<1> DEFINE T == Range(secrets)
           i == CHOOSE k \in DOMAIN secrets : secrets[k] = secret
           left == Declassify(secrets, secret)
<1>1. secrets \in Seq(T)
  BY OwnRange
<1>2. left \in Seq(T)
  <2>1. CASE secret \notin T
    BY <1>1, <2>1 DEF Declassify
  <2>2. CASE secret \in T
    <3>1. i \in DOMAIN secrets
      BY <2>2, RangeOf
    <3>2. left = SubSeq(secrets, 1, i - 1) \o SubSeq(secrets, i + 1, Len(secrets))
      BY <2>2 DEF Declassify, RemoveAt
    <3> HIDE DEF T, i, left
    <3>3. i \in 1..Len(secrets)
      BY <1>1, <3>1
    <3>4. SubSeq(secrets, 1, i - 1) \in Seq(T) /\ SubSeq(secrets, i + 1, Len(secrets)) \in Seq(T)
      BY <1>1, <3>3
    <3> QED
      BY <3>2, <3>4
  <2> QED
    BY <2>1, <2>2
<1> HIDE DEF T, left
<1>3. Range(left) \subseteq T
  <2>1. \A k \in DOMAIN left : left[k] \in T
    BY <1>2
  <2> QED
    BY <2>1, RangeOf
<1> QED
  BY <1>2, <1>3 DEF Listing, T, left

LEMMA RememberedIs ==
  ASSUME NEW secrets, Listing(secrets), NEW label, NEW text
  PROVE  /\ Listing(Remember(secrets, label, text))
         /\ \A s \in Range(Remember(secrets, label, text)) :
              s \in Range(secrets) \/ (text # <<>> /\ s = Secret(label, text))
<1>1. CASE text = <<>> \/ Secret(label, text) \in Range(secrets)
  BY <1>1 DEF Remember
<1>2. CASE ~(text = <<>> \/ Secret(label, text) \in Range(secrets))
  <2> DEFINE e == Secret(label, text)
  <2>1. Remember(secrets, label, text) = Append(secrets, e) /\ text # <<>>
    BY <1>2 DEF Remember
  <2> HIDE DEF e
  <2>2. Listing(Append(secrets, e)) /\ Range(Append(secrets, e)) = Range(secrets) \cup {e}
    BY Appended
  <2> QED
    BY <2>1, <2>2 DEF e
<1> QED
  BY <1>1, <1>2

\* What is registered can be taken out of a text.
Registers(secrets) ==
  /\ Listing(secrets)
  /\ \A s \in Range(secrets) : Listing(s.text) /\ s.text # <<>> /\ s.label \in SecretLabels

LEMMA RememberedRegisters ==
  ASSUME NEW secrets, Registers(secrets), NEW label \in SecretLabels, NEW text, Listing(text)
  PROVE  Registers(Remember(secrets, label, text))
<1>1. Listing(secrets)
  BY DEF Registers
<1>2. /\ Listing(Remember(secrets, label, text))
      /\ \A s \in Range(Remember(secrets, label, text)) :
           s \in Range(secrets) \/ (text # <<>> /\ s = Secret(label, text))
  BY <1>1, RememberedIs
<1>3. Secret(label, text).text = text /\ Secret(label, text).label = label
  BY DEF Secret
<1> QED
  BY <1>2, <1>3 DEF Registers

LEMMA DeclassifiedRegisters ==
  ASSUME NEW secrets, Registers(secrets), NEW secret
  PROVE  Registers(Declassify(secrets, secret))
<1>1. Listing(secrets)
  BY DEF Registers
<1> QED
  BY <1>1, DeclassifiedIs DEF Registers

\* What the run is given is written in words.
LEMMA GivenTexts ==
  /\ Listing(<<>>) /\ Listing(Entry.path) /\ Listing(Entry.query)
  /\ \A text \in TypedByHand : Listing(text)
  /\ \A p \in Proposals : Listing(p.target) /\ Listing(p.intent) /\ Listing(p.value.literal)
  /\ \A ending \in Endings : Listing(ending.summary) /\ Listing(ending.description)
  /\ \A region \in DOMAIN Labels :
       Listing(Labels[region]) /\ \A label \in Range(Labels[region]) : Listing(label)
<1>1. \A text \in Texts : Listing(text)
  BY TextsAssumption DEF Listing
<1>2. \A region \in DOMAIN Labels : Listing(Labels[region])
  BY TextsAssumption DEF Listing
<1>3. Listing(<<>>)
  <2>1. <<>> \in Seq({})
    OBVIOUS
  <2> QED
    BY <2>1 DEF Listing
<1>4. /\ Entry.path \in Texts /\ Entry.query \in Texts
      /\ \A text \in TypedByHand : text \in Texts
  BY DEF Texts
<1>5. \A p \in Proposals : p.target \in Texts /\ p.intent \in Texts /\ p.value.literal \in Texts
  BY DEF Texts
<1>6. \A ending \in Endings : ending.summary \in Texts /\ ending.description \in Texts
  BY DEF Texts
<1>7. \A region \in DOMAIN Labels : \A label \in Range(Labels[region]) : label \in Texts
  BY DEF Texts
<1> QED
  BY <1>1, <1>2, <1>3, <1>4, <1>5, <1>6, <1>7

LEMMA OnTheParts ==
  ASSUME NEW r, NEW t, Shaped(r), Faithful(r), Given(r), Placed(r), DOMAIN t = Fields,
         t.steps = r.steps, t.parameters = r.parameters, t.selections = r.selections,
         t.gaps = r.gaps
  PROVE  Shaped(t) /\ Faithful(t) /\ Given(t) /\ Placed(t)
<1>1. Shaped(t)
  BY DEF Shaped
<1>2. Faithful(t)
  BY DEF Faithful
<1>3. Given(t)
  BY DEF Given
<1>4. Placed(t)
  BY DEF Placed
<1> QED
  BY <1>1, <1>2, <1>3, <1>4

LEMMA BeganIsKept == CompileInit => Kept
<1> SUFFICES ASSUME CompileInit PROVE Kept
  OBVIOUS
<1>1. /\ DOMAIN run = Fields /\ stored = Absent
      /\ run.steps = <<>> /\ run.parameters = <<>> /\ run.selections = <<>> /\ run.gaps = <<>>
  BY DEF CompileInit, Began, Fields
<1>2. Listing(<<>>) /\ DOMAIN <<>> = {} /\ Range(<<>>) = {}
  <2>1. <<>> \in Seq({})
    OBVIOUS
  <2> QED
    BY <2>1 DEF Listing, Range
<1> QED
  BY <1>1, <1>2 DEF Kept, Stored, Shaped, Faithful, Given, Placed

LEMMA ProceedingIsKept ==
  ASSUME Kept, NEW p \in Proposals, Turn(p)
  PROVE  Kept'
<1> DEFINE id == StepId(p, run.attempted + 1)
           secrets == SecretsKnowing(p)
           step == Recorded(p, id, secrets)
<1>1. /\ Shaped(run) /\ Faithful(run) /\ Given(run) /\ Placed(run)
      /\ run.stage = "running" /\ stored = Absent /\ stored' = Absent
  BY DEF Kept, Turn
<1>2. DOMAIN run = Fields
  BY <1>1 DEF Shaped
<1>3. CASE run' = Unperformed(p)
  <2>1. /\ DOMAIN run' = Fields /\ run'.steps = run.steps /\ run'.parameters = run.parameters
        /\ run'.selections = run.selections /\ run'.gaps = run.gaps
    BY <1>2, <1>3 DEF Unperformed, Fields
  <2> QED
    BY <1>1, <2>1, OnTheParts DEF Kept, Stored
<1>4. CASE ~Corrected(p) /\ run' = Performed(p)
  <2>1. /\ DOMAIN run' = Fields /\ run'.steps = Append(run.steps, step)
        /\ run'.parameters = ParametersKnowing(p, id) /\ run'.gaps = run.gaps
        /\ run'.selections = IF p.verb = "selectFromList" THEN Append(run.selections, Selection(p))
                             ELSE run.selections
    BY <1>2, <1>4 DEF Performed, Fields
  <2>2. /\ Tagged(step.value) /\ step.value.kind = p.value.kind /\ step.value.name = p.value.name
        /\ step.did.literal = p.value.literal
        /\ p.value.kind = "goalDerived" => step.value.literal = p.value.literal
        /\ step.verb = "fill" => step.value.kind \in {"goalDerived", "constant"}
        /\ step.verb = "selectFromList" => step.value.kind = "goalDerived"
    BY <1>4, RecordedIs
  <2>3. /\ Listing(run.steps) /\ Listing(run.parameters) /\ Listing(run.selections)
        /\ Listing(run.gaps)
    BY <1>1 DEF Shaped
  <2> DEFINE next == run'.steps
  <2> HIDE DEF step, id
  <2>4. /\ Listing(next) /\ Len(run.steps) \in Nat /\ Len(next) = Len(run.steps) + 1
        /\ DOMAIN run.steps = 1..Len(run.steps) /\ DOMAIN next = 1..(Len(run.steps) + 1)
        /\ \A i \in DOMAIN run.steps : next[i] = run.steps[i]
        /\ next[Len(run.steps) + 1] = step
    BY <2>1, <2>3, Appended
  <2>5. Knowing(run.parameters, p.value, run'.parameters)
    <3>1. \A q \in Range(run.parameters) : Entered(q)
      BY <1>1 DEF Given
    <3> QED
      BY <2>1, <2>3, <3>1, ParametersAre
  <2>6. Shaped(run')
    <3>1. Listing(run'.selections)
      BY <2>1, <2>3, Appended
    <3> QED
      BY <2>1, <2>3, <2>4, <2>5, <3>1 DEF Shaped, Knowing
  <2>7. Faithful(run')
    <3> SUFFICES ASSUME NEW i \in DOMAIN next
                 PROVE  /\ Tagged(next[i].value)
                        /\ next[i].value.kind = "goalDerived" => next[i].value.literal = next[i].did.literal
                        /\ next[i].verb = "fill" => next[i].value.kind \in {"goalDerived", "constant"}
                        /\ next[i].verb = "selectFromList" => next[i].value.kind = "goalDerived"
      BY DEF Faithful
    <3>1. CASE i \in DOMAIN run.steps
      BY <1>1, <2>4, <3>1 DEF Faithful
    <3>2. CASE i = Len(run.steps) + 1
      BY <2>2, <2>4, <3>2
    <3> QED
      BY <2>4, <3>1, <3>2
  <2>8. \A name, literal : Gave(run.steps, name, literal) => Gave(next, name, literal)
    BY <2>1, <2>3, GaveGrows
  <2>9. p.value.kind = "goalDerived" => Gave(next, p.value.name, p.value.literal)
    BY <2>1, <2>2, <2>3, GaveGrows
  <2>10. Given(run')
    <3>1. \A q \in Range(run.parameters) : Gave(run.steps, q.name, q.literal)
      BY <1>1 DEF Given
    <3>2. ASSUME NEW q \in Range(run'.parameters)
          PROVE  /\ Entered(q)
                 /\ Gave(next, q.name, q.literal)
      <4>1. Entered(q)
        BY <2>5 DEF Knowing
      <4>2. \/ p.value.kind = "goalDerived" /\ q.name = p.value.name /\ q.literal = p.value.literal
            \/ \E o \in Range(run.parameters) : q.name = o.name /\ q.literal = o.literal
        BY <2>5 DEF Knowing
      <4>3. Gave(next, q.name, q.literal)
        BY <2>8, <2>9, <3>1, <4>2
      <4> QED
        BY <4>1, <4>3
    <3>3. ASSUME NEW i \in DOMAIN next, next[i].value.kind = "goalDerived"
          PROVE  \E q \in Range(run'.parameters) : q.name = next[i].value.name
      <4>1. CASE i \in DOMAIN run.steps
        <5>1. next[i] = run.steps[i]
          BY <2>4, <4>1
        <5>2. \E o \in Range(run.parameters) : o.name = run.steps[i].value.name
          BY <1>1, <3>3, <4>1, <5>1 DEF Given
        <5> QED
          BY <2>5, <5>1, <5>2 DEF Knowing
      <4>2. CASE i = Len(run.steps) + 1
        BY <2>2, <2>4, <2>5, <3>3, <4>2 DEF Knowing
      <4> QED
        BY <2>4, <4>1, <4>2
    <3>4. ASSUME NEW s \in Range(run'.selections) PROVE Gave(next, s.parameter, s.default)
      <4>1. CASE s \in Range(run.selections)
        BY <1>1, <2>8, <4>1 DEF Given
      <4>2. CASE p.verb = "selectFromList" /\ s = Selection(p)
        <5>1. s.parameter = p.value.name /\ s.default = p.value.literal
          BY <4>2 DEF Selection
        <5>2. p.value.kind = "goalDerived"
          BY <1>4, <4>2 DEF Corrected, Selectable
        <5> QED
          BY <2>9, <5>1, <5>2
      <4>3. p.verb = "selectFromList" => Range(run'.selections) = Range(run.selections) \cup {Selection(p)}
        BY <2>1, <2>3, Appended
      <4> QED
        BY <2>1, <3>4, <4>1, <4>2, <4>3
    <3> QED
      BY <3>2, <3>3, <3>4 DEF Given
  <2>11. Placed(run')
    <3> SUFFICES ASSUME NEW gap \in Range(run.gaps)
                 PROVE  /\ gap.at \in 0..Len(next)
                        /\ gap.after = IF gap.at = 0 THEN "open" ELSE next[gap.at].id
      BY <2>1 DEF Placed
    <3>1. /\ gap.at \in 0..Len(run.steps)
          /\ gap.after = IF gap.at = 0 THEN "open" ELSE run.steps[gap.at].id
      BY <1>1 DEF Placed
    <3> HIDE DEF next
    <3>2. gap.at \in 0..Len(next) /\ (gap.at # 0 => gap.at \in DOMAIN run.steps)
      BY <2>4, <3>1
    <3> QED
      BY <2>4, <3>1, <3>2
  <2> QED
    BY <1>1, <2>6, <2>7, <2>10, <2>11 DEF Kept, Stored
<1> QED
  BY <1>3, <1>4 DEF Turn

\* The operator came in after the last step there was.
LEMMA HandedIsKept ==
  ASSUME Kept, NEW typed, Handed(typed)
  PROVE  Kept'
<1> DEFINE gap == [after |-> IF run.steps = <<>> THEN "open" ELSE Last(run.steps).id,
                   at |-> Len(run.steps)]
<1>1. /\ Shaped(run) /\ Faithful(run) /\ Given(run) /\ run.stage = "running"
      /\ stored = Absent /\ stored' = Absent
  BY DEF Kept, Handed
<1>2. /\ DOMAIN run = Fields /\ Listing(run.steps) /\ Listing(run.parameters)
      /\ Listing(run.selections)
  BY <1>1 DEF Shaped
<1>3. /\ DOMAIN run' = Fields /\ run'.steps = run.steps /\ run'.parameters = run.parameters
      /\ run'.selections = run.selections /\ run'.gaps = <<gap>>
  BY <1>2 DEF Handed, Fields
<1>4. Listing(<<gap>>) /\ Range(<<gap>>) = {gap}
  <2> HIDE DEF gap
  <2>1. <<gap>> \in Seq({gap})
    OBVIOUS
  <2>2. \A y : y \in Range(<<gap>>) <=> y = gap
    BY DEF Range
  <2> QED
    BY <2>1, <2>2 DEF Listing
<1>5. gap.at \in 0..Len(run.steps) /\ gap.after = IF gap.at = 0 THEN "open" ELSE run.steps[gap.at].id
  <2>1. PICK S : run.steps \in Seq(S)
    BY <1>2 DEF Listing
  <2>2. Len(run.steps) \in Nat /\ (Len(run.steps) = 0 <=> run.steps = <<>>)
    BY <2>1
  <2> QED
    BY <2>2 DEF Last
<1> HIDE DEF gap
<1>6. Shaped(run')
  BY <1>2, <1>3, <1>4 DEF Shaped
<1>7. Faithful(run') /\ Given(run')
  BY <1>1, <1>3 DEF Faithful, Given
<1>8. Placed(run')
  BY <1>3, <1>4, <1>5 DEF Placed
<1> QED
  BY <1>1, <1>6, <1>7, <1>8 DEF Kept, Stored

LEMMA RegistersAreKnown ==
  ASSUME NEW secrets, Registers(secrets)
  PROVE  Known(secrets)
<1>1. Listing(secrets)
  BY DEF Registers
<1>2. Overlap \notin {Escaped, TwiceEscaped}
  BY PlaceholdersAssumption DEF Overlap
<1>3. \A label \in SecretLabels : PlaceholderFor(label) \notin {Escaped, TwiceEscaped}
  BY PlaceholdersAssumption
<1>4. ASSUME NEW i \in DOMAIN secrets
      PROVE  /\ Listing(secrets[i].text)
             /\ PlaceholderFor(secrets[i].label) \notin {Escaped, TwiceEscaped}
  <2>1. secrets[i] \in Range(secrets)
    BY RangeOf
  <2> QED
    BY <1>3, <2>1 DEF Registers
<1> QED
  BY <1>1, <1>2, <1>4 DEF Known

LEMMA KnowingRegisters ==
  ASSUME NEW p \in Proposals, Registers(run.secrets)
  PROVE  Registers(SecretsKnowing(p))
<1> DEFINE label == IF p.value.kind = "goalDerived" THEN p.value.name ELSE "goalTerm"
           literal == p.value.literal
           one == Secret("accountType", literal)
           two == Secret("goalTerm", literal)
<1>1. label \in SecretLabels /\ Listing(literal)
  BY GivenTexts DEF SecretLabels
<1>2. \/ SecretsKnowing(p) = Declassify(Declassify(run.secrets, one), two)
      \/ SecretsKnowing(p) = Remember(run.secrets, label, literal)
      \/ SecretsKnowing(p) = run.secrets
  BY DEF SecretsKnowing
<1> HIDE DEF label, literal, one, two
<1>3. Registers(Declassify(Declassify(run.secrets, one), two))
  BY DeclassifiedRegisters
<1>4. Registers(Remember(run.secrets, label, literal))
  BY <1>1, RememberedRegisters
<1> QED
  BY <1>2, <1>3, <1>4

\* What is recorded of a step is written in words.
LEMMA RecordedIsWorded ==
  ASSUME NEW p \in Proposals, NEW id, NEW secrets, Registers(secrets)
  PROVE  LET step == Recorded(p, id, secrets)
         IN /\ Listing(step.target) /\ Listing(step.intent) /\ Listing(step.rationale)
            /\ Listing(step.value.literal)
<1> DEFINE step == Recorded(p, id, secrets)
           v == p.value
           said == Scrubbed(secrets, v.literal)
           named == Scrubbed(secrets, p.target)
<1>1. Known(secrets)
  BY RegistersAreKnown
<1>2. Listing(p.target) /\ Listing(p.intent) /\ Listing(v.literal)
  BY GivenTexts
<1>3. Listing(named)
  BY <1>1, <1>2, ScrubbedFits
<1>4. Listing(said)
  <2> HIDE DEF v
  <2> QED
    BY <1>1, <1>2, ScrubbedFits
<1>5. /\ step.target = named /\ step.rationale = named /\ step.intent = p.intent
      /\ step.value = IF v.kind = "constant" THEN [v EXCEPT !.literal = said] ELSE v
  BY DEF Recorded
<1>6. v = [kind |-> v.kind, name |-> v.name, literal |-> v.literal]
  BY ValuesAssumption
<1> HIDE DEF step, v, said, named
<1>7. Listing(step.value.literal)
  <2>1. CASE v.kind = "constant"
    <3>1. [v EXCEPT !.literal = said].literal = said
      BY <1>6
    <3> QED
      BY <1>4, <1>5, <2>1, <3>1
  <2>2. CASE v.kind # "constant"
    BY <1>2, <1>5, <2>2
  <2> QED
    BY <2>1, <2>2
<1> QED
  BY <1>2, <1>3, <1>5, <1>7 DEF step

\* What the document will say is written in words, and every value that is known
\* can be taken out of it.
Told == Registers(run.secrets) /\ Worded(run)

LEMMA BeganIsTold == CompileInit => Told
<1> SUFFICES ASSUME CompileInit PROVE Told
  OBVIOUS
<1>1. /\ run.steps = <<>> /\ run.selections = <<>> /\ run.summary = <<>> /\ run.outputs = {}
      /\ run.secrets = Remember(<<>>, "url", Entry.query)
  BY DEF CompileInit, Began, FirstSecrets
<1>2. DOMAIN <<>> = {} /\ Range(<<>>) = {}
  BY DEF Range
<1>3. Registers(<<>>)
  BY <1>2, GivenTexts DEF Registers
<1>4. "url" \in SecretLabels /\ Listing(Entry.query)
  BY GivenTexts DEF SecretLabels
<1>5. Registers(Remember(<<>>, "url", Entry.query))
  BY <1>3, <1>4, RememberedRegisters
<1>6. Worded(run)
  BY <1>1, <1>2, GivenTexts DEF Worded
<1> QED
  BY <1>1, <1>5, <1>6 DEF Told

LEMMA ProceedingIsTold ==
  ASSUME Kept, Told, NEW p \in Proposals, Turn(p)
  PROVE  Told'
<1> DEFINE id == StepId(p, run.attempted + 1)
           secrets == SecretsKnowing(p)
           step == Recorded(p, id, secrets)
<1>1. DOMAIN run = Fields /\ Listing(run.steps) /\ Listing(run.selections) /\ Worded(run)
  BY DEF Kept, Shaped, Told
<1>2. Registers(secrets)
  BY KnowingRegisters DEF Told
<1>3. CASE run' = Unperformed(p)
  <2>1. /\ run'.steps = run.steps /\ run'.selections = run.selections /\ run'.summary = run.summary
        /\ run'.outputs = run.outputs /\ run'.secrets = secrets
    BY <1>1, <1>3 DEF Unperformed, Fields
  <2> HIDE DEF secrets
  <2> QED
    BY <1>1, <1>2, <2>1 DEF Told, Worded
<1>4. CASE ~Corrected(p) /\ run' = Performed(p)
  <2> DEFINE made == Selection(p)
  <2>1. /\ run'.steps = Append(run.steps, step) /\ run'.summary = run.summary
        /\ run'.outputs = run.outputs /\ run'.secrets = secrets
        /\ run'.selections = IF p.verb = "selectFromList" THEN Append(run.selections, made)
                             ELSE run.selections
    BY <1>1, <1>4 DEF Performed, Fields
  <2>2. /\ Listing(step.target) /\ Listing(step.intent) /\ Listing(step.rationale)
        /\ Listing(step.value.literal)
    <3> HIDE DEF secrets, id
    <3> QED
      BY <1>2, RecordedIsWorded
  <2>3. p.verb = "selectFromList" =>
          /\ Listing(made.values) /\ \A label \in Range(made.values) : Listing(label)
          /\ Listing(made.default)
    BY GivenTexts, ListsAssumption DEF Selection
  <2> HIDE DEF step, secrets, made
  <2> DEFINE next == run'.steps
             chosen == run'.selections
  <2>4. ASSUME NEW i \in DOMAIN next
        PROVE  /\ Listing(next[i].target) /\ Listing(next[i].intent) /\ Listing(next[i].rationale)
               /\ Listing(next[i].value.literal)
    <3>1. /\ DOMAIN run.steps = 1..Len(run.steps) /\ DOMAIN next = 1..(Len(run.steps) + 1)
          /\ \A j \in DOMAIN run.steps : next[j] = run.steps[j]
          /\ next[Len(run.steps) + 1] = step /\ Len(run.steps) \in Nat
      BY <1>1, <2>1, Appended
    <3>2. i \in DOMAIN run.steps \/ i = Len(run.steps) + 1
      BY <3>1
    <3>3. CASE i \in DOMAIN run.steps
      BY <1>1, <3>1, <3>3 DEF Worded
    <3>4. CASE i = Len(run.steps) + 1
      BY <2>2, <3>1, <3>4
    <3> QED
      BY <3>2, <3>3, <3>4
  <2>5. ASSUME NEW s \in Range(chosen)
        PROVE  /\ Listing(s.values) /\ \A label \in Range(s.values) : Listing(label)
               /\ Listing(s.default)
    <3>1. s \in Range(run.selections) \/ (p.verb = "selectFromList" /\ s = made)
      <4>1. Range(Append(run.selections, made)) = Range(run.selections) \cup {made}
        BY <1>1, Appended
      <4> QED
        BY <2>1, <4>1
    <3> QED
      BY <1>1, <2>3, <3>1 DEF Worded
  <2>6. Listing(run'.summary) /\ \A output \in run'.outputs : Listing(output.description)
    BY <1>1, <2>1 DEF Worded
  <2>7. Worded(run')
    <3> HIDE DEF next, chosen
    <3>1. /\ \A i \in DOMAIN next :
               /\ Listing(next[i].target) /\ Listing(next[i].intent) /\ Listing(next[i].rationale)
               /\ Listing(next[i].value.literal)
          /\ \A s \in Range(chosen) :
               /\ Listing(s.values) /\ \A label \in Range(s.values) : Listing(label)
               /\ Listing(s.default)
      BY <2>4, <2>5
    <3> QED
      BY <2>6, <3>1 DEF Worded, next, chosen
  <2> QED
    BY <1>2, <2>1, <2>7 DEF Told
<1> QED
  BY <1>3, <1>4 DEF Turn

LEMMA ToldIsInductive ==
  ASSUME Kept, Told, [CompileNext]_compileVars
  PROVE  Told'
<1>0. DOMAIN run = Fields /\ Registers(run.secrets) /\ Worded(run)
  BY DEF Kept, Shaped, Told
<1>1. CASE \E p \in Proposals : Turn(p)
  BY <1>1, ProceedingIsTold
<1>2. CASE \E typed \in TypedByHand : Handed(typed)
  <2>1. PICK typed \in TypedByHand : Handed(typed)
    BY <1>2
  <2>2. /\ run'.steps = run.steps /\ run'.selections = run.selections /\ run'.summary = run.summary
        /\ run'.outputs = run.outputs /\ run'.secrets = Remember(run.secrets, "operator", typed)
    BY <1>0, <2>1 DEF Handed, Fields
  <2>3. "operator" \in SecretLabels /\ Listing(typed)
    BY GivenTexts DEF SecretLabels
  <2>4. Registers(run'.secrets)
    BY <1>0, <2>2, <2>3, RememberedRegisters
  <2> QED
    BY <1>0, <2>2, <2>4 DEF Told, Worded
<1>3. CASE \E ending \in Endings, reading \in run.readings : Succeed(ending, reading)
  <2>1. PICK ending \in Endings, reading \in run.readings : Succeed(ending, reading)
    BY <1>3
  <2> DEFINE output == [from |-> reading.step, description |-> ending.description]
  <2>2. /\ run'.steps = run.steps /\ run'.selections = run.selections
        /\ run'.summary = ending.summary /\ run'.outputs = {output} /\ run'.secrets = run.secrets
    BY <1>0, <2>1 DEF Succeed, Fields
  <2>3. Listing(ending.summary) /\ Listing(output.description)
    BY GivenTexts
  <2> HIDE DEF output
  <2>4. Worded(run')
    BY <1>0, <2>2, <2>3 DEF Worded
  <2> QED
    BY <1>0, <2>2, <2>4 DEF Told
<1>4. CASE Stop \/ CompileArtifact \/ UNCHANGED compileVars
  <2>1. /\ run'.steps = run.steps /\ run'.selections = run.selections /\ run'.summary = run.summary
        /\ run'.outputs = run.outputs /\ run'.secrets = run.secrets
    BY <1>0, <1>4 DEF Stop, CompileArtifact, compileVars, Fields
  <2> QED
    BY <1>0, <2>1 DEF Told, Worded
<1> QED
  BY <1>1, <1>2, <1>3, <1>4 DEF CompileNext

-----------------------------------------------------------------------------
\* The document that is stored

\* The fields of a step but for what it expects.
SameStep(step, other) ==
  /\ step.id = other.id /\ step.type = other.type /\ step.target = other.target
  /\ step.value = other.value /\ step.intent = other.intent /\ step.rationale = other.rationale

LEMMA StraightIs ==
  ASSUME Shaped(run)
  PROVE  /\ Len(run.steps) \in Nat /\ DOMAIN run.steps = 1..Len(run.steps)
         /\ DOMAIN Straight = 1..(Len(run.steps) + 1)
         /\ Straight[1] = Opening
         /\ \A i \in 1..Len(run.steps) : Straight[i + 1] = StepFor(i)
<1> DEFINE n == Len(run.steps)
           made == [i \in DOMAIN run.steps |-> StepFor(i)]
<1>1. n \in Nat /\ DOMAIN run.steps = 1..n
  <2>1. PICK S : run.steps \in Seq(S)
    BY DEF Shaped, Listing
  <2> QED
    BY <2>1
<1>2. DOMAIN made = 1..n /\ \A i \in 1..n : made[i] = StepFor(i)
  BY <1>1
<1>3. Straight = <<Opening>> \o made
  BY DEF Straight
<1> HIDE DEF made
<1>4. made \in [1..n -> Range(made)]
  <2>1. made = [i \in 1..n |-> made[i]]
    BY <1>1 DEF made
  <2> QED
    BY <1>2, <2>1 DEF Range
<1>5. made \in Seq(Range(made)) /\ Len(made) = n
  BY <1>1, <1>2, <1>4
<1> DEFINE T == Range(made) \cup {Opening}
<1>6. made \in Seq(T) /\ <<Opening>> \in Seq(T) /\ Len(<<Opening>>) = 1 /\ <<Opening>>[1] = Opening
  BY <1>5
<1> HIDE DEF T, n
<1>7. /\ DOMAIN Straight = 1..(n + 1) /\ Straight[1] = Opening
      /\ \A i \in 1..n : Straight[i + 1] = made[i]
  <2>1. Straight \in Seq(T) /\ Len(Straight) = n + 1
    BY <1>1, <1>3, <1>5, <1>6
  <2>2. Straight[1] = Opening
    BY <1>1, <1>3, <1>5, <1>6
  <2>3. \A i \in 1..n : Straight[i + 1] = made[i]
    BY <1>1, <1>3, <1>5, <1>6
  <2> QED
    BY <1>1, <2>1, <2>2, <2>3
<1> QED
  BY <1>1, <1>2, <1>7 DEF n

\* What is stored is the document, and what was refused is not so of it.
LEMMA CompiledIs ==
  ASSUME Compiled \notin {Absent, Refused}
  PROVE  Compiled = Document /\ ~Unconfirmed /\ ~UsedTwice(Document)
BY DEF Compiled, Unparsable

LEMMA PartsOfAStep ==
  /\ Opening.id = "open" /\ Opening.expect = Following(0)
  /\ \A i : /\ StepFor(i).id = run.steps[i].id /\ StepFor(i).type = run.steps[i].verb
            /\ StepFor(i).target = run.steps[i].target
            /\ StepFor(i).value = IF run.steps[i].verb = "navigate" THEN Constant(run.steps[i].target)
                                  ELSE ValueRef(run.steps[i].value)
            /\ StepFor(i).expect = Expected(i)
BY DEF Opening, StepFor

LEMMA StepsAre ==
  ASSUME Shaped(run)
  PROVE
  /\ Document.steps = Steps /\ DOMAIN Steps = DOMAIN Straight
  /\ \A k \in DOMAIN Straight :
       /\ SameStep(Steps[k], Straight[k])
       /\ Steps[k].expect =
            IF k \in {StepBefore(gap) : gap \in Range(run.gaps)}
            THEN {a \in Straight[k].expect : a.assert = "stepRead"} \cup Following(k - 1)
            ELSE Straight[k].expect
<1> DEFINE gapped == {StepBefore(gap) : gap \in Range(run.gaps)}
           Confirmed(k) == {a \in Straight[k].expect : a.assert = "stepRead"} \cup Following(k - 1)
           Step(k) == IF k \notin gapped THEN Straight[k]
                      ELSE [Straight[k] EXCEPT !.expect = Confirmed(k)]
<1>1. Document.steps = Steps
  BY DEF Document
<1>2. Steps = [k \in DOMAIN Straight |-> Step(k)]
  BY DEF Steps
<1>3. \A k \in DOMAIN Straight : "expect" \in DOMAIN Straight[k]
  <2>1. "expect" \in DOMAIN Opening /\ \A i : "expect" \in DOMAIN StepFor(i)
    BY DEF Opening, StepFor
  <2>2. \A k \in DOMAIN Straight : k = 1 \/ \E i \in 1..Len(run.steps) : k = i + 1
    <3> SUFFICES ASSUME NEW k \in DOMAIN Straight, k # 1
                 PROVE  k - 1 \in 1..Len(run.steps) /\ k = (k - 1) + 1
      BY Zenon
    <3> QED
      BY StraightIs
  <2> QED
    BY <2>1, <2>2, StraightIs
<1>4. ASSUME NEW k \in DOMAIN Straight
      PROVE  SameStep(Step(k), Straight[k])
             /\ Step(k).expect = IF k \in gapped THEN Confirmed(k) ELSE Straight[k].expect
  <2> DEFINE e == Straight[k]
             x == Confirmed(k)
  <2>1. "expect" \in DOMAIN e
    BY <1>3
  <2>2. Step(k) = IF k \notin gapped THEN e ELSE [e EXCEPT !.expect = x]
    BY Zenon
  <2> HIDE DEF e, x, Step, gapped
  <2>3. CASE k \notin gapped
    <3>1. Step(k) = e
      BY <2>2, <2>3
    <3> QED
      BY <2>3, <3>1 DEF SameStep, e
  <2>4. CASE k \in gapped
    <3>1. Step(k) = [e EXCEPT !.expect = x]
      BY <2>2, <2>4
    <3>2. SameStep([e EXCEPT !.expect = x], e) /\ [e EXCEPT !.expect = x].expect = x
      BY <2>1 DEF SameStep
    <3> QED
      BY <2>4, <3>1, <3>2, Zenon DEF e, x
  <2> QED
    BY <2>3, <2>4
<1> HIDE DEF Step, gapped, Confirmed
<1>5. DOMAIN Steps = DOMAIN Straight /\ \A k \in DOMAIN Straight : Steps[k] = Step(k)
  BY <1>2
<1> QED
  BY <1>1, <1>4, <1>5 DEF gapped, Confirmed

\* A gap is found after the step it came after.
LEMMA StepBeforeIs ==
  ASSUME Shaped(run), Placed(run), ~UsedTwice(Document), NEW gap \in Range(run.gaps)
  PROVE  StepBefore(gap) = gap.at + 1
<1> DEFINE n == Len(run.steps)
           after == {k \in DOMAIN Straight : Straight[k].id = gap.after}
<1>1. /\ n \in Nat /\ DOMAIN Straight = 1..(n + 1) /\ Straight[1] = Opening
      /\ \A i \in 1..n : Straight[i + 1] = StepFor(i)
  BY StraightIs
<1>2. gap.at \in 0..n /\ gap.after = IF gap.at = 0 THEN "open" ELSE run.steps[gap.at].id
  BY DEF Placed
<1>3. Opening.id = "open" /\ \A i \in 1..n : StepFor(i).id = run.steps[i].id
  BY PartsOfAStep
<1>4. gap.at + 1 \in DOMAIN Straight /\ Straight[gap.at + 1].id = gap.after
  <2>1. CASE gap.at = 0
    BY <1>1, <1>2, <1>3, <2>1
  <2>2. CASE gap.at \in 1..n
    BY <1>1, <1>2, <1>3, <2>2
  <2> QED
    BY <1>1, <1>2, <2>1, <2>2
<1>5. \A j, k \in DOMAIN Straight : Straight[j].id = Straight[k].id => j = k
  <2>1. \A j, k \in DOMAIN Document.steps : Document.steps[j].id = Document.steps[k].id => j = k
    BY DEF UsedTwice
  <2>2. /\ Document.steps = Steps /\ DOMAIN Steps = DOMAIN Straight
        /\ \A k \in DOMAIN Straight : Steps[k].id = Straight[k].id
    BY StepsAre DEF SameStep
  <2> QED
    BY <2>1, <2>2
<1>6. after = {gap.at + 1}
  BY <1>4, <1>5
<1>7. Min({gap.at + 1}) = gap.at + 1
  <2>1. gap.at + 1 \in Nat
    BY <1>2
  <2> QED
    BY <2>1 DEF Min
<1> QED
  BY <1>6, <1>7 DEF StepBefore

\* What a step needs says of it what it goes on to act on.
LEMMA FollowingIs ==
  ASSUME NEW i, NEW a \in Following(i)
  PROVE  /\ i < Len(run.steps) /\ a.text = run.steps[i + 1].target
         /\ a.assert \in {"targetPresent", "textPresent"}
<1>1. i < Len(run.steps) /\ a \in ObservableOf(run.steps[i + 1])
  BY DEF Following
<1>2. \A step : \A b \in ObservableOf(step) :
        b.text = step.target /\ b.assert \in {"targetPresent", "textPresent"}
  BY DEF ObservableOf, Assertion
<1> QED
  BY <1>1, <1>2

LEMMA CompiledFollows ==
  ASSUME Shaped(run), Placed(run), Compiled \notin {Absent, Refused}
  PROVE  Follows(run, Compiled)
<1> DEFINE n == Len(run.steps)
           Gapped(i) == \E gap \in Range(run.gaps) : gap.at = i
           Right(a, i) ==
             CASE a.assert = "stepRead" -> i > 0 /\ run.steps[i].verb = "extract"
                                           /\ a.step = run.steps[i].id
               [] a.assert = "targetReads" -> i > 0 /\ run.steps[i].verb = "fill" /\ ~Gapped(i)
                                              /\ a.text = run.steps[i].target
               [] OTHER -> i < Len(run.steps) /\ a.text = run.steps[i + 1].target
<1>1. Compiled = Document /\ ~Unconfirmed /\ ~UsedTwice(Document) /\ Document.steps = Steps
  BY CompiledIs, StepsAre
<1>2. /\ n \in Nat /\ DOMAIN run.steps = 1..n /\ DOMAIN Straight = 1..(n + 1)
      /\ Straight[1] = Opening /\ \A i \in 1..n : Straight[i + 1] = StepFor(i)
  BY StraightIs
<1>3. \A gap \in Range(run.gaps) : StepBefore(gap) = gap.at + 1 /\ gap.at \in 0..n
  BY <1>1, StepBeforeIs DEF Placed
<1>4. SUFFICES ASSUME NEW i \in 0..n
               PROVE  /\ Steps[i + 1].expect # {}
                      /\ \A a \in Steps[i + 1].expect : Right(a, i)
                      /\ Gapped(i) => \E a \in Steps[i + 1].expect :
                                        a.assert \in {"targetPresent", "textPresent"}
  BY <1>1 DEF Follows
<1> DEFINE straight == Straight[i + 1].expect
           next == Following(i)
<1>5. i + 1 \in DOMAIN Straight /\ (i + 1) - 1 = i
  BY <1>2
<1>6. i + 1 \in {StepBefore(gap) : gap \in Range(run.gaps)} <=> Gapped(i)
  <2>1. ASSUME NEW gap \in Range(run.gaps) PROVE i + 1 = StepBefore(gap) <=> gap.at = i
    BY <1>3
  <2> QED
    BY <2>1
<1>7. Steps[i + 1].expect = IF Gapped(i) THEN {a \in straight : a.assert = "stepRead"} \cup next
                            ELSE straight
  BY <1>5, <1>6, StepsAre
<1>8. straight # {} /\ (Gapped(i) => next # {})
  <2>1. /\ Following(0) # {} /\ \A j \in DOMAIN run.steps : Expected(j) # {}
        /\ \A gap \in Range(run.gaps) : Following(StepBefore(gap) - 1) # {}
    BY <1>1 DEF Unconfirmed
  <2>2. straight # {}
    <3>1. CASE i = 0
      BY <1>2, <2>1, <3>1, PartsOfAStep
    <3>2. CASE i \in 1..n
      <4>1. straight = Expected(i)
        BY <1>2, <3>2, PartsOfAStep
      <4> QED
        BY <1>2, <2>1, <3>2, <4>1
    <3> QED
      BY <1>2, <3>1, <3>2
  <2>3. Gapped(i) => next # {}
    <3>1. \A gap \in Range(run.gaps) : gap.at = i => StepBefore(gap) - 1 = i
      BY <1>3
    <3> QED
      BY <2>1, <3>1
  <2> QED
    BY <2>2, <2>3
<1>9. \A a \in next : /\ i < n /\ a.text = run.steps[i + 1].target
                      /\ a.assert \in {"targetPresent", "textPresent"}
  BY FollowingIs
<1>10. ASSUME NEW a \in straight
       PROVE  \/ a \in next
              \/ i > 0 /\ a.assert = "stepRead" /\ run.steps[i].verb = "extract" /\ a.step = run.steps[i].id
              \/ i > 0 /\ a.assert = "targetReads" /\ run.steps[i].verb = "fill" /\ a.text = run.steps[i].target
  <2>1. CASE i = 0
    BY <1>2, <1>10, <2>1, PartsOfAStep
  <2>2. CASE i \in 1..n
    <3>1. straight = Expected(i)
      BY <1>2, <2>2, PartsOfAStep
    <3>2. Expected(i) = IF run.steps[i].verb = "extract"
                        THEN {Assertion("stepRead", <<>>, NoValue, run.steps[i].id)}
                        ELSE IF run.steps[i].verb = "fill"
                        THEN {Assertion("targetReads", run.steps[i].target, ValueRef(run.steps[i].value), Absent)}
                        ELSE Following(i)
      BY DEF Expected
    <3> QED
      BY <1>10, <2>2, <3>1, <3>2 DEF Assertion
  <2> QED
    BY <1>2, <2>1, <2>2
<1> HIDE DEF straight, next, n
<1>11. ASSUME NEW a \in next PROVE Right(a, i)
  BY <1>9, <1>11 DEF n
<1>12. ASSUME NEW a \in straight, a.assert = "stepRead" \/ ~Gapped(i) PROVE Right(a, i)
  <2>1. CASE a \in next
    BY <1>11, <2>1
  <2>2. CASE i > 0 /\ a.assert = "stepRead" /\ run.steps[i].verb = "extract" /\ a.step = run.steps[i].id
    BY <2>2
  <2>3. CASE i > 0 /\ a.assert = "targetReads" /\ run.steps[i].verb = "fill" /\ a.text = run.steps[i].target
    BY <1>12, <2>3
  <2> QED
    BY <1>10, <2>1, <2>2, <2>3
<1> HIDE DEF Right, Gapped
<1> QED
  BY <1>7, <1>8, <1>9, <1>11, <1>12

\* A set of naturals that goes no further than N has a greatest member.
LEMMA Greatest ==
  ASSUME NEW N \in Nat, NEW S, S \subseteq 1..N, S # {}
  PROVE  Max(S) \in S
<1> DEFINE T == {N - m : m \in S}
<1>1. T \subseteq Nat /\ T # {}
  <2>1. \A m \in S : N - m \in Nat
    OBVIOUS
  <2> QED
    BY <2>1
<1>2. PICK k \in T : \A m \in T : k <= m
  <2> HIDE DEF T
  <2> QED
    BY <1>1, Least
<1>3. PICK n \in S : k = N - n
  OBVIOUS
<1>4. \A m \in S : N - n <= N - m
  BY <1>2, <1>3
<1>5. \A m \in S : n >= m
  BY <1>4
<1> QED
  BY <1>5 DEF Max

\* A choice is left to what some step gave its name, and so is a parameter.
LEMMA Supplying ==
  ASSUME NEW r, NEW doc, NEW value, value.from = "parameter"
  PROVE  /\ doc.inputs[value.name].type = "enum" =>
              SuppliedBy(r, doc, value) = doc.inputs[value.name].default
         /\ doc.inputs[value.name].type # "enum" =>
              SuppliedBy(r, doc, value) = ParameterNamed(r, value.name).literal
<1> DEFINE enum == doc.inputs[value.name].type = "enum"
<1>1. value.from # "constant"
  OBVIOUS
<1>2. CASE enum
  BY <1>1, <1>2 DEF SuppliedBy
<1>3. CASE ~enum
  BY <1>1, <1>3 DEF SuppliedBy
<1> QED
  BY <1>2, <1>3

\* An input nobody chose by is a text; another is what the last choice made under
\* its name was.
LEMMA InputsAre ==
  ASSUME Shaped(run), NEW name
  PROVE  \/ InputFor(name) = StringInput
         \/ \E s \in Range(run.selections) : s.parameter = name /\ InputFor(name) = EnumInput(s)
<1> DEFINE made == {k \in DOMAIN run.selections : run.selections[k].parameter = name}
           s == run.selections[Max(made)]
<1>1. InputFor(name) = IF made = {} THEN StringInput ELSE EnumInput(s)
  BY DEF InputFor
<1>2. CASE made # {}
  <2>1. PICK N \in Nat : DOMAIN run.selections = 1..N
    <3>1. PICK S : run.selections \in Seq(S)
      BY DEF Shaped, Listing
    <3> QED
      BY <3>1
  <2>2. Max(made) \in made
    <3>1. made \subseteq 1..N
      BY <2>1
    <3> HIDE DEF made
    <3> QED
      BY <1>2, <3>1, Greatest
  <2>3. s \in Range(run.selections) /\ s.parameter = name
    <3>1. Max(made) \in DOMAIN run.selections /\ run.selections[Max(made)].parameter = name
      BY <2>2
    <3> QED
      BY <3>1, RangeOf
  <2> HIDE DEF made, s
  <2> QED
    BY <1>1, <1>2, <2>3
<1> QED
  BY <1>1, <1>2

LEMMA SuppliedIsGiven ==
  ASSUME Shaped(run), Given(run), NEW i \in DOMAIN run.steps,
         run.steps[i].value.kind = "goalDerived"
  PROVE  Gave(run.steps, run.steps[i].value.name,
              SuppliedBy(run, Document, Parameter(run.steps[i].value.name)))
<1> DEFINE name == run.steps[i].value.name
           declared == {q.name : q \in Range(run.parameters)}
           asked == Parameter(name)
           chosen == ParameterNamed(run, name)
           got == SuppliedBy(run, Document, asked)
<1>1. PICK q \in Range(run.parameters) : q.name = name
  BY DEF Given
<1>2. Document.inputs = Inputs
  BY DEF Document
<1>3. Document.inputs[name] = InputFor(name)
  BY <1>1, <1>2 DEF Inputs
<1>4. asked.from = "parameter" /\ asked.name = name
  BY DEF Parameter
<1>6. got = IF InputFor(name).type = "enum" THEN InputFor(name).default
            ELSE chosen.literal
  BY <1>3, <1>4, Supplying
<1>7. chosen \in Range(run.parameters) /\ chosen.name = name
  <2> HIDE DEF name
  <2> QED
    BY <1>1 DEF ParameterNamed
<1> HIDE DEF got, chosen, asked
<1>8. CASE InputFor(name) = StringInput
  <2>1. InputFor(name).type # "enum"
    BY <1>8 DEF StringInput
  <2>2. Gave(run.steps, name, chosen.literal)
    BY <1>7 DEF Given
  <2>3. got = chosen.literal
    BY <1>6, <2>1
  <2> QED
    BY <2>2, <2>3 DEF got, asked
<1>9. CASE \E s \in Range(run.selections) : s.parameter = name /\ InputFor(name) = EnumInput(s)
  <2>3. PICK s \in Range(run.selections) : s.parameter = name /\ InputFor(name) = EnumInput(s)
    BY <1>9
  <2>4. InputFor(name).type = "enum" /\ InputFor(name).default = s.default
    BY <2>3 DEF EnumInput
  <2>5. Gave(run.steps, s.parameter, s.default)
    BY <2>3 DEF Given
  <2> QED
    BY <1>6, <2>3, <2>4, <2>5 DEF got, asked
<1> QED
  BY <1>8, <1>9, InputsAre

LEMMA CompiledRepeats ==
  ASSUME Shaped(run), Faithful(run), Given(run), Compiled \notin {Absent, Refused}
  PROVE  Repeats(run, Compiled)
<1>1. Compiled = Document /\ Document.steps = Steps
  BY CompiledIs, StepsAre
<1>2. /\ DOMAIN run.steps = 1..Len(run.steps) /\ Len(run.steps) \in Nat
      /\ DOMAIN Straight = 1..(Len(run.steps) + 1)
      /\ \A i \in 1..Len(run.steps) : Straight[i + 1] = StepFor(i)
  BY StraightIs
<1>3. SUFFICES ASSUME NEW i \in DOMAIN run.steps, ~TakenOutOf(run.steps[i]),
                      ~(run.steps[i].value.kind = "goalDerived"
                        /\ HasTwoMeanings(run, run.steps[i].value.name))
               PROVE  /\ Steps[i + 1].target = run.steps[i].did.target
                      /\ Steps[i + 1].type \in {"fill", "selectFromList"} =>
                           SuppliedBy(run, Document, Steps[i + 1].value) = run.steps[i].did.literal
  BY <1>1 DEF Repeats
<1> DEFINE step == run.steps[i]
           value == step.value
<1>4. /\ Steps[i + 1].target = step.target /\ Steps[i + 1].type = step.verb
      /\ step.verb # "navigate" => Steps[i + 1].value = ValueRef(value)
  <2>1. i + 1 \in DOMAIN Straight /\ Straight[i + 1] = StepFor(i)
    BY <1>2
  <2>2. SameStep(Steps[i + 1], StepFor(i))
    BY <2>1, StepsAre
  <2> QED
    BY <2>2, PartsOfAStep DEF SameStep
<1>5. step.target = step.did.target
      /\ (value.kind = "constant" => value.literal = step.did.literal)
  BY <1>3 DEF TakenOutOf
<1>6. ASSUME step.verb \in {"fill", "selectFromList"}
      PROVE  SuppliedBy(run, Document, ValueRef(value)) = step.did.literal
  <2>1. value.kind \in {"goalDerived", "constant"}
    BY <1>6 DEF Faithful
  <2>2. CASE value.kind = "constant"
    <3>1. ValueRef(value) = Constant(value.literal)
      BY <2>2 DEF ValueRef
    <3>2. Constant(value.literal).from = "constant" /\ Constant(value.literal).text = value.literal
      BY DEF Constant
    <3>3. SuppliedBy(run, Document, Constant(value.literal)) = value.literal
      BY <3>2 DEF SuppliedBy
    <3> QED
      BY <1>5, <2>2, <3>1, <3>3
  <2>3. CASE value.kind = "goalDerived"
    <3> DEFINE got == SuppliedBy(run, Document, Parameter(value.name))
    <3>1. ValueRef(value) = Parameter(value.name)
      BY <2>3 DEF ValueRef
    <3>2. Gave(run.steps, value.name, got)
      BY <2>3, SuppliedIsGiven
    <3> HIDE DEF got
    <3>3. PICK j \in DOMAIN run.steps :
            /\ run.steps[j].value.kind = "goalDerived"
            /\ run.steps[j].value.name = value.name /\ run.steps[j].value.literal = got
      BY <3>2 DEF Gave
    <3> DEFINE other == run.steps[j].value
               done == run.steps[j].did.literal
    <3>4. done = got
      BY <3>3 DEF Faithful
    <3>5. other = [value EXCEPT !.literal = done]
      <4>1. Tagged(value) /\ Tagged(other)
        BY DEF Faithful
      <4>2. other.kind = value.kind /\ other.name = value.name /\ other.literal = done
        BY <2>3, <3>3, <3>4
      <4> HIDE DEF value, other, done
      <4>3. [value EXCEPT !.literal = done] = [kind |-> value.kind, name |-> value.name, literal |-> done]
        BY <4>1 DEF Tagged
      <4> QED
        BY <4>1, <4>2, <4>3, Zenon DEF Tagged
    <3>6. step.did.literal = done
      BY <1>3, <2>3, <3>5 DEF HasTwoMeanings
    <3> QED
      BY <3>1, <3>4, <3>6 DEF got
  <2> QED
    BY <2>1, <2>2, <2>3
<1> HIDE DEF step, value
<1>7. Steps[i + 1].target = step.did.target
  BY <1>4, <1>5
<1>8. Steps[i + 1].type \in {"fill", "selectFromList"} =>
        SuppliedBy(run, Document, Steps[i + 1].value) = step.did.literal
  <2> SUFFICES ASSUME Steps[i + 1].type \in {"fill", "selectFromList"}
               PROVE  SuppliedBy(run, Document, Steps[i + 1].value) = step.did.literal
    OBVIOUS
  <2>1. step.verb \in {"fill", "selectFromList"} /\ Steps[i + 1].value = ValueRef(value)
    BY <1>4
  <2> QED
    BY <1>6, <2>1, Zenon
<1> QED
  BY <1>7, <1>8 DEF step

-----------------------------------------------------------------------------
\* What is stored of the run

\* What an assertion, a step and an input say is written in words.
AssertsInWords(a) == Listing(a.text) /\ Listing(a.value.text)

StepsInWords(step) ==
  /\ Listing(step.target) /\ Listing(step.intent) /\ Listing(step.rationale)
  /\ Listing(step.value.text) /\ \A a \in step.expect : AssertsInWords(a)

OffersInWords(input) ==
  /\ Listing(input.values) /\ \A label \in Range(input.values) : Listing(label)
  /\ Listing(input.default)

LEMMA RefsAreWorded ==
  /\ \A text : Listing(text) => Listing(Constant(text).text)
  /\ \A name : Listing(Parameter(name).text)
  /\ Listing(NoValue.text)
  /\ \A value : Listing(value.literal) => Listing(ValueRef(value).text)
<1>1. /\ \A text : Constant(text).text = text
      /\ \A name : Parameter(name).text = <<>>
      /\ NoValue.text = <<>>
  BY DEF Constant, Parameter, NoValue
<1>2. \A value : \/ ValueRef(value) = Parameter(value.name)
                  \/ ValueRef(value) = Constant(value.literal)
                  \/ ValueRef(value) = NoValue
  BY DEF ValueRef
<1> QED
  BY <1>1, <1>2, GivenTexts

LEMMA AssertionsAreWorded ==
  ASSUME Shaped(run), Worded(run), NEW i \in Nat
  PROVE  /\ \A a \in Following(i) : AssertsInWords(a)
         /\ i \in DOMAIN run.steps => \A a \in Expected(i) : AssertsInWords(a)
<1>1. /\ Len(run.steps) \in Nat /\ DOMAIN run.steps = 1..Len(run.steps)
  BY StraightIs
<1>2. \A kind, text, value, step :
        /\ Assertion(kind, text, value, step).text = text
        /\ Assertion(kind, text, value, step).value = value
  BY DEF Assertion
<1>3. \A j \in DOMAIN run.steps : Listing(run.steps[j].target) /\ Listing(run.steps[j].value.literal)
  BY DEF Worded
<1>4. ASSUME NEW a \in Following(i) PROVE AssertsInWords(a)
  <2>1. i < Len(run.steps) /\ a \in ObservableOf(run.steps[i + 1])
    BY DEF Following
  <2>2. i + 1 \in DOMAIN run.steps
    BY <1>1, <2>1
  <2>3. a.text = run.steps[i + 1].target /\ a.value = NoValue
    <3> DEFINE step == run.steps[i + 1]
    <3>1. a \in ObservableOf(step)
      BY <2>1
    <3> HIDE DEF step
    <3>2. a.text = step.target /\ a.value = NoValue
      BY <3>1 DEF ObservableOf, Assertion
    <3> QED
      BY <3>2 DEF step
  <2> QED
    BY <1>3, <2>2, <2>3, RefsAreWorded DEF AssertsInWords
<1>5. ASSUME i \in DOMAIN run.steps, NEW a \in Expected(i) PROVE AssertsInWords(a)
  <2> DEFINE step == run.steps[i]
             ref == ValueRef(step.value)
  <2>1. \/ a = Assertion("stepRead", <<>>, NoValue, step.id)
        \/ a = Assertion("targetReads", step.target, ref, Absent)
        \/ a \in Following(i)
    <3>1. Expected(i) = IF step.verb = "extract"
                        THEN {Assertion("stepRead", <<>>, NoValue, step.id)}
                        ELSE IF step.verb = "fill"
                        THEN {Assertion("targetReads", step.target, ref, Absent)}
                        ELSE Following(i)
      BY DEF Expected
    <3> QED
      BY <1>5, <3>1
  <2>3. Listing(step.target) /\ Listing(ref.text)
    BY <1>3, <1>5, RefsAreWorded
  <2> HIDE DEF step, ref
  <2> QED
    BY <1>2, <1>4, <2>1, <2>3, GivenTexts, RefsAreWorded DEF AssertsInWords
<1> QED
  BY <1>4, <1>5

LEMMA StepsAreWorded ==
  ASSUME Shaped(run), Worded(run)
  PROVE  \A step \in Range(Document.steps) : StepsInWords(step)
<1>1. /\ Len(run.steps) \in Nat /\ DOMAIN run.steps = 1..Len(run.steps)
      /\ DOMAIN Straight = 1..(Len(run.steps) + 1)
      /\ Straight[1] = Opening
      /\ \A i \in 1..Len(run.steps) : Straight[i + 1] = StepFor(i)
  BY StraightIs
<1>2. StepsInWords(Opening)
  <2>1. /\ Opening.target = <<>> /\ Opening.intent = <<>> /\ Opening.rationale = <<>>
        /\ Opening.value = IF Entry.query = <<>> THEN Constant(Entry.path) ELSE Parameter(EntryParameter)
        /\ Opening.expect = Following(0)
    BY DEF Opening
  <2>2. Listing(Opening.value.text)
    BY <2>1, GivenTexts, RefsAreWorded
  <2>3. \A a \in Opening.expect : AssertsInWords(a)
    BY <2>1, AssertionsAreWorded
  <2> QED
    BY <2>1, <2>2, <2>3, GivenTexts DEF StepsInWords
<1>3. ASSUME NEW i \in 1..Len(run.steps) PROVE StepsInWords(StepFor(i))
  <2> DEFINE step == run.steps[i]
             made == StepFor(i)
  <2>1. /\ made.target = step.target /\ made.intent = step.intent /\ made.rationale = step.rationale
        /\ made.value = IF step.verb = "navigate" THEN Constant(step.target) ELSE ValueRef(step.value)
        /\ made.expect = Expected(i)
    BY DEF StepFor
  <2>2. /\ Listing(step.target) /\ Listing(step.intent) /\ Listing(step.rationale)
        /\ Listing(step.value.literal)
    BY <1>1 DEF Worded
  <2>3. \A a \in made.expect : AssertsInWords(a)
    BY <1>1, <2>1, AssertionsAreWorded
  <2> HIDE DEF made, step
  <2>4. Listing(made.value.text)
    BY <2>1, <2>2, RefsAreWorded
  <2>5. StepsInWords(made)
    BY <2>1, <2>2, <2>3, <2>4 DEF StepsInWords
  <2> QED
    BY <2>5 DEF made
<1>4. ASSUME NEW k \in DOMAIN Straight PROVE StepsInWords(Steps[k])
  <2>1. k = 1 \/ (k - 1 \in 1..Len(run.steps) /\ k = (k - 1) + 1)
    BY <1>1
  <2>2. StepsInWords(Straight[k])
    BY <1>1, <1>2, <1>3, <2>1
  <2>3. k - 1 \in Nat
    BY <1>1
  <2>4. \A a \in Following(k - 1) : AssertsInWords(a)
    BY <2>3, AssertionsAreWorded
  <2>5. /\ SameStep(Steps[k], Straight[k])
        /\ \A a \in Steps[k].expect : a \in Straight[k].expect \/ a \in Following(k - 1)
    BY StepsAre
  <2> QED
    BY <2>2, <2>4, <2>5 DEF SameStep, StepsInWords
<1>5. Document.steps = Steps /\ DOMAIN Steps = DOMAIN Straight
  BY StepsAre
<1> QED
  BY <1>4, <1>5, RangeOf

LEMMA InputsAreWorded ==
  ASSUME Shaped(run), Worded(run), NEW name
  PROVE  /\ OffersInWords(InputFor(name))
         /\ ~InputFor(name).sensitive => \E s \in Range(run.selections) : s.public /\ s.parameter = name
<1>1. CASE InputFor(name) = StringInput
  <2>1. StringInput.values = <<>> /\ StringInput.default = <<>> /\ StringInput.sensitive = TRUE
    BY DEF StringInput
  <2>2. Range(<<>>) = {}
    BY DEF Range
  <2> QED
    BY <1>1, <2>1, <2>2, GivenTexts DEF OffersInWords
<1>2. CASE \E s \in Range(run.selections) : s.parameter = name /\ InputFor(name) = EnumInput(s)
  <2>1. PICK s \in Range(run.selections) : s.parameter = name /\ InputFor(name) = EnumInput(s)
    BY <1>2
  <2>2. /\ EnumInput(s).values = s.values /\ EnumInput(s).default = s.default
        /\ EnumInput(s).sensitive = ~s.public
    BY DEF EnumInput
  <2>3. OffersInWords(InputFor(name))
    BY <2>1, <2>2 DEF Worded, OffersInWords
  <2>4. InputFor(name).sensitive = ~s.public
    BY <2>1, <2>2
  <2>5. ~InputFor(name).sensitive => s.public
    BY <2>4, Zenon
  <2> QED
    BY <2>1, <2>3, <2>5
<1> QED
  BY <1>1, <1>2, InputsAre

LEMMA DocumentIsWorded ==
  ASSUME Shaped(run), Worded(run)
  PROVE  \A text \in DocumentText(Document) : Listing(text)
<1> DEFINE doc == Document
<1>1. /\ doc.entry = Entry.path /\ doc.summary = run.summary /\ doc.outputs = run.outputs
      /\ doc.inputs = Inputs
  BY DEF Document
<1>2. \A step \in Range(doc.steps) : StepsInWords(step)
  BY StepsAreWorded
<1>3. \A name \in DOMAIN doc.inputs : OffersInWords(doc.inputs[name])
  <2>1. \A name \in DOMAIN Inputs : Inputs[name] = InputFor(name)
    BY DEF Inputs
  <2> QED
    BY <1>1, <2>1, InputsAreWorded
<1> HIDE DEF doc
<1>4. \A value \in Values(doc) : Listing(value.text)
  BY <1>2 DEF Values, StepsInWords, AssertsInWords
<1>5. ASSUME NEW text \in FixedLiterals(doc) PROVE Listing(text)
  <2>1. \/ \E value \in Values(doc) : text = value.text
        \/ \E step \in Range(doc.steps) : \E a \in step.expect : text = a.text
    BY DEF FixedLiterals
  <2> QED
    BY <1>2, <1>4, <2>1 DEF StepsInWords, AssertsInWords
<1>6. ASSUME NEW text \in Matching(doc) PROVE Listing(text)
  <2>1. \/ \E step \in Range(doc.steps) : text = step.target
        \/ \E step \in Range(doc.steps) : \E a \in step.expect : text = a.text
        \/ \E name \in DOMAIN doc.inputs : text \in Range(doc.inputs[name].values)
        \/ text = doc.entry
    BY DEF Matching
  <2>2. CASE \E name \in DOMAIN doc.inputs : text \in Range(doc.inputs[name].values)
    BY <1>3, <2>2 DEF OffersInWords
  <2>3. CASE ~\E name \in DOMAIN doc.inputs : text \in Range(doc.inputs[name].values)
    BY <1>1, <1>2, <2>1, <2>3, GivenTexts DEF StepsInWords, AssertsInWords
  <2> QED
    BY <2>2, <2>3
<1>7. ASSUME NEW text \in Prose(doc) PROVE Listing(text)
  <2>1. \/ text = doc.summary
        \/ \E output \in doc.outputs : text = output.description
        \/ \E step \in Range(doc.steps) : text = step.intent \/ text = step.rationale
    BY DEF Prose
  <2> QED
    BY <1>1, <1>2, <2>1 DEF StepsInWords, Worded
<1>8. ASSUME NEW text \in Names(doc) PROVE Listing(text)
  <2>1. \/ \E step \in Range(doc.steps) : text = <<step.id>>
        \/ \E name \in DOMAIN doc.inputs : text = <<name>> \/ text = doc.inputs[name].default
    BY DEF Names
  <2>2. \A x : Listing(<<x>>)
    <3>1. \A x : <<x>> \in Seq({x})
      OBVIOUS
    <3> QED
      BY <3>1 DEF Listing
  <2> QED
    BY <1>3, <2>1, <2>2 DEF OffersInWords
<1>9. \A text \in DocumentText(doc) : Listing(text)
  BY <1>5, <1>6, <1>7, <1>8 DEF DocumentText
<1> QED
  BY <1>9 DEF doc

\* A document with nothing in it of that run.
Hides(r, doc) ==
  /\ \A text \in DocumentText(doc) :
       /\ Folded(text) \cap PrivateWords = {}
       /\ \A secret \in Range(r.secrets) :
            Range(secret.text) \cap {PlaceholderFor(s.label) : s \in Range(r.secrets)} = {} =>
              ~Includes(text, secret.text)
  /\ \A text \in FixedLiterals(doc) : ~IsTokenSubsetOf(text, Goal)
  /\ \A name \in DOMAIN doc.inputs :
       ~doc.inputs[name].sensitive => \E s \in Range(r.selections) : s.public /\ s.parameter = name

\* Each gate answers for its part: what scrubbing changes nothing of says no value
\* that is known.
LEMMA CompiledHides ==
  ASSUME Shaped(run), Told, Compiled \notin {Absent, Refused}
  PROVE  Hides(run, Compiled)
<1>1. Compiled = Document /\ ~Gated(Document)
  BY DEF Compiled
<1> DEFINE doc == Document
<1>2. \A text \in DocumentText(doc) : Listing(text)
  BY DocumentIsWorded DEF Told
<1>3. /\ \A text \in DocumentText(doc) : Scrubbed(run.secrets, text) = text
      /\ \A text \in FixedLiterals(doc) : ~IsTokenSubsetOf(text, Goal)
      /\ \A text \in DocumentText(doc) : Folded(text) \cap PrivateWords = {}
  BY <1>1 DEF Gated, CarriesSensitiveText, GoalEchoes, ContainsPrivateGoalData
<1>4. \A name \in DOMAIN doc.inputs :
        ~doc.inputs[name].sensitive => \E s \in Range(run.selections) : s.public /\ s.parameter = name
  <2>1. doc.inputs = Inputs
    BY DEF Document
  <2>2. \A name \in DOMAIN Inputs : Inputs[name] = InputFor(name)
    BY DEF Inputs
  <2> QED
    BY <2>1, <2>2, InputsAreWorded DEF Told
<1> HIDE DEF doc
<1>5. ASSUME NEW text \in DocumentText(doc), NEW secret \in Range(run.secrets),
             Range(secret.text) \cap {PlaceholderFor(s.label) : s \in Range(run.secrets)} = {},
             Includes(text, secret.text)
      PROVE  FALSE
  <2> DEFINE secrets == run.secrets
  <2>1. Known(secrets) /\ secret.text # <<>>
    BY RegistersAreKnown DEF Told, Registers
  <2>2. PICK i \in DOMAIN secrets : secrets[i] = secret
    BY RangeOf
  <2>3. PICK at \in DOMAIN text : Occurs(secrets[i].text, text, at)
    BY <1>5, <2>2 DEF Includes
  <2>4. Listing(text) /\ Scrubbed(secrets, text) = text /\ secrets[i].text # <<>>
    BY <1>2, <1>3, <2>1, <2>2
  <2> HIDE DEF secrets
  <2>5. PICK j \in DOMAIN secrets : PlaceholderFor(secrets[j].label) \in Range(secrets[i].text)
    BY <2>1, <2>3, <2>4, ScrubbedLeaves
  <2>6. secrets[j] \in Range(secrets)
    BY RangeOf
  <2> QED
    BY <1>5, <2>2, <2>5, <2>6 DEF secrets
<1>6. Hides(run, doc)
  BY <1>3, <1>4, <1>5 DEF Hides
<1> QED
  BY <1>1, <1>6 DEF doc

LEMMA KeptIsInductive ==
  ASSUME Kept, [CompileNext]_compileVars
  PROVE  Kept'
<1>0. /\ Shaped(run) /\ Faithful(run) /\ Given(run) /\ Placed(run) /\ DOMAIN run = Fields
      /\ stored # Absent => run.stage # "running"
  BY DEF Kept, Shaped
<1>1. CASE \E p \in Proposals : Turn(p)
  BY <1>1, ProceedingIsKept
<1>2. CASE \E typed \in TypedByHand : Handed(typed)
  BY <1>2, HandedIsKept
<1>3. CASE \/ \E ending \in Endings, reading \in run.readings : Succeed(ending, reading)
           \/ Stop
  <2>1. /\ DOMAIN run' = Fields /\ run'.steps = run.steps /\ run'.parameters = run.parameters
        /\ run'.selections = run.selections /\ run'.gaps = run.gaps
        /\ run.stage = "running" /\ stored' = stored
    BY <1>0, <1>3 DEF Succeed, Stop, Fields
  <2>2. Shaped(run') /\ Faithful(run') /\ Given(run') /\ Placed(run')
    BY <1>0, <2>1, OnTheParts
  <2> QED
    BY <1>0, <2>1, <2>2 DEF Kept, Stored
<1>4. CASE CompileArtifact
  <2>1. run' = run /\ run.stage # "running" /\ stored' = Compiled
    BY <1>4 DEF CompileArtifact
  <2>2. ASSUME Stored' PROVE Follows(run, stored') /\ Repeats(run, stored')
    <3>1. Compiled \notin {Absent, Refused}
      BY <2>1, <2>2 DEF Stored
    <3> QED
      BY <1>0, <2>1, <3>1, CompiledFollows, CompiledRepeats
  <2> QED
    BY <1>0, <2>1, <2>2 DEF Kept
<1>5. CASE UNCHANGED compileVars
  <2>1. run' = run /\ stored' = stored
    BY <1>5 DEF compileVars
  <2> QED
    BY <2>1 DEF Kept, Stored
<1> QED
  BY <1>1, <1>2, <1>3, <1>4, <1>5 DEF CompileNext

LEMMA CountingIsKept ==
  ASSUME Kept, CompileTypeOK, [CompileNext]_compileVars
  PROVE  CompileTypeOK'
<1>1. /\ DOMAIN run = Fields /\ Listing(run.steps) /\ MaxTurns \in Nat
      /\ run.stage \in {"running", "reached", "stuck"} /\ run.attempted \in 0..MaxTurns
      /\ Len(run.steps) <= run.attempted
      /\ \A reading \in run.readings : reading.cell \in DOMAIN Reads
      /\ stored # Absent => run.stage # "running"
  BY TurnsAssumption DEF Kept, Shaped, CompileTypeOK
<1>2. Len(run.steps) \in Nat
  <2>1. PICK S : run.steps \in Seq(S)
    BY <1>1 DEF Listing
  <2> QED
    BY <2>1
<1>3. CASE \E p \in Proposals : Turn(p)
  <2>1. PICK p \in Proposals : Turn(p)
    BY <1>3
  <2> DEFINE id == StepId(p, run.attempted + 1)
             step == Recorded(p, id, SecretsKnowing(p))
  <2>2. run.stage = "running" /\ run.attempted < MaxTurns /\ stored' = stored
    BY <2>1 DEF Turn
  <2>3. CASE run' = Unperformed(p)
    <3>1. /\ run'.stage = run.stage /\ run'.attempted = run.attempted + 1
          /\ run'.steps = run.steps /\ run'.readings = run.readings
      BY <1>1, <2>3 DEF Unperformed, Fields
    <3> QED
      BY <1>1, <1>2, <2>2, <3>1 DEF CompileTypeOK
  <2>4. CASE run' = Performed(p)
    <3>1. /\ run'.stage = run.stage /\ run'.attempted = run.attempted + 1
          /\ run'.steps = Append(run.steps, step)
          /\ run'.readings = IF p.verb = "extract"
                             THEN run.readings \cup {[step |-> id, cell |-> p.target]}
                             ELSE run.readings
      BY <1>1, <2>4 DEF Performed, Fields
    <3> HIDE DEF step, id
    <3>2. Len(run'.steps) = Len(run.steps) + 1
      BY <1>1, <3>1, Appended
    <3>3. \A reading \in run'.readings : reading.cell \in DOMAIN Reads
      BY <1>1, <2>1, <3>1, ListsAssumption
    <3> QED
      BY <1>1, <1>2, <2>2, <3>1, <3>2, <3>3 DEF CompileTypeOK
  <2> QED
    BY <2>1, <2>3, <2>4 DEF Turn
<1>4. CASE \/ \E typed \in TypedByHand : Handed(typed)
           \/ \E ending \in Endings, reading \in run.readings : Succeed(ending, reading)
           \/ Stop
  <2>1. /\ run'.stage \in {"running", "reached", "stuck"} /\ run'.attempted = run.attempted
        /\ run'.steps = run.steps /\ run'.readings = run.readings
        /\ run.stage = "running" /\ stored' = stored
    BY <1>1, <1>4 DEF Handed, Succeed, Stop, Fields
  <2> QED
    BY <1>1, <2>1 DEF CompileTypeOK
<1>5. CASE CompileArtifact
  BY <1>1, <1>5 DEF CompileArtifact, CompileTypeOK
<1>6. CASE UNCHANGED compileVars
  BY <1>1, <1>6 DEF compileVars, CompileTypeOK
<1> QED
  BY <1>3, <1>4, <1>5, <1>6 DEF CompileNext

-----------------------------------------------------------------------------
\* The run, and what of it is kept, are what the compiler may rely on
\* (discover.ts, what the loop records).
THEOREM WhatTheRunKeeps == CompileSpec => []Kept
<1>1. CompileInit => Kept
  BY BeganIsKept
<1>2. Kept /\ [CompileNext]_compileVars => Kept'
  BY KeptIsInductive
<1> QED
  BY <1>1, <1>2, PTL DEF CompileSpec

\* The run and what is made of it keep their types: no more steps than turns, no
\* more turns than the run is given (loop.ts, the turns of a run).
THEOREM CompileTypeCorrect == CompileSpec => []CompileTypeOK
<1>1. CompileInit => CompileTypeOK
  <2> SUFFICES ASSUME CompileInit PROVE CompileTypeOK
    OBVIOUS
  <2>1. /\ run.stage = "running" /\ run.attempted = 0 /\ run.steps = <<>> /\ run.readings = {}
        /\ stored = Absent
    BY DEF CompileInit, Began
  <2> QED
    BY <2>1, TurnsAssumption DEF CompileTypeOK
<1>2. Kept /\ CompileTypeOK /\ [CompileNext]_compileVars => CompileTypeOK'
  BY CountingIsKept
<1> QED
  BY <1>1, <1>2, WhatTheRunKeeps, PTL DEF CompileSpec

\* Whatever a run did and however long it was, a checkpoint of the document says
\* what that run saw once the step had landed, and after a gap what the next step
\* went on to act on (compile.ts, stepFor and humanDependencies).
THEOREM CheckpointsAreTheRuns == CompileSpec => []CheckpointsSpeakOfWhatFollows
<1>1. Kept => CheckpointsSpeakOfWhatFollows
  BY DEF Kept, CheckpointsSpeakOfWhatFollows, Follows
<1> QED
  BY <1>1, WhatTheRunKeeps, PTL

\* A step nothing was taken out of, whose name has one meaning, does again what the
\* run did, given the run's own values (compile.ts, valueRefFor and inputFor).
THEOREM PlainStepsAreTheRuns == CompileSpec => []PlainStepsAreWhatTheRunDid
<1>1. Kept => PlainStepsAreWhatTheRunDid
  BY DEF Kept, PlainStepsAreWhatTheRunDid, Repeats, DoesWhatWasDone, Supplied, SuppliedBy,
         ParameterNamed, TwoMeanings, HasTwoMeanings
<1> QED
  BY <1>1, WhatTheRunKeeps, PTL

\* What the run knows of itself, and of the document once there is one.
LEMMA HidingIsKept ==
  ASSUME Kept, Told, Stored => Hides(run, stored), [CompileNext]_compileVars
  PROVE  (Stored => Hides(run, stored))'
<1>1. CASE CompileArtifact
  <2>1. run' = run /\ stored' = Compiled
    BY <1>1 DEF CompileArtifact
  <2>2. Shaped(run)
    BY DEF Kept
  <2>3. ASSUME Stored' PROVE Hides(run, stored')
    <3>1. Compiled \notin {Absent, Refused}
      BY <2>1, <2>3 DEF Stored
    <3> QED
      BY <2>1, <2>2, <3>1, CompiledHides
  <2>4. Stored' => Hides(run', stored')
    BY <2>1, <2>3
  <2> QED
    BY <2>4
<1>2. CASE UNCHANGED compileVars
  <2>1. run' = run /\ stored' = stored
    BY <1>2 DEF compileVars
  <2> QED
    BY <2>1 DEF Stored
<1>3. CASE \/ \E p \in Proposals : Turn(p)
           \/ \E typed \in TypedByHand : Handed(typed)
           \/ \E ending \in Endings, reading \in run.readings : Succeed(ending, reading)
           \/ Stop
  <2>1. run.stage = "running" /\ stored' = stored
    BY <1>3 DEF Turn, Handed, Succeed, Stop
  <2>2. stored' = Absent
    BY <2>1 DEF Kept
  <2> QED
    BY <2>2 DEF Stored
<1> QED
  BY <1>1, <1>2, <1>3 DEF CompileNext

\* What a run knows and says is written in words, and can be taken out of words
\* (loop.ts and Scrub.ts, remember and declassify).
THEOREM WhatTheRunIsTold == CompileSpec => []Told
<1>1. CompileInit => Told
  BY BeganIsTold
<1>2. Kept /\ Told /\ [CompileNext]_compileVars => Told'
  BY ToldIsInductive
<1> QED
  BY <1>1, <1>2, WhatTheRunKeeps, PTL DEF CompileSpec

\* Whatever a run learned, in whatever order, and whatever it was told to forget,
\* nothing of it is stored: no value it knows anywhere in the document, no private
\* word of the goal, no fixed text that is only words of the goal (compile.ts, the
\* three gates; Scrub.ts, scrubbing).
THEOREM NothingIsStored == CompileSpec => []NothingOfTheRunIsStored
<1> DEFINE Hidden == Stored => Hides(run, stored)
<1>1. CompileInit => Hidden
  BY DEF CompileInit, Stored
<1>2. Kept /\ Told /\ Hidden /\ [CompileNext]_compileVars => Hidden'
  BY HidingIsKept
<1>3. Hidden => NothingOfTheRunIsStored
  BY DEF NothingOfTheRunIsStored, Hides, Placeholders
<1> QED
  BY <1>1, <1>2, <1>3, WhatTheRunKeeps, WhatTheRunIsTold, PTL DEF CompileSpec

=============================================================================
