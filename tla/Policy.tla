------------------------------- MODULE Policy -------------------------------
(***************************************************************************)
(* The policy document: how a run loads it and what it then allows.        *)
(*                                                                         *)
(* A reviewer edits the file a line at a time; each run loads whatever is  *)
(* there, or does not start.  A written reason is its length once trimmed. *)
(* A request is what a caller asks before it acts, or before it sends the  *)
(* screen to a model.                                                      *)
(***************************************************************************)
EXTENDS Origins

CONSTANTS
  Sources,          \* the origin lines a reviewer may write
  UnknownTypes,     \* action types outside the vocabulary
  Reasons,          \* the lengths a written reason may have
  Requests,         \* the actions that may be asked about
  Consultations,    \* the consultations that may be asked about
  Documents,        \* the policies that may be shipped
  MaxEdits          \* how many lines a reviewer may change

RISK == [navigate |-> "safe", extract |-> "safe",
         fill |-> "risky", click |-> "risky", selectFromList |-> "risky"]

ActionTypes == DOMAIN RISK

MODES == {"replay", "discovery"}

JustificationMinimum == 60

PermittedAction == [type : ActionTypes \cup UnknownTypes, because : Reasons]

PolicyDocument ==
  [origins : SUBSET Sources,
   actions : Seq(PermittedAction),
   assist  : Reasons \cup {None},
   modes   : [MODES -> (SUBSET (ActionTypes \cup UnknownTypes)) \cup {None}]]

ASSUME EditsAssumption == MaxEdits \in Nat
ASSUME TypesAssumption == UnknownTypes \cap ActionTypes = {}
ASSUME ModesAssumption == \A r \in Requests : r.mode \in MODES
ASSUME WhereaboutsAssumption ==
  /\ \A r \in Requests : IsWeb(r.page) => OriginOf(r.page) # None
  /\ \A r \in Requests : r.type = "navigate" /\ IsWeb(r.subject) => OriginOf(r.subject) # None
  /\ \A r \in Consultations : IsWeb(r.page) => OriginOf(r.page) # None
ASSUME DocumentsAssumption == Documents \subseteq PolicyDocument

VARIABLES
  file,     \* the document as it stands on disk, or None
  policy,   \* the policy the latest run compiled, or None before any has
  edits     \* how many lines have been changed

vars == <<file, policy, edits>>

-----------------------------------------------------------------------------
\* Loading

RiskOf(type) == IF type \in ActionTypes THEN RISK[type] ELSE "unknown"

Justified(reason) == reason \in Nat /\ reason >= JustificationMinimum

\* An entry the vocabulary has, argued for if it is risky.
Acceptable(entry) ==
  /\ entry.type \in ActionTypes
  /\ RiskOf(entry.type) = "risky" => Justified(entry.because)

\* A fault: the reason is not asked for.
Taken_Unargued(document, i) ==
  /\ document.actions[i].type \in ActionTypes
  /\ \A j \in 1..(i - 1) : document.actions[j].type # document.actions[i].type

\* An entry is taken unless one of its type was taken before it.
Taken(document, i) ==
  /\ Acceptable(document.actions[i])
  /\ \A j \in 1..(i - 1) :
       document.actions[j].type = document.actions[i].type => ~Acceptable(document.actions[j])

Overall(document) ==
  {document.actions[i].type : i \in {k \in DOMAIN document.actions : Taken(document, k)}}

\* A fault: a mode that lists nothing is read as a mode that is not there.
Narrowed_EmptyIsAll(document, mode) ==
  IF document.modes[mode] \in {None, {}} THEN Overall(document)
  ELSE document.modes[mode] \cap Overall(document)

\* What a mode permits: everything, unless the document narrows it.
Narrowed(document, mode) ==
  IF document.modes[mode] = None THEN Overall(document)
  ELSE document.modes[mode] \cap Overall(document)

Permitted(document) == [mode \in MODES |-> Narrowed(document, mode)]

\* A file that is not there, or with anything wrong in it, is no policy.
Loads(document) ==
  /\ document # None
  /\ document.origins # {} /\ \A source \in document.origins : IsPattern(source)
  /\ \A i \in DOMAIN document.actions : Taken(document, i)
  /\ \A mode \in MODES :
       document.modes[mode] # None => document.modes[mode] \subseteq Overall(document)
  /\ document.assist # None => Justified(document.assist)

CompilePolicy(document) ==
  [origins   |-> {ParseOriginPattern(source) : source \in document.origins},
   permitted |-> Permitted(document),
   assist    |-> document.assist,
   document  |-> document]

-----------------------------------------------------------------------------
\* Deciding

\* The verdict, and the rule that gave it.
Verdict(verdict, rule, risk, origin) ==
  [verdict |-> verdict, rule |-> rule, risk |-> risk, origin |-> origin]

\* A fault: only a navigation is held to the allowlist.
Decide_ByDestination(compiled, request) ==
  IF /\ request.type \in compiled.permitted[request.mode]
     /\ request.type = "navigate" => AllowedBy(compiled.origins, request.subject)
  THEN Verdict("allow", "permission", RiskOf(request.type), None)
  ELSE Verdict("deny", "permission", RiskOf(request.type), None)

\* Asked in this order: what it is, whether it is permitted in this mode, where
\* the run is, and for a navigation where it would go.
Decide(compiled, request) ==
  LET risk        == RiskOf(request.type)
      origin      == OriginOf(request.page)
      destination == OriginOf(request.subject)
      Deny(rule)  == Verdict("deny", rule, risk, origin)
  IN CASE risk = "unknown" -> Deny("type")
       [] risk # "unknown" /\ request.type \notin compiled.permitted[request.mode] ->
            Deny("permission")
       [] OTHER ->
            IF origin = None /\ request.type # "navigate" THEN Deny("nowhere")
            ELSE IF origin # None /\ ~AllowedBy(compiled.origins, origin) THEN Deny("page")
            ELSE IF request.type = "navigate" /\ destination = None THEN Deny("address")
            ELSE IF request.type = "navigate" /\ ~AllowedBy(compiled.origins, request.subject)
                 THEN Deny("destination")
            ELSE Verdict("allow", "permission", risk, origin)

\* Whether the screen the run is stuck on may be sent to a model.
DecideAssist(compiled, request) ==
  LET origin     == OriginOf(request.page)
      Deny(rule) == Verdict("deny", rule, "risky", origin)
  IN CASE request.mode # "replay" -> Deny("mode")
       [] request.mode = "replay" /\ compiled.assist = None -> Deny("assist")
       [] OTHER ->
            IF origin = None THEN Deny("nowhere")
            ELSE IF ~AllowedBy(compiled.origins, request.page) THEN Deny("page")
            ELSE Verdict("allow", "assist", "risky", origin)

Allowed(compiled) == {r \in Requests : Decide(compiled, r).verdict = "allow"}

AllowedToAsk(compiled) == {r \in Consultations : DecideAssist(compiled, r).verdict = "allow"}

-----------------------------------------------------------------------------
Init == file \in Documents /\ policy = None /\ edits = 0

Writable == file # None /\ edits < MaxEdits

Write(document) ==
  /\ file' = document
  /\ edits' = edits + 1
  /\ UNCHANGED policy

AddAction ==
  Writable /\ \E entry \in PermittedAction : Write([file EXCEPT !.actions = Append(@, entry)])

StrikeAction ==
  Writable /\ \E i \in DOMAIN file.actions : Write([file EXCEPT !.actions = RemoveAt(@, i)])

AddOrigin == Writable /\ \E source \in Sources : Write([file EXCEPT !.origins = @ \cup {source}])

StrikeOrigin ==
  Writable /\ \E source \in file.origins : Write([file EXCEPT !.origins = @ \ {source}])

ChangeMode ==
  /\ Writable
  /\ \E mode \in MODES, type \in ActionTypes \cup UnknownTypes :
       LET listed == file.modes[mode]
       IN \E types \in {None, {type}} \cup (IF listed = None THEN {}
                                            ELSE {listed \cup {type}, listed \ {type}}) :
            Write([file EXCEPT !.modes[mode] = types])

ChangeAssist ==
  Writable /\ \E reason \in Reasons \cup {None} : Write([file EXCEPT !.assist = reason])

LoseFile == Writable /\ Write(None)

\* A run begins only under a policy that loads; it keeps the one it loaded.
LoadPolicy ==
  /\ Loads(file)
  /\ policy' = CompilePolicy(file)
  /\ UNCHANGED <<file, edits>>

Next ==
  \/ AddAction \/ StrikeAction \/ AddOrigin \/ StrikeOrigin \/ ChangeMode \/ ChangeAssist
  \/ LoseFile \/ LoadPolicy

Spec == Init /\ [][Next]_vars

-----------------------------------------------------------------------------
\* The file and the policy have their types.
TypeOK ==
  /\ file \in PolicyDocument \cup {None}
  /\ policy # None => /\ policy.document \in PolicyDocument
                      /\ policy = CompilePolicy(policy.document)
  /\ edits \in 0..MaxEdits

\* A page of the document: some line of origins: covers it.
Listed(document, url) ==
  \E source \in document.origins :
    IsPattern(source) /\ OriginMatches(ParseOriginPattern(source), url)

\* What the file itself says of a request: an entry names the action, with its
\* reason if it is risky; the mode, if it lists anything, lists it; and a line
\* covers the page the run is on and the address it would go to.
WrittenDown(document, request) ==
  /\ \E i \in DOMAIN document.actions :
       /\ document.actions[i].type = request.type
       /\ RiskOf(request.type) = "risky" => Justified(document.actions[i].because)
  /\ document.modes[request.mode] # None => request.type \in document.modes[request.mode]
  /\ request.type # "navigate" => IsWeb(request.page)
  /\ IsWeb(request.page) => Listed(document, request.page)
  /\ request.type = "navigate" => IsWeb(request.subject) /\ Listed(document, request.subject)

\* What a loaded policy allows is exactly what its file writes down: nothing is
\* permitted by default, by a duplicate, by another mode or by an address that
\* only looks listed (compilePolicy and decide against config/policies).
AllowedIsWrittenDown ==
  policy # None =>
    \A r \in Requests : r \in Allowed(policy) <=> WrittenDown(policy.document, r)

\* Nothing is allowed about a page the browser would refuse to open: the verdict
\* and the authoriser the surface is given agree on where a run may be
\* (decide, decideAssist, originAuthorizer).
NothingOffTheList ==
  policy # None =>
    /\ \A r \in Allowed(policy) :
         /\ IsWeb(r.page) => AllowedBy(policy.origins, r.page)
         /\ r.type = "navigate" => AllowedBy(policy.origins, r.subject)
    /\ \A r \in AllowedToAsk(policy) :
         policy.assist # None /\ AllowedBy(policy.origins, r.page)

\* One document is another with lines struck out: no new line, no mode widened.
StruckOut(old, new) ==
  /\ new.origins \subseteq old.origins
  /\ \A i \in DOMAIN new.actions : \E j \in DOMAIN old.actions : new.actions[i] = old.actions[j]
  /\ \A mode \in MODES :
       old.modes[mode] # None => /\ new.modes[mode] # None
                                 /\ new.modes[mode] \subseteq old.modes[mode]
  /\ new.assist \in {old.assist, None}

\* Striking lines out of a policy never allows a run anything it was denied
\* before, whichever lines they are (compilePolicy's three rules).
StrikingOutNeverAllows ==
  [][policy # None /\ policy' # policy /\ StruckOut(policy.document, policy'.document) =>
       /\ Allowed(policy') \subseteq Allowed(policy)
       /\ AllowedToAsk(policy') \subseteq AllowedToAsk(policy)]_vars

=============================================================================
