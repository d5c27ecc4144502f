------------------------------ MODULE Evidence ------------------------------
(***************************************************************************)
(* The evidence log of a run, and the values taken out of it.              *)
(*                                                                         *)
(* Writers are processes that may be started on the same run id.  Each     *)
(* keeps its own sequence number, its own list of what it has written and  *)
(* its own registry of values, which grows while the run goes on.  A write *)
(* may fail before anything reached the file, or part of the way.          *)
(***************************************************************************)
EXTENDS Scrub

CONSTANTS
  Writers, RunIds,
  Kinds,        \* the kinds of event in the vocabulary
  OtherKinds,   \* what is no kind of event
  Texts,        \* what an event may quote
  Values,       \* the values that may turn out to be sensitive
  GoalWords,    \* what the diagnostic filter takes out
  Absent,
  MaxRecords,   \* how often a writer is asked to record
  MaxValues     \* how many values a registry holds

ASSUME BoundsAssumption == MaxRecords \in Nat /\ MaxValues \in Nat
ASSUME KindsAssumption == Kinds \cap OtherKinds = {}
ASSUME AbsentAssumption == Absent \notin RunIds

VARIABLES
  made,     \* the run ids that have a directory
  log,      \* the events.jsonl of each run id
  writer    \* what each process holds

vars == <<made, log, writer>>

\* How far an append got: into the text of the event, through all of it, or
\* through the newline after it.
Extents == {"part", "text", "line"}

\* What reaches the file of an event.
Piece(w, event, extent) == [by |-> w, event |-> event, extent |-> extent]

NotOpen ==
  [run |-> Absent, seq |-> 0, written |-> <<>>, values |-> <<>>, filter |-> <<>>,
   recorded |-> {}, refused |-> {}]

Holding(w) == writer[w].run # Absent

Init ==
  /\ made = {}
  /\ log = [r \in RunIds |-> <<>>]
  /\ writer = [w \in Writers |-> NotOpen]

\* A fault: a directory that is already there will do.
Open_Shared(w, run) ==
  /\ ~Holding(w)
  /\ made' = made \cup {run}
  /\ writer' = [writer EXCEPT ![w].run = run]
  /\ UNCHANGED log

\* A run's directory is made for it, or the run does not begin; the note that
\* goes into it may fail, and leaves the directory.
Open(w, run) ==
  /\ ~Holding(w) /\ run \notin made
  /\ made' = made \cup {run}
  /\ UNCHANGED writer \/ writer' = [writer EXCEPT ![w].run = run]
  /\ UNCHANGED log

\* What a writer knows to take out, and then what the filter takes out.
ScrubText(w, text) == Scrubbed(writer[w].filter, Scrubbed(writer[w].values, text))

Stamped(w, kind, text) ==
  [seq |-> writer[w].seq, kind |-> kind, text |-> ScrubText(w, text)]

\* A fault: a failed append is answered as if it had been made.
Told_Anyway(w, event, how) ==
  [writer[w] EXCEPT !.seq = @ + 1, !["recorded"] = @ \cup {event.seq}]

\* What the caller is told of an event; its number is used up either way.
Told(w, event, how) ==
  [writer[w] EXCEPT !.seq = @ + 1, ![how] = @ \cup {event.seq}]

\* It goes where the file ends, on a line of its own or not.
Appended(w, event, extent) ==
  log' = [log EXCEPT ![writer[w].run] = Append(@, Piece(w, event, extent))]

\* What is no event is refused; what is one is counted as written before it is
\* appended to the file, which may fail before or after any part of it is there.
Record(w, kind, text) ==
  /\ Holding(w) /\ writer[w].seq < MaxRecords
  /\ LET event == Stamped(w, kind, text)
         counted(how) == [Told(w, event, how) EXCEPT !.written = Append(@, event)]
     IN \/ /\ kind \in OtherKinds
           /\ writer' = [writer EXCEPT ![w] = Told(w, event, "refused")]
           /\ UNCHANGED log
        \/ /\ kind \in Kinds /\ Appended(w, event, "line")
           /\ writer' = [writer EXCEPT ![w] = counted("recorded")]
        \/ /\ kind \in Kinds
           /\ UNCHANGED log \/ \E extent \in Extents : Appended(w, event, extent)
           /\ writer' = [writer EXCEPT ![w] = counted("refused")]
  /\ UNCHANGED made

\* A value is learned, once under one label.
Redact(w, value) ==
  /\ Holding(w) /\ Len(writer[w].values) < MaxValues
  /\ value.text # <<>> /\ value \notin Range(writer[w].values)
  /\ writer' = [writer EXCEPT ![w].values = Append(@, value)]
  /\ UNCHANGED <<made, log>>

\* A policy says the value is public: exactly that registration goes.
Declassify(w, value) ==
  /\ Holding(w) /\ value \in Range(writer[w].values)
  /\ writer' = [writer EXCEPT ![w].values = SelectSeq(@, LAMBDA v : v # value)]
  /\ UNCHANGED <<made, log>>

ProtectDiagnostics(w) ==
  /\ Holding(w) /\ writer[w].filter # GoalWords
  /\ writer' = [writer EXCEPT ![w].filter = GoalWords]
  /\ UNCHANGED <<made, log>>

Next ==
  \E w \in Writers :
    \/ \E run \in RunIds : Open(w, run)
    \/ \E kind \in Kinds \cup OtherKinds, text \in Texts : Record(w, kind, text)
    \/ \E value \in Values : Redact(w, value) \/ Declassify(w, value)
    \/ ProtectDiagnostics(w)

Spec == Init /\ [][Next]_vars

-----------------------------------------------------------------------------
\* The writers and their logs have their types.
TypeOK ==
  /\ made \subseteq RunIds
  /\ \A r \in RunIds : \A i \in DOMAIN log[r] :
       /\ log[r][i].by \in Writers /\ log[r][i].extent \in Extents
       /\ log[r][i].event.kind \in Kinds
  /\ \A w \in Writers :
       /\ writer[w].run \in made \cup {Absent}
       /\ writer[w].seq \in 0..MaxRecords
       /\ writer[w].recorded \cup writer[w].refused = 0..(writer[w].seq - 1)

\* One log is one session's: its numbers only go up, whoever else was started on
\* the same run id (EvidenceWriter.ts, mkdirSync without recursive).
OneSessionInOrder ==
  \A r \in RunIds : \A i, j \in DOMAIN log[r] :
    i < j => /\ log[r][i].by = log[r][j].by
             /\ log[r][i].event.seq < log[r][j].event.seq

\* A reader splits the file at its newlines: a piece can be read when it is all
\* there is of its line, and all there is of its event.
Readable(file, i) ==
  /\ i = 1 \/ file[i - 1].extent = "line"
  /\ file[i].extent = "line" \/ (file[i].extent = "text" /\ i = Len(file))

\* The log and the answers agree, wherever an append fails.  What a caller was
\* told is recorded is in the file to its newline, and can be read there unless
\* the piece before it is one whose own caller was told that it failed, which it
\* may have run into.  Everything in the file, a piece cut off included, is in
\* what the writer says it has written, in that order (record, written).
LogAgreesWithAnswers ==
  \A w \in Writers : Holding(w) =>
    LET file == log[writer[w].run]
    IN /\ \A n \in writer[w].recorded : \E i \in DOMAIN file :
            /\ file[i].event.seq = n /\ file[i].extent = "line"
            /\ Readable(file, i) \/ file[i - 1].event.seq \in writer[w].refused
       /\ \A i \in DOMAIN file : \E j \in DOMAIN writer[w].written :
            file[i].event = writer[w].written[j]
       /\ \A i, j \in DOMAIN writer[w].written :
            i < j => writer[w].written[i].seq < writer[w].written[j].seq

Mentions(text, find) == \E i \in DOMAIN text : Occurs(find, text, i)

\* A text no shifted copy of which overlaps it: abab overlaps itself, abac does not.
Unbordered(text) ==
  \A k \in 1..(Len(text) - 1) : SubSeq(text, 1, k) # SubSeq(text, Len(text) - k + 1, Len(text))

\* What an event quotes: its text, and whatever its quotations say.
Says(text) ==
  {text} \cup Contents(text)

Spoken(w) ==
  UNION {Range(Spellings(v)) : v \in Range(writer[w].values)}

\* Nothing a writer knew to take out when it recorded an event is in that event,
\* however it was spelled, quoted or crossed by another value.
NothingKnownIsQuoted ==
  [][\A w \in Writers :
       Len(writer'[w].written) > Len(writer[w].written) =>
         \A find \in Spoken(w), said \in Says(Last(writer'[w].written).text) :
           Unbordered(find) => ~Mentions(said, find)]_vars

=============================================================================
