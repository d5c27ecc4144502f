---------------------------- MODULE EvidenceProofs ----------------------------
(***************************************************************************)
(* What the evidence log promises, for any number of writers, run ids and  *)
(* events, whatever is quoted and whatever append fails.                   *)
(*                                                                         *)
(* A run's directory is made once, so at most one writer holds the run     *)
(* (Alone); everything in a log was written by the writer that holds its   *)
(* run, with a number it has used up (Owned).  That is what keeps a log in *)
(* order and in step with what its writer has written and answered.        *)
(***************************************************************************)
EXTENDS Evidence, TLAPS

\* A sequence, whatever it is of.
Listing(s) == \E S : s \in Seq(S)

Fields == {"run", "seq", "written", "values", "filter", "recorded", "refused"}

Shaped ==
  /\ DOMAIN writer = Writers /\ DOMAIN log = RunIds
  /\ \A r \in RunIds : Listing(log[r])
  /\ \A w \in Writers :
       /\ DOMAIN writer[w] = Fields
       /\ writer[w].run \in RunIds \cup {Absent}
       /\ writer[w].seq \in Nat
       /\ Listing(writer[w].written)
       /\ writer[w].run = Absent => writer[w].seq = 0 /\ writer[w].recorded = {} /\ writer[w].written = <<>>

Alone ==
  /\ \A w \in Writers : Holding(w) => writer[w].run \in made
  /\ \A w, v \in Writers : Holding(w) /\ writer[w].run = writer[v].run => w = v

Owned ==
  \A r \in RunIds : \A i \in 1..Len(log[r]) :
    /\ log[r][i].by \in Writers
    /\ writer[log[r][i].by].run = r
    /\ log[r][i].event.seq \in Nat
    /\ log[r][i].event.seq < writer[log[r][i].by].seq

Rising ==
  \A r \in RunIds : \A i, j \in 1..Len(log[r]) : i < j => log[r][i].event.seq < log[r][j].event.seq

Counted ==
  \A w \in Writers :
    /\ \A i \in 1..Len(writer[w].written) :
         writer[w].written[i].seq \in Nat /\ writer[w].written[i].seq < writer[w].seq
    /\ \A i, j \in 1..Len(writer[w].written) :
         i < j => writer[w].written[i].seq < writer[w].written[j].seq

\* A log s, what its writer has written t, what it was told is recorded k and what
\* it was told failed f.  A piece that does not reach its newline is told as failed.
InStep(s, t, k, f) ==
  /\ \A i \in 1..Len(s) : \E j \in 1..Len(t) : s[i].event = t[j]
  /\ \A i \in 1..Len(s) : s[i].extent # "line" => s[i].event.seq \in f
  /\ \A m \in k : \E i \in 1..Len(s) : s[i].extent = "line" /\ s[i].event.seq = m

Matched(w) ==
  InStep(log[writer[w].run], writer[w].written, writer[w].recorded, writer[w].refused)

Matching == \A w \in Writers : Holding(w) => Matched(w)

EInv == Shaped /\ Alone /\ Owned /\ Rising /\ Counted /\ Matching

-----------------------------------------------------------------------------
LEMMA OneMore ==
  ASSUME NEW s, Listing(s), NEW e
  PROVE  /\ Listing(Append(s, e))
         /\ Len(s) \in Nat /\ Len(Append(s, e)) = Len(s) + 1
         /\ \A i \in 1..Len(s) : Append(s, e)[i] = s[i]
         /\ Append(s, e)[Len(s) + 1] = e
         /\ DOMAIN s = 1..Len(s)
         /\ \A i \in 1..(Len(s) + 1) : i \in 1..Len(s) \/ i = Len(s) + 1
<1>1. PICK S : s \in Seq(S)
  BY DEF Listing
<1>2. s \in Seq(S \cup {e}) /\ e \in S \cup {e}
  BY <1>1
<1>3. Append(s, e) \in Seq(S \cup {e})
  BY <1>2
<1> QED
  BY <1>2, <1>3 DEF Listing

LEMMA EmptyIsAListing == Listing(<<>>) /\ Len(<<>>) = 0
<1>1. <<>> \in Seq({})
  OBVIOUS
<1> QED
  BY <1>1 DEF Listing

\* A writer whose number, log and list of what it has written stay as they are.
Still(w) ==
  /\ DOMAIN writer'[w] = Fields
  /\ writer'[w].run = writer[w].run /\ writer'[w].seq = writer[w].seq
  /\ writer'[w].written = writer[w].written /\ writer'[w].recorded = writer[w].recorded
  /\ writer'[w].refused = writer[w].refused

LEMMA StillStep ==
  ASSUME EInv, made \subseteq made', log' = log, DOMAIN writer' = Writers, \A w \in Writers : Still(w)
  PROVE  EInv'
<1>1. Shaped'
  BY DEF EInv, Shaped, Still
<1>2. Alone'
  BY DEF EInv, Alone, Still, Holding
<1>3. Owned' /\ Rising'
  BY DEF EInv, Owned, Rising, Still
<1>4. Counted'
  BY DEF EInv, Counted, Still
<1>5. Matching'
  <2>1. ASSUME NEW w \in Writers, Holding(w)'
        PROVE  Matched(w)'
    <3>1. /\ writer'[w].run = writer[w].run /\ writer'[w].written = writer[w].written
          /\ writer'[w].recorded = writer[w].recorded /\ log' = log
          /\ writer'[w].refused = writer[w].refused
      BY DEF Still
    <3>2. Matched(w)
      BY <2>1, <3>1 DEF EInv, Matching, Holding
    <3> QED
      BY <3>1, <3>2 DEF Matched
  <2> QED
    BY <2>1 DEF Matching
<1> QED
  BY <1>1, <1>2, <1>3, <1>4, <1>5 DEF EInv

LEMMA LearningStep ==
  ASSUME EInv, NEW w \in Writers, NEW value,
         Redact(w, value) \/ Declassify(w, value) \/ ProtectDiagnostics(w)
  PROVE  EInv'
<1>1. \/ \E x : writer' = [writer EXCEPT ![w].values = x]
      \/ writer' = [writer EXCEPT ![w].filter = GoalWords]
  <2>1. CASE Redact(w, value)
    <3>1. writer' = [writer EXCEPT ![w].values = Append(@, value)]
      BY <2>1 DEF Redact
    <3>2. writer' = [writer EXCEPT ![w].values = Append(writer[w].values, value)]
      BY <3>1
    <3> QED
      BY <3>2, Zenon
  <2>2. CASE Declassify(w, value)
    <3>1. writer' = [writer EXCEPT ![w].values = SelectSeq(@, LAMBDA v : v # value)]
      BY <2>2, Zenon DEF Declassify
    <3>2. \E x : writer' = [writer EXCEPT ![w].values = x]
      BY <3>1, Zenon
    <3> QED
      BY <3>2
  <2>3. CASE ProtectDiagnostics(w)
    BY <2>3 DEF ProtectDiagnostics
  <2> QED
    BY <2>1, <2>2, <2>3
<1>2. DOMAIN writer = Writers /\ \A v \in Writers : DOMAIN writer[v] = Fields
  BY DEF EInv, Shaped
<1>3. DOMAIN writer' = Writers /\ \A v \in Writers : Still(v)
  <2>1. ASSUME NEW x, writer' = [writer EXCEPT ![w].values = x]
        PROVE  DOMAIN writer' = Writers /\ \A v \in Writers : Still(v)
    BY <1>2, <2>1 DEF Still, Fields
  <2>2. ASSUME writer' = [writer EXCEPT ![w].filter = GoalWords]
        PROVE  DOMAIN writer' = Writers /\ \A v \in Writers : Still(v)
    BY <1>2, <2>2 DEF Still, Fields
  <2> QED
    BY <1>1, <2>1, <2>2
<1>4. made' = made /\ log' = log
  BY DEF Redact, Declassify, ProtectDiagnostics
<1> QED
  BY <1>3, <1>4, StillStep

\* A run's directory is made, whether or not the writer gets to hold it.
LEMMA OpenStep ==
  ASSUME EInv, NEW w \in Writers, NEW run \in RunIds, Open(w, run)
  PROVE  EInv'
<1>0. /\ ~Holding(w) /\ run \notin made /\ made' = made \cup {run} /\ log' = log
      /\ writer' = writer \/ writer' = [writer EXCEPT ![w].run = run]
  BY DEF Open
<1>1. /\ DOMAIN writer = Writers /\ DOMAIN writer[w] = Fields
      /\ writer[w].seq = 0 /\ writer[w].recorded = {} /\ writer[w].written = <<>>
      /\ writer[w].run = Absent
  BY <1>0 DEF EInv, Shaped, Holding
<1>2. \A v \in Writers : Holding(v) => writer[v].run \in made
  BY DEF EInv, Alone
<1>3. CASE writer' = writer
  <2>1. DOMAIN writer' = Writers /\ \A v \in Writers : Still(v)
    BY <1>3 DEF EInv, Shaped, Still
  <2> QED
    BY <1>0, <2>1, StillStep
<1>4. CASE writer' = [writer EXCEPT ![w].run = run]
  <2>1. /\ DOMAIN writer' = Writers /\ DOMAIN writer'[w] = Fields
        /\ writer'[w].run = run
        /\ writer'[w].seq = writer[w].seq /\ writer'[w].written = writer[w].written
        /\ writer'[w].recorded = writer[w].recorded
        /\ \A v \in Writers \ {w} : writer'[v] = writer[v]
    BY <1>1, <1>4 DEF Fields
  <2>2. run # Absent
    BY AbsentAssumption
  <2>3. Len(log[run]) \in Nat /\ \A i \in 1..Len(log[run]) : FALSE
    <3>1. Listing(log[run])
      BY DEF EInv, Shaped
    <3>2. Len(log[run]) \in Nat
      BY <3>1, OneMore
    <3>3. ASSUME NEW i \in 1..Len(log[run]) PROVE FALSE
      <4>1. log[run][i].by \in Writers /\ writer[log[run][i].by].run = run
        BY DEF EInv, Owned
      <4>2. Holding(log[run][i].by)
        BY <2>2, <4>1 DEF Holding
      <4> QED
        BY <1>0, <1>2, <4>1, <4>2
    <3> QED
      BY <3>2, <3>3
  <2>4. Shaped'
    BY <1>0, <1>1, <2>1, <2>2 DEF EInv, Shaped
  <2>5. Alone'
    <3>1. \A v \in Writers : Holding(v)' => writer'[v].run \in made'
      BY <1>0, <1>2, <2>1 DEF Holding
    <3>2. \A v \in Writers \ {w} : writer'[v].run # run
      BY <1>0, <1>2, <2>1, <2>2 DEF Holding
    <3>3. ASSUME NEW v \in Writers, NEW u \in Writers, Holding(v)', writer'[v].run = writer'[u].run
          PROVE  v = u
      <4>1. CASE v # w /\ u # w
        <5>1. Holding(v) /\ writer[v].run = writer[u].run
          BY <2>1, <3>3, <4>1 DEF Holding
        <5> QED
          BY <5>1 DEF EInv, Alone
      <4> QED
        BY <2>1, <3>2, <3>3, <4>1
    <3> QED
      BY <3>1, <3>3 DEF Alone
  <2>6. Owned'
    <3>1. ASSUME NEW r \in RunIds, NEW i \in 1..Len(log[r])
          PROVE  /\ log[r][i].by \in Writers
                 /\ writer'[log[r][i].by].run = r
                 /\ log[r][i].event.seq \in Nat
                 /\ log[r][i].event.seq < writer'[log[r][i].by].seq
      <4>1. /\ log[r][i].by \in Writers
            /\ writer[log[r][i].by].run = r
            /\ log[r][i].event.seq \in Nat
            /\ log[r][i].event.seq < writer[log[r][i].by].seq
        BY DEF EInv, Owned
      <4>2. log[r][i].by # w
        BY <1>1, <4>1, AbsentAssumption
      <4> QED
        BY <2>1, <4>1, <4>2
    <3> QED
      BY <1>0, <3>1 DEF Owned
  <2>7. Rising'
    BY <1>0 DEF EInv, Rising
  <2>8. Counted'
    <3>1. ASSUME NEW v \in Writers PROVE writer'[v].written = writer[v].written /\ writer'[v].seq = writer[v].seq
      BY <2>1
    <3> QED
      BY <3>1 DEF EInv, Counted
  <2>9. Matching'
    <3>1. Matched(w)'
      BY <1>0, <1>1, <2>1, <2>3 DEF Matched, InStep
    <3>2. ASSUME NEW v \in Writers \ {w}, Holding(v)'
          PROVE  Matched(v)'
      <4>1. writer'[v] = writer[v] /\ log' = log
        BY <1>0, <2>1
      <4>2. Holding(v)
        BY <3>2, <4>1 DEF Holding
      <4>3. Matched(v)
        BY <4>2 DEF EInv, Matching
      <4> QED
        BY <4>1, <4>3 DEF Matched
    <3> QED
      BY <3>1, <3>2 DEF Matching
  <2> QED
    BY <2>4, <2>5, <2>6, <2>7, <2>8, <2>9 DEF EInv
<1> QED
  BY <1>0, <1>3, <1>4

\* What a call of record makes of its writer and of the log: an event that is
\* refused out of hand uses up a number, any other one is written as well, and
\* only an event that is in the file to its newline is answered as recorded.
LEMMA Recording ==
  ASSUME EInv, NEW w \in Writers, NEW kind, NEW text, Record(w, kind, text)
  PROVE  /\ Holding(w) /\ made' = made
         /\ DOMAIN writer' = Writers /\ DOMAIN writer'[w] = Fields
         /\ \A v \in Writers \ {w} : writer'[v] = writer[v]
         /\ writer'[w].run = writer[w].run /\ writer'[w].seq = writer[w].seq + 1
         /\ \E event : event.seq = writer[w].seq /\
              \/ /\ writer'[w].recorded = writer[w].recorded \cup {writer[w].seq}
                 /\ writer'[w].refused = writer[w].refused
                 /\ writer'[w].written = Append(writer[w].written, event)
                 /\ Appended(w, event, "line")
              \/ /\ writer'[w].recorded = writer[w].recorded
                 /\ writer'[w].refused = writer[w].refused \cup {writer[w].seq}
                 /\ \/ writer'[w].written = writer[w].written /\ log' = log
                    \/ writer'[w].written = Append(writer[w].written, event) /\ log' = log
                    \/ /\ writer'[w].written = Append(writer[w].written, event)
                       /\ \E extent \in Extents : Appended(w, event, extent)
<1> DEFINE event == Stamped(w, kind, text)
           Refused == Told(w, event, "refused")
           Kept == [Told(w, event, "recorded") EXCEPT !.written = Append(@, event)]
           Lost == [Told(w, event, "refused") EXCEPT !.written = Append(@, event)]
<1>1. event.seq = writer[w].seq
  BY DEF Stamped
<1>2. DOMAIN writer = Writers /\ DOMAIN writer[w] = Fields
  BY DEF EInv, Shaped
<1>3. Holding(w) /\ made' = made
  BY DEF Record
<1>4. \/ writer' = [writer EXCEPT ![w] = Refused] /\ log' = log
      \/ writer' = [writer EXCEPT ![w] = Kept] /\ Appended(w, event, "line")
      \/ /\ writer' = [writer EXCEPT ![w] = Lost]
         /\ log' = log \/ \E extent \in Extents : Appended(w, event, extent)
  BY Zenon DEF Record
<1>5. /\ DOMAIN Refused = Fields /\ Refused.run = writer[w].run /\ Refused.seq = writer[w].seq + 1
      /\ Refused.written = writer[w].written /\ Refused.recorded = writer[w].recorded
      /\ Refused.refused = writer[w].refused \cup {writer[w].seq}
  BY <1>1, <1>2 DEF Told, Fields
<1>6. /\ DOMAIN Kept = Fields /\ Kept.run = writer[w].run /\ Kept.seq = writer[w].seq + 1
      /\ Kept.written = Append(writer[w].written, event)
      /\ Kept.recorded = writer[w].recorded \cup {writer[w].seq}
      /\ Kept.refused = writer[w].refused
  BY <1>1, <1>2 DEF Told, Fields
<1>7. /\ DOMAIN Lost = Fields /\ Lost.run = writer[w].run /\ Lost.seq = writer[w].seq + 1
      /\ Lost.written = Append(writer[w].written, event)
      /\ Lost.recorded = writer[w].recorded
      /\ Lost.refused = writer[w].refused \cup {writer[w].seq}
  BY <1>1, <1>2 DEF Told, Fields
<1> HIDE DEF event, Refused, Kept, Lost
<1>8. /\ DOMAIN writer' = Writers
      /\ \A v \in Writers \ {w} : writer'[v] = writer[v]
      /\ \/ writer'[w] = Refused /\ log' = log
         \/ writer'[w] = Kept /\ Appended(w, event, "line")
         \/ writer'[w] = Lost /\ (log' = log \/ \E extent \in Extents : Appended(w, event, extent))
  BY <1>2, <1>4
<1> QED
  BY <1>1, <1>3, <1>5, <1>6, <1>7, <1>8

\* An event is written, its number told as failed.
LEMMA WrittenGrows ==
  ASSUME NEW s, NEW t, NEW k, NEW f, Listing(t), InStep(s, t, k, f), NEW event, NEW failed, f \subseteq failed
  PROVE  InStep(s, Append(t, event), k, failed)
<1>1. Len(Append(t, event)) = Len(t) + 1 /\ Len(t) \in Nat /\ \A j \in 1..Len(t) : Append(t, event)[j] = t[j]
  BY OneMore
<1>2. ASSUME NEW i \in 1..Len(s) PROVE \E j \in 1..Len(Append(t, event)) : s[i].event = Append(t, event)[j]
  <2>1. PICK j \in 1..Len(t) : s[i].event = t[j]
    BY DEF InStep
  <2>2. j \in 1..Len(Append(t, event)) /\ s[i].event = Append(t, event)[j]
    BY <1>1, <2>1
  <2> QED
    BY <2>2
<1> QED
  BY <1>2 DEF InStep

\* A piece of an event that is written reaches the file.
LEMMA FileGrows ==
  ASSUME NEW s, NEW t, NEW k, NEW f, Listing(s), Listing(t), InStep(s, t, k, f),
         NEW piece, NEW known, \E j \in 1..Len(t) : piece.event = t[j],
         piece.extent # "line" => piece.event.seq \in f,
         \A m \in known : m \in k \/ (piece.extent = "line" /\ piece.event.seq = m)
  PROVE  InStep(Append(s, piece), t, known, f)
<1>1. /\ Len(Append(s, piece)) = Len(s) + 1 /\ Len(s) \in Nat
      /\ \A i \in 1..Len(s) : Append(s, piece)[i] = s[i]
      /\ Append(s, piece)[Len(s) + 1] = piece
      /\ \A i \in 1..(Len(s) + 1) : i \in 1..Len(s) \/ i = Len(s) + 1
  BY OneMore
<1> DEFINE grown == Append(s, piece)
<1>2. ASSUME NEW i \in 1..Len(grown)
      PROVE  (\E j \in 1..Len(t) : grown[i].event = t[j]) /\ (grown[i].extent # "line" => grown[i].event.seq \in f)
  <2>1. CASE i \in 1..Len(s)
    <3>1. grown[i] = s[i]
      BY <1>1, <2>1
    <3> QED
      BY <2>1, <3>1 DEF InStep
  <2>2. CASE i = Len(s) + 1
    BY <1>1, <2>2
  <2> QED
    BY <1>1, <2>1, <2>2
<1>3. ASSUME NEW m \in known
      PROVE  \E i \in 1..Len(grown) : grown[i].extent = "line" /\ grown[i].event.seq = m
  <2>1. CASE m \in k
    <3>1. PICK i \in 1..Len(s) : s[i].extent = "line" /\ s[i].event.seq = m
      BY <2>1 DEF InStep
    <3>2. i \in 1..Len(grown) /\ grown[i] = s[i]
      BY <1>1
    <3> QED
      BY <3>1, <3>2
  <2>2. CASE piece.extent = "line" /\ piece.event.seq = m
    <3>1. Len(s) + 1 \in 1..Len(grown)
      BY <1>1
    <3> QED
      BY <1>1, <2>2, <3>1
  <2> QED
    BY <2>1, <2>2
<1> QED
  BY <1>2, <1>3 DEF InStep

\* A number nobody has yet at the end of what is numbered below it.
LEMMA RecordStep ==
  ASSUME EInv, NEW w \in Writers, NEW kind, NEW text, Record(w, kind, text)
  PROVE  EInv'
<1> DEFINE r == writer[w].run
           n == writer[w].seq
<1>1. PICK event : event.seq = writer[w].seq /\
         \/ /\ writer'[w].recorded = writer[w].recorded \cup {writer[w].seq}
            /\ writer'[w].refused = writer[w].refused
            /\ writer'[w].written = Append(writer[w].written, event)
            /\ Appended(w, event, "line")
         \/ /\ writer'[w].recorded = writer[w].recorded
            /\ writer'[w].refused = writer[w].refused \cup {writer[w].seq}
            /\ \/ writer'[w].written = writer[w].written /\ log' = log
               \/ writer'[w].written = Append(writer[w].written, event) /\ log' = log
               \/ /\ writer'[w].written = Append(writer[w].written, event)
                  /\ \E extent \in Extents : Appended(w, event, extent)
  BY Recording, Zenon
<1>2. /\ Holding(w) /\ made' = made
      /\ DOMAIN writer' = Writers /\ DOMAIN writer'[w] = Fields
      /\ \A v \in Writers \ {w} : writer'[v] = writer[v]
      /\ writer'[w].run = r /\ writer'[w].seq = n + 1
  BY Recording, Zenon
<1>3. /\ r \in RunIds /\ n \in Nat
      /\ DOMAIN log = RunIds /\ Listing(log[r]) /\ Listing(writer[w].written)
  BY <1>2 DEF EInv, Shaped, Holding
<1>4. \A v \in Writers : writer'[v].run = writer[v].run
  BY <1>2
<1>5. \A v \in Writers : Holding(v)' <=> Holding(v)
  BY <1>4 DEF Holding
\* The log of a run grew by a piece of this event, or did not.
<1>6. \/ log' = log
      \/ \E extent \in Extents : log' = [log EXCEPT ![r] = Append(log[r], Piece(w, event, extent))]
  BY <1>1 DEF Appended, Extents
<1>7. ASSUME NEW i \in 1..Len(log[r]) PROVE log[r][i].by = w /\ log[r][i].event.seq \in Nat /\ log[r][i].event.seq < n
  <2>1. log[r][i].by \in Writers /\ writer[log[r][i].by].run = r
    BY <1>3 DEF EInv, Owned
  <2>2. log[r][i].by = w
    BY <1>2, <2>1 DEF EInv, Alone
  <2> QED
    BY <1>3, <2>2 DEF EInv, Owned
<1>8. DOMAIN log' = RunIds /\ \A q \in RunIds \ {r} : log'[q] = log[q]
  BY <1>3, <1>6
<1>9. \/ log'[r] = log[r]
      \/ \E extent \in Extents : log'[r] = Append(log[r], Piece(w, event, extent))
  BY <1>3, <1>6
<1>10. Shaped'
  <2>1. Listing(log'[r])
    <3>1. PICK lg : lg = log[r]
      OBVIOUS
    <3>2. ASSUME NEW line PROVE Listing(Append(lg, line))
      BY <1>3, <3>1, OneMore
    <3> QED
      BY <1>3, <1>9, <3>1, <3>2
  <2>2. Listing(writer'[w].written)
    <3>1. PICK wr : wr = writer[w].written
      OBVIOUS
    <3>2. Listing(wr) /\ Listing(Append(wr, event))
      BY <1>3, <3>1, OneMore
    <3> QED
      BY <1>1, <3>1, <3>2
  <2>3. writer'[w].run # Absent
    BY <1>2 DEF Holding
  <2>4. ASSUME NEW q \in RunIds PROVE Listing(log'[q])
    <3>1. CASE q = r
      BY <2>1, <3>1
    <3>2. CASE q # r
      <4>1. log'[q] = log[q]
        BY <1>8, <3>2
      <4> QED
        BY <4>1 DEF EInv, Shaped
    <3> QED
      BY <3>1, <3>2
  <2>5. ASSUME NEW v \in Writers
        PROVE  /\ DOMAIN writer'[v] = Fields
               /\ writer'[v].run \in RunIds \cup {Absent}
               /\ writer'[v].seq \in Nat
               /\ Listing(writer'[v].written)
               /\ writer'[v].run = Absent =>
                    writer'[v].seq = 0 /\ writer'[v].recorded = {} /\ writer'[v].written = <<>>
    <3>1. CASE v = w
      BY <1>2, <1>3, <2>2, <2>3, <3>1
    <3>2. CASE v # w
      <4>1. writer'[v] = writer[v]
        BY <1>2, <3>2
      <4> QED
        BY <4>1 DEF EInv, Shaped
    <3> QED
      BY <3>1, <3>2
  <2> QED
    BY <1>2, <1>8, <2>4, <2>5 DEF Shaped
<1>11. Alone'
  BY <1>2, <1>4, <1>5 DEF EInv, Alone
<1>12. Owned' /\ Rising'
  <2>1. ASSUME NEW q \in RunIds \ {r}, NEW i \in 1..Len(log[q])
        PROVE  /\ log[q][i].by \in Writers
               /\ writer'[log[q][i].by].run = q
               /\ log[q][i].event.seq \in Nat
               /\ log[q][i].event.seq < writer'[log[q][i].by].seq
    <3>1. /\ log[q][i].by \in Writers /\ writer[log[q][i].by].run = q
          /\ log[q][i].event.seq \in Nat
          /\ log[q][i].event.seq < writer[log[q][i].by].seq
      BY DEF EInv, Owned
    <3> QED
      BY <1>2, <3>1
  <2>2. ASSUME NEW i \in 1..Len(log'[r])
        PROVE  log'[r][i].by = w /\ log'[r][i].event.seq \in Nat /\ log'[r][i].event.seq < n + 1
    <3>1. CASE log'[r] = log[r]
      BY <1>3, <1>7, <3>1
    <3>2. ASSUME NEW extent, log'[r] = Append(log[r], Piece(w, event, extent))
          PROVE  log'[r][i].by = w /\ log'[r][i].event.seq \in Nat /\ log'[r][i].event.seq < n + 1
      <4>1. Piece(w, event, extent).by = w /\ Piece(w, event, extent).event.seq = n
        BY <1>1 DEF Piece
      <4>2. /\ Len(log'[r]) = Len(log[r]) + 1
            /\ \A k \in 1..Len(log[r]) : log'[r][k] = log[r][k]
            /\ log'[r][Len(log[r]) + 1] = Piece(w, event, extent)
            /\ \A k \in 1..(Len(log[r]) + 1) : k \in 1..Len(log[r]) \/ k = Len(log[r]) + 1
        <5>1. PICK lg, line : lg = log[r] /\ line = Piece(w, event, extent)
          OBVIOUS
        <5>2. Listing(lg)
          BY <1>3, <5>1
        <5>3. /\ Len(Append(lg, line)) = Len(lg) + 1 /\ Len(lg) \in Nat
              /\ \A k \in 1..Len(lg) : Append(lg, line)[k] = lg[k]
              /\ Append(lg, line)[Len(lg) + 1] = line
              /\ \A k \in 1..(Len(lg) + 1) : k \in 1..Len(lg) \/ k = Len(lg) + 1
          BY <5>2, OneMore
        <5> QED
          BY <3>2, <5>1, <5>3
      <4>3. CASE i \in 1..Len(log[r])
        <5>1. log'[r][i] = log[r][i]
          BY <4>2, <4>3
        <5>2. log[r][i].by = w /\ log[r][i].event.seq \in Nat /\ log[r][i].event.seq < n
          BY <1>7, <4>3
        <5> QED
          BY <1>3, <5>1, <5>2
      <4>4. CASE i = Len(log[r]) + 1
        BY <1>3, <4>1, <4>2, <4>4
      <4> QED
        BY <4>2, <4>3, <4>4
    <3> QED
      BY <1>9, <3>1, <3>2
  <2>3. ASSUME NEW i \in 1..Len(log'[r]), NEW j \in 1..Len(log'[r]), i < j
        PROVE  log'[r][i].event.seq < log'[r][j].event.seq
    <3>1. CASE log'[r] = log[r]
      BY <1>3, <2>3, <3>1 DEF EInv, Rising
    <3>2. ASSUME NEW extent, log'[r] = Append(log[r], Piece(w, event, extent))
          PROVE  log'[r][i].event.seq < log'[r][j].event.seq
      <4>1. Piece(w, event, extent).event.seq = n
        BY <1>1 DEF Piece
      <4>2. /\ Len(log'[r]) = Len(log[r]) + 1 /\ Len(log[r]) \in Nat
            /\ \A k \in 1..Len(log[r]) : log'[r][k] = log[r][k]
            /\ log'[r][Len(log[r]) + 1] = Piece(w, event, extent)
            /\ \A k \in 1..(Len(log[r]) + 1) : k \in 1..Len(log[r]) \/ k = Len(log[r]) + 1
        <5>1. PICK lg, line : lg = log[r] /\ line = Piece(w, event, extent)
          OBVIOUS
        <5>2. Listing(lg)
          BY <1>3, <5>1
        <5>3. /\ Len(Append(lg, line)) = Len(lg) + 1 /\ Len(lg) \in Nat
              /\ \A k \in 1..Len(lg) : Append(lg, line)[k] = lg[k]
              /\ Append(lg, line)[Len(lg) + 1] = line
              /\ \A k \in 1..(Len(lg) + 1) : k \in 1..Len(lg) \/ k = Len(lg) + 1
          BY <5>2, OneMore
        <5> QED
          BY <3>2, <5>1, <5>3
      <4>3. i \in 1..Len(log[r])
        BY <2>3, <4>2
      <4>4. CASE j \in 1..Len(log[r])
        BY <1>3, <2>3, <4>2, <4>3, <4>4 DEF EInv, Rising
      <4>5. CASE j = Len(log[r]) + 1
        BY <1>7, <4>1, <4>2, <4>3, <4>5
      <4> QED
        BY <4>2, <4>4, <4>5
    <3> QED
      BY <1>9, <3>1, <3>2
  <2>4. \A q \in RunIds : \A i \in 1..Len(log'[q]) :
          /\ log'[q][i].by \in Writers
          /\ writer'[log'[q][i].by].run = q
          /\ log'[q][i].event.seq \in Nat
          /\ log'[q][i].event.seq < writer'[log'[q][i].by].seq
    BY <1>2, <1>8, <2>1, <2>2
  <2>5. \A q \in RunIds \ {r} : \A i, j \in 1..Len(log'[q]) :
          i < j => log'[q][i].event.seq < log'[q][j].event.seq
    BY <1>8 DEF EInv, Rising
  <2> QED
    BY <2>3, <2>4, <2>5 DEF Owned, Rising
<1> DEFINE wr == writer[w].written
<1>13. Counted'
  <2>1. \A i \in 1..Len(wr) : wr[i].seq \in Nat /\ wr[i].seq < n
    BY DEF EInv, Counted
  <2>2. \A i, j \in 1..Len(wr) : i < j => wr[i].seq < wr[j].seq
    BY DEF EInv, Counted
  <2>3. /\ \A i \in 1..Len(writer'[w].written) :
              writer'[w].written[i].seq \in Nat /\ writer'[w].written[i].seq < n + 1
        /\ \A i, j \in 1..Len(writer'[w].written) :
              i < j => writer'[w].written[i].seq < writer'[w].written[j].seq
    <3>1. CASE writer'[w].written = wr
      BY <1>3, <2>1, <2>2, <3>1
    <3>2. CASE writer'[w].written = Append(wr, event)
      <4>1. /\ Len(Append(wr, event)) = Len(wr) + 1 /\ Len(wr) \in Nat
            /\ \A k \in 1..Len(wr) : Append(wr, event)[k] = wr[k]
            /\ Append(wr, event)[Len(wr) + 1] = event
            /\ \A k \in 1..(Len(wr) + 1) : k \in 1..Len(wr) \/ k = Len(wr) + 1
        BY <1>3, OneMore
      <4> HIDE DEF wr
      <4>2. ASSUME NEW i \in 1..(Len(wr) + 1)
            PROVE  Append(wr, event)[i].seq \in Nat /\ Append(wr, event)[i].seq < n + 1
        BY <1>1, <1>3, <2>1, <4>1
      <4>3. ASSUME NEW i \in 1..(Len(wr) + 1), NEW j \in 1..(Len(wr) + 1), i < j
            PROVE  Append(wr, event)[i].seq < Append(wr, event)[j].seq
        <5>1. i \in 1..Len(wr)
          BY <4>1, <4>3
        <5>2. CASE j \in 1..Len(wr)
          BY <2>2, <4>1, <4>3, <5>1, <5>2
        <5>3. CASE j = Len(wr) + 1
          BY <1>1, <2>1, <4>1, <5>1, <5>3
        <5> QED
          BY <4>1, <5>2, <5>3
      <4> QED
        BY <3>2, <4>1, <4>2, <4>3
    <3> QED
      BY <1>1, <3>1, <3>2
  <2>4. ASSUME NEW v \in Writers
        PROVE  /\ \A i \in 1..Len(writer'[v].written) :
                    writer'[v].written[i].seq \in Nat /\ writer'[v].written[i].seq < writer'[v].seq
               /\ \A i, j \in 1..Len(writer'[v].written) :
                    i < j => writer'[v].written[i].seq < writer'[v].written[j].seq
    <3>1. CASE v = w
      BY <1>2, <2>3, <3>1
    <3>2. CASE v # w
      <4>1. writer'[v] = writer[v]
        BY <1>2, <3>2
      <4> QED
        BY <4>1 DEF EInv, Counted
    <3> QED
      BY <3>1, <3>2
  <2> QED
    BY <2>4 DEF Counted
<1>14. Matching'
  <2>1. Matched(w)'
    <3>1. PICK s, t, k, f : s = log[r] /\ t = wr /\ k = writer[w].recorded /\ f = writer[w].refused
      OBVIOUS
    <3>2. InStep(s, t, k, f)
      BY <1>2, <3>1 DEF EInv, Matching, Matched
    <3>3. Listing(s) /\ Listing(t)
      BY <1>3, <3>1
    <3>4. PICK s2, t2, k2, f2 :
            s2 = log'[r] /\ t2 = writer'[w].written /\ k2 = writer'[w].recorded /\ f2 = writer'[w].refused
      OBVIOUS
    <3>5. \/ /\ k2 = k \cup {n} /\ f2 = f
             /\ t2 = Append(t, event) /\ s2 = Append(s, Piece(w, event, "line"))
          \/ /\ k2 = k /\ f2 = f \cup {n}
             /\ \/ t2 = t /\ s2 = s
                \/ t2 = Append(t, event) /\ s2 = s
                \/ t2 = Append(t, event) /\ \E extent \in Extents : s2 = Append(s, Piece(w, event, extent))
      BY <1>1, <1>3, <3>1, <3>4 DEF Appended
    <3>6. Listing(Append(t, event)) /\ \E j \in 1..Len(Append(t, event)) : event = Append(t, event)[j]
      <4>1. /\ Listing(Append(t, event)) /\ Len(Append(t, event)) = Len(t) + 1 /\ Len(t) \in Nat
            /\ Append(t, event)[Len(t) + 1] = event
        BY <3>3, OneMore
      <4>2. Len(t) + 1 \in 1..Len(Append(t, event))
        BY <4>1
      <4> QED
        BY <4>1, <4>2
    <3>7. PICK num : num = n
      OBVIOUS
    <3>8. ASSUME k2 = k, f2 = f \cup {n}, t2 = t, s2 = s
          PROVE  InStep(s2, t2, k2, f2)
      BY <3>2, <3>8 DEF InStep
    <3>9. InStep(s, Append(t, event), k, f) /\ InStep(s, Append(t, event), k, f \cup {num})
      BY <3>2, <3>3, WrittenGrows
    <3>10. ASSUME NEW extent, k2 = k, f2 = f \cup {n}, t2 = Append(t, event), s2 = Append(s, Piece(w, event, extent))
           PROVE  InStep(s2, t2, k2, f2)
      <4>1. PICK piece : piece = Piece(w, event, extent)
        OBVIOUS
      <4>2. piece.event = event /\ piece.event.seq \in f \cup {num}
        BY <1>1, <3>7, <4>1 DEF Piece
      <4>3. InStep(Append(s, piece), Append(t, event), k, f \cup {num})
        BY <3>3, <3>6, <3>9, <4>2, FileGrows
      <4> QED
        BY <3>7, <3>10, <4>1, <4>3
    <3>11. ASSUME k2 = k \cup {n}, f2 = f, t2 = Append(t, event), s2 = Append(s, Piece(w, event, "line"))
           PROVE  InStep(s2, t2, k2, f2)
      <4>1. PICK piece : piece = Piece(w, event, "line")
        OBVIOUS
      <4>2. piece.event = event /\ piece.event.seq = num /\ piece.extent = "line"
        BY <1>1, <3>7, <4>1 DEF Piece
      <4>3. \A m \in k \cup {num} : m \in k \/ (piece.extent = "line" /\ piece.event.seq = m)
        BY <4>2
      <4>4. InStep(Append(s, piece), Append(t, event), k \cup {num}, f)
        BY <3>3, <3>6, <3>9, <4>2, <4>3, FileGrows
      <4> QED
        BY <3>7, <3>11, <4>1, <4>4
    <3>12. ASSUME k2 = k, f2 = f \cup {n}, t2 = Append(t, event), s2 = s
           PROVE  InStep(s2, t2, k2, f2)
      BY <3>7, <3>9, <3>12
    <3> QED
      BY <1>2, <3>4, <3>5, <3>8, <3>10, <3>11, <3>12 DEF Matched
  <2>2. ASSUME NEW v \in Writers \ {w}, Holding(v)'
        PROVE  Matched(v)'
    <3>1. writer'[v] = writer[v] /\ Holding(v)
      BY <1>2, <1>5, <2>2
    <3>2. writer[v].run # r /\ writer[v].run \in RunIds
      BY <1>2, <3>1 DEF EInv, Alone, Shaped, Holding
    <3>3. log'[writer[v].run] = log[writer[v].run]
      BY <1>8, <3>2
    <3>4. Matched(v)
      BY <3>1 DEF EInv, Matching
    <3> QED
      BY <3>1, <3>3, <3>4 DEF Matched
  <2> QED
    BY <2>1, <2>2 DEF Matching
<1> QED
  BY <1>10, <1>11, <1>12, <1>13, <1>14 DEF EInv

-----------------------------------------------------------------------------
LEMMA EInvInit ==
  ASSUME Init PROVE EInv
<1>1. Shaped
  BY EmptyIsAListing DEF Init, NotOpen, Shaped, Fields
<1>2. Alone /\ Matching
  BY DEF Init, NotOpen, Alone, Matching, Holding
<1>3. \A r \in RunIds : log[r] = <<>>
  BY DEF Init
<1>4. Owned /\ Rising
  BY <1>3, EmptyIsAListing DEF Owned, Rising
<1>5. \A w \in Writers : writer[w].written = <<>>
  BY DEF Init, NotOpen
<1>6. Counted
  BY <1>5, EmptyIsAListing DEF Counted
<1> QED
  BY <1>1, <1>2, <1>4, <1>6 DEF EInv

LEMMA EInvStep ==
  ASSUME EInv, [Next]_vars PROVE EInv'
<1>1. ASSUME NEW w \in Writers, NEW run \in RunIds, Open(w, run) PROVE EInv'
  BY <1>1, OpenStep
<1>2. ASSUME NEW w \in Writers, NEW kind, NEW text, Record(w, kind, text) PROVE EInv'
  BY <1>2, RecordStep
<1>3. ASSUME NEW w \in Writers, NEW value,
             Redact(w, value) \/ Declassify(w, value) \/ ProtectDiagnostics(w)
      PROVE  EInv'
  BY <1>3, LearningStep
<1>4. CASE UNCHANGED vars
  <2>1. DOMAIN writer' = Writers /\ \A w \in Writers : Still(w)
    BY <1>4 DEF EInv, Shaped, Still, vars
  <2> QED
    BY <1>4, <2>1, StillStep DEF vars
<1> QED
  BY <1>1, <1>2, <1>3, <1>4 DEF Next

LEMMA EInvAlways == Spec => []EInv
<1>1. Init => EInv
  BY EInvInit
<1>2. EInv /\ [Next]_vars => EInv'
  BY EInvStep
<1> QED
  BY <1>1, <1>2, PTL DEF Spec

-----------------------------------------------------------------------------
\* One log is one session's, and its numbers only go up: no two writers hold one
\* run id, whatever is started on it (EvidenceWriter.ts, the directory of a run).
THEOREM EvidenceKeepsSessionsApart == Spec => []OneSessionInOrder
<1>1. ASSUME EInv PROVE OneSessionInOrder
  <2>1. ASSUME NEW r \in RunIds, NEW i \in DOMAIN log[r], NEW j \in DOMAIN log[r], i < j
        PROVE  log[r][i].by = log[r][j].by /\ log[r][i].event.seq < log[r][j].event.seq
    <3>1. i \in 1..Len(log[r]) /\ j \in 1..Len(log[r])
      <4>1. PICK s : s = log[r]
        OBVIOUS
      <4>2. Listing(s)
        BY <1>1, <4>1 DEF EInv, Shaped
      <4>3. DOMAIN s = 1..Len(s)
        BY <4>2, OneMore
      <4> QED
        BY <4>1, <4>3
    <3>2. /\ log[r][i].by \in Writers /\ writer[log[r][i].by].run = r
          /\ log[r][j].by \in Writers /\ writer[log[r][j].by].run = r
      BY <1>1, <3>1 DEF EInv, Owned
    <3>3. log[r][i].by = log[r][j].by
      BY <1>1, <3>2, AbsentAssumption DEF EInv, Alone, Holding
    <3> QED
      BY <1>1, <2>1, <3>1, <3>3 DEF EInv, Rising
  <2> QED
    BY <2>1 DEF OneSessionInOrder
<1> QED
  BY <1>1, EInvAlways, PTL

\* What a caller was told is recorded is in the file to its newline, and on a line
\* that can be read unless it follows a piece whose caller was told that it failed;
\* nothing is in a file that its writer did not write (EvidenceWriter.ts, record and
\* written), wherever an append fails.
THEOREM EvidenceAnswersAgree == Spec => []LogAgreesWithAnswers
<1>1. ASSUME EInv PROVE LogAgreesWithAnswers
  <2>1. ASSUME NEW w \in Writers, Holding(w)
        PROVE  LET file == log[writer[w].run]
               IN /\ \A n \in writer[w].recorded : \E i \in DOMAIN file :
                       /\ file[i].event.seq = n /\ file[i].extent = "line"
                       /\ Readable(file, i) \/ file[i - 1].event.seq \in writer[w].refused
                  /\ \A i \in DOMAIN file : \E j \in DOMAIN writer[w].written :
                       file[i].event = writer[w].written[j]
                  /\ \A i, j \in DOMAIN writer[w].written :
                       i < j => writer[w].written[i].seq < writer[w].written[j].seq
    <3>1. PICK s, t, k, f : /\ s = log[writer[w].run] /\ t = writer[w].written
                            /\ k = writer[w].recorded /\ f = writer[w].refused
      OBVIOUS
    <3>2. Listing(s) /\ Listing(t)
      BY <1>1, <2>1, <3>1 DEF EInv, Shaped, Holding
    <3>3. DOMAIN s = 1..Len(s) /\ DOMAIN t = 1..Len(t) /\ Len(s) \in Nat
      BY <3>2, OneMore
    <3>4. InStep(s, t, k, f)
      BY <1>1, <2>1, <3>1 DEF EInv, Matching, Matched
    <3>5. \A i, j \in 1..Len(t) : i < j => t[i].seq < t[j].seq
      BY <1>1, <3>1 DEF EInv, Counted
    <3>6. ASSUME NEW n \in k
          PROVE  \E i \in DOMAIN s : /\ s[i].event.seq = n /\ s[i].extent = "line"
                                     /\ Readable(s, i) \/ s[i - 1].event.seq \in f
      <4>1. PICK i \in 1..Len(s) : s[i].extent = "line" /\ s[i].event.seq = n
        BY <3>4 DEF InStep
      <4>2. CASE i = 1
        BY <3>3, <4>1, <4>2 DEF Readable
      <4>3. CASE i # 1
        <5>1. i - 1 \in 1..Len(s)
          BY <3>3, <4>3
        <5>2. s[i - 1].extent = "line" \/ s[i - 1].event.seq \in f
          BY <3>4, <5>1 DEF InStep
        <5> QED
          BY <3>3, <4>1, <5>2 DEF Readable
      <4> QED
        BY <4>2, <4>3
    <3>7. \A i \in DOMAIN s : \E j \in DOMAIN t : s[i].event = t[j]
      BY <3>3, <3>4 DEF InStep
    <3> QED
      BY <3>1, <3>3, <3>5, <3>6, <3>7
  <2> QED
    BY <2>1 DEF LogAgreesWithAnswers
<1> QED
  BY <1>1, EInvAlways, PTL

=============================================================================
