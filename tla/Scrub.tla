------------------------------- MODULE Scrub -------------------------------
(***************************************************************************)
(* Taking known values out of text.  A text is a sequence of marks: a mark *)
(* is a character, an encoded space, a quotation mark, a quotation mark as *)
(* a quotation writes it, or a placeholder.  A value is a text and the     *)
(* label that stands in its place.                                         *)
(***************************************************************************)
EXTENDS Integers, SequencesExt

Space == " "
PercentSpace == "%20"
PlusSpace == "+"
PercentQuote == "%22"
Quote == "quote"
Escaped == "escaped quote"
TwiceEscaped == "twice escaped quote"

PlaceholderFor(label) == "[redacted:" \o label \o "]"

Each(text, F(_)) == [i \in DOMAIN text |-> F(text[i])]

PercentEncoded(text) ==
  Each(text, LAMBDA mark : IF mark = Space THEN PercentSpace
                           ELSE IF mark = Quote THEN PercentQuote ELSE mark)

FormEncoded(text) ==
  Each(PercentEncoded(text), LAMBDA mark : IF mark = PercentSpace THEN PlusSpace ELSE mark)

\* How many characters a text has.
Size(text) ==
  Len(text) + 2 * Cardinality({i \in DOMAIN text : text[i] \in {PercentSpace, PercentQuote}})

\* What a quotation writes, read back, and written again.
Decode(text) ==
  Each(text, LAMBDA mark : IF mark = Escaped THEN Quote
                           ELSE IF mark = TwiceEscaped THEN Escaped ELSE mark)

Encode(text) ==
  Each(text, LAMBDA mark : IF mark = Quote THEN Escaped
                           ELSE IF mark = Escaped THEN TwiceEscaped ELSE mark)

-----------------------------------------------------------------------------
\* What is looked for

Spellings(value) == <<value.text, PercentEncoded(value.text), FormEncoded(value.text)>>

\* Every spelling of the values that have a text, numbered as they are given,
\* each once, under the label it was first given.
Needles(values) ==
  LET spelled == {[find |-> Spellings(values[i])[k], replace |-> PlaceholderFor(values[i].label),
                   given |-> 3 * i + k] : i \in {j \in DOMAIN values : values[j].text # <<>>},
                                          k \in 1..3}
  IN {needle \in spelled :
        \A other \in spelled : other.find = needle.find => needle.given <= other.given}

\* Longest first; those of one length in the order they were given.
Sooner(needle, other) ==
  \/ Size(needle.find) > Size(other.find)
  \/ Size(needle.find) = Size(other.find) /\ needle.given < other.given

-----------------------------------------------------------------------------
\* Where it is found

Occurs(find, text, at) ==
  at + Len(find) - 1 <= Len(text) /\ SubSeq(text, at, at + Len(find) - 1) = find

\* Of what there is, what nothing chosen bars.
Chosen(all, bars) ==
  LET chosen[x \in all] == \A y \in all : <<y, x>> \in bars => ~chosen[y]
  IN {x \in all : chosen[x]}

\* The search goes on where the last occurrence ended.
Found(find, text) ==
  LET all == {i \in DOMAIN text : Occurs(find, text, i)}
  IN Chosen(all, {b \in all \X all : b[1] < b[2] /\ b[2] < b[1] + Len(find)})

Span(start, end, text) == [start |-> start, end |-> end, text |-> text]

Crosses(span, other) == span.start < other.end /\ span.end > other.start

Places(needles, text) ==
  UNION {{[needle |-> n, span |-> Span(i, i + Len(n.find), <<n.replace>>)] :
            i \in Found(n.find, text)} : n \in needles}

\* What is found is chosen against the text as it was, an occurrence that
\* crosses a chosen one left out.
RawSpans(needles, text) ==
  LET all == Places(needles, text)
  IN {p.span : p \in Chosen(all, {b \in all \X all : /\ Sooner(b[1].needle, b[2].needle)
                                                   /\ Crosses(b[1].span, b[2].span)})}

\* From a quotation mark, one already inside a quotation included, to the next
\* that is not.
Quotations(text) ==
  {s \in {Span(i, j + 1, <<>>) : i \in 1..Len(text), j \in 1..Len(text)} :
     /\ s.start + 1 < s.end
     /\ text[s.start] \in {Quote, Escaped, TwiceEscaped} /\ text[s.end - 1] = Quote
     /\ \A k \in (s.start + 1)..(s.end - 2) : text[k] # Quote}

Content(text, span) == Decode(SubSeq(text, span.start + 1, span.end - 2))

Contents(text) == {Content(text, q) : q \in Quotations(text)}

\* A fault: a quotation a value was found in needs no more looking at.
Covers_Touching(span, other) == Crosses(span, other)

Covers(span, other) == span.start <= other.start /\ span.end >= other.end

\* A quotation that says a value is quoted again without it. inner is what is
\* left of each content.
QuotedSpans(text, raw, inner) ==
  {Span(q.start, q.end, <<text[q.start]>> \o Encode(inner[Content(text, q)]) \o <<Quote>>) :
     q \in {s \in Quotations(text) :
              /\ ~\E span \in raw : Covers(span, s)
              /\ inner[Content(text, s)] # Content(text, s)}}

-----------------------------------------------------------------------------
\* What takes its place

\* Crossing spans are one, and nothing of either is kept.
Merged(spans) ==
  LET edge(i) == \A s \in spans : ~(s.start < i /\ i < s.end)
      whole   == {s \in spans : edge(s.start) /\ edge(s.end)}
      between(c) == /\ c.start < c.end /\ edge(c.start) /\ edge(c.end)
                    /\ \A i \in (c.start + 1)..(c.end - 1) : ~edge(i)
  IN whole \cup {c \in {Span(s.start, e.end, <<PlaceholderFor("overlapping-values")>>) :
                         s \in spans, e \in spans} :
                    between(c) /\ \A s \in whole : s.start # c.start}

From(merged, at) == CHOOSE m \in merged : m.start = at

Replaced(text, merged) ==
  LET rest[i \in 1..(Len(text) + 1)] ==
        IF i > Len(text) THEN <<>>
        ELSE IF \A m \in merged : m.start # i THEN <<text[i]>> \o rest[i + 1]
        ELSE From(merged, i).text \o rest[From(merged, i).end]
  IN rest[1]

ScrubWith(needles, text, inner) ==
  LET raw == RawSpans(needles, text)
  IN Replaced(text, Merged(raw \cup QuotedSpans(text, raw, inner)))

\* A quotation inside a quotation inside a quotation is as deep as a text goes.
Innermost(needles, text) == ScrubWith(needles, text, [u \in Contents(text) |-> u])

Inner(needles, text) ==
  ScrubWith(needles, text, [u \in Contents(text) |-> Innermost(needles, u)])

Scrubbed(values, text) ==
  ScrubWith(Needles(values), text, [u \in Contents(text) |-> Inner(Needles(values), u)])

=============================================================================
