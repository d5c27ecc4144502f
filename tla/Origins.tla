------------------------------ MODULE Origins ------------------------------
(***************************************************************************)
(* What an allowed origin means.  A URL is what the URL parser made of a   *)
(* text: its scheme, its host as the sequence of its labels, its port      *)
(* (Unwritten when it is the scheme's own) and its path; None is a text    *)
(* that is no absolute URL, and the absence of one.  A line of the         *)
(* allowlist is a pattern as written, or a text that is no pattern.        *)
(***************************************************************************)
EXTENDS Integers, SequencesExt

CONSTANTS None, Unwritten, AnyPort

WebSchemes == {"http", "https"}

DefaultPort == [http |-> 80, https |-> 443]

IsWeb(url) == url # None /\ url.scheme \in WebSchemes

\* The scheme, host and port of a web address; nothing else has an origin.
OriginOf(url) ==
  IF IsWeb(url)
  THEN [scheme |-> url.scheme, host |-> url.host, port |-> url.port, path |-> <<>>]
  ELSE None

\* A line is understood only in the shape scheme://host, optionally *. and a port.
IsPattern(source) == source # None

\* What a line means: a port that is not written is the scheme's own.
ParseOriginPattern(source) ==
  [source EXCEPT !.port = IF @ = Unwritten THEN DefaultPort[source.scheme] ELSE @]

PortOf(url) == IF url.port = Unwritten THEN DefaultPort[url.scheme] ELSE url.port

\* A wildcard covers the hosts under the one it names, and not that one.
OriginMatches(pattern, url) ==
  /\ url # None
  /\ url.scheme = pattern.scheme
  /\ IF pattern.subdomains
     THEN IsStrictSuffix(pattern.host, url.host)
     ELSE url.host = pattern.host
  /\ pattern.port \in {AnyPort, PortOf(url)}

\* Patterns are a set: which of several matched is only named in the reason.
AllowedBy(patterns, url) == \E pattern \in patterns : OriginMatches(pattern, url)

=============================================================================
