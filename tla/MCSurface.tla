----------------------------- MODULE MCSurface -----------------------------
EXTENDS Surface

CONSTANTS Core, Else, Member

Url(scheme, host, path) == [scheme |-> scheme, host |-> host, port |-> Unwritten, path |-> path]

MCBlank == Url("about", <<>>, <<>>)
MCData == Url("data", <<>>, <<>>)
MCStart == Url("https", <<Core>>, <<>>)

\* A page of the application, and one of another host.
MCAddresses == {Url("https", <<Core>>, <<Member>>), Url("https", <<Else>>, <<>>)}

MCPatterns == {[scheme |-> "https", subdomains |-> FALSE, host |-> <<Core>>, port |-> Unwritten]}
=============================================================================
