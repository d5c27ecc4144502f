------------------------------ MODULE MCPolicy ------------------------------
EXTENDS Policy

CONSTANTS Core, Tenant, Else   \* labels of host names

Url(scheme, host, port) == [scheme |-> scheme, host |-> host, port |-> port, path |-> <<"member">>]
Pattern(scheme, subdomains, host, port) ==
  [scheme |-> scheme, subdomains |-> subdomains, host |-> host, port |-> port]

\* The application on a port of its own, a tenant under a shared domain, and a
\* line nobody can read.
MCSources ==
  {Pattern("http", FALSE, <<Core>>, AnyPort), Pattern("https", TRUE, <<Core>>, Unwritten), None}

\* Listed or not by scheme, host, subdomain or port.
Urls ==
  {Url("http", <<Core>>, 4173), Url("https", <<Core>>, Unwritten),
   Url("https", <<Tenant, Core>>, Unwritten), Url("https", <<Tenant, Core>>, 8443),
   Url("https", <<Else>>, Unwritten), Url("about", <<>>, Unwritten), None}

MCRequests ==
  [type : {"click"}, subject : {None}, page : Urls, mode : MODES]
  \cup [type : {"navigate"}, subject : Urls,
        page : {None, Url("http", <<Core>>, 4173), Url("https", <<Else>>, Unwritten)}, mode : MODES]
  \cup [type : {"extract", "shell"}, subject : {None}, page : {Url("http", <<Core>>, 4173)}, mode : MODES]

MCConsultations == [page : Urls, mode : MODES]

Entry(type, because) == [type |-> type, because |-> because]

MCDocuments ==
  {[origins |-> origins, actions |-> <<Entry("navigate", 0), Entry("click", 60), Entry("extract", 0)>>,
    assist |-> 60, modes |-> [replay |-> replay, discovery |-> None]] :
     origins \in {{Pattern("http", FALSE, <<Core>>, AnyPort)},
                  {Pattern("http", FALSE, <<Core>>, AnyPort), Pattern("https", TRUE, <<Core>>, Unwritten)}},
     replay \in {None, {"navigate"}, {"click", "navigate"}}}
=============================================================================
