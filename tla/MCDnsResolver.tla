--------------------------- MODULE MCDnsResolver ---------------------------
(* Three servers, one of each transport, of which ResolveAll asks two, and *)
(* answers of one or two addresses, with a CNAME, twice, or with none.     *)
EXTENDS DnsResolver

MCTransports == <<"udp", "doh", "dot">>
MCResponses == {<<CName>>, <<CName, "a", "a">>, <<"a", "b">>, <<"b">>}
=============================================================================
