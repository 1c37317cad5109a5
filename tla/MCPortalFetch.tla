---- MODULE MCPortalFetch ----
EXTENDS PortalFetch, Integers

Sector(size, metadata, fanout) ==
    [size |-> size, metadata |-> metadata, fanout |-> fanout,
     fields |-> {"Filename", "Length"}, filename |-> <<"f">>]

\* a and b are small; c fills the largest fetch size of mode 0, d is a byte
\* longer; e has a fanout; f claims more than its link fetches; g, h and i are
\* the largest upload, a larger one, and one with too much metadata; j has a path
\* that leads upwards, k a default path.
MCLayout ==
    [a |-> Sector(3000, 50, 0), b |-> Sector(3900, 90, 0),
     c |-> Sector(32768 - 149, 50, 0), d |-> Sector(32769 - 149, 50, 0),
     e |-> Sector(1000, 50, 64), f |-> Sector(9000, 50, 0),
     g |-> Sector(4000000, 50, 0), h |-> Sector(4000001, 50, 0), i |-> Sector(4000000, 194206, 0),
     j |-> [Sector(1000, 50, 0) EXCEPT !.filename = <<"d", "..", "f">>],
     k |-> [Sector(1000, 50, 0) EXCEPT !.fields = @ \cup {"DefaultPath"}]]

Resolver == <<"resolver", 0, 0>>

Second == <<"second", 0, 0>>

ResolverLink(root) == [bitfield |-> 1, root |-> root]

Proof(id, link) == [entryID |-> id, signed |-> TRUE, data |-> link, key |-> "good"]

\* Null, or null for the public key.
NullProof == [entryID |-> NoRoot, signed |-> FALSE, data |-> NoLink, key |-> "null"]

MCProofs ==
    LET last == Proof(Resolver, UploadedLink("a"))
    IN  {<<>>, <<last>>, <<NullProof>>, <<[last EXCEPT !.key = "bad"]>>, <<Proof(Second, UploadedLink("a"))>>,
         <<[last EXCEPT !.signed = FALSE], NullProof>>,
         <<Proof(Resolver, ResolverLink(Second)), Proof(Second, UploadedLink("a"))>>,
         <<Proof(Resolver, ResolverLink(Second))>>}

NewCall(op, sector, link) ==
    [op |-> op, sector |-> sector, link |-> link, entryLength |-> 34, revision |-> 0,
     form |-> "whole"]

Downloads == {"secureDownload", "downloadSkylink"}

MCCalls ==
    {NewCall("downloadSkylink", s, UploadedLink(s)) : s \in {"a", "c", "d"}}
        \cup {NewCall("secureDownload", "a", UploadedLink("a")),
              NewCall("downloadSkylink", "e", [bitfield |-> 0, root |-> SectorRoot("e")]),
              NewCall("downloadSkylink", "f", [bitfield |-> 0, root |-> SectorRoot("f")]),
              NewCall("secureDownload", "a", NoLink),
              NewCall("downloadSkylink", "a", ResolverLink(Resolver))}
        \cup {NewCall(op, s, NoLink) : op \in {"secureUpload", "nodeUpload"}, s \in {"c", "g", "h", "i", "j", "k"}}
        \cup {NewCall(op, "a", NoLink) : op \in {"readEntry", "nodeRead", "overwriteRead", "writeEntry"}}
        \cup {[NewCall(op, "a", NoLink) EXCEPT !.entryLength = 87] : op \in {"writeEntry", "overwriteRead"}}
        \cup {[NewCall("writeEntry", "a", NoLink) EXCEPT !.revision = r] : r \in {-1, 15, 16}}
        \cup {[NewCall(op, "a", NoLink) EXCEPT !.form = form] :
                op \in {"secureDownload", "secureUpload", "readEntry", "writeEntry"},
                form \in {"incomplete", "none"}}

MCPortals == <<"p1", "p2", "p3">>
==============================
