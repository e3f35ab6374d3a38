--------------------------- MODULE MCRecordUpdate ---------------------------
(* Small instances of RecordUpdate for TLC.                                  *)
EXTENDS RecordUpdate, TLC

host == "_acme-challenge"
rr(c, n, t, d) == [class |-> c, name |-> n, type |-> t, data |-> d]
msg(k, r, pre, ups) == [key |-> [type |-> k, restrict |-> r], pre |-> pre, ups |-> ups]

\* Claiming a name, challenges, replacing an RRset, and each kind of deletion;
\* keys of both types, one of them restricted; the apex.
MCMessages ==
    {msg("unlimited", "@", <<rr("NONE", host, "ANY", 1)>>,
         <<rr("IN", host, "A", 1), rr("IN", host, "DHCID", 1)>>),
     msg("unlimited", "@", <<rr("ANY", host, "TXT", 1), rr("IN", host, "A", 1)>>,
         <<rr("ANY", host, "A", 1), rr("IN", host, "AAAA", 2)>>),
     msg("unlimited", host, <<>>, <<rr("ANY", host, "ANY", 1), rr("IN", host, "CNAME", 1)>>),
     msg("unlimited", "@", <<rr("ANY", "@", "ANY", 1)>>, <<rr("IN", "@", "TXT", 1)>>),
     msg("acme", "@", <<rr("NONE", host, "CNAME", 1)>>,
         <<rr("IN", host, "TXT", 1), rr("NONE", host, "TXT", 1)>>),
     msg("acme", host, <<>>, <<rr("ANY", host, "ANY", 1)>>)}

MCCnames == {msg("unlimited", "@", <<>>, <<rr("IN", host, "CNAME", d)>>) : d \in {1, 2}}

row(i, n, t, d) == [id |-> i, name |-> n, type |-> t, data |-> d]
MCInitial ==
    {{},
     {row(1, host, "A", 1), row(2, host, "AAAA", 1), row(3, host, "TXT", 1),
      row(4, host, "SSHFP", 1)},
     {row(1, "*", "TXT", 1), row(2, "@", "TXT", 1), row(3, host, "DNSKEY", 1)}}

entry(n, t, d) == [name |-> n, type |-> t, data |-> d]
MCEntries == {entry(host, "CNAME", 1), entry(host, "AAAA", 2)}

Symmetry == Permutations(Updaters)

==============================================================================
