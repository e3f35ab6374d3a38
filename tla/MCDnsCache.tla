------------------------------ MODULE MCDnsCache ------------------------------
(* Small instances of DnsCache for TLC.                                      *)
EXTENDS DnsCache, TLC

\* Queries differ in nothing but their identity.
Symmetry == Permutations(Queries)

==============================================================================
