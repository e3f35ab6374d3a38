----------------------------- MODULE MCZoneNames -----------------------------
EXTENDS ZoneNames, TLC

CONSTANTS domain, sub
MCNames == {domain, sub}
MCGeneric == domain :> {domain} @@ sub :> {domain, sub}
MCCreates == {<<domain, "secondary">>, <<sub, "forward">>}
MCAdminCreates == {<<domain, "secondary">>}
==============================================================================
