---------------------------- MODULE Publication ----------------------------
(***************************************************************************)
(* What publishing a zone promises, without the requests, the broker, the  *)
(* workers and the sidecar between the tables and the name server: tables  *)
(* only move on, a zone file is put together from committed versions of    *)
(* its tables, and the name server answers from a whole file as it was in  *)
(* the bucket at one moment, or not at all.  Neither is promised to be the *)
(* latest; that is what the history variables of ZonePublication are for.  *)
(***************************************************************************)
EXTENDS Naturals

CONSTANTS Zones, Tables

VARIABLES
    db,     \* db[z][t]: version of table t of zone z, 0 before it exists
    file,   \* file[z][t]: the version in the zone file
    served  \* served[z][t]: the version the name server answers from

vars == <<db, file, served>>

Nothing == [t \in Tables |-> 0]

Init ==
    /\ db \in [Zones -> [Tables -> Nat]]
    /\ file = db
    /\ served = db

\* Somebody changes records, of a zone and of the reverse zones that list them.
Edit ==
    /\ db' = [z \in Zones |-> db'[z]]
    /\ \A z \in Zones, t \in Tables : db'[z][t] >= db[z][t]
    /\ UNCHANGED <<file, served>>

\* A zone file is replaced by one made of committed tables, old or new.
Publish(z) ==
    /\ \A t \in Tables : file'[z][t] \in 0 .. db[z][t]
    /\ file' = [file EXCEPT ![z] = file'[z]]
    /\ UNCHANGED <<db, served>>

\* The name server takes over whole files, and drops zones.
Load ==
    /\ served' = [z \in Zones |-> served'[z]]
    /\ \A z \in Zones : served'[z] \in {served[z], file[z], Nothing}
    /\ UNCHANGED <<db, file>>

Next == Edit \/ Load \/ \E z \in Zones : Publish(z)

Spec == Init /\ [][Next]_vars
============================================================================
