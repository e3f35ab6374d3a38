------------------------------ MODULE AxfrServer ------------------------------
(***************************************************************************)
(* The zone transfer server (axfr/src/main.rs), the two queries it makes   *)
(* of Django (dns_grpc/axfr.py), and the rows of a zone they read and save *)
(* (secrets, IP ACLs and NOTIFY targets, edited in views/fzone.py).        *)
(*                                                                         *)
(* There is one zone.  Each target is a secondary of a customer with one   *)
(* TCP connection; those in signed use TSIG, the others an IP ACL.  A      *)
(* version of the zone is its serial, a record a version and a place.      *)
(* A MAC is what it was computed over: the previous MAC and the message.   *)
(*                                                                         *)
(* This module has no next-state relation of its own: NotifyChain adds     *)
(* what writes the zone file and what wakes the secondaries.               *)
(***************************************************************************)
EXTENDS Naturals, Sequences

CONSTANTS
    Targets,      \* secondary servers of the customer
    Handlers,     \* concurrent requests of the web interface
    NumRecords,   \* records of the zone beside its SOA
    Capacity,     \* of the channel to the writer of a connection (1024)
    MaxEvents     \* bound: updates, edits and faults

ASSUME TargetsAssumption == Targets # {}
ASSUME LimitsAssumption ==
    NumRecords \in Nat /\ Capacity \in Nat \ {0} /\ MaxEvents \in Nat

VARIABLES
    signed,    \* targets whose owner has configured TSIG
    local,     \* the Knot server next to it: version, what it is told and tells
    file,      \* the zone file of Knot: a version, what the parser makes of it
    rows,      \* rows[k]: the row for key k
    wanted,    \* history: rows[k] as the last form left it
    raced,     \* history: keys changed between a read and a save of the server
    held,      \* held[h]: the row a form has loaded
    conn,      \* conn[t]: the task handling the connection of t
    chan,      \* chan[t]: answers in the channel and on the wire
    client,    \* client[t]: the secondary
    copy,      \* copy[t]: the zone as the secondary serves it
    wake,      \* targets with a NOTIFY they have not acted on
    missed,    \* history: targets whose last NOTIFY came to nothing
    events     \* updates, edits and faults so far

rowVars == <<rows, wanted, raced, held>>
connVars == <<conn, chan, client, copy>>
axfrVars == <<signed, local, file, rowVars, connVars, wake, missed, events>>

Event == events < MaxEvents /\ events' = events + 1

------------------------------------------------------------------------------
(* DNSZoneAXFRSecrets or DNSZoneAXFRIPACL of a target ("access"), and its    *)
(* DNSZoneAXFRNotify ("notify").  "off" is a row whose address does not      *)
(* cover the target, or whose server does not resolve.                       *)

Keys == {"access", "notify"} \X Targets
Values == {"absent", "on", "off"}
NoForm == [op |-> "none"]

\* A form is opened on a row that exists, or on a new one.
open_form(h, k, op) ==
    /\ held[h] = NoForm
    /\ (op = "create") = (rows[k] = "absent")
    /\ Event
    /\ held' = [held EXCEPT ![h] = [op |-> op, key |-> k]]
    /\ UNCHANGED <<signed, local, file, rows, wanted, raced, connVars, wake, missed>>

\* History: the key changes under a task of the server that will save it.
Race(k) == IF \E t \in Targets : conn[t].pc = "touch" /\ k = <<"access", t>>
           THEN raced \cup {k} ELSE raced

\* save() of what was loaded and edited, which inserts a missing row; delete().
submit_form(h, value) ==
    /\ held[h] # NoForm
    /\ (value = "absent") = (held[h].op = "delete")
    /\ LET k == held[h].key IN
       /\ rows' = [rows EXCEPT ![k] = value]
       /\ wanted' = [wanted EXCEPT ![k] = value]
       /\ raced' = Race(k)
    /\ held' = [held EXCEPT ![h] = NoForm]
    /\ UNCHANGED <<signed, local, file, connVars, wake, missed, events>>

------------------------------------------------------------------------------
(* Messages, signatures and the zone file.                                   *)

Soa(v) == [kind |-> "soa", version |-> v]
Rr(v, i) == [kind |-> "rr", version |-> v, place |-> i]
Error(code) == [kind |-> "error", code |-> code]
NoMac == <<>>

Queries == {"soa", "axfr", "other"}
Message ==
    [kind : {"soa"}, version : Nat]
      \cup [kind : {"rr"}, version : Nat, place : 1 .. NumRecords]
      \cup [kind : {"error"}, code : {"refused", "servfail", "badsig", "badtime", "badalg"}]
      \cup [kind : {"query"}, query : Queries]
Macs == Seq([over : Message, whole : BOOLEAN])

\* sign_message: the chain hash, this message, and the whole TSIG (first) or
\* only its time.
Mac(hash, m, first) == hash \o <<[over |-> m, whole |-> first]>>

\* The MAC of the query, over which the first answer is signed.
QueryMac(query) == Mac(NoMac, [kind |-> "query", query |-> query], TRUE)

Records(v) == {Rr(v, i) : i \in 1 .. NumRecords}

\* What Parser::parse and the removal of the SOA make of a file.  A type that
\* from_str does not know, such as DNAME, is an error ("bad"); KEY and NSEC are
\* unimplemented!().
Parse(f) == CASE f.kind = "good"  -> "ok"
              [] f.kind = "panic" -> "panic"
              [] OTHER            -> "servfail"

\* Mutant: the second SOA is forgotten.
Answers_unclosed(query, v) ==
    IF query = "soa" THEN <<Soa(v)>>
    ELSE <<Soa(v)>> \o [i \in 1 .. NumRecords |-> Rr(v, i)]

\* The answers to a query: its SOA, or the zone between two copies of it.
\* The records come in the order of the parser's map.
Answers(query, v) ==
    IF query = "soa" THEN <<Soa(v)>>
    ELSE <<Soa(v)>> \o [i \in 1 .. NumRecords |-> Rr(v, i)] \o <<Soa(v)>>

------------------------------------------------------------------------------
(* handle_request.  It waits for Django and for room in the channel; the     *)
(* file is read once, before both.                                           *)

Connection ==
    [pc : {"idle", "request", "lookup", "touch", "send"}, query : Queries \cup {"none"},
     sig : {"none", "good", "malformed", "late", "badmac", "badalg"}, row : Values,
     todo : Seq(Message), hash : Macs, first : BOOLEAN, broken : BOOLEAN]
Packet == [msg : Message, mac : Macs]

Idle == [pc |-> "idle", query |-> "none", sig |-> "none", row |-> "absent",
         todo |-> <<>>, hash |-> NoMac, first |-> TRUE, broken |-> FALSE]
Finish(t) == conn' = [conn EXCEPT ![t] = Idle]

\* send_response.  Nobody reads what is sent on a connection that broke.
Send(t, m, mac) ==
    chan' = IF conn[t].broken THEN chan
            ELSE [chan EXCEPT ![t] = Append(@, [msg |-> m, mac |-> mac])]

Respond(t, code) == Finish(t) /\ Send(t, Error(code), NoMac)

\* A signed query and an unsigned AXFR wait for Django; an unsigned SOA query
\* is answered at once.
handle_request(t) ==
    /\ conn[t].pc = "request"
    /\ LET asked == conn[t]
           todo == Answers(asked.query, file.version)
           loaded == [asked EXCEPT !.pc = "lookup", !.todo = todo,
                                   !.hash = QueryMac(asked.query)]
       IN
       CASE asked.query = "other"  -> Respond(t, "refused")
         [] Parse(file) = "servfail" -> Respond(t, "servfail")
         [] Parse(file) = "panic"  -> Finish(t) /\ UNCHANGED chan
         [] asked.sig = "malformed" -> Respond(t, "badsig")
         [] asked.sig = "late"     -> Respond(t, "badtime")
         [] OTHER ->
              /\ conn' = [conn EXCEPT ![t] =
                    IF t \notin signed /\ asked.query = "soa"
                    THEN [loaded EXCEPT !.pc = "send"] ELSE loaded]
              /\ UNCHANGED chan
    /\ UNCHANGED <<signed, local, file, rowVars, client, copy, wake, missed, events>>

\* GetTSIGSecret and CheckIPACL, first half: find the row.
find_row(t) ==
    /\ conn[t].pc = "lookup"
    /\ LET value == rows[<<"access", t>>]
           found == IF t \in signed THEN value # "absent" ELSE value = "on"
       IN
       IF found
       THEN /\ conn' = [conn EXCEPT ![t] = [@ EXCEPT !.pc = "touch", !.row = value]]
            /\ UNCHANGED chan
       ELSE Respond(t, IF t \in signed THEN "badsig" ELSE "refused")
    /\ UNCHANGED <<signed, local, file, rowVars, client, copy, wake, missed, events>>

\* The call fails: Django restarts, or its database is away.
lookup_fails(t) ==
    /\ conn[t].pc \in {"lookup", "touch"}
    /\ Event
    /\ Respond(t, "badsig")
    /\ UNCHANGED <<signed, local, file, rowVars, client, copy, wake, missed>>

\* Mutant: the row is built anew with the key and the default address.
RowSaved_anew(t) == "on"

\* The whole row as it was read, but for last_used.
RowSaved(t) == conn[t].row

\* Second half: last_used is set and the whole row saved, or inserted again if
\* it has been deleted.  Back in the server the key is known: algorithm, MAC.
save_last_used(t) ==
    /\ conn[t].pc = "touch"
    /\ rows' = [rows EXCEPT ![<<"access", t>>] = RowSaved(t)]
    /\ CASE conn[t].sig = "badalg" -> Respond(t, "badalg")
         [] conn[t].sig = "badmac" -> Respond(t, "badsig")
         [] OTHER -> /\ conn' = [conn EXCEPT ![t].pc = "send"]
                     /\ UNCHANGED chan
    /\ UNCHANGED <<signed, local, file, wanted, raced, held, client, copy, wake, missed, events>>

\* Mutant: try_send, which does not wait for room in the channel.
HasRoom_nowait(t) == TRUE
\* Mutant: a transfer waits until all of it fits into the channel.
HasRoom_whole(t) == Len(chan[t]) + Len(conn[t].todo) <= Capacity

\* send on a bounded channel waits.
HasRoom(t) == Len(chan[t]) < Capacity

\* Mutant: records are taken from the file as it is now.
NextMessage_rereads(t) ==
    IF Head(conn[t].todo).kind = "rr"
    THEN [Head(conn[t].todo) EXCEPT !.version = file.version]
    ELSE Head(conn[t].todo)

\* The records were read when the request came.
NextMessage(t) == Head(conn[t].todo)

\* The MAC of the next message.
MacOf(t) == IF t \in signed THEN Mac(conn[t].hash, NextMessage(t), conn[t].first)
            ELSE NoMac

\* Mutant: every message is signed like the first.
AfterSigning_first(t) == [conn[t] EXCEPT !.todo = Tail(@), !.hash = MacOf(t)]

\* The context after a message: the chain goes on from its MAC.
AfterSigning(t) ==
    [conn[t] EXCEPT !.todo = Tail(@), !.hash = MacOf(t), !.first = FALSE]

\* sign_message and send_response of the next message.
send_response(t) ==
    /\ conn[t].pc = "send"
    /\ HasRoom(t)
    /\ Send(t, NextMessage(t), MacOf(t))
    /\ conn' = [conn EXCEPT ![t] =
                  IF Len(conn[t].todo) = 1 THEN Idle ELSE AfterSigning(t)]
    /\ UNCHANGED <<signed, local, file, rowVars, client, copy, wake, missed, events>>

\* The connection breaks, or a timeout of the reader closes it before the query
\* has been read; a task that is handling a query goes on.
connection_lost(t) ==
    /\ client[t].query # "none"
    /\ Event
    /\ conn' = [conn EXCEPT ![t] =
                  CASE @.pc = "idle"    -> @
                    [] @.pc = "request" -> Idle
                    [] OTHER            -> [@ EXCEPT !.broken = TRUE]]
    /\ chan' = [chan EXCEPT ![t] = <<>>]
    /\ UNCHANGED <<signed, local, file, rowVars, client, copy, wake, missed>>

------------------------------------------------------------------------------
(* The secondary.  It asks for the SOA when it has been notified and when    *)
(* its refresh timer fires, and for the zone if the SOA is newer.            *)

Client ==
    [query : Queries \cup {"none"}, got : SUBSET Message, opened : BOOLEAN,
     bad : BOOLEAN, hash : Macs, notified : BOOLEAN]

Quiet == [query |-> "none", got |-> {}, opened |-> FALSE, bad |-> FALSE,
          hash |-> NoMac, notified |-> FALSE]

Ask(t, query, sig, notified) ==
    /\ conn[t] = Idle
    /\ conn' = [conn EXCEPT ![t] =
                  [Idle EXCEPT !.pc = "request", !.query = query, !.sig = sig]]
    /\ client' = [client EXCEPT ![t] =
                    [Quiet EXCEPT !.query = query, !.hash = QueryMac(query),
                                  !.notified = notified]]

SigOf(t) == IF t \in signed THEN "good" ELSE "none"

refresh(t) ==
    /\ client[t] = Quiet
    /\ Ask(t, "soa", SigOf(t), t \in wake)
    /\ wake' = wake \ {t}
    /\ UNCHANGED <<signed, local, file, rowVars, chan, copy, missed, events>>

\* A query that is answered with an error: another type, a clock that is wrong,
\* another key, another algorithm, a signature that cannot be read.
odd_query(t, query, sig) ==
    /\ client[t] = Quiet
    /\ Event
    /\ Ask(t, query, sig, FALSE)
    /\ UNCHANGED <<signed, local, file, rowVars, chan, copy, wake, missed>>

\* The round is over.  History: it was the answer to a NOTIFY, and failed or
\* came before Knot had written the file.
GiveUp(t, failed) ==
    /\ client' = [client EXCEPT ![t] = Quiet]
    /\ missed' = IF failed /\ client[t].notified THEN missed \cup {t} ELSE missed

Verifies(t, m, mac) ==
    t \in signed => mac = Mac(client[t].hash, m, ~ client[t].opened)

receive(t) ==
    /\ client[t].query # "none"
    /\ chan[t] # <<>>
    /\ LET m == Head(chan[t]).msg
           mac == Head(chan[t]).mac
           verified == Verifies(t, m, mac)
           more == [client[t] EXCEPT !.hash = mac, !.opened = TRUE]
       IN
       IF m.kind = "error"
       THEN GiveUp(t, TRUE) /\ UNCHANGED <<conn, copy>>
       ELSE IF ~ verified
       THEN /\ client' = [client EXCEPT ![t].bad = TRUE]
            /\ UNCHANGED <<conn, copy, missed>>
       ELSE IF client[t].query = "soa"
       THEN IF m.version > copy[t].version
            THEN /\ Ask(t, "axfr", SigOf(t), client[t].notified)
                 /\ UNCHANGED <<copy, missed>>
            ELSE GiveUp(t, TRUE) /\ UNCHANGED <<conn, copy>>
       ELSE IF client[t].opened /\ m.kind = "soa"
       THEN /\ copy' = [copy EXCEPT ![t] =
                          [version |-> m.version, records |-> client[t].got]]
            /\ GiveUp(t, m.version # local.version)
            /\ UNCHANGED conn
       ELSE /\ client' = [client EXCEPT ![t] =
                 IF m.kind = "rr" THEN [more EXCEPT !.got = @ \cup {m}] ELSE more]
            /\ UNCHANGED <<conn, copy, missed>>
    /\ chan' = [chan EXCEPT ![t] = Tail(@)]
    /\ UNCHANGED <<signed, local, file, rowVars, wake, events>>

\* End of file, or the secondary's own timeout: nothing more will come.
end_of_answers(t) ==
    /\ client[t].query # "none"
    /\ chan[t] = <<>>
    /\ conn[t] = Idle \/ conn[t].broken
    /\ GiveUp(t, TRUE)
    /\ UNCHANGED <<signed, local, file, rowVars, conn, chan, copy, wake, events>>

------------------------------------------------------------------------------
OddQueries == {<<"other", "none">>} \cup
              {<<"soa", sig>> : sig \in {"malformed", "late", "badmac", "badalg"}}

ServerStep(t) ==
    \/ handle_request(t)
    \/ find_row(t)
    \/ save_last_used(t)
    \/ send_response(t)

ClientStep(t) ==
    \/ receive(t)
    \/ end_of_answers(t)

AxfrNext ==
    \/ \E h \in Handlers, k \in Keys, op \in {"create", "edit", "delete"} :
          open_form(h, k, op)
    \/ \E h \in Handlers, value \in Values : submit_form(h, value)
    \/ \E t \in Targets :
          \/ ServerStep(t)
          \/ ClientStep(t)
          \/ refresh(t)
          \/ lookup_fails(t)
          \/ connection_lost(t)
          \/ \E q \in OddQueries : (q[2] = "none" \/ t \in signed) /\ odd_query(t, q[1], q[2])

AxfrInit ==
    /\ signed \in SUBSET Targets
    /\ local = [version |-> 1, told |-> FALSE, notify |-> FALSE]
    /\ file = [version |-> 1, kind |-> "good"]
    /\ rows = [k \in Keys |-> "on"]
    /\ wanted = rows
    /\ raced = {}
    /\ held = [h \in Handlers |-> NoForm]
    /\ conn = [t \in Targets |-> Idle]
    /\ chan = [t \in Targets |-> <<>>]
    /\ client = [t \in Targets |-> Quiet]
    /\ copy = [t \in Targets |-> [version |-> 1, records |-> Records(1)]]
    /\ wake = {}
    /\ missed = {}
    /\ events = 0
================================================================================
