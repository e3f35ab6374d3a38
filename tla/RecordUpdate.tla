----------------------------- MODULE RecordUpdate -----------------------------
(***************************************************************************)
(* Who may change the records of a zone, and what they check first:        *)
(* RFC 2136 update messages (handle_update_query, up to 128 threads), the  *)
(* forms (validate_unique, then save), the API and imports (no check).     *)
(*                                                                         *)
(* A message is handled query by query without a transaction: first its    *)
(* prerequisites, then its RRs one by one.  Names are one label below the  *)
(* zone, in lower case.  TTLs are left out.  A and AAAA share a table; TXT *)
(* stands for the types that updates handle alike, SSHFP for those that    *)
(* updates only look at, DNSKEY is not even looked at.  Messages refused   *)
(* before the first query (TSIG, zone, malformed RRs) change nothing and   *)
(* are left out; the update_fzone task of each save and delete is          *)
(* ZonePublication's.                                                      *)
(***************************************************************************)
EXTENDS Naturals, Sequences

CONSTANTS
    Hosts,         \* names other than the apex "@" and the wildcard "*"
    Data,          \* record data
    Updaters,      \* threads of the gRPC server
    Writers,       \* views, API requests, imports
    Entries,       \* contents that forms, API and imports may save
    Messages,      \* update messages that may arrive
    Initial,       \* sets of records a zone may start with
    FirstId,       \* ids of these records are at most this
    MaxMessages,   \* bound: messages received
    MaxChanges     \* bound: forms, API requests and imports

Names == Hosts \cup {"@", "*"}
\* supported_types: what an update may add or delete.
UpdateTypes == {"A", "AAAA", "TXT", "CNAME", "DHCID"}
Types == UpdateTypes \cup {"SSHFP", "DNSKEY"}
TableOf(t) == IF t \in {"A", "AAAA"} THEN "address" ELSE t
\* The order in which "delete all RRsets of a name" goes through the models: only
\* those of UpdateTypes.
Tables == <<"address", "TXT", "CNAME", "DHCID">>

\* A row of one of the record tables; what it says is its content.
Row == [id : Nat, name : Names, type : Types, data : Data]
Entry == [name : Names, type : Types, data : Data]
Content(r) == [name |-> r.name, type |-> r.type, data |-> r.data]
Contents(S) == {Content(r) : r \in S}

\* restrict "@" is the whole zone.
Key == [type : {"unlimited", "acme"}, restrict : Names]
\* class "ANY": exists or delete, "NONE": does not exist or delete one, "IN":
\* has this value or add.
Rr == [class : {"IN", "ANY", "NONE"}, name : Names, type : Types \cup {"ANY"}, data : Data]
WellFormed(rr) == rr.type \in UpdateTypes \/ (rr.type = "ANY" /\ rr.class = "ANY")
Message == [key : Key, pre : Seq(Rr), ups : {s \in Seq(Rr) : \A i \in 1 .. Len(s) : WellFormed(s[i])}]

ASSUME MessagesAssumption == Messages \subseteq Message /\ Messages # {}
ASSUME EntriesAssumption == Entries \subseteq Entry
ASSUME InitialAssumption ==
    /\ Initial \subseteq SUBSET Row /\ FirstId \in Nat
    /\ \A S \in Initial : \A r, s \in S : r.id <= FirstId /\ (r.id = s.id => r = s)
ASSUME ActorsAssumption == Updaters \cap Writers = {} /\ Data # {}
ASSUME NamesAssumption == {"@", "*", ""} \cap Hosts = {}
ASSUME BoundsAssumption == MaxMessages \in Nat /\ MaxChanges \in Nat

VARIABLES
    rows,      \* the records of the zone
    lastId,    \* ids handed out so far
    upd,       \* upd[u]: the message thread u handles
    form,      \* form[w]: the record a view has validated
    messages,  \* messages so far
    changes,   \* changes so far
    clean,     \* history: nobody else wrote since w's check or RR began
    quiet,     \* history: nobody wrote since u's message began
    bypassed   \* history: labels whose CNAME conflict no check could see

Actors == Updaters \cup Writers
historyVars == <<clean, quiet, bypassed>>
vars == <<rows, lastId, upd, form, messages, changes, clean, quiet, bypassed>>

\* A CNAME shares its label with another record.
Conflict(S, n) ==
    \E r, s \in S : r # s /\ r.name = n /\ s.name = n /\ r.type = "CNAME"

\* The rows become S by a write of a.  History: a conflict is excused if a made no
\* check or somebody wrote after it.
Write(a, S, excused) ==
    /\ rows' = S
    /\ clean' = [b \in Actors |-> clean[b] /\ (b = a \/ S = rows)]
    /\ quiet' = [u \in Updaters |-> quiet[u] /\ S = rows]
    /\ bypassed' = {n \in Names : /\ Conflict(S, n)
                                  /\ n \in bypassed \/ excused \/ ~clean[a]}

\* Mutant: always INSERT.
Saved_inserts(r) == rows \cup {r}

\* record.save(): UPDATE by id, INSERT if there is none.
Saved(r) == {s \in rows : s.id # r.id} \cup {r}
NewRow(e) == [id |-> lastId + 1, name |-> e.name, type |-> e.type, data |-> e.data]

------------------------------------------------------------------------------
(* Queries of the gRPC server.                                               *)

\* Types that any_records and any_record_type have no table for.
Unlisted == {"DHCID", "DNSKEY"}

any_records(n, cname) ==
    \E r \in rows : /\ r.name = n \/ r.name = "*"
                    /\ r.type \notin Unlisted
                    /\ cname \/ r.type # "CNAME"

\* find_records: the rows of the name or, if there are none, of the wildcard.
SearchName(table, n) ==
    IF \E r \in rows : r.name = n /\ TableOf(r.type) = table THEN n ELSE "*"
RowsOf(table, n) == {r \in rows : r.name = n /\ TableOf(r.type) = table}
find_records(table, n) == RowsOf(table, SearchName(table, n))

\* Only addresses look at the wildcard.
any_record_type(n, t) ==
    CASE t \in {"A", "AAAA"} -> \E r \in find_records("address", n) : r.type = t
      [] t \in Unlisted      -> FALSE
      [] OTHER               -> RowsOf(t, n) # {}

\* The RRset found is the one record given.  The CNAME that is found goes into
\* the response and not into what is compared, a row of SSHFP is two records, and
\* DNSKEY has no branch.
same_rrset(p) ==
    LET found == {r \in find_records(TableOf(p.type), p.name) : r.type = p.type}
    IN p.type \notin {"CNAME", "SSHFP", "DNSKEY"} /\ \E r \in found : found = {r} /\ r.data = p.data

Exists(p) == IF p.type = "ANY" THEN any_records(p.name, TRUE)
             ELSE any_record_type(p.name, p.type)

Holds(p) == CASE p.class = "ANY"  -> Exists(p)
              [] p.class = "NONE" -> ~Exists(p)
              [] p.class = "IN"   -> same_rrset(p)

\* A restricted key manages one name, an ACME key the TXT records of one name; at
\* the apex it has no first label to look at and raises an exception.
can_manage(key, t, n) ==
    /\ key.restrict # "@" => n = key.restrict
    /\ key.type = "acme" => n = "_acme-challenge" /\ t = "TXT"

------------------------------------------------------------------------------
(* handle_update_query.                                                      *)

UpdPCs == {"idle", "prereq", "next", "check", "count", "fetch", "save", "delete"}
\* i: the prerequisite or RR that is next or going on; t: the table of a
\* deletion of all RRsets; search, found: what find_records did; base (history):
\* the contents when the RR began.
Upd == [pc : UpdPCs, msg : Message, i : Nat, t : Nat, search : Names \cup {""},
        found : SUBSET Row, base : SUBSET Entry]
AnyMessage == CHOOSE m \in Messages : TRUE
Resting == [pc |-> "idle", msg |-> AnyMessage, i |-> 1, t |-> 1, search |-> "",
            found |-> {}, base |-> {}]

rrOf(u) == upd[u].msg.ups[upd[u].i]
\* The upset loop does not turn the apex into "@": no row has the empty name.
LabelOf(rr) == IF rr.name = "@" THEN "" ELSE rr.name
DeletesAll(rr) == rr.class = "ANY" /\ rr.type = "ANY"
TableNow(u) == IF DeletesAll(rrOf(u)) THEN Tables[upd[u].t] ELSE TableOf(rrOf(u).type)

Goto(u, pc) == upd' = [upd EXCEPT ![u].pc = pc]
NextRr(u) == upd' = [upd EXCEPT ![u] = [pc |-> "next", msg |-> @.msg, i |-> @.i + 1, t |-> 1,
                                        search |-> "", found |-> {}, base |-> @.base]]
\* A response, good or bad.
Answer(u) == upd' = [upd EXCEPT ![u] = Resting]

receive_update(u, m) ==
    /\ upd[u].pc = "idle"
    /\ messages < MaxMessages
    /\ messages' = messages + 1
    /\ upd' = [upd EXCEPT ![u] = [Resting EXCEPT !.pc = "prereq", !.msg = m]]
    /\ quiet' = [quiet EXCEPT ![u] = TRUE]
    /\ UNCHANGED <<rows, lastId, form, changes, clean, bypassed>>

\* Mutant: the response code of all but the last prerequisite is overwritten.
check_prereq_last_counts(u) ==
    /\ upd[u].pc = "prereq"
    /\ \/ /\ upd[u].i < Len(upd[u].msg.pre)
          /\ upd' = [upd EXCEPT ![u].i = @ + 1]
       \/ /\ upd[u].i = Len(upd[u].msg.pre)
          /\ IF Holds(upd[u].msg.pre[upd[u].i])
             THEN upd' = [upd EXCEPT ![u].i = @ + 1] ELSE Answer(u)
       \/ /\ upd[u].i > Len(upd[u].msg.pre)
          /\ upd' = [upd EXCEPT ![u].pc = "next", ![u].i = 1]
    /\ UNCHANGED <<rows, lastId, form, messages, changes, historyVars>>

\* One prerequisite after the other, those of class IN last; one that does not
\* hold ends the message.
check_prereq(u) ==
    LET pre == upd[u].msg.pre
        i == upd[u].i
    IN /\ upd[u].pc = "prereq"
       /\ \/ i <= Len(pre) /\ Holds(pre[i]) /\ upd' = [upd EXCEPT ![u].i = @ + 1]
          \/ i <= Len(pre) /\ ~Holds(pre[i]) /\ Answer(u)
          \/ i > Len(pre) /\ upd' = [upd EXCEPT ![u].pc = "next", ![u].i = 1]
       /\ UNCHANGED <<rows, lastId, form, messages, changes, historyVars>>

\* The next RR.  All but "delete all RRsets" look at the key first.
next_rr(u) ==
    LET rr == rrOf(u)
    IN /\ upd[u].pc = "next"
       /\ upd[u].i <= Len(upd[u].msg.ups)
       /\ IF DeletesAll(rr) \/ can_manage(upd[u].msg.key, rr.type, rr.name)
          THEN upd' = [upd EXCEPT ![u].pc = IF rr.class = "IN" THEN "check" ELSE "count",
                                  ![u].base = Contents(rows)]
          ELSE Answer(u)
       /\ clean' = [clean EXCEPT ![u] = TRUE]
       /\ UNCHANGED <<rows, lastId, form, messages, changes, quiet, bypassed>>

sign_resp(u) ==
    /\ upd[u].pc = "next"
    /\ upd[u].i > Len(upd[u].msg.ups)
    /\ Answer(u)
    /\ UNCHANGED <<rows, lastId, form, messages, changes, historyVars>>

\* Mutant: only a CNAME is checked for.
try_update_forgets_cname(u) ==
    LET rr == rrOf(u)
    IN /\ upd[u].pc = "check"
       /\ IF rr.type = "CNAME" /\ rr.name # "@" /\ any_records(rr.name, FALSE)
          THEN NextRr(u) ELSE Goto(u, "count")
       /\ UNCHANGED <<rows, lastId, form, messages, changes, historyVars>>

\* _try_update: a CNAME next to other records, and other records next to a CNAME,
\* are ignored.
try_update(u) ==
    LET rr == rrOf(u)
        n == LabelOf(rr)
        ignored == IF rr.type = "CNAME" THEN n # "" /\ any_records(n, FALSE)
                   ELSE any_record_type(n, "CNAME")
    IN /\ upd[u].pc = "check"
       /\ IF ignored THEN NextRr(u) ELSE Goto(u, "count")
       /\ UNCHANGED <<rows, lastId, form, messages, changes, historyVars>>

\* find_records: a count decides which query is made, ...
find_records_count(u) ==
    LET n == LabelOf(rrOf(u))
    IN /\ upd[u].pc = "count"
       /\ upd' = [upd EXCEPT ![u].pc = "fetch",
                             ![u].search = IF n = "" THEN "" ELSE SearchName(TableNow(u), n)]
       /\ UNCHANGED <<rows, lastId, form, messages, changes, historyVars>>

\* Mutant: the rows of the other address family are taken for the RRset.
Concerns_table(rr, r) ==
    \/ DeletesAll(rr)
    \/ rr.class = "ANY"
    \/ rr.type = r.type /\ rr.data = r.data

\* Rows the RR is about.
Concerns(rr, r) ==
    \/ DeletesAll(rr)
    \/ rr.class = "ANY" /\ rr.type = r.type
    \/ rr.type = r.type /\ rr.data = r.data

\* ... the query runs when the loop over the records starts.
find_records_fetch(u) ==
    /\ upd[u].pc = "fetch"
    /\ upd' = [upd EXCEPT ![u].pc = IF rrOf(u).class = "IN" THEN "save" ELSE "delete",
                          ![u].found = {r \in RowsOf(TableNow(u), upd[u].search) :
                                            Concerns(rrOf(u), r)}]
    /\ UNCHANGED <<rows, lastId, form, messages, changes, historyVars>>

\* What _try_update cannot see: the apex, and next to a CNAME another one and the
\* types any_records leaves out.
Unseen(rr) ==
    \/ rr.name = "@"
    \/ rr.type = "CNAME" /\ \E r \in rows : /\ r.name = rr.name
                                            /\ r.type \in {"CNAME"} \cup Unlisted

\* A record with the same data is saved under the name of the RR (a wildcard is
\* renamed), or else a new one.
save_rr(u) ==
    LET rr == rrOf(u)
    IN /\ upd[u].pc = "save"
       /\ \/ /\ upd[u].found = {}
             /\ lastId' = lastId + 1
             /\ Write(u, rows \cup {NewRow(rr)}, Unseen(rr))
          \/ \E r \in upd[u].found :
                /\ Write(u, Saved([r EXCEPT !.name = rr.name]), Unseen(rr))
                /\ UNCHANGED lastId
       /\ NextRr(u)
       /\ UNCHANGED <<form, messages, changes>>

\* Mutant: "delete all RRsets" does not look at the key.
delete_rr_any_key(u, r) ==
    /\ upd[u].pc = "delete"
    /\ r \in upd[u].found
    /\ upd' = [upd EXCEPT ![u].found = @ \ {r}]
    /\ Write(u, {s \in rows : s.id # r.id}, FALSE)
    /\ UNCHANGED <<lastId, form, messages, changes>>

\* One record after the other; a type the key does not manage ends the message.
delete_rr(u, r) ==
    LET rr == rrOf(u)
    IN /\ upd[u].pc = "delete"
       /\ r \in upd[u].found
       /\ IF can_manage(upd[u].msg.key, r.type, rr.name)
          THEN /\ upd' = [upd EXCEPT ![u].found = @ \ {r}]
               /\ Write(u, {s \in rows : s.id # r.id}, FALSE)
          ELSE Answer(u) /\ UNCHANGED <<rows, clean, quiet, bypassed>>
       /\ UNCHANGED <<lastId, form, messages, changes>>

\* No more records: the next table or the next RR.
deleted_all(u) ==
    /\ upd[u].pc = "delete"
    /\ upd[u].found = {}
    /\ IF DeletesAll(rrOf(u)) /\ upd[u].t < Len(Tables)
       THEN upd' = [upd EXCEPT ![u].pc = "count", ![u].t = @ + 1]
       ELSE NextRr(u)
    /\ UNCHANGED <<rows, lastId, form, messages, changes, historyVars>>

\* An exception anywhere is a SERVFAIL; a kill is no response at all.
update_fails(u) ==
    /\ upd[u].pc # "idle"
    /\ Answer(u)
    /\ UNCHANGED <<rows, lastId, form, messages, changes, historyVars>>

UpdateStep(u) ==
    \/ check_prereq(u)
    \/ next_rr(u)
    \/ sign_resp(u)
    \/ try_update(u)
    \/ find_records_count(u)
    \/ find_records_fetch(u)
    \/ save_rr(u)
    \/ \E r \in upd[u].found : delete_rr(u, r)
    \/ deleted_all(u)

------------------------------------------------------------------------------
(* Forms, API, imports.                                                      *)

Form == [pc : {"idle", "valid"}, row : Row]
NoForm == [pc |-> "idle", row |-> [id |-> 0, name |-> "@", type |-> "A",
                                   data |-> CHOOSE d \in Data : TRUE]]

Change == changes < MaxChanges /\ changes' = changes + 1

\* DNSZoneRecord.validate_unique and CNAMERecord's, which also has the apex and
\* looks into every table but DNSKEY's.
validate_unique(r) ==
    IF r.type = "CNAME"
    THEN r.name # "@" /\ \A s \in rows : s.name = r.name => s.id = r.id \/ s.type = "DNSKEY"
    ELSE \A s \in rows : s.name = r.name => s.type # "CNAME"

\* record_form.is_valid(): a new record, or one in the table with other fields.
is_valid(w, r) ==
    /\ form[w].pc = "idle"
    /\ Change
    /\ validate_unique(r)
    /\ form' = [form EXCEPT ![w] = [pc |-> "valid", row |-> r]]
    /\ clean' = [clean EXCEPT ![w] = TRUE]
    /\ UNCHANGED <<rows, upd, messages, quiet, bypassed>>

create_form(w, e) == lastId' = lastId + 1 /\ is_valid(w, NewRow(e))
\* An address record may get an address of the other family.
Edited(r, e) == [id |-> r.id, name |-> e.name, type |-> e.type, data |-> e.data]
edit_form(w, r, e) == UNCHANGED lastId /\ is_valid(w, Edited(r, e))

\* A DNSKEY next to the CNAME that is saved.
UnseenByForm(r) ==
    r.type = "CNAME" /\ \E s \in rows : s.name = r.name /\ s.type = "DNSKEY"

save_form(w) ==
    /\ form[w].pc = "valid"
    /\ Write(w, Saved(form[w].row), UnseenByForm(form[w].row))
    /\ form' = [form EXCEPT ![w] = NoForm]
    /\ UNCHANGED <<lastId, upd, messages, changes>>

delete_record(w, r) ==
    /\ form[w].pc = "idle"
    /\ Change
    /\ Write(w, rows \ {r}, FALSE)
    /\ UNCHANGED <<lastId, upd, form, messages>>

\* The serializers do not call validate_unique(); DHCID and DNSKEY have none.
api_save(w, r) ==
    /\ form[w].pc = "idle"
    /\ r.type \notin {"DHCID", "DNSKEY"}
    /\ Change
    /\ Write(w, Saved(r), TRUE)
    /\ UNCHANGED <<upd, form, messages>>

api_create(w, e) == lastId' = lastId + 1 /\ api_save(w, NewRow(e))
api_update(w, r, e) == UNCHANGED lastId /\ api_save(w, Edited(r, e))

NotImported == {"DHCID", "SSHFP"}

\* A zone file with one record, in a transaction.  A CNAME replaces the CNAMEs of
\* its name; overwriting spares the tables that cannot be imported.
import_zone_file(w, e, overwrite) ==
    LET kept == {r \in rows : /\ overwrite => r.type \in NotImported
                              /\ e.type = "CNAME" => r.name # e.name \/ r.type # "CNAME"}
    IN /\ form[w].pc = "idle"
       /\ Change
       /\ e.type \notin NotImported
       /\ lastId' = lastId + 1
       /\ Write(w, kept \cup {NewRow(e)}, TRUE)
       /\ UNCHANGED <<upd, form, messages>>

view_dies(w) ==
    /\ form[w].pc = "valid"
    /\ form' = [form EXCEPT ![w] = NoForm]
    /\ UNCHANGED <<rows, lastId, upd, messages, changes, historyVars>>

WriterStep(w) ==
    \/ \E e \in Entries :
          \/ create_form(w, e)
          \/ api_create(w, e)
          \/ \E overwrite \in BOOLEAN : import_zone_file(w, e, overwrite)
          \/ \E r \in rows : /\ TableOf(r.type) = TableOf(e.type)
                            /\ (edit_form(w, r, e) \/ api_update(w, r, e))
    \/ \E r \in rows : delete_record(w, r)
    \/ save_form(w)
    \/ view_dies(w)

------------------------------------------------------------------------------
\* Some records, nobody at work.
Init ==
    /\ rows \in Initial
    /\ lastId = FirstId
    /\ upd = [u \in Updaters |-> Resting]
    /\ form = [w \in Writers |-> NoForm]
    /\ messages = 0 /\ changes = 0
    /\ clean = [a \in Actors |-> FALSE]
    /\ quiet = [u \in Updaters |-> FALSE]
    /\ bypassed = {n \in Names : Conflict(rows, n)}

Next ==
    \/ \E u \in Updaters : \/ \E m \in Messages : receive_update(u, m)
                            \/ UpdateStep(u)
                            \/ update_fails(u)
    \/ \E w \in Writers : WriterStep(w)

Spec == Init /\ [][Next]_vars

------------------------------------------------------------------------------
(* Properties.                                                               *)

\* Every variable holds a value of its kind, and ids are unique.
TypeOK ==
    /\ rows \subseteq Row /\ lastId \in Nat
    /\ \A r \in rows : r.id <= lastId /\ \A s \in rows : r.id = s.id => r = s
    /\ upd \in [Updaters -> Upd]
    /\ form \in [Writers -> Form]
    /\ messages \in Nat /\ changes \in Nat
    /\ clean \in [Actors -> BOOLEAN] /\ quiet \in [Updaters -> BOOLEAN]
    /\ bypassed \subseteq Names

\* When a message makes its first change, all its prerequisites hold at that
\* moment, unless somebody else wrote since it arrived: handle_update_query has
\* no transaction around its two halves.
PrereqsHoldWhenApplied ==
    \A u \in Updaters :
        upd[u].pc \notin {"idle", "prereq"} /\ quiet[u] =>
            \A i \in 1 .. Len(upd[u].msg.pre) : Holds(upd[u].msg.pre[i])

\* "A CNAME already exists with the same label": a CNAME shares its label only
\* through a writer that makes no check (API, import), one whose check somebody
\* overtook, an update at the apex or of a CNAME next to a CNAME, DHCID or DNSKEY,
\* or a form that saves a CNAME next to a DNSKEY.
CnameAloneUnlessBypassed == \A n \in Names : Conflict(rows, n) => n \in bypassed

\* RFC 2136, 3.4.2, for one RR.
ContentOf(rr) == [name |-> rr.name, type |-> rr.type, data |-> rr.data]
Applied(S, rr) ==
    LET clash == \E x \in S : x.name = rr.name /\ ~(x.type = "CNAME" <=> rr.type = "CNAME")
    IN CASE rr.class = "IN" -> IF clash THEN S ELSE S \cup {ContentOf(rr)}
         [] rr.class = "ANY" ->
              {x \in S : x.name # rr.name \/ (rr.type # "ANY" /\ x.type # rr.type)}
         [] rr.class = "NONE" -> S \ {ContentOf(rr)}

\* Where the code follows the RFC: a name below the apex of a zone without
\* wildcards; at that name no CNAME or record of an unlisted type if a CNAME is
\* added, and only records updates can delete if all of them are to go.
Plain(S, rr) ==
    /\ rr.name \in Hosts
    /\ \A x \in S :
          /\ x.name # "*"
          /\ x.name = rr.name =>
                /\ rr.class = "IN" /\ rr.type = "CNAME" => x.type \notin {"CNAME"} \cup Unlisted
                /\ DeletesAll(rr) => x.type \in UpdateTypes

\* Whose records of a table an RR for n is taken to mean: nobody's at the apex, and
\* the wildcard's if n has none there.
Taken(S, table, n) ==
    IF n = "@" THEN ""
    ELSE IF \E x \in S : x.name = n /\ TableOf(x.type) = table THEN n ELSE "*"
About(S, rr) ==
    {x \in S : /\ x.name = Taken(S, TableOf(x.type), rr.name)
               /\ x.type = rr.type \/ (DeletesAll(rr) /\ x.type \in UpdateTypes)
               /\ rr.class # "ANY" => x.data = rr.data}

\* A CNAME is not added next to or below a wildcard next to other listed records,
\* nothing else next to a CNAME; the apex is not looked at.
Refused(S, rr) ==
    /\ rr.name # "@"
    /\ \E x \in S :
          IF rr.type = "CNAME"
          THEN x.name \in {rr.name, "*"} /\ x.type \notin {"CNAME"} \cup Unlisted
          ELSE x.name = rr.name /\ x.type = "CNAME"

\* What an RR may make of S: an addition may take over a wildcard with its data.
Effects(S, rr) ==
    IF rr.class # "IN" THEN {S \ About(S, rr)}
    ELSE IF Refused(S, rr) THEN {S}
    ELSE {S \cup {ContentOf(rr)}, (S \ About(S, rr)) \cup {ContentOf(rr)}}

\* An RR that was handled while nobody else wrote had exactly the effect that its
\* class, its type and what the zone held give it, in all the tables it went
\* through; and that is RFC 2136's, except at the apex (deletions do nothing,
\* CNAMEs are not looked for), where a wildcard is taken for a name without
\* records, for a CNAME next to what any_records leaves out, and for the tables
\* that "delete all RRsets" leaves out.
RrApplied ==
    \A u \in Updaters :
        LET rr == upd[u].msg.ups[upd[u].i - 1]
            base == upd[u].base
        IN upd[u].pc = "next" /\ upd[u].i > 1 /\ clean[u] =>
               /\ Contents(rows) \in Effects(base, rr)
               /\ Plain(base, rr) => Contents(rows) = Applied(base, rr)

\* An update only changes records of types that its key may manage at the name of
\* its RR, and only records of that name or, where the name has none in their
\* table, of the wildcard, which may lie outside the name the key is restricted
\* to; unless somebody changed a record between its being read and written.
InScope(u) ==
    LET rr == rrOf(u)
    IN upd'[u] # upd[u] /\ clean[u] =>
        \A r \in (rows \ rows') \cup (rows' \ rows) :
            /\ r.name \in {rr.name, Taken(upd[u].base, TableOf(r.type), rr.name)}
            /\ can_manage(upd[u].msg.key, r.type, rr.name)
ChangesInScope == [][\A u \in Updaters : InScope(u)]_vars

\* "Another record already exists with the same label": a label has one CNAME.
OneCnamePerLabel ==
    \A r, s \in rows : r.name = s.name /\ r.type = "CNAME" /\ s.type = "CNAME" => r = s

==============================================================================
