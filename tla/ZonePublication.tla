--------------------------- MODULE ZonePublication ---------------------------
(***************************************************************************)
(* How a change to a zone's records reaches the authoritative server.      *)
(*                                                                         *)
(* A web or API request saves records; every record model enqueues         *)
(* update_fzone BEFORE it commits.  Celery workers read the zone's tables  *)
(* one query at a time, write the zone file to S3 and publish a reload     *)
(* message; the sidecar next to Knot consumes it and Knot reads the file.  *)
(* Nothing of this is transactional: requests, workers and the sidecar     *)
(* interleave and each of them may die between any two steps.              *)
(*                                                                         *)
(* The contents of a table are abstracted to a version number that every   *)
(* commit increases; version 0 is "nothing", so a zone file that was never *)
(* written is the content with all tables at version 0.                    *)
(*                                                                         *)
(* Forward and reverse zones have the same life: add_fzone, update_fzone   *)
(* and generate_fzone stand for add_rzone, update_rzone and generate_rzone *)
(* too.  A reverse zone also serves the addresses of the forward zones     *)
(* that lie in its network (auto_reverse).                                 *)
(***************************************************************************)
EXTENDS Naturals, Sequences

CONSTANTS
    Zones,          \* zone ids; a zone's file name is its root, one per id
    Reverse,        \* Reverse[z]: reverse zones the addresses of z may lie in
    Handlers,       \* concurrent requests of the Django processes
    Workers,        \* celery worker processes (-c 4 in hexdns_django/kube/django.yaml)
    NumTables,      \* tables generate_fzone reads, one query after the other
    Addresses,      \* which of them holds the address records
    InitialRecords, \* records setup_initial_records saves (three)
    MaxRequests,    \* bound: requests of one behaviour
    MaxFaults       \* bound: exceptions, kills and crashes of one behaviour

ASSUME TablesAssumption == NumTables \in Nat \ {0}
ASSUME AddressesAssumption == Addresses \in 1 .. NumTables
ASSUME ZonesAssumption == Zones # {}
ASSUME ReverseAssumption ==
    /\ Reverse \in [Zones -> SUBSET Zones]
    /\ \A z \in Zones : \A r \in Reverse[z] : Reverse[r] = {}
ASSUME BoundsAssumption ==
    InitialRecords \in Nat /\ MaxRequests \in Nat /\ MaxFaults \in Nat

Tables == 1 .. NumTables

\* TXT records come late in generate_fzone; generate_rzone ends with the
\* addresses of other zones.
TXT == NumTables
AutoReverse == NumTables

ReverseZones == UNION {Reverse[z] : z \in Zones}

\* What a zone file, a zone's tables or a zone in Knot hold: a version per table.
Content == [Tables -> Nat]
Empty == [t \in Tables |-> 0]
First == [t \in Tables |-> 1]

\* The two celery tasks that write a zone's file.
TaskNames == {"add_fzone", "update_fzone"}

VARIABLES
    row,        \* zones that have a row in the DNSZone table
    db,         \* db[z]: committed contents of the zone's record tables
    covers,     \* covers[z]: reverse zones that addresses of z lie in
    todo,       \* todo[h]: what is left of the request h is serving
    queue,      \* queue[n][z]: celery messages n(z) waiting in the broker
    job,        \* job[w]: the task worker w is executing
    file,       \* file[z]: contents of the zone file in the S3 bucket
    catalogDue, \* an update_catalog task is waiting in the broker
    reloads,    \* reloads[z]: messages in the sidecar's exclusive queue
    sidecarUp,  \* the sidecar is connected and its queue exists
    member,     \* zones Knot knows from the catalog zone
    served,     \* served[z]: contents Knot answers from
    requests,   \* requests started so far
    faults,     \* faults so far
    raced,      \* history: zones whose last change lost a race (below)
    missed      \* history: zones whose last reload got lost (below)

dbVars == <<row, db, covers>>
knotVars == <<reloads, sidecarUp, member, served>>
historyVars == <<raced, missed>>
vars == <<row, db, covers, todo, queue, job, file, catalogDue, reloads, sidecarUp,
          member, served, requests, faults, raced, missed>>

------------------------------------------------------------------------------
(* Requests.  A request is the sequence of its steps that touch shared       *)
(* state; everything between two of them is local to the request.            *)

StepNames == {"update_fzone", "add_fzone", "update_catalog", "commit",
              "save_zone", "delete_zone"}
Step == [name : StepNames, zone : Zones, tables : SUBSET Tables]

Delay(n, z) == [name |-> n, zone |-> z, tables |-> {}]
Commit(z, T) == [name |-> "commit", zone |-> z, tables |-> T]
SaveZone(z) == [name |-> "save_zone", zone |-> z, tables |-> {}]

\* save() and delete() of a record model: the task first, then the row.
RecordSave(z, t) == <<Delay("update_fzone", z), Commit(z, {t})>>

\* The initial records are TXT records; saving the n-th is the steps 2n-1, 2n.
setup_initial_records(z) ==
    [i \in 1 .. 2 * InitialRecords |->
        IF i % 2 = 1 THEN RecordSave(z, TXT)[1] ELSE RecordSave(z, TXT)[2]]

Created(z) == \E t \in Tables : db[z][t] > 0

Begin(h, program) ==
    /\ todo[h] = <<>>
    /\ requests < MaxRequests
    /\ requests' = requests + 1
    /\ todo' = [todo EXCEPT ![h] = program]
    /\ UNCHANGED <<queue, job, file, catalogDue, knotVars, faults, historyVars>>

\* The row is saved first; zone ids are random, so a zone is created once.
NewZone(h, z, program) ==
    /\ z \notin row
    /\ ~Created(z)
    /\ Begin(h, program)
    /\ row' = row \cup {z}
    /\ db' = [db EXCEPT ![z] = [t \in Tables |-> 1]]
    /\ UNCHANGED covers

create_zone(h, z) ==
    NewZone(h, z, setup_initial_records(z) \o <<Delay("add_fzone", z)>>)

create_domains_zone(h, z) == NewZone(h, z, <<Delay("add_fzone", z)>>)

\* The administrator's create_zone and create_rzone; reverse zones have no other.
admin_create_zone(h, z) == NewZone(h, z, <<Delay("add_fzone", z)>>)

OnZone(h, z, program) == z \in row /\ Begin(h, program) /\ UNCHANGED dbVars

create_record(h, z, t) == OnZone(h, z, RecordSave(z, t) \o <<SaveZone(z)>>)

\* The edit_* and delete_* views save the zone row before the record.
edit_record(h, z, t) == OnZone(h, z, <<SaveZone(z)>> \o RecordSave(z, t))

\* Records created or deleted through the API, changed by an RFC 2136 update,
\* or saved by generate_dmarc, create_blank_spf and the like: the zone row is
\* left alone.  (The API's update is edit_record.)
save_record(h, z, t) == OnZone(h, z, RecordSave(z, t))

\* White-label name servers: neither do their views save the zone row.
save_custom_ns(h, z, t) == OnZone(h, z, RecordSave(z, t))

\* Additional CDS and CDNSKEY records, created and deleted after the zone row.
edit_zone_cds(h, z, t) == OnZone(h, z, <<SaveZone(z)>> \o RecordSave(z, t))

\* Dynamic DNS: the record, then the zone row that came with it.
update_ip(h, z, t) == OnZone(h, z, RecordSave(z, t) \o <<SaveZone(z)>>)

\* GitHub pages: the service first, then the record, then the zone row, for a
\* new record and for an old one; a deletion begins with the zone row.
setup_github_pages(h, z, t) == OnZone(h, z, RecordSave(z, t) \o <<SaveZone(z)>>)
edit_github_pages_record(h, z, t) == OnZone(h, z, RecordSave(z, t) \o <<SaveZone(z)>>)
delete_github_pages_record(h, z, t) == OnZone(h, z, <<SaveZone(z)>> \o RecordSave(z, t))

\* get_or_create saves a record that is not there; then it is saved again.
verify_zone_google(h, z) ==
    \/ OnZone(h, z, RecordSave(z, TXT))
    \/ OnZone(h, z, RecordSave(z, TXT) \o RecordSave(z, TXT))

\* DHCIDRecord, reached by RFC 2136 deletes only, is the one record model
\* without a delete() of its own: no task is enqueued.
delete_dhcid_record(h, z, t) == OnZone(h, z, <<Commit(z, {t})>>)

\* The cron job: the cached addresses of an ANAME are replaced in a transaction,
\* the task comes after it.
update_aname_zones(h, z, t) ==
    OnZone(h, z, <<Commit(z, {t}), Delay("update_fzone", z)>>)

\* One transaction: the tasks of all records are enqueued before the commit.
import_zone_file(h, z) ==
    OnZone(h, z, [i \in Tables |-> Delay("update_fzone", z)]
                     \o <<Commit(z, Tables)>>)

\* A queryset delete bypasses the models' delete(); then records are saved.
\* setup_icloud does this for three tables, one after the other.
setup_gsuite(h, z, t) == OnZone(h, z, <<Commit(z, {t})>> \o RecordSave(z, t))

delete_zone(h, z) ==
    OnZone(h, z, <<[name |-> "delete_zone", zone |-> z, tables |-> {}],
                   Delay("update_catalog", z)>>)

\* Views of PTR and NS records of a reverse zone.
create_r_record(h, z, t) == OnZone(h, z, RecordSave(z, t) \o <<SaveZone(z)>>)
edit_r_record(h, z, t) == OnZone(h, z, <<SaveZone(z)>> \o RecordSave(z, t))

\* Requests about the records of table t of z.
RecordRequest(h, z, t) ==
    \/ create_record(h, z, t)
    \/ edit_record(h, z, t)
    \/ save_record(h, z, t)
    \/ save_custom_ns(h, z, t)
    \/ edit_zone_cds(h, z, t)
    \/ update_ip(h, z, t)
    \/ setup_github_pages(h, z, t)
    \/ edit_github_pages_record(h, z, t)
    \/ delete_github_pages_record(h, z, t)
    \/ delete_dhcid_record(h, z, t)
    \/ update_aname_zones(h, z, t)
    \/ setup_gsuite(h, z, t)

Request(h) ==
    \/ \E z \in Zones : admin_create_zone(h, z) \/ delete_zone(h, z)
    \/ \E z \in Zones \ ReverseZones :
          \/ create_zone(h, z)
          \/ create_domains_zone(h, z)
          \/ import_zone_file(h, z)
          \/ verify_zone_google(h, z)
          \/ \E t \in Tables : RecordRequest(h, z, t)
    \/ \E z \in ReverseZones, t \in Tables \ {AutoReverse} :
          create_r_record(h, z, t) \/ edit_r_record(h, z, t)

\* A request is going to enqueue a task for z.
WillEnqueue(h, z) ==
    \E i \in 1 .. Len(todo[h]) :
        todo[h][i].zone = z /\ todo[h][i].name \in TaskNames

\* A task for z is announced or waiting, or a worker on z has yet to read t.
WillBeRead(z, t) ==
    \/ \E h \in Handlers : WillEnqueue(h, z)
    \/ \E n \in TaskNames : queue[n][z] > 0
    \/ \E w \in Workers :
          job[w].pc = "read" /\ job[w].zone = z /\ job[w].next <= t

\* The same, or the task of a zone with addresses in z has yet to read these: it
\* enqueues the task of z.
Announced(z, t) ==
    \/ WillBeRead(z, t)
    \/ t = AutoReverse /\ \E f \in Zones : z \in covers[f] /\ WillBeRead(f, Addresses)

\* Commit new versions of the tables T of z, whose addresses then lie in R, and
\* with the addresses what reverse zones serve of them.  History: a table no
\* task is going to read has lost the race with the task enqueued before the
\* commit, or nobody thinks of the reverse zone.
CommitTables(z, T, R) ==
    LET moved == IF Addresses \in T THEN (covers[z] \cup R) \cap row ELSE {}
        after == [covers EXCEPT ![z] = R]
        lost == {r \in moved :
                    /\ ~WillBeRead(r, AutoReverse)
                    /\ \A f \in Zones : r \in after[f] => ~WillBeRead(f, Addresses)}
    IN /\ db' = [y \in Zones |-> [t \in Tables |->
                   IF (y = z /\ t \in T) \/ (y \in moved /\ t = AutoReverse)
                   THEN db[y][t] + 1 ELSE db[y][t]]]
       /\ covers' = after
       /\ raced' = raced \cup lost
                        \cup (IF \A t \in T : WillBeRead(z, t) THEN {} ELSE {z})

\* .delay(): one message to the broker.
DelayStep(s) ==
    /\ \/ /\ s.name = "update_catalog"
          /\ catalogDue' = TRUE
          /\ UNCHANGED queue
       \/ /\ s.name \in TaskNames
          /\ queue' = [queue EXCEPT ![s.name][s.zone] = @ + 1]
          /\ UNCHANGED catalogDue
    /\ UNCHANGED <<dbVars, raced, missed>>

\* super().save() or super().delete() of a record.
CommitStep(s) ==
    /\ s.name = "commit"
    /\ s.zone \in row
    /\ \E R \in SUBSET Reverse[s.zone] :
          /\ Addresses \notin s.tables => R = covers[s.zone]
          /\ CommitTables(s.zone, s.tables, R)
    /\ UNCHANGED <<row, queue, catalogDue, missed>>

\* zone.save() of an object loaded earlier: Django updates the row and, when
\* no row was updated, inserts it again.  History: the tasks of a zone that was
\* deleted in between may have been dropped.
SaveZoneStep(s) ==
    /\ s.name = "save_zone"
    /\ row' = row \cup {s.zone}
    /\ raced' = IF s.zone \in row THEN raced ELSE raced \cup {s.zone}
    /\ missed' = IF s.zone \in row THEN missed ELSE missed \cup {s.zone}
    /\ UNCHANGED <<db, covers, queue, catalogDue>>

\* zone.delete() cascades to all records, in one transaction and without their
\* delete(): nobody thinks of the reverse zones.
DeleteZoneStep(s) ==
    /\ s.name = "delete_zone"
    /\ row' = row \ {s.zone}
    /\ CommitTables(s.zone, Tables, {})
    /\ UNCHANGED <<queue, catalogDue, missed>>

RequestStep(h) ==
    /\ todo[h] # <<>>
    /\ LET s == Head(todo[h])
       IN \/ DelayStep(s)
          \/ CommitStep(s)
          \/ SaveZoneStep(s)
          \/ DeleteZoneStep(s)
    /\ todo' = [todo EXCEPT ![h] = Tail(@)]
    /\ UNCHANGED <<job, file, knotVars, requests, faults>>

\* The rest of the request never happens.  History: tasks it had not enqueued
\* yet are lost.
Abort(h) ==
    /\ todo[h] # <<>>
    /\ todo' = [todo EXCEPT ![h] = <<>>]
    /\ raced' = LET lost == {z \in Zones : WillEnqueue(h, z)}
                IN  raced \cup lost \cup UNION {covers[z] : z \in lost}
    /\ UNCHANGED <<dbVars, queue, job, file, catalogDue, knotVars, requests,
                   missed>>

\* The foreign key of a record whose zone is gone: the request ends in a 500.
IntegrityError(h) ==
    /\ Abort(h)
    /\ Head(todo[h]).name = "commit"
    /\ Head(todo[h]).zone \notin row
    /\ UNCHANGED faults

\* Any other exception, or the process is killed.
RequestDies(h) ==
    /\ faults < MaxFaults
    /\ faults' = faults + 1
    /\ Abort(h)

------------------------------------------------------------------------------
(* Celery workers.  Messages are acknowledged when they are received.        *)

AnyZone == CHOOSE z \in Zones : TRUE
Idle == [pc |-> "idle", name |-> "add_fzone", zone |-> AnyZone,
         next |-> 0, snap |-> Empty]
Job == [pc : {"idle", "read", "write", "publish"}, name : TaskNames,
        zone : Zones, next : Nat, snap : Content]

Finish(w) == job' = [job EXCEPT ![w] = Idle]

\* DNSZone.objects.get(): without a row the task returns at once.
StartTask(w, n, z) ==
    /\ job[w].pc = "idle"
    /\ queue[n][z] > 0
    /\ queue' = [queue EXCEPT ![n][z] = @ - 1]
    /\ job' = IF z \in row
              THEN [job EXCEPT ![w] = [pc |-> "read", name |-> n, zone |-> z,
                                       next |-> 1, snap |-> Empty]]
              ELSE job
    /\ UNCHANGED <<dbVars, todo, file, catalogDue, knotVars, requests, faults,
                   historyVars>>

\* With the addresses generate_fzone looks up the reverse zones they lie in now
\* and calls update_rzone.delay() for each.
DelayReverse(w) ==
    [n \in TaskNames |-> [z \in Zones |->
        IF /\ n = "update_fzone"
           /\ job[w].next = Addresses
           /\ z \in covers[job[w].zone] \cap row
        THEN queue[n][z] + 1 ELSE queue[n][z]]]

\* One query of generate_fzone, the variation points of the mutants below apart.
ReadTable(w, last, version) ==
    /\ job[w].pc = "read"
    /\ job' = [job EXCEPT ![w] = [@ EXCEPT !.pc = IF last THEN "write" ELSE "read",
                                           !.next = @ + 1, !.snap[job[w].next] = version]]
    /\ queue' = DelayReverse(w)
    /\ UNCHANGED <<dbVars, todo, file, catalogDue, knotVars, requests, faults,
                   historyVars>>

\* Mutant: the loop over the tables ends one too late.
generate_fzone_off_by_one(w) ==
    ReadTable(w, job[w].next > NumTables, db[job[w].zone][job[w].next])

\* Mutant: the last table is forgotten.
generate_fzone_forgets_table(w) ==
    ReadTable(w, job[w].next + 1 >= NumTables, db[job[w].zone][job[w].next])

\* Mutant: the reverse zones of the addresses are forgotten.
generate_fzone_no_rzones(w) ==
    /\ job[w].pc = "read"
    /\ job' = [job EXCEPT ![w] = [@ EXCEPT !.pc = IF job[w].next = NumTables THEN "write" ELSE "read",
                                           !.next = @ + 1,
                                           !.snap[job[w].next] = db[job[w].zone][job[w].next]]]
    /\ UNCHANGED <<dbVars, todo, queue, file, catalogDue, knotVars, requests, faults,
                   historyVars>>

\* generate_fzone: one query per table, outside of any transaction.
generate_fzone(w) ==
    /\ job[w].pc = "read"
    /\ LET t == job[w].next
       IN job' = [job EXCEPT ![w] =
                     [pc |-> IF t = NumTables THEN "write" ELSE "read",
                      name |-> job[w].name, zone |-> job[w].zone, next |-> t + 1,
                      snap |-> [job[w].snap EXCEPT ![t] = db[job[w].zone][t]]]]
    /\ queue' = DelayReverse(w)
    /\ UNCHANGED <<dbVars, todo, file, catalogDue, knotVars, requests, faults,
                   historyVars>>

\* Mutant: the file is written in place and Knot reads it when half of it is new.
write_zone_file_in_place(w) ==
    LET z == job[w].zone
        s == job[w].snap
    IN /\ job[w].pc = "write"
       /\ file' = [file EXCEPT ![z] = s]
       /\ served' = IF z \in member THEN [served EXCEPT ![z][1] = s[1]] ELSE served
       /\ job' = [job EXCEPT ![w].pc = "publish"]
       /\ raced' = IF s = db[z] THEN raced \ {z}
                   ELSE IF \E t \in Tables : s[t] < file[z][t] THEN raced \cup {z}
                   ELSE raced
       /\ missed' = IF job[w].name = "add_fzone" /\ z \in member
                    THEN missed \cup {z} ELSE missed
       /\ UNCHANGED <<dbVars, todo, queue, catalogDue, reloads, sidecarUp, member,
                      requests, faults>>

\* write_zone_file replaces the object.  History: a worker that read before
\* another one may write after it; a file that equals the tables ends a race.
\* add_fzone sends no reload, so Knot misses the file of a zone it serves.
write_zone_file(w) ==
    LET z == job[w].zone
        s == job[w].snap
    IN /\ job[w].pc = "write"
       /\ file' = [file EXCEPT ![z] = s]
       /\ job' = [job EXCEPT ![w].pc = "publish"]
       /\ raced' = IF s = db[z] THEN raced \ {z}
                   ELSE IF \E t \in Tables : s[t] < file[z][t] THEN raced \cup {z}
                   ELSE raced
       /\ missed' = IF job[w].name = "add_fzone" /\ z \in member
                    THEN missed \cup {z} ELSE missed
       /\ UNCHANGED <<dbVars, todo, queue, catalogDue, knotVars, requests, faults>>

\* Mutant: update_fzone ends without the reload message.
send_reload_message_forgotten(w) ==
    /\ job[w].pc = "publish"
    /\ job[w].name = "update_fzone"
    /\ Finish(w)
    /\ UNCHANGED <<dbVars, todo, queue, file, catalogDue, knotVars, requests, faults,
                   historyVars>>

\* basic_publish to a fanout exchange: dropped when no queue is bound.
send_reload_message(w) ==
    LET z == job[w].zone
    IN /\ job[w].pc = "publish"
       /\ job[w].name = "update_fzone"
       /\ Finish(w)
       /\ \/ /\ sidecarUp
             /\ reloads' = [reloads EXCEPT ![z] = @ + 1]
             /\ UNCHANGED missed
          \/ /\ ~sidecarUp
             /\ missed' = missed \cup {z}
             /\ UNCHANGED reloads
       /\ UNCHANGED <<dbVars, todo, queue, file, catalogDue, sidecarUp, member,
                      served, requests, faults, raced>>

\* The last statement of add_fzone: update_catalog.delay().
delay_catalog(w) ==
    /\ job[w].pc = "publish"
    /\ job[w].name = "add_fzone"
    /\ Finish(w)
    /\ catalogDue' = TRUE
    /\ UNCHANGED <<dbVars, todo, queue, file, knotVars, requests, faults,
                   historyVars>>

\* autoretry_for=(Exception,), max_retries=None: the task is enqueued again.
TaskError(w) ==
    /\ job[w].pc # "idle"
    /\ faults < MaxFaults
    /\ faults' = faults + 1
    /\ queue' = [queue EXCEPT ![job[w].name][job[w].zone] = @ + 1]
    /\ Finish(w)
    /\ UNCHANGED <<dbVars, todo, file, catalogDue, knotVars, requests,
                   historyVars>>

\* The worker process is killed; its message was acknowledged already.
WorkerCrash(w) ==
    /\ job[w].pc # "idle"
    /\ faults < MaxFaults
    /\ faults' = faults + 1
    /\ Finish(w)
    /\ raced' = CASE job[w].pc = "publish" -> raced
                 [] job[w].pc = "read" /\ job[w].next <= Addresses ->
                       raced \cup {job[w].zone} \cup covers[job[w].zone]
                 [] OTHER -> raced \cup {job[w].zone}
    /\ missed' = IF job[w].name = "update_fzone"
                 THEN missed \cup {job[w].zone} ELSE missed
    /\ UNCHANGED <<dbVars, todo, queue, file, catalogDue, knotVars, requests>>

TaskStep(w) ==
    \/ \E n \in TaskNames, z \in Zones : StartTask(w, n, z)
    \/ generate_fzone(w)
    \/ write_zone_file(w)
    \/ send_reload_message(w)
    \/ delay_catalog(w)

------------------------------------------------------------------------------
(* The sidecar and Knot.                                                     *)

\* Mutant: a failed zone-reload is acknowledged too.
callback_reload_acks_errors(z) ==
    /\ sidecarUp
    /\ reloads[z] > 0
    /\ reloads' = [reloads EXCEPT ![z] = @ - 1]
    /\ UNCHANGED <<dbVars, todo, queue, job, file, catalogDue, sidecarUp, member,
                   served, requests, faults, historyVars>>

\* callback_reload: zone-reload, then ack.  A zone Knot does not know ("no
\* such zone found") is acknowledged as well; any other error requeues the
\* message and changes nothing.
callback_reload(z) ==
    /\ sidecarUp
    /\ reloads[z] > 0
    /\ reloads' = [reloads EXCEPT ![z] = @ - 1]
    /\ IF z \in member
       THEN /\ served' = [served EXCEPT ![z] = file[z]]
            /\ missed' = missed \ {z}
       ELSE UNCHANGED <<served, missed>>
    /\ UNCHANGED <<dbVars, todo, queue, job, file, catalogDue, sidecarUp, member,
                   requests, faults, raced>>

\* A failing ctl.connect() or a lost broker connection ends the sidecar; its
\* exclusive queue is deleted with everything in it.
SidecarCrash ==
    /\ sidecarUp
    /\ faults < MaxFaults
    /\ faults' = faults + 1
    /\ sidecarUp' = FALSE
    /\ reloads' = [z \in Zones |-> 0]
    /\ missed' = missed \cup {z \in Zones : reloads[z] > 0}
    /\ UNCHANGED <<dbVars, todo, queue, job, file, catalogDue, member, served,
                   requests, raced>>

\* The pod restarts the container, main() declares a new queue.
SidecarStart ==
    /\ ~sidecarUp
    /\ sidecarUp' = TRUE
    /\ UNCHANGED <<dbVars, todo, queue, job, file, catalogDue, reloads, member,
                   served, requests, faults, historyVars>>

\* update_catalog and Knot's reload of the catalog zone, in one step: Knot
\* reads the files of new members and forgets removed ones.  S is any set of
\* zones that were ever created: which ones a run of update_catalog lists
\* depends on their owners and on when the run read the tables (CatalogSync).
CatalogReload(S) ==
    /\ \A z \in S : Created(z)
    /\ catalogDue \/ S # member
    /\ catalogDue' = FALSE
    /\ member' = S
    /\ served' = [z \in Zones |-> IF z \notin S THEN Empty
                                  ELSE IF z \in member THEN served[z]
                                  ELSE file[z]]
    /\ missed' = missed \cap member \cap S
    /\ UNCHANGED <<dbVars, todo, queue, job, file, reloads, sidecarUp, requests,
                   faults, raced>>

------------------------------------------------------------------------------
\* Some zones exist and are published.
Init ==
    /\ row \in SUBSET Zones
    /\ db = [z \in Zones |-> IF z \in row THEN First ELSE Empty]
    /\ covers \in [Zones -> SUBSET Zones]
    /\ \A z \in Zones : covers[z] \subseteq (IF z \in row THEN Reverse[z] ELSE {})
    /\ todo = [h \in Handlers |-> <<>>]
    /\ queue = [n \in TaskNames |-> [z \in Zones |-> 0]]
    /\ job = [w \in Workers |-> Idle]
    /\ file = db
    /\ catalogDue = FALSE
    /\ reloads = [z \in Zones |-> 0]
    /\ sidecarUp = TRUE
    /\ member = row
    /\ served = db
    /\ requests = 0
    /\ faults = 0
    /\ raced = {}
    /\ missed = {}

RequestSteps(h) == RequestStep(h) \/ IntegrityError(h)

Next ==
    \/ \E h \in Handlers : Request(h) \/ RequestSteps(h) \/ RequestDies(h)
    \/ \E w \in Workers : TaskStep(w) \/ TaskError(w) \/ WorkerCrash(w)
    \/ \E z \in Zones : callback_reload(z)
    \/ SidecarCrash
    \/ SidecarStart
    \/ \E S \in SUBSET Zones : CatalogReload(S)

\* A request that started runs on, celery keeps its workers busy, the sidecar
\* consumes its queue and is restarted by its pod.  Nobody has to send requests
\* and nothing has to fail.
Fairness ==
    /\ \A h \in Handlers : WF_vars(RequestSteps(h))
    /\ \A w \in Workers : WF_vars(TaskStep(w))
    /\ \A z \in Zones : WF_vars(callback_reload(z))
    /\ WF_vars(SidecarStart)

Spec == Init /\ [][Next]_vars
FairSpec == Spec /\ Fairness

------------------------------------------------------------------------------
(* Properties.                                                               *)

\* Every variable holds a value of its kind; in particular a queue never
\* counts below zero and a worker's cursor stays within the tables.
TypeOK ==
    /\ row \subseteq Zones
    /\ db \in [Zones -> Content]
    /\ covers \in [Zones -> SUBSET Zones]
    /\ \A z \in Zones : covers[z] \subseteq (IF z \in row THEN Reverse[z] ELSE {})
    /\ todo \in [Handlers -> Seq(Step)]
    /\ queue \in [TaskNames -> [Zones -> Nat]]
    /\ job \in [Workers -> Job]
    /\ \A w \in Workers : job[w].pc = "read" => job[w].next \in Tables
    /\ file \in [Zones -> Content]
    /\ catalogDue \in BOOLEAN
    /\ reloads \in [Zones -> Nat]
    /\ sidecarUp \in BOOLEAN
    /\ member \subseteq Zones
    /\ served \in [Zones -> Content]
    /\ requests \in Nat
    /\ faults \in Nat
    /\ raced \subseteq Zones
    /\ missed \subseteq Zones

\* The file's table t is current, or somebody is going to make it current: a
\* task is waiting, a worker has yet to read t, or holds the current t unwritten.
Covered(z, t) ==
    \/ file[z][t] = db[z][t]
    \/ Announced(z, t)
    \/ \E w \in Workers : /\ job[w].pc \in {"read", "write"}
                          /\ job[w].zone = z
                          /\ job[w].snap[t] = db[z][t]

\* A table of a zone's file is stale with nobody left to refresh it only after
\* one of the races write_zone_file, the record models, zone.save() and a
\* killed worker or request can lose; retries, torn reads and early returns never cause it.
StaleOnlyIfRaced ==
    \A z \in row : z \in raced \/ \A t \in Tables : Covered(z, t)

\* An update_fzone task of z is on its way, or its reload message is.
ReloadPending(z) ==
    \/ reloads[z] > 0
    \/ queue["update_fzone"][z] > 0
    \/ \E w \in Workers : /\ job[w].pc # "idle"
                          /\ job[w].name = "update_fzone"
                          /\ job[w].zone = z

\* Knot serves what the zone file of a member holds, or a reload of it is on
\* its way, unless a reload was lost (sidecar down, worker killed, zone row
\* brought back) or add_fzone rewrote the file of a zone Knot already serves.
ServedTracksFile ==
    \A z \in row \cap member : \/ z \in missed
                               \/ served[z] = file[z]
                               \/ ReloadPending(z)

\* No worker reads, no file holds and Knot never serves a table version that
\* was not committed: tasks are enqueued before the commit, but what a failed or
\* aborted request would have written cannot be published.
NothingUncommitted ==
    \A t \in Tables :
        /\ \A z \in Zones : file[z][t] <= db[z][t] /\ served[z][t] <= db[z][t]
        /\ \A w \in Workers : job[w].snap[t] <= db[job[w].zone][t]

Abstract == INSTANCE Publication
              WITH Zones <- Zones, Tables <- Tables, db <- db, file <- file, served <- served

\* The pipeline implements Publication: however requests, workers, retries and
\* crashes interleave, no step changes tables and file or file and Knot's zone
\* together, a file only ever holds committed tables, and what Knot takes over is
\* the whole file as it is at that moment, never one that is being written.
ImplementsPublication == Abstract!Spec

\* Once requests and faults cease, the file of every zone ends up equal to its
\* tables unless the zone lost a race: every enqueued task is finally executed.
FilesConverge ==
    \A z \in Zones : <>[](z \in row => z \in raced \/ file[z] = db[z])

\* Once requests and faults cease, Knot ends up serving the file of every
\* member unless its reload was lost.
ServedConverges ==
    \A z \in Zones :
        <>[](z \in row \cap member => z \in missed \/ served[z] = file[z])

==============================================================================
