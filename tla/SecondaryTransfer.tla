--------------------------- MODULE SecondaryTransfer ---------------------------
(***************************************************************************)
(* Secondary zones: the cron job transfer-secondary copies each zone from  *)
(* its primary into the database, a Celery task writes the zone file.      *)
(*                                                                         *)
(* The job compares serials, transfers, deletes the old records and saves  *)
(* the new ones one by one, then the serial, then enqueues update_szone;   *)
(* nothing of it is a transaction and it may die anywhere.  It saves whole *)
(* zone objects loaded when it started, as validate-ns and the views do.   *)
(* There is one job at a time (concurrencyPolicy: Forbid).                 *)
(*                                                                         *)
(* A version of a zone at a primary is its serial; a record is the primary *)
(* and version it was copied from and its place in the transfer.           *)
(***************************************************************************)
EXTENDS Naturals

CONSTANTS
    Zones,        \* ids of secondary zones
    Primaries,    \* primary name servers
    Broken,       \* zones whose primary closes the connection at once
    Handlers,     \* concurrent views and validate-ns
    Workers,      \* celery worker processes
    NumRecords,   \* records of a zone
    MaxChanges,   \* bound: views, validate-ns and changes at the primaries
    MaxFaults     \* bound: failures, kills and crashes

ASSUME SetsAssumption == Zones # {} /\ Primaries # {} /\ Broken \subseteq Zones
ASSUME BoundsAssumption ==
    NumRecords \in Nat \ {0} /\ MaxChanges \in Nat /\ MaxFaults \in Nat

Record == [primary : Primaries, version : Nat, place : 1 .. NumRecords]

\* What a transfer of version v from p brings.
Copy(p, v) == {[primary |-> p, version |-> v, place |-> i] : i \in 1 .. NumRecords}

\* The columns of SecondaryDNSZone that matter; serial 0 is NULL.
Columns == [serial : Nat, primary : Primaries, error : BOOLEAN]

AnyZone == CHOOSE z \in Zones : TRUE
AnyPrimary == CHOOSE p \in Primaries : TRUE
NewColumns(p) == [serial |-> 0, primary |-> p, error |-> FALSE]

VARIABLES
    row,        \* zones that have a row
    created,    \* ids handed out so far
    columns,    \* columns[z]: the row of z
    records,    \* records[z]: its SecondaryDNSZoneRecords
    version,    \* version[p][z]: serial of z at the primary p
    held,       \* held[h]: the zone object a view or validate-ns has loaded
    cron,       \* the transfer-secondary job
    queue,      \* queue[z]: add_szone and update_szone messages
    job,        \* job[w]: the task worker w is executing
    file,       \* file[z]: records in the zone file
    changes,    \* changes so far
    faults,     \* faults so far
    disturbed,  \* history: serial or primary saved by others since the transfer
    lost        \* history: zones whose last refresh of the file was lost

dbVars == <<row, created, columns, records>>
taskVars == <<queue, job, file>>
vars == <<row, created, columns, records, version, held, cron, queue, job, file,
          changes, faults, disturbed, lost>>

Change == changes < MaxChanges /\ changes' = changes + 1
Fault == faults < MaxFaults /\ faults' = faults + 1

\* zone.save() of a loaded object: all columns are written, a missing row is
\* inserted.  History: serial and primary are no longer the last transfer's.
SaveZone(z, c) ==
    /\ row' = row \cup {z}
    /\ columns' = [columns EXCEPT ![z] = c]
    /\ disturbed' = IF /\ z \in row
                       /\ c.serial = columns[z].serial
                       /\ c.primary = columns[z].primary
                    THEN disturbed ELSE disturbed \cup {z}
    /\ UNCHANGED <<created, records>>

------------------------------------------------------------------------------
(* Views and validate-ns.                                                    *)

Held == [pc : {"idle", "add_szone", "loaded"}, zone : Zones, columns : Columns]
Nothing == [pc |-> "idle", zone |-> AnyZone, columns |-> NewColumns(AnyPrimary)]
Done(h) == held' = [held EXCEPT ![h] = Nothing]

\* The row; add_szone.delay() is the last statement.
create_szone(h, z, p) ==
    /\ held[h].pc = "idle"
    /\ z \notin created
    /\ Change
    /\ row' = row \cup {z}
    /\ created' = created \cup {z}
    /\ columns' = [columns EXCEPT ![z] = NewColumns(p)]
    /\ held' = [held EXCEPT ![h] = [pc |-> "add_szone", zone |-> z,
                                    columns |-> NewColumns(p)]]
    /\ UNCHANGED <<records, version, cron, taskVars, faults, disturbed, lost>>

delay_add_szone(h) ==
    /\ held[h].pc = "add_szone"
    /\ queue' = [queue EXCEPT ![held[h].zone] = @ + 1]
    /\ Done(h)
    /\ UNCHANGED <<dbVars, version, cron, job, file, changes, faults, disturbed, lost>>

\* get_object_or_404(), or an element of the list validate-ns goes through.
load_szone(h, z) ==
    /\ held[h].pc = "idle"
    /\ z \in row
    /\ Change
    /\ held' = [held EXCEPT ![h] = [pc |-> "loaded", zone |-> z,
                                    columns |-> columns[z]]]
    /\ UNCHANGED <<dbVars, version, cron, taskVars, faults, disturbed, lost>>

\* edit_szone: a new primary; validate-ns: the columns as they were.
save_szone(h, p) ==
    /\ held[h].pc = "loaded"
    /\ SaveZone(held[h].zone, [held[h].columns EXCEPT !.primary = p])
    /\ Done(h)
    /\ UNCHANGED <<version, cron, taskVars, changes, faults, lost>>

edit_szone(h) == \E p \in Primaries : save_szone(h, p)
validate_ns(h) == save_szone(h, held[h].columns.primary)

\* The records go with the row (CASCADE); the file stays.  update_catalog, which
\* follows, is CatalogSync's.
delete_szone(h) ==
    LET z == held[h].zone
    IN /\ held[h].pc = "loaded"
       /\ row' = row \ {z}
       /\ records' = [records EXCEPT ![z] = {}]
       /\ Done(h)
       /\ UNCHANGED <<created, columns, version, cron, taskVars, changes, faults,
                      disturbed, lost>>

HandlerDies(h) ==
    /\ held[h].pc # "idle"
    /\ Fault
    /\ Done(h)
    /\ UNCHANGED <<dbVars, version, cron, taskVars, changes, disturbed, lost>>

------------------------------------------------------------------------------
(* transfer-secondary.                                                       *)

CronPCs == {"idle", "next", "axfr", "delete", "insert", "save", "delay"}
\* todo: zones left; objects: the zones as loaded at the start; zone, serial,
\* rrs and left: the transfer going on; known: response_len has a value.
Cron == [pc : CronPCs, todo : SUBSET Zones, objects : [Zones -> Columns],
         zone : Zones, serial : Nat, rrs : SUBSET Record,
         left : SUBSET Record, known : BOOLEAN]
Stopped == [pc |-> "idle", todo |-> {},
            objects |-> [z \in Zones |-> NewColumns(AnyPrimary)],
            zone |-> AnyZone, serial |-> 0, rrs |-> {}, left |-> {}, known |-> FALSE]

\* All objects are loaded by one query.
start_transfers ==
    /\ cron.pc = "idle"
    /\ cron' = [Stopped EXCEPT !.pc = "next", !.todo = row, !.objects = columns]
    /\ UNCHANGED <<dbVars, version, held, taskVars, changes, faults, disturbed, lost>>

\* zone.error = ...; zone.save(); continue
SaveAndContinue(z, error, known) ==
    /\ SaveZone(z, [cron.objects[z] EXCEPT !.error = error])
    /\ cron' = [cron EXCEPT !.pc = "next", !.todo = @ \ {z}, !.known = known]

\* No address, no connection, a timeout, or an answer that is not one RR.  One RR
\* that is no SOA has no times: the AttributeError ends the job.
soa_fails(z) ==
    /\ cron.pc = "next" /\ z \in cron.todo
    /\ z \notin Broken
    /\ Fault
    /\ \/ \E known \in {cron.known, TRUE} : SaveAndContinue(z, TRUE, known)
       \/ cron' = Stopped /\ UNCHANGED <<dbVars, disturbed>>
    /\ UNCHANGED <<version, held, taskVars, changes, lost>>

\* The connection is closed instead of an answer.  The struct.error is caught,
\* but response_len, used next, has the value of an earlier zone or none: then
\* the UnboundLocalError ends the job.
soa_closed(z) ==
    /\ cron.pc = "next" /\ z \in cron.todo
    /\ IF z \in Broken THEN UNCHANGED faults ELSE Fault
    /\ \/ cron.known /\ SaveAndContinue(z, TRUE, TRUE)
       \/ /\ ~cron.known
          /\ cron' = Stopped
          /\ UNCHANGED <<dbVars, disturbed>>
    /\ UNCHANGED <<version, held, taskVars, changes, lost>>

\* Mutant: the error flag is not reset when the serial is identical.
soa_query_keeps_error(z) ==
    LET c == cron.objects[z]
        serial == version[c.primary][z]
    IN /\ cron.pc = "next" /\ z \in cron.todo
       /\ z \notin Broken
       /\ \/ serial = c.serial /\ SaveAndContinue(z, c.error, TRUE)
          \/ /\ serial # c.serial
             /\ cron' = [cron EXCEPT !.pc = "axfr", !.todo = @ \ {z}, !.zone = z,
                                     !.serial = serial, !.known = TRUE]
             /\ UNCHANGED <<dbVars, disturbed>>
       /\ UNCHANGED <<version, held, taskVars, changes, faults, lost>>

\* The serial of the primary, compared with the loaded object's.
soa_query(z) ==
    LET serial == version[cron.objects[z].primary][z]
    IN /\ cron.pc = "next" /\ z \in cron.todo
       /\ z \notin Broken
       /\ \/ /\ serial = cron.objects[z].serial
             /\ SaveAndContinue(z, FALSE, TRUE)
          \/ /\ serial # cron.objects[z].serial
             /\ cron' = [cron EXCEPT !.pc = "axfr", !.todo = @ \ {z}, !.zone = z,
                                     !.serial = serial, !.known = TRUE]
             /\ UNCHANGED <<dbVars, disturbed>>
       /\ UNCHANGED <<version, held, taskVars, changes, faults, lost>>

\* Mutant: the serial is saved before the records are replaced.
axfr_query_saves_serial ==
    LET z == cron.zone
        p == cron.objects[z].primary
    IN /\ cron.pc = "axfr"
       /\ cron' = [cron EXCEPT !.pc = "delete", !.rrs = Copy(p, version[p][z]),
                               !.left = Copy(p, version[p][z])]
       /\ columns' = [columns EXCEPT ![z].serial = cron.serial]
       /\ UNCHANGED <<row, created, records, version, held, taskVars, changes, faults,
                      disturbed, lost>>

\* The whole stream, from the first SOA to the second: what the primary has now.
axfr_query ==
    LET z == cron.zone
        p == cron.objects[z].primary
    IN /\ cron.pc = "axfr"
       /\ cron' = [cron EXCEPT !.pc = "delete", !.rrs = Copy(p, version[p][z]),
                               !.left = Copy(p, version[p][z])]
       /\ UNCHANGED <<dbVars, version, held, taskVars, changes, faults, disturbed, lost>>

\* An error, a stream that breaks off, or more than two SOAs.
axfr_fails ==
    /\ cron.pc = "axfr"
    /\ Fault
    /\ SaveAndContinue(cron.zone, TRUE, TRUE)
    /\ UNCHANGED <<version, held, taskVars, changes, lost>>

delete_records ==
    /\ cron.pc = "delete"
    /\ records' = [records EXCEPT ![cron.zone] = {}]
    /\ cron' = [cron EXCEPT !.pc = "insert"]
    /\ UNCHANGED <<row, created, columns, version, held, taskVars, changes, faults,
                   disturbed, lost>>

\* rr.save(); without a row of the zone an IntegrityError ends the job.
insert_record(r) ==
    LET z == cron.zone
    IN /\ cron.pc = "insert"
       /\ r \in cron.left
       /\ \/ /\ z \in row
             /\ records' = [records EXCEPT ![z] = @ \cup {r}]
             /\ cron' = [cron EXCEPT !.left = @ \ {r},
                                     !.pc = IF cron.left = {r} THEN "save" ELSE "insert"]
          \/ /\ z \notin row
             /\ cron' = Stopped
             /\ UNCHANGED records
       /\ UNCHANGED <<row, created, columns, version, held, taskVars, changes,
                      faults, disturbed, lost>>

\* Serial and error.  History: the row is again what a transfer left.
save_serial ==
    LET z == cron.zone
    IN /\ cron.pc = "save"
       /\ row' = row \cup {z}
       /\ columns' = [columns EXCEPT ![z] = [cron.objects[z] EXCEPT
                                                !.serial = cron.serial,
                                                !.error = FALSE]]
       /\ cron' = [cron EXCEPT !.pc = "delay"]
       /\ disturbed' = IF records[z] = cron.rrs THEN disturbed \ {z}
                       ELSE disturbed \cup {z}
       /\ UNCHANGED <<created, records, version, held, taskVars, changes, faults, lost>>

\* Mutant: no task after the transfer.
delay_update_szone_forgotten ==
    /\ cron.pc = "delay"
    /\ cron' = [cron EXCEPT !.pc = "next"]
    /\ UNCHANGED <<dbVars, version, held, taskVars, changes, faults, disturbed, lost>>

delay_update_szone ==
    /\ cron.pc = "delay"
    /\ queue' = [queue EXCEPT ![cron.zone] = @ + 1]
    /\ cron' = [cron EXCEPT !.pc = "next"]
    /\ UNCHANGED <<dbVars, version, held, job, file, changes, faults, disturbed, lost>>

finish_transfers ==
    /\ cron.pc = "next"
    /\ cron.todo = {}
    /\ cron' = Stopped
    /\ UNCHANGED <<dbVars, version, held, taskVars, changes, faults, disturbed, lost>>

\* The pod is killed.  History: a serial that was saved is not transferred
\* again, so a task that was not enqueued yet never will be.
TransferDies ==
    /\ cron.pc # "idle"
    /\ Fault
    /\ cron' = Stopped
    /\ lost' = IF cron.pc = "delay" THEN lost \cup {cron.zone} ELSE lost
    /\ UNCHANGED <<dbVars, version, held, taskVars, changes, disturbed>>

CronStep ==
    \/ start_transfers
    \/ \E z \in Zones : soa_query(z) \/ soa_closed(z)
    \/ axfr_query
    \/ delete_records
    \/ \E r \in cron.left : insert_record(r)
    \/ save_serial
    \/ delay_update_szone
    \/ finish_transfers

------------------------------------------------------------------------------
(* add_szone and update_szone; the reload message that follows the file is    *)
(* ZonePublication's, the catalog CatalogSync's.                              *)

Job == [pc : {"idle", "read", "write"}, zone : Zones, snap : SUBSET Record]
Idle == [pc |-> "idle", zone |-> AnyZone, snap |-> {}]

\* Mutant: a message counts as received twice.
StartTask_takes_two(w, z) ==
    /\ job[w].pc = "idle"
    /\ queue[z] > 0
    /\ queue' = [queue EXCEPT ![z] = @ - 2]
    /\ job' = [job EXCEPT ![w] = [pc |-> "read", zone |-> z, snap |-> {}]]
    /\ UNCHANGED <<dbVars, version, held, cron, file, changes, faults, disturbed, lost>>

\* Messages are acknowledged when received; without a row the task returns.
StartTask(w, z) ==
    /\ job[w].pc = "idle"
    /\ queue[z] > 0
    /\ queue' = [queue EXCEPT ![z] = @ - 1]
    /\ job' = IF z \in row
              THEN [job EXCEPT ![w] = [pc |-> "read", zone |-> z, snap |-> {}]]
              ELSE job
    /\ UNCHANGED <<dbVars, version, held, cron, file, changes, faults, disturbed, lost>>

generate_szone(w) ==
    /\ job[w].pc = "read"
    /\ job' = [job EXCEPT ![w].pc = "write", ![w].snap = records[job[w].zone]]
    /\ UNCHANGED <<dbVars, version, held, cron, queue, file, changes, faults,
                   disturbed, lost>>

\* History: an older snapshot may replace the current file.
write_zone_file(w) ==
    LET z == job[w].zone
        s == job[w].snap
    IN /\ job[w].pc = "write"
       /\ file' = [file EXCEPT ![z] = s]
       /\ job' = [job EXCEPT ![w] = Idle]
       /\ lost' = IF s = records[z] THEN lost \ {z}
                  ELSE IF file[z] = records[z] THEN lost \cup {z}
                  ELSE lost
       /\ UNCHANGED <<dbVars, version, held, cron, queue, changes, faults, disturbed>>

\* autoretry_for=(Exception,)
TaskError(w) ==
    /\ job[w].pc # "idle"
    /\ Fault
    /\ queue' = [queue EXCEPT ![job[w].zone] = @ + 1]
    /\ job' = [job EXCEPT ![w] = Idle]
    /\ UNCHANGED <<dbVars, version, held, cron, file, changes, disturbed, lost>>

WorkerCrash(w) ==
    /\ job[w].pc # "idle"
    /\ Fault
    /\ job' = [job EXCEPT ![w] = Idle]
    /\ lost' = lost \cup {job[w].zone}
    /\ UNCHANGED <<dbVars, version, held, cron, queue, file, changes, disturbed>>

TaskStep(w) ==
    \/ \E z \in Zones : StartTask(w, z)
    \/ generate_szone(w)
    \/ write_zone_file(w)

------------------------------------------------------------------------------
\* The owner edits the zone at the primary.
primary_changes(p, z) ==
    /\ Change
    /\ version' = [version EXCEPT ![p][z] = @ + 1]
    /\ UNCHANGED <<dbVars, held, cron, taskVars, faults, disturbed, lost>>

\* Some zones exist and were transferred when their serial was 1.
Init ==
    /\ row \in SUBSET Zones /\ created = row
    /\ columns = [z \in Zones |-> [NewColumns(AnyPrimary) EXCEPT
                                      !.serial = IF z \in row THEN 1 ELSE 0]]
    /\ records = [z \in Zones |-> IF z \in row THEN Copy(AnyPrimary, 1) ELSE {}]
    /\ version = [p \in Primaries |-> [z \in Zones |-> 1]]
    /\ held = [h \in Handlers |-> Nothing]
    /\ cron = Stopped
    /\ queue = [z \in Zones |-> 0]
    /\ job = [w \in Workers |-> Idle]
    /\ file = records
    /\ changes = 0 /\ faults = 0
    /\ disturbed = {} /\ lost = {}

ViewStep(h) == delay_add_szone(h) \/ edit_szone(h) \/ validate_ns(h) \/ delete_szone(h)

Next ==
    \/ \E h \in Handlers : \/ \E z \in Zones, p \in Primaries : create_szone(h, z, p)
                           \/ \E z \in Zones : load_szone(h, z)
                           \/ ViewStep(h)
                           \/ HandlerDies(h)
    \/ CronStep
    \/ \E z \in Zones : soa_fails(z)
    \/ axfr_fails
    \/ TransferDies
    \/ \E w \in Workers : TaskStep(w) \/ TaskError(w) \/ WorkerCrash(w)
    \/ \E p \in Primaries, z \in Zones : primary_changes(p, z)

Spec == Init /\ [][Next]_vars

\* Views run on, Kubernetes starts the job again and again and a job goes on
\* (sockets have timeouts), celery runs its tasks.
Fairness ==
    /\ \A h \in Handlers : WF_vars(ViewStep(h))
    /\ WF_vars(CronStep)
    /\ \A w \in Workers : WF_vars(TaskStep(w))

FairSpec == Spec /\ Fairness

------------------------------------------------------------------------------
(* Properties.                                                               *)

\* Every variable holds a value of its kind.
TypeOK ==
    /\ row \subseteq Zones /\ created \subseteq Zones
    /\ columns \in [Zones -> Columns]
    /\ records \in [Zones -> SUBSET Record]
    /\ version \in [Primaries -> [Zones -> Nat]]
    /\ held \in [Handlers -> Held]
    /\ cron \in Cron
    /\ queue \in [Zones -> Nat]
    /\ job \in [Workers -> Job]
    /\ file \in [Zones -> SUBSET Record]
    /\ changes \in Nat /\ faults \in Nat
    /\ disturbed \subseteq Zones /\ lost \subseteq Zones

\* The next transfer finds another serial at the primary.
Due(z) == columns[z].serial # version[columns[z].primary][z]

\* A transfer that finds the serial it has ("Identical serial, not updating") is
\* right to do nothing: the records are all there and current, whatever died on
\* the way, unless someone else saved a loaded object over serial or primary.
IdenticalSerialIsCurrent ==
    \A z \in row : \/ Due(z)
                   \/ records[z] = Copy(columns[z].primary, columns[z].serial)
                   \/ z \in disturbed

\* Somebody is going to write the zone's file from its current records.
Publishing(z) ==
    \/ queue[z] > 0
    \/ \E w \in Workers : /\ job[w].zone = z
                          /\ job[w].pc = "read" \/ (job[w].pc = "write"
                                                      /\ job[w].snap = records[z])
    \/ cron.pc = "delay" /\ cron.zone = z

\* The zone file has the records, or a task or a transfer is going to bring it
\* there, unless a worker or the job was killed with the task in hand, a worker
\* wrote an older snapshot last, or the row was saved over.
FileStaleOnlyIfLost ==
    \A z \in row : \/ file[z] = records[z]
                   \/ Publishing(z)
                   \/ Due(z)
                   \/ z \in lost \cup disturbed

\* Records and file are those of the primary's zone and no error is shown.
Synchronised(z) ==
    LET c == columns[z]
    IN /\ records[z] = Copy(c.primary, version[c.primary][z])
       /\ z \in lost \/ file[z] = records[z]
       /\ ~c.error

\* Once changes and faults cease, transfer-secondary brings every zone whose
\* primary answers in line with it: "Updates records from primary name servers".
TransfersConverge ==
    \A z \in Zones \ Broken : <>[](z \in row => z \in disturbed \/ Synchronised(z))

==============================================================================
