------------------------ MODULE SecondaryTransferProofs ------------------------
(* Proofs about secondary zones (SecondaryTransfer), for every number of     *)
(* zones, primaries, records, handlers, workers, versions and faults.        *)
EXTENDS SecondaryTransfer, TLAPS

------------------------------------------------------------------------------
(* Types.                                                                    *)

LEMMA AnyTypes == AnyZone \in Zones /\ AnyPrimary \in Primaries
  BY SetsAssumption DEF AnyZone, AnyPrimary

LEMMA NewColumnsType == \A p \in Primaries : NewColumns(p) \in Columns
  BY DEF NewColumns, Columns

LEMMA CopyType == \A p \in Primaries, v \in Nat : Copy(p, v) \in SUBSET Record
  BY DEF Copy, Record

LEMMA NothingType == Nothing \in Held /\ Nothing.pc = "idle"
  BY AnyTypes, NewColumnsType DEF Nothing, Held

LEMMA StoppedType == Stopped \in Cron /\ Stopped.pc = "idle"
  BY AnyTypes, NewColumnsType DEF Stopped, Cron, CronPCs

LEMMA IdleType == Idle \in Job /\ Idle.pc = "idle"
  BY AnyTypes DEF Idle, Job

LEMMA InitType == Init => TypeOK
  <1> SUFFICES ASSUME Init PROVE TypeOK
    OBVIOUS
  <1>1. columns \in [Zones -> Columns]
    BY AnyTypes DEF Init, NewColumns, Columns
  <1>2. records \in [Zones -> SUBSET Record]
    BY AnyTypes, CopyType DEF Init
  <1> QED
    BY <1>1, <1>2, NothingType, StoppedType, IdleType DEF Init, TypeOK

\* What a save of a loaded object leaves of the types.
LEMMA SaveZoneType ==
    ASSUME TypeOK, NEW z \in Zones, NEW c \in Columns, SaveZone(z, c)
    PROVE  /\ row' \subseteq Zones /\ created' \subseteq Zones
           /\ columns' \in [Zones -> Columns]
           /\ records' \in [Zones -> SUBSET Record]
           /\ disturbed' \subseteq Zones
  BY DEF SaveZone, TypeOK

LEMMA DoneType ==
    ASSUME TypeOK, NEW h \in Handlers, Done(h)
    PROVE  held' \in [Handlers -> Held]
  BY NothingType DEF Done, TypeOK

LEMMA CountTypes ==
    /\ TypeOK /\ Change => changes' \in Nat
    /\ TypeOK /\ Fault => faults' \in Nat
  BY DEF TypeOK, Change, Fault

LEMMA HandlerType ==
    ASSUME TypeOK, NEW h \in Handlers,
           \/ \E z \in Zones, p \in Primaries : create_szone(h, z, p)
           \/ \E z \in Zones : load_szone(h, z)
           \/ ViewStep(h)
           \/ HandlerDies(h)
    PROVE  TypeOK'
  <1>0. held[h] \in Held /\ held[h].zone \in Zones /\ held[h].columns \in Columns
    BY DEF TypeOK, Held
  <1>1. ASSUME NEW z \in Zones, NEW p \in Primaries, create_szone(h, z, p) PROVE TypeOK'
    <2>1. NewColumns(p) \in Columns
      BY NewColumnsType
    <2>2. held' \in [Handlers -> Held]
      BY <1>1, <2>1 DEF create_szone, TypeOK, Held
    <2> QED
      BY <1>1, <2>1, <2>2, CountTypes DEF create_szone, TypeOK, taskVars
  <1>2. ASSUME NEW z \in Zones, load_szone(h, z) PROVE TypeOK'
    <2>1. held' \in [Handlers -> Held]
      BY <1>2 DEF load_szone, TypeOK, Held
    <2> QED
      BY <1>2, <2>1, CountTypes DEF load_szone, TypeOK, dbVars, taskVars
  <1>3. CASE delay_add_szone(h)
    <2>1. held' \in [Handlers -> Held]
      BY <1>3, DoneType DEF delay_add_szone
    <2>2. queue' \in [Zones -> Nat]
      BY <1>0, <1>3 DEF delay_add_szone, TypeOK
    <2> QED
      BY <1>3, <2>1, <2>2 DEF delay_add_szone, TypeOK, dbVars
  <1>4. ASSUME NEW p \in Primaries, save_szone(h, p) PROVE TypeOK'
    <2>1. held' \in [Handlers -> Held]
      BY <1>4, DoneType DEF save_szone
    <2>2. [held[h].columns EXCEPT !.primary = p] \in Columns
      BY <1>0 DEF Columns
    <2>3. /\ row' \subseteq Zones /\ created' \subseteq Zones
          /\ columns' \in [Zones -> Columns]
          /\ records' \in [Zones -> SUBSET Record]
          /\ disturbed' \subseteq Zones
      BY <1>0, <1>4, <2>2, SaveZoneType DEF save_szone
    <2> QED
      BY <1>4, <2>1, <2>3 DEF save_szone, TypeOK, taskVars
  <1>5. CASE delete_szone(h)
    <2>1. held' \in [Handlers -> Held]
      BY <1>5, DoneType DEF delete_szone
    <2> QED
      BY <1>0, <1>5, <2>1 DEF delete_szone, TypeOK, taskVars
  <1>6. CASE HandlerDies(h)
    <2>1. held' \in [Handlers -> Held]
      BY <1>6, DoneType DEF HandlerDies
    <2> QED
      BY <1>6, <2>1, CountTypes DEF HandlerDies, TypeOK, dbVars, taskVars
  <1>7. held[h].columns.primary \in Primaries
    BY <1>0 DEF Columns
  <1> QED
    BY <1>1, <1>2, <1>3, <1>4, <1>5, <1>6, <1>7 DEF ViewStep, edit_szone, validate_ns

\* A save of the job, with the error flag set or reset.
LEMMA SaveAndContinueType ==
    ASSUME TypeOK, NEW z \in Zones, NEW e \in BOOLEAN, NEW k \in BOOLEAN,
           SaveAndContinue(z, e, k)
    PROVE  /\ row' \subseteq Zones /\ created' \subseteq Zones
           /\ columns' \in [Zones -> Columns]
           /\ records' \in [Zones -> SUBSET Record]
           /\ disturbed' \subseteq Zones
           /\ cron' \in Cron
  <1>0. cron.objects[z] \in Columns
    BY DEF TypeOK, Cron
  <1>1. [cron.objects[z] EXCEPT !.error = e] \in Columns
    BY <1>0 DEF Columns
  <1>2. cron' \in Cron
    BY DEF SaveAndContinue, TypeOK, Cron, CronPCs
  <1> QED
    BY <1>1, <1>2, SaveZoneType DEF SaveAndContinue

LEMMA CronType ==
    ASSUME TypeOK,
           \/ CronStep
           \/ \E z \in Zones : soa_fails(z) \/ soa_closed(z)
           \/ axfr_fails
           \/ TransferDies
    PROVE  TypeOK'
  <1>0. /\ cron \in Cron /\ cron.zone \in Zones /\ cron.known \in BOOLEAN
        /\ cron.objects \in [Zones -> Columns]
        /\ cron.rrs \in SUBSET Record /\ cron.left \in SUBSET Record
    BY DEF TypeOK, Cron
  <1>1. CASE start_transfers
    <2>1. cron' \in Cron
      BY <1>1, StoppedType DEF start_transfers, TypeOK, Cron, CronPCs
    <2> QED
      BY <1>1, <2>1 DEF start_transfers, TypeOK, dbVars, taskVars
  <1>2. ASSUME NEW z \in Zones, soa_query(z) PROVE TypeOK'
    <2>1. CASE SaveAndContinue(z, FALSE, TRUE)
      BY <1>2, <2>1, SaveAndContinueType DEF soa_query, TypeOK, taskVars
    <2>2. CASE /\ cron' = [cron EXCEPT !.pc = "axfr", !.todo = @ \ {z}, !.zone = z,
                              !.serial = version[cron.objects[z].primary][z],
                              !.known = TRUE]
               /\ UNCHANGED <<dbVars, disturbed>>
      <3>1. version[cron.objects[z].primary][z] \in Nat
        BY <1>0 DEF TypeOK, Columns
      <3>2. cron' \in Cron
        BY <1>0, <2>2, <3>1 DEF Cron, CronPCs
      <3> QED
        BY <1>2, <2>2, <3>2 DEF soa_query, TypeOK, dbVars, taskVars
    <2> QED
      BY <1>2, <2>1, <2>2 DEF soa_query
  <1>3. ASSUME NEW z \in Zones, soa_fails(z) PROVE TypeOK'
    <2>1. faults' \in Nat
      BY <1>3, CountTypes DEF soa_fails, TypeOK
    <2>2. ASSUME NEW k \in BOOLEAN, SaveAndContinue(z, TRUE, k) PROVE TypeOK'
      BY <1>3, <2>1, <2>2, SaveAndContinueType DEF soa_fails, TypeOK, taskVars
    <2>3. CASE cron' = Stopped /\ UNCHANGED <<dbVars, disturbed>>
      BY <1>3, <2>1, <2>3, StoppedType DEF soa_fails, TypeOK, taskVars, dbVars
    <2> QED
      BY <1>0, <1>3, <2>2, <2>3 DEF soa_fails
  <1>4. ASSUME NEW z \in Zones, soa_closed(z) PROVE TypeOK'
    <2>1. faults' \in Nat
      BY <1>4, CountTypes DEF soa_closed, TypeOK
    <2>2. CASE SaveAndContinue(z, TRUE, TRUE)
      BY <1>4, <2>1, <2>2, SaveAndContinueType DEF soa_closed, TypeOK, taskVars
    <2>3. CASE cron' = Stopped /\ UNCHANGED <<dbVars, disturbed>>
      BY <1>4, <2>1, <2>3, StoppedType DEF soa_closed, TypeOK, taskVars, dbVars
    <2> QED
      BY <1>4, <2>2, <2>3 DEF soa_closed
  <1>5. CASE axfr_query
    <2>1. version[cron.objects[cron.zone].primary][cron.zone] \in Nat
          /\ cron.objects[cron.zone].primary \in Primaries
      BY <1>0 DEF TypeOK, Columns
    <2>2. cron' \in Cron
      BY <1>0, <1>5, <2>1, CopyType DEF axfr_query, Cron, CronPCs
    <2> QED
      BY <1>5, <2>2 DEF axfr_query, TypeOK, dbVars, taskVars
  <1>6. CASE axfr_fails
    BY <1>0, <1>6, SaveAndContinueType, CountTypes DEF axfr_fails, TypeOK, taskVars
  <1>7. CASE delete_records
    <2>1. cron' \in Cron
      BY <1>0, <1>7 DEF delete_records, Cron, CronPCs
    <2> QED
      BY <1>0, <1>7, <2>1 DEF delete_records, TypeOK, taskVars
  <1>8. ASSUME NEW r \in cron.left, insert_record(r) PROVE TypeOK'
    <2>1. cron' \in Cron
      <3>1. CASE cron.zone \notin row
        BY <1>8, <3>1, StoppedType DEF insert_record
      <3>2. CASE cron.zone \in row
        <4>1. cron' = [cron EXCEPT !.left = @ \ {r},
                                   !.pc = IF cron.left = {r} THEN "save" ELSE "insert"]
          BY <1>8, <3>2 DEF insert_record
        <4>2. cron.left \ {r} \in SUBSET Record
          BY <1>0
        <4> QED
          BY <1>0, <4>1, <4>2 DEF Cron, CronPCs
      <3> QED
        BY <3>1, <3>2
    <2>2. records' \in [Zones -> SUBSET Record]
      BY <1>0, <1>8 DEF insert_record, TypeOK
    <2> QED
      BY <1>8, <2>1, <2>2 DEF insert_record, TypeOK, taskVars
  <1>9. CASE save_serial
    <2>1. [cron.objects[cron.zone] EXCEPT !.serial = cron.serial, !.error = FALSE] \in Columns
      BY <1>0 DEF Columns, Cron
    <2>2. cron' \in Cron
      BY <1>0, <1>9 DEF save_serial, Cron, CronPCs
    <2> QED
      BY <1>0, <1>9, <2>1, <2>2 DEF save_serial, TypeOK, taskVars
  <1>10. CASE delay_update_szone
    <2>1. cron' \in Cron
      BY <1>0, <1>10 DEF delay_update_szone, Cron, CronPCs
    <2> QED
      BY <1>0, <1>10, <2>1 DEF delay_update_szone, TypeOK, dbVars
  <1>11. CASE finish_transfers
    BY <1>11, StoppedType DEF finish_transfers, TypeOK, dbVars, taskVars
  <1>12. CASE TransferDies
    BY <1>0, <1>12, StoppedType, CountTypes DEF TransferDies, TypeOK, dbVars, taskVars
  <1> QED
    BY <1>1, <1>2, <1>3, <1>4, <1>5, <1>6, <1>7, <1>8, <1>9, <1>10, <1>11, <1>12
    DEF CronStep

LEMMA TaskType ==
    ASSUME TypeOK, NEW w \in Workers, TaskStep(w) \/ TaskError(w) \/ WorkerCrash(w)
    PROVE  TypeOK'
  <1>0. job[w] \in Job /\ job[w].zone \in Zones /\ job[w].snap \in SUBSET Record
    BY DEF TypeOK, Job
  <1>1. ASSUME NEW z \in Zones, StartTask(w, z) PROVE TypeOK'
    <2>1. job' \in [Workers -> Job]
      BY <1>1 DEF StartTask, TypeOK, Job
    <2>2. queue' \in [Zones -> Nat]
      BY <1>1 DEF StartTask, TypeOK
    <2> QED
      BY <1>1, <2>1, <2>2 DEF StartTask, TypeOK, dbVars
  <1>2. CASE generate_szone(w)
    <2>1. job' \in [Workers -> Job]
      BY <1>0, <1>2 DEF generate_szone, TypeOK, Job
    <2> QED
      BY <1>2, <2>1 DEF generate_szone, TypeOK, dbVars
  <1>3. CASE write_zone_file(w)
    BY <1>0, <1>3, IdleType DEF write_zone_file, TypeOK, dbVars
  <1>4. CASE TaskError(w)
    BY <1>0, <1>4, IdleType, CountTypes DEF TaskError, TypeOK, dbVars
  <1>5. CASE WorkerCrash(w)
    BY <1>0, <1>5, IdleType, CountTypes DEF WorkerCrash, TypeOK, dbVars
  <1> QED
    BY <1>1, <1>2, <1>3, <1>4, <1>5 DEF TaskStep

LEMMA PrimaryType ==
    ASSUME TypeOK, NEW p \in Primaries, NEW z \in Zones, primary_changes(p, z)
    PROVE  TypeOK'
  BY CountTypes DEF primary_changes, TypeOK, dbVars, taskVars

LEMMA NextType == TypeOK /\ [Next]_vars => TypeOK'
  <1>1. TypeOK /\ UNCHANGED vars => TypeOK'
    BY DEF TypeOK, vars
  <1> QED
    BY <1>1, HandlerType, CronType, TaskType, PrimaryType DEF Next

\* Every variable keeps its type, for any number of zones, primaries and records.
THEOREM TransferTypeCorrect == Spec => []TypeOK
  BY InitType, NextType, PTL DEF Spec

------------------------------------------------------------------------------
(* Records.                                                                  *)

Replacing == {"axfr", "delete", "insert", "save"}

\* Ids in use were created; a transfer is not in the list of zones to come.
CreatedOnly ==
    /\ row \subseteq created
    /\ \A h \in Handlers : held[h].pc # "idle" => held[h].zone \in created
    /\ cron.pc # "idle" => cron.todo \subseteq created
    /\ cron.pc \in Replacing \cup {"delay"} => cron.zone \in created \ cron.todo

\* Serials do not run ahead of the primary, and no primary has the serial NULL.
SerialsBehind ==
    /\ \A p \in Primaries, z \in Zones : version[p][z] > 0
    /\ \A z \in row \ disturbed : columns[z].serial <= version[columns[z].primary][z]

\* Where nobody interfered, the job's objects are as in the database.
ObjectsCurrent ==
    cron.pc # "idle" =>
        \A z \in (cron.todo \cap row) \ disturbed :
            /\ columns[z].serial = cron.objects[z].serial
            /\ columns[z].primary = cron.objects[z].primary

\* A zone being replaced has an older serial than the transfer that replaces
\* it, and what was transferred is not older than the serial asked for.
TransferNewer ==
    LET z == cron.zone
        p == cron.objects[z].primary
    IN cron.pc \in Replacing =>
          /\ cron.serial <= version[p][z]
          /\ z \in row \ disturbed => /\ columns[z].serial < cron.serial
                                      /\ columns[z].primary = p
          /\ cron.pc # "axfr" => \E v \in Nat : /\ cron.serial <= v
                                                /\ v <= version[p][z]
                                                /\ cron.rrs = Copy(p, v)

TransferInv ==
    /\ TypeOK
    /\ CreatedOnly
    /\ SerialsBehind
    /\ ObjectsCurrent
    /\ TransferNewer
    /\ IdenticalSerialIsCurrent

LEMMA InitTransfer == Init => TransferInv
  <1> SUFFICES ASSUME Init PROVE TransferInv
    OBVIOUS
  <1>1. TypeOK
    BY InitType
  <1>2. \A z \in Zones : columns[z].primary = AnyPrimary
                         /\ columns[z].serial = IF z \in row THEN 1 ELSE 0
    BY DEF Init, NewColumns
  <1>3. \A p \in Primaries, z \in Zones : version[p][z] = 1
    BY DEF Init
  <1>4. SerialsBehind /\ IdenticalSerialIsCurrent
    <2>1. \A z \in row : z \in Zones /\ records[z] = Copy(AnyPrimary, 1)
      BY DEF Init
    <2> QED
      BY <1>2, <1>3, <2>1, AnyTypes DEF SerialsBehind, IdenticalSerialIsCurrent, Due
  <1>5. CreatedOnly /\ ObjectsCurrent /\ TransferNewer
    BY NothingType, StoppedType
    DEF Init, CreatedOnly, ObjectsCurrent, TransferNewer, Replacing
  <1> QED
    BY <1>1, <1>4, <1>5 DEF TransferInv

\* A save of a loaded object either keeps serial and primary or disturbs the zone.
LEMMA SaveZoneKeeps ==
    ASSUME TransferInv, NEW z \in created, NEW c \in Columns, SaveZone(z, c),
           UNCHANGED version
    PROVE  /\ row' \subseteq created' /\ created' = created
           /\ SerialsBehind'
           /\ IdenticalSerialIsCurrent'
           /\ \A y \in row' \ disturbed' :
                 /\ y \in row \ disturbed
                 /\ columns'[y].serial = columns[y].serial
                 /\ columns'[y].primary = columns[y].primary
  <1>1. z \in Zones /\ created \subseteq Zones /\ row \subseteq created
    BY DEF TransferInv, TypeOK, CreatedOnly
  <1>2. \A y \in row' \ disturbed' :
           /\ y \in row \ disturbed
           /\ columns'[y].serial = columns[y].serial
           /\ columns'[y].primary = columns[y].primary
    BY <1>1 DEF SaveZone, TransferInv, TypeOK
  <1>3. row' \subseteq created' /\ created' = created /\ records' = records
    BY <1>1 DEF SaveZone
  <1>4. SerialsBehind'
    BY <1>2 DEF TransferInv, SerialsBehind
  <1>5. IdenticalSerialIsCurrent'
    BY <1>2, <1>3 DEF TransferInv, IdenticalSerialIsCurrent, Due
  <1> QED
    BY <1>2, <1>3, <1>4, <1>5

\* Steps that leave the database, the primaries, the job and the views alone.
LEMMA TransferFrame ==
    ASSUME TransferInv, TypeOK',
           UNCHANGED <<row, created, columns, records, version, cron, disturbed>>,
           \A h \in Handlers : held'[h].pc # "idle" => held'[h].zone \in created
    PROVE  TransferInv'
  BY DEF TransferInv, CreatedOnly, SerialsBehind, ObjectsCurrent, TransferNewer,
         IdenticalSerialIsCurrent, Due

LEMMA DoneKeeps ==
    ASSUME TypeOK, CreatedOnly, NEW h \in Handlers, Done(h)
    PROVE  \A g \in Handlers : held'[g].pc # "idle" => held'[g].zone \in created
  BY NothingType DEF Done, TypeOK, CreatedOnly

LEMMA HandlerTransfer ==
    ASSUME TransferInv, TypeOK', NEW h \in Handlers,
           \/ \E z \in Zones, p \in Primaries : create_szone(h, z, p)
           \/ \E z \in Zones : load_szone(h, z)
           \/ ViewStep(h)
           \/ HandlerDies(h)
    PROVE  TransferInv'
  <1>0. TypeOK /\ CreatedOnly /\ held[h] \in Held /\ held[h].columns \in Columns
        /\ created \subseteq Zones
    BY DEF TransferInv, TypeOK, Held
  <1>1. ASSUME NEW z \in Zones, NEW p \in Primaries, create_szone(h, z, p)
        PROVE TransferInv'
    <2>1. /\ z \notin created /\ created' = created \cup {z} /\ row' = row \cup {z}
          /\ columns' = [columns EXCEPT ![z] = NewColumns(p)]
          /\ UNCHANGED <<records, version, cron, disturbed>>
      BY <1>1 DEF create_szone
    <2>2. CreatedOnly'
      BY <1>0, <1>1, <2>1 DEF CreatedOnly, create_szone, TypeOK
    <2>3. columns'[z].serial = 0 /\ columns'[z].primary = p
          /\ \A y \in Zones \ {z} : columns'[y] = columns[y]
      BY <1>0, <2>1 DEF NewColumns, TypeOK
    <2>4. SerialsBehind'
      BY <1>0, <2>1, <2>3 DEF TransferInv, SerialsBehind, CreatedOnly, TypeOK
    <2>5. IdenticalSerialIsCurrent'
      BY <1>0, <2>1, <2>3
      DEF TransferInv, IdenticalSerialIsCurrent, Due, SerialsBehind, CreatedOnly, TypeOK
    <2>6. ObjectsCurrent'
      BY <1>0, <2>1, <2>3 DEF TransferInv, ObjectsCurrent, CreatedOnly, TypeOK
    <2>7. TransferNewer'
      BY <1>0, <2>1, <2>3 DEF TransferInv, TransferNewer, CreatedOnly, TypeOK, Replacing
    <2> QED
      BY <2>2, <2>4, <2>5, <2>6, <2>7 DEF TransferInv
  <1>2. ASSUME NEW z \in Zones, load_szone(h, z) PROVE TransferInv'
    <2>1. \A g \in Handlers : held'[g].pc # "idle" => held'[g].zone \in created
      BY <1>0, <1>2 DEF load_szone, CreatedOnly, TypeOK
    <2> QED
      BY <1>2, <2>1, TransferFrame DEF load_szone, dbVars
  <1>3. CASE delay_add_szone(h)
    BY <1>0, <1>3, DoneKeeps, TransferFrame DEF delay_add_szone, dbVars
  <1>4. ASSUME NEW p \in Primaries, save_szone(h, p) PROVE TransferInv'
    <2>1. held[h].zone \in created
      BY <1>0, <1>4 DEF save_szone, CreatedOnly
    <2>2. [held[h].columns EXCEPT !.primary = p] \in Columns
      BY <1>0 DEF Columns
    <2>3. /\ row' \subseteq created' /\ created' = created
          /\ SerialsBehind'
          /\ IdenticalSerialIsCurrent'
          /\ \A y \in row' \ disturbed' :
                /\ y \in row \ disturbed
                /\ columns'[y].serial = columns[y].serial
                /\ columns'[y].primary = columns[y].primary
      BY <1>4, <2>1, <2>2, SaveZoneKeeps DEF save_szone
    <2>4. CreatedOnly'
      BY <1>0, <1>4, <2>3, DoneKeeps DEF save_szone, CreatedOnly
    <2>5. ObjectsCurrent'
      BY <1>4, <2>3 DEF TransferInv, ObjectsCurrent, save_szone
    <2>6. TransferNewer'
      BY <1>4, <2>3 DEF TransferInv, TransferNewer, save_szone
    <2> QED
      BY <2>3, <2>4, <2>5, <2>6 DEF TransferInv
  <1>5. CASE delete_szone(h)
    <2>1. /\ row' \subseteq row /\ held[h].zone \notin row'
          /\ UNCHANGED <<created, columns, version, cron, disturbed>>
          /\ \A y \in row' : records'[y] = records[y]
      BY <1>0, <1>5 DEF delete_szone, TypeOK, CreatedOnly
    <2>2. CreatedOnly'
      BY <1>0, <1>5, <2>1, DoneKeeps DEF delete_szone, CreatedOnly
    <2>3. SerialsBehind' /\ ObjectsCurrent' /\ TransferNewer'
      BY <2>1 DEF TransferInv, SerialsBehind, ObjectsCurrent, TransferNewer
    <2>4. IdenticalSerialIsCurrent'
      BY <2>1 DEF TransferInv, IdenticalSerialIsCurrent, Due
    <2> QED
      BY <2>2, <2>3, <2>4 DEF TransferInv
  <1>6. CASE HandlerDies(h)
    BY <1>0, <1>6, DoneKeeps, TransferFrame DEF HandlerDies, dbVars
  <1>7. held[h].columns.primary \in Primaries
    BY <1>0 DEF Columns
  <1> QED
    BY <1>1, <1>2, <1>3, <1>4, <1>5, <1>6, <1>7 DEF ViewStep, edit_szone, validate_ns

\* The job saves an object and goes on to the next zone.
LEMMA ContinueTransfer ==
    ASSUME TransferInv, TypeOK', NEW z \in created, NEW e \in BOOLEAN, NEW k \in BOOLEAN,
           cron.pc # "idle", SaveAndContinue(z, e, k), UNCHANGED <<version, held>>
    PROVE  TransferInv'
  <1>0. TypeOK /\ cron \in Cron /\ z \in Zones /\ cron.objects[z] \in Columns
    BY DEF TransferInv, TypeOK, Cron
  <1>1. [cron.objects[z] EXCEPT !.error = e] \in Columns
    BY <1>0 DEF Columns
  <1>2. /\ row' \subseteq created' /\ created' = created
        /\ SerialsBehind'
        /\ IdenticalSerialIsCurrent'
        /\ \A y \in row' \ disturbed' :
              /\ y \in row \ disturbed
              /\ columns'[y].serial = columns[y].serial
              /\ columns'[y].primary = columns[y].primary
    BY <1>1, SaveZoneKeeps DEF SaveAndContinue
  <1>3. cron'.pc = "next" /\ cron'.todo \subseteq cron.todo /\ cron'.objects = cron.objects
    BY <1>0 DEF SaveAndContinue, Cron
  <1>4. CreatedOnly'
    BY <1>2, <1>3 DEF TransferInv, CreatedOnly, Replacing
  <1>5. ObjectsCurrent'
    BY <1>2, <1>3 DEF TransferInv, ObjectsCurrent
  <1>6. TransferNewer'
    BY <1>3 DEF TransferNewer, Replacing
  <1> QED
    BY <1>2, <1>4, <1>5, <1>6 DEF TransferInv

\* The job ends, whatever it was doing.
LEMMA StopTransfer ==
    ASSUME TransferInv, TypeOK', cron' = Stopped,
           UNCHANGED <<row, created, columns, records, version, held, disturbed>>
    PROVE  TransferInv'
  <1>1. CreatedOnly' /\ ObjectsCurrent' /\ TransferNewer'
    BY StoppedType DEF TransferInv, CreatedOnly, ObjectsCurrent, TransferNewer, Replacing
  <1>2. SerialsBehind' /\ IdenticalSerialIsCurrent'
    BY DEF TransferInv, SerialsBehind, IdenticalSerialIsCurrent, Due
  <1> QED
    BY <1>1, <1>2 DEF TransferInv

\* While a zone is being replaced its serial is not the primary's.
LEMMA ReplacingIsDue ==
    ASSUME TransferInv, cron.pc \in Replacing, cron.zone \in row \ disturbed
    PROVE  Due(cron.zone)
  <1>1. /\ cron.zone \in Zones /\ cron.serial \in Nat
        /\ columns[cron.zone].serial \in Nat
        /\ columns[cron.zone].primary \in Primaries
        /\ version[columns[cron.zone].primary][cron.zone] \in Nat
    BY DEF TransferInv, TypeOK, Cron, Columns
  <1> QED
    BY <1>1 DEF TransferInv, TransferNewer, Due

LEMMA CronTransfer ==
    ASSUME TransferInv, TypeOK',
           \/ CronStep
           \/ \E z \in Zones : soa_fails(z) \/ soa_closed(z)
           \/ axfr_fails
           \/ TransferDies
    PROVE  TransferInv'
  <1>0. /\ TypeOK /\ CreatedOnly /\ cron \in Cron
        /\ cron.zone \in Zones /\ cron.known \in BOOLEAN /\ cron.serial \in Nat
        /\ cron.objects \in [Zones -> Columns]
    BY DEF TransferInv, TypeOK, Cron
  <1>1. CASE start_transfers
    <2>1. cron'.pc = "next" /\ cron'.todo = row /\ cron'.objects = columns
      BY <1>1 DEF start_transfers, Stopped
    <2>2. UNCHANGED <<row, created, columns, records, version, held, disturbed>>
      BY <1>1 DEF start_transfers, dbVars
    <2>3. CreatedOnly' /\ ObjectsCurrent' /\ TransferNewer'
      BY <1>0, <2>1, <2>2 DEF CreatedOnly, ObjectsCurrent, TransferNewer, Replacing
    <2>4. SerialsBehind' /\ IdenticalSerialIsCurrent'
      BY <2>2 DEF TransferInv, SerialsBehind, IdenticalSerialIsCurrent, Due
    <2> QED
      BY <2>3, <2>4 DEF TransferInv
  <1>2. ASSUME NEW z \in Zones, soa_query(z) PROVE TransferInv'
    <2>1. z \in created /\ cron.pc = "next" /\ z \in cron.todo
      BY <1>0, <1>2 DEF soa_query, CreatedOnly
    <2>2. CASE SaveAndContinue(z, FALSE, TRUE)
      BY <1>2, <2>1, <2>2, ContinueTransfer DEF soa_query
    <2>3. CASE /\ version[cron.objects[z].primary][z] # cron.objects[z].serial
               /\ cron' = [cron EXCEPT !.pc = "axfr", !.todo = @ \ {z}, !.zone = z,
                              !.serial = version[cron.objects[z].primary][z],
                              !.known = TRUE]
               /\ UNCHANGED <<dbVars, disturbed>>
      <3>1. UNCHANGED <<row, created, columns, records, version, held, disturbed>>
        BY <1>2, <2>3 DEF soa_query, dbVars
      <3>2. /\ cron'.pc = "axfr" /\ cron'.todo = cron.todo \ {z} /\ cron'.zone = z
            /\ cron'.serial = version[cron.objects[z].primary][z]
            /\ cron'.objects = cron.objects
        BY <1>0, <2>3 DEF Cron
      <3>3. CreatedOnly'
        BY <1>0, <2>1, <3>1, <3>2 DEF CreatedOnly, Replacing
      <3>4. SerialsBehind' /\ IdenticalSerialIsCurrent'
        BY <3>1 DEF TransferInv, SerialsBehind, IdenticalSerialIsCurrent, Due
      <3>5. ObjectsCurrent'
        BY <2>1, <3>1, <3>2 DEF TransferInv, ObjectsCurrent
      <3>6. TransferNewer'
        <4>1. version[cron.objects[z].primary][z] \in Nat
              /\ cron.objects[z].serial \in Nat
          BY <1>0 DEF TypeOK, Columns
        <4>2. z \in row \ disturbed =>
                 /\ columns[z].serial = cron.objects[z].serial
                 /\ columns[z].primary = cron.objects[z].primary
                 /\ columns[z].serial <= version[columns[z].primary][z]
          BY <2>1 DEF TransferInv, ObjectsCurrent, SerialsBehind
        <4> QED
          BY <2>3, <3>1, <3>2, <4>1, <4>2 DEF TransferNewer, Replacing
      <3> QED
        BY <3>3, <3>4, <3>5, <3>6 DEF TransferInv
    <2> QED
      BY <1>2, <2>2, <2>3 DEF soa_query
  <1>3. ASSUME NEW z \in Zones, soa_fails(z) PROVE TransferInv'
    <2>1. z \in created /\ cron.pc = "next"
      BY <1>0, <1>3 DEF soa_fails, CreatedOnly
    <2>2. ASSUME NEW k \in BOOLEAN, SaveAndContinue(z, TRUE, k) PROVE TransferInv'
      BY <1>3, <2>1, <2>2, ContinueTransfer DEF soa_fails
    <2>3. CASE cron' = Stopped /\ UNCHANGED <<dbVars, disturbed>>
      BY <1>3, <2>3, StopTransfer DEF soa_fails, dbVars
    <2> QED
      BY <1>0, <1>3, <2>2, <2>3 DEF soa_fails
  <1>4. ASSUME NEW z \in Zones, soa_closed(z) PROVE TransferInv'
    <2>1. z \in created /\ cron.pc = "next"
      BY <1>0, <1>4 DEF soa_closed, CreatedOnly
    <2>2. CASE SaveAndContinue(z, TRUE, TRUE)
      BY <1>4, <2>1, <2>2, ContinueTransfer DEF soa_closed
    <2>3. CASE cron' = Stopped /\ UNCHANGED <<dbVars, disturbed>>
      BY <1>4, <2>3, StopTransfer DEF soa_closed, dbVars
    <2> QED
      BY <1>4, <2>2, <2>3 DEF soa_closed
  <1>5. CASE axfr_query
    <2> DEFINE z == cron.zone
               p == cron.objects[z].primary
    <2>1. UNCHANGED <<row, created, columns, records, version, held, disturbed>>
      BY <1>5 DEF axfr_query, dbVars
    <2>2. /\ cron.pc = "axfr" /\ cron'.pc = "delete" /\ cron'.todo = cron.todo
          /\ cron'.zone = z /\ cron'.serial = cron.serial
          /\ cron'.objects = cron.objects /\ cron'.rrs = Copy(p, version[p][z])
      BY <1>0, <1>5 DEF axfr_query, Cron
    <2>3. CreatedOnly' /\ ObjectsCurrent'
      BY <2>1, <2>2 DEF TransferInv, CreatedOnly, ObjectsCurrent, Replacing
    <2>4. SerialsBehind' /\ IdenticalSerialIsCurrent'
      BY <2>1 DEF TransferInv, SerialsBehind, IdenticalSerialIsCurrent, Due
    <2>5. version[p][z] \in Nat
      BY <1>0 DEF TypeOK, Columns
    <2>6. TransferNewer'
      BY <2>1, <2>2, <2>5 DEF TransferInv, TransferNewer, Replacing
    <2> QED
      BY <2>3, <2>4, <2>6 DEF TransferInv
  <1>6. CASE axfr_fails
    <2>1. cron.zone \in created /\ cron.pc = "axfr"
      BY <1>0, <1>6 DEF axfr_fails, CreatedOnly, Replacing
    <2> QED
      BY <1>6, <2>1, ContinueTransfer DEF axfr_fails
  <1>7. ASSUME cron.pc \in Replacing, cron'.pc \in Replacing, cron.pc # "axfr",
               cron'.todo = cron.todo, cron'.zone = cron.zone,
               cron'.serial = cron.serial, cron'.objects = cron.objects,
               cron'.rrs = cron.rrs,
               UNCHANGED <<row, created, columns, version, held, disturbed>>,
               \A y \in Zones \ {cron.zone} : records'[y] = records[y]
        PROVE  TransferInv'
    <2>1. CreatedOnly' /\ ObjectsCurrent'
      BY <1>7 DEF TransferInv, CreatedOnly, ObjectsCurrent, Replacing
    <2>2. SerialsBehind'
      BY <1>7 DEF TransferInv, SerialsBehind
    <2>3. TransferNewer'
      BY <1>7 DEF TransferInv, TransferNewer
    <2>4. IdenticalSerialIsCurrent'
      BY <1>0, <1>7, ReplacingIsDue DEF TransferInv, IdenticalSerialIsCurrent, Due, TypeOK
    <2> QED
      BY <2>1, <2>2, <2>3, <2>4 DEF TransferInv
  <1>8. CASE delete_records
    <2>1. /\ cron.pc = "delete" /\ cron'.pc = "insert" /\ cron'.todo = cron.todo
          /\ cron'.zone = cron.zone /\ cron'.serial = cron.serial
          /\ cron'.objects = cron.objects /\ cron'.rrs = cron.rrs
      BY <1>0, <1>8 DEF delete_records, Cron
    <2>2. UNCHANGED <<row, created, columns, version, held, disturbed>>
      BY <1>8 DEF delete_records
    <2>3. \A y \in Zones \ {cron.zone} : records'[y] = records[y]
      BY <1>0, <1>8 DEF delete_records, TypeOK
    <2> QED
      BY <1>7, <2>1, <2>2, <2>3 DEF Replacing
  <1>9. ASSUME NEW r \in cron.left, insert_record(r) PROVE TransferInv'
    <2>1. CASE cron.zone \notin row
      BY <1>9, <2>1, StopTransfer DEF insert_record
    <2>2. CASE cron.zone \in row
      <3>1. cron' = [cron EXCEPT !.left = @ \ {r},
                                 !.pc = IF cron.left = {r} THEN "save" ELSE "insert"]
        BY <1>9, <2>2 DEF insert_record
      <3>2. /\ cron.pc = "insert" /\ cron'.pc \in {"save", "insert"}
            /\ cron'.todo = cron.todo
            /\ cron'.zone = cron.zone /\ cron'.serial = cron.serial
            /\ cron'.objects = cron.objects /\ cron'.rrs = cron.rrs
        BY <1>0, <1>9, <3>1 DEF insert_record, Cron
      <3>3. UNCHANGED <<row, created, columns, version, held, disturbed>>
        BY <1>9 DEF insert_record
      <3>4. \A y \in Zones \ {cron.zone} : records'[y] = records[y]
        BY <1>0, <1>9, <2>2 DEF insert_record, TypeOK
      <3> QED
        BY <1>7, <3>2, <3>3, <3>4 DEF Replacing
    <2> QED
      BY <2>1, <2>2
  <1>10. CASE save_serial
    <2> DEFINE z == cron.zone
               p == cron.objects[z].primary
    <2>1. /\ cron.pc = "save" /\ cron'.pc = "delay" /\ cron'.todo = cron.todo
          /\ cron'.zone = z /\ cron'.objects = cron.objects
      BY <1>0, <1>10 DEF save_serial, Cron
    <2>2. /\ row' = row \cup {z} /\ UNCHANGED <<created, records, version, held>>
          /\ disturbed' = IF records[z] = cron.rrs THEN disturbed \ {z}
                          ELSE disturbed \cup {z}
      BY <1>10 DEF save_serial
    <2>3. /\ columns'[z].serial = cron.serial /\ columns'[z].primary = p
          /\ \A y \in Zones \ {z} : columns'[y] = columns[y]
      BY <1>0, <1>10 DEF save_serial, TypeOK, Columns
    <2>4. z \in created \ cron.todo
      BY <1>0, <2>1 DEF CreatedOnly, Replacing
    <2>5. CreatedOnly'
      BY <1>0, <2>1, <2>2, <2>4 DEF CreatedOnly, Replacing
    <2>6. PICK v \in Nat : /\ cron.serial <= v /\ v <= version[p][z]
                          /\ cron.rrs = Copy(p, v)
      BY <2>1 DEF TransferInv, TransferNewer, Replacing
    <2>7. version[p][z] \in Nat
      BY <1>0 DEF TypeOK, Columns
    <2>8. SerialsBehind'
      BY <1>0, <2>2, <2>3, <2>6, <2>7 DEF TransferInv, SerialsBehind, TypeOK
    <2>9. ObjectsCurrent'
      BY <1>0, <2>1, <2>2, <2>3, <2>4 DEF TransferInv, ObjectsCurrent, TypeOK
    <2>10. TransferNewer'
      BY <2>1 DEF TransferNewer, Replacing
    <2>11. IdenticalSerialIsCurrent'
      <3>1. ASSUME z \notin disturbed',
                   columns'[z].serial = version'[columns'[z].primary][z]
            PROVE  records'[z] = Copy(columns'[z].primary, columns'[z].serial)
        <4>1. cron.serial = version[p][z]
          BY <2>2, <2>3, <3>1
        <4>2. v = cron.serial
          BY <1>0, <2>6, <2>7, <4>1
        <4> QED
          BY <2>2, <2>3, <2>6, <3>1, <4>2
      <3> QED
        BY <1>0, <2>2, <2>3, <3>1
        DEF TransferInv, IdenticalSerialIsCurrent, Due, TypeOK
    <2> QED
      BY <2>5, <2>8, <2>9, <2>10, <2>11 DEF TransferInv
  <1>11. CASE delay_update_szone
    <2>1. /\ cron.pc = "delay" /\ cron'.pc = "next" /\ cron'.todo = cron.todo
          /\ cron'.objects = cron.objects
      BY <1>0, <1>11 DEF delay_update_szone, Cron
    <2>2. UNCHANGED <<row, created, columns, records, version, held, disturbed>>
      BY <1>11 DEF delay_update_szone, dbVars
    <2>3. CreatedOnly' /\ ObjectsCurrent' /\ TransferNewer'
      BY <2>1, <2>2 DEF TransferInv, CreatedOnly, ObjectsCurrent, TransferNewer, Replacing
    <2>4. SerialsBehind' /\ IdenticalSerialIsCurrent'
      BY <2>2 DEF TransferInv, SerialsBehind, IdenticalSerialIsCurrent, Due
    <2> QED
      BY <2>3, <2>4 DEF TransferInv
  <1>12. CASE finish_transfers
    BY <1>12, StopTransfer DEF finish_transfers, dbVars
  <1>13. CASE TransferDies
    BY <1>13, StopTransfer DEF TransferDies, dbVars
  <1> QED
    BY <1>1, <1>2, <1>3, <1>4, <1>5, <1>6, <1>8, <1>9, <1>10, <1>11, <1>12, <1>13
    DEF CronStep

\* A primary only counts up: what is due stays due.
LEMMA PrimaryTransfer ==
    ASSUME TransferInv, TypeOK', NEW p \in Primaries, NEW z \in Zones,
           primary_changes(p, z)
    PROVE  TransferInv'
  <1>0. TypeOK /\ cron \in Cron
    BY DEF TransferInv, TypeOK
  <1>1. UNCHANGED <<row, created, columns, records, held, cron, disturbed>>
    BY DEF primary_changes, dbVars
  <1>2. \A q \in Primaries, y \in Zones :
           /\ version[q][y] \in Nat /\ version'[q][y] \in Nat
           /\ version'[q][y] = version[q][y] \/ version'[q][y] = version[q][y] + 1
    BY <1>0 DEF primary_changes, TypeOK
  <1>3. \A y \in row : y \in Zones /\ columns[y].primary \in Primaries
                      /\ columns[y].serial \in Nat
    BY <1>0 DEF TypeOK, Columns
  <1>4. SerialsBehind' /\ IdenticalSerialIsCurrent'
    <2>1. SerialsBehind'
      BY <1>1, <1>2, <1>3 DEF TransferInv, SerialsBehind
    <2>2. ASSUME NEW y \in row, y \notin disturbed, Due(y) PROVE Due(y)'
      BY <1>1, <1>2, <1>3, <2>2 DEF TransferInv, SerialsBehind, Due
    <2> QED
      BY <1>1, <2>1, <2>2 DEF TransferInv, IdenticalSerialIsCurrent
  <1>5. CreatedOnly' /\ ObjectsCurrent'
    BY <1>1 DEF TransferInv, CreatedOnly, ObjectsCurrent
  <1>6. TransferNewer'
    <2>1. cron.zone \in Zones /\ cron.objects[cron.zone].primary \in Primaries
          /\ cron.serial \in Nat
      BY <1>0 DEF Cron, Columns
    <2> QED
      BY <1>1, <1>2, <2>1 DEF TransferInv, TransferNewer
  <1> QED
    BY <1>4, <1>5, <1>6 DEF TransferInv

LEMMA NextTransfer == TransferInv /\ [Next]_vars => TransferInv'
  <1> SUFFICES ASSUME TransferInv, [Next]_vars PROVE TransferInv'
    OBVIOUS
  <1>1. TypeOK /\ CreatedOnly /\ TypeOK'
    BY NextType DEF TransferInv
  <1>2. ASSUME NEW w \in Workers, TaskStep(w) \/ TaskError(w) \/ WorkerCrash(w)
        PROVE  TransferInv'
    <2>1. UNCHANGED <<row, created, columns, records, version, held, cron, disturbed>>
      BY <1>2 DEF TaskStep, StartTask, generate_szone, write_zone_file, TaskError,
                  WorkerCrash, dbVars
    <2> QED
      BY <1>1, <2>1, TransferFrame DEF CreatedOnly
  <1>3. CASE UNCHANGED vars
    BY <1>1, <1>3, TransferFrame DEF CreatedOnly, vars
  <1> QED
    BY <1>1, <1>2, <1>3, HandlerTransfer, CronTransfer, PrimaryTransfer DEF Next

\* A transfer that finds an identical serial may skip the zone: the records are
\* complete and current unless someone saved over serial or primary.
THEOREM IdenticalSerialsAreCurrent == Spec => []IdenticalSerialIsCurrent
  <1>1. TransferInv => IdenticalSerialIsCurrent
    BY DEF TransferInv
  <1> QED
    BY <1>1, InitTransfer, NextTransfer, PTL DEF Spec

------------------------------------------------------------------------------
(* Files.                                                                    *)

FileInv == TransferInv /\ FileStaleOnlyIfLost

\* What Publishing asks of a worker.
WorkerPublishes(w, z) ==
    /\ job[w].zone = z
    /\ job[w].pc = "read" \/ (job[w].pc = "write" /\ job[w].snap = records[z])

\* A zone is refreshed after a step if it is due, or if nothing about it changed
\* and nobody who was going to refresh it stopped doing so.
LEMMA FileFrame ==
    ASSUME FileInv,
           \A z \in row' \ (lost' \cup disturbed') :
              \/ Due(z)'
              \/ /\ z \in row \ (lost \cup disturbed)
                 /\ file'[z] = file[z] /\ records'[z] = records[z]
                 /\ Due(z) => Due(z)'
                 /\ Publishing(z) => Publishing(z)'
    PROVE  FileStaleOnlyIfLost'
  BY DEF FileInv, FileStaleOnlyIfLost

\* Steps of the job and of views leave files and workers alone.
LEMMA PublishingFrame ==
    ASSUME NEW z \in Zones, records'[z] = records[z], UNCHANGED job,
           queue[z] > 0 => queue'[z] > 0,
           cron.pc = "delay" /\ cron.zone = z
              => (cron'.pc = "delay" /\ cron'.zone = z) \/ queue'[z] > 0
    PROVE  Publishing(z) => Publishing(z)'
  BY DEF Publishing

LEMMA SaveZoneFile ==
    ASSUME FileInv, NEW z \in created, NEW c \in Columns, SaveZone(z, c),
           UNCHANGED <<version, lost, file, queue, job>>,
           cron.pc = "delay" => cron'.pc = "delay" /\ cron'.zone = cron.zone
    PROVE  FileStaleOnlyIfLost'
  <1>1. \A y \in row' \ disturbed' :
           /\ y \in row \ disturbed
           /\ columns'[y].serial = columns[y].serial
           /\ columns'[y].primary = columns[y].primary
    BY SaveZoneKeeps DEF FileInv
  <1>2. records' = records /\ row \subseteq Zones
    BY DEF SaveZone, FileInv, TransferInv, TypeOK
  <1>3. \A y \in row : Publishing(y) => Publishing(y)'
    BY <1>2, PublishingFrame
  <1> QED
    BY <1>1, <1>2, <1>3, FileFrame DEF Due

LEMMA HandlerFile ==
    ASSUME FileInv, NEW h \in Handlers,
           \/ \E z \in Zones, p \in Primaries : create_szone(h, z, p)
           \/ \E z \in Zones : load_szone(h, z)
           \/ ViewStep(h)
           \/ HandlerDies(h)
    PROVE  FileStaleOnlyIfLost'
  <1>0. TypeOK /\ CreatedOnly /\ held[h] \in Held /\ held[h].columns \in Columns
        /\ row \subseteq Zones /\ queue \in [Zones -> Nat]
    BY DEF FileInv, TransferInv, TypeOK, Held
  <1>1. ASSUME NEW z \in Zones, NEW p \in Primaries, create_szone(h, z, p)
        PROVE FileStaleOnlyIfLost'
    <2>1. /\ row' = row \cup {z}
          /\ UNCHANGED <<records, version, cron, queue, job, file, lost, disturbed>>
      BY <1>1 DEF create_szone, taskVars
    <2>2. columns'[z].serial = 0 /\ columns'[z].primary = p
          /\ \A y \in Zones \ {z} : columns'[y] = columns[y]
      BY <1>0, <1>1 DEF create_szone, NewColumns, TypeOK
    <2>3. Due(z)'
      BY <2>1, <2>2 DEF FileInv, TransferInv, SerialsBehind, Due
    <2>4. \A y \in row : Publishing(y) => Publishing(y)'
      BY <1>0, <2>1, PublishingFrame
    <2> QED
      BY <1>0, <2>1, <2>2, <2>3, <2>4, FileFrame DEF Due
  <1>2. ASSUME UNCHANGED <<dbVars, version, cron, job, file, lost, disturbed>>,
               \A z \in Zones : queue[z] > 0 => queue'[z] > 0
        PROVE  FileStaleOnlyIfLost'
    <2>1. \A y \in row : Publishing(y) => Publishing(y)'
      BY <1>0, <1>2, PublishingFrame DEF dbVars
    <2> QED
      BY <1>2, <2>1, FileFrame DEF Due, dbVars
  <1>3. ASSUME NEW z \in Zones, load_szone(h, z) PROVE FileStaleOnlyIfLost'
    BY <1>2, <1>3 DEF load_szone, taskVars
  <1>4. CASE delay_add_szone(h)
    <2>1. \A z \in Zones : queue[z] > 0 => queue'[z] > 0
      BY <1>0, <1>4 DEF delay_add_szone
    <2> QED
      BY <1>2, <1>4, <2>1 DEF delay_add_szone
  <1>5. ASSUME NEW p \in Primaries, save_szone(h, p) PROVE FileStaleOnlyIfLost'
    <2>1. held[h].zone \in created
      BY <1>0, <1>5 DEF save_szone, CreatedOnly
    <2>2. [held[h].columns EXCEPT !.primary = p] \in Columns
      BY <1>0 DEF Columns
    <2> QED
      BY <1>5, <2>1, <2>2, SaveZoneFile DEF save_szone, taskVars
  <1>6. CASE delete_szone(h)
    <2>1. /\ row' = row \ {held[h].zone}
          /\ UNCHANGED <<columns, version, cron, queue, job, file, lost, disturbed>>
          /\ \A y \in row' : records'[y] = records[y]
      BY <1>0, <1>6 DEF delete_szone, TypeOK, taskVars
    <2>2. \A y \in row' : Publishing(y) => Publishing(y)'
      BY <1>0, <2>1, PublishingFrame
    <2> QED
      BY <2>1, <2>2, FileFrame DEF Due
  <1>7. CASE HandlerDies(h)
    BY <1>2, <1>7 DEF HandlerDies, taskVars
  <1>8. held[h].columns.primary \in Primaries
    BY <1>0 DEF Columns
  <1> QED
    BY <1>1, <1>3, <1>4, <1>5, <1>6, <1>7, <1>8 DEF ViewStep, edit_szone, validate_ns

LEMMA CronFile ==
    ASSUME FileInv,
           \/ CronStep
           \/ \E z \in Zones : soa_fails(z) \/ soa_closed(z)
           \/ axfr_fails
           \/ TransferDies
    PROVE  FileStaleOnlyIfLost'
  <1>0. /\ TransferInv /\ TypeOK /\ CreatedOnly /\ cron \in Cron /\ row \subseteq Zones
        /\ cron.zone \in Zones /\ cron.known \in BOOLEAN
        /\ cron.objects \in [Zones -> Columns] /\ queue \in [Zones -> Nat]
    BY DEF FileInv, TransferInv, TypeOK, Cron
  <1>1. ASSUME NEW z \in created, NEW e \in BOOLEAN, NEW k, cron.pc # "delay",
               SaveAndContinue(z, e, k), UNCHANGED <<version, lost, taskVars>>
        PROVE  FileStaleOnlyIfLost'
    <2>1. [cron.objects[z] EXCEPT !.error = e] \in Columns
      <3>1. cron.objects[z] \in Columns
        BY <1>0 DEF TypeOK
      <3> QED
        BY <3>1 DEF Columns
    <2> QED
      BY <1>1, <2>1, SaveZoneFile DEF SaveAndContinue, taskVars
  <1>2. ASSUME cron.pc # "delay",
               UNCHANGED <<row, columns, records, version, file, queue, job, lost, disturbed>>
        PROVE  FileStaleOnlyIfLost'
    <2>1. \A y \in row : Publishing(y) => Publishing(y)'
      BY <1>0, <1>2, PublishingFrame
    <2> QED
      BY <1>2, <2>1, FileFrame DEF Due
  <1>3. CASE start_transfers
    BY <1>2, <1>3 DEF start_transfers, dbVars, taskVars
  <1>4. ASSUME NEW z \in Zones, soa_query(z) PROVE FileStaleOnlyIfLost'
    <2>1. z \in created /\ cron.pc = "next"
      BY <1>0, <1>4 DEF soa_query, CreatedOnly
    <2>2. CASE SaveAndContinue(z, FALSE, TRUE)
      BY <1>1, <1>4, <2>1, <2>2 DEF soa_query
    <2>3. CASE UNCHANGED <<dbVars, disturbed>>
      BY <1>2, <1>4, <2>1, <2>3 DEF soa_query, dbVars, taskVars
    <2> QED
      BY <1>4, <2>2, <2>3 DEF soa_query
  <1>5. ASSUME NEW z \in Zones, soa_fails(z) PROVE FileStaleOnlyIfLost'
    <2>1. z \in created /\ cron.pc = "next"
      BY <1>0, <1>5 DEF soa_fails, CreatedOnly
    <2>2. ASSUME NEW k, SaveAndContinue(z, TRUE, k) PROVE FileStaleOnlyIfLost'
      BY <1>1, <1>5, <2>1, <2>2 DEF soa_fails
    <2>3. CASE UNCHANGED <<dbVars, disturbed>>
      BY <1>2, <1>5, <2>1, <2>3 DEF soa_fails, dbVars, taskVars
    <2> QED
      BY <1>5, <2>2, <2>3 DEF soa_fails
  <1>6. ASSUME NEW z \in Zones, soa_closed(z) PROVE FileStaleOnlyIfLost'
    <2>1. z \in created /\ cron.pc = "next"
      BY <1>0, <1>6 DEF soa_closed, CreatedOnly
    <2>2. CASE SaveAndContinue(z, TRUE, TRUE)
      BY <1>1, <1>6, <2>1, <2>2 DEF soa_closed
    <2>3. CASE UNCHANGED <<dbVars, disturbed>>
      BY <1>2, <1>6, <2>1, <2>3 DEF soa_closed, dbVars, taskVars
    <2> QED
      BY <1>6, <2>2, <2>3 DEF soa_closed
  <1>7. CASE axfr_query
    BY <1>2, <1>7 DEF axfr_query, dbVars, taskVars
  <1>8. CASE axfr_fails
    <2>1. cron.zone \in created /\ cron.pc = "axfr"
      BY <1>0, <1>8 DEF axfr_fails, CreatedOnly, Replacing
    <2> QED
      BY <1>1, <1>8, <2>1 DEF axfr_fails
  <1>9. ASSUME cron.pc \in Replacing,
               UNCHANGED <<row, columns, version, file, queue, job, lost, disturbed>>,
               \A y \in Zones \ {cron.zone} : records'[y] = records[y]
        PROVE  FileStaleOnlyIfLost'
    <2>1. cron.zone \in row \ disturbed => Due(cron.zone)
      BY <1>0, <1>9, ReplacingIsDue
    <2>2. \A y \in row \ {cron.zone} : Publishing(y) => Publishing(y)'
      BY <1>0, <1>9, PublishingFrame DEF Replacing
    <2>3. \A y \in row : Due(y) => Due(y)'
      BY <1>9 DEF Due
    <2> QED
      BY <1>0, <1>9, <2>1, <2>2, <2>3, FileFrame
  <1>10. CASE delete_records
    <2>1. \A y \in Zones \ {cron.zone} : records'[y] = records[y]
      BY <1>0, <1>10 DEF delete_records, TypeOK
    <2> QED
      BY <1>9, <1>10, <2>1 DEF delete_records, taskVars, Replacing
  <1>11. ASSUME NEW r \in cron.left, insert_record(r) PROVE FileStaleOnlyIfLost'
    <2>1. \A y \in Zones \ {cron.zone} : records'[y] = records[y]
      BY <1>0, <1>11 DEF insert_record, TypeOK
    <2> QED
      BY <1>9, <1>11, <2>1 DEF insert_record, taskVars, Replacing
  <1>12. CASE save_serial
    <2>1. /\ cron.pc = "save" /\ cron'.pc = "delay" /\ cron'.zone = cron.zone
          /\ row' = row \cup {cron.zone}
          /\ UNCHANGED <<records, version, queue, job, file, lost>>
          /\ \A y \in Zones \ {cron.zone} :
                columns'[y] = columns[y] /\ (y \in disturbed <=> y \in disturbed')
      BY <1>0, <1>12 DEF save_serial, Cron, TypeOK, taskVars
    <2>2. \A y \in row \ {cron.zone} : Publishing(y) => Publishing(y)'
      BY <1>0, <2>1, PublishingFrame
    <2>3. \A y \in row \ {cron.zone} : Due(y) => Due(y)'
      BY <1>0, <2>1 DEF Due
    <2>4. ASSUME NEW y, y = cron.zone PROVE Publishing(y)'
      BY <2>1, <2>4 DEF Publishing
    <2>5. ASSUME NEW y \in row', y # cron.zone, y \notin lost' \cup disturbed'
          PROVE  file'[y] = records'[y] \/ Publishing(y)' \/ Due(y)'
      BY <1>0, <2>1, <2>2, <2>3, <2>5 DEF FileInv, FileStaleOnlyIfLost
    <2> QED
      BY <2>4, <2>5 DEF FileStaleOnlyIfLost
  <1>13. CASE delay_update_szone
    <2>1. UNCHANGED <<row, columns, records, version, job, file, lost, disturbed>>
      BY <1>13 DEF delay_update_szone, dbVars
    <2>2. \A y \in Zones : /\ queue[y] > 0 => queue'[y] > 0
                           /\ y = cron.zone => queue'[y] > 0
      BY <1>0, <1>13 DEF delay_update_szone
    <2>3. \A y \in row : Publishing(y) => Publishing(y)'
      BY <1>0, <2>1, <2>2, PublishingFrame
    <2> QED
      BY <2>1, <2>3, FileFrame DEF Due
  <1>14. CASE finish_transfers
    BY <1>2, <1>14 DEF finish_transfers, dbVars, taskVars
  <1>15. CASE TransferDies
    <2>1. UNCHANGED <<row, columns, records, version, queue, job, file, disturbed>>
      BY <1>15 DEF TransferDies, dbVars, taskVars
    <2>2. lost \subseteq lost' /\ (cron.pc = "delay" => cron.zone \in lost')
      BY <1>15 DEF TransferDies
    <2>3. \A y \in row \ lost' : Publishing(y) => Publishing(y)'
      BY <1>0, <2>1, <2>2, PublishingFrame
    <2> QED
      BY <2>1, <2>2, <2>3, FileFrame DEF Due
  <1> QED
    BY <1>3, <1>4, <1>5, <1>6, <1>7, <1>8, <1>10, <1>11, <1>12, <1>13, <1>14, <1>15
    DEF CronStep

LEMMA TaskFile ==
    ASSUME FileInv, NEW w \in Workers, TaskStep(w) \/ TaskError(w) \/ WorkerCrash(w)
    PROVE  FileStaleOnlyIfLost'
  <1>0. /\ TypeOK /\ row \subseteq Zones /\ queue \in [Zones -> Nat]
        /\ job \in [Workers -> Job] /\ job[w] \in Job /\ job[w].zone \in Zones
    BY DEF FileInv, TransferInv, TypeOK, Job
  <1>1. /\ UNCHANGED <<row, columns, records, version, cron, disturbed>>
        /\ \A v \in Workers \ {w} : job'[v] = job[v]
    BY <1>0 DEF TaskStep, StartTask, generate_szone, write_zone_file, TaskError,
                WorkerCrash, dbVars
  <1>2. \A z \in row : Due(z) => Due(z)'
    BY <1>1 DEF Due
  \* The other workers, the queue and the job still publish what they did.
  <1>3. ASSUME NEW z \in Zones, Publishing(z), ~WorkerPublishes(w, z),
               queue[z] > 0 => queue'[z] > 0
        PROVE  Publishing(z)'
    BY <1>1, <1>3 DEF Publishing, WorkerPublishes
  <1>4. ASSUME NEW z \in Zones, StartTask(w, z) PROVE FileStaleOnlyIfLost'
    <2>1. UNCHANGED <<file, lost>> /\ job[w].pc = "idle"
          /\ \A y \in Zones \ {z} : queue'[y] = queue[y]
      BY <1>0, <1>4 DEF StartTask
    <2>2. \A y \in row \ {z} : Publishing(y) => Publishing(y)'
      BY <1>0, <1>3, <2>1 DEF WorkerPublishes
    <2>3. z \in row => Publishing(z)'
      BY <1>0, <1>4 DEF StartTask, Publishing
    <2> QED
      BY <1>0, <1>1, <1>2, <2>1, <2>2, <2>3, FileFrame
  <1>5. CASE generate_szone(w)
    <2>1. UNCHANGED <<file, lost, queue>> /\ job[w].pc = "read"
          /\ job'[w].zone = job[w].zone /\ job'[w].pc = "write"
          /\ job'[w].snap = records[job[w].zone]
      BY <1>0, <1>5 DEF generate_szone, Job
    <2>2. \A y \in row : WorkerPublishes(w, y) => Publishing(y)'
      BY <1>1, <2>1 DEF WorkerPublishes, Publishing
    <2> QED
      BY <1>0, <1>1, <1>2, <1>3, <2>1, <2>2, FileFrame
  <1>6. CASE write_zone_file(w)
    <2> DEFINE z == job[w].zone
    <2>1. /\ job[w].pc = "write" /\ UNCHANGED queue
          /\ file'[z] = job[w].snap
          /\ \A y \in Zones \ {z} : file'[y] = file[y] /\ (y \in lost' <=> y \in lost)
      BY <1>0, <1>6 DEF write_zone_file, TypeOK
    <2>2. \A y \in row \ {z} : Publishing(y) => Publishing(y)'
      BY <1>0, <1>3, <2>1 DEF WorkerPublishes
    <2>3. CASE job[w].snap = records[z]
      BY <1>0, <1>1, <1>2, <2>1, <2>2, <2>3 DEF FileInv, FileStaleOnlyIfLost
    <2>4. CASE job[w].snap # records[z]
      <3>1. lost' = IF file[z] = records[z] THEN lost \cup {z} ELSE lost
        BY <1>6, <2>4 DEF write_zone_file
      <3>2. ASSUME NEW y \in Zones, y = z, Publishing(y) PROVE Publishing(y)'
        BY <1>3, <2>1, <2>4, <3>2 DEF WorkerPublishes
      <3>3. ASSUME NEW y \in row', y = z, y \notin lost' \cup disturbed'
            PROVE  Publishing(y)' \/ Due(y)'
        BY <1>0, <1>1, <1>2, <3>1, <3>2, <3>3 DEF FileInv, FileStaleOnlyIfLost
      <3>4. ASSUME NEW y \in row', y # z, y \notin lost' \cup disturbed'
            PROVE  file'[y] = records'[y] \/ Publishing(y)' \/ Due(y)'
        BY <1>0, <1>1, <1>2, <2>1, <2>2, <3>4 DEF FileInv, FileStaleOnlyIfLost
      <3> QED
        BY <3>3, <3>4 DEF FileStaleOnlyIfLost
    <2> QED
      BY <2>3, <2>4
  <1>7. CASE TaskError(w)
    <2>1. UNCHANGED <<file, lost>> /\ queue'[job[w].zone] > 0
          /\ \A y \in Zones : queue[y] > 0 => queue'[y] > 0
      BY <1>0, <1>7 DEF TaskError
    <2>2. \A y \in row : WorkerPublishes(w, y) => Publishing(y)'
      BY <2>1 DEF WorkerPublishes, Publishing
    <2> QED
      BY <1>0, <1>1, <1>2, <1>3, <2>1, <2>2, FileFrame
  <1>8. CASE WorkerCrash(w)
    <2>1. UNCHANGED <<file, queue>> /\ lost' = lost \cup {job[w].zone}
      BY <1>8 DEF WorkerCrash
    <2>2. \A y \in row \ lost' : Publishing(y) => Publishing(y)'
      BY <1>0, <1>3, <2>1 DEF WorkerPublishes
    <2> QED
      BY <1>0, <1>1, <1>2, <2>1, <2>2, FileFrame
  <1> QED
    BY <1>4, <1>5, <1>6, <1>7, <1>8 DEF TaskStep

LEMMA PrimaryFile ==
    ASSUME FileInv, NEW p \in Primaries, NEW z \in Zones, primary_changes(p, z)
    PROVE  FileStaleOnlyIfLost'
  <1>1. UNCHANGED <<row, columns, records, cron, file, queue, job, lost, disturbed>>
    BY DEF primary_changes, dbVars, taskVars
  <1>2. \A q \in Primaries, y \in Zones :
           /\ version[q][y] \in Nat
           /\ version'[q][y] = version[q][y] \/ version'[q][y] = version[q][y] + 1
    BY DEF primary_changes, FileInv, TransferInv, TypeOK
  <1>3. \A y \in row : y \in Zones /\ columns[y].primary \in Primaries
                      /\ columns[y].serial \in Nat
    BY DEF FileInv, TransferInv, TypeOK, Columns
  <1>4. \A y \in row \ disturbed : Due(y) => Due(y)'
    BY <1>1, <1>2, <1>3 DEF FileInv, TransferInv, SerialsBehind, Due
  <1>5. \A y \in row : Publishing(y) => Publishing(y)'
    BY <1>1, <1>3, PublishingFrame
  <1> QED
    BY <1>1, <1>4, <1>5, FileFrame

LEMMA NextFile == FileInv /\ [Next]_vars => FileInv'
  <1> SUFFICES ASSUME FileInv, [Next]_vars PROVE FileInv'
    OBVIOUS
  <1>1. TransferInv'
    BY NextTransfer DEF FileInv
  <1>2. CASE UNCHANGED vars
    BY <1>1, <1>2 DEF FileInv, FileStaleOnlyIfLost, Publishing, Due, vars
  <1> QED
    BY <1>1, <1>2, HandlerFile, CronFile, TaskFile, PrimaryFile DEF Next, FileInv

\* The file of a secondary zone is behind its records with nobody to refresh it
\* only after a lost task, a late write or a save over the row.
THEOREM SecondaryFilesRefreshed == Spec => []FileStaleOnlyIfLost
  <1>1. Init => FileInv
    BY InitTransfer DEF FileInv, FileStaleOnlyIfLost, Init
  <1>2. FileInv => FileStaleOnlyIfLost
    BY DEF FileInv
  <1> QED
    BY <1>1, <1>2, NextFile, PTL DEF Spec

==============================================================================
