------------------------------ MODULE CatalogSync ------------------------------
(***************************************************************************)
(* How the set of zones, their CDS setting and the owners' subscriptions   *)
(* reach the catalog zone, the _signal zones and the Netnod anycast API.   *)
(*                                                                         *)
(* Views, cron jobs and the billing consumer change rows; update_catalog   *)
(* rewrites the catalog from a snapshot of the rows and the subscription   *)
(* of each owner, then enqueues update_signal_zones and sync_netnod_zones  *)
(* with the lists it computed.  Several workers run these tasks at once,   *)
(* so lists and files may be written in another order than they were read. *)
(* Every zone has an owner of its own; the four _signal zones are one.     *)
(***************************************************************************)
EXTENDS Naturals

CONSTANTS
    Zones,       \* zone ids
    Handlers,    \* concurrent views and cron jobs that load and save a zone
    Workers,     \* celery worker processes
    MaxEvents    \* bound: zones created, views, billing messages, files that
                 \* update-aname-zones enqueues, and the exceptions, kills and failing API calls among them

ASSUME ZonesAssumption == Zones # {}
ASSUME BoundsAssumption == MaxEvents \in Nat

Groups == {"none", "zone", "zone-cds-disable"}
CdsContents == {"none", "keys", "delete"}
Billing == {"PENDING", "CANCELLED", "ACTIVE"}

VARIABLES
    row,          \* zones with a row in the DNSZone table
    created,      \* ids handed out so far: a new zone never reuses one
    cds_disable,  \* zones whose row has cds_disable set
    linked,       \* owners whose account has the subscription_id
    subscribed,   \* owners whose account has subscription_active
    held,         \* held[h]: the zone object h has loaded
    notif,        \* the billing message being delivered, and how far it got
    queue,        \* celery messages waiting in the broker
    job,          \* job[w]: the task worker w is executing
    catalog,      \* catalog[z]: group of z in the catalog zone's file
    signal,       \* signal[z]: _dsboot records of z in the _signal zones
    file,         \* file[z]: CDS and CDNSKEY records in the zone's file
    registered,   \* zones registered at Netnod
    changes,      \* changes so far
    faults,       \* faults so far
    paid,         \* history: owners that ever had an active subscription
    intended,     \* history: zones whose last CDS view disabled CDS
    stale,        \* history: handlers that loaded before the last CDS view saved
    clobbered     \* history: zones saved by such a handler since

dbVars == <<row, created, cds_disable>>
accountVars == <<linked, subscribed, notif, paid>>
fileVars == <<catalog, signal, file, registered>>
historyVars == <<intended, stale, clobbered>>
vars == <<row, created, cds_disable, linked, subscribed, held, notif, queue,
          job, catalog, signal, file, registered, changes, faults,
          paid, intended, stale, clobbered>>

Change == changes + faults < MaxEvents /\ changes' = changes + 1
Fault == changes + faults < MaxEvents /\ faults' = faults + 1

AnyZone == CHOOSE z \in Zones : TRUE

------------------------------------------------------------------------------
(* Celery messages.  Identical messages that wait together are one element.  *)

FileTasks == {"add_fzone", "update_fzone"}
PlainTasks == {"update_catalog", "update_signal_zones"}
Plain(t) == [task |-> t, zone |-> AnyZone, active |-> {}, inactive |-> {}]
Fzone(t, z) == [task |-> t, zone |-> z, active |-> {}, inactive |-> {}]
Netnod(a, i) == [task |-> "sync_netnod_zones", zone |-> AnyZone, active |-> a,
                 inactive |-> i]

NetnodMessages ==
    {m \in [task : {"sync_netnod_zones"}, zone : {AnyZone}, active : SUBSET Zones,
            inactive : SUBSET Zones] : m.active \cap m.inactive = {}}
Messages == {Plain(t) : t \in PlainTasks}
            \cup {Fzone(t, z) : t \in FileTasks, z \in Zones}
            \cup NetnodMessages

Delay(messages) == queue' = queue \cup messages

------------------------------------------------------------------------------
(* Views and cron jobs.                                                      *)

HandlerPCs == {"idle", "loaded", "add_fzone", "update_fzone", "save",
               "update_catalog"}
Held == [pc : HandlerPCs, zone : Zones, cds : BOOLEAN]
Nothing == [pc |-> "idle", zone |-> AnyZone, cds |-> FALSE]

Done(h) == held' = [held EXCEPT ![h] = Nothing]

\* create_zone: row and add_fzone (whose message the request sends last).
create_zone(h, z) ==
    /\ held[h].pc = "idle"
    /\ z \notin created
    /\ Change
    /\ row' = row \cup {z}
    /\ created' = created \cup {z}
    /\ held' = [held EXCEPT ![h] = [pc |-> "add_fzone", zone |-> z, cds |-> FALSE]]
    /\ UNCHANGED <<cds_disable, accountVars, queue, job, fileVars, faults,
                   historyVars>>

\* Mutant: the CDS setting is not loaded with the row.
load_zone_without_cds(h, z) ==
    /\ held[h].pc = "idle"
    /\ z \in row
    /\ Change
    /\ held' = [held EXCEPT ![h] = [pc |-> "loaded", zone |-> z, cds |-> FALSE]]
    /\ stale' = stale \ {h}
    /\ UNCHANGED <<dbVars, accountVars, queue, job, fileVars, faults,
                   intended, clobbered>>

\* get_object_or_404(): the whole row is read.
load_zone(h, z) ==
    /\ held[h].pc = "idle"
    /\ z \in row
    /\ Change
    /\ held' = [held EXCEPT ![h] = [pc |-> "loaded", zone |-> z,
                                    cds |-> z \in cds_disable]]
    /\ stale' = stale \ {h}
    /\ UNCHANGED <<dbVars, accountVars, queue, job, fileVars, faults,
                   intended, clobbered>>

\* zone.save(): every column is written, a missing row is inserted.
SaveRow(z, flag) ==
    /\ row' = row \cup {z}
    /\ cds_disable' = IF flag THEN cds_disable \cup {z} ELSE cds_disable \ {z}
    /\ UNCHANGED created

\* disable_zone_cds and enable_zone_cds: the row is saved, no task enqueued.
SetCds(h, flag) ==
    LET z == held[h].zone
    IN /\ held[h].pc = "loaded"
       /\ SaveRow(z, flag)
       /\ Done(h)
       /\ intended' = IF flag THEN intended \cup {z} ELSE intended \ {z}
       /\ stale' = stale \cup {g \in Handlers : held[g].pc # "idle"
                                                  /\ held[g].zone = z}
       /\ clobbered' = clobbered \ {z}
       /\ UNCHANGED <<accountVars, queue, job, fileVars, changes, faults>>

disable_zone_cds(h) == SetCds(h, TRUE)
enable_zone_cds(h) == SetCds(h, FALSE)

SaveHeld(h) ==
    /\ SaveRow(held[h].zone, held[h].cds)
    /\ clobbered' = IF h \in stale THEN clobbered \cup {held[h].zone} ELSE clobbered
    /\ UNCHANGED <<accountVars, job, fileVars, changes, faults, intended, stale>>

\* validate-ns and validate-charged: the object is saved, no task enqueued.
validate_ns(h) ==
    /\ held[h].pc = "loaded"
    /\ SaveHeld(h)
    /\ Done(h)
    /\ UNCHANGED queue

\* The views for editing and deleting a record save the zone, then the record,
\* which enqueues update_fzone.
edit_record(h) ==
    /\ held[h].pc = "loaded"
    /\ SaveHeld(h)
    /\ held' = [held EXCEPT ![h].pc = "update_fzone"]
    /\ UNCHANGED queue

\* add_fzone.delay() and update_fzone.delay().
delay_fzone(h) ==
    /\ held[h].pc \in FileTasks
    /\ Delay({Fzone(held[h].pc, held[h].zone)})
    /\ Done(h)
    /\ UNCHANGED <<dbVars, accountVars, job, fileVars, changes,
                   faults, historyVars>>

\* The views for a new record save the record first, then the zone.
create_record(h) ==
    \/ /\ held[h].pc = "loaded"
       /\ Delay({Fzone("update_fzone", held[h].zone)})
       /\ held' = [held EXCEPT ![h].pc = "save"]
       /\ UNCHANGED <<dbVars, accountVars, job, fileVars,
                      changes, faults, historyVars>>
    \/ /\ held[h].pc = "save"
       /\ SaveHeld(h)
       /\ Done(h)
       /\ UNCHANGED queue

\* delete_zone: the row goes, then update_catalog.delay().
delete_zone(h) ==
    \/ /\ held[h].pc = "loaded"
       /\ row' = row \ {held[h].zone}
       /\ cds_disable' = cds_disable \ {held[h].zone}
       /\ held' = [held EXCEPT ![h].pc = "update_catalog"]
       /\ UNCHANGED <<created, accountVars, queue, job, fileVars, changes, faults,
                      historyVars>>
    \/ /\ held[h].pc = "update_catalog"
       /\ Delay({Plain("update_catalog")})
       /\ Done(h)
       /\ UNCHANGED <<dbVars, accountVars, job, fileVars,
                      changes, faults, historyVars>>

\* The process dies: what it had not done yet never happens.
HandlerDies(h) ==
    /\ held[h].pc # "idle"
    /\ Fault
    /\ Done(h)
    /\ UNCHANGED <<dbVars, accountVars, queue, job, fileVars, changes,
                   historyVars>>

\* Cron, every 15 minutes, update-aname-zones: the file of a zone whose ANAME
\* records have new addresses is written again.
update_aname(z) ==
    /\ z \in row
    /\ Change
    /\ Delay({Fzone("update_fzone", z)})
    /\ UNCHANGED <<dbVars, accountVars, held, job, fileVars, faults, historyVars>>

\* The last line of the job.  Only socket.timeout and struct.error are caught
\* before it: a run ends without it when the resolver fails otherwise (DNSError,
\* OSError) or answers for an ANAME with more than addresses (a CNAME cannot be
\* saved in an inet field), every run while such an ANAME is there.
delay_update_catalog ==
    /\ Delay({Plain("update_catalog")})
    /\ UNCHANGED <<dbVars, accountVars, held, job,
                   fileVars, changes, faults, historyVars>>

update_aname_zones == delay_update_catalog \/ \E z \in Zones : update_aname(z)

------------------------------------------------------------------------------
(* run-rpc: billing notifications, acknowledged last, one at a time.         *)

NotifPCs == {"none", "received", "saved", "delayed"}
NoNotif == [pc |-> "none", owner |-> AnyZone, state |-> "PENDING"]

\* The billing service sends a message (PAST_DUE is treated like ACTIVE).
billing_notifies(z, s) ==
    /\ notif.pc = "none"
    /\ Change
    /\ notif' = [pc |-> "received", owner |-> z, state |-> s]
    /\ UNCHANGED <<dbVars, linked, subscribed, paid, held, queue, job, fileVars,
                   faults, historyVars>>

\* sub_callback: a message for an unknown subscription is acknowledged; a
\* cancelled subscription is forgotten.
sub_callback_save ==
    LET z == notif.owner
    IN /\ notif.pc = "received"
       /\ \/ /\ z \notin linked
             /\ notif' = NoNotif
             /\ UNCHANGED <<linked, subscribed, paid>>
          \/ /\ z \in linked
             /\ notif' = [notif EXCEPT !.pc = "saved"]
             /\ linked' = IF notif.state = "CANCELLED" THEN linked \ {z} ELSE linked
             /\ subscribed' = IF notif.state = "ACTIVE" THEN subscribed \cup {z}
                              ELSE subscribed \ {z}
             /\ paid' = paid \cup subscribed'
       /\ UNCHANGED <<dbVars, held, queue, job, fileVars, changes, faults,
                      historyVars>>

sub_callback_delay ==
    /\ notif.pc = "saved"
    /\ Delay({Plain("update_catalog")})
    /\ notif' = [notif EXCEPT !.pc = "delayed"]
    /\ UNCHANGED <<dbVars, linked, subscribed, paid, held,
                   job, fileVars, changes, faults, historyVars>>

sub_callback_ack ==
    /\ notif.pc = "delayed"
    /\ notif' = NoNotif
    /\ UNCHANGED <<dbVars, linked, subscribed, paid, held, queue, job, fileVars,
                   changes, faults, historyVars>>

\* The consumer dies before the acknowledgement: the message comes again.
consumer_dies ==
    /\ notif.pc \in {"saved", "delayed"}
    /\ Fault
    /\ notif' = [notif EXCEPT !.pc = "received"]
    /\ UNCHANGED <<dbVars, linked, subscribed, paid, held, queue, job, fileVars,
                   changes, historyVars>>

------------------------------------------------------------------------------
(* Celery workers.                                                           *)

JobPCs == {"read", "publish"}
\* rows and cds: the rows read at the start; todo: zones left of the loop;
\* active and inactive: the lists computed, or the arguments, so far.
Job == [task : {"idle"} \cup FileTasks \cup PlainTasks \cup {"sync_netnod_zones"},
        pc : JobPCs, zone : Zones,
        rows : SUBSET Zones, cds : SUBSET Zones, todo : SUBSET Zones,
        active : SUBSET Zones, inactive : SUBSET Zones]
Idle == [task |-> "idle", pc |-> "read", zone |-> AnyZone, rows |-> {}, cds |-> {},
         todo |-> {}, active |-> {}, inactive |-> {}]

Finish(w) == job' = [job EXCEPT ![w] = Idle]

Published(z, disabled) == IF z \in disabled THEN "delete" ELSE "keys"

\* Messages are acknowledged when they are received.  The rows are read by one
\* query; the file tasks return at once when their zone has no row.
StartTask(w, m) ==
    /\ job[w].task = "idle"
    /\ m \in queue
    /\ queue' = queue \ {m}
    /\ \/ /\ m.task \in PlainTasks \/ m.zone \in row
          /\ m.task # "sync_netnod_zones"
          /\ job' = [job EXCEPT ![w] =
                        [Idle EXCEPT !.task = m.task, !.zone = m.zone, !.rows = row,
                                     !.cds = cds_disable, !.todo = row]]
       \/ /\ m.task \in FileTasks /\ m.zone \notin row
          /\ UNCHANGED job
       \/ /\ m.task = "sync_netnod_zones"
          /\ job' = [job EXCEPT ![w] =
                        [Idle EXCEPT !.task = m.task, !.active = m.active,
                                     !.inactive = m.inactive,
                                     !.todo = m.active \cup m.inactive]]
    /\ UNCHANGED <<dbVars, accountVars, held, fileVars, changes, faults, historyVars>>

\* Mutant: a zone is sorted into a list and looked at again.
is_active_again(w, z) ==
    /\ job[w].task = "update_catalog" /\ job[w].pc = "read"
    /\ z \in job[w].todo
    /\ job' = IF z \in subscribed THEN [job EXCEPT ![w].active = @ \cup {z}]
              ELSE [job EXCEPT ![w].inactive = @ \cup {z}]
    /\ UNCHANGED <<dbVars, accountVars, held, queue, fileVars, changes, faults,
                   historyVars>>

\* Mutant: an error of Keycloak counts as active.
is_active_fails_open(w, z) ==
    /\ job[w].task = "update_catalog" /\ job[w].pc = "read"
    /\ z \in job[w].todo
    /\ \/ /\ job' = IF z \in subscribed
                    THEN [job EXCEPT ![w].todo = @ \ {z}, ![w].active = @ \cup {z}]
                    ELSE [job EXCEPT ![w].todo = @ \ {z}, ![w].inactive = @ \cup {z}]
          /\ UNCHANGED faults
       \/ /\ Fault
          /\ job' = [job EXCEPT ![w].todo = @ \ {z}, ![w].active = @ \cup {z}]
    /\ UNCHANGED <<dbVars, accountVars, held, queue, fileVars, changes,
                   historyVars>>

\* get_user() and is_active() of the next zone; an error of Keycloak counts as
\* inactive.
is_active(w, z) ==
    /\ job[w].task = "update_catalog" /\ job[w].pc = "read"
    /\ z \in job[w].todo
    /\ \/ /\ z \in subscribed
          /\ job' = [job EXCEPT ![w].todo = @ \ {z}, ![w].active = @ \cup {z}]
          /\ UNCHANGED faults
       \/ /\ z \notin subscribed
          /\ job' = [job EXCEPT ![w].todo = @ \ {z}, ![w].inactive = @ \cup {z}]
          /\ UNCHANGED faults
       \/ /\ Fault
          /\ job' = [job EXCEPT ![w].todo = @ \ {z}, ![w].inactive = @ \cup {z}]
    /\ UNCHANGED <<dbVars, accountVars, held, queue, fileVars, changes,
                   historyVars>>

\* Mutant: every zone is in the group "zone".
write_catalog_one_group(w) ==
    /\ job[w].task = "update_catalog" /\ job[w].pc = "read"
    /\ job[w].todo = {}
    /\ catalog' = [z \in Zones |-> IF z \in job[w].active THEN "zone" ELSE "none"]
    /\ job' = [job EXCEPT ![w].pc = "publish"]
    /\ UNCHANGED <<dbVars, accountVars, held, queue, signal, file, registered,
                   changes, faults, historyVars>>

\* The catalog lists active zones with their group.
write_catalog(w) ==
    /\ job[w].task = "update_catalog" /\ job[w].pc = "read"
    /\ job[w].todo = {}
    /\ catalog' = [z \in Zones |-> IF z \notin job[w].active THEN "none"
                                   ELSE IF z \in job[w].cds THEN "zone-cds-disable"
                                   ELSE "zone"]
    /\ job' = [job EXCEPT ![w].pc = "publish"]
    /\ UNCHANGED <<dbVars, accountVars, held, queue, signal, file, registered,
                   changes, faults, historyVars>>

\* Mutant: the signal zones are forgotten.
delay_followups_only_netnod(w) ==
    /\ job[w].task = "update_catalog" /\ job[w].pc = "publish"
    /\ Delay({Netnod(job[w].active, job[w].inactive)})
    /\ Finish(w)
    /\ UNCHANGED <<dbVars, accountVars, held, fileVars, changes, faults,
                   historyVars>>

\* After the reload message: the signal zones, then Netnod.
delay_followups(w) ==
    /\ job[w].task = "update_catalog" /\ job[w].pc = "publish"
    /\ Delay({Plain("update_signal_zones"), Netnod(job[w].active, job[w].inactive)})
    /\ Finish(w)
    /\ UNCHANGED <<dbVars, accountVars, held, fileVars, changes, faults,
                   historyVars>>

write_signal_zones(w) ==
    /\ job[w].task = "update_signal_zones"
    /\ signal' = [z \in Zones |-> IF z \in job[w].rows THEN Published(z, job[w].cds)
                                  ELSE "none"]
    /\ Finish(w)
    /\ UNCHANGED <<dbVars, accountVars, held, queue, catalog, file, registered,
                   changes, faults, historyVars>>

\* Mutant: zones are registered and never de-registered.
sync_netnod_zone_only_registers(w, z) ==
    /\ job[w].task = "sync_netnod_zones"
    /\ z \in job[w].todo
    /\ job' = [job EXCEPT ![w].todo = @ \ {z}]
    /\ registered' = registered \cup ({z} \cap job[w].active)
    /\ UNCHANGED <<dbVars, accountVars, held, queue, catalog, signal, file,
                   changes, faults, historyVars>>

\* check_zone_registered and register_zone or deregister_zone of the next zone;
\* a failing call is logged and the zone skipped.
sync_netnod_zone(w, z) ==
    /\ job[w].task = "sync_netnod_zones"
    /\ z \in job[w].todo
    /\ z \in job[w].inactive => job[w].todo \cap job[w].active = {}
    /\ job' = [job EXCEPT ![w].todo = @ \ {z}]
    /\ \/ /\ registered' = IF z \in job[w].active THEN registered \cup {z}
                           ELSE registered \ {z}
          /\ UNCHANGED faults
       \/ /\ UNCHANGED registered
          /\ Fault
    /\ UNCHANGED <<dbVars, accountVars, held, queue, catalog, signal, file,
                   changes, historyVars>>

FinishNetnod(w) ==
    /\ job[w].task = "sync_netnod_zones"
    /\ job[w].todo = {}
    /\ Finish(w)
    /\ UNCHANGED <<dbVars, accountVars, held, queue, fileVars, changes, faults,
                   historyVars>>

\* add_fzone and update_fzone (ZonePublication has the details): the header of
\* the file has the CDS records of the zone as it was loaded.
write_fzone(w) ==
    LET z == job[w].zone
    IN /\ job[w].task \in FileTasks
       /\ file' = [file EXCEPT ![z] = Published(z, job[w].cds)]
       /\ Delay(IF job[w].task = "add_fzone" THEN {Plain("update_catalog")} ELSE {})
       /\ Finish(w)
       /\ UNCHANGED <<dbVars, accountVars, held, catalog, signal, registered,
                      changes, faults, historyVars>>

\* The message that started a job.
MessageOf(j) ==
    IF j.task \in PlainTasks THEN Plain(j.task)
    ELSE IF j.task \in FileTasks THEN Fzone(j.task, j.zone)
    ELSE Netnod(j.active, j.inactive)

\* An exception: the task is enqueued again, with the same arguments.
TaskError(w) ==
    /\ job[w].task # "idle"
    /\ Fault
    /\ Finish(w)
    /\ Delay({MessageOf(job[w])})
    /\ UNCHANGED <<dbVars, accountVars, held, fileVars, changes, historyVars>>

\* The worker is killed; the message was acknowledged when it was received.
WorkerCrash(w) ==
    /\ job[w].task # "idle"
    /\ Fault
    /\ Finish(w)
    /\ UNCHANGED <<dbVars, accountVars, held, queue, fileVars, changes,
                   historyVars>>

------------------------------------------------------------------------------
\* Any set of zones and subscriptions, published as a last update_catalog left it.
Init ==
    /\ row \in SUBSET Zones /\ created = row /\ cds_disable = {}
    /\ linked = Zones /\ subscribed \in SUBSET Zones
    /\ held = [h \in Handlers |-> Nothing]
    /\ notif = NoNotif
    /\ queue = {}
    /\ job = [w \in Workers |-> Idle]
    /\ catalog = [z \in Zones |-> IF z \in row \cap subscribed THEN "zone" ELSE "none"]
    /\ signal = [z \in Zones |-> IF z \in row THEN "keys" ELSE "none"]
    /\ file = signal
    /\ registered = row \cap subscribed
    /\ changes = 0 /\ faults = 0
    /\ paid = subscribed /\ intended = {} /\ stale = {} /\ clobbered = {}

ViewStep(h) ==
    \/ disable_zone_cds(h)
    \/ enable_zone_cds(h)
    \/ validate_ns(h)
    \/ edit_record(h)
    \/ delay_fzone(h)
    \/ create_record(h)
    \/ delete_zone(h)

BillingStep == sub_callback_save \/ sub_callback_delay \/ sub_callback_ack

TaskStep(w) ==
    \/ \E m \in queue : StartTask(w, m)
    \/ \E z \in Zones : is_active(w, z) \/ sync_netnod_zone(w, z)
    \/ write_catalog(w)
    \/ delay_followups(w)
    \/ write_signal_zones(w)
    \/ FinishNetnod(w)
    \/ write_fzone(w)

Next ==
    \/ \E h \in Handlers : \/ \E z \in Zones : create_zone(h, z) \/ load_zone(h, z)
                           \/ ViewStep(h)
                           \/ HandlerDies(h)
    \/ \E z \in Zones, s \in Billing : billing_notifies(z, s)
    \/ BillingStep
    \/ consumer_dies
    \/ update_aname_zones
    \/ \E w \in Workers : TaskStep(w) \/ TaskError(w) \/ WorkerCrash(w)

Spec == Init /\ [][Next]_vars

\* A worker takes some message of these tasks.
TaskKinds == {FileTasks, {"update_catalog"}, {"update_signal_zones"},
              {"sync_netnod_zones"}}
StartSome(kind) ==
    \E w \in Workers, m \in Messages : m.task \in kind /\ StartTask(w, m)

\* Views and the billing consumer run on, celery runs its tasks, and the broker
\* hands out messages in order, so that no kind waits for ever.
Fairness ==
    /\ \A h \in Handlers : WF_vars(ViewStep(h))
    /\ WF_vars(BillingStep)
    /\ \A w \in Workers : WF_vars(TaskStep(w))
    /\ \A t \in TaskKinds : SF_vars(StartSome(t))

\* Moreover some run of update-aname-zones comes to its last line, again and
\* again: cron starts the job, but nothing in the code makes it end there.
AnameFairness == WF_vars(delay_update_catalog)

FairSpec == Spec /\ Fairness

------------------------------------------------------------------------------
(* Properties.                                                               *)

\* No zone is in two of a task's three lists.
ListsDisjoint(j) ==
    /\ j.active \cap j.inactive = {}
    /\ j.task = "update_catalog" => j.todo \cap (j.active \cup j.inactive) = {}

\* Every variable holds a value of its kind; update_catalog sorts each zone it
\* has looked at into exactly one of its two lists.
TypeOK ==
    /\ created \subseteq Zones /\ row \subseteq Zones /\ cds_disable \subseteq row
    /\ linked \subseteq Zones /\ subscribed \subseteq Zones
    /\ held \in [Handlers -> Held]
    /\ notif \in [pc : NotifPCs, owner : Zones, state : Billing]
    /\ queue \subseteq Messages
    /\ job \in [Workers -> Job]
    /\ \A w \in Workers : ListsDisjoint(job[w])
    /\ catalog \in [Zones -> Groups]
    /\ signal \in [Zones -> CdsContents] /\ file \in [Zones -> CdsContents]
    /\ registered \subseteq Zones
    /\ changes \in Nat /\ faults \in Nat
    /\ paid \subseteq Zones /\ intended \subseteq Zones
    /\ stale \subseteq Handlers /\ clobbered \subseteq Zones

\* A zone is in the catalog or registered at Netnod only if its owner once had an
\* active subscription, whatever Keycloak errors, retries and stale lists do.
OnlyPaidPublished ==
    \A z \in Zones : catalog[z] # "none" \/ z \in registered => z \in paid

\* The row's CDS setting is what the owner last chose, unless a view or a cron
\* job that had loaded the zone before saved its whole row afterwards.
CdsSettingKept ==
    \A z \in row : z \in clobbered \/ (z \in cds_disable <=> z \in intended)

\* What update_catalog would write now.
Listed(z) == IF z \in row \cap subscribed
             THEN IF z \in cds_disable THEN "zone-cds-disable" ELSE "zone"
             ELSE "none"

\* Once changes and faults cease, and if update-aname-zones keeps coming to its
\* last line, the catalog agrees with rows and subscriptions: the update_catalog
\* enqueued there repairs lost messages, snapshots written out of order, Keycloak
\* outages and rows that came back.
CatalogConverges ==
    AnameFairness => \A z \in Zones : <>[](catalog[z] = Listed(z))

\* Likewise the _signal zones end up with the CDS setting of every row.
SignalConverges ==
    AnameFairness =>
        \A z \in Zones :
            <>[](signal[z] = IF z \in row THEN Published(z, cds_disable) ELSE "none")

\* Likewise a zone that still has a row is registered at Netnod exactly if its
\* owner is subscribed; a deleted zone is in neither list and stays as it was.
NetnodConverges ==
    AnameFairness =>
        \A z \in Zones : <>[](z \in row => (z \in registered <=> z \in subscribed))

\* What the CDS page calls "Currently published CDS/CDNSKEY" ends up in the zone
\* file: zone_cds.html shows the records that cds_disable of the row selects.
ShownCdsIsPublished ==
    AnameFairness =>
        \A z \in Zones : <>[](z \in row /\ file[z] # "none"
                                => file[z] = Published(z, cds_disable))

==============================================================================
