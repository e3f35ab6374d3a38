# HexDNS verification

TLA+ models of HexDNS, a DNS hosting service: a Django application in which
customers edit zones, Celery tasks that turn the database into zone files, Knot
name servers that serve them, and Rust front ends (cache, zone transfer,
NOTIFY). The models are checked by TLC on small instances, and the main safety
properties are proved by TLAPS for every value of the constants.

Paths below are relative to `src/`; `dns_grpc/` stands for
`hexdns_django/dns_grpc/`.

## 1. Inventory of the system

### Components, their state and operations

| Component | Source | State | Operations |
|---|---|---|---|
| Record models | `dns_grpc/models.py` | rows of DNSZone and about twenty record tables | `save()`, `delete()`: **enqueue** `update_fzone`, **then** write the row; `validate_unique` |
| Forward zone views, API, RFC 2136 | `dns_grpc/views/fzone.py`, `dns_grpc/api/`, `dns_grpc/grpc.py` | none between requests; a request holds objects it loaded | create, import and delete zones; create, edit and delete records; CDS setting |
| Reverse and secondary zones | `dns_grpc/views/rzone.py`, `szone.py`, `management/commands/transfer-secondary.py` | rows; serial of a secondary zone | as for forward zones; a reverse zone also serves addresses of forward zones; AXFR every 15 minutes |
| Integrations | `dns_grpc/views/dyndns.py`, `github.py`, `google.py` | none between requests | change a service, then save records and the zone row |
| Celery tasks | `dns_grpc/tasks.py` | broker queue; zone files in S3 | `add_*zone`, `update_*zone`, `update_catalog`, `update_signal_zones`, `sync_netnod_zones`; every task is retried for ever |
| Netnod client | `dns_grpc/netnod.py` | zones registered at Netnod | check, register, de-register |
| Billing consumer | `management/commands/run-rpc.py` | `subscription_id`, `subscription_active` of an account | `sub_callback`, acknowledged last |
| Cron jobs | `management/commands/*.py` | zone rows (charged, checks, ANAME cache) | `validate-ns`, `validate-charged`, `update-aname-zones`, `transfer-secondary`, `resign-zones` |
| Knot sidecars | `knot/sidecar.py`, `knot/sidecar-secondary.py` | exclusive queues of reload messages | reload and resign consumers and the NOTIFY thread of the primary; NOTIFY to the secondary Knot |
| DNS cache | `dns-cache/src/main.rs`, `lib.rs` | LRU cache, `in_flight` markers | lookup, fetch, refresh, updater, flush listener, 5 s timeout |
| gRPC name server | `dns_grpc/grpc.py` | none of its own; up to 128 threads | lookups (read only); RFC 2136 updates, query by query without a transaction |
| AXFR server | `axfr/src/main.rs`, `parser.rs`, `dns_grpc/axfr.py` | none between connections | authorisation, TSIG chain, zone file parser |
| AXFR access | `dns_grpc/models.py`, `views/fzone.py` | TSIG secrets, IP ACLs and NOTIFY targets of a zone, with `last_used` | forms; the server's look-ups save `last_used` |
| AXFR NOTIFY | `management/commands/run-axfr-notify.py`, `axfr-notify/src/main.rs` | durable queue `hexdns_axfr_notify` | answer Knot, look up the targets, one message each; send, acknowledge |
| Usage and names | `dns_grpc/utils.py`, `views/admin.py`, `validate-charged` | `charged` of a zone, usage and subscription at the billing service | `valid_zone`, `log_usage`: check, count, report, save |

### How they interact

    view / API / update --enqueue--> broker --> celery worker --read--> database
          |                                         |  write
          +--commit--> database                     v
                                                zone file (S3)
                                                    |  fanout reload message
                                                    v
                                     sidecar --zone-reload--> Knot

    billing --> run-rpc --+
    delete_zone ----------+--> update_catalog --> catalog file --> Knot
    add_fzone ------------+         |
    update-aname-zones ---+         +--> update_signal_zones --> _signal files
       (cron)                       +--> sync_netnod_zones(lists) --> Netnod API

    client --> dns-cache --gRPC--> upstream;  flush messages --> dns-cache

    primary Knot --NOTIFY--> sidecar --fanout--> sidecar-secondary --NOTIFY-->
      secondary Knot --writes--> its zone file  <--reads-- axfr server <--+
           |                                                              | AXFR
           +--NOTIFY--> run-axfr-notify --queue--> axfr-notify --NOTIFY-->+ customer's
                                                                            secondary

    view --> valid_zone --> log_usage --count--> billing --> save row

No two of these steps share a transaction, and all of them run concurrently.

### What is hard, and what makes each part correct

* **Publication.** A task is enqueued before the row it is about is committed;
  tasks read one table after the other; two workers may generate the same file;
  messages are acknowledged on receipt, so a killed worker loses its task; the
  reload exchange is a fanout without durable queues. Correct means: the file
  does not stay behind the tables, and Knot does not stay behind the file.
  The code cannot promise that without exceptions, so the properties say
  *exactly which* races can leave something stale.
* **Catalog, _signal zones, Netnod.** Snapshots are computed by one task and
  applied by another, possibly out of order; calls of Keycloak and Netnod fail.
  Correct means: nobody who never paid is published, and everything is repaired
  by the `update_catalog` of `update-aname-zones`, whenever that job comes to its last line.
* **Whole-row saves.** Every `zone.save()` writes all columns of an object
  loaded earlier. Correct means: an owner's CDS choice is not undone otherwise.
* **DNS cache.** Requests, refreshes, the updater and flushes interleave on two
  structures with separate locks. Correct means: no orphaned marker, every
  query answered, flushes take effect, SERVFAILs do not displace good answers.
* **Secondary zones.** The transfer job replaces records without a transaction,
  saves the serial after them and enqueues the task after that; it may die
  anywhere and saves objects loaded minutes ago. Correct means: an identical
  serial is proof of complete and current records, and the file follows them.
* **Updates and forms.** An update message checks prerequisites and CNAME
  exclusivity and then writes, record by record, by id, with a fallback to
  the wildcard; forms validate and then save; the API and imports do not
  check. Correct means: prerequisites hold when the first change is made, each
  RR has its effect and no other (RFC 2136's where the zone has no wildcard and
  nothing updates leave out), nothing is changed that the key may not manage at the RR's name
  but a wildcard standing in for it, and a CNAME is alone, interference by a named other writer excepted.
* **Zone transfer and NOTIFY.** Five processes pass a NOTIFY on and each may drop
  or repeat it; the file that is transferred is written at a time of its own;
  messages of a transfer go through a bounded channel and are signed in a chain; a look-up
  of a secret saves the whole row. Correct means: what a secondary installs is one
  whole version, every signature verifies, every query ends, an owner's edits
  stay, and a secondary is behind only if a NOTIFY was lost in a named way, and not for ever.
* **Names and usage.** The name is checked, the zones are counted, the count is reported, and
  only then is the row saved; every login saves the account, as it was loaded. Correct
  means: the usage billed is the number of charged zones, zones do not overlap and a user has one subscription, named races excepted, and
  `validate-charged` repairs the usage.

`PROJECT.json` lists each hazard with its line and the properties that cover it.

## 2. Modules

| Module | Models |
|---|---|
| `Publication` | what publication promises: committed tables, whole files |
| `ZonePublication` | from a request to the file Knot serves; implements `Publication` |
| `CatalogSync` | catalog zone, _signal zones, Netnod, CDS setting, subscriptions |
| `DnsCache` | the caching front end |
| `SecondaryTransfer` | secondary zones: transfer job, views, tasks |
| `RecordUpdate` | RFC 2136 updates against forms, API and imports |
| `AxfrServer` | zone transfer server, its look-ups in Django, the access rows, a secondary |
| `NotifyChain` | extends `AxfrServer` with the way of a NOTIFY from the primary Knot to it |
| `ZoneNames` | zone names, charged zones, usage and subscriptions |
| `MC...` of each | symmetry sets, and the messages, records and names of an instance |
| `...Proofs` of all but `Publication` | theorems and proofs; those of `AxfrServer` are in `NotifyChainProofs` |
| `RecordEffectProofs` | extends `RecordUpdateProofs` with what one RR does and may touch |

`NotifyChain` composes the server with the chain that wakes its clients by `EXTENDS`;
`ZonePublication` instantiates `Publication` (`INSTANCE ... WITH`, the mapping spelled out). The other modules meet where one leaves an output to another: `CatalogSync` decides the
membership that `CatalogReload` of `ZonePublication` takes as any set;
the `update_fzone` that a save of `RecordUpdate` enqueues is a step of a request of
`ZonePublication`; the `update_catalog` at the end of `add_szone` is a message of
`CatalogSync`, and the reload after `update_szone` works as in `ZonePublication`. The first step of
`NotifyChain`, `primary_loads`, is what `served` of `ZonePublication` changing means to the NOTIFYs.

Operators named `..._something` that a comment introduces with "Mutant:" are
plausible bugs of the definition that follows them. Substituting one for it
violates the property recorded in `PROJECT.json`; this is how we know that the
property depends on the code. They are not part of any specification.

### ZonePublication

*State.* `row`, `db` (database), `todo` (requests), `queue`, `job` (Celery),
`file` (S3), `reloads`, `sidecarUp` (sidecar), `member`, `served` (Knot).
A table's contents are a version number that each commit increases: the
properties only ask whether two parties have the same contents and which is
older. Deleting a zone is a new version too. `covers[z]` are the reverse zones that addresses
of `z` lie in: they are part of what those zones serve (the last table of a reverse zone), so a
commit of addresses is a commit there as well.

*Requests.* A request is the sequence of its steps on shared state (`delay`,
`commit`, `save_zone`, `delete_zone`) in the order of the code; the programs
differ between views:
`create_record` saves record then zone, `edit_record` zone then record,
`save_record` (API, RFC 2136) leaves the zone alone, `import_zone_file`
enqueues everything and then commits once, `setup_gsuite` deletes with a queryset
(no task), `delete_dhcid_record` is the record model without a `delete()`;
dynamic DNS, GitHub pages, the Google verification, the white-label name servers, the additional
CDS records, the administrator's views and the views of reverse zones have programs of their own;
`update_aname_zones`, the cron job, commits first and enqueues afterwards.
The views of all eighteen record types (`views/fzone.py`, lines 266 to 1581) have
these steps in the same order, and so have `save()` and `delete()` of their
models; the map names one range for each definition, so `create_record`,
`edit_record`, `Commit` and their like are mapped to some of the types they stand for.
A request may die anywhere.

*Tasks.* `StartTask`, one `generate_fzone` step per table, `write_zone_file`,
`send_reload_message` or (for `add_fzone`) `delay_catalog`. The step that reads the
addresses also enqueues `update_rzone` for the reverse zones they lie in (the code collects them in
the loop over the addresses and enqueues right after it). `TaskError` is
`autoretry_for=(Exception,)`, `WorkerCrash` a kill after the early
acknowledgement.

*Knot.* `callback_reload` acknowledges; on an error it requeues, which changes
nothing and is no step. `CatalogReload(S)` lets the membership become any set of
zones ever created: `CatalogSync` says which.

*History variables.* `raced` collects zones whose last change lost a race:
(1) a commit no waiting or running task is going to read, (2) a worker wrote
an older snapshot over a newer file, (3) a row came back through a whole-row save,
(4) a request or worker was killed with the refresh undone, (5) addresses left a reverse
zone, or went with their zone, and nobody told it. A file equal to the
tables ends it. `missed` collects zones whose reload was lost: sidecar down,
worker killed, row brought back, or `add_fzone` rewriting the file of a zone Knot serves.
The properties say that nothing *else* makes a file or Knot stale, so the set of
causes is the content of the result, and a new cause in the code
(a lost retry, a table forgotten, a reload forgotten) violates it.

*Refinement.* `Publication` has the tables, the files and what Knot answers from, and three
actions: somebody edits, a file is replaced by one made of committed versions, Knot takes over
whole files or drops zones. The mapping is the identity on these variables; each of the
other thirteen is hidden by stuttering. `Publication` does not promise currency, which the
code cannot keep; it does promise that no interleaving publishes what was not
committed and that no step changes two of the three at once.

### CatalogSync

*State.* Rows with their `cds_disable` column, accounts (`linked`,
`subscribed`), the object each handler has loaded (`held`), the billing message in
delivery, queue and jobs, and the outputs: `catalog`, `signal`, `file` (CDS
records of the zone file), `registered`.

*Actions.* `load_zone` followed by one of the views that save (`SetCds`,
`validate_ns`, `edit_record`, `create_record`) or delete; `sub_callback_*`
with redelivery; `update_catalog` as `StartTask` (one query), `is_active` per
zone (an error of Keycloak counts as inactive), `write_catalog`,
`delay_followups`; `sync_netnod_zone` per zone, active list first;
`update_aname_zones`, which enqueues the zones whose addresses it has renewed (`update_aname`)
and `update_catalog` if it comes to its end (`delay_update_catalog`).

*Abstractions.* Each zone has its own owner; the four _signal zones, written one
after the other by the same task, are one; equal messages waiting together are
one (the tasks are idempotent); ids of deleted zones are not reused (they are random);
the two `delay()` calls that end `update_catalog` are one step, as are the file
and the `delay()` of `add_fzone`, which `ZonePublication` has apart.

### DnsCache

*State.* The maps named as in the code, the program counter of each
`fetch_and_insert` (a request's miss, the refresh it spawned, the updater),
each request and its timeout task. An answer is the version of the upstream
data it was computed from and whether it is a SERVFAIL; time is the age of an entry.
`in_flight` is a set accessed without a lock, the cache a map behind one: one
action per access.

*External.* The gRPC upstream (`upstream_answers`, `upstream_error`,
`upstream_changes`), the publisher of flush messages and the passage of time
(`expire`, `timer_fires`) are modelled from how `main.rs` uses them. Eviction picks any
victim, a superset of the LRU order.

### SecondaryTransfer

*State.* Rows with serial, primary and error flag, `records`, the `version` of each
zone at each primary, the object each view or `validate-ns` holds, the job
(`cron`: its list of zone objects, the one in hand, what the transfer brought), queue,
tasks and files.

*Actions.* The job statement by statement: `soa_query` (identical serial, older
serial, error, or go on), `axfr_query`, `delete_records`, one `insert_record` per
record, `save_serial`, `delay_update_szone`; `soa_fails`, `soa_closed` and `axfr_fails`
are its error paths (an answer whose one RR is no SOA has no `times` at line 58 and ends the job),
`TransferDies` a kill between any two statements.
Views save whole objects (`SaveZone` brings deleted rows back).

*Abstractions.* A version of a zone at a primary is its serial, which grows and is
at least 1 (serial 0 stands for NULL); a record is where it was copied from and its
place. The job reads rows in any order. There is one job at a time
(`concurrencyPolicy: Forbid` in `hexdns_django/kube/django.yaml`).

*History variables.* `disturbed`: serial or primary were saved by somebody
else since the transfer; the next complete transfer ends it. `lost`: the last
refresh of the file was lost (killed with the task in hand, an older snapshot written
last); a file equal to the records ends it.

### RecordUpdate

*State.* `rows` (all record tables of a zone), `upd[u]` (the message of a gRPC thread, its
position, what `find_records` found), `form[w]` (the record a view validated).

*Actions.* `check_prereq` per prerequisite; per RR `next_rr` (`can_manage`),
`try_update` (the CNAME checks), `find_records_count` and `find_records_fetch` (a count
decides which lazy query runs later), then `save_rr`, or `delete_rr` per record and
`deleted_all`; `update_fails` is an exception or kill anywhere. Forms: `create_form` or
`edit_form` validate, `save_form` saves; `api_create`, `api_update` and
`import_zone_file` write at once.

*Abstractions.* One zone; names are one label below it, so a restricted key
covers one name. A and AAAA share a table as in the code (an edit may turn one into
the other), TXT stands for the types of `supported_types` whose code is alike, CNAME and DHCID have their own.
SSHFP stands for the tables that updates never touch, not even when all RRsets of a name go, but that
`any_records` sees (ANAME, HTTPS, Redirect and DynamicAddress too), DNSKEY for those that neither sees and that
the CNAME form does not look into. `GitHubPages` is between the two: `any_records` does not see it, the form does. TTLs are left out. The query or
queries of one prerequisite are one step; the apex of an RR stays the empty label, since only prerequisites
turn it into `@`; a class IN prerequisite has one value; a zone file
to import has one record. Messages refused before the first query (TSIG, zone,
malformed RRs) change nothing and are left out. The constants `Messages`,
`Entries` and `Initial` select what may arrive; the proofs hold for all of them.

*History variables.* `clean`: nobody else wrote since the check or RR
began; `quiet`: nobody wrote since the message arrived; `base`: the contents when
the RR began; `bypassed`: labels with a CNAME conflict that no check could see.

### AxfrServer and NotifyChain

*State.* One zone. `rows` (secret or ACL, and NOTIFY target, of each secondary), `file` (the secondary
Knot's zone file), `conn[t]` and `chan[t]` (the task of a connection and its channel),
`client[t]` and `copy[t]` (the secondary); for the chain `primary`, `local` (the two Knots), `reloads`,
`sidecar`, `thread` (run-axfr-notify), `queue`, `unacked`, `current` (axfr-notify).

*Actions.* `handle_request` with its refusals in the order of the code, `find_row` and `save_last_used`
(the two halves of `GetTSIGSecret` and `CheckIPACL`), `send_response` per message, which waits for room;
`open_form` and `submit_form` for the rows. The chain: `notify_conn`, `callback`, `axfr_notify_conn` (answers
before it looks up), `lookup_targets`, `publish`, `consume`, `skip`, `send_notify`, `ack`, and what can
go wrong at each.

*Abstractions.* A MAC is the sequence of what it was computed over, so that a MAC verifies exactly if
both sides chained the same things. The parser is its outcome: records, an error (`from_str` does not know
every type, DNAME for one), or a panic (`unimplemented!()` for KEY and NSEC). A target has one connection,
and run-axfr-notify one thread at a time: the code starts one per connection and answers before it publishes, so that the
last thread may still be publishing when the next connection comes. What it then publishes is, for the rest of the chain, a message in flight. A row is there,
not there, or there with an address that is of no use. The two Knots and the secondary
are external: they transfer, notify, flush and refresh.

*History variables.* `raced`: rows changed between the read and the save of a look-up. `missed`: targets whose last
NOTIFY was dropped or came to nothing. `reloadLost`: a reload never reached the secondary Knot; its next
refresh ends it.

### ZoneNames

*State.* Rows with name, owner, table and `charged`; `account[u]` (`subscription_id`), `subs` (billing); `loaded[u]`, what
logins have read of the account and not saved yet;
`access`, `known` (Domains service); `req[r]`, the steps a request has left and what it has read; slot 0
is `validate-charged`.

*Actions.* `check`, `existing`, `count`, then one of `report_usage`, `subscribe_user` with `save_account`, and
`report_refused`, then `insert` or `delete`; the order differs between views (an administrator's zone is saved
before it is counted, and a refusal is ignored). The job: `snapshot`, `domains`, `save` per zone, `count`, `report_usage`.
The signal receiver `create_user_profile` (`dns_grpc/models.py:48-52`) at every save of a user, that is at every login: `user_saved`
loads the account, `create_user_profile` saves all of it. `sub_cancelled` is `run-rpc`'s branch for cancellations, its load and its
save in one step; its other branches load and save the account whole as a login does, so the same two actions stand for them.

*Abstractions.* The three zone tables are one set of rows with a `table`; a name is a model value and
`Generic` says which names it is below. `access` changes at will: what the Domains service answers is the owner's business.
The zone view sets of `dns_grpc/api/views.py` call `views.valid_zone` and `views.log_usage`; neither
name exists in `dns_grpc.views`, so creating or deleting a zone through the API always ends in an exception
before anything changes, and is no action.

*History variables.* `excused`: users whose count may be wrong, until it is right again. A save of a whole row
(`Reverts`) excuses its owner as well when that is not the user of the request: it may put back a zone that the owner has
deleted and reported. A login that puts back another subscription excuses its user too. What is billed is
the subscription that the account names; one that is open and not named is what `doubled` counts.
`doubled`: users subscribed on a stale or lost answer, or whose account a login has saved as it was before it had the open subscription
it names. `unchecked`: zones whose name was not checked against all others.

## 3. Runs

| Run | Instance | Checks |
|---|---|---|
| `ZonePublication_faults` | 1 zone, 2 handlers, 2 workers, 2 tables, 2 requests, 1 fault | `TypeOK`, `StaleOnlyIfRaced`, `ServedTracksFile`, `ImplementsPublication` |
| `ZonePublication_live` | a zone and a reverse zone, 1 handler, 1 worker, 1 request, 2 faults, fair | `FilesConverge`, `ServedConverges` |
| `CatalogSync_main` | 1 zone, 2 handlers, 1 worker, 2 changes or faults, fair | `TypeOK`, `OnlyPaidPublished`, `CdsSettingKept`, `CatalogConverges`, `SignalConverges`, `NetnodConverges` |
| `CatalogSync_cds` | 1 handler, 1 worker, 1 change, fair | `ShownCdsIsPublished`, **violated** (section 6) |
| `DnsCache_keys` | 2 queries, both keys of a name, capacity 1, 1 fault | `TypeOK`, `MarkerHasFetcher`, `ServFailOnlyByEarlierMiss` |
| `DnsCache_live` | 1 query and the updater, 1 change, 1 flush, 2 faults, fair | `StaleOnlyIfOvertaken`, `EveryQueryAnswered`, `CacheConverges` |
| `SecondaryTransfer_main` | 2 zones, 2 primaries, 1 handler, 2 workers, 2 changes, 1 fault, fair | `TypeOK`, `IdenticalSerialIsCurrent`, `FileStaleOnlyIfLost`, `TransfersConverge` |
| `SecondaryTransfer_broken` | 2 zones, the primary of one closes its connections, fair | `TransfersConverge`, **violated** (section 6) |
| `RecordUpdate_safe` | 2 threads, 2 of 6 messages, 1 form, API request or import, an exception or kill anywhere, 3 initial zones | `TypeOK`, `PrereqsHoldWhenApplied`, `CnameAloneUnlessBypassed`, `RrApplied`, `ChangesInScope` |
| `RecordUpdate_cname` | 1 thread, 2 messages | `OneCnamePerLabel`, **violated** (section 6) |
| `NotifyChain_main` | 1 secondary (signed or not), 1 handler, 1 record, channel of 2, 2 updates, edits or faults, fair | `TypeOK`, `SignedAnswersVerify`, `InstalledWhole`, `RowsAsSubmitted`, `KnotStaleOnlyIfLost`, `StaleOnlyIfMissed`, `QueryEnds`, `SecondariesConverge` |
| `ZoneNames_main` | a domain and a name below it, 2 users, 2 requests and the job, 2 requests or failures, fair | `TypeOK`, `MisbilledOnlyIfRaced`, `NamesApart`, `OneSubscription`, `UsageConverges` |

*Why the bounds are enough.* Forward zones do not interact in `ZonePublication` and
zones not in `CatalogSync` (tasks and files are per zone, the catalog is a map over zones),
so one zone has all their races; a forward zone and its reverse zone do interact, and
`ZonePublication_live` has both. In `SecondaryTransfer` one job goes through all
zones, hence two. Two tables give torn reads, two workers writes out of order, two
handlers lost updates. Faults are bounded per behaviour, not per place: one or
two, anywhere. A cache of one entry with two keys evicts; one flush and one change
suffice to overtake a fetch, and the updater is a second fetcher besides the
query and its refresh. The six messages of `RecordUpdate` cover
each class of RR and prerequisite, both kinds of key, restricted and not, the
apex, "delete all RRsets" and wildcards in the zone, and the zones have records that updates leave out; any two of them run against each other.
A transfer of one record is three messages, one more than the channel of `NotifyChain` holds; two
events let a version follow another, or an edit or fault meet a transfer of a new version. Two
requests and the job of `ZoneNames` race pairwise; with two users a request for one of them can touch a zone of
the other, and the job comes to both; a login is one of the two events, so that it can meet the request that subscribes.
All safety properties and action properties of the passing runs are proved without bounds (section 5).

The models start from states the program can be in: zones that exist and
are settled, or none, so that a single request can be a creation, a change, a deletion
or a cancellation. Deadlock is checked except in `RecordUpdate`, `NotifyChain` and `ZoneNames`,
which may rest: nobody has to send messages, create zones, or change one. Elsewhere Knot, cron
or time always have a step.

## 4. Fairness

* Requests: a view that started runs on (`WF` per handler); nobody has to send one.
* Workers: Celery keeps workers consuming (`WF(TaskStep)` per worker). In
  `CatalogSync`, where one worker shares its queue among tasks, each message is
  delivered in the end (`SF` per message): RabbitMQ queues are FIFO. The model keeps
  the queue as a set, which allows every order; without `SF` a message could
  be overtaken for ever by cron's.
* Sidecar: `WF(SidecarStart)`, Kubernetes restarts the container; `WF` per reload:
  the consumer is sequential and requeues failures.
* The catalog: cron starts `update-aname-zones` every 15 minutes (`hexdns_django/kube/django.yaml`), and its last line
  is `update_catalog.delay()`. That it gets there is not assumed of the code: lines 33 to 38 catch `socket.timeout`
  and `struct.error` only, so another error of the resolver, or an answer with a CNAME in it (which line 45 cannot
  save in an inet field), ends the run, and each later one, until the ANAME or its answer changes. `FairSpec` has no fairness
  for the job; `CatalogConverges`, `SignalConverges` and `NetnodConverges` have `AnameFairness`, that some run
  comes to that line again and again, as their hypothesis. While it fails, an old snapshot
  written last, a Keycloak outage or a lost message is repaired only when some zone is
  created or deleted or a billing message comes. In `ZonePublication` a run that dies is a handler that dies, and its `WF` per handler
  says only that a run that lives goes on.
* Transfers: `WF(CronStep)`: cron starts the job every 15 minutes, its sockets have
  timeouts, and Kubernetes starts it again when it died (`restartPolicy: OnFailure`).
* Cache: tokio polls ready tasks and timers fire (`LocalFairness`).
  `EveryQueryAnswered` needs only that: the upstream may hang for ever.
  `CacheConverges` also needs upstream calls to end and time to pass: it has
  `UpstreamFairness` as its hypothesis.
* Transfers to customers: a secondary or the task it talks to takes a step when it can, and the timers of
  Knot and of the secondaries fire (`local_refreshes`, `local_flushes`, `refresh`). Nothing is assumed of
  the NOTIFY chain: `SecondariesConverge` holds if all of it is down, as DNS intends.
* Usage: `validate-charged` is started again and again (hourly in `hexdns_django/kube/django.yaml`). Its steps
  run on (`WF` of the job's slot) and it comes to every owner it finds (`SF(validate_charged(u))` per owner: a run goes
  through all of them one by one, so that no owner can be passed over for ever although another may be in hand when
  one looks). Nothing is assumed of the requests, which may hang.
* `RecordUpdate` claims no liveness.
* Faults are never fair: nothing has to fail.

The convergence properties are of the form "eventually always" and hold because changes
and faults are bounded: "once they cease".

## 5. Proofs

Every theorem holds for arbitrary sets of zones, handlers, workers, keys, queries and
secondaries, for zones of any length and for every bound; the assumptions are the named `ASSUME`s of the modules
(non-empty sets of zones and keys, natural bounds, finite keys, positive
capacity and table count, reverse zones that have none of their own, messages that are well formed,
unique ids at the start), which every run evaluates.

| Theorem | Property | Inductive invariant |
|---|---|---|
| `TypeCorrect` | `TypeOK` | itself |
| `OnlyCommittedPublished` | `NothingUncommitted` | with `TypeOK` |
| `StaleFilesWereRaced` | `StaleOnlyIfRaced` | with `TypeOK` and `NothingUncommitted` |
| `KnotTracksFiles` | `ServedTracksFile` | with `TypeOK` and `MembersCreated`: Knot knows no zone that was not created |
| `PublicationImplemented` | `ImplementsPublication` | step by step, with `TypeOK` and `NothingUncommitted` |
| `CacheTypeCorrect` | `TypeOK` | itself |
| `MarkersAreRemoved` | `MarkerHasFetcher` | with `FetchOwned`: a lookup never starts a fetch over a running one of the same request |
| `StaleEntriesWereOvertaken` | `StaleOnlyIfOvertaken` | answers computed before a pop belong to fetches in `late` |
| `ServFailKeepsGoodAnswers` | `ServFailOnlyByEarlierMiss` | every miss of a key with a usable entry is in `during` |
| `CatalogTypeCorrect` | `TypeOK` | itself |
| `PublishedWerePaid` | `OnlyPaidPublished` | also queued lists and lists under construction hold only paid zones |
| `CdsChoiceKept` | `CdsSettingKept` | also the copy held by a handler that is not stale is the row's |
| `TransferTypeCorrect` | `TypeOK` | itself |
| `IdenticalSerialsAreCurrent` | `IdenticalSerialIsCurrent` | `TransferInv`: serials are not ahead of the primary, the job's object is the row's unless `disturbed`, what it transfers is newer than the row's serial |
| `SecondaryFilesRefreshed` | `FileStaleOnlyIfLost` | `FileInv`: with `TransferInv` |
| `RecordsTypeCorrect` | `TypeOK` | `TypeInv`: also a busy thread has an RR, of class IN where it adds; nobody holds an id that was not handed out |
| `CnamesAlone` | `CnameAloneUnlessBypassed` | `CnameInv`: with what each check established |
| `PrerequisitesHold` | `PrereqsHoldWhenApplied` | `PrereqInv`: also the prerequisites behind the one in hand hold |
| `RrsApplied` (`RecordEffectProofs`) | `RrApplied` | `RrInv`: what an RR has done so far, per class and program counter |
| `UpdatesStayInScope` | `ChangesInScope` | `RrInv` |
| `TypeCorrect` (`NotifyChainProofs`) | `TypeOK`, channels within their capacity | `TransferInv`: with `Transferring` |
| `SignaturesVerify` | `SignedAnswersVerify` | `TransferInv` |
| `WholeZonesInstalled` | `InstalledWhole` | `TransferInv` |
| `FormsUndoneOnlyByRaces` | `RowsAsSubmitted` | with `RowsHeld`: the row a task has read is the one in the database, or its key is in `raced` |
| `ReloadsReachKnot` | `KnotStaleOnlyIfLost` | itself, with `TypeOK` |
| `StaleSecondariesMissed` | `StaleOnlyIfMissed` | with `Versions` |
| `NamesTypes` | `TypeOK` | `TypeInv`: also which steps each request has left, and what it has loaded (`ReqInv`), and `BoundInv` |
| `ZonesStayApart` | `NamesApart` | `NamesInv`: with `SeenAll` |
| `UsersSubscribeOnce` | `OneSubscription` | `OpenInv`: the open subscription is the account's or about to be |
| `UsersAreBilled` | `MisbilledOnlyIfRaced` | `BillInv`: what each step of a request relies on (`PhaseOK`) |

*Publication.* `StaleOnlyIfRaced` follows a refresh from the request that is
going to enqueue it, through queue, worker and snapshot, to the file: `Covered`
names these stages. It is inductive with `TypeOK` and `NothingUncommitted`; the last is
what makes "the snapshot is not older than the file" enough to conclude that
a table that was current stays current. The cases that matter: a commit
(either somebody reads the table later, or the zone enters `raced`), a task reading
table *t* (its snapshot takes over from its cursor), a write (either it hands the current
version on to the file or it moves the file backwards). A reverse zone is announced by the
forward task that has yet to read the addresses as well (`Announced`), hence `covers` in
`TypeOK` and in each of the cases.

*Knot.* `ServedTracksFile` follows the reload from the queue through the worker to the sidecar's queue. A zone that
is created must not be one Knot already has, or its empty tables would be served unannounced; `MembersCreated` excludes it.

*Refinement.* `PublicationImplemented` maps every step of the pipeline to a step of `Publication` or a
stutter: commits and the deletion of a zone to `Edit`, `write_zone_file` to `Publish`, which needs
`NothingUncommitted` of the snapshot it writes, `callback_reload` and `CatalogReload` to `Load`,
everything else to nothing. `NothingUncommitted` is a strengthening for these proofs and follows
from the refinement for files and Knot.

*Cache.* An answer held by a fetch and older than the last pop of its key was
obtained before that pop (`AnswersBeforePopAreLate`, part of `FlushInv`), because an
answer is never older than the upstream at the moment it is given. While an entry is
usable, each unfinished miss of its key began before the entry was put
(`MissesAreEarlier`, part of `MissInv`): a lookup that finds a usable entry does not miss.

*Catalog.* `OnlyPaidPublished` alone is not inductive: a list computed
before a cancellation is published after it. `PaidInv` adds that the
subscriptions, all waiting messages and all lists of running tasks are about
owners that once paid. `CdsSettingKept` needs the objects in memory: `HeldCurrent` says that a
handler that is not stale holds the owner's choice, `AboutCreated` that a fresh id
was never chosen about.

*Secondary zones.* `IdenticalSerialIsCurrent` needs to know that a zone under
transfer is due: `TransferNewer` says that while records are deleted and inserted the
row still has a serial older than the primary's, so dying there leaves the zone due and
not "identical". Version numbers that only grow give `SerialsBehind`. For the file, each
step that changes the records leaves the zone due or the task about to be enqueued.

*Updates.* A conflict can only appear at the label a write saves to. `CheckedAdd` keeps
what `_try_update` found until the save, as long as the thread is `clean`; `FoundSame` says that
a record that is saved under the RR's name has the RR's type, so that renaming a
wildcard adds nothing the check did not ask about; `CheckedForm` keeps what
`validate_unique` found. Any write by another actor either leaves the rows alone or ends
`clean`, and everything else deletes or is excused. Unique ids (`TypeInv`) make `Saved` replace one row.

The other three properties are about one thread, so every step is either its own or a `Bystander`'s, which
leaves the thread as it is and, unless a history variable says so, the rows too (`StepSplit`). `PrereqInv`
collects the prerequisites one by one: each keeps holding because `quiet` ends with the first write.
`RrInv` says how far an RR has come. An addition has changed nothing yet and was not refused (`Adding`): `IgnoredRefused` and
`CountTaken` show that the queries of `_try_update` refuse just what `Refused` says, and find just what is `Taken` for the name's
records, in any zone. A deletion (`Deleting`) lies between where it began and where it has to end, has left nothing of what it is `About` in the
tables before the one in hand, has not touched those after it, and has found all it must delete in this one: when no table is left
nothing of the kind remains, and the effect is `Effects` whatever wildcards, apex or unlisted records the zone has. That this is RFC 2136's effect
in a `Plain` zone is a fact about the two operators alone (`PlainEffects`). `Read` (what was found is still there, and is what the RR is about)
and `Allowed` (the key was asked) give `ChangesInScope`, with unique ids.

*Zone transfers.* `Good` relates a task of the server, its channel and the secondary: what the
secondary has had, what is in the channel and what is still to be sent are, in this order, the answers to its query
with one version (`Transfer`); the MACs in the channel continue the chain of the secondary (`Chained`) and the server continues
theirs (`Continues`); an error is alone in the channel. `Transferring` says so of every connection. Each step of the server or the secondary moves one
connection from a good state to a good one: a lemma per step about the connection alone (`LoadGood`, `SendGood`,
`MoreGood`, `LostGood`, ...), and `MoveGood` lifts it to the system. The second SOA is then the last
answer, and the secondary holds all records of one version when it comes.

*NOTIFYs.* `Versions` says that versions only grow towards the primary: nothing on its way to a secondary is newer than the
secondary Knot, which is not newer than the primary, and a secondary asks for the zone only if it is behind. Installing an older version
than Knot's thus never makes a current secondary stale. `Round` sums up what a step of a connection may do to a NOTIFY;
each step of the chain hands a NOTIFY on to the next stage of `Coming` or puts its target in `missed`.

*Names and usage.* A request is the sequence of steps it has left (`todo`); `TypeInv` lists the sequences
there are, so that each step's proof knows what comes next, and `BoundInv` counts zones and requests that will insert one against
the requests made, which is what keeps a new id fresh. `SeenAll` says that a request past `valid_zone`
with nothing inserted behind its back (`stale`) conflicts with no zone that was checked itself. `OpenAt` follows a subscription
from `subscribe_user` to `save_account`: one request at most is between the two, and while none is, an open subscription is the one of the account;
a login may change the account at any time, but if it takes the id of an open one away the user is in `doubled`.
`BillInv` is about users without an excuse: they have one request at most, pay for the zones charged to them
when it is done, and until then `PhaseOK` ties what was counted, what was reported and what is about to be inserted
or deleted together; what `validate-charged` holds of theirs is what the rows say. The converse direction, that each race puts its victim
into `excused` at once, is what the case of every step comes down to. `ReportsComeTrue` states `BillInv` as a theorem of its own.

*Only model-checked:* the eleven liveness properties, which are out of the prover's reach
(`FilesConverge`, `ServedConverges`, `CatalogConverges`, `SignalConverges`, `NetnodConverges`,
`EveryQueryAnswered`, `CacheConverges`, `TransfersConverge`, `QueryEnds`, `SecondariesConverge`,
`UsageConverges`). Every invariant and action property of a passing run is proved.

## 6. Findings

**CDS setting.** `disable_zone_cds` and `enable_zone_cds` (`dns_grpc/views/fzone.py:1605-1639`) save
the row and enqueue nothing, and `DNSZone.save` enqueues nothing either.
The page they return to shows the records the row selects under "Currently published
CDS/CDNSKEY" (`templates/dns_grpc/fzone/zone_cds.html:28`). `CatalogSync_cds` has a
fair behaviour in which the zone file keeps the old records for ever; only a
later change of some record would rewrite it, or the job for ANAME records if the zone has one. The catalog group and the
_signal zones do follow when `update-aname-zones` next comes to its end (`CatalogConverges`, `SignalConverges`).

**Transfer job.** When a primary closes the connection without an answer,
`transfer-secondary.py:46` raises `struct.error`, which is caught and reported, but without the
`zone.save()` and `continue` of the next error path; line 49 then reads `response_len`,
which has no value, and the `UnboundLocalError` ends the job. `SecondaryTransfer_broken` has a
fair behaviour in which a zone behind it in the list, with a healthy primary, is never
transferred.

**Second CNAME.** `_try_update` (`dns_grpc/grpc.py:1213`) looks for other records of the
name with `include_cname=False` before it adds a CNAME, so a CNAME with another target is added next
to the one that is there. The form refuses the same with "Another record already exists
with the same label" (`dns_grpc/models.py:939`). `RecordUpdate_cname` shows it with two messages.

*Observations without a run of their own.* The models have these as they are in the code, and the properties name
them; no run singles them out:

* *Updates and wildcards.* `find_records` (`dns_grpc/grpc.py:138-152`) takes the wildcard's rows where the name has none in the
  table, also for updates: deleting a name deletes the wildcard, and adding to a name may rename the wildcard's row with the same data to it.
  `can_manage` has asked about the name of the RR, so a key restricted to one host changes the wildcard, outside its
  `restrict_to` (`dns_grpc/models.py:293-295`). `ChangesInScope` allows this and nothing else.
* *Updates at the apex.* Line 1202 leaves the empty label where prerequisites have `@` (lines 999 and 1053): deletions find
  nothing, additions do not see a CNAME there.
* *Deleting all RRsets* goes through 13 tables (lines 1267 to 1271) and leaves SSHFP, HTTPS, ANAME, DynamicAddress, Redirect, GitHubPages and
  DNSKEY records; most of these `any_records` does see, so a CNAME cannot be added after it.
* *The CNAME form* does not look at DNSKEY records (`dns_grpc/models.py:923-929`).
* *Two subscriptions by a login.* `create_user_profile` (`dns_grpc/models.py:48-52`) saves the whole account; loaded before `log_usage` saves
  a new `subscription_id` and saved after it, it erases the id, and the next request subscribes the user again (`doubled`).
* *The ANAME job.* What `update-aname-zones.py:33-47` does not catch ends the run before `update_catalog.delay()` (section 4).
* *Type of the SOA answer.* One RR that is no SOA ends the transfer job with an `AttributeError` (`transfer-secondary.py:58`).

## 7. Not modelled, and plan

Left out on purpose:

* forms, templates, migrations, generated protobuf code, permissions and serializers: no shared state;
* the sockets of the DNS cache (`dns-cache/src/lib.rs`) and the UDP socket of the AXFR server, where a panic of
  the parser ends the process instead of a connection;
* parsers of single record types, errors of `sign_message` (algorithms are checked before), formatting of zone files;
* lookups of `grpc.py`: they read tables and keep no state, and answer to the DNS cache only;
* OAuth states and tokens of GitHub and Google: one user's requests read and write them;
* the resign consumer and `resign-zones`: they change nothing the models know;
* counters and mails of `validate-ns`; that it saves stale objects is modelled in `CatalogSync` and `SecondaryTransfer`;
* the heartbeat thread of `dns_grpc/apps.py`; its reconnect, which ends in a `NameError` at line 66, is a `TaskError`.

With one zone, `NotifyChain` cannot see that `GetTSIGSecret` (`dns_grpc/axfr.py:15-33`) looks a secret up by its id alone: it checks
neither that the secret belongs to the zone of the key's name nor that this is the zone to transfer. In `ZoneNames`, requests that save whole zone rows for other reasons than names and charges (record views, zone
settings) are no actions; what such a save can do, bringing a deleted zone back or a `charged` flag, is what `save` does for `create_domains_zone`.

In `update_catalog`, zones whose root does not match the zone name pattern are
skipped; the models have only valid roots.

Planned, in this order:

1. Lookup algorithms of `grpc.py` (wildcards, CNAME chains, ANAME) against a
   reference definition; key tags and SVCB parameters as pure operators.
2. `validate-ns` with its counter; the UDP side of the AXFR server.
