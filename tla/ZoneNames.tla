------------------------------- MODULE ZoneNames -------------------------------
(***************************************************************************)
(* Names of zones, and what their owners are charged for: create and       *)
(* delete of forward and secondary zones, for owners (views/fzone.py,      *)
(* szone.py) and administrators (views/admin.py), valid_zone and log_usage *)
(* (utils.py), and the cron job validate-charged.                          *)
(*                                                                         *)
(* A request checks a name, counts the zones of its user, reports the      *)
(* count to the billing service and then changes a row; other requests run *)
(* between any two of these steps, and it may die between them.  A request *)
(* is the sequence of the steps it has left.                               *)
(***************************************************************************)
EXTENDS Integers, Sequences, FiniteSets

CONSTANTS
    Users,
    Names,        \* names of zones
    Generic,      \* Generic[n]: n and the names n is below
    Registrable,  \* names the public suffix list has nothing against
    Creates,      \* what owners try to create: names and tables
    AdminCreates, \* what administrators create
    NumRequests,  \* concurrent requests
    MaxEvents     \* bound: requests and failures

ASSUME UsersAssumption == Users # {} /\ Names # {}
ASSUME NamesAssumption ==
    /\ Registrable \subseteq Names
    /\ Generic \in [Names -> SUBSET Names]
    /\ \A n \in Names : n \in Generic[n]
    /\ Creates \subseteq Names \X {"forward", "secondary"}
    /\ AdminCreates \subseteq Names \X {"forward", "secondary", "reverse"}
ASSUME BoundsAssumption == NumRequests \in Nat /\ MaxEvents \in Nat

Cron == 0                    \* the validate-charged job
Requests == 1 .. NumRequests
Slots == 0 .. NumRequests
Ids == 1 .. MaxEvents + 1    \* every zone but the first takes a request
Tables == {"forward", "secondary", "reverse"}
Row == [name : Names, owner : Users, table : Tables, charged : BOOLEAN]

VARIABLES
    live,       \* ids of the zones that have a row
    row,        \* row[i]: the row of zone i, the last one if it is deleted
    created,    \* rows created so far: ids grow
    account,    \* account[u]: subscription_id, 0 if there is none
    subs,       \* subscriptions of the billing service, with their usage
    loaded,     \* loaded[u]: what logins of u have read of the account
    known,      \* users the Domains service knows
    access,     \* names the Domains service says their owners hold
    req,        \* req[r]: what slot r is doing
    events,     \* requests and failures so far
    excused,    \* history: users whose count may be wrong
    doubled,    \* history: users subscribed on a stale or lost answer, or one erased
    unchecked   \* history: zones whose name was not checked against all others

zoneVars == <<live, row, created>>
billVars == <<account, subs, loaded>>
vars == <<zoneVars, billVars, known, access, req, events, excused, doubled, unchecked>>

Event == events < MaxEvents /\ events' = events + 1

\* What log_usage counts, over the three tables.
Charged(u) == Cardinality({i \in live : row[i].owner = u /\ row[i].charged})

Settled(u) == account[u] = 0 \/ subs[account[u]].usage = Charged(u)
Busy(u) == \E r \in Slots : req[r].todo # <<>> /\ req[r].user = u

\* History: S have an excuse now, until their count is right again.
Excuse(S) == excused' = {u \in excused \cup S : Busy(u)' \/ ~ Settled(u)'}

------------------------------------------------------------------------------
(* Requests.                                                                 *)

AnyRow == CHOOSE x \in Row : TRUE
Nothing == [todo |-> <<>>, user |-> AnyRow.owner, zone |-> 0, new |-> AnyRow,
            extra |-> 0, count |-> 0, sub |-> 0, stale |-> FALSE, snapshot |-> {}]

\* The request of a user begins, in the first slot that is free.  History: it may get in the way of another.
Begin(r, u, todo, zone, new, extra) ==
    /\ req[r] = Nothing
    /\ \A s \in 1 .. r - 1 : req[s] # Nothing
    /\ req' = [req EXCEPT ![r] = [Nothing EXCEPT !.todo = todo, !.user = u,
                 !.zone = zone, !.new = new, !.extra = extra]]
    /\ UNCHANGED <<zoneVars, billVars, known, access, doubled, unchecked>>
    /\ Excuse(IF Busy(u) THEN {u} ELSE {})

NewRow(u, n, table, charged) ==
    [name |-> n, owner |-> u, table |-> table, charged |-> charged]

\* Mutant: the new zone is not counted.
create_zone_uncounted(r, u, n, table) ==
    /\ Event
    /\ Begin(r, u, <<"check", "count", "report", "insert">>, 0,
             NewRow(u, n, table, TRUE), 0)

\* create_zone and create_szone.
create_zone(r, u, n, table) ==
    /\ Event
    /\ Begin(r, u, <<"check", "count", "report", "insert">>, 0,
             NewRow(u, n, table, TRUE), 1)

\* create_domains_zone: the zone comes with the domain and is not charged.
create_domains_zone(r, u, n) ==
    /\ Event
    /\ Begin(r, u, <<"existing", "check", "count", "report", "insert">>, 0,
             NewRow(u, n, "forward", FALSE), 0)

\* delete_zone and delete_szone load the row.
delete_zone(r, i) ==
    /\ i \in live /\ row[i].table # "reverse"
    /\ Event
    /\ Begin(r, row[i].owner, <<"count", "report", "delete">>, i, row[i],
             IF row[i].charged THEN -1 ELSE 0)

\* The administrator's views: no check of the name, the row first, and what
\* billing says is ignored.
admin_create(r, u, n, table) ==
    /\ Event
    /\ Begin(r, u, <<"insert", "count", "report_anyway">>, 0,
             NewRow(u, n, table, TRUE), 0)

\* One less, even if the zone is not charged.
admin_delete(r, i) ==
    /\ i \in live
    /\ Event
    /\ Begin(r, row[i].owner, <<"count", "report_anyway", "delete">>, i, row[i], -1)

\* The account is loaded, and has no subscription, before the zones are counted.
setup_subscription(r, u) ==
    /\ account[u] = 0
    /\ Event
    /\ Begin(r, u, <<"count_loaded", "report">>, 0, AnyRow, 0)

\* Mutant: only users with a zone that is not charged.
validate_charged_free(u) ==
    /\ \E i \in live : row[i].owner = u /\ row[i].table = "forward" /\ ~ row[i].charged
    /\ Begin(Cron, u, <<"snapshot", "domains", "count", "report_anyway">>, 0, AnyRow, 0)
    /\ UNCHANGED events

\* validate-charged, for the users it finds forward zones of.
validate_charged(u) ==
    /\ \E i \in live : row[i].owner = u /\ row[i].table = "forward"
    /\ Begin(Cron, u, <<"snapshot", "domains", "count", "report_anyway">>, 0, AnyRow, 0)
    /\ UNCHANGED events

------------------------------------------------------------------------------
(* Their steps.                                                              *)

At(r, step) == req[r].todo # <<>> /\ Head(req[r].todo) = step

Ended(q) == IF q.todo = <<>> THEN Nothing ELSE q
Goto(r, q) == req' = [req EXCEPT ![r] = Ended(q)]
Go(r) == Goto(r, [req[r] EXCEPT !.todo = Tail(@)])

\* Two names valid_zone does not want together, in this order of creation.
Conflict(old, new) == old \in Generic[new]

\* Mutant: secondary zones are left out.
TakenIn_forward == {i \in live : row[i].table = "forward"}

\* The zones valid_zone looks at.
TakenIn == {i \in live : row[i].table # "reverse"}

valid_zone(n) == n \in Registrable /\ \A i \in TakenIn : ~ Conflict(row[i].name, n)

check(r) ==
    /\ At(r, "check")
    /\ IF valid_zone(req[r].new.name) THEN Go(r) ELSE Goto(r, Nothing)
    /\ UNCHANGED <<zoneVars, billVars, known, access, events, doubled, unchecked>>
    /\ Excuse({})

\* create_domains_zone: an existing row is loaded, to be made active and saved.
existing(r) ==
    /\ At(r, "existing")
    /\ LET same == {i \in live : row[i].table = "forward" /\ row[i].name = req[r].new.name}
       IN  \/ \E i \in same : Goto(r, [req[r] EXCEPT !.todo = <<"save">>,
                                         !.snapshot = {[id |-> i, row |-> row[i]]}])
           \/ same = {} /\ Go(r)
    /\ UNCHANGED <<zoneVars, billVars, known, access, events, doubled, unchecked>>
    /\ Excuse({})

\* log_usage: the count, and the account, which stays loaded.
count(r) ==
    /\ At(r, "count") \/ At(r, "count_loaded")
    /\ Goto(r, [req[r] EXCEPT !.todo = Tail(@),
                              !.sub = IF At(r, "count") THEN account[req[r].user] ELSE @,
                              !.count = Charged(req[r].user) + req[r].extra])
    /\ UNCHANGED <<zoneVars, billVars, known, access, events, doubled, unchecked>>
    /\ Excuse({})

Reports(r) == At(r, "report") \/ At(r, "report_anyway")

\* A subscription exists: its usage is set.
report_usage(r) ==
    /\ Reports(r)
    /\ req[r].sub # 0
    /\ subs' = [subs EXCEPT ![req[r].sub].usage = req[r].count]
    /\ Go(r)
    /\ UNCHANGED <<zoneVars, account, loaded, known, access, events, doubled, unchecked>>
    /\ Excuse({})

\* None does: subscribe_user.  History: somebody else has subscribed since the
\* account was loaded, or is about to save a subscription.
Subscribing(u) == \E r \in Slots : req[r].user = u /\ At(r, "save_account")

subscribe_user(r) ==
    /\ Reports(r)
    /\ req[r].sub = 0
    /\ LET u == req[r].user IN
       /\ subs' = Append(subs, [owner |-> u, usage |-> req[r].count, open |-> TRUE])
       /\ doubled' = IF account[u] # 0 \/ Subscribing(u) THEN doubled \cup {u} ELSE doubled
    /\ Goto(r, [req[r] EXCEPT !.todo[1] = "save_account", !.sub = Len(subs')])
    /\ UNCHANGED <<zoneVars, account, loaded, known, access, events, unchecked>>
    /\ Excuse({})

\* Mutant: the account is changed but not saved.
Saved_not(r) == account
\* Mutant: the id of the next subscription.
Saved_next(r) == [account EXCEPT ![req[r].user] = req[r].sub + 1]

\* user.account.save().
Saved(r) == [account EXCEPT ![req[r].user] = req[r].sub]

save_account(r) ==
    /\ At(r, "save_account")
    /\ account' = Saved(r)
    /\ Go(r)
    /\ UNCHANGED <<zoneVars, subs, loaded, known, access, events, doubled, unchecked>>
    /\ Excuse({})

\* Billing refuses: the owner's request ends, the administrator's goes on.
report_refused(r) ==
    /\ Reports(r)
    /\ Event
    /\ IF At(r, "report") THEN Goto(r, Nothing) ELSE Go(r)
    /\ UNCHANGED <<zoneVars, billVars, known, access, doubled, unchecked>>
    /\ Excuse(IF At(r, "report") THEN {} ELSE {req[r].user})

\* It has made its check and is going to insert its row.
WillInsert(r) == /\ \E k \in DOMAIN req[r].todo : req[r].todo[k] = "insert"
                 /\ \A k \in DOMAIN req[r].todo : req[r].todo[k] # "check"

\* The row of a new zone.  History: checked unless by an administrator or before
\* another zone came; those who are still to insert have not seen this one.
insert(r) ==
    /\ At(r, "insert")
    /\ LET i == created + 1
           new == req[r].new
           late == {s \in Slots \ {r} : WillInsert(s) /\ Conflict(new.name, req[s].new.name)}
       IN
       /\ created' = i
       /\ live' = live \cup {i}
       /\ row' = [row EXCEPT ![i] = new]
       /\ unchecked' = IF req[r].stale \/ Len(req[r].todo) > 1
                       THEN unchecked \cup {i} ELSE unchecked
       /\ req' = [s \in Slots |->
                    IF s = r THEN Ended([req[r] EXCEPT !.todo = Tail(@)])
                    ELSE IF s \in late THEN [req[s] EXCEPT !.stale = TRUE] ELSE req[s]]
    /\ UNCHANGED <<billVars, known, access, events, doubled>>
    /\ Excuse({})

\* delete() of the loaded row.  History: the administrator takes one off for a
\* zone that was not charged.
delete(r) ==
    /\ At(r, "delete")
    /\ live' = live \ {req[r].zone}
    /\ Go(r)
    /\ UNCHANGED <<row, created, billVars, known, access, events, doubled, unchecked>>
    /\ Excuse(IF req[r].extra = -1 /\ ~ req[r].new.charged THEN {req[r].user} ELSE {})

------------------------------------------------------------------------------
(* validate-charged: all forward zones of the user, what the Domains service *)
(* says of their names, a save of each that changes, and a report.           *)

snapshot(r) ==
    /\ At(r, "snapshot")
    /\ Goto(r, [req[r] EXCEPT !.todo = Tail(@), !.snapshot =
          {[id |-> i, row |-> row[i]] :
              i \in {j \in live : row[j].owner = req[r].user /\ row[j].table = "forward"}}])
    /\ UNCHANGED <<zoneVars, billVars, known, access, events, doubled, unchecked>>
    /\ Excuse({})

\* charged as the service wants it, for an unknown user (404) TRUE.
Wanted(u, z) == u \notin known \/ z.row.name \notin access

\* What is left to do; after a 404 nothing is reported (continue).
AfterDomains(u) == IF u \in known THEN <<"save", "count", "report_anyway">> ELSE <<"save">>

domains(r) ==
    /\ At(r, "domains")
    /\ LET u == req[r].user
           changed == {z \in req[r].snapshot : z.row.charged # Wanted(u, z)}
       IN
       /\ Goto(r, [req[r] EXCEPT !.todo = AfterDomains(u), !.snapshot =
             {[z EXCEPT !.row.charged = ~ @] : z \in changed}])
    /\ UNCHANGED <<zoneVars, billVars, known, access, events, doubled, unchecked>>
    /\ Excuse({u \in {req[r].user} \ known :
                 \E z \in req[r].snapshot : z.row.charged # Wanted(u, z)})

\* History: a save that puts back what has changed since z was loaded, or z itself.
Reverts(z) == z.id \notin live \/ row[z.id] # z.row

\* zone.save(): the whole row as it was loaded, back if it has been deleted.
\* History: it may undo what the owner, somebody else, has reported meanwhile.
save(r) ==
    /\ At(r, "save")
    /\ UNCHANGED <<created, billVars, known, access, events, doubled>>
    /\ \/ \E z \in req[r].snapshot :
             /\ live' = live \cup {z.id}
             /\ row' = [row EXCEPT ![z.id] = z.row]
             /\ unchecked' = IF z.id \in live THEN unchecked ELSE unchecked \cup {z.id}
             /\ Goto(r, [req[r] EXCEPT !.snapshot = @ \ {z}])
             /\ Excuse(IF Reverts(z) THEN {z.row.owner} \ {req[r].user} ELSE {})
       \/ /\ req[r].snapshot = {}
          /\ Go(r)
          /\ UNCHANGED <<live, row, unchecked>>
          /\ Excuse({})

------------------------------------------------------------------------------
\* A request or the job dies: an exception of one of the services, a kill.
\* History: it had reported what it did not do, or done what it did not report.
dies(r) ==
    /\ req[r].todo # <<>>
    /\ Event
    /\ Goto(r, Nothing)
    /\ doubled' = IF At(r, "save_account") THEN doubled \cup {req[r].user} ELSE doubled
    /\ UNCHANGED <<zoneVars, billVars, known, access, unchecked>>
    /\ Excuse({req[r].user})

\* External: a domain is registered or given up at the Domains service.
domain_changes(n) ==
    /\ Event
    /\ access' = (access \cup {n}) \ (access \cap {n})
    /\ UNCHANGED <<zoneVars, billVars, known, req, excused, doubled, unchecked>>

\* run-rpc: the subscription was cancelled.
sub_cancelled(u) ==
    /\ account[u] # 0
    /\ Event
    /\ subs' = [subs EXCEPT ![account[u]].open = FALSE]
    /\ account' = [account EXCEPT ![u] = 0]
    /\ UNCHANGED <<zoneVars, loaded, known, access, req, doubled, unchecked>>
    /\ Excuse({})

\* A User row is saved, by every login: create_user_profile loads the account ...
user_saved(u) ==
    /\ Event
    /\ loaded' = [loaded EXCEPT ![u] = @ \cup {account[u]}]
    /\ UNCHANGED <<zoneVars, account, subs, known, access, req, excused, doubled, unchecked>>

\* ... and saves all of it, in a query of its own.  History: it may take away the id
\* of an open subscription, or put one back that is not kept up to date.
create_user_profile(u, id) ==
    /\ id \in loaded[u]
    /\ loaded' = [loaded EXCEPT ![u] = @ \ {id}]
    /\ account' = [account EXCEPT ![u] = id]
    /\ doubled' = IF account[u] \notin {0, id} /\ subs[account[u]].open
                  THEN doubled \cup {u} ELSE doubled
    /\ UNCHANGED <<zoneVars, subs, known, access, req, events, unchecked>>
    /\ Excuse(IF id \in {0, account[u]} THEN {} ELSE {u})

Step(r) ==
    \/ check(r) \/ existing(r) \/ count(r)
    \/ report_usage(r) \/ subscribe_user(r) \/ save_account(r)
    \/ insert(r) \/ delete(r)
    \/ snapshot(r) \/ domains(r) \/ save(r)

Next ==
    \/ \E r \in Requests, u \in Users :
          \/ \E c \in Creates : create_zone(r, u, c[1], c[2])
          \/ \E c \in AdminCreates : admin_create(r, u, c[1], c[2])
          \/ \E n \in Registrable : create_domains_zone(r, u, n)
    \/ \E r \in Requests, i \in Ids : delete_zone(r, i) \/ admin_delete(r, i)
    \/ \E r \in Requests, u \in Users : setup_subscription(r, u)
    \/ \E u \in Users :
          \/ validate_charged(u) \/ sub_cancelled(u)
          \/ user_saved(u) \/ \E id \in loaded[u] : create_user_profile(u, id)
    \/ \E r \in Slots : Step(r) \/ report_refused(r) \/ dies(r)
    \/ \E n \in Names : domain_changes(n)

\* Nothing yet, or one user with a zone and a subscription.
Init ==
    /\ \/ /\ created = 0
          /\ row = [i \in Ids |-> AnyRow]
          /\ account = [u \in Users |-> 0]
          /\ subs = <<>>
       \/ \E v \in Users, c \in Creates, charged \in BOOLEAN :
             /\ charged \/ c[2] = "forward"
             /\ created = 1
             /\ row = [i \in Ids |-> IF i = 1 THEN NewRow(v, c[1], c[2], charged) ELSE AnyRow]
             /\ account = [u \in Users |-> IF u = v THEN 1 ELSE 0]
             /\ subs = <<[owner |-> v, usage |-> IF charged THEN 1 ELSE 0, open |-> TRUE]>>
    /\ loaded = [u \in Users |-> {}]
    /\ live = 1 .. created
    /\ known \in SUBSET Users
    /\ access = {}
    /\ req = [r \in Slots |-> Nothing]
    /\ events = 0
    /\ excused = {}
    /\ doubled = {}
    /\ unchecked = {}

Spec == Init /\ [][Next]_vars

\* The job goes on, is started again and again, and comes to every owner it finds.
Fairness ==
    /\ WF_vars(Step(Cron))
    /\ \A u \in Users : SF_vars(validate_charged(u))

FairSpec == Spec /\ Fairness

------------------------------------------------------------------------------
TypeOK ==
    /\ live \subseteq 1 .. created
    /\ created \in 0 .. MaxEvents + 1
    /\ row \in [Ids -> Row]
    /\ \A u \in Users : account[u] \in 0 .. Len(subs) /\ loaded[u] \subseteq 0 .. Len(subs)
    /\ \A s \in DOMAIN subs : subs[s].usage \in Int /\ subs[s].owner \in Users
    /\ known \subseteq Users
    /\ access \subseteq Names
    /\ \A r \in Slots : req[r].user \in Users /\ req[r].new \in Row
    /\ events \in 0 .. MaxEvents
    /\ excused \subseteq Users /\ doubled \subseteq Users /\ unchecked \subseteq Ids

\* An owner is billed for the zones charged to them, once nothing is going on,
\* unless requests overlapped, one died, a refusal was ignored, an
\* administrator deleted a zone that was not charged, a 404 charged zones
\* without a report, somebody else's save put back what the owner's request
\* had changed, or a login an old subscription; the next correct report ends the
\* excuse.
MisbilledOnlyIfRaced == \A u \in Users : Busy(u) \/ Settled(u) \/ u \in excused

\* No zone is created at or below the name of another one, unless by an
\* administrator, or the two were created at the same time, or a save brought
\* one of them back.
NamesApart ==
    \A i, j \in {k \in live : row[k].table # "reverse"} :
        i < j /\ Conflict(row[i].name, row[j].name) => {i, j} \cap unchecked # {}

\* A user has one open subscription, unless log_usage found none on an account
\* loaded before another request saved one, or died before it saved its own, or a
\* login saved the account as it was before it had the one it has.
OneSubscription ==
    \A u \in Users :
        \/ Cardinality({s \in DOMAIN subs : subs[s].owner = u /\ subs[s].open}) <= 1
        \/ u \in doubled

\* validate-charged repairs the usage of users the Domains service knows and
\* who have a forward zone.
UsageConverges ==
    <>[](\A u \in known :
            \/ Settled(u) \/ Busy(u)
            \/ ~ \E i \in live : row[i].owner = u /\ row[i].table = "forward")
================================================================================
