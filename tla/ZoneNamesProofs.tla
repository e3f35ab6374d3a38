---------------------------- MODULE ZoneNamesProofs ----------------------------
(***************************************************************************)
(* Proofs about ZoneNames, for any users, names, numbers of requests and   *)
(* of failures: that requests stay well formed, that no two zones conflict *)
(* unnoticed, that users have one subscription, and that they are billed   *)
(* for the zones charged to them.                                          *)
(***************************************************************************)
EXTENDS ZoneNames, FiniteSetTheorems, SequenceTheorems, TLAPS

------------------------------------------------------------------------------
(* What requests still have to do.                                           *)

\* Owners create.
OwnerTodos ==
    { <<"existing", "check", "count", "report", "insert">>,
      <<"check", "count", "report", "insert">>,
      <<"count", "report", "insert">>,
      <<"report", "insert">>,
      <<"save_account", "insert">>,
      <<"insert">> }

\* Administrators create.
AdminTodos == { <<"insert", "count", "report_anyway">> }

\* Owners and administrators delete.
DeleteTodos ==
    { <<"count", "report", "delete">>, <<"report", "delete">>,
      <<"count", "report_anyway", "delete">>, <<"report_anyway", "delete">>,
      <<"save_account", "delete">>,
      <<"delete">> }

\* The rest: a subscription is set up, the administrator's zone is there, the
\* job, and a row that create_domains_zone has found.
OtherTodos ==
    { <<>>,
      <<"count_loaded", "report">>, <<"report">>,
      <<"snapshot", "domains", "count", "report_anyway">>,
      <<"domains", "count", "report_anyway">>,
      <<"save", "count", "report_anyway">>,
      <<"save">>,
      <<"count", "report_anyway">>, <<"report_anyway">>,
      <<"save_account">> }

Todos == OwnerTodos \cup AdminTodos \cup DeleteTodos \cup OtherTodos

Copies == [id : Ids, row : Row]
Request == [todo : Todos, user : Users, zone : 0 .. MaxEvents + 1, new : Row,
            extra : {-1, 0, 1}, count : Int, sub : Nat, stale : BOOLEAN,
            snapshot : SUBSET Copies]
Subscription == [owner : Users, usage : Int, open : BOOLEAN]

\* Those that report what is there.
Uncounted == AdminTodos \cup (OtherTodos \ {<<>>, <<"save">>})

Inserts(q) == q.todo \in OwnerTodos \cup AdminTodos
Deletes(q) == q.todo \in DeleteTodos

\* What a request adds to the count is what it is going to do, except that an
\* administrator takes one off for a zone that was not charged.
ExtraFits(q) ==
    /\ q.todo \in OwnerTodos => q.extra = IF q.new.charged THEN 1 ELSE 0
    /\ Deletes(q) => q.extra = -1 \/ (q.extra = 0 /\ ~ q.new.charged)
    /\ q.todo \in Uncounted => q.extra = 0
    /\ Inserts(q) \/ Deletes(q) => q.new.owner = q.user

\* Rows of one zone: only charged ever changes.
SameZone(x, y) == x.name = y.name /\ x.owner = y.owner /\ x.table = y.table

\* What a request has loaded exists or has existed.
LoadedOK(q, n, rows, list) ==
    /\ Deletes(q) => q.zone \in 1 .. n /\ SameZone(rows[q.zone], q.new)
    /\ \A z \in q.snapshot : z.id \in 1 .. n /\ SameZone(rows[z.id], z.row)
    /\ q.sub # 0 => q.sub \in 1 .. Len(list) /\ list[q.sub].owner = q.user

Inserting == {r \in Slots : Inserts(req[r])}

\* Every zone but the first has taken a request, and so have those to come.
BoundInv == created + Cardinality(Inserting) <= events + 1 /\ events \in 0 .. MaxEvents

ZoneTypes ==
    /\ created \in Nat /\ live \subseteq 1 .. created
    /\ row \in [Ids -> Row]

BillTypes ==
    /\ account \in [Users -> Nat]
    /\ loaded \in [Users -> SUBSET Nat]
    /\ subs \in Seq(Subscription)
    /\ \A u \in Users : account[u] # 0 =>
          account[u] \in 1 .. Len(subs) /\ subs[account[u]].owner = u
    /\ \A u \in Users : \A k \in loaded[u] : k # 0 =>
          k \in 1 .. Len(subs) /\ subs[k].owner = u

HistoryTypes ==
    /\ known \subseteq Users /\ access \subseteq Names
    /\ excused \subseteq Users /\ doubled \subseteq Users /\ unchecked \subseteq Ids

ReqInv ==
    /\ req \in [Slots -> Request]
    /\ \A r \in Slots : ExtraFits(req[r]) /\ LoadedOK(req[r], created, row, subs)

TypeInv == BoundInv /\ ZoneTypes /\ BillTypes /\ HistoryTypes /\ ReqInv

------------------------------------------------------------------------------
\* A request that is going to insert its row, and was not told of a conflict,
\* has seen all the zones that do not have an excuse.
CheckedTodos == {<<"count", "report", "insert">>, <<"report", "insert">>,
                 <<"save_account", "insert">>, <<"insert">>}

Checked(q) == q.todo \in CheckedTodos /\ ~ q.stale

SeenAll ==
    \A r \in Slots : Checked(req[r]) =>
        \A i \in TakenIn \ unchecked : ~ Conflict(row[i].name, req[r].new.name)

NamesInv == NamesApart /\ SeenAll

Open(u) == {s \in DOMAIN subs : subs[s].owner = u /\ subs[s].open}

\* The request q of u is about to save a subscription.
Saving(q, u) == q.todo # <<>> /\ Head(q.todo) = "save_account" /\ q.user = u

\* The open subscription of a user is the one of the account, or the one a
\* single request is about to save.
OpenAt(u) ==
    \/ /\ \A r \in Slots : ~ Saving(req[r], u)
       /\ Open(u) \subseteq {account[u]}
    \/ \E r \in Slots :
          /\ \A s \in Slots : Saving(req[s], u) <=> s = r
          /\ Open(u) \subseteq {req[r].sub}

OpenInv == \A u \in Users \ doubled : OpenAt(u)

------------------------------------------------------------------------------
\* Requests with nothing reported and nothing changed.
SettledTodos ==
    { <<"existing", "check", "count", "report", "insert">>,
      <<"check", "count", "report", "insert">>,
      <<"count", "report", "insert">>, <<"report", "insert">>,
      <<"count", "report", "delete">>, <<"report", "delete">>,
      <<"count_loaded", "report">>, <<"report">>,
      <<"snapshot", "domains", "count", "report_anyway">>,
      <<"domains", "count", "report_anyway">>, <<"save">> }

\* The subscription a has the usage n, or there is none.
Pays(a, n, list) == a = 0 \/ list[a].usage = n

\* What the steps of the only request of u rely on: q is the request, u has n
\* zones to pay for and the subscription a.
PhaseOK(q, u, n, a, list, alive, rows) ==
    /\ q.todo \in SettledTodos => Pays(a, n, list)
    /\ Head(q.todo) = "count_loaded" => a = 0 /\ q.sub = 0
    /\ Head(q.todo) \in {"report", "report_anyway"} =>
          q.count = n + q.extra /\ a \in {0, q.sub}
    /\ Head(q.todo) = "save_account" =>
          a = 0 /\ q.sub # 0 /\ list[q.sub].usage = n + q.extra
    /\ Head(q.todo) \in {"insert", "delete"} /\ q.todo \notin AdminTodos =>
          Pays(a, n + q.extra, list)
    /\ Deletes(q) => q.zone \in alive /\ rows[q.zone] = q.new
    /\ q.todo = <<"save">> =>
          \A z \in q.snapshot : z.row.owner = u => z.id \in alive /\ rows[z.id] = z.row

Phase(r, u) == PhaseOK(req[r], u, Charged(u), account[u], subs, live, row)

BusyAt(r, u) == req[r].todo # <<>> /\ req[r].user = u

\* One request at most, which does what it has reported or will; without one
\* the user pays for the zones charged.
BillAt(u) ==
    /\ \A r, s \in Slots : BusyAt(r, u) /\ BusyAt(s, u) => r = s
    /\ ~ Busy(u) => Settled(u)
    /\ \A r \in Slots : BusyAt(r, u) => Phase(r, u)

BillInv == \A u \in Users \ excused : BillAt(u)

------------------------------------------------------------------------------
(* The steps a request has left.                                             *)

\* What is left after the first step.
LEMMA Tails ==
    /\ Tail(<<"existing", "check", "count", "report", "insert">>) = <<"check", "count", "report", "insert">>
    /\ Tail(<<"check", "count", "report", "insert">>) = <<"count", "report", "insert">>
    /\ Tail(<<"count", "report", "insert">>) = <<"report", "insert">>
    /\ Tail(<<"report", "insert">>) = <<"insert">>
    /\ Tail(<<"save_account", "insert">>) = <<"insert">>
    /\ Tail(<<"insert">>) = <<>>
    /\ Tail(<<"insert", "count", "report_anyway">>) = <<"count", "report_anyway">>
    /\ Tail(<<"count", "report", "delete">>) = <<"report", "delete">>
    /\ Tail(<<"report", "delete">>) = <<"delete">>
    /\ Tail(<<"count", "report_anyway", "delete">>) = <<"report_anyway", "delete">>
    /\ Tail(<<"report_anyway", "delete">>) = <<"delete">>
    /\ Tail(<<"save_account", "delete">>) = <<"delete">>
    /\ Tail(<<"delete">>) = <<>>
    /\ Tail(<<"count_loaded", "report">>) = <<"report">>
    /\ Tail(<<"report">>) = <<>>
    /\ Tail(<<"snapshot", "domains", "count", "report_anyway">>) = <<"domains", "count", "report_anyway">>
    /\ Tail(<<"domains", "count", "report_anyway">>) = <<"count", "report_anyway">>
    /\ Tail(<<"save", "count", "report_anyway">>) = <<"count", "report_anyway">>
    /\ Tail(<<"save">>) = <<>>
    /\ Tail(<<"count", "report_anyway">>) = <<"report_anyway">>
    /\ Tail(<<"report_anyway">>) = <<>>
    /\ Tail(<<"save_account">>) = <<>>
  OBVIOUS

\* The first steps.
LEMMA FirstSteps ==
    /\ Head(<<"existing", "check", "count", "report", "insert">>) = "existing"
    /\ Head(<<"check", "count", "report", "insert">>) = "check"
    /\ Head(<<"count", "report", "insert">>) = "count"
    /\ Head(<<"report", "insert">>) = "report"
    /\ Head(<<"save_account", "insert">>) = "save_account"
    /\ Head(<<"insert">>) = "insert"
    /\ Head(<<"insert", "count", "report_anyway">>) = "insert"
    /\ Head(<<"count", "report", "delete">>) = "count"
    /\ Head(<<"report", "delete">>) = "report"
    /\ Head(<<"count", "report_anyway", "delete">>) = "count"
    /\ Head(<<"report_anyway", "delete">>) = "report_anyway"
    /\ Head(<<"save_account", "delete">>) = "save_account"
    /\ Head(<<"delete">>) = "delete"
    /\ Head(<<"count_loaded", "report">>) = "count_loaded"
    /\ Head(<<"report">>) = "report"
    /\ Head(<<"snapshot", "domains", "count", "report_anyway">>) = "snapshot"
    /\ Head(<<"domains", "count", "report_anyway">>) = "domains"
    /\ Head(<<"save", "count", "report_anyway">>) = "save"
    /\ Head(<<"save">>) = "save"
    /\ Head(<<"count", "report_anyway">>) = "count"
    /\ Head(<<"report_anyway">>) = "report_anyway"
    /\ Head(<<"save_account">>) = "save_account"
  OBVIOUS

\* What is left when the account has to be saved first.
LEMMA SavesFirst ==
    /\ [<<"report", "insert">> EXCEPT ![1] = "save_account"] = <<"save_account", "insert">>
    /\ [<<"report", "delete">> EXCEPT ![1] = "save_account"] = <<"save_account", "delete">>
    /\ [<<"report_anyway", "delete">> EXCEPT ![1] = "save_account"] = <<"save_account", "delete">>
    /\ [<<"report">> EXCEPT ![1] = "save_account"] = <<"save_account">>
    /\ [<<"report_anyway">> EXCEPT ![1] = "save_account"] = <<"save_account">>
  OBVIOUS

\* The first step tells the rest.
LEMMA Heads ==
    ASSUME NEW t \in Todos, t # <<>>
    PROVE  /\ Head(t) = "existing" => t = <<"existing", "check", "count", "report", "insert">>
           /\ Head(t) = "check" => t = <<"check", "count", "report", "insert">>
           /\ Head(t) = "count" =>
                 \/ t = <<"count", "report", "insert">>
                 \/ t = <<"count", "report", "delete">>
                 \/ t = <<"count", "report_anyway", "delete">>
                 \/ t = <<"count", "report_anyway">>
           /\ Head(t) = "report" =>
                 \/ t = <<"report", "insert">>
                 \/ t = <<"report", "delete">>
                 \/ t = <<"report">>
           /\ Head(t) = "save_account" =>
                 \/ t = <<"save_account", "insert">>
                 \/ t = <<"save_account", "delete">>
                 \/ t = <<"save_account">>
           /\ Head(t) = "insert" =>
                 \/ t = <<"insert">>
                 \/ t = <<"insert", "count", "report_anyway">>
           /\ Head(t) = "report_anyway" =>
                 \/ t = <<"report_anyway", "delete">>
                 \/ t = <<"report_anyway">>
           /\ Head(t) = "delete" => t = <<"delete">>
           /\ Head(t) = "count_loaded" => t = <<"count_loaded", "report">>
           /\ Head(t) = "snapshot" => t = <<"snapshot", "domains", "count", "report_anyway">>
           /\ Head(t) = "domains" => t = <<"domains", "count", "report_anyway">>
           /\ Head(t) = "save" =>
                 \/ t = <<"save", "count", "report_anyway">>
                 \/ t = <<"save">>
<1>1. CASE t \in OwnerTodos
  BY <1>1 DEF OwnerTodos
<1>2. CASE t \in AdminTodos
  BY <1>2 DEF AdminTodos
<1>3. CASE t \in DeleteTodos
  BY <1>3 DEF DeleteTodos
<1>4. CASE t \in OtherTodos
  BY <1>4 DEF OtherTodos
<1> QED
  BY <1>1, <1>2, <1>3, <1>4 DEF Todos

\* A request that does nothing.
LEMMA NothingOK ==
    /\ Nothing \in Request
    /\ Nothing.todo = <<>> /\ Nothing.sub = 0 /\ Nothing.snapshot = {} /\ ~ Nothing.stale
    /\ Nothing.extra = 0 /\ Nothing.zone = 0 /\ Nothing.user \in Users
    /\ AnyRow \in Row
<1>1. \E x \in Row : TRUE
  <2>1. PICK u \in Users, n \in Names : TRUE
    BY UsersAssumption
  <2>2. [name |-> n, owner |-> u, table |-> "forward", charged |-> TRUE] \in Row
    BY <2>1 DEF Row, Tables
  <2> QED
    BY <2>2
<1>2. AnyRow \in Row /\ AnyRow.owner \in Users
  BY <1>1 DEF AnyRow, Row
<1>3. <<>> \in Todos
  BY DEF Todos, OtherTodos
<1>4. MaxEvents \in Nat
  BY BoundsAssumption
<1> QED
  BY <1>2, <1>3, <1>4 DEF Nothing, Request, Copies

\* Which requests insert and which delete, by what they have left.
LEMMA Kinds ==
    /\ <<>> \notin OwnerTodos /\ <<>> \notin AdminTodos /\ <<>> \notin DeleteTodos
    /\ OwnerTodos \cap AdminTodos = {} /\ OwnerTodos \cap DeleteTodos = {}
    /\ OwnerTodos \cap OtherTodos = {} /\ AdminTodos \cap DeleteTodos = {}
    /\ AdminTodos \cap OtherTodos = {} /\ DeleteTodos \cap OtherTodos = {}
<1>1. /\ <<>> \notin OwnerTodos /\ <<>> \notin AdminTodos /\ <<>> \notin DeleteTodos
      /\ OwnerTodos \cap AdminTodos = {} /\ AdminTodos \cap DeleteTodos = {}
      /\ AdminTodos \cap OtherTodos = {}
  BY DEF OwnerTodos, AdminTodos, DeleteTodos, OtherTodos
<1>2. OwnerTodos \cap DeleteTodos = {}
  BY DEF OwnerTodos, DeleteTodos
<1>3. OwnerTodos \cap OtherTodos = {}
  BY DEF OwnerTodos, OtherTodos
<1>4. DeleteTodos \cap OtherTodos = {}
  BY DEF DeleteTodos, OtherTodos
<1> QED
  BY <1>1, <1>2, <1>3, <1>4

LEMMA UncountedKinds ==
    /\ \A t \in Uncounted : t \notin OwnerTodos /\ t \notin DeleteTodos /\ t # <<>> /\ t # <<"save">>
    /\ \A t \in AdminTodos : t \in Uncounted
    /\ \A t \in OtherTodos : t # <<>> /\ t # <<"save">> => t \in Uncounted
  BY Kinds DEF Uncounted, AdminTodos

\* Whose requests they are.
LEMMA Members ==
    /\ <<"existing", "check", "count", "report", "insert">> \in OwnerTodos
    /\ <<"check", "count", "report", "insert">> \in OwnerTodos
    /\ <<"count", "report", "insert">> \in OwnerTodos
    /\ <<"report", "insert">> \in OwnerTodos
    /\ <<"save_account", "insert">> \in OwnerTodos
    /\ <<"insert">> \in OwnerTodos
    /\ <<"insert", "count", "report_anyway">> \in AdminTodos
    /\ <<"count", "report", "delete">> \in DeleteTodos
    /\ <<"report", "delete">> \in DeleteTodos
    /\ <<"count", "report_anyway", "delete">> \in DeleteTodos
    /\ <<"report_anyway", "delete">> \in DeleteTodos
    /\ <<"save_account", "delete">> \in DeleteTodos
    /\ <<"delete">> \in DeleteTodos
    /\ <<>> \in OtherTodos
    /\ <<"count_loaded", "report">> \in OtherTodos
    /\ <<"report">> \in OtherTodos
    /\ <<"snapshot", "domains", "count", "report_anyway">> \in OtherTodos
    /\ <<"domains", "count", "report_anyway">> \in OtherTodos
    /\ <<"save", "count", "report_anyway">> \in OtherTodos
    /\ <<"save">> \in OtherTodos
    /\ <<"count", "report_anyway">> \in OtherTodos
    /\ <<"report_anyway">> \in OtherTodos
    /\ <<"save_account">> \in OtherTodos
  BY DEF OwnerTodos, AdminTodos, DeleteTodos, OtherTodos

------------------------------------------------------------------------------
(* One slot at a time.                                                       *)

Moves(r, q) == req' = [req EXCEPT ![r] = q]

\* Rows and subscriptions are added, and keep what identifies them.
Grows ==
    /\ created' \in Nat /\ created <= created'
    /\ \A i \in 1 .. created : SameZone(row[i], row'[i])
    /\ Len(subs') \in Nat /\ Len(subs) <= Len(subs')
    /\ \A s \in 1 .. Len(subs) : subs'[s].owner = subs[s].owner

\* What a request has loaded stays good.
LEMMA LoadedStays ==
    ASSUME TypeInv, Grows, NEW q \in Request, LoadedOK(q, created, row, subs)
    PROVE  LoadedOK(q, created', row', subs')
<1>1. created \in Nat /\ Len(subs) \in Nat
  BY LenProperties DEF TypeInv, ZoneTypes, BillTypes
<1>2. \A i \in 1 .. created : i \in 1 .. created'
  BY <1>1 DEF Grows
<1>3. \A s \in 1 .. Len(subs) : s \in 1 .. Len(subs')
  BY <1>1 DEF Grows
<1>4. \A x, y, z : SameZone(x, y) /\ SameZone(x, z) => SameZone(y, z)
  BY DEF SameZone
<1>5. Deletes(q) => q.zone \in 1 .. created' /\ SameZone(row'[q.zone], q.new)
  BY <1>2, <1>4 DEF LoadedOK, Grows
<1>6. \A z \in q.snapshot : z.id \in 1 .. created' /\ SameZone(row'[z.id], z.row)
  BY <1>2, <1>4 DEF LoadedOK, Grows
<1>7. q.sub # 0 => q.sub \in 1 .. Len(subs') /\ subs'[q.sub].owner = q.user
  BY <1>3 DEF LoadedOK, Grows
<1> QED
  BY <1>5, <1>6, <1>7 DEF LoadedOK

\* The requests after one of them has moved.
LEMMA ReqMoves ==
    ASSUME TypeInv, Grows, NEW r \in Slots, NEW q \in Request, Moves(r, q),
           ExtraFits(q), LoadedOK(q, created', row', subs')
    PROVE  ReqInv'
<1>1. req \in [Slots -> Request]
  BY DEF TypeInv, ReqInv
<1>2. req' \in [Slots -> Request] /\ req'[r] = q /\ \A s \in Slots \ {r} : req'[s] = req[s]
  BY <1>1 DEF Moves
<1>3. ASSUME NEW s \in Slots
      PROVE  ExtraFits(req'[s]) /\ LoadedOK(req'[s], created', row', subs')
  <2>1. CASE s = r
    BY <2>1, <1>2
  <2>2. CASE s # r
    <3>1. ExtraFits(req[s]) /\ LoadedOK(req[s], created, row, subs) /\ req[s] \in Request
      BY <1>1 DEF TypeInv, ReqInv
    <3> QED
      BY <3>1, LoadedStays, <2>2, <1>2
  <2> QED
    BY <2>1, <2>2
<1> QED
  BY <1>2, <1>3 DEF ReqInv

LEMMA BoundTypes ==
    ASSUME TypeInv
    PROVE  /\ IsFiniteSet(Inserting) /\ Cardinality(Inserting) \in Nat
           /\ created \in Nat /\ events \in Nat /\ MaxEvents \in Nat /\ events <= MaxEvents
           /\ created + Cardinality(Inserting) <= events + 1
<1>1. IsFiniteSet(Slots)
  BY FS_Interval, BoundsAssumption DEF Slots
<1>2. IsFiniteSet(Inserting)
  BY <1>1, FS_Subset DEF Inserting
<1>3. Cardinality(Inserting) \in Nat
  BY <1>2, FS_CardinalityType
<1> QED
  BY <1>2, <1>3, BoundsAssumption DEF TypeInv, BoundInv, ZoneTypes

\* How many requests are going to insert, when those of other slots go on.
LEMMA InsertingGrows ==
    ASSUME TypeInv, NEW r \in Slots,
           \A s \in Slots \ {r} : req'[s].todo = req[s].todo
    PROVE  /\ Cardinality(Inserting') <= Cardinality(Inserting) + 1
           /\ (Inserts(req'[r]) => Inserts(req[r])) =>
                 Cardinality(Inserting') <= Cardinality(Inserting)
           /\ Inserts(req[r]) /\ ~ Inserts(req'[r]) =>
                 Cardinality(Inserting') = Cardinality(Inserting) - 1
           /\ Cardinality(Inserting') \in Nat
<1>1. IsFiniteSet(Inserting) /\ Cardinality(Inserting) \in Nat
  BY BoundTypes
<1>2. Inserting' \subseteq Inserting \cup {r}
  BY DEF Inserting, Inserts
<1>3. /\ IsFiniteSet(Inserting \cup {r})
      /\ Cardinality(Inserting \cup {r}) <= Cardinality(Inserting) + 1
  <2>1. /\ IsFiniteSet(Inserting \cup {r})
        /\ Cardinality(Inserting \cup {r}) =
             IF r \in Inserting THEN Cardinality(Inserting) ELSE Cardinality(Inserting) + 1
    BY <1>1, FS_AddElement, Zenon
  <2> QED
    BY <2>1, <1>1
<1>4. /\ IsFiniteSet(Inserting')
      /\ Cardinality(Inserting') <= Cardinality(Inserting \cup {r})
  BY <1>2, <1>3, FS_Subset, Zenon
<1>5. Cardinality(Inserting') \in Nat /\ Cardinality(Inserting \cup {r}) \in Nat
  BY <1>3, <1>4, FS_CardinalityType
<1>6. ASSUME Inserts(req'[r]) => Inserts(req[r])
      PROVE  Cardinality(Inserting') <= Cardinality(Inserting)
  <2>1. Inserting' \subseteq Inserting
    BY <1>6 DEF Inserting, Inserts
  <2> QED
    BY <2>1, <1>1, FS_Subset, Zenon
<1>7. ASSUME Inserts(req[r]), ~ Inserts(req'[r])
      PROVE  Cardinality(Inserting') = Cardinality(Inserting) - 1
  <2>1. Inserting' = Inserting \ {r}
    BY <1>7 DEF Inserting, Inserts
  <2>2. r \in Inserting
    BY <1>7 DEF Inserting
  <2>3. Cardinality(Inserting \ {r}) =
          IF r \in Inserting THEN Cardinality(Inserting) - 1 ELSE Cardinality(Inserting)
    BY <1>1, FS_RemoveElement, Zenon
  <2> QED
    BY <2>1, <2>2, <2>3
<1> QED
  BY <1>1, <1>3, <1>4, <1>5, <1>6, <1>7

\* No request more than before is going to insert.
LEMMA BoundKept ==
    ASSUME TypeInv, NEW r \in Slots, NEW q \in Request, Moves(r, q),
           Inserts(q) => Inserts(req[r]), created' = created,
           events' \in {events, events + 1}, events' <= MaxEvents
    PROVE  BoundInv'
<1>1. req'[r] = q /\ \A s \in Slots \ {r} : req'[s].todo = req[s].todo
  BY DEF Moves, TypeInv, ReqInv
<1>2. Cardinality(Inserting') <= Cardinality(Inserting) /\ Cardinality(Inserting') \in Nat
  BY <1>1, InsertingGrows
<1> QED
  BY <1>2, BoundTypes DEF BoundInv

\* One more is, and has been counted.
LEMMA BoundSpent ==
    ASSUME TypeInv, NEW r \in Slots, NEW q \in Request, Moves(r, q),
           created' = created, Event
    PROVE  BoundInv'
<1>1. \A s \in Slots \ {r} : req'[s].todo = req[s].todo
  BY DEF Moves, TypeInv, ReqInv
<1>2. Cardinality(Inserting') <= Cardinality(Inserting) + 1 /\ Cardinality(Inserting') \in Nat
  BY <1>1, InsertingGrows
<1> QED
  BY <1>2, BoundTypes DEF BoundInv, Event

LEMMA ExcuseTypes ==
    ASSUME TypeInv, NEW S \in SUBSET Users, Excuse(S)
    PROVE  excused' \subseteq Users
  BY DEF Excuse, TypeInv, HistoryTypes

------------------------------------------------------------------------------
(* Requests begin.                                                           *)

Begun(u, todo, zone, new, extra) ==
    [Nothing EXCEPT !.todo = todo, !.user = u, !.zone = zone, !.new = new, !.extra = extra]

LEMMA BegunOK ==
    ASSUME NEW u \in Users, NEW todo \in Todos, NEW zone \in 0 .. MaxEvents + 1,
           NEW new \in Row, NEW extra \in {-1, 0, 1}
    PROVE  LET q == Begun(u, todo, zone, new, extra)
           IN  /\ q \in Request
               /\ q.todo = todo /\ q.user = u /\ q.zone = zone /\ q.new = new /\ q.extra = extra
               /\ q.sub = 0 /\ q.snapshot = {} /\ ~ q.stale
  BY NothingOK DEF Begun, Request, Nothing

\* Nothing but the requests, the excuses and the number of events changes.
LEMMA BeginTypes ==
    ASSUME TypeInv, NEW r \in Slots,
           NEW u \in Users, NEW todo \in Todos, NEW zone \in 0 .. MaxEvents + 1,
           NEW new \in Row, NEW extra \in {-1, 0, 1},
           Begin(r, u, todo, zone, new, extra),
           Event \/ (events' = events /\ todo \notin OwnerTodos \cup AdminTodos),
           ExtraFits(Begun(u, todo, zone, new, extra)),
           todo \in DeleteTodos => zone \in 1 .. created /\ SameZone(row[zone], new)
    PROVE  TypeInv'
<1> DEFINE q == Begun(u, todo, zone, new, extra)
<1>1. /\ q \in Request
      /\ q.todo = todo /\ q.user = u /\ q.zone = zone /\ q.new = new /\ q.extra = extra
      /\ q.sub = 0 /\ q.snapshot = {} /\ ~ q.stale
  BY BegunOK
<1>2. Moves(r, q) /\ UNCHANGED <<zoneVars, billVars, known, access, doubled, unchecked>>
  BY DEF Begin, Begun, Moves
<1>3. ExtraFits(q)
  OBVIOUS
<1> HIDE DEF q
<1>4. Grows
  BY <1>2, LenProperties DEF Grows, TypeInv, ZoneTypes, BillTypes, zoneVars, billVars, SameZone
<1>5. LoadedOK(q, created', row', subs')
  BY <1>1, <1>2 DEF LoadedOK, Deletes, zoneVars
<1>6. ReqInv'
  BY <1>1, <1>2, <1>3, <1>4, <1>5, ReqMoves
<1>7. BoundInv'
  <2>1. created' = created
    BY <1>2 DEF zoneVars
  <2>2. CASE Event
    BY <1>1, <1>2, <2>1, <2>2, BoundSpent
  <2>3. CASE events' = events /\ todo \notin OwnerTodos \cup AdminTodos
    <3>1. ~ Inserts(q)
      BY <1>1, <2>3 DEF Inserts
    <3>2. events' \in {events, events + 1} /\ events' <= MaxEvents
      BY <2>3, BoundTypes
    <3> QED
      BY <1>1, <1>2, <2>1, <3>1, <3>2, BoundKept
  <2> QED
    BY <2>2, <2>3
<1>8. excused' \subseteq Users
  <2>1. Excuse(IF Busy(u) THEN {u} ELSE {})
    BY DEF Begin
  <2> QED
    BY <2>1, ExcuseTypes
<1>9. ZoneTypes' /\ BillTypes' /\ HistoryTypes'
  BY <1>2, <1>8 DEF TypeInv, ZoneTypes, BillTypes, HistoryTypes, zoneVars, billVars
<1> QED
  BY <1>6, <1>7, <1>9 DEF TypeInv

LEMMA NewRowOK ==
    ASSUME NEW u \in Users, NEW n \in Names, NEW table \in Tables, NEW charged \in BOOLEAN
    PROVE  LET new == NewRow(u, n, table, charged)
           IN new \in Row /\ new.owner = u /\ new.charged = charged
  BY DEF NewRow, Row

LEMMA RowsOf ==
    ASSUME TypeInv, NEW i \in live
    PROVE  /\ i \in 1 .. created /\ i \in Ids /\ i \in 0 .. MaxEvents + 1
           /\ row[i] \in Row /\ row[i].owner \in Users /\ row[i].charged \in BOOLEAN
<1>1. created <= MaxEvents + 1
  BY BoundTypes
<1>2. i \in 1 .. created /\ created \in Nat
  BY DEF TypeInv, ZoneTypes
<1>3. i \in Ids /\ i \in 0 .. MaxEvents + 1
  BY <1>1, <1>2, BoundTypes DEF Ids
<1> QED
  BY <1>2, <1>3 DEF TypeInv, ZoneTypes, Row

LEMMA CreateTypes ==
    ASSUME TypeInv, NEW r \in Requests, NEW u \in Users
    PROVE  /\ \A c \in Creates : create_zone(r, u, c[1], c[2]) => TypeInv'
           /\ \A c \in AdminCreates : admin_create(r, u, c[1], c[2]) => TypeInv'
           /\ \A n \in Registrable : create_domains_zone(r, u, n) => TypeInv'
<1>0. /\ r \in Slots /\ 0 \in 0 .. MaxEvents + 1
      /\ \A c \in Creates \cup AdminCreates : c[1] \in Names /\ c[2] \in Tables
      /\ Registrable \subseteq Names
  BY NamesAssumption, BoundsAssumption DEF Requests, Slots, Tables
<1>1. ASSUME NEW c \in Creates, create_zone(r, u, c[1], c[2])
      PROVE  TypeInv'
  <2> DEFINE new == NewRow(u, c[1], c[2], TRUE)
             todo == <<"check", "count", "report", "insert">>
  <2>1. new \in Row /\ new.owner = u /\ new.charged = TRUE
    BY <1>0, NewRowOK
  <2>2. todo \in OwnerTodos /\ todo \in Todos /\ todo \notin DeleteTodos
    BY Members, Kinds DEF Todos
  <2>3. Begin(r, u, todo, 0, new, 1) /\ Event
    BY <1>1 DEF create_zone
  <2> HIDE DEF new, todo
  <2>4. ExtraFits(Begun(u, todo, 0, new, 1))
    BY <1>0, <2>1, <2>2, BegunOK, UncountedKinds DEF ExtraFits, Inserts, Deletes
  <2> QED
    BY <1>0, <2>1, <2>2, <2>3, <2>4, BeginTypes
<1>2. ASSUME NEW c \in AdminCreates, admin_create(r, u, c[1], c[2])
      PROVE  TypeInv'
  <2> DEFINE new == NewRow(u, c[1], c[2], TRUE)
             todo == <<"insert", "count", "report_anyway">>
  <2>1. new \in Row /\ new.owner = u /\ new.charged = TRUE
    BY <1>0, NewRowOK
  <2>2. todo \in AdminTodos /\ todo \in Todos /\ todo \notin DeleteTodos /\ todo \notin OwnerTodos
    BY Members, Kinds DEF Todos
  <2>3. Begin(r, u, todo, 0, new, 0) /\ Event
    BY <1>2 DEF admin_create
  <2> HIDE DEF new, todo
  <2>4. ExtraFits(Begun(u, todo, 0, new, 0))
    BY <1>0, <2>1, <2>2, BegunOK, UncountedKinds DEF ExtraFits, Inserts, Deletes
  <2> QED
    BY <1>0, <2>1, <2>2, <2>3, <2>4, BeginTypes
<1>3. ASSUME NEW n \in Registrable, create_domains_zone(r, u, n)
      PROVE  TypeInv'
  <2> DEFINE new == NewRow(u, n, "forward", FALSE)
             todo == <<"existing", "check", "count", "report", "insert">>
  <2>1. new \in Row /\ new.owner = u /\ new.charged = FALSE
    BY <1>0, NewRowOK DEF Tables
  <2>2. todo \in OwnerTodos /\ todo \in Todos /\ todo \notin DeleteTodos
    BY Members, Kinds DEF Todos
  <2>3. Begin(r, u, todo, 0, new, 0) /\ Event
    BY <1>3 DEF create_domains_zone
  <2> HIDE DEF new, todo
  <2>4. ExtraFits(Begun(u, todo, 0, new, 0))
    BY <1>0, <2>1, <2>2, BegunOK, UncountedKinds DEF ExtraFits, Inserts, Deletes
  <2> QED
    BY <1>0, <2>1, <2>2, <2>3, <2>4, BeginTypes
<1> QED
  BY <1>1, <1>2, <1>3

LEMMA DeleteBeginsTypes ==
    ASSUME TypeInv, NEW r \in Requests, NEW i \in Ids,
           delete_zone(r, i) \/ admin_delete(r, i)
    PROVE  TypeInv'
<1>0. r \in Slots
  BY BoundsAssumption DEF Requests, Slots
<1>1. i \in live
  BY DEF delete_zone, admin_delete
<1>2. /\ i \in 1 .. created /\ i \in 0 .. MaxEvents + 1
      /\ row[i] \in Row /\ row[i].owner \in Users /\ row[i].charged \in BOOLEAN
  BY <1>1, RowsOf
<1>3. SameZone(row[i], row[i])
  BY DEF SameZone
<1>4. CASE delete_zone(r, i)
  <2> DEFINE todo == <<"count", "report", "delete">>
             extra == IF row[i].charged THEN -1 ELSE 0
  <2>1. todo \in DeleteTodos /\ todo \in Todos /\ todo \notin OwnerTodos \cup AdminTodos
    BY Members, Kinds DEF Todos
  <2>2. Begin(r, row[i].owner, todo, i, row[i], extra) /\ Event
    BY <1>4 DEF delete_zone
  <2>3. extra \in {-1, 0, 1} /\ (extra = -1 \/ (extra = 0 /\ ~ row[i].charged))
    OBVIOUS
  <2> HIDE DEF todo, extra
  <2>4. ExtraFits(Begun(row[i].owner, todo, i, row[i], extra))
    BY <1>2, <2>1, <2>3, BegunOK, UncountedKinds DEF ExtraFits, Inserts, Deletes
  <2> QED
    BY <1>0, <1>2, <1>3, <2>1, <2>2, <2>3, <2>4, BeginTypes
<1>5. CASE admin_delete(r, i)
  <2> DEFINE todo == <<"count", "report_anyway", "delete">>
  <2>1. todo \in DeleteTodos /\ todo \in Todos /\ todo \notin OwnerTodos \cup AdminTodos
    BY Members, Kinds DEF Todos
  <2>2. Begin(r, row[i].owner, todo, i, row[i], -1) /\ Event
    BY <1>5 DEF admin_delete
  <2> HIDE DEF todo
  <2>4. ExtraFits(Begun(row[i].owner, todo, i, row[i], -1))
    BY <1>2, <2>1, BegunOK, UncountedKinds DEF ExtraFits, Inserts, Deletes
  <2> QED
    BY <1>0, <1>2, <1>3, <2>1, <2>2, <2>4, BeginTypes
<1> QED
  BY <1>4, <1>5

LEMMA OtherBeginsTypes ==
    ASSUME TypeInv, NEW u \in Users
    PROVE  /\ \A r \in Requests : setup_subscription(r, u) => TypeInv'
           /\ validate_charged(u) => TypeInv'
<1>0. /\ \A r \in Requests : r \in Slots
      /\ Cron \in Slots /\ 0 \in 0 .. MaxEvents + 1 /\ AnyRow \in Row
  BY BoundsAssumption, NothingOK DEF Requests, Slots, Cron
<1>1. ASSUME NEW todo \in OtherTodos
      PROVE  /\ todo \in Todos /\ todo \notin OwnerTodos \cup AdminTodos \cup DeleteTodos
             /\ ExtraFits(Begun(u, todo, 0, AnyRow, 0))
  <2>1. todo \in Todos /\ todo \notin OwnerTodos \cup AdminTodos \cup DeleteTodos
    BY Kinds DEF Todos
  <2> QED
    BY <1>0, <2>1, BegunOK, UncountedKinds DEF ExtraFits, Inserts, Deletes
<1>2. ASSUME NEW r \in Requests, setup_subscription(r, u)
      PROVE  TypeInv'
  <2> DEFINE todo == <<"count_loaded", "report">>
  <2>1. todo \in OtherTodos
    BY Members
  <2>2. Begin(r, u, todo, 0, AnyRow, 0) /\ Event
    BY <1>2 DEF setup_subscription
  <2> HIDE DEF todo
  <2> QED
    BY <1>0, <1>1, <2>1, <2>2, BeginTypes
<1>3. ASSUME validate_charged(u)
      PROVE  TypeInv'
  <2> DEFINE todo == <<"snapshot", "domains", "count", "report_anyway">>
  <2>1. todo \in OtherTodos
    BY Members
  <2>2. Begin(Cron, u, todo, 0, AnyRow, 0) /\ events' = events
    BY <1>3 DEF validate_charged
  <2> HIDE DEF todo
  <2> QED
    BY <1>0, <1>1, <2>1, <2>2, BeginTypes
<1> QED
  BY <1>2, <1>3

------------------------------------------------------------------------------
(* Requests go on.                                                           *)

\* A request is good, as far as it alone and what it has loaded are concerned.
Good(q, n, rows, list) == q \in Request /\ ExtraFits(q) /\ LoadedOK(q, n, rows, list)

LEMMA EndedOK ==
    ASSUME NEW q \in Request, ExtraFits(q), NEW n, NEW rows, NEW list, LoadedOK(q, n, rows, list)
    PROVE  /\ Good(Ended(q), n, rows, list)
           /\ Ended(q).todo = q.todo
           /\ Inserts(Ended(q)) => Inserts(q)
<1>1. CASE q.todo = <<>>
  <2>1. /\ Ended(q) = Nothing /\ ~ Inserts(Nothing) /\ ~ Deletes(Nothing)
        /\ Nothing.todo \notin OwnerTodos /\ Nothing.todo \notin Uncounted
    BY <1>1, NothingOK, Kinds DEF Ended, Inserts, Deletes, Uncounted
  <2> QED
    BY <1>1, <2>1, NothingOK DEF Good, ExtraFits, LoadedOK
<1>2. CASE q.todo # <<>>
  BY <1>2 DEF Ended, Good
<1> QED
  BY <1>1, <1>2

LEMMA NothingGood ==
    ASSUME NEW n, NEW rows, NEW list
    PROVE  /\ Good(Nothing, n, rows, list) /\ ~ Inserts(Nothing) /\ ~ Deletes(Nothing)
           /\ Ended(Nothing) = Nothing
<1>1. /\ ~ Inserts(Nothing) /\ ~ Deletes(Nothing)
      /\ Nothing.todo \notin OwnerTodos /\ Nothing.todo \notin Uncounted
  BY NothingOK, Kinds DEF Inserts, Deletes, Uncounted
<1> QED
  BY <1>1, NothingOK DEF Good, ExtraFits, LoadedOK, Ended

\* Every step but insert leaves the number of zones alone.
LEMMA StepTypes ==
    ASSUME TypeInv, NEW r \in Slots, NEW q, Goto(r, q),
           Good(q, created', row', subs'), Inserts(q) => Inserts(req[r]), Grows, created' = created,
           events' = events \/ Event, ZoneTypes', BillTypes', HistoryTypes'
    PROVE  TypeInv'
<1>1. Good(Ended(q), created', row', subs') /\ (Inserts(Ended(q)) => Inserts(q))
  BY EndedOK DEF Good
<1>2. Moves(r, Ended(q))
  BY DEF Goto, Moves
<1>3. ReqInv'
  BY <1>1, <1>2, ReqMoves DEF Good
<1>4. events' \in {events, events + 1} /\ events' <= MaxEvents
  BY BoundTypes DEF Event
<1>5. BoundInv'
  BY <1>1, <1>2, <1>4, BoundKept DEF Good
<1> QED
  BY <1>3, <1>5 DEF TypeInv

\* Nothing but the requests and the histories.
LEMMA StaysTypes ==
    ASSUME TypeInv, UNCHANGED <<zoneVars, billVars>>
    PROVE  /\ Grows /\ ZoneTypes' /\ BillTypes' /\ created' = created
           /\ row' = row /\ subs' = subs
  BY LenProperties DEF Grows, TypeInv, ZoneTypes, BillTypes, zoneVars, billVars, SameZone

LEMMA HistoriesTypes ==
    ASSUME TypeInv, NEW S \in SUBSET Users, Excuse(S), UNCHANGED <<known, access>>,
           doubled' \subseteq Users, unchecked' \subseteq Ids
    PROVE  HistoryTypes'
  BY ExcuseTypes DEF TypeInv, HistoryTypes

\* The request at a step.
LEMMA AtStep ==
    ASSUME TypeInv, NEW r \in Slots
    PROVE  /\ Good(req[r], created, row, subs)
           /\ req[r].todo \in Todos /\ req[r].user \in Users
           /\ \A step : At(r, step) <=> req[r].todo # <<>> /\ Head(req[r].todo) = step
  BY DEF TypeInv, ReqInv, Good, Request, At

\* A request goes on as what it is, until it has nothing more to report.
SameKind(t, t2) ==
    \/ t2 \in {<<>>, <<"save">>}
    \/ t \in OwnerTodos /\ t2 \in OwnerTodos
    \/ t \in DeleteTodos /\ t2 \in DeleteTodos
    \/ t \in Uncounted /\ t2 \in OtherTodos

LEMMA Advances ==
    ASSUME NEW n, NEW rows, NEW list, NEW q, Good(q, n, rows, list),
           NEW p \in Request, SameKind(q.todo, p.todo),
           p.user = q.user, p.zone = q.zone, p.new = q.new, p.extra = q.extra,
           p.sub = q.sub \/ (p.sub # 0 => p.sub \in 1 .. Len(list) /\ list[p.sub].owner = p.user),
           p.snapshot \subseteq q.snapshot \/
              \A z \in p.snapshot : z.id \in 1 .. n /\ SameZone(rows[z.id], z.row)
    PROVE  Good(p, n, rows, list) /\ (Inserts(p) => Inserts(q))
<1>1. Inserts(p) => p.todo \in OwnerTodos /\ q.todo \in OwnerTodos
  BY Kinds, Members, UncountedKinds DEF Inserts, SameKind
<1>2. Deletes(p) => Deletes(q)
  BY Kinds, Members, UncountedKinds DEF Deletes, SameKind
<1>3. p.todo \in Uncounted => q.todo \in Uncounted
  BY Kinds, Members, UncountedKinds DEF SameKind
<1>4. ExtraFits(p)
  BY <1>1, <1>2, <1>3 DEF Good, ExtraFits, Inserts
<1>5. LoadedOK(p, n, rows, list)
  BY <1>2 DEF Good, LoadedOK
<1> QED
  BY <1>1, <1>4, <1>5 DEF Good, Inserts

\* What the first step leaves is of the same kind.
LEMMA TailKind ==
    ASSUME NEW t \in Todos, t # <<>>
    PROVE  /\ Tail(t) \in Todos
           /\ SameKind(t, Tail(t))
           /\ Head(t) \in {"report", "report_anyway"} =>
                 /\ [t EXCEPT ![1] = "save_account"] \in Todos
                 /\ SameKind(t, [t EXCEPT ![1] = "save_account"])
<1>1. CASE t \in OwnerTodos
  <2>1. Tail(t) \in OwnerTodos \cup {<<>>}
    BY <1>1, Tails, Members DEF OwnerTodos
  <2>2. Head(t) \in {"report", "report_anyway"} => t = <<"report", "insert">>
    BY <1>1, Heads, Kinds, Members
  <2> QED
    BY <1>1, <2>1, <2>2, SavesFirst, Members DEF SameKind, Todos
<1>2. CASE t \in AdminTodos
  <2>1. t = <<"insert", "count", "report_anyway">> /\ Head(t) = "insert"
    BY <1>2 DEF AdminTodos
  <2> QED
    BY <1>2, <2>1, Tails, Members, Kinds, UncountedKinds DEF SameKind, Todos
<1>3. CASE t \in DeleteTodos
  <2>1. Tail(t) \in DeleteTodos \cup {<<>>}
    BY <1>3, Tails, Members DEF DeleteTodos
  <2>2. Head(t) \in {"report", "report_anyway"} =>
           t \in {<<"report", "delete">>, <<"report_anyway", "delete">>}
    BY <1>3, Heads, Kinds, Members
  <2> QED
    BY <1>3, <2>1, <2>2, SavesFirst, Members DEF SameKind, Todos
<1>4. CASE t \in OtherTodos
  <2>1. Tail(t) \in OtherTodos
    BY <1>4, Tails, Members DEF OtherTodos
  <2>2. Head(t) \in {"report", "report_anyway"} => t \in {<<"report">>, <<"report_anyway">>}
    BY <1>4, Heads, Kinds, Members
  <2>3. t = <<"save">> => Tail(t) = <<>>
    BY Tails
  <2> QED
    BY <1>4, <2>1, <2>2, <2>3, SavesFirst, Members, UncountedKinds DEF SameKind, Todos
<1> QED
  BY <1>1, <1>2, <1>3, <1>4 DEF Todos

LEMMA TailGood ==
    ASSUME NEW n, NEW rows, NEW list, NEW q, Good(q, n, rows, list), q.todo # <<>>
    PROVE  LET p == [q EXCEPT !.todo = Tail(@)]
           IN  Good(p, n, rows, list) /\ (Inserts(p) => Inserts(q))
<1> DEFINE p == [q EXCEPT !.todo = Tail(@)]
<1>1. q.todo \in Todos
  BY DEF Good, Request
<1>2. Tail(q.todo) \in Todos /\ SameKind(q.todo, Tail(q.todo))
  BY <1>1, TailKind
<1>3. /\ p \in Request /\ p.todo = Tail(q.todo)
      /\ p.user = q.user /\ p.zone = q.zone /\ p.new = q.new /\ p.extra = q.extra
      /\ p.sub = q.sub /\ p.snapshot = q.snapshot
  BY <1>2 DEF Good, Request
<1> HIDE DEF p
<1>4. Good(p, n, rows, list) /\ (Inserts(p) => Inserts(q))
  BY <1>2, <1>3, Advances
<1> QED
  BY <1>4 DEF p

\* Steps that change nothing but the request and histories.
LEMMA QuietTypes ==
    ASSUME TypeInv, NEW r \in Slots, NEW p, NEW S \in SUBSET Users,
           Goto(r, p), Good(p, created, row, subs), Inserts(p) => Inserts(req[r]),
           UNCHANGED <<zoneVars, billVars, known, access, unchecked>>,
           events' = events \/ Event, doubled' \subseteq Users, Excuse(S)
    PROVE  TypeInv'
<1>1. /\ Grows /\ ZoneTypes' /\ BillTypes' /\ created' = created
      /\ row' = row /\ subs' = subs
  BY StaysTypes
<1>2. HistoryTypes'
  BY HistoriesTypes DEF TypeInv, HistoryTypes
<1> QED
  BY <1>1, <1>2, StepTypes

LEMMA QuietStepsTypes ==
    ASSUME TypeInv, NEW r \in Slots
    PROVE  /\ check(r) => TypeInv'
           /\ report_refused(r) => TypeInv'
           /\ dies(r) => TypeInv'
<1> DEFINE p == [req[r] EXCEPT !.todo = Tail(@)]
<1>1. Good(Nothing, created, row, subs) /\ ~ Inserts(Nothing)
  BY NothingGood
<1>2. req[r].todo # <<>> => Good(p, created, row, subs) /\ (Inserts(p) => Inserts(req[r]))
  BY AtStep, TailGood
<1>3. /\ doubled \subseteq Users /\ {} \in SUBSET Users /\ {req[r].user} \in SUBSET Users
      /\ doubled \cup {req[r].user} \subseteq Users
  BY AtStep DEF TypeInv, HistoryTypes
<1>4. Go(r) => Goto(r, p)
  BY DEF Go
<1> HIDE DEF p
<1>5. ASSUME check(r) PROVE TypeInv'
  <2>1. /\ UNCHANGED <<zoneVars, billVars, known, access, unchecked>>
        /\ events' = events /\ doubled' \subseteq Users /\ Excuse({}) /\ req[r].todo # <<>>
    BY <1>5, <1>3 DEF check, At
  <2>2. Goto(r, p) \/ Goto(r, Nothing)
    BY <1>5, <1>4 DEF check
  <2> QED
    BY <2>1, <2>2, <1>1, <1>2, <1>3, QuietTypes
<1>6. ASSUME report_refused(r) PROVE TypeInv'
  <2> DEFINE S == IF At(r, "report") THEN {} ELSE {req[r].user}
  <2>1. /\ UNCHANGED <<zoneVars, billVars, known, access, unchecked>>
        /\ Event /\ doubled' \subseteq Users /\ Excuse(S) /\ req[r].todo # <<>>
    BY <1>6, <1>3 DEF report_refused, Reports, At
  <2>2. Goto(r, p) \/ Goto(r, Nothing)
    BY <1>6, <1>4 DEF report_refused
  <2>3. S \in SUBSET Users
    BY <1>3
  <2> HIDE DEF S
  <2> QED
    BY <2>1, <2>2, <2>3, <1>1, <1>2, <1>3, QuietTypes
<1>7. ASSUME dies(r) PROVE TypeInv'
  <2>1. /\ UNCHANGED <<zoneVars, billVars, known, access, unchecked>>
        /\ Event /\ doubled' \subseteq Users /\ Excuse({req[r].user}) /\ Goto(r, Nothing)
    BY <1>7, <1>3 DEF dies
  <2> QED
    BY <2>1, <1>1, <1>3, QuietTypes
<1> QED
  BY <1>5, <1>6, <1>7

\* The number of zones charged to a user.
LEMMA ChargedTypes ==
    ASSUME TypeInv, NEW u
    PROVE  /\ IsFiniteSet({i \in live : row[i].owner = u /\ row[i].charged})
           /\ Charged(u) \in Nat
<1>1. IsFiniteSet(1 .. created)
  BY FS_Interval DEF TypeInv, ZoneTypes
<1>2. {i \in live : row[i].owner = u /\ row[i].charged} \subseteq 1 .. created
  BY DEF TypeInv, ZoneTypes
<1>3. IsFiniteSet({i \in live : row[i].owner = u /\ row[i].charged})
  BY <1>1, <1>2, FS_Subset
<1> QED
  BY <1>3, FS_CardinalityType DEF Charged

LEMMA CountTypes ==
    ASSUME TypeInv, NEW r \in Slots, count(r)
    PROVE  TypeInv'
<1> DEFINE u == req[r].user
           sub == IF At(r, "count") THEN account[u] ELSE req[r].sub
           n == Charged(u) + req[r].extra
           p == [req[r] EXCEPT !.todo = Tail(@), !.sub = sub, !.count = n]
<1>1. /\ req[r].todo # <<>> /\ Good(req[r], created, row, subs) /\ req[r].todo \in Todos
      /\ u \in Users
  BY AtStep DEF count, At
<1>2. Tail(req[r].todo) \in Todos /\ SameKind(req[r].todo, Tail(req[r].todo))
  BY <1>1, TailKind
<1>3. n \in Int
  <2>1. Charged(u) \in Nat
    BY ChargedTypes
  <2>2. req[r].extra \in {-1, 0, 1}
    BY <1>1 DEF Good, Request
  <2> QED
    BY <2>1, <2>2
<1>4. account[u] \in Nat /\ (account[u] # 0 => account[u] \in 1 .. Len(subs) /\ subs[account[u]].owner = u)
  BY <1>1 DEF TypeInv, BillTypes
<1>5. /\ sub \in Nat
      /\ sub = req[r].sub \/ (sub # 0 => sub \in 1 .. Len(subs) /\ subs[sub].owner = u)
  BY <1>1, <1>4 DEF Good, Request
<1>6. Goto(r, p)
  BY DEF count
<1> HIDE DEF n, sub
<1>7. /\ p \in Request /\ p.todo = Tail(req[r].todo)
      /\ p.user = u /\ p.zone = req[r].zone /\ p.new = req[r].new /\ p.extra = req[r].extra
      /\ p.sub = sub /\ p.snapshot = req[r].snapshot
  BY <1>1, <1>2, <1>3, <1>5 DEF Good, Request
<1> HIDE DEF p
<1>8. Good(p, created, row, subs) /\ (Inserts(p) => Inserts(req[r]))
  BY <1>1, <1>2, <1>5, <1>7, Advances
<1>9. /\ UNCHANGED <<zoneVars, billVars, known, access, unchecked>>
      /\ events' = events /\ doubled' \subseteq Users /\ Excuse({}) /\ {} \in SUBSET Users
  BY DEF count, TypeInv, HistoryTypes
<1> QED
  BY <1>6, <1>8, <1>9, QuietTypes

LEMMA ExistingTypes ==
    ASSUME TypeInv, NEW r \in Slots, existing(r)
    PROVE  TypeInv'
<1> DEFINE same == {i \in live : row[i].table = "forward" /\ row[i].name = req[r].new.name}
           p(i) == [req[r] EXCEPT !.todo = <<"save">>, !.snapshot = {[id |-> i, row |-> row[i]]}]
           q == [req[r] EXCEPT !.todo = Tail(@)]
<1>1. req[r].todo # <<>> /\ Good(req[r], created, row, subs) /\ req[r].todo \in Todos
  BY AtStep DEF existing, At
<1>2. Good(q, created, row, subs) /\ (Inserts(q) => Inserts(req[r]))
  BY <1>1, TailGood
<1>3. ASSUME NEW i \in same
      PROVE  Good(p(i), created, row, subs) /\ (Inserts(p(i)) => Inserts(req[r]))
  <2>1. i \in Ids /\ row[i] \in Row /\ i \in 1 .. created
    BY RowsOf
  <2>2. <<"save">> \in Todos /\ SameKind(req[r].todo, <<"save">>)
    BY Members DEF Todos, SameKind
  <2>3. /\ p(i) \in Request /\ p(i).todo = <<"save">>
        /\ p(i).user = req[r].user /\ p(i).zone = req[r].zone /\ p(i).new = req[r].new
        /\ p(i).extra = req[r].extra /\ p(i).sub = req[r].sub
        /\ p(i).snapshot = {[id |-> i, row |-> row[i]]}
    <3>1. {[id |-> i, row |-> row[i]]} \in SUBSET Copies
      BY <2>1 DEF Copies
    <3> QED
      BY <1>1, <2>2, <3>1 DEF Good, Request
  <2>4. \A z \in p(i).snapshot : z.id \in 1 .. created /\ SameZone(row[z.id], z.row)
    BY <2>1, <2>3 DEF SameZone
  <2> HIDE DEF p
  <2> QED
    BY <1>1, <2>2, <2>3, <2>4, Advances
<1>4. /\ UNCHANGED <<zoneVars, billVars, known, access, unchecked>>
      /\ events' = events /\ doubled' \subseteq Users /\ Excuse({}) /\ {} \in SUBSET Users
  BY DEF existing, TypeInv, HistoryTypes
<1>5. (\E i \in same : Goto(r, p(i))) \/ Goto(r, q)
  BY DEF existing, Go
<1> HIDE DEF p, q, same
<1>6. ASSUME NEW i \in same, Goto(r, p(i)) PROVE TypeInv'
  BY <1>3, <1>4, <1>6, QuietTypes
<1>7. CASE Goto(r, q)
  BY <1>2, <1>4, <1>7, QuietTypes
<1> QED
  BY <1>5, <1>6, <1>7

LEMMA SnapshotTypes ==
    ASSUME TypeInv, NEW r \in Slots, snapshot(r)
    PROVE  TypeInv'
<1> DEFINE copies == {[id |-> i, row |-> row[i]] :
              i \in {j \in live : row[j].owner = req[r].user /\ row[j].table = "forward"}}
           p == [req[r] EXCEPT !.todo = Tail(@), !.snapshot = copies]
<1>1. req[r].todo # <<>> /\ Good(req[r], created, row, subs) /\ req[r].todo \in Todos
  BY AtStep DEF snapshot, At
<1>2. Tail(req[r].todo) \in Todos /\ SameKind(req[r].todo, Tail(req[r].todo))
  BY <1>1, TailKind
<1>3. \A i \in live : i \in Ids /\ row[i] \in Row /\ i \in 1 .. created
  BY RowsOf
<1>4. \A z \in copies : z \in Copies /\ z.id \in 1 .. created /\ SameZone(row[z.id], z.row)
  BY <1>3 DEF Copies, SameZone
<1>5. Goto(r, p)
  BY DEF snapshot
<1> HIDE DEF copies
<1>6. /\ p \in Request /\ p.todo = Tail(req[r].todo)
      /\ p.user = req[r].user /\ p.zone = req[r].zone /\ p.new = req[r].new
      /\ p.extra = req[r].extra /\ p.sub = req[r].sub /\ p.snapshot = copies
  BY <1>1, <1>2, <1>4 DEF Good, Request
<1> HIDE DEF p
<1>7. Good(p, created, row, subs) /\ (Inserts(p) => Inserts(req[r]))
  BY <1>1, <1>2, <1>4, <1>6, Advances
<1>8. /\ UNCHANGED <<zoneVars, billVars, known, access, unchecked>>
      /\ events' = events /\ doubled' \subseteq Users /\ Excuse({}) /\ {} \in SUBSET Users
  BY DEF snapshot, TypeInv, HistoryTypes
<1> QED
  BY <1>5, <1>7, <1>8, QuietTypes

LEMMA DomainsTypes ==
    ASSUME TypeInv, NEW r \in Slots, domains(r)
    PROVE  TypeInv'
<1> DEFINE u == req[r].user
           changed == {z \in req[r].snapshot : z.row.charged # Wanted(u, z)}
           flipped == {[z EXCEPT !.row.charged = ~ @] : z \in changed}
           p == [req[r] EXCEPT !.todo = AfterDomains(u), !.snapshot = flipped]
<1>1. req[r].todo # <<>> /\ Good(req[r], created, row, subs) /\ req[r].todo \in Todos
  BY AtStep DEF domains, At
<1>2. req[r].todo \in Uncounted
  <2>1. req[r].todo = <<"domains", "count", "report_anyway">>
    BY <1>1, Heads DEF domains, At
  <2> QED
    BY <2>1, Members, UncountedKinds
<1>3. AfterDomains(u) \in Todos /\ SameKind(req[r].todo, AfterDomains(u))
  BY <1>2, Members DEF AfterDomains, SameKind, Todos
<1>4. \A z \in flipped : z \in Copies /\ z.id \in 1 .. created /\ SameZone(row[z.id], z.row)
  <2>1. \A z \in req[r].snapshot : z \in Copies /\ z.id \in 1 .. created /\ SameZone(row[z.id], z.row)
    BY <1>1 DEF Good, Request, LoadedOK
  <2>2. ASSUME NEW x \in req[r].snapshot
        PROVE  LET z == [x EXCEPT !.row.charged = ~ @]
               IN  z \in Copies /\ z.id \in 1 .. created /\ SameZone(row[z.id], z.row)
    <3> DEFINE y == [x.row EXCEPT !.charged = ~ @]
    <3>1. x \in Copies /\ x.id \in 1 .. created /\ SameZone(row[x.id], x.row) /\ x.row \in Row
      BY <2>1 DEF Copies
    <3>2. y \in Row /\ SameZone(x.row, y)
      BY <3>1 DEF Row, SameZone
    <3> HIDE DEF y
    <3>3. [x EXCEPT !.row = y] \in Copies /\ [x EXCEPT !.row = y].id = x.id
          /\ [x EXCEPT !.row = y].row = y
      BY <3>1, <3>2 DEF Copies
    <3>4. [x EXCEPT !.row.charged = ~ @] = [x EXCEPT !.row = y]
      BY <3>1 DEF y, Copies
    <3> QED
      BY <3>1, <3>2, <3>3, <3>4 DEF SameZone
  <2> QED
    BY <2>2
<1>5. Goto(r, p)
  BY DEF domains
<1> HIDE DEF flipped, u
<1>6. /\ p \in Request /\ p.todo = AfterDomains(u)
      /\ p.user = req[r].user /\ p.zone = req[r].zone /\ p.new = req[r].new
      /\ p.extra = req[r].extra /\ p.sub = req[r].sub /\ p.snapshot = flipped
  BY <1>1, <1>3, <1>4 DEF Good, Request
<1> HIDE DEF p
<1>7. Good(p, created, row, subs) /\ (Inserts(p) => Inserts(req[r]))
  BY <1>1, <1>3, <1>4, <1>6, Advances
<1>8. PICK S \in SUBSET Users : Excuse(S)
  <2>1. req[r].user \in Users
    BY AtStep
  <2> QED
    BY <2>1 DEF domains
<1>9. /\ UNCHANGED <<zoneVars, billVars, known, access, unchecked>>
      /\ events' = events /\ doubled' \subseteq Users
  BY DEF domains, TypeInv, HistoryTypes
<1> QED
  BY <1>5, <1>7, <1>8, <1>9, QuietTypes

\* A subscription is changed.
LEMMA SubsChange ==
    ASSUME TypeInv, NEW s \in 1 .. Len(subs), NEW x \in Subscription,
           x.owner = subs[s].owner, subs' = [subs EXCEPT ![s] = x]
    PROVE  /\ subs' \in Seq(Subscription) /\ Len(subs') = Len(subs)
           /\ subs'[s] = x
           /\ \A k \in 1 .. Len(subs) : k # s => subs'[k] = subs[k]
           /\ \A k \in 1 .. Len(subs) : subs'[k].owner = subs[k].owner
<1>1. subs \in Seq(Subscription)
  BY DEF TypeInv, BillTypes
<1>2. /\ subs' \in Seq(Subscription) /\ Len(subs') = Len(subs)
      /\ \A k \in 1 .. Len(subs) : subs'[k] = IF k = s THEN x ELSE subs[k]
  BY <1>1, ExceptSeq
<1> QED
  BY <1>2

LEMMA SubsElements ==
    ASSUME TypeInv, NEW s \in 1 .. Len(subs)
    PROVE  /\ subs[s] \in Subscription /\ Len(subs) \in Nat /\ s # 0
           /\ \A n \in Int : LET x == [subs[s] EXCEPT !.usage = n]
                             IN  /\ x \in Subscription /\ x.owner = subs[s].owner
                                 /\ x.usage = n /\ x.open = subs[s].open
           /\ LET x == [subs[s] EXCEPT !.open = FALSE]
              IN  /\ x \in Subscription /\ x.owner = subs[s].owner
                  /\ x.usage = subs[s].usage /\ ~ x.open
<1>1. subs[s] \in Subscription /\ Len(subs) \in Nat
  BY ElementOfSeq, LenProperties DEF TypeInv, BillTypes
<1>2. ASSUME NEW n \in Int
      PROVE  LET x == [subs[s] EXCEPT !.usage = n]
             IN  /\ x \in Subscription /\ x.owner = subs[s].owner
                 /\ x.usage = n /\ x.open = subs[s].open
  BY <1>1 DEF Subscription
<1>3. LET x == [subs[s] EXCEPT !.open = FALSE]
      IN  /\ x \in Subscription /\ x.owner = subs[s].owner
          /\ x.usage = subs[s].usage /\ ~ x.open
  BY <1>1 DEF Subscription
<1> QED
  BY <1>1, <1>2, <1>3

LEMMA BillStays ==
    ASSUME TypeInv, UNCHANGED <<zoneVars>>, subs' \in Seq(Subscription), Len(subs) <= Len(subs'),
           \A k \in 1 .. Len(subs) : subs'[k].owner = subs[k].owner
    PROVE  /\ Grows /\ ZoneTypes' /\ created' = created
           /\ UNCHANGED <<account, loaded>> => BillTypes'
<1>1. Len(subs) \in Nat /\ Len(subs') \in Nat
  BY LenProperties DEF TypeInv, BillTypes
<1>2. Grows /\ ZoneTypes' /\ created' = created
  BY <1>1 DEF Grows, TypeInv, ZoneTypes, BillTypes, zoneVars, SameZone
<1>3. ASSUME NEW u \in Users, NEW k \in loaded[u] \cup {account[u]}, k # 0
      PROVE  k \in 1 .. Len(subs') /\ subs'[k].owner = u
  <2>1. k \in 1 .. Len(subs) /\ subs[k].owner = u
    BY <1>3 DEF TypeInv, BillTypes
  <2> QED
    BY <2>1, <1>1
<1> QED
  BY <1>2, <1>3 DEF TypeInv, BillTypes

LEMMA ReportTypes ==
    ASSUME TypeInv, NEW r \in Slots, report_usage(r)
    PROVE  TypeInv'
<1> DEFINE s == req[r].sub
           x == [subs[s] EXCEPT !.usage = req[r].count]
           p == [req[r] EXCEPT !.todo = Tail(@)]
<1>1. req[r].todo # <<>> /\ Good(req[r], created, row, subs)
  BY AtStep DEF report_usage, Reports, At
<1>2. s \in 1 .. Len(subs) /\ req[r].count \in Int
  BY <1>1 DEF report_usage, Good, LoadedOK, Request
<1>3. x \in Subscription /\ x.owner = subs[s].owner /\ subs' = [subs EXCEPT ![s] = x]
  BY <1>2, SubsElements DEF report_usage
<1>4. Goto(r, p)
  BY DEF report_usage, Go
<1> HIDE DEF x, s
<1>5. /\ subs' \in Seq(Subscription) /\ Len(subs') = Len(subs) /\ Len(subs) \in Nat
      /\ \A k \in 1 .. Len(subs) : subs'[k].owner = subs[k].owner
  BY <1>2, <1>3, SubsChange, SubsElements
<1>6. UNCHANGED <<zoneVars>> /\ UNCHANGED <<account, loaded>>
  BY DEF report_usage
<1>7. Grows /\ ZoneTypes' /\ created' = created /\ BillTypes' /\ Len(subs) <= Len(subs')
  BY <1>5, <1>6, BillStays
<1>8. Good(req[r], created', row', subs')
  BY <1>1, <1>7, LoadedStays DEF Good
<1>9. Good(p, created', row', subs') /\ (Inserts(p) => Inserts(req[r]))
  BY <1>1, <1>8, TailGood
<1>10. HistoryTypes' /\ events' = events
  BY HistoriesTypes DEF report_usage, TypeInv, HistoryTypes
<1> HIDE DEF p
<1> QED
  BY <1>4, <1>7, <1>9, <1>10, StepTypes

LEMMA SubscribeTypes ==
    ASSUME TypeInv, NEW r \in Slots, subscribe_user(r)
    PROVE  TypeInv'
<1> DEFINE u == req[r].user
           x == [owner |-> u, usage |-> req[r].count, open |-> TRUE]
           p == [req[r] EXCEPT !.todo[1] = "save_account", !.sub = Len(subs')]
           t == [req[r].todo EXCEPT ![1] = "save_account"]
<1>1. /\ req[r].todo # <<>> /\ Good(req[r], created, row, subs) /\ req[r].todo \in Todos
      /\ Head(req[r].todo) \in {"report", "report_anyway"}
  BY AtStep DEF subscribe_user, Reports, At
<1>2. u \in Users /\ x \in Subscription /\ x.owner = u
  BY <1>1 DEF Good, Request, Subscription
<1>3. subs \in Seq(Subscription) /\ subs' = Append(subs, x)
  BY DEF subscribe_user, TypeInv, BillTypes
<1>4. Goto(r, p)
  BY DEF subscribe_user
<1> HIDE DEF x, u
<1>5. /\ subs' \in Seq(Subscription) /\ Len(subs') = Len(subs) + 1 /\ Len(subs) \in Nat
      /\ subs'[Len(subs) + 1] = x
      /\ \A k \in 1 .. Len(subs) : subs'[k] = subs[k]
  BY <1>2, <1>3, AppendProperties, LenProperties
<1>6. UNCHANGED <<zoneVars>> /\ UNCHANGED <<account, loaded>>
  BY DEF subscribe_user
<1>7. Grows /\ ZoneTypes' /\ created' = created /\ BillTypes'
  BY <1>5, <1>6, BillStays
<1>8. Good(req[r], created', row', subs')
  BY <1>1, <1>7, LoadedStays DEF Good
<1>9. t \in Todos /\ SameKind(req[r].todo, t)
  BY <1>1, TailKind
<1> HIDE DEF t
<1>10. /\ p \in Request /\ p.todo = t
       /\ p.user = u /\ p.zone = req[r].zone /\ p.new = req[r].new
       /\ p.extra = req[r].extra /\ p.sub = Len(subs') /\ p.snapshot = req[r].snapshot
  <2>1. req[r] \in Request
    BY <1>1 DEF Good
  <2>2. p = [req[r] EXCEPT !.todo = t, !.sub = Len(subs')]
    BY <2>1 DEF Request, t
  <2>3. Len(subs') \in Nat
    BY <1>5
  <2> QED
    BY <2>1, <2>2, <2>3, <1>9 DEF Request, u
<1> HIDE DEF p
<1>11. p.sub \in 1 .. Len(subs') /\ subs'[p.sub].owner = p.user
  BY <1>2, <1>5, <1>10
<1>12. Good(p, created', row', subs') /\ (Inserts(p) => Inserts(req[r]))
  BY <1>8, <1>9, <1>10, <1>11, Advances DEF u
<1>13. HistoryTypes' /\ events' = events
  <2>1. doubled' \subseteq Users
    BY <1>2 DEF subscribe_user, TypeInv, HistoryTypes, u
  <2> QED
    BY <2>1, HistoriesTypes DEF subscribe_user, TypeInv, HistoryTypes
<1> QED
  BY <1>4, <1>7, <1>12, <1>13, StepTypes

LEMMA SaveAccountTypes ==
    ASSUME TypeInv, NEW r \in Slots, save_account(r)
    PROVE  TypeInv'
<1> DEFINE p == [req[r] EXCEPT !.todo = Tail(@)]
<1>1. req[r].todo # <<>> /\ Good(req[r], created, row, subs)
  BY AtStep DEF save_account, At
<1>2. /\ UNCHANGED <<zoneVars, subs, loaded>> /\ events' = events
      /\ account' = [account EXCEPT ![req[r].user] = req[r].sub] /\ Goto(r, p)
  BY DEF save_account, Saved, Go
<1>3. Grows /\ ZoneTypes' /\ created' = created /\ row' = row
  BY <1>2, LenProperties DEF Grows, TypeInv, ZoneTypes, BillTypes, zoneVars, SameZone
<1>4. BillTypes'
  BY <1>1, <1>2 DEF TypeInv, BillTypes, Good, LoadedOK, Request
<1>5. Good(p, created', row', subs') /\ (Inserts(p) => Inserts(req[r]))
  BY <1>1, <1>2, <1>3, TailGood
<1>6. HistoryTypes'
  BY HistoriesTypes DEF save_account, TypeInv, HistoryTypes
<1> HIDE DEF p
<1> QED
  BY <1>2, <1>3, <1>4, <1>5, <1>6, StepTypes

\* What insert does to the requests and the rows.
LEMMA InsertEffect ==
    ASSUME TypeInv, NEW r \in Slots, insert(r)
    PROVE  /\ created' = created + 1 /\ created + 1 \in Ids /\ created \in Nat
           /\ created + 1 \notin live /\ live' = live \cup {created + 1}
           /\ row' \in [Ids -> Row] /\ row'[created + 1] = req[r].new
           /\ \A k \in Ids \ {created + 1} : row'[k] = row[k]
           /\ req' \in [Slots -> Request]
           /\ Inserts(req[r]) /\ ~ Inserts(req'[r])
           /\ req'[r] = Ended([req[r] EXCEPT !.todo = Tail(@)])
           /\ \A s \in Slots \ {r} : req'[s] \in {req[s], [req[s] EXCEPT !.stale = TRUE]}
           /\ \A s \in Slots \ {r} : WillInsert(s) /\ Conflict(req[r].new.name, req[s].new.name) =>
                 req'[s].stale
           /\ (req[r].stale \/ Len(req[r].todo) > 1) => created + 1 \in unchecked'
           /\ unchecked \subseteq unchecked' /\ unchecked' \subseteq unchecked \cup {created + 1}
<1> DEFINE i == created + 1
           p == [req[r] EXCEPT !.todo = Tail(@)]
           late == {s \in Slots \ {r} : WillInsert(s) /\ Conflict(req[r].new.name, req[s].new.name)}
<1>1. /\ req[r].todo # <<>> /\ Good(req[r], created, row, subs) /\ req[r].todo \in Todos
      /\ Head(req[r].todo) = "insert"
  BY AtStep DEF insert, At
<1>2. \/ req[r].todo = <<"insert">> /\ Tail(req[r].todo) = <<>>
      \/ /\ req[r].todo = <<"insert", "count", "report_anyway">>
         /\ Tail(req[r].todo) = <<"count", "report_anyway">>
  BY <1>1, Heads, Tails
<1>3. Inserts(req[r])
  BY <1>2, Members DEF Inserts
<1>4. /\ req' = [s \in Slots |->
                  IF s = r THEN Ended(p)
                  ELSE IF s \in late THEN [req[s] EXCEPT !.stale = TRUE] ELSE req[s]]
      /\ created' = i /\ live' = live \cup {i} /\ row' = [row EXCEPT ![i] = req[r].new]
      /\ unchecked' = IF req[r].stale \/ Len(req[r].todo) > 1
                      THEN unchecked \cup {i} ELSE unchecked
  BY DEF insert
<1> HIDE DEF late
<1>5. Good(p, created, row, subs) /\ p.todo = Tail(req[r].todo)
  <2>1. Good(p, created, row, subs)
    BY <1>1, TailGood
  <2> QED
    BY <2>1, <1>1 DEF Good, Request
<1> HIDE DEF p
<1>6. /\ ~ Inserts(p) /\ Ended(p) \in Request /\ Ended(p).todo = p.todo
      /\ ~ Inserts(Ended(p))
  BY <1>2, <1>5, EndedOK, Members, Kinds DEF Good, Inserts
<1>7. created \in Nat /\ i \in Ids
  <2>1. r \in Inserting /\ IsFiniteSet(Inserting)
    BY <1>3, BoundTypes DEF Inserting
  <2>2. Cardinality(Inserting) # 0
    BY <2>1, FS_EmptySet
  <2> QED
    BY <2>2, BoundTypes DEF Ids
<1>8. /\ row \in [Ids -> Row] /\ live \subseteq 1 .. created /\ req \in [Slots -> Request]
      /\ req[r].new \in Row
  BY <1>1 DEF TypeInv, ZoneTypes, ReqInv, Good, Request
<1>9. i \notin live
  BY <1>7, <1>8
<1>10. row' \in [Ids -> Row] /\ row'[i] = req[r].new /\ \A k \in Ids \ {i} : row'[k] = row[k]
  BY <1>4, <1>7, <1>8
<1>11. /\ req'[r] = Ended(p)
       /\ \A s \in Slots \ {r} : req'[s] \in {req[s], [req[s] EXCEPT !.stale = TRUE]}
  BY <1>4
<1>12. \A s \in Slots : [req[s] EXCEPT !.stale = TRUE] \in Request
                     /\ [req[s] EXCEPT !.stale = TRUE].stale
  BY <1>8 DEF Request
<1>13. req' \in [Slots -> Request]
  BY <1>4, <1>6, <1>8, <1>12
<1>14. \A s \in late : req'[s].stale
  BY <1>4, <1>12 DEF late
<1>15. \A s \in Slots \ {r} : WillInsert(s) /\ Conflict(req[r].new.name, req[s].new.name) => req'[s].stale
  BY <1>14 DEF late
<1> QED
  BY <1>3, <1>4, <1>6, <1>7, <1>9, <1>10, <1>11, <1>13, <1>15 DEF p

LEMMA StaleSame ==
    ASSUME NEW q \in Request
    PROVE  LET p == [q EXCEPT !.stale = TRUE]
           IN  /\ p \in Request /\ p.todo = q.todo /\ p.user = q.user /\ p.zone = q.zone
               /\ p.new = q.new /\ p.extra = q.extra /\ p.count = q.count /\ p.sub = q.sub
               /\ p.snapshot = q.snapshot /\ p.stale
  BY DEF Request

LEMMA InsertTypes ==
    ASSUME TypeInv, NEW r \in Slots, insert(r)
    PROVE  TypeInv'
<1>1. /\ created' = created + 1 /\ created + 1 \in Ids /\ created \in Nat
      /\ live' = live \cup {created + 1} /\ row' \in [Ids -> Row]
      /\ \A k \in Ids \ {created + 1} : row'[k] = row[k]
      /\ req' \in [Slots -> Request] /\ Inserts(req[r]) /\ ~ Inserts(req'[r])
      /\ req'[r] = Ended([req[r] EXCEPT !.todo = Tail(@)])
      /\ \A s \in Slots \ {r} : req'[s] \in {req[s], [req[s] EXCEPT !.stale = TRUE]}
      /\ unchecked' \subseteq unchecked \cup {created + 1}
  BY InsertEffect
<1>2. UNCHANGED <<billVars, known, access, events, doubled>> /\ Excuse({})
  BY DEF insert
<1>3. created <= MaxEvents
  BY <1>1, BoundTypes DEF Ids
<1>4. \A k \in 1 .. created : k \in Ids \ {created + 1} /\ k \in 1 .. created + 1
  BY <1>1, <1>3, BoundTypes DEF Ids
<1>5. Len(subs) \in Nat /\ subs' = subs
  BY <1>2, LenProperties DEF TypeInv, BillTypes, billVars
<1>6. Grows
  BY <1>1, <1>4, <1>5 DEF Grows, SameZone
<1>7. ZoneTypes'
  BY <1>1, <1>4 DEF TypeInv, ZoneTypes
<1>8. BillTypes'
  BY <1>2 DEF TypeInv, BillTypes, billVars
<1>9. HistoryTypes'
  <2>1. unchecked' \subseteq Ids /\ doubled' \subseteq Users
    BY <1>1, <1>2 DEF TypeInv, HistoryTypes
  <2> QED
    BY <1>2, <2>1, HistoriesTypes
<1>10. ASSUME NEW s \in Slots \ {r}
       PROVE  /\ ExtraFits(req'[s]) /\ LoadedOK(req'[s], created', row', subs')
              /\ req'[s].todo = req[s].todo
  <2>1. Good(req[s], created, row, subs)
    BY AtStep
  <2>2. LoadedOK(req[s], created', row', subs')
    BY <2>1, <1>6, LoadedStays DEF Good
  <2>3. CASE req'[s] = req[s]
    BY <2>1, <2>2, <2>3 DEF Good
  <2>4. CASE req'[s] = [req[s] EXCEPT !.stale = TRUE]
    <3>1. /\ req'[s].todo = req[s].todo /\ req'[s].user = req[s].user
          /\ req'[s].zone = req[s].zone /\ req'[s].new = req[s].new
          /\ req'[s].extra = req[s].extra /\ req'[s].sub = req[s].sub
          /\ req'[s].snapshot = req[s].snapshot
      BY <2>1, <2>4, StaleSame DEF Good
    <3> QED
      BY <2>1, <2>2, <3>1 DEF Good, ExtraFits, LoadedOK, Inserts, Deletes
  <2> QED
    BY <1>1, <2>3, <2>4
<1>11. ExtraFits(req'[r]) /\ LoadedOK(req'[r], created', row', subs')
  <2> DEFINE p == [req[r] EXCEPT !.todo = Tail(@)]
  <2>1. req[r].todo # <<>> /\ Good(req[r], created, row, subs)
    BY AtStep DEF insert, At
  <2>2. Good(req[r], created', row', subs')
    BY <2>1, <1>6, LoadedStays DEF Good
  <2>3. Good(p, created', row', subs')
    BY <2>1, <2>2, TailGood
  <2> HIDE DEF p
  <2>4. Good(Ended(p), created', row', subs')
    BY <2>3, EndedOK DEF Good
  <2> QED
    BY <2>4, <1>1 DEF p, Good
<1>12. ReqInv'
  BY <1>1, <1>10, <1>11 DEF ReqInv
<1>13. BoundInv'
  <2>1. Cardinality(Inserting') = Cardinality(Inserting) - 1
    BY <1>1, <1>10, InsertingGrows
  <2>2. events' = events
    BY <1>2
  <2> QED
    BY <2>1, <2>2, <1>1, BoundTypes DEF BoundInv
<1> QED
  BY <1>7, <1>8, <1>9, <1>12, <1>13 DEF TypeInv

LEMMA DeleteTypes ==
    ASSUME TypeInv, NEW r \in Slots, delete(r)
    PROVE  TypeInv'
<1> DEFINE p == [req[r] EXCEPT !.todo = Tail(@)]
           S == IF req[r].extra = -1 /\ ~ req[r].new.charged THEN {req[r].user} ELSE {}
<1>1. req[r].todo # <<>> /\ Good(req[r], created, row, subs) /\ S \in SUBSET Users
  BY AtStep DEF delete, At
<1>2. /\ UNCHANGED <<row, created, billVars>> /\ events' = events /\ Goto(r, p) /\ Excuse(S)
      /\ live' \subseteq live
      /\ UNCHANGED <<known, access, doubled, unchecked>>
  BY DEF delete, Go
<1> HIDE DEF S, p
<1>3. Grows /\ ZoneTypes' /\ BillTypes' /\ created' = created /\ row' = row /\ subs' = subs
  BY <1>2, LenProperties DEF Grows, TypeInv, ZoneTypes, BillTypes, billVars, SameZone
<1>4. Good(p, created', row', subs') /\ (Inserts(p) => Inserts(req[r]))
  BY <1>1, <1>3, TailGood DEF p
<1>5. HistoryTypes'
  BY <1>1, <1>2, HistoriesTypes DEF TypeInv, HistoryTypes
<1> QED
  BY <1>2, <1>3, <1>4, <1>5, StepTypes

\* What a saved copy is.
LEMMA CopyOK ==
    ASSUME TypeInv, NEW r \in Slots, NEW z \in req[r].snapshot
    PROVE  /\ z.id \in 1 .. created /\ z.id \in Ids /\ z.row \in Row /\ row[z.id] \in Row
           /\ SameZone(row[z.id], z.row) /\ z.row.owner \in Users
  BY AtStep DEF Good, Request, Copies, LoadedOK, TypeInv, ZoneTypes, Row

LEMMA SaveTypes ==
    ASSUME TypeInv, NEW r \in Slots, save(r)
    PROVE  TypeInv'
<1> DEFINE p(z) == [req[r] EXCEPT !.snapshot = @ \ {z}]
           q == [req[r] EXCEPT !.todo = Tail(@)]
           S(z) == IF Reverts(z) THEN {z.row.owner} \ {req[r].user} ELSE {}
<1>1. req[r].todo # <<>> /\ Good(req[r], created, row, subs) /\ req[r].user \in Users
  BY AtStep DEF save, At
<1>2. UNCHANGED <<created, billVars, known, access, events, doubled>>
  BY DEF save
<1>3. ASSUME NEW z \in req[r].snapshot,
             live' = live \cup {z.id}, row' = [row EXCEPT ![z.id] = z.row],
             unchecked' = IF z.id \in live THEN unchecked ELSE unchecked \cup {z.id},
             Goto(r, p(z)), Excuse(S(z))
      PROVE  TypeInv'
  <2>1. /\ z.id \in 1 .. created /\ z.id \in Ids /\ z.row \in Row /\ row[z.id] \in Row
        /\ SameZone(row[z.id], z.row) /\ z.row.owner \in Users
    BY CopyOK
  <2>2. Grows /\ ZoneTypes' /\ BillTypes' /\ created' = created /\ subs' = subs
    <3>1. \A k \in 1 .. created : SameZone(row[k], row'[k])
      BY <1>3, <2>1 DEF TypeInv, ZoneTypes, SameZone
    <3> QED
      BY <1>2, <1>3, <2>1, <3>1, LenProperties
         DEF Grows, TypeInv, ZoneTypes, BillTypes, billVars
  <2>3. Good(req[r], created', row', subs')
    BY <1>1, <2>2, LoadedStays DEF Good
  <2>4. /\ p(z) \in Request /\ p(z).todo = req[r].todo
        /\ p(z).user = req[r].user /\ p(z).zone = req[r].zone /\ p(z).new = req[r].new
        /\ p(z).extra = req[r].extra /\ p(z).sub = req[r].sub
        /\ p(z).snapshot \subseteq req[r].snapshot
    BY <1>1 DEF Good, Request
  <2>5. SameKind(req[r].todo, req[r].todo)
    <3>1. req[r].todo \in {<<"save", "count", "report_anyway">>, <<"save">>}
      BY AtStep, Heads DEF save
    <3> QED
      BY <3>1, Members, UncountedKinds DEF SameKind
  <2>6. HistoryTypes'
    <3>1. S(z) \in SUBSET Users /\ unchecked' \subseteq Ids /\ doubled' \subseteq Users
      BY <1>2, <1>3, <2>1 DEF TypeInv, HistoryTypes
    <3> HIDE DEF S
    <3> QED
      BY <1>2, <1>3, <3>1, HistoriesTypes
  <2> HIDE DEF p
  <2>7. Good(p(z), created', row', subs') /\ (Inserts(p(z)) => Inserts(req[r]))
    BY <2>3, <2>4, <2>5, Advances
  <2>8. events' = events
    BY <1>2
  <2> QED
    BY <1>3, <2>2, <2>6, <2>7, <2>8, StepTypes
<1>4. ASSUME Go(r), UNCHANGED <<live, row, unchecked>>, Excuse({})
      PROVE  TypeInv'
  <2>1. UNCHANGED <<zoneVars, billVars, known, access, unchecked>> /\ doubled' \subseteq Users
    BY <1>2, <1>4 DEF zoneVars, TypeInv, HistoryTypes
  <2>2. Good(q, created, row, subs) /\ (Inserts(q) => Inserts(req[r]))
    BY <1>1, TailGood
  <2>3. Goto(r, q) /\ events' = events /\ {} \in SUBSET Users
    BY <1>2, <1>4 DEF Go
  <2> HIDE DEF q
  <2> QED
    BY <1>4, <2>1, <2>2, <2>3, QuietTypes
<1> QED
  BY <1>3, <1>4 DEF save

\* The services change by themselves.
LEMMA OutsideTypes ==
    ASSUME TypeInv
    PROVE  /\ \A n \in Names : domain_changes(n) => TypeInv'
           /\ \A u \in Users : sub_cancelled(u) \/ user_saved(u) => TypeInv'
           /\ \A u \in Users : \A id \in loaded[u] : create_user_profile(u, id) => TypeInv'
<1>1. ASSUME NEW n \in Names, domain_changes(n)
      PROVE  TypeInv'
  <2>1. UNCHANGED <<zoneVars, billVars, known, req, excused, doubled, unchecked>>
    BY <1>1 DEF domain_changes
  <2>2. BoundInv'
    BY <1>1, <2>1, BoundTypes DEF BoundInv, Event, domain_changes, zoneVars, Inserting
  <2>3. HistoryTypes'
    BY <1>1, <2>1 DEF TypeInv, HistoryTypes, domain_changes
  <2> QED
    BY <2>1, <2>2, <2>3 DEF TypeInv, ZoneTypes, BillTypes, ReqInv, zoneVars, billVars
<1>2. ASSUME NEW u \in Users, sub_cancelled(u)
      PROVE  TypeInv'
  <2> DEFINE s == account[u]
             x == [subs[s] EXCEPT !.open = FALSE]
  <2>1. /\ s \in 1 .. Len(subs) /\ subs' = [subs EXCEPT ![s] = x]
        /\ account' = [account EXCEPT ![u] = 0] /\ req' = req /\ Event /\ Excuse({})
        /\ UNCHANGED <<zoneVars, loaded, known, access, doubled, unchecked>>
    BY <1>2 DEF sub_cancelled, TypeInv, BillTypes
  <2>2. x \in Subscription /\ x.owner = subs[s].owner
    BY <2>1, SubsElements
  <2> HIDE DEF s, x
  <2>3. /\ subs' \in Seq(Subscription) /\ Len(subs') = Len(subs) /\ Len(subs) \in Nat
        /\ \A k \in 1 .. Len(subs) : subs'[k].owner = subs[k].owner
    BY <2>1, <2>2, SubsChange, SubsElements
  <2>4. Grows /\ ZoneTypes' /\ created' = created
    BY <2>1, <2>3, BillStays
  <2>5. BillTypes'
    BY <2>1, <2>3 DEF TypeInv, BillTypes
  <2>6. ReqInv'
    <3>1. \A r \in Slots : req[r] \in Request /\ LoadedOK(req[r], created', row', subs')
      BY <2>4, LoadedStays DEF TypeInv, ReqInv
    <3> QED
      BY <2>1, <3>1 DEF TypeInv, ReqInv
  <2>7. BoundInv'
    BY <2>1, <2>4, BoundTypes DEF BoundInv, Event, Inserting
  <2>8. HistoryTypes'
    BY <2>1, HistoriesTypes DEF TypeInv, HistoryTypes
  <2> QED
    BY <2>4, <2>5, <2>6, <2>7, <2>8 DEF TypeInv
<1>3. ASSUME NEW u \in Users, user_saved(u)
      PROVE  TypeInv'
  <2>1. /\ UNCHANGED <<zoneVars, account, subs, known, access, req, excused, doubled, unchecked>>
        /\ loaded' = [loaded EXCEPT ![u] = @ \cup {account[u]}] /\ Event
    BY <1>3 DEF user_saved
  <2>2. BillTypes'
    BY <2>1 DEF TypeInv, BillTypes
  <2>3. BoundInv'
    BY <2>1, BoundTypes DEF BoundInv, Event, zoneVars, Inserting
  <2>4. HistoryTypes'
    BY <2>1 DEF TypeInv, HistoryTypes
  <2> QED
    BY <2>1, <2>2, <2>3, <2>4 DEF TypeInv, ZoneTypes, ReqInv, zoneVars
<1>4. ASSUME NEW u \in Users, NEW id \in loaded[u], create_user_profile(u, id)
      PROVE  TypeInv'
  <2>1. /\ UNCHANGED <<zoneVars, subs, known, access, req, events, unchecked>>
        /\ loaded' = [loaded EXCEPT ![u] = @ \ {id}]
        /\ account' = [account EXCEPT ![u] = id]
        /\ Excuse(IF id \in {0, account[u]} THEN {} ELSE {u})
    BY <1>4 DEF create_user_profile
  <2>2. BillTypes'
    BY <2>1 DEF TypeInv, BillTypes
  <2>3. BoundInv'
    BY <2>1 DEF TypeInv, BoundInv, zoneVars, Inserting
  <2>4. excused' \subseteq Users
    BY <2>1 DEF TypeInv, HistoryTypes, Excuse
  <2>5. HistoryTypes'
    BY <1>4, <2>1, <2>4 DEF create_user_profile, TypeInv, HistoryTypes
  <2> QED
    BY <2>1, <2>2, <2>3, <2>5 DEF TypeInv, ZoneTypes, ReqInv, zoneVars
<1> QED
  BY <1>1, <1>2, <1>3, <1>4

\* Nothing has begun.
LEMMA InitTypes ==
    ASSUME Init
    PROVE  TypeInv
<1>1. AnyRow \in Row /\ Nothing \in Request /\ MaxEvents \in Nat
  BY NothingOK, BoundsAssumption
<1>2. created \in {0, 1} /\ live = 1 .. created /\ events = 0 /\ req = [r \in Slots |-> Nothing]
  BY DEF Init
<1>3. ReqInv
  BY <1>2, NothingGood DEF ReqInv, Good
<1>4. BoundInv
  <2>1. Inserting = {}
    BY <1>2, NothingGood DEF Inserting
  <2> QED
    BY <2>1, <1>1, <1>2, FS_EmptySet DEF BoundInv
<1>5. HistoryTypes
  BY DEF Init, HistoryTypes
<1>6. 1 \in Ids /\ ZoneTypes /\ BillTypes
  <2>0. 1 \in Ids /\ loaded = [u \in Users |-> {}]
    BY <1>1 DEF Ids, Init
  <2>1. CASE /\ row = [i \in Ids |-> AnyRow]
             /\ account = [u \in Users |-> 0]
             /\ subs = <<>>
    BY <1>1, <1>2, <2>0, <2>1 DEF ZoneTypes, BillTypes
  <2>2. ASSUME NEW v \in Users, NEW c \in Creates, NEW charged \in BOOLEAN,
               row = [i \in Ids |-> IF i = 1 THEN NewRow(v, c[1], c[2], charged) ELSE AnyRow],
               account = [u \in Users |-> IF u = v THEN 1 ELSE 0],
               subs = <<[owner |-> v, usage |-> IF charged THEN 1 ELSE 0, open |-> TRUE]>>
        PROVE  ZoneTypes /\ BillTypes
    <3> DEFINE x == [owner |-> v, usage |-> IF charged THEN 1 ELSE 0, open |-> TRUE]
    <3>1. NewRow(v, c[1], c[2], charged) \in Row
      BY NewRowOK, NamesAssumption DEF Tables
    <3>2. x \in Subscription /\ x.owner = v
      BY DEF Subscription
    <3> HIDE DEF x
    <3>3. subs = <<x>>
      BY <2>2 DEF x
    <3>4. subs \in Seq(Subscription) /\ Len(subs) = 1 /\ subs[1] = x
      BY <3>2, <3>3
    <3>5. BillTypes
      BY <2>0, <2>2, <3>2, <3>4 DEF BillTypes
    <3> QED
      BY <1>1, <1>2, <2>2, <3>1, <3>5 DEF ZoneTypes
  <2> QED
    BY <2>0, <2>1, <2>2 DEF Init
<1> QED
  BY <1>3, <1>4, <1>5, <1>6 DEF TypeInv

LEMMA StepsTypes ==
    ASSUME TypeInv, NEW r \in Slots, Step(r) \/ report_refused(r) \/ dies(r)
    PROVE  TypeInv'
  BY QuietStepsTypes, ExistingTypes, CountTypes, ReportTypes, SubscribeTypes, SaveAccountTypes,
     InsertTypes, DeleteTypes, SnapshotTypes, DomainsTypes, SaveTypes DEF Step

LEMMA NextTypes == TypeInv /\ [Next]_vars => TypeInv'
<1> SUFFICES ASSUME TypeInv, [Next]_vars PROVE TypeInv'
  OBVIOUS
<1>1. CASE UNCHANGED vars
  <2>1. UNCHANGED <<live, row, created, account, subs, loaded, known, access, req, events,
                    excused, doubled, unchecked>>
    BY <1>1 DEF vars, zoneVars, billVars
  <2> QED
    BY <2>1 DEF TypeInv, BoundInv, Inserting, ZoneTypes, BillTypes, HistoryTypes, ReqInv
<1>2. CASE Next
  BY <1>2, CreateTypes, DeleteBeginsTypes, OtherBeginsTypes, StepsTypes, OutsideTypes DEF Next
<1> QED
  BY <1>1, <1>2

\* Zones, requests and what they have loaded stay well formed, and no more
\* zones come than requests were made for, whichever steps of create, delete,
\* log_usage and validate-charged run between each other.
THEOREM NamesTypeCorrect == Spec => []TypeInv
<1>1. Init => TypeInv
  BY InitTypes
<1> QED
  BY <1>1, NextTypes, PTL DEF Spec

LEMMA TypesOK == TypeInv => TypeOK
<1> SUFFICES ASSUME TypeInv PROVE TypeOK
  OBVIOUS
<1>1. created \in 0 .. MaxEvents + 1
  BY BoundTypes
<1>2. \A u \in Users : account[u] \in 0 .. Len(subs) /\ loaded[u] \subseteq 0 .. Len(subs)
  BY LenProperties DEF TypeInv, BillTypes
<1>3. \A s \in DOMAIN subs : subs[s].usage \in Int /\ subs[s].owner \in Users
  <2>1. \A s \in 1 .. Len(subs) : subs[s] \in Subscription
    BY SubsElements
  <2>2. DOMAIN subs = 1 .. Len(subs)
    BY LenProperties DEF TypeInv, BillTypes
  <2> QED
    BY <2>1, <2>2 DEF Subscription
<1>4. \A r \in Slots : req[r].user \in Users /\ req[r].new \in Row
  BY AtStep DEF Good, Request
<1> QED
  BY <1>1, <1>2, <1>3, <1>4
     DEF TypeOK, TypeInv, BoundInv, ZoneTypes, HistoryTypes

\* The types of the state, of which an account that points at a subscription
\* there is not is the one a save_account in the wrong place would break.
THEOREM NamesTypes == Spec => []TypeOK
  BY NamesTypeCorrect, TypesOK, PTL

------------------------------------------------------------------------------
(* One subscription.                                                         *)

\* What is left after a step does not save an account first.
LEMMA TailSaves ==
    ASSUME NEW t \in Todos, t # <<>>
    PROVE  Tail(t) = <<>> \/ Head(Tail(t)) # "save_account"
<1>1. CASE t \in OwnerTodos
  BY <1>1, Tails DEF OwnerTodos
<1>2. CASE t \in AdminTodos
  BY <1>2, Tails DEF AdminTodos
<1>3. CASE t \in DeleteTodos
  BY <1>3, Tails DEF DeleteTodos
<1>4. CASE t \in OtherTodos
  BY <1>4, Tails DEF OtherTodos
<1> QED
  BY <1>1, <1>2, <1>3, <1>4 DEF Todos

\* A user is not concerned when neither the account nor who is saving changes.
LEMMA OpenFrame ==
    ASSUME OpenInv, NEW u \in Users \ doubled', doubled \subseteq doubled',
           account'[u] = account[u], Open(u)' \subseteq Open(u),
           \A s \in Slots : Saving(req'[s], u) <=> Saving(req[s], u),
           \A s \in Slots : Saving(req[s], u) => req'[s].sub = req[s].sub
    PROVE  OpenAt(u)'
<1>1. OpenAt(u)
  BY DEF OpenInv
<1>2. CASE (\A r \in Slots : ~ Saving(req[r], u)) /\ Open(u) \subseteq {account[u]}
  BY <1>2 DEF OpenAt
<1>3. ASSUME NEW r \in Slots,
             \A s \in Slots : Saving(req[s], u) <=> s = r, Open(u) \subseteq {req[r].sub}
      PROVE  OpenAt(u)'
  BY <1>3 DEF OpenAt
<1> QED
  BY <1>1, <1>2, <1>3 DEF OpenAt

\* Steps of a request that saves no account before or after them.
LEMMA OpenQuiet ==
    ASSUME TypeInv, OpenInv, NEW r \in Slots, UNCHANGED <<account, doubled>>,
           \A u \in Users : Open(u)' \subseteq Open(u),
           \A s \in Slots \ {r} : /\ req'[s].todo = req[s].todo
                                  /\ req'[s].user = req[s].user /\ req'[s].sub = req[s].sub,
           req[r].todo = <<>> \/ Head(req[r].todo) # "save_account",
           req'[r].todo = <<>> \/ Head(req'[r].todo) # "save_account"
    PROVE  OpenInv'
<1>1. ASSUME NEW u \in Users \ doubled' PROVE OpenAt(u)'
  <2>1. \A s \in Slots : Saving(req'[s], u) <=> Saving(req[s], u)
    BY DEF Saving
  <2>2. \A s \in Slots : Saving(req[s], u) => req'[s].sub = req[s].sub
    BY DEF Saving
  <2> QED
    BY <2>1, <2>2, OpenFrame
<1> QED
  BY <1>1 DEF OpenInv

LEMMA OpenSame ==
    ASSUME UNCHANGED subs, NEW u
    PROVE  Open(u)' = Open(u)
  BY DEF Open

\* What a request is after a step that only takes it further.
LEMMA GotoTodo ==
    ASSUME TypeInv, NEW r \in Slots, NEW p, Goto(r, p), p \in Request
    PROVE  /\ req'[r].todo = p.todo
           /\ p.todo # <<>> => req'[r] = p
           /\ \A s \in Slots \ {r} : req'[s] = req[s]
           /\ req' \in [Slots -> Request]
<1>1. Ended(p) \in Request /\ Ended(p).todo = p.todo /\ (p.todo # <<>> => Ended(p) = p)
  BY NothingOK DEF Ended
<1> QED
  BY <1>1 DEF TypeInv, ReqInv, Goto

\* The step that the request was at is done.
LEMMA GoTodo ==
    ASSUME TypeInv, NEW r \in Slots, Go(r), req[r].todo # <<>>
    PROVE  /\ req'[r].todo = Tail(req[r].todo)
           /\ Tail(req[r].todo) # <<>> => req'[r] = [req[r] EXCEPT !.todo = Tail(@)]
           /\ \A s \in Slots \ {r} : req'[s] = req[s]
           /\ req' \in [Slots -> Request]
<1> DEFINE p == [req[r] EXCEPT !.todo = Tail(@)]
<1>1. Good(p, created, row, subs)
  BY AtStep, TailGood
<1>2. p.todo = Tail(req[r].todo)
  BY AtStep DEF Good, Request
<1>3. Goto(r, p)
  BY DEF Go
<1> HIDE DEF p
<1>4. /\ req'[r].todo = p.todo
      /\ p.todo # <<>> => req'[r] = p
      /\ \A s \in Slots \ {r} : req'[s] = req[s]
      /\ req' \in [Slots -> Request]
  BY <1>1, <1>3, GotoTodo DEF Good
<1> QED
  BY <1>2, <1>4 DEF p

LEMMA NothingTodo ==
    ASSUME TypeInv, NEW r \in Slots, Goto(r, Nothing)
    PROVE  /\ req'[r] = Nothing /\ req'[r].todo = <<>>
           /\ \A s \in Slots \ {r} : req'[s] = req[s]
           /\ req' \in [Slots -> Request]
  BY NothingOK DEF TypeInv, ReqInv, Goto, Ended

\* A request of u begins in a slot that is free.
LEMMA BeginTodo ==
    ASSUME TypeInv, NEW r \in Slots, NEW u, NEW todo, NEW zone, NEW new, NEW extra,
           Begin(r, u, todo, zone, new, extra)
    PROVE  /\ req[r] = Nothing /\ req[r].todo = <<>>
           /\ req'[r] = Begun(u, todo, zone, new, extra)
           /\ req'[r].todo = todo /\ req'[r].user = u
           /\ \A s \in Slots \ {r} : req'[s] = req[s]
           /\ UNCHANGED <<zoneVars, billVars, doubled, unchecked>>
<1>1. req' = [req EXCEPT ![r] = Begun(u, todo, zone, new, extra)] /\ req[r] = Nothing
  BY DEF Begin, Begun
<1>2. Begun(u, todo, zone, new, extra).todo = todo /\ Begun(u, todo, zone, new, extra).user = u
  BY DEF Begun, Nothing
<1>3. UNCHANGED <<zoneVars, billVars, doubled, unchecked>>
  BY DEF Begin
<1> QED
  BY <1>1, <1>2, <1>3, NothingOK DEF TypeInv, ReqInv

\* All that can begin.
Begins ==
    \/ \E r \in Requests, u \in Users :
          \/ \E c \in Creates : create_zone(r, u, c[1], c[2])
          \/ \E c \in AdminCreates : admin_create(r, u, c[1], c[2])
          \/ \E n \in Registrable : create_domains_zone(r, u, n)
    \/ \E r \in Requests, i \in Ids : delete_zone(r, i) \/ admin_delete(r, i)
    \/ \E r \in Requests, u \in Users : setup_subscription(r, u)
    \/ \E u \in Users : validate_charged(u)

LEMMA OpenBegin ==
    ASSUME TypeInv, OpenInv, NEW r \in Slots, NEW u, NEW todo, NEW zone, NEW new, NEW extra,
           Begin(r, u, todo, zone, new, extra), Head(todo) # "save_account"
    PROVE  OpenInv'
<1>1. /\ req[r].todo = <<>> /\ req'[r].todo = todo
      /\ \A s \in Slots \ {r} : req'[s] = req[s]
      /\ UNCHANGED <<account, subs, doubled>>
  BY BeginTodo DEF billVars
<1>2. \A v \in Users : Open(v)' \subseteq Open(v)
  BY <1>1, OpenSame
<1> QED
  BY <1>1, <1>2, OpenQuiet

LEMMA OpenBegins ==
    ASSUME TypeInv, OpenInv, Begins
    PROVE  OpenInv'
<1>0. \A r \in Requests : r \in Slots
  BY BoundsAssumption DEF Requests, Slots
<1>1. Cron \in Slots
  BY BoundsAssumption DEF Cron, Slots
<1>2. ASSUME NEW r \in Requests, NEW u \in Users, NEW c \in Creates, create_zone(r, u, c[1], c[2])
      PROVE  OpenInv'
  BY <1>0, <1>2, OpenBegin, FirstSteps DEF create_zone
<1>3. ASSUME NEW r \in Requests, NEW u \in Users, NEW c \in AdminCreates,
             admin_create(r, u, c[1], c[2])
      PROVE  OpenInv'
  BY <1>0, <1>3, OpenBegin, FirstSteps DEF admin_create
<1>4. ASSUME NEW r \in Requests, NEW u \in Users, NEW n \in Registrable, create_domains_zone(r, u, n)
      PROVE  OpenInv'
  BY <1>0, <1>4, OpenBegin, FirstSteps DEF create_domains_zone
<1>5. ASSUME NEW r \in Requests, NEW i \in Ids, delete_zone(r, i) \/ admin_delete(r, i)
      PROVE  OpenInv'
  BY <1>0, <1>5, OpenBegin, FirstSteps DEF delete_zone, admin_delete
<1>6. ASSUME NEW r \in Requests, NEW u \in Users, setup_subscription(r, u)
      PROVE  OpenInv'
  BY <1>0, <1>6, OpenBegin, FirstSteps DEF setup_subscription
<1>7. ASSUME NEW u \in Users, validate_charged(u)
      PROVE  OpenInv'
  BY <1>1, <1>7, OpenBegin, FirstSteps DEF validate_charged
<1> QED
  BY <1>2, <1>3, <1>4, <1>5, <1>6, <1>7 DEF Begins

\* Steps that leave account and subscriptions alone.
Plain(r) == \/ check(r) \/ existing(r) \/ count(r) \/ report_refused(r) \/ insert(r) \/ delete(r)
            \/ snapshot(r) \/ domains(r) \/ save(r)

\* What may be left after a plain step.
PlainNext(t, t2) == t2 \in {Tail(t), <<>>, <<"save">>, <<"save", "count", "report_anyway">>}

\* What a request is about stays.
KeepsData(q, p) ==
    p.user = q.user /\ p.zone = q.zone /\ p.new = q.new /\ p.extra = q.extra /\ p.stale = q.stale

\* The request of a plain step, before and after.
LEMMA PlainTodo ==
    ASSUME TypeInv, NEW r \in Slots, Plain(r)
    PROVE  /\ req[r].todo # <<>> /\ req[r].todo \in Todos /\ Head(req[r].todo) # "save_account"
           /\ PlainNext(req[r].todo, req'[r].todo)
           /\ req'[r].todo # <<>> => KeepsData(req[r], req'[r])
           /\ \A s \in Slots \ {r} : req'[s] \in {req[s], [req[s] EXCEPT !.stale = TRUE]}
           /\ UNCHANGED <<account, subs, doubled>>
<1>0. \A t, t2 : t2 = Tail(t) \/ t2 = <<>> \/ t2 = <<"save">> \/ t2 = <<"save", "count", "report_anyway">>
                => PlainNext(t, t2)
  BY DEF PlainNext
<1>1. /\ req[r].todo # <<>> /\ req[r].todo \in Todos /\ Head(req[r].todo) # "save_account"
  <2>1. req[r].todo # <<>> /\ Head(req[r].todo) # "save_account"
    BY DEF Plain, check, existing, count, report_refused, Reports, insert, delete,
           snapshot, domains, save, At
  <2> QED
    BY <2>1, AtStep
<1>2. UNCHANGED <<account, subs, doubled>>
  BY DEF Plain, check, existing, count, report_refused, insert, delete,
         snapshot, domains, save, billVars
<1>3. req[r] \in Request /\ Tail(req[r].todo) \in Todos
  BY <1>1, TailKind DEF TypeInv, ReqInv
<1>4. CASE check(r) \/ report_refused(r) \/ delete(r)
  <2>1. Go(r) \/ Goto(r, Nothing)
    BY <1>4 DEF check, report_refused, delete
  <2>2. Go(r) /\ req'[r].todo # <<>> => KeepsData(req[r], req'[r])
    BY <1>1, <1>3, GoTodo DEF KeepsData, Request
  <2> QED
    BY <1>0, <1>1, <1>2, <2>1, <2>2, GoTodo, NothingTodo
<1>5. CASE insert(r)
  <2>1. /\ req'[r] = Ended([req[r] EXCEPT !.todo = Tail(@)])
        /\ \A s \in Slots \ {r} : req'[s] \in {req[s], [req[s] EXCEPT !.stale = TRUE]}
    BY <1>5, InsertEffect
  <2>2. req'[r].todo = Tail(req[r].todo)
    BY <1>3, <2>1, NothingOK DEF Ended, Request
  <2>3. req'[r].todo # <<>> => KeepsData(req[r], req'[r])
    BY <1>3, <2>1, NothingOK DEF Ended, Request, KeepsData
  <2> QED
    BY <1>0, <1>1, <1>2, <2>1, <2>2, <2>3
<1>6. ASSUME NEW p, Goto(r, p)
      PROVE  /\ req'[r].todo = p.todo /\ \A s \in Slots \ {r} : req'[s] = req[s]
             /\ p.todo # <<>> => req'[r] = p
  <2>1. /\ req' = [req EXCEPT ![r] = Ended(p)] /\ Ended(p).todo = p.todo
        /\ p.todo # <<>> => Ended(p) = p
    BY <1>6, NothingOK DEF Goto, Ended
  <2> QED
    BY <2>1 DEF TypeInv, ReqInv
<1>12. Go(r) => /\ PlainNext(req[r].todo, req'[r].todo)
                /\ req'[r].todo # <<>> => KeepsData(req[r], req'[r])
                /\ \A s \in Slots \ {r} : req'[s] = req[s]
  BY <1>0, <1>1, <1>3, GoTodo DEF KeepsData, Request
<1>7. CASE existing(r)
  <2>1. CASE Go(r)
    BY <1>1, <1>2, <2>1, <1>12
  <2>2. ASSUME NEW i, Goto(r, [req[r] EXCEPT !.todo = <<"save">>,
                                             !.snapshot = {[id |-> i, row |-> row[i]]}])
        PROVE  /\ req'[r].todo = <<"save">> /\ \A s \in Slots \ {r} : req'[s] = req[s]
               /\ KeepsData(req[r], req'[r])
    <3> DEFINE p == [req[r] EXCEPT !.todo = <<"save">>, !.snapshot = {[id |-> i, row |-> row[i]]}]
    <3>1. p.todo = <<"save">> /\ KeepsData(req[r], p) /\ <<"save">> # <<>>
      BY <1>3 DEF Request, KeepsData
    <3> HIDE DEF p
    <3> QED
      BY <3>1, <2>2, <1>6 DEF p
  <2> QED
    BY <1>0, <1>1, <1>2, <1>7, <2>1, <2>2 DEF existing
<1>8. CASE count(r)
  <2> DEFINE p == [req[r] EXCEPT !.todo = Tail(@),
                              !.sub = IF At(r, "count") THEN account[req[r].user] ELSE @,
                              !.count = Charged(req[r].user) + req[r].extra]
  <2>1. Goto(r, p) /\ p.todo = Tail(req[r].todo) /\ KeepsData(req[r], p)
    BY <1>3, <1>8 DEF count, Request, KeepsData
  <2> HIDE DEF p
  <2> QED
    BY <2>1, <1>0, <1>1, <1>2, <1>6
<1>9. CASE snapshot(r)
  <2> DEFINE p == [req[r] EXCEPT !.todo = Tail(@), !.snapshot =
          {[id |-> i, row |-> row[i]] :
              i \in {j \in live : row[j].owner = req[r].user /\ row[j].table = "forward"}}]
  <2>1. Goto(r, p) /\ p.todo = Tail(req[r].todo) /\ KeepsData(req[r], p)
    BY <1>3, <1>9 DEF snapshot, Request, KeepsData
  <2> HIDE DEF p
  <2> QED
    BY <2>1, <1>0, <1>1, <1>2, <1>6
<1>10. CASE domains(r)
  <2> DEFINE changed == {z \in req[r].snapshot : z.row.charged # Wanted(req[r].user, z)}
             p == [req[r] EXCEPT !.todo = AfterDomains(req[r].user), !.snapshot =
             {[z EXCEPT !.row.charged = ~ @] : z \in changed}]
  <2>1. Goto(r, p) /\ p.todo = AfterDomains(req[r].user) /\ KeepsData(req[r], p)
    BY <1>3, <1>10 DEF domains, Request, KeepsData
  <2>2. AfterDomains(req[r].user) \in {<<"save">>, <<"save", "count", "report_anyway">>}
    BY DEF AfterDomains
  <2> HIDE DEF p
  <2> QED
    BY <2>1, <2>2, <1>0, <1>1, <1>2, <1>6
<1>11. CASE save(r)
  <2>1. CASE Go(r)
    BY <1>1, <1>2, <2>1, <1>12
  <2>2. ASSUME NEW z, Goto(r, [req[r] EXCEPT !.snapshot = @ \ {z}])
        PROVE  /\ req'[r].todo = req[r].todo /\ \A s \in Slots \ {r} : req'[s] = req[s]
               /\ KeepsData(req[r], req'[r])
    <3> DEFINE p == [req[r] EXCEPT !.snapshot = @ \ {z}]
    <3>1. p.todo = req[r].todo /\ KeepsData(req[r], p) /\ req[r].todo # <<>>
      BY <1>1, <1>3 DEF Request, KeepsData
    <3>2. req[r].todo \in {<<"save">>, <<"save", "count", "report_anyway">>}
      BY <1>11, AtStep, Heads DEF save
    <3> HIDE DEF p
    <3> QED
      BY <3>1, <2>2, <1>6 DEF p
  <2>3. req[r].todo \in {<<"save">>, <<"save", "count", "report_anyway">>}
    BY <1>11, AtStep, Heads DEF save
  <2> QED
    BY <1>0, <1>1, <1>2, <1>11, <2>1, <2>2, <2>3 DEF save
<1> QED
  BY <1>4, <1>5, <1>7, <1>8, <1>9, <1>10, <1>11 DEF Plain

LEMMA OpenPlain ==
    ASSUME TypeInv, OpenInv, NEW r \in Slots, Plain(r)
    PROVE  OpenInv'
<1>1. /\ req[r].todo # <<>> /\ req[r].todo \in Todos /\ Head(req[r].todo) # "save_account"
      /\ PlainNext(req[r].todo, req'[r].todo)
      /\ \A s \in Slots \ {r} : req'[s] \in {req[s], [req[s] EXCEPT !.stale = TRUE]}
      /\ UNCHANGED <<account, subs, doubled>>
  BY PlainTodo
<1>2. req'[r].todo = <<>> \/ Head(req'[r].todo) # "save_account"
  BY <1>1, TailSaves, FirstSteps DEF PlainNext
<1>3. \A s \in Slots \ {r} : /\ req'[s].todo = req[s].todo
                             /\ req'[s].user = req[s].user /\ req'[s].sub = req[s].sub
  BY <1>1, StaleSame DEF TypeInv, ReqInv
<1>4. \A u \in Users : Open(u)' \subseteq Open(u)
  BY <1>1, OpenSame
<1> QED
  BY <1>1, <1>2, <1>3, <1>4, OpenQuiet

\* The step before and after it, of the steps that report.
LEMMA ReportTodo ==
    ASSUME TypeInv, NEW r \in Slots, report_usage(r)
    PROVE  /\ req[r].todo # <<>> /\ req[r].todo \in Todos
           /\ Head(req[r].todo) \in {"report", "report_anyway"}
           /\ req'[r].todo = Tail(req[r].todo)
           /\ \A s \in Slots \ {r} : req'[s] = req[s]
           /\ req[r].sub \in 1 .. Len(subs) /\ subs[req[r].sub].owner = req[r].user
           /\ subs' \in Seq(Subscription) /\ Len(subs') = Len(subs)
           /\ subs'[req[r].sub].usage = req[r].count
           /\ \A k \in 1 .. Len(subs) : /\ subs'[k].owner = subs[k].owner
                                        /\ subs'[k].open = subs[k].open
                                        /\ k # req[r].sub => subs'[k] = subs[k]
           /\ UNCHANGED <<zoneVars, account, known, access, events, doubled, unchecked>>
<1> DEFINE s == req[r].sub
           x == [subs[s] EXCEPT !.usage = req[r].count]
<1>1. /\ req[r].todo # <<>> /\ req[r].todo \in Todos /\ Good(req[r], created, row, subs)
      /\ Head(req[r].todo) \in {"report", "report_anyway"}
  BY AtStep DEF report_usage, Reports, At
<1>2. s \in 1 .. Len(subs) /\ req[r].count \in Int /\ subs[s].owner = req[r].user
  BY <1>1 DEF report_usage, Good, LoadedOK, Request
<1>3. /\ x \in Subscription /\ x.owner = subs[s].owner /\ x.usage = req[r].count
      /\ x.open = subs[s].open /\ subs' = [subs EXCEPT ![s] = x]
  BY <1>2, SubsElements DEF report_usage
<1>4. Go(r) /\ UNCHANGED <<zoneVars, account, known, access, events, doubled, unchecked>>
  BY DEF report_usage
<1> HIDE DEF x, s
<1>5. /\ subs' \in Seq(Subscription) /\ Len(subs') = Len(subs)
      /\ subs'[s] = x
      /\ \A k \in 1 .. Len(subs) : k # s => subs'[k] = subs[k]
      /\ \A k \in 1 .. Len(subs) : subs'[k].owner = subs[k].owner
  BY <1>2, <1>3, SubsChange
<1> QED
  BY <1>1, <1>2, <1>3, <1>4, <1>5, GoTodo DEF s

LEMMA OpenReport ==
    ASSUME TypeInv, OpenInv, NEW r \in Slots, report_usage(r)
    PROVE  OpenInv'
<1>1. /\ req[r].todo # <<>> /\ req[r].todo \in Todos
      /\ Head(req[r].todo) \in {"report", "report_anyway"}
      /\ req'[r].todo = Tail(req[r].todo)
      /\ \A s \in Slots \ {r} : req'[s] = req[s]
      /\ subs' \in Seq(Subscription) /\ Len(subs') = Len(subs)
      /\ \A k \in 1 .. Len(subs) : subs'[k].owner = subs[k].owner /\ subs'[k].open = subs[k].open
      /\ UNCHANGED <<account, doubled>>
  BY ReportTodo
<1>2. DOMAIN subs = 1 .. Len(subs) /\ DOMAIN subs' = 1 .. Len(subs')
  BY <1>1, LenProperties DEF TypeInv, BillTypes
<1>3. \A u \in Users : Open(u)' \subseteq Open(u)
  BY <1>1, <1>2 DEF Open
<1>4. req'[r].todo = <<>> \/ Head(req'[r].todo) # "save_account"
  BY <1>1, TailSaves
<1> QED
  BY <1>1, <1>3, <1>4, OpenQuiet

\* The step of subscribe_user.
LEMMA SubscribeTodo ==
    ASSUME TypeInv, NEW r \in Slots, subscribe_user(r)
    PROVE  /\ req[r].todo # <<>> /\ req[r].todo \in Todos /\ req[r].sub = 0
           /\ Head(req[r].todo) \in {"report", "report_anyway"}
           /\ req' = [req EXCEPT ![r] = [req[r] EXCEPT !.todo = [req[r].todo EXCEPT ![1] = "save_account"],
                                                       !.sub = Len(subs) + 1]]
           /\ req'[r].todo = [req[r].todo EXCEPT ![1] = "save_account"]
           /\ req'[r].todo # <<>> /\ Head(req'[r].todo) = "save_account"
           /\ req'[r].user = req[r].user /\ req'[r].sub = Len(subs) + 1 /\ req[r].user \in Users
           /\ KeepsData(req[r], req'[r])
           /\ \A s \in Slots \ {r} : req'[s] = req[s]
           /\ Len(subs) \in Nat /\ subs' \in Seq(Subscription) /\ Len(subs') = Len(subs) + 1
           /\ subs'[Len(subs) + 1] = [owner |-> req[r].user, usage |-> req[r].count, open |-> TRUE]
           /\ \A k \in 1 .. Len(subs) : subs'[k] = subs[k]
           /\ UNCHANGED <<zoneVars, account, known, access, events, unchecked>>
<1> DEFINE u == req[r].user
           x == [owner |-> u, usage |-> req[r].count, open |-> TRUE]
           t == [req[r].todo EXCEPT ![1] = "save_account"]
           p == [req[r] EXCEPT !.todo = t, !.sub = Len(subs')]
<1>1. /\ req[r].todo # <<>> /\ Good(req[r], created, row, subs) /\ req[r].todo \in Todos
      /\ Head(req[r].todo) \in {"report", "report_anyway"}
  BY AtStep DEF subscribe_user, Reports, At
<1>2. u \in Users /\ x \in Subscription /\ req[r] \in Request
  BY <1>1 DEF Good, Request, Subscription
<1>3. /\ subs \in Seq(Subscription) /\ subs' = Append(subs, x) /\ req[r].sub = 0
      /\ UNCHANGED <<zoneVars, account, known, access, events, unchecked>>
  BY DEF subscribe_user, TypeInv, BillTypes
<1> HIDE DEF x
<1>4. /\ subs' \in Seq(Subscription) /\ Len(subs') = Len(subs) + 1 /\ Len(subs) \in Nat
      /\ subs'[Len(subs) + 1] = x
      /\ \A k \in 1 .. Len(subs) : subs'[k] = subs[k]
  BY <1>2, <1>3, AppendProperties, LenProperties
<1>5. t \in Todos /\ t # <<>> /\ Head(t) = "save_account"
  <2>1. \/ req[r].todo = <<"report", "insert">> \/ req[r].todo = <<"report", "delete">>
        \/ req[r].todo = <<"report">> \/ req[r].todo = <<"report_anyway", "delete">>
        \/ req[r].todo = <<"report_anyway">>
    BY <1>1, Heads
  <2>2. \/ t = <<"save_account", "insert">> \/ t = <<"save_account", "delete">>
        \/ t = <<"save_account">>
    BY <2>1, SavesFirst
  <2>3. t # <<>> /\ Head(t) = "save_account"
    BY <2>2, FirstSteps
  <2> QED
    BY <2>3, <1>1, TailKind
<1> HIDE DEF t
<1>6. /\ p \in Request /\ p.todo = t /\ p.user = u /\ p.sub = Len(subs')
      /\ KeepsData(req[r], p)
  <2>1. Len(subs') \in Nat
    BY <1>4
  <2> QED
    BY <2>1, <1>2, <1>5 DEF Request, KeepsData
<1>7. Goto(r, p)
  <2>1. p = [req[r] EXCEPT !.todo[1] = "save_account", !.sub = Len(subs')]
    BY <1>2 DEF Request, t
  <2> QED
    BY <2>1 DEF subscribe_user
<1> HIDE DEF p
<1>8. req'[r] = p /\ \A s \in Slots \ {r} : req'[s] = req[s]
  BY <1>5, <1>6, <1>7, GotoTodo
<1>9. req' = [req EXCEPT ![r] = p]
  BY <1>5, <1>6, <1>7 DEF Goto, Ended
<1> QED
  BY <1>1, <1>2, <1>3, <1>4, <1>5, <1>6, <1>8, <1>9 DEF x, t, p

LEMMA OpenSubscribe ==
    ASSUME TypeInv, OpenInv, NEW r \in Slots, subscribe_user(r)
    PROVE  OpenInv'
<1> DEFINE u == req[r].user
<1>1. /\ req[r].todo # <<>> /\ Head(req[r].todo) \in {"report", "report_anyway"}
      /\ req'[r].todo # <<>> /\ Head(req'[r].todo) = "save_account"
      /\ req'[r].user = u /\ req'[r].sub = Len(subs) + 1
      /\ \A s \in Slots \ {r} : req'[s] = req[s]
      /\ Len(subs) \in Nat /\ subs' \in Seq(Subscription) /\ Len(subs') = Len(subs) + 1
      /\ subs'[Len(subs) + 1].owner = u
      /\ \A k \in 1 .. Len(subs) : subs'[k] = subs[k]
      /\ account' = account
  <2>1. subs'[Len(subs) + 1] = [owner |-> u, usage |-> req[r].count, open |-> TRUE]
    BY SubscribeTodo
  <2>2. subs'[Len(subs) + 1].owner = u
    BY <2>1
  <2>3. /\ req[r].todo # <<>> /\ Head(req[r].todo) \in {"report", "report_anyway"}
        /\ req'[r].todo # <<>> /\ Head(req'[r].todo) = "save_account"
        /\ req'[r].user = u /\ req'[r].sub = Len(subs) + 1
        /\ \A s \in Slots \ {r} : req'[s] = req[s]
    BY SubscribeTodo
  <2>4. /\ Len(subs) \in Nat /\ subs' \in Seq(Subscription) /\ Len(subs') = Len(subs) + 1
        /\ \A k \in 1 .. Len(subs) : subs'[k] = subs[k]
        /\ account' = account
    BY SubscribeTodo
  <2> QED
    BY <2>2, <2>3, <2>4
<1>2. doubled' = IF account[u] # 0 \/ Subscribing(u) THEN doubled \cup {u} ELSE doubled
  BY DEF subscribe_user
<1>3. DOMAIN subs = 1 .. Len(subs) /\ DOMAIN subs' = 1 .. Len(subs) + 1
  BY <1>1, LenProperties DEF TypeInv, BillTypes
<1>4. \A v : Open(v)' \subseteq Open(v) \cup {Len(subs) + 1}
  BY <1>1, <1>3 DEF Open
<1>5. ASSUME NEW v \in Users \ doubled', v # u
      PROVE  OpenAt(v)'
  <2>1. Open(v)' \subseteq Open(v)
    BY <1>1, <1>3, <1>5 DEF Open
  <2>2. \A s \in Slots : (Saving(req'[s], v) <=> Saving(req[s], v)) /\ (Saving(req[s], v) => s # r)
    BY <1>1, <1>5 DEF Saving
  <2> QED
    BY <1>1, <1>2, <2>1, <2>2, OpenFrame
<1>6. ASSUME NEW v \in Users \ doubled', v = u
      PROVE  OpenAt(v)'
  <2>1. account[v] = 0 /\ ~ Subscribing(v) /\ v \in Users \ doubled
    BY <1>2, <1>6
  <2>2. \A s \in Slots : ~ Saving(req[s], v)
    BY <2>1 DEF Subscribing, Saving, At
  <2>3. Open(v) \subseteq {0}
    BY <2>1, <2>2 DEF OpenInv, OpenAt
  <2>4. Open(v) = {}
    BY <2>3, <1>3 DEF Open
  <2>5. Open(v)' \subseteq {req'[r].sub}
    BY <1>1, <1>4, <2>4
  <2>6. \A s \in Slots : Saving(req'[s], v) <=> s = r
    BY <1>1, <1>6, <2>2 DEF Saving
  <2> QED
    BY <1>1, <2>1, <2>5, <2>6 DEF OpenAt
<1> QED
  BY <1>5, <1>6 DEF OpenInv

LEMMA OpenSave ==
    ASSUME TypeInv, OpenInv, NEW r \in Slots, save_account(r)
    PROVE  OpenInv'
<1> DEFINE u == req[r].user
<1>1. /\ req[r].todo # <<>> /\ Head(req[r].todo) = "save_account" /\ Saving(req[r], u)
      /\ UNCHANGED <<subs, doubled>> /\ Go(r) /\ account' = [account EXCEPT ![u] = req[r].sub]
  BY DEF save_account, At, Saved, Saving
<1>2. req[r].todo \in Todos /\ u \in Users /\ account' = [account EXCEPT ![u] = req[r].sub]
  BY <1>1, AtStep
<1>3. /\ req'[r].todo = Tail(req[r].todo)
      /\ \A s \in Slots \ {r} : req'[s] = req[s]
  BY <1>1, GoTodo
<1>4. \A v : ~ Saving(req'[r], v)
  BY <1>1, <1>2, <1>3, TailSaves DEF Saving
<1>5. ASSUME NEW v \in Users \ doubled', v # u
      PROVE  OpenAt(v)'
  <2>1. Open(v)' \subseteq Open(v) /\ account'[v] = account[v]
    BY <1>1, <1>5, OpenSame DEF TypeInv, BillTypes
  <2>2. \A s \in Slots : (Saving(req'[s], v) <=> Saving(req[s], v)) /\ (Saving(req[s], v) => s # r)
    BY <1>3, <1>4, <1>5 DEF Saving
  <2> QED
    BY <1>1, <1>3, <2>1, <2>2, OpenFrame
<1>6. ASSUME NEW v \in Users \ doubled', v = u
      PROVE  OpenAt(v)'
  <2>1. (\A s \in Slots : Saving(req[s], v) <=> s = r) /\ Open(v) \subseteq {req[r].sub}
    BY <1>1, <1>6 DEF OpenInv, OpenAt
  <2>2. \A s \in Slots : ~ Saving(req'[s], v)
    BY <2>1, <1>3, <1>4, <1>6
  <2>3. Open(v)' \subseteq {account'[v]}
    <3>1. Open(v)' = Open(v)
      BY <1>1, OpenSame
    <3>2. account'[v] = req[r].sub
      BY <1>2, <1>6 DEF TypeInv, BillTypes
    <3> QED
      BY <2>1, <3>1, <3>2
  <2> QED
    BY <2>2, <2>3 DEF OpenAt
<1> QED
  BY <1>5, <1>6 DEF OpenInv

LEMMA OpenDies ==
    ASSUME TypeInv, OpenInv, NEW r \in Slots, dies(r)
    PROVE  OpenInv'
<1>1. /\ req'[r].todo = <<>> /\ \A s \in Slots \ {r} : req'[s] = req[s]
      /\ UNCHANGED <<account, subs>>
  BY NothingTodo DEF dies, billVars
<1>2. doubled' = IF At(r, "save_account") THEN doubled \cup {req[r].user} ELSE doubled
  BY DEF dies
<1>3. ASSUME NEW v \in Users \ doubled'
      PROVE  OpenAt(v)'
  <2>1. ~ Saving(req[r], v)
    BY <1>2, <1>3 DEF Saving, At
  <2>2. \A s \in Slots : (Saving(req'[s], v) <=> Saving(req[s], v)) /\ (Saving(req[s], v) => s # r)
    BY <1>1, <2>1 DEF Saving
  <2>3. Open(v)' \subseteq Open(v)
    BY <1>1, OpenSame
  <2> QED
    BY <1>1, <1>2, <2>2, <2>3, OpenFrame
<1> QED
  BY <1>3 DEF OpenInv

LEMMA OpenOutside ==
    ASSUME TypeInv, OpenInv
    PROVE  /\ \A n \in Names : domain_changes(n) => OpenInv'
           /\ \A u \in Users : sub_cancelled(u) \/ user_saved(u) => OpenInv'
           /\ \A u \in Users : \A id \in loaded[u] : create_user_profile(u, id) => OpenInv'
<1>1. ASSUME NEW n \in Names, domain_changes(n)
      PROVE  OpenInv'
  BY <1>1 DEF domain_changes, billVars, OpenInv, OpenAt, Open
<1>2. ASSUME NEW u \in Users, sub_cancelled(u)
      PROVE  OpenInv'
  <2> DEFINE a == account[u]
             x == [subs[a] EXCEPT !.open = FALSE]
  <2>1. /\ a \in 1 .. Len(subs) /\ subs' = [subs EXCEPT ![a] = x]
        /\ account' = [account EXCEPT ![u] = 0] /\ req' = req /\ doubled' = doubled
        /\ account \in [Users -> Nat] /\ subs \in Seq(Subscription)
    BY <1>2 DEF sub_cancelled, TypeInv, BillTypes
  <2>2. x \in Subscription /\ x.owner = subs[a].owner /\ ~ x.open /\ a # 0
    BY <2>1, SubsElements
  <2> HIDE DEF x
  <2>3. /\ subs' \in Seq(Subscription) /\ Len(subs') = Len(subs) /\ subs'[a] = x
        /\ \A k \in 1 .. Len(subs) : k # a => subs'[k] = subs[k]
    BY <2>1, <2>2, SubsChange
  <2>4. DOMAIN subs = 1 .. Len(subs) /\ DOMAIN subs' = 1 .. Len(subs)
    BY <2>1, <2>3, LenProperties
  <2>5. \A v : Open(v)' \subseteq Open(v) \ {a}
    BY <2>2, <2>3, <2>4 DEF Open
  <2>6. ASSUME NEW v \in Users \ doubled', v # u
        PROVE  OpenAt(v)'
    <3>1. Open(v)' \subseteq Open(v) /\ account'[v] = account[v]
      BY <2>1, <2>5, <2>6
    <3> QED
      BY <2>1, <3>1, OpenFrame
  <2>7. ASSUME u \in Users \ doubled'
        PROVE  OpenAt(u)'
    <3>1. OpenAt(u) /\ Open(u)' \subseteq Open(u)
      BY <2>1, <2>5, <2>7 DEF OpenInv
    <3>2. CASE (\A s \in Slots : ~ Saving(req[s], u)) /\ Open(u) \subseteq {a}
      BY <2>1, <2>5, <3>2 DEF OpenAt
    <3>3. ASSUME NEW r \in Slots,
                 \A s \in Slots : Saving(req[s], u) <=> s = r, Open(u) \subseteq {req[r].sub}
          PROVE  OpenAt(u)'
      BY <2>1, <3>1, <3>3 DEF OpenAt
    <3> QED
      BY <3>1, <3>2, <3>3 DEF OpenAt
  <2> QED
    BY <2>6, <2>7 DEF OpenInv
<1>3. ASSUME NEW u \in Users, user_saved(u)
      PROVE  OpenInv'
  BY <1>3 DEF user_saved, OpenInv, OpenAt, Open
<1>4. ASSUME NEW u \in Users, NEW id \in loaded[u], create_user_profile(u, id)
      PROVE  OpenInv'
  <2>1. /\ account' = [account EXCEPT ![u] = id] /\ UNCHANGED <<req, subs>>
        /\ doubled' = IF account[u] \notin {0, id} /\ subs[account[u]].open
                      THEN doubled \cup {u} ELSE doubled
        /\ account \in [Users -> Nat] /\ subs \in Seq(Subscription)
    BY <1>4 DEF create_user_profile, TypeInv, BillTypes
  <2>2. \A v : Open(v)' = Open(v)
    BY <2>1, OpenSame
  <2>3. ASSUME NEW v \in Users \ doubled', v # u
        PROVE  OpenAt(v)'
    BY <2>1, <2>2, <2>3, OpenFrame
  <2>4. ASSUME u \in Users \ doubled'
        PROVE  OpenAt(u)'
    <3>1. OpenAt(u)
      BY <2>1, <2>4 DEF OpenInv
    <3>2. CASE (\A s \in Slots : ~ Saving(req[s], u)) /\ Open(u) \subseteq {account[u]}
      <4>1. account'[u] = id
        BY <2>1
      <4>2. 0 \notin Open(u)
        BY <2>1, LenProperties DEF Open
      <4>3. account[u] \notin {0, id} => ~ subs[account[u]].open
        BY <2>1, <2>4
      <4>4. Open(u) \subseteq {id}
        BY <3>2, <4>2, <4>3 DEF Open
      <4> QED
        BY <2>1, <2>2, <3>2, <4>1, <4>4 DEF OpenAt
    <3>3. ASSUME NEW r \in Slots,
                 \A s \in Slots : Saving(req[s], u) <=> s = r, Open(u) \subseteq {req[r].sub}
          PROVE  OpenAt(u)'
      BY <2>1, <2>2, <3>3 DEF OpenAt
    <3> QED
      BY <3>1, <3>2, <3>3 DEF OpenAt
  <2> QED
    BY <2>3, <2>4 DEF OpenInv
<1> QED
  BY <1>1, <1>2, <1>3, <1>4

LEMMA OpenInit ==
    ASSUME Init
    PROVE  OpenInv
<1>1. \A r \in Slots, u \in Users : ~ Saving(req[r], u)
  BY NothingOK DEF Init, Saving
<1>2. ASSUME NEW u \in Users PROVE Open(u) \subseteq {account[u]}
  <2>1. CASE subs = <<>>
    BY <2>1 DEF Open
  <2>2. ASSUME NEW v \in Users, NEW n, subs = <<[owner |-> v, usage |-> n, open |-> TRUE]>>,
               account = [w \in Users |-> IF w = v THEN 1 ELSE 0]
        PROVE  Open(u) \subseteq {account[u]}
    BY <2>2 DEF Open
  <2> QED
    BY <2>1, <2>2 DEF Init
<1> QED
  BY <1>1, <1>2 DEF OpenInv, OpenAt

LEMMA NextCases ==
    ASSUME [Next]_vars
    PROVE  \/ Begins
           \/ \E r \in Slots : Plain(r)
           \/ \E r \in Slots : report_usage(r)
           \/ \E r \in Slots : subscribe_user(r)
           \/ \E r \in Slots : save_account(r)
           \/ \E r \in Slots : dies(r)
           \/ \E n \in Names : domain_changes(n)
           \/ \E u \in Users : sub_cancelled(u) \/ user_saved(u)
           \/ \E u \in Users : \E id \in loaded[u] : create_user_profile(u, id)
           \/ UNCHANGED vars
<1>1. Next => \/ Begins
              \/ \E u \in Users : sub_cancelled(u) \/ user_saved(u)
              \/ \E u \in Users : \E id \in loaded[u] : create_user_profile(u, id)
              \/ \E n \in Names : domain_changes(n)
              \/ \E r \in Slots : Step(r) \/ report_refused(r) \/ dies(r)
  BY DEF Next, Begins
<1>2. \A r \in Slots : Step(r) => Plain(r) \/ report_usage(r) \/ subscribe_user(r) \/ save_account(r)
  BY DEF Step, Plain
<1>3. \A r \in Slots : report_refused(r) => Plain(r)
  BY DEF Plain
<1> QED
  BY <1>1, <1>2, <1>3

LEMMA OpenNext == TypeInv /\ OpenInv /\ [Next]_vars => OpenInv'
<1> SUFFICES ASSUME TypeInv, OpenInv, [Next]_vars PROVE OpenInv'
  OBVIOUS
<1>1. CASE UNCHANGED vars
  BY <1>1 DEF vars, billVars, OpenInv, OpenAt, Open
<1> QED
  BY <1>1, NextCases, OpenBegins, OpenPlain, OpenReport, OpenSubscribe, OpenSave, OpenDies, OpenOutside

\* The open subscription of a user is the one the account has, or the one a
\* single request is about to save, unless log_usage subscribed a user who had
\* one on a stale account, a request died before it saved its own, or a login
\* saved the account as it was before it had the one it has.
THEOREM SubscriptionIsSaved == Spec => []OpenInv
<1>1. Init => OpenInv
  BY OpenInit
<1> QED
  BY <1>1, OpenNext, NamesTypeCorrect, PTL DEF Spec

LEMMA OpenOne == OpenInv => OneSubscription
<1> SUFFICES ASSUME OpenInv, NEW u \in Users \ doubled
             PROVE  Cardinality(Open(u)) <= 1
  BY DEF OneSubscription, Open
<1>1. PICK x : Open(u) \subseteq {x}
  BY DEF OpenInv, OpenAt
<1>2. Open(u) = {} \/ Open(u) = {x}
  BY <1>1
<1>3. Cardinality({}) = 0 /\ Cardinality({x}) = 1
  BY FS_EmptySet, FS_Singleton
<1> QED
  BY <1>2, <1>3

\* No user has two open subscriptions, but for those three cases, which
\* OneSubscription names: log_usage, subscribe_user, the saves of the account by
\* requests and by create_user_profile, and cancellations in any order.
THEOREM UsersSubscribeOnce == Spec => []OneSubscription
  BY SubscriptionIsSaved, OpenOne, PTL

------------------------------------------------------------------------------
(* Names.                                                                    *)

\* Who has checked, and who has not.
LEMMA CheckedMembers ==
    /\ <<"count", "report", "insert">> \in CheckedTodos
    /\ <<"report", "insert">> \in CheckedTodos
    /\ <<"save_account", "insert">> \in CheckedTodos
    /\ <<"insert">> \in CheckedTodos
    /\ <<>> \notin CheckedTodos
    /\ <<"check", "count", "report", "insert">> \notin CheckedTodos
    /\ <<"existing", "check", "count", "report", "insert">> \notin CheckedTodos
    /\ <<"insert", "count", "report_anyway">> \notin CheckedTodos
    /\ <<"count", "report", "delete">> \notin CheckedTodos
    /\ <<"report", "delete">> \notin CheckedTodos
    /\ <<"count", "report_anyway", "delete">> \notin CheckedTodos
    /\ <<"report_anyway", "delete">> \notin CheckedTodos
    /\ <<"save_account", "delete">> \notin CheckedTodos
    /\ <<"delete">> \notin CheckedTodos
    /\ <<"count_loaded", "report">> \notin CheckedTodos
    /\ <<"report">> \notin CheckedTodos
    /\ <<"snapshot", "domains", "count", "report_anyway">> \notin CheckedTodos
    /\ <<"domains", "count", "report_anyway">> \notin CheckedTodos
    /\ <<"save", "count", "report_anyway">> \notin CheckedTodos
    /\ <<"save">> \notin CheckedTodos
    /\ <<"count", "report_anyway">> \notin CheckedTodos
    /\ <<"report_anyway">> \notin CheckedTodos
    /\ <<"save_account">> \notin CheckedTodos
  BY DEF CheckedTodos

\* Only check makes a request one that has checked.
LEMMA CheckedTail ==
    ASSUME NEW t \in Todos, t # <<>>, Tail(t) \in CheckedTodos
    PROVE  t = <<"check", "count", "report", "insert">> \/ t \in CheckedTodos
<1>1. CASE t \in OwnerTodos
  BY <1>1, Tails, CheckedMembers DEF OwnerTodos
<1>2. CASE t \in AdminTodos
  BY <1>2, Tails, CheckedMembers DEF AdminTodos
<1>3. CASE t \in DeleteTodos
  BY <1>3, Tails, CheckedMembers DEF DeleteTodos
<1>4. CASE t \in OtherTodos
  BY <1>4, Tails, CheckedMembers DEF OtherTodos
<1> QED
  BY <1>1, <1>2, <1>3, <1>4 DEF Todos

LEMMA CheckedFacts ==
    /\ \A t \in CheckedTodos : t \in OwnerTodos
    /\ \A r \in Slots : req[r].todo \in CheckedTodos => WillInsert(r)
<1>1. \A t \in CheckedTodos : (\E k \in DOMAIN t : t[k] = "insert") /\ \A k \in DOMAIN t : t[k] # "check"
  BY DEF CheckedTodos
<1>2. \A r \in Slots : req[r].todo \in CheckedTodos => WillInsert(r)
  BY <1>1 DEF WillInsert
<1>3. \A t \in CheckedTodos : t \in OwnerTodos
  BY DEF CheckedTodos, OwnerTodos
<1> QED
  BY <1>2, <1>3

\* The zones lose some, and nobody comes to have checked.
LEMMA NamesFrame ==
    ASSUME NamesInv, live' \subseteq live, row' = row, unchecked' = unchecked,
           \A s \in Slots : Checked(req'[s]) => Checked(req[s]) /\ req'[s].new = req[s].new
    PROVE  NamesInv'
<1>1. NamesApart'
  BY DEF NamesInv, NamesApart
<1>2. SeenAll'
  BY DEF NamesInv, SeenAll, TakenIn
<1> QED
  BY <1>1, <1>2 DEF NamesInv

\* A step takes a request further that is not at its check.
LEMMA NamesMove ==
    ASSUME TypeInv, NamesInv, NEW r \in Slots, live' \subseteq live, row' = row, unchecked' = unchecked,
           req[r].todo # <<>>,
           req'[r].todo \notin CheckedTodos \/
              /\ req'[r].todo = Tail(req[r].todo) /\ Head(req[r].todo) # "check"
              /\ KeepsData(req[r], req'[r]),
           \A s \in Slots \ {r} : req'[s] = req[s]
    PROVE  NamesInv'
<1>1. Checked(req'[r]) => Checked(req[r]) /\ req'[r].new = req[r].new
  <2>1. req[r].todo \in Todos
    BY AtStep
  <2>2. req[r].todo = <<"check", "count", "report", "insert">> => Head(req[r].todo) = "check"
    BY FirstSteps
  <2> QED
    BY <2>1, <2>2, CheckedTail DEF KeepsData, Checked
<1> QED
  BY <1>1, NamesFrame

LEMMA NamesBegin ==
    ASSUME TypeInv, NamesInv, NEW r \in Slots, NEW u, NEW todo, NEW zone, NEW new, NEW extra,
           Begin(r, u, todo, zone, new, extra), todo \notin CheckedTodos
    PROVE  NamesInv'
<1>1. /\ req'[r].todo = todo /\ \A s \in Slots \ {r} : req'[s] = req[s]
      /\ UNCHANGED <<live, row, unchecked>>
  BY BeginTodo DEF zoneVars
<1>2. \A s \in Slots : Checked(req'[s]) => Checked(req[s]) /\ req'[s].new = req[s].new
  BY <1>1 DEF Checked
<1> QED
  BY <1>1, <1>2, NamesFrame

LEMMA NamesBegins ==
    ASSUME TypeInv, NamesInv, Begins
    PROVE  NamesInv'
<1>0. /\ \A r \in Requests : r \in Slots
      /\ Cron \in Slots
  BY BoundsAssumption DEF Requests, Slots, Cron
<1>2. ASSUME NEW r \in Requests, NEW u \in Users, NEW c \in Creates, create_zone(r, u, c[1], c[2])
      PROVE  NamesInv'
  BY <1>0, <1>2, NamesBegin, CheckedMembers DEF create_zone
<1>3. ASSUME NEW r \in Requests, NEW u \in Users, NEW c \in AdminCreates,
             admin_create(r, u, c[1], c[2])
      PROVE  NamesInv'
  BY <1>0, <1>3, NamesBegin, CheckedMembers DEF admin_create
<1>4. ASSUME NEW r \in Requests, NEW u \in Users, NEW n \in Registrable, create_domains_zone(r, u, n)
      PROVE  NamesInv'
  BY <1>0, <1>4, NamesBegin, CheckedMembers DEF create_domains_zone
<1>5. ASSUME NEW r \in Requests, NEW i \in Ids, delete_zone(r, i) \/ admin_delete(r, i)
      PROVE  NamesInv'
  BY <1>0, <1>5, NamesBegin, CheckedMembers DEF delete_zone, admin_delete
<1>6. ASSUME NEW r \in Requests, NEW u \in Users, setup_subscription(r, u)
      PROVE  NamesInv'
  BY <1>0, <1>6, NamesBegin, CheckedMembers DEF setup_subscription
<1>7. ASSUME NEW u \in Users, validate_charged(u)
      PROVE  NamesInv'
  BY <1>0, <1>7, NamesBegin, CheckedMembers DEF validate_charged
<1> QED
  BY <1>2, <1>3, <1>4, <1>5, <1>6, <1>7 DEF Begins

\* valid_zone has looked at every zone there is.
LEMMA NamesCheck ==
    ASSUME TypeInv, NamesInv, NEW r \in Slots, check(r)
    PROVE  NamesInv'
<1>1. /\ UNCHANGED <<live, row, unchecked>>
      /\ req[r].todo # <<>> /\ PlainNext(req[r].todo, req'[r].todo)
      /\ req'[r].todo # <<>> => KeepsData(req[r], req'[r])
      /\ req[r].todo = <<"check", "count", "report", "insert">>
  BY PlainTodo, AtStep, Heads DEF Plain, check, zoneVars
<1>2. CASE Goto(r, Nothing)
  BY <1>1, <1>2, NothingTodo, CheckedMembers, NamesMove
<1>3. CASE valid_zone(req[r].new.name) /\ Go(r)
  <2>1. \A i \in TakenIn : ~ Conflict(row[i].name, req[r].new.name)
    BY <1>3 DEF valid_zone
  <2>2. req'[r].todo # <<>>
    <3>1. req'[r].todo = <<"count", "report", "insert">>
      BY <1>1, <1>3, GoTodo, Tails
    <3> QED
      BY <3>1
  <2>3. \A s \in Slots \ {r} : req'[s] = req[s]
    BY <1>1, <1>3, GoTodo
  <2>4. NamesApart'
    BY <1>1 DEF NamesInv, NamesApart
  <2>5. ASSUME NEW s \in Slots, Checked(req'[s])
        PROVE  \A i \in TakenIn \ unchecked : ~ Conflict(row[i].name, req'[s].new.name)
    <3>1. CASE s = r
      BY <1>1, <2>1, <2>2, <3>1 DEF KeepsData
    <3>2. CASE s # r
      BY <2>3, <2>5, <3>2 DEF NamesInv, SeenAll
    <3> QED
      BY <3>1, <3>2
  <2>6. SeenAll'
    BY <1>1, <2>5 DEF SeenAll, TakenIn
  <2> QED
    BY <2>4, <2>6 DEF NamesInv
<1> QED
  BY <1>2, <1>3 DEF check

\* The new zone is higher than all others, and has been compared with them.
LEMMA NamesInsert ==
    ASSUME TypeInv, NamesInv, NEW r \in Slots, insert(r)
    PROVE  NamesInv'
<1> DEFINE n == created + 1
           new == req[r].new
<1>1. /\ n \in Ids /\ created \in Nat /\ n \notin live /\ live' = live \cup {n}
      /\ row'[n] = new /\ \A k \in Ids \ {n} : row'[k] = row[k]
      /\ ~ Inserts(req'[r])
      /\ \A s \in Slots \ {r} : req'[s] \in {req[s], [req[s] EXCEPT !.stale = TRUE]}
      /\ \A s \in Slots \ {r} : WillInsert(s) /\ Conflict(new.name, req[s].new.name) => req'[s].stale
      /\ (req[r].stale \/ Len(req[r].todo) > 1) => n \in unchecked'
      /\ unchecked \subseteq unchecked'
  BY InsertEffect
<1>2. \A i \in live : i < n /\ i \in Ids \ {n} /\ row'[i] = row[i]
  BY <1>1, RowsOf
<1>3. req[r].todo \in Todos /\ req[r].todo # <<>> /\ Head(req[r].todo) = "insert"
  BY AtStep DEF insert, At
<1>4. n \in unchecked' \/ Checked(req[r])
  <2>1. CASE req[r].todo = <<"insert">>
    BY <2>1, <1>1, CheckedMembers DEF Checked
  <2>2. CASE req[r].todo = <<"insert", "count", "report_anyway">>
    <3>1. Len(<<"insert", "count", "report_anyway">>) > 1
      OBVIOUS
    <3> QED
      BY <2>2, <3>1, <1>1
  <2> QED
    BY <2>1, <2>2, <1>3, Heads
<1> DEFINE Taken == {k \in live : row[k].table # "reverse"}
<1>5. {k \in live' : row'[k].table # "reverse"} \subseteq Taken \cup {n}
  BY <1>1, <1>2
<1>6. ASSUME NEW i \in Taken, n \notin unchecked'
      PROVE  i \in unchecked \/ ~ Conflict(row[i].name, new.name)
  BY <1>4, <1>6 DEF NamesInv, SeenAll, TakenIn
<1>7. NamesApart'
  <2>1. ASSUME NEW i \in Taken \cup {n}, NEW j \in Taken \cup {n}, i < j,
               Conflict(row'[i].name, row'[j].name)
        PROVE  {i, j} \cap unchecked' # {}
    <3>1. i \in Taken
      <4>1. i # n
        <5>1. n \in Int /\ j \in Int /\ (j = n \/ j < n)
          BY <1>1, <1>2, <2>1 DEF Ids
        <5> HIDE DEF n
        <5> QED
          BY <5>1, <2>1
      <4> QED
        BY <4>1, <2>1
    <3>2. CASE j = n
      BY <1>1, <1>2, <1>6, <2>1, <3>1, <3>2
    <3>3. CASE j \in Taken
      <4>1. {i, j} \cap unchecked # {}
        BY <1>2, <2>1, <3>1, <3>3 DEF NamesInv, NamesApart
      <4> QED
        BY <4>1, <1>1
    <3> QED
      BY <3>2, <3>3
  <2> QED
    BY <2>1, <1>5 DEF NamesApart
<1>8. SeenAll'
  <2>1. ASSUME NEW s \in Slots, Checked(req'[s]), NEW i \in Taken \cup {n}, i \notin unchecked'
        PROVE  ~ Conflict(row'[i].name, req'[s].new.name)
    <3>1. s # r
      BY <1>1, <2>1, CheckedFacts DEF Inserts, Checked
    <3>2. req'[s] = req[s] /\ Checked(req[s])
      <4>1. req[s] \in Request
        BY DEF TypeInv, ReqInv
      <4> QED
        BY <1>1, <2>1, <3>1, <4>1, StaleSame DEF Checked
    <3>3. CASE i = n
      BY <1>1, <2>1, <3>1, <3>2, <3>3, CheckedFacts DEF Checked
    <3>4. CASE i \in Taken
      BY <1>1, <1>2, <2>1, <3>2, <3>4 DEF NamesInv, SeenAll, TakenIn
    <3> QED
      BY <3>3, <3>4
  <2> QED
    BY <2>1, <1>5 DEF SeenAll, TakenIn
<1> QED
  BY <1>7, <1>8 DEF NamesInv

\* A row is saved as it was loaded: with the name it has, if it is there.
LEMMA NamesSave ==
    ASSUME TypeInv, NamesInv, NEW r \in Slots, save(r)
    PROVE  NamesInv'
<1>1. /\ req[r].todo # <<>> /\ req[r].todo \in Todos /\ Head(req[r].todo) = "save"
      /\ PlainNext(req[r].todo, req'[r].todo)
  BY PlainTodo, AtStep DEF Plain, save, At
<1>2. req[r].todo = <<"save">> \/ req[r].todo = <<"save", "count", "report_anyway">>
  BY <1>1, Heads
<1>3. req'[r].todo \notin CheckedTodos
  BY <1>1, <1>2, Tails, CheckedMembers DEF PlainNext
<1>4. CASE Go(r) /\ UNCHANGED <<live, row, unchecked>>
  BY <1>1, <1>3, <1>4, GoTodo, NamesMove
<1>5. ASSUME NEW z \in req[r].snapshot, live' = live \cup {z.id}, row' = [row EXCEPT ![z.id] = z.row],
             unchecked' = (IF z.id \in live THEN unchecked ELSE unchecked \cup {z.id}),
             Goto(r, [req[r] EXCEPT !.snapshot = @ \ {z}])
      PROVE  NamesInv'
  <2>1. z.id \in Ids /\ z.row \in Row /\ SameZone(row[z.id], z.row) /\ row \in [Ids -> Row]
    BY <1>1, AtStep, CopyOK DEF Good, LoadedOK, TypeInv, ZoneTypes
  <2>2. \A k \in Ids : SameZone(row[k], row'[k])
    BY <1>5, <2>1 DEF SameZone
  <2>3. live \subseteq Ids
    BY RowsOf
  <2>4. live' \ {z.id} \subseteq live /\ unchecked \subseteq unchecked'
        /\ (z.id \notin unchecked' => z.id \in live)
    BY <1>5
  <2>5. \A s \in Slots \ {r} : req'[s] = req[s]
    BY <1>5 DEF Goto, TypeInv, ReqInv
  <2>6. TakenIn' \ unchecked' \subseteq TakenIn \ unchecked
    BY <2>1, <2>2, <2>3, <2>4 DEF TakenIn, SameZone
  <2>7. \A k \in TakenIn' : k \in Ids /\ row'[k].name = row[k].name
    BY <2>1, <2>2, <2>3, <2>4 DEF TakenIn, SameZone
  <2>8. \A i, j \in TakenIn' : i < j /\ Conflict(row'[i].name, row'[j].name) => {i, j} \cap unchecked' # {}
    BY <2>6, <2>7 DEF NamesInv, NamesApart, TakenIn
  <2>9. \A s \in Slots : Checked(req'[s]) => s # r /\ Checked(req[s]) /\ req'[s] = req[s]
    BY <1>3, <2>5 DEF Checked
  <2>10. SeenAll'
    BY <2>6, <2>7, <2>9 DEF NamesInv, SeenAll
  <2> QED
    BY <2>8, <2>10 DEF NamesInv, NamesApart, TakenIn
<1> QED
  BY <1>4, <1>5 DEF save

LEMMA NamesPlain ==
    ASSUME TypeInv, NamesInv, NEW r \in Slots, Plain(r)
    PROVE  NamesInv'
<1>1. /\ req[r].todo # <<>> /\ req[r].todo \in Todos
      /\ PlainNext(req[r].todo, req'[r].todo)
      /\ req'[r].todo # <<>> => KeepsData(req[r], req'[r])
  BY PlainTodo
<1>2. CASE check(r)
  BY <1>2, NamesCheck
<1>3. CASE insert(r)
  BY <1>3, NamesInsert
<1>4. CASE save(r)
  BY <1>4, NamesSave
<1>5. CASE existing(r) \/ count(r) \/ report_refused(r) \/ delete(r) \/ snapshot(r) \/ domains(r)
  <2>1. live' \subseteq live /\ row' = row /\ unchecked' = unchecked
    BY <1>5 DEF existing, count, report_refused, delete, snapshot, domains, zoneVars
  <2>2. Head(req[r].todo) # "check"
    BY <1>5 DEF existing, count, report_refused, Reports, delete, snapshot, domains, At
  <2>3. \A p : Goto(r, p) => \A s \in Slots \ {r} : req'[s] = req[s]
    BY DEF Goto, TypeInv, ReqInv
  <2>4. \A s \in Slots \ {r} : req'[s] = req[s]
    BY <1>5, <2>3 DEF existing, count, report_refused, delete, snapshot, domains, Go
  <2>5. req'[r].todo \notin CheckedTodos \/
              /\ req'[r].todo = Tail(req[r].todo) /\ Head(req[r].todo) # "check"
              /\ KeepsData(req[r], req'[r])
    BY <1>1, <2>2, CheckedMembers DEF PlainNext
  <2> QED
    BY <1>1, <2>1, <2>4, <2>5, NamesMove
<1> QED
  BY <1>2, <1>3, <1>4, <1>5 DEF Plain

\* The steps that report and save accounts.
LEMMA NamesBill ==
    ASSUME TypeInv, NamesInv, NEW r \in Slots,
           report_usage(r) \/ subscribe_user(r) \/ save_account(r) \/ dies(r)
    PROVE  NamesInv'
<1>1. UNCHANGED <<live, row, unchecked>> /\ req[r].todo # <<>>
  BY DEF report_usage, subscribe_user, save_account, dies, zoneVars, Reports, At
<1>2. CASE dies(r)
  BY <1>1, <1>2, NothingTodo, CheckedMembers, NamesMove DEF dies
<1>3. CASE report_usage(r) \/ save_account(r)
  <2>1. Go(r) /\ Head(req[r].todo) # "check"
    BY <1>3 DEF report_usage, save_account, Reports, At
  <2>2. /\ req'[r].todo = Tail(req[r].todo)
        /\ Tail(req[r].todo) # <<>> => req'[r] = [req[r] EXCEPT !.todo = Tail(@)]
        /\ \A s \in Slots \ {r} : req'[s] = req[s]
    BY <1>1, <2>1, GoTodo
  <2>3. req'[r].todo # <<>> => KeepsData(req[r], req'[r])
    BY <2>2 DEF KeepsData, TypeInv, ReqInv, Request
  <2> QED
    BY <1>1, <2>1, <2>2, <2>3, CheckedMembers, NamesMove
<1>4. CASE subscribe_user(r)
  <2>1. /\ req[r].todo \in Todos /\ Head(req[r].todo) \in {"report", "report_anyway"}
        /\ req'[r].todo = [req[r].todo EXCEPT ![1] = "save_account"]
        /\ req'[r].new = req[r].new /\ req'[r].stale = req[r].stale
        /\ \A s \in Slots \ {r} : req'[s] = req[s]
    BY <1>4, SubscribeTodo DEF KeepsData
  <2>2. \/ req[r].todo = <<"report", "insert">>
        \/ req'[r].todo \in {<<"save_account", "delete">>, <<"save_account">>}
    BY <1>1, <2>1, Heads, SavesFirst
  <2>3. Checked(req'[r]) => Checked(req[r])
    BY <2>1, <2>2, CheckedMembers DEF Checked
  <2>4. \A s \in Slots : Checked(req'[s]) => Checked(req[s]) /\ req'[s].new = req[s].new
    BY <2>1, <2>3
  <2> QED
    BY <1>1, <2>4, NamesFrame
<1> QED
  BY <1>2, <1>3, <1>4

LEMMA NamesInit ==
    ASSUME Init
    PROVE  NamesInv
<1>1. \A r \in Slots : ~ Checked(req[r])
  BY NothingOK, CheckedMembers DEF Init, Checked
<1>2. SeenAll
  BY <1>1 DEF SeenAll
<1>3. live \subseteq {1}
  BY DEF Init
<1>4. NamesApart
  BY <1>3 DEF NamesApart
<1> QED
  BY <1>2, <1>4 DEF NamesInv

LEMMA NamesNext == TypeInv /\ NamesInv /\ [Next]_vars => NamesInv'
<1> SUFFICES ASSUME TypeInv, NamesInv, [Next]_vars PROVE NamesInv'
  OBVIOUS
<1>1. CASE UNCHANGED vars
  <2>1. UNCHANGED <<live, row, req, unchecked>>
    BY <1>1 DEF vars, zoneVars
  <2> QED
    BY <2>1, NamesFrame
<1>2. ASSUME NEW n \in Names, domain_changes(n)
      PROVE  NamesInv'
  BY <1>2, NamesFrame DEF domain_changes, zoneVars
<1>3. ASSUME NEW u \in Users, sub_cancelled(u) \/ user_saved(u)
      PROVE  NamesInv'
  BY <1>3, NamesFrame DEF sub_cancelled, user_saved, zoneVars
<1>4. ASSUME NEW u \in Users, NEW id \in loaded[u], create_user_profile(u, id)
      PROVE  NamesInv'
  BY <1>4, NamesFrame DEF create_user_profile, zoneVars
<1> QED
  BY <1>1, <1>2, <1>3, <1>4, NextCases, NamesBegins, NamesPlain, NamesBill

\* A request that has passed valid_zone has seen every zone that is there, but
\* for those whose insertion it was too late to see, or that nobody checked.
THEOREM RequestsHaveSeenNames == Spec => []NamesInv
<1>1. Init => NamesInv
  BY NamesInit
<1> QED
  BY <1>1, NamesNext, NamesTypeCorrect, PTL DEF Spec

\* No zone lies at or below the name of an earlier one, unless one of the two
\* was not checked.
THEOREM ZonesStayApart == Spec => []NamesApart
<1>1. NamesInv => NamesApart
  BY DEF NamesInv
<1> QED
  BY <1>1, RequestsHaveSeenNames, PTL

------------------------------------------------------------------------------
(* What users are billed.                                                    *)

LEMMA SettledMembers ==
    /\ <<"existing", "check", "count", "report", "insert">> \in SettledTodos
    /\ <<"check", "count", "report", "insert">> \in SettledTodos
    /\ <<"count", "report", "insert">> \in SettledTodos
    /\ <<"report", "insert">> \in SettledTodos
    /\ <<"count", "report", "delete">> \in SettledTodos
    /\ <<"report", "delete">> \in SettledTodos
    /\ <<"count_loaded", "report">> \in SettledTodos
    /\ <<"report">> \in SettledTodos
    /\ <<"snapshot", "domains", "count", "report_anyway">> \in SettledTodos
    /\ <<"domains", "count", "report_anyway">> \in SettledTodos
    /\ <<"save">> \in SettledTodos
    /\ <<"save_account", "insert">> \notin SettledTodos
    /\ <<"insert">> \notin SettledTodos
    /\ <<"insert", "count", "report_anyway">> \notin SettledTodos
    /\ <<"count", "report_anyway", "delete">> \notin SettledTodos
    /\ <<"report_anyway", "delete">> \notin SettledTodos
    /\ <<"save_account", "delete">> \notin SettledTodos
    /\ <<"delete">> \notin SettledTodos
    /\ <<"save", "count", "report_anyway">> \notin SettledTodos
    /\ <<"count", "report_anyway">> \notin SettledTodos
    /\ <<"report_anyway">> \notin SettledTodos
    /\ <<"save_account">> \notin SettledTodos
  BY DEF SettledTodos

\* What the steps lead to.
LEMMA PhaseFlags ==
    ASSUME NEW t \in Todos, t # <<>>
    PROVE  /\ t \in AdminTodos => Head(t) = "insert"
           /\ t = <<"save">> => Head(t) = "save"
           /\ Head(t) \in {"existing", "check", "count_loaded", "report", "snapshot", "domains"} =>
                 t \in SettledTodos
           /\ Head(t) \in {"save_account", "insert", "delete", "report_anyway"} => t \notin SettledTodos
           /\ Head(t) = "save" /\ t \in SettledTodos => t = <<"save">>
           /\ Head(t) = "delete" => t \in DeleteTodos
           /\ Head(t) = "insert" => t \notin DeleteTodos
<1>1. t \in AdminTodos => Head(t) = "insert"
  BY FirstSteps DEF AdminTodos
<1>2. t = <<"save">> => Head(t) = "save"
  BY FirstSteps
<1>3. Head(t) \in {"existing", "check", "count_loaded", "report", "snapshot", "domains"} =>
                 t \in SettledTodos
  BY Heads, SettledMembers
<1>4. Head(t) \in {"save_account", "insert", "delete", "report_anyway"} => t \notin SettledTodos
  BY Heads, SettledMembers
<1>5. Head(t) = "save" /\ t \in SettledTodos => t = <<"save">>
  BY Heads, SettledMembers
<1>6. Head(t) = "delete" => t \in DeleteTodos
  BY Heads, Members
<1>7. Head(t) = "insert" => t \notin DeleteTodos
  BY Heads, Members, Kinds
<1> QED
  BY <1>1, <1>2, <1>3, <1>4, <1>5, <1>6, <1>7

\* After the check comes the count, and so on.
LEMMA StepFlags ==
    ASSUME NEW t \in Todos, t # <<>>, NEW t2, t2 = Tail(t)
    PROVE  /\ Head(t) = "existing" => t2 # <<>> /\ Head(t2) = "check" /\ t2 \notin DeleteTodos
           /\ Head(t) = "check" =>
                 t2 # <<>> /\ Head(t2) = "count" /\ t2 \in SettledTodos /\ t2 \notin DeleteTodos
           /\ Head(t) \in {"count", "count_loaded"} =>
                 /\ t2 # <<>> /\ Head(t2) \in {"report", "report_anyway"}
                 /\ t2 \in SettledTodos => t \in SettledTodos
                 /\ t2 \in DeleteTodos => t \in DeleteTodos
           /\ Head(t) = "snapshot" => t2 # <<>> /\ Head(t2) = "domains" /\ t2 \notin DeleteTodos
           /\ Head(t) = "save" =>
                 \/ t2 = <<>> /\ t \in SettledTodos
                 \/ t2 = <<"count", "report_anyway">>
           /\ Head(t) \in {"report", "report_anyway", "save_account"} =>
                 \/ t2 = <<>> /\ t \in Uncounted
                 \/ /\ t2 # <<>> /\ Head(t2) \in {"insert", "delete"} /\ t2 \notin AdminTodos
                    /\ t2 \in DeleteTodos => t \in DeleteTodos
           /\ Head(t) = "insert" => \/ t2 = <<>> /\ t \in OwnerTodos /\ t \notin AdminTodos
                                    \/ t2 = <<"count", "report_anyway">>
           /\ Head(t) = "delete" => t2 = <<>>
<1>1. Head(t) = "existing" => t2 # <<>> /\ Head(t2) = "check" /\ t2 \notin DeleteTodos
  <2>1. CASE t = <<"existing", "check", "count", "report", "insert">>
    <3>1. t2 = <<"check", "count", "report", "insert">>
      BY <2>1, Tails
    <3> QED
      BY <3>1, FirstSteps, Members, Kinds
  <2> QED
    BY <2>1, Heads
<1>2. Head(t) = "check" =>
         t2 # <<>> /\ Head(t2) = "count" /\ t2 \in SettledTodos /\ t2 \notin DeleteTodos
  <2>1. CASE t = <<"check", "count", "report", "insert">>
    <3>1. t2 = <<"count", "report", "insert">>
      BY <2>1, Tails
    <3> QED
      BY <3>1, FirstSteps, Members, Kinds, SettledMembers
  <2> QED
    BY <2>1, Heads
<1>3. Head(t) \in {"count", "count_loaded"} =>
         /\ t2 # <<>> /\ Head(t2) \in {"report", "report_anyway"}
         /\ t2 \in SettledTodos => t \in SettledTodos
         /\ t2 \in DeleteTodos => t \in DeleteTodos
  <2>1. CASE t = <<"count", "report", "insert">>
    <3>1. t2 = <<"report", "insert">>
      BY <2>1, Tails
    <3> QED
      BY <2>1, <3>1, FirstSteps, Members, Kinds, UncountedKinds, SettledMembers
  <2>2. CASE t = <<"count", "report", "delete">>
    <3>1. t2 = <<"report", "delete">>
      BY <2>2, Tails
    <3> QED
      BY <2>2, <3>1, FirstSteps, Members, Kinds, UncountedKinds, SettledMembers
  <2>3. CASE t = <<"count", "report_anyway", "delete">>
    <3>1. t2 = <<"report_anyway", "delete">>
      BY <2>3, Tails
    <3> QED
      BY <2>3, <3>1, FirstSteps, Members, Kinds, UncountedKinds, SettledMembers
  <2>4. CASE t = <<"count", "report_anyway">>
    <3>1. t2 = <<"report_anyway">>
      BY <2>4, Tails
    <3> QED
      BY <2>4, <3>1, FirstSteps, Members, Kinds, UncountedKinds, SettledMembers
  <2>5. CASE t = <<"count_loaded", "report">>
    <3>1. t2 = <<"report">>
      BY <2>5, Tails
    <3> QED
      BY <2>5, <3>1, FirstSteps, Members, Kinds, UncountedKinds, SettledMembers
  <2> QED
    BY <2>1, <2>2, <2>3, <2>4, <2>5, Heads
<1>4. Head(t) = "snapshot" => t2 # <<>> /\ Head(t2) = "domains" /\ t2 \notin DeleteTodos
  <2>1. CASE t = <<"snapshot", "domains", "count", "report_anyway">>
    <3>1. t2 = <<"domains", "count", "report_anyway">>
      BY <2>1, Tails
    <3> QED
      BY <2>1, <3>1, FirstSteps, Members, Kinds, UncountedKinds, SettledMembers
  <2> QED
    BY <2>1, Heads
<1>5. Head(t) = "save" =>
         \/ t2 = <<>> /\ t \in SettledTodos
         \/ t2 = <<"count", "report_anyway">>
  <2>1. CASE t = <<"save", "count", "report_anyway">>
    BY <2>1, Tails, FirstSteps, Members, Kinds, SettledMembers
  <2>2. CASE t = <<"save">>
    BY <2>2, Tails, FirstSteps, Members, Kinds, SettledMembers
  <2> QED
    BY <2>1, <2>2, Heads
<1>6. Head(t) \in {"report", "report_anyway", "save_account"} =>
         \/ t2 = <<>> /\ t \in Uncounted
         \/ /\ t2 # <<>> /\ Head(t2) \in {"insert", "delete"} /\ t2 \notin AdminTodos
            /\ t2 \in DeleteTodos => t \in DeleteTodos
  <2>1. CASE t = <<"report", "insert">>
    <3>1. t2 = <<"insert">>
      BY <2>1, Tails
    <3> QED
      BY <2>1, <3>1, FirstSteps, Members, Kinds, UncountedKinds, SettledMembers
  <2>2. CASE t = <<"save_account", "insert">>
    <3>1. t2 = <<"insert">>
      BY <2>2, Tails
    <3> QED
      BY <2>2, <3>1, FirstSteps, Members, Kinds, UncountedKinds, SettledMembers
  <2>3. CASE t = <<"report", "delete">>
    <3>1. t2 = <<"delete">>
      BY <2>3, Tails
    <3> QED
      BY <2>3, <3>1, FirstSteps, Members, Kinds, UncountedKinds, SettledMembers
  <2>4. CASE t = <<"report_anyway", "delete">>
    <3>1. t2 = <<"delete">>
      BY <2>4, Tails
    <3> QED
      BY <2>4, <3>1, FirstSteps, Members, Kinds, UncountedKinds, SettledMembers
  <2>5. CASE t = <<"save_account", "delete">>
    <3>1. t2 = <<"delete">>
      BY <2>5, Tails
    <3> QED
      BY <2>5, <3>1, FirstSteps, Members, Kinds, UncountedKinds, SettledMembers
  <2>6. CASE t = <<"report">>
    <3>1. t2 = <<>>
      BY <2>6, Tails
    <3> QED
      BY <2>6, <3>1, FirstSteps, Members, Kinds, UncountedKinds, SettledMembers
  <2>7. CASE t = <<"report_anyway">>
    <3>1. t2 = <<>>
      BY <2>7, Tails
    <3> QED
      BY <2>7, <3>1, FirstSteps, Members, Kinds, UncountedKinds, SettledMembers
  <2>8. CASE t = <<"save_account">>
    <3>1. t2 = <<>>
      BY <2>8, Tails
    <3> QED
      BY <2>8, <3>1, FirstSteps, Members, Kinds, UncountedKinds, SettledMembers
  <2> QED
    BY <2>1, <2>2, <2>3, <2>4, <2>5, <2>6, <2>7, <2>8, Heads
<1>7. Head(t) = "insert" =>
         \/ t2 = <<>> /\ t \in OwnerTodos /\ t \notin AdminTodos
         \/ t2 = <<"count", "report_anyway">>
  <2>1. CASE t = <<"insert">>
    BY <2>1, Tails, FirstSteps, Members, Kinds, SettledMembers
  <2>2. CASE t = <<"insert", "count", "report_anyway">>
    BY <2>2, Tails, FirstSteps, Members, Kinds, SettledMembers
  <2> QED
    BY <2>1, <2>2, Heads
<1>8. Head(t) = "delete" => t2 = <<>>
  <2>1. CASE t = <<"delete">>
    BY <2>1, Tails, FirstSteps, Members, Kinds, SettledMembers
  <2> QED
    BY <2>1, Heads
<1> QED
  BY <1>1, <1>2, <1>3, <1>4, <1>5, <1>6, <1>7, <1>8

\* Nothing that the bill of v depends on changes, but that v may lose a subscription.
SameBill(v) ==
    /\ account'[v] \in {account[v], 0}
    /\ \A k \in 1 .. Len(subs) : subs[k].owner = v => subs'[k].usage = subs[k].usage
    /\ \A i : (i \in live' /\ row'[i].owner = v) <=> (i \in live /\ row[i].owner = v)
    /\ \A i \in live : row[i].owner = v => row'[i] = row[i]

\* All that a request had is there, but for the history of its name.
SameRequest(s) == req'[s] \in {req[s], [req[s] EXCEPT !.stale = TRUE]}

LEMMA ChargedSame ==
    ASSUME NEW v, SameBill(v)
    PROVE  Charged(v)' = Charged(v)
<1>1. {i \in live' : row'[i].owner = v /\ row'[i].charged} = {i \in live : row[i].owner = v /\ row[i].charged}
  BY DEF SameBill
<1> QED
  BY <1>1 DEF Charged

LEMMA PaysSame ==
    ASSUME TypeInv, NEW v \in Users, SameBill(v), NEW n, Pays(account[v], n, subs)
    PROVE  Pays(account'[v], n, subs')
<1>1. account[v] # 0 => account[v] \in 1 .. Len(subs) /\ subs[account[v]].owner = v
  BY DEF TypeInv, BillTypes
<1> QED
  BY <1>1 DEF Pays, SameBill

LEMMA SettledPays ==
    ASSUME NEW u
    PROVE  Settled(u) <=> Pays(account[u], Charged(u), subs)
  BY DEF Settled, Pays

LEMMA SettledSame ==
    ASSUME TypeInv, NEW v \in Users, SameBill(v), Settled(v)
    PROVE  Settled(v)'
  BY PaysSame, ChargedSame DEF Settled, Pays

LEMMA PhaseSame ==
    ASSUME TypeInv, NEW v \in Users, SameBill(v), NEW s \in Slots, SameRequest(s),
           BusyAt(s, v), Phase(s, v)
    PROVE  Phase(s, v)'
<1> DEFINE q == req[s]
           p == req'[s]
           n == Charged(v)
<1>1. /\ p.todo = q.todo /\ p.zone = q.zone /\ p.new = q.new /\ p.extra = q.extra
      /\ p.count = q.count /\ p.sub = q.sub /\ p.snapshot = q.snapshot
  <2>1. q \in Request /\ p \in {q, [q EXCEPT !.stale = TRUE]}
    BY DEF SameRequest, TypeInv, ReqInv
  <2> HIDE DEF q, p
  <2> QED
    BY <2>1, StaleSame
<1>2. PhaseOK(q, v, n, account[v], subs, live, row)
  BY DEF Phase
<1>3. /\ Good(q, created, row, subs) /\ q.user = v
      /\ live \subseteq 1 .. created /\ account[v] \in Nat
  BY AtStep DEF BusyAt, TypeInv, ZoneTypes, BillTypes
<1>4. Charged(v)' = n
  BY ChargedSame
<1> HIDE DEF n
<1>5. q.todo \in SettledTodos => Pays(account'[v], n, subs')
  BY <1>2, PaysSame DEF PhaseOK
<1>6. Head(q.todo) = "count_loaded" => account'[v] = 0 /\ q.sub = 0
  BY <1>2 DEF PhaseOK, SameBill
<1>7. Head(q.todo) \in {"report", "report_anyway"} =>
          q.count = n + q.extra /\ account'[v] \in {0, q.sub}
  BY <1>2 DEF PhaseOK, SameBill
<1>8. Head(q.todo) = "save_account" =>
          account'[v] = 0 /\ q.sub # 0 /\ subs'[q.sub].usage = n + q.extra
  BY <1>2, <1>3 DEF PhaseOK, SameBill, Good, LoadedOK
<1>9. Head(q.todo) \in {"insert", "delete"} /\ q.todo \notin AdminTodos =>
          Pays(account'[v], n + q.extra, subs')
  BY <1>2, PaysSame DEF PhaseOK
<1>10. Deletes(q) => q.zone \in live' /\ row'[q.zone] = q.new
  BY <1>2, <1>3 DEF PhaseOK, SameBill, Good, ExtraFits
<1>11. q.todo = <<"save">> =>
          \A z \in q.snapshot : z.row.owner = v => z.id \in live' /\ row'[z.id] = z.row
  BY <1>2 DEF PhaseOK, SameBill
<1>12. PhaseOK(p, v, n, account'[v], subs', live', row')
  BY <1>1, <1>5, <1>6, <1>7, <1>8, <1>9, <1>10, <1>11 DEF PhaseOK, Deletes
<1> QED
  BY <1>4, <1>12 DEF Phase

\* A user who is not concerned.
LEMMA BillSame ==
    ASSUME TypeInv, NEW v \in Users, BillAt(v), SameBill(v),
           \A s \in Slots : BusyAt(s, v)' <=> BusyAt(s, v),
           \A s \in Slots : BusyAt(s, v) => SameRequest(s)
    PROVE  BillAt(v)'
<1>1. ASSUME ~ Busy(v)'
      PROVE  Settled(v)'
  <2>1. ~ Busy(v)
    BY <1>1 DEF Busy, BusyAt
  <2> QED
    BY <2>1, SettledSame DEF BillAt
<1>2. ASSUME NEW s \in Slots, BusyAt(s, v)'
      PROVE  Phase(s, v)'
  BY <1>2, PhaseSame DEF BillAt
<1>3. \A r, s \in Slots : BusyAt(r, v)' /\ BusyAt(s, v)' => r = s
  BY DEF BillAt
<1> QED
  BY <1>1, <1>2, <1>3 DEF BillAt

\* Excuses end when the bill is right and nothing is going on.
LEMMA BillExcuse ==
    ASSUME TypeInv, BillInv, NEW S, Excuse(S),
           \A u \in Users : u \notin excused /\ u \notin S => BillAt(u)'
    PROVE  BillInv'
<1>1. ASSUME NEW u \in Users \ excused'
      PROVE  BillAt(u)'
  <2>1. (u \notin excused /\ u \notin S) \/ (~ Busy(u)' /\ Settled(u)')
    BY <1>1 DEF Excuse
  <2>2. CASE ~ Busy(u)' /\ Settled(u)'
    BY <2>2 DEF BillAt, Busy, BusyAt
  <2> QED
    BY <2>1, <2>2
<1> QED
  BY <1>1 DEF BillInv

\* A step of a request of u.
LEMMA BillStep ==
    ASSUME TypeInv, BillInv, NEW r \in Slots, req[r].todo # <<>>, NEW S, Excuse(S),
           \A s \in Slots \ {r} : SameRequest(s),
           req'[r].todo # <<>> => req'[r].user = req[r].user,
           \A v \in Users : v # req[r].user /\ v \notin S => SameBill(v),
           ASSUME NEW u \in Users, u = req[r].user, u \notin S, Phase(r, u)
           PROVE  /\ req'[r].todo # <<>> => Phase(r, u)'
                  /\ req'[r].todo = <<>> => Settled(u)'
    PROVE  BillInv'
<1>1. \A s \in Slots \ {r} : req'[s].todo = req[s].todo /\ req'[s].user = req[s].user
  BY StaleSame DEF SameRequest, TypeInv, ReqInv
<1>2. ASSUME NEW u \in Users, u \notin excused, u \notin S
      PROVE  BillAt(u)'
  <2>1. BillAt(u)
    BY <1>2 DEF BillInv
  <2>2. CASE u # req[r].user
    <3>1. \A s \in Slots : (BusyAt(s, u)' <=> BusyAt(s, u)) /\ (BusyAt(s, u) => s # r)
      BY <1>1, <2>2 DEF BusyAt
    <3>2. \A s \in Slots : BusyAt(s, u) => SameRequest(s)
      BY <3>1
    <3>3. SameBill(u)
      BY <1>2, <2>2
    <3> QED
      BY <2>1, <3>1, <3>2, <3>3, BillSame
  <2>3. CASE u = req[r].user
    <3>1. BusyAt(r, u) /\ \A s \in Slots : BusyAt(s, u) => s = r
      BY <2>1, <2>3 DEF BillAt, BusyAt
    <3>2. Phase(r, u)
      BY <2>1, <3>1 DEF BillAt
    <3>3. /\ req'[r].todo # <<>> => Phase(r, u)'
          /\ req'[r].todo = <<>> => Settled(u)'
      BY <1>2, <2>3, <3>2
    <3>4. \A s \in Slots : BusyAt(s, u)' => s = r
      BY <1>1, <3>1 DEF BusyAt
    <3>5. BusyAt(r, u)' <=> req'[r].todo # <<>>
      BY <2>3 DEF BusyAt
    <3> QED
      BY <3>3, <3>4, <3>5 DEF BillAt, Busy, BusyAt
  <2> QED
    BY <2>2, <2>3
<1> QED
  BY <1>2, BillExcuse

\* Steps that leave zones, accounts and subscriptions alone.
LEMMA BillQuiet ==
    ASSUME UNCHANGED <<live, row, account, subs>>
    PROVE  \A v : SameBill(v) /\ Charged(v)' = Charged(v) /\ (Settled(v)' <=> Settled(v))
  BY DEF SameBill, Charged, Settled

\* What Phase says of a request that has ended or goes on.
LEMMA PhaseNext ==
    ASSUME NEW q, NEW u, NEW n, NEW a, NEW list, NEW alive, NEW rows, NEW t \in Todos, t # <<>>, q.todo = t
    PROVE  LET holds == PhaseOK(q, u, n, a, list, alive, rows)
               there == q.zone \in alive /\ rows[q.zone] = q.new
               kept == t \in DeleteTodos => there
               due == t \in SettledTodos => Pays(a, n, list)
           IN  /\ Head(t) \in {"existing", "check", "snapshot", "domains"} /\ t \notin DeleteTodos /\ Pays(a, n, list)
                     => holds
               /\ Head(t) = "count" /\ due /\ kept => holds
               /\ Head(t) \in {"report", "report_anyway"} /\ due /\ kept /\ q.count = n + q.extra /\ a \in {0, q.sub}
                     => holds
               /\ Head(t) = "save_account" /\ kept /\ a = 0 /\ q.sub # 0 /\ list[q.sub].usage = n + q.extra
                     => holds
               /\ Head(t) \in {"insert", "delete"} /\ kept /\ Pays(a, n + q.extra, list) => holds
               /\ t = <<"count", "report_anyway">> => holds
               /\ t = <<"save", "count", "report_anyway">> => holds
               /\ t = <<"save">> /\ Pays(a, n, list)
                  /\ (\A z \in q.snapshot : z.row.owner = u => z.id \in alive /\ rows[z.id] = z.row)
                     => holds
<1>1. /\ t \in AdminTodos => Head(t) = "insert"
      /\ t = <<"save">> => Head(t) = "save"
      /\ Head(t) \in {"existing", "check", "count_loaded", "report", "snapshot", "domains"} =>
            t \in SettledTodos
      /\ Head(t) \in {"save_account", "insert", "delete", "report_anyway"} => t \notin SettledTodos
      /\ Head(t) = "save" /\ t \in SettledTodos => t = <<"save">>
      /\ Head(t) = "insert" => t \notin DeleteTodos
  BY PhaseFlags
<1>2. /\ t = <<"count", "report_anyway">> => Head(t) = "count" /\ t \notin SettledTodos /\ t \notin DeleteTodos
      /\ t = <<"save", "count", "report_anyway">> => Head(t) = "save" /\ t \notin SettledTodos /\ t \notin DeleteTodos
      /\ t = <<"save">> => t \notin DeleteTodos
  BY FirstSteps, SettledMembers, Members, Kinds
<1>3. t = <<"save">> => t \in SettledTodos /\ Head(t) = "save"
  BY SettledMembers, FirstSteps
<1> DEFINE bare == <<"save">>
           full == <<"save", "count", "report_anyway">>
           anyway == <<"count", "report_anyway">>
<1>4. full # bare
  OBVIOUS
<1> HIDE DEF bare, full, anyway
<1> QED
  BY <1>1, <1>2, <1>3, <1>4 DEF PhaseOK, Deletes, bare, full, anyway

\* Steps that only read zones, accounts and subscriptions.
LEMMA BillReads ==
    ASSUME TypeInv, BillInv, NEW r \in Slots, req[r].todo # <<>>, NEW S, Excuse(S),
           UNCHANGED <<live, row, account, subs>>,
           \A s \in Slots \ {r} : SameRequest(s),
           req'[r].todo # <<>> => req'[r].user = req[r].user,
           \A u \in Users : u = req[r].user /\ u \notin S /\ Phase(r, u) =>
              /\ req'[r].todo # <<>> => PhaseOK(req'[r], u, Charged(u), account[u], subs, live, row)
              /\ req'[r].todo = <<>> => Pays(account[u], Charged(u), subs)
    PROVE  BillInv'
<1>1. \A v : SameBill(v) /\ Charged(v)' = Charged(v) /\ (Settled(v)' <=> Settled(v))
  BY BillQuiet
<1>2. ASSUME NEW u \in Users, u = req[r].user, u \notin S, Phase(r, u)
      PROVE  /\ req'[r].todo # <<>> => Phase(r, u)'
             /\ req'[r].todo = <<>> => Settled(u)'
  <2>1. req'[r].todo = <<>> => Settled(u)'
    BY <1>1, <1>2, SettledPays
  <2>2. req'[r].todo # <<>> => Phase(r, u)'
    BY <1>1, <1>2 DEF Phase
  <2> QED
    BY <2>1, <2>2
<1> QED
  BY <1>1, <1>2, BillStep

\* A request that goes nowhere else.
LEMMA GotoIs ==
    ASSUME TypeInv, NEW r \in Slots, NEW p, Goto(r, p)
    PROVE  /\ p.todo # <<>> => req'[r] = p
           /\ p.todo = <<>> => req'[r].todo = <<>>
           /\ \A s \in Slots \ {r} : req'[s] = req[s]
<1>1. req' = [req EXCEPT ![r] = Ended(p)]
  BY DEF Goto
<1>2. p.todo # <<>> => Ended(p) = p
  BY DEF Ended
<1>3. p.todo = <<>> => Ended(p).todo = <<>>
  BY NothingOK DEF Ended
<1> QED
  BY <1>1, <1>2, <1>3 DEF TypeInv, ReqInv

LEMMA BillCheck ==
    ASSUME TypeInv, BillInv, NEW r \in Slots, check(r)
    PROVE  BillInv'
<1>1. /\ req[r].todo # <<>> /\ req[r].todo \in Todos /\ Head(req[r].todo) = "check"
      /\ Excuse({}) /\ UNCHANGED <<live, row, account, subs>>
      /\ Go(r) \/ Goto(r, Nothing)
  BY AtStep DEF check, At, zoneVars, billVars
<1>2. /\ req'[r].todo # <<>> => req'[r].user = req[r].user
      /\ \A s \in Slots \ {r} : SameRequest(s)
  BY PlainTodo DEF Plain, KeepsData, SameRequest
<1>3. req'[r].todo = <<>> \/
         (req'[r].todo \in Todos /\ Head(req'[r].todo) = "count" /\ req'[r].todo \notin DeleteTodos)
  BY <1>1, GoTodo, NothingTodo, StepFlags DEF Request
<1>4. req[r].todo \in SettledTodos
  BY <1>1, PhaseFlags
<1>5. ASSUME NEW u \in Users, u = req[r].user, Phase(r, u)
      PROVE  /\ Pays(account[u], Charged(u), subs)
             /\ req'[r].todo # <<>> => PhaseOK(req'[r], u, Charged(u), account[u], subs, live, row)
  <2>1. Pays(account[u], Charged(u), subs)
    BY <1>4, <1>5 DEF Phase, PhaseOK
  <2> QED
    BY <2>1, <1>3, PhaseNext
<1> QED
  BY <1>1, <1>2, <1>5, BillReads

\* The row is loaded as it is.
LEMMA BillExisting ==
    ASSUME TypeInv, BillInv, NEW r \in Slots, existing(r)
    PROVE  BillInv'
<1>1. /\ req[r].todo # <<>> /\ req[r].todo \in Todos /\ Head(req[r].todo) = "existing"
      /\ Excuse({}) /\ UNCHANGED <<live, row, account, subs>>
  BY AtStep DEF existing, At, zoneVars, billVars
<1>2. /\ req'[r].todo # <<>> => req'[r].user = req[r].user
      /\ \A s \in Slots \ {r} : SameRequest(s)
  BY PlainTodo DEF Plain, KeepsData, SameRequest
<1>3. req[r].todo \in SettledTodos
  BY <1>1, PhaseFlags
<1>4. ASSUME NEW u \in Users, u = req[r].user, Phase(r, u)
      PROVE  /\ Pays(account[u], Charged(u), subs)
             /\ req'[r].todo # <<>> => PhaseOK(req'[r], u, Charged(u), account[u], subs, live, row)
  <2>1. Pays(account[u], Charged(u), subs)
    BY <1>3, <1>4 DEF Phase, PhaseOK
  <2>2. CASE Go(r)
    <3>1. req'[r].todo = Tail(req[r].todo) /\ req'[r].todo \in Todos
      BY <1>1, <2>2, GoTodo DEF Request
    <3>2. req'[r].todo # <<>> /\ Head(req'[r].todo) = "check" /\ req'[r].todo \notin DeleteTodos
      BY <1>1, <3>1, StepFlags
    <3> QED
      BY <2>1, <3>1, <3>2, PhaseNext
  <2>3. ASSUME NEW i \in live, Goto(r, [req[r] EXCEPT !.todo = <<"save">>,
                                             !.snapshot = {[id |-> i, row |-> row[i]]}])
        PROVE  PhaseOK(req'[r], u, Charged(u), account[u], subs, live, row)
    <3> DEFINE p == [req[r] EXCEPT !.todo = <<"save">>, !.snapshot = {[id |-> i, row |-> row[i]]}]
    <3>1. p.todo = <<"save">> /\ p.snapshot = {[id |-> i, row |-> row[i]]}
      BY DEF TypeInv, ReqInv, Request
    <3>2. \A z \in p.snapshot : z.id \in live /\ row[z.id] = z.row
      BY <3>1
    <3>3. <<"save">> \in Todos /\ <<"save">> # <<>>
      BY Members DEF Todos
    <3> HIDE DEF p
    <3>4. req'[r] = p
      BY <2>3, <3>1, <3>3, GotoIs DEF p
    <3> QED
      BY <2>1, <3>1, <3>2, <3>3, <3>4, PhaseNext
  <2> QED
    BY <2>1, <2>2, <2>3 DEF existing
<1> QED
  BY <1>1, <1>2, <1>4, BillReads

LEMMA BillCount ==
    ASSUME TypeInv, BillInv, NEW r \in Slots, count(r)
    PROVE  BillInv'
<1> DEFINE p == [req[r] EXCEPT !.todo = Tail(@),
                              !.sub = IF At(r, "count") THEN account[req[r].user] ELSE @,
                              !.count = Charged(req[r].user) + req[r].extra]
<1>1. /\ req[r].todo # <<>> /\ req[r].todo \in Todos
      /\ Head(req[r].todo) \in {"count", "count_loaded"}
      /\ Excuse({}) /\ UNCHANGED <<live, row, account, subs>> /\ Goto(r, p)
  BY AtStep DEF count, At, zoneVars, billVars
<1>2. /\ req'[r].todo # <<>> => req'[r].user = req[r].user
      /\ \A s \in Slots \ {r} : SameRequest(s)
  BY PlainTodo DEF Plain, KeepsData, SameRequest
<1>3. /\ p.todo = Tail(req[r].todo) /\ p.zone = req[r].zone /\ p.new = req[r].new
      /\ p.extra = req[r].extra /\ p.count = Charged(req[r].user) + req[r].extra
      /\ p.sub = IF Head(req[r].todo) = "count" THEN account[req[r].user] ELSE req[r].sub
  BY <1>1 DEF TypeInv, ReqInv, Request, At
<1> HIDE DEF p
<1>4. /\ p.todo # <<>> /\ p.todo \in Todos /\ Head(p.todo) \in {"report", "report_anyway"}
      /\ p.todo \in SettledTodos => req[r].todo \in SettledTodos
      /\ p.todo \in DeleteTodos => req[r].todo \in DeleteTodos
  BY <1>1, <1>3, StepFlags, TailKind
<1>5. req'[r] = p
  BY <1>1, <1>4, GotoIs
<1>6. ASSUME NEW u \in Users, u = req[r].user, Phase(r, u)
      PROVE  PhaseOK(p, u, Charged(u), account[u], subs, live, row)
  <2>1. p.todo \in SettledTodos => Pays(account[u], Charged(u), subs)
    BY <1>4, <1>6 DEF Phase, PhaseOK
  <2>2. p.todo \in DeleteTodos => p.zone \in live /\ row[p.zone] = p.new
    BY <1>3, <1>4, <1>6 DEF Phase, PhaseOK, Deletes
  <2>3. account[u] \in {0, p.sub}
    BY <1>1, <1>3, <1>6 DEF Phase, PhaseOK
  <2>4. p.count = Charged(u) + p.extra
    BY <1>3, <1>6
  <2> QED
    BY <1>4, <2>1, <2>2, <2>3, <2>4, PhaseNext
<1> QED
  BY <1>1, <1>2, <1>4, <1>5, <1>6, BillReads

\* An owner's refused request has changed nothing; an administrator's goes on.
LEMMA BillRefused ==
    ASSUME TypeInv, BillInv, NEW r \in Slots, report_refused(r)
    PROVE  BillInv'
<1> DEFINE S == IF At(r, "report") THEN {} ELSE {req[r].user}
<1>1. /\ req[r].todo # <<>> /\ req[r].todo \in Todos
      /\ Excuse(S) /\ UNCHANGED <<live, row, account, subs>>
      /\ At(r, "report") => Head(req[r].todo) = "report" /\ Goto(r, Nothing)
  BY AtStep DEF report_refused, Reports, At, zoneVars, billVars
<1>2. /\ req'[r].todo # <<>> => req'[r].user = req[r].user
      /\ \A s \in Slots \ {r} : SameRequest(s)
  BY PlainTodo DEF Plain, KeepsData, SameRequest
<1>3. ASSUME NEW u \in Users, u = req[r].user, u \notin S, Phase(r, u)
      PROVE  req'[r].todo = <<>> /\ Pays(account[u], Charged(u), subs)
  <2>1. At(r, "report")
    BY <1>3
  <2>2. req[r].todo \in SettledTodos
    BY <1>1, <2>1, PhaseFlags
  <2> QED
    BY <1>1, <1>3, <2>1, <2>2, NothingTodo DEF Phase, PhaseOK
<1> HIDE DEF S
<1> QED
  BY <1>1, <1>2, <1>3, BillReads

LEMMA BillSnapshot ==
    ASSUME TypeInv, BillInv, NEW r \in Slots, snapshot(r)
    PROVE  BillInv'
<1> DEFINE p == [req[r] EXCEPT !.todo = Tail(@), !.snapshot =
          {[id |-> i, row |-> row[i]] :
              i \in {j \in live : row[j].owner = req[r].user /\ row[j].table = "forward"}}]
<1>1. /\ req[r].todo # <<>> /\ req[r].todo \in Todos /\ Head(req[r].todo) = "snapshot"
      /\ Excuse({}) /\ UNCHANGED <<live, row, account, subs>> /\ Goto(r, p)
  BY AtStep DEF snapshot, At, zoneVars, billVars
<1>2. /\ req'[r].todo # <<>> => req'[r].user = req[r].user
      /\ \A s \in Slots \ {r} : SameRequest(s)
  BY PlainTodo DEF Plain, KeepsData, SameRequest
<1>3. p.todo = Tail(req[r].todo)
  BY DEF TypeInv, ReqInv, Request
<1> HIDE DEF p
<1>4. p.todo # <<>> /\ p.todo \in Todos /\ Head(p.todo) = "domains" /\ p.todo \notin DeleteTodos
  BY <1>1, <1>3, StepFlags, TailKind
<1>5. req'[r] = p /\ req[r].todo \in SettledTodos
  BY <1>1, <1>4, GotoIs, PhaseFlags
<1>6. ASSUME NEW u \in Users, u = req[r].user, Phase(r, u)
      PROVE  PhaseOK(p, u, Charged(u), account[u], subs, live, row)
  <2>1. Pays(account[u], Charged(u), subs)
    BY <1>5, <1>6 DEF Phase, PhaseOK
  <2> QED
    BY <1>4, <2>1, PhaseNext
<1> QED
  BY <1>1, <1>2, <1>4, <1>5, <1>6, BillReads

\* The zones of a user that the service knows are counted and reported after
\* the saves; the zones of another one are saved, and may be charged, without.
LEMMA BillDomains ==
    ASSUME TypeInv, BillInv, NEW r \in Slots, domains(r)
    PROVE  BillInv'
<1> DEFINE changed == {z \in req[r].snapshot : z.row.charged # Wanted(req[r].user, z)}
           p == [req[r] EXCEPT !.todo = AfterDomains(req[r].user), !.snapshot =
             {[z EXCEPT !.row.charged = ~ @] : z \in changed}]
           S == {u \in {req[r].user} \ known : \E z \in req[r].snapshot : z.row.charged # Wanted(u, z)}
<1>1. /\ req[r].todo # <<>> /\ req[r].todo \in Todos /\ Head(req[r].todo) = "domains"
      /\ Excuse(S) /\ UNCHANGED <<live, row, account, subs>> /\ Goto(r, p)
  BY AtStep DEF domains, At, zoneVars, billVars
<1>2. /\ req'[r].todo # <<>> => req'[r].user = req[r].user
      /\ \A s \in Slots \ {r} : SameRequest(s)
  BY PlainTodo DEF Plain, KeepsData, SameRequest
<1>3. p.todo = AfterDomains(req[r].user) /\ (changed = {} => p.snapshot = {})
  BY DEF TypeInv, ReqInv, Request
<1>4. req[r].user \notin S => req[r].user \in known \/ changed = {}
  OBVIOUS
<1> HIDE DEF p, S, changed
<1>5. \/ p.todo = <<"save", "count", "report_anyway">>
      \/ p.todo = <<"save">> /\ req[r].user \notin known
  BY <1>3 DEF AfterDomains
<1>6. p.todo # <<>> /\ p.todo \in Todos
  BY <1>5, Members DEF Todos
<1>7. req'[r] = p /\ req[r].todo \in SettledTodos
  BY <1>1, <1>6, GotoIs, PhaseFlags
<1>8. ASSUME NEW u \in Users, u = req[r].user, u \notin S, Phase(r, u)
      PROVE  PhaseOK(p, u, Charged(u), account[u], subs, live, row)
  <2>1. Pays(account[u], Charged(u), subs)
    BY <1>7, <1>8 DEF Phase, PhaseOK
  <2>2. CASE p.todo = <<"save", "count", "report_anyway">>
    BY <1>6, <2>2, PhaseNext
  <2>3. CASE p.todo = <<"save">> /\ req[r].user \notin known
    <3>1. p.snapshot = {}
      BY <1>3, <1>4, <1>8, <2>3
    <3> QED
      BY <1>6, <2>1, <2>3, <3>1, PhaseNext
  <2> QED
    BY <1>5, <2>2, <2>3
<1> QED
  BY <1>1, <1>2, <1>6, <1>7, <1>8, BillReads

\* What a request is about, when its first step is done.
LEMMA PlainData ==
    ASSUME TypeInv, NEW r \in Slots, Go(r), req[r].todo # <<>>, req'[r].todo # <<>>
    PROVE  /\ KeepsData(req[r], req'[r]) /\ req'[r] \in Request /\ req'[r].todo \in Todos
           /\ req'[r].sub = req[r].sub
<1>1. /\ req'[r] = [req[r] EXCEPT !.todo = Tail(@)]
      /\ req'[r] \in Request /\ req[r] \in Request
  BY GoTodo DEF TypeInv, ReqInv
<1> QED
  BY <1>1 DEF KeepsData, Request

\* What is reported is what the request is going to make true.
LEMMA BillReport ==
    ASSUME TypeInv, BillInv, NEW r \in Slots, report_usage(r)
    PROVE  BillInv'
<1>1. /\ req[r].todo # <<>> /\ req[r].todo \in Todos
      /\ Head(req[r].todo) \in {"report", "report_anyway"}
      /\ req'[r].todo = Tail(req[r].todo)
      /\ \A s \in Slots \ {r} : req'[s] = req[s]
      /\ subs[req[r].sub].owner = req[r].user /\ req[r].sub # 0
      /\ subs'[req[r].sub].usage = req[r].count
      /\ \A k \in 1 .. Len(subs) : k # req[r].sub => subs'[k] = subs[k]
      /\ UNCHANGED <<live, row, account>> /\ Excuse({}) /\ Go(r)
  BY ReportTodo DEF report_usage, zoneVars
<1>2. req'[r].todo # <<>> => /\ KeepsData(req[r], req'[r]) /\ req'[r] \in Request
                             /\ req'[r].todo \in Todos
  BY <1>1, GoTodo, PlainData
<1>3. \A s \in Slots \ {r} : SameRequest(s)
  BY <1>1 DEF SameRequest
<1>4. \A v \in Users : v # req[r].user => SameBill(v)
  BY <1>1 DEF SameBill
<1>5. \A v : Charged(v)' = Charged(v)
  BY <1>1 DEF Charged
<1>6. ASSUME NEW u \in Users, u = req[r].user, Phase(r, u)
      PROVE  /\ req'[r].todo # <<>> => Phase(r, u)'
             /\ req'[r].todo = <<>> => Settled(u)'
  <2> DEFINE n == Charged(u)
             t == req[r].todo
             t2 == req'[r].todo
  <2>1. req[r].count = n + req[r].extra /\ account[u] \in {0, req[r].sub}
    BY <1>1, <1>6 DEF Phase, PhaseOK
  <2>2. Pays(account'[u], n + req[r].extra, subs')
    BY <1>1, <2>1 DEF Pays
  <2>3. \/ t2 = <<>> /\ t \in Uncounted
        \/ /\ t2 # <<>> /\ Head(t2) \in {"insert", "delete"}
           /\ t2 \in DeleteTodos => t \in DeleteTodos
    BY <1>1, StepFlags
  <2>4. CASE t2 = <<>> /\ t \in Uncounted
    <3>1. req[r].extra = 0
      BY <2>4, AtStep DEF Good, ExtraFits
    <3>2. n \in Nat
      BY ChargedTypes, Zenon
    <3>3. n + req[r].extra = n
      BY <3>1, <3>2
    <3> QED
      BY <1>5, <2>2, <2>4, <3>3 DEF Settled, Pays
  <2>5. CASE /\ t2 # <<>> /\ Head(t2) \in {"insert", "delete"}
             /\ t2 \in DeleteTodos => t \in DeleteTodos
    <3>1. /\ req'[r].zone = req[r].zone /\ req'[r].new = req[r].new /\ req'[r].extra = req[r].extra
          /\ t2 \in Todos
      BY <1>2, <2>5 DEF KeepsData
    <3>2. t2 \in DeleteTodos => req'[r].zone \in live' /\ row'[req'[r].zone] = req'[r].new
      BY <1>1, <1>6, <2>5, <3>1 DEF Phase, PhaseOK, Deletes
    <3> HIDE DEF n
    <3>3. PhaseOK(req'[r], u, n, account'[u], subs', live', row')
      BY <2>2, <2>5, <3>1, <3>2, PhaseNext
    <3> QED
      BY <1>5, <2>5, <3>3 DEF Phase, n
  <2> QED
    BY <2>3, <2>4, <2>5
<1> QED
  BY <1>1, <1>2, <1>3, <1>4, <1>6, BillStep DEF KeepsData

\* What the steps up to here lead to, if the account has to be saved first.
LEMMA SaveFlags ==
    ASSUME NEW t \in Todos, Head(t) \in {"report", "report_anyway"}, t # <<>>,
           NEW t2, t2 = [t EXCEPT ![1] = "save_account"]
    PROVE  t2 \in DeleteTodos => t \in DeleteTodos
<1>1. CASE t = <<"report", "insert">> \/ t = <<"report">> \/ t = <<"report_anyway">>
  <2>1. t2 = <<"save_account", "insert">> \/ t2 = <<"save_account">>
    BY <1>1, SavesFirst
  <2> QED
    BY <2>1, Members, Kinds
<1>2. CASE t = <<"report", "delete">> \/ t = <<"report_anyway", "delete">>
  BY <1>2, Members
<1> QED
  BY <1>1, <1>2, Heads

LEMMA BillSubscribe ==
    ASSUME TypeInv, BillInv, NEW r \in Slots, subscribe_user(r)
    PROVE  BillInv'
<1>1. /\ req[r].todo # <<>> /\ req[r].todo \in Todos /\ req[r].sub = 0
      /\ Head(req[r].todo) \in {"report", "report_anyway"}
      /\ req'[r].todo = [req[r].todo EXCEPT ![1] = "save_account"]
      /\ req'[r].todo # <<>> /\ Head(req'[r].todo) = "save_account"
      /\ req'[r].sub = Len(subs) + 1 /\ KeepsData(req[r], req'[r])
      /\ \A s \in Slots \ {r} : req'[s] = req[s]
      /\ Len(subs) \in Nat
      /\ subs'[Len(subs) + 1] = [owner |-> req[r].user, usage |-> req[r].count, open |-> TRUE]
      /\ \A k \in 1 .. Len(subs) : subs'[k] = subs[k]
      /\ UNCHANGED <<live, row, account>> /\ Excuse({})
  BY SubscribeTodo DEF subscribe_user, zoneVars
<1>2. req'[r].todo \in Todos /\ (req'[r].todo \in DeleteTodos => req[r].todo \in DeleteTodos)
  BY <1>1, SaveFlags, TailKind
<1>3. \A s \in Slots \ {r} : SameRequest(s)
  BY <1>1 DEF SameRequest
<1>4. \A v \in Users : SameBill(v)
  BY <1>1 DEF SameBill
<1>5. \A v : Charged(v)' = Charged(v)
  BY <1>1 DEF Charged
<1>6. ASSUME NEW u \in Users, u = req[r].user, Phase(r, u)
      PROVE  Phase(r, u)'
  <2> DEFINE n == Charged(u)
  <2>1. req[r].count = n + req[r].extra /\ account[u] = 0
    BY <1>1, <1>6 DEF Phase, PhaseOK
  <2>2. /\ req'[r].zone = req[r].zone /\ req'[r].new = req[r].new /\ req'[r].extra = req[r].extra
    BY <1>1 DEF KeepsData
  <2>3. req'[r].todo \in DeleteTodos => req'[r].zone \in live' /\ row'[req'[r].zone] = req'[r].new
    BY <1>1, <1>2, <1>6, <2>2 DEF Phase, PhaseOK, Deletes
  <2>4. account'[u] = 0 /\ req'[r].sub # 0 /\ subs'[req'[r].sub].usage = n + req'[r].extra
    BY <1>1, <2>1, <2>2
  <2> HIDE DEF n
  <2>5. PhaseOK(req'[r], u, n, account'[u], subs', live', row')
    BY <1>1, <1>2, <2>3, <2>4, PhaseNext
  <2> QED
    BY <1>5, <2>5 DEF Phase, n
<1> QED
  BY <1>1, <1>3, <1>4, <1>6, BillStep DEF KeepsData

LEMMA BillSave ==
    ASSUME TypeInv, BillInv, NEW r \in Slots, save_account(r)
    PROVE  BillInv'
<1>1. /\ req[r].todo # <<>> /\ req[r].todo \in Todos /\ Head(req[r].todo) = "save_account"
      /\ UNCHANGED <<live, row, subs>> /\ Excuse({}) /\ Go(r)
      /\ account' = [account EXCEPT ![req[r].user] = req[r].sub] /\ account \in [Users -> Nat]
  BY AtStep DEF save_account, Saved, At, zoneVars, TypeInv, BillTypes
<1>2. /\ req'[r].todo = Tail(req[r].todo)
      /\ \A s \in Slots \ {r} : req'[s] = req[s]
  BY <1>1, GoTodo
<1>3. req'[r].todo # <<>> => /\ KeepsData(req[r], req'[r]) /\ req'[r] \in Request
                             /\ req'[r].todo \in Todos
  BY <1>1, PlainData
<1>4. \A s \in Slots \ {r} : SameRequest(s)
  BY <1>2 DEF SameRequest
<1>5. \A v \in Users : v # req[r].user => SameBill(v)
  BY <1>1 DEF SameBill
<1>6. \A v : Charged(v)' = Charged(v)
  BY <1>1 DEF Charged
<1>7. ASSUME NEW u \in Users, u = req[r].user, Phase(r, u)
      PROVE  /\ req'[r].todo # <<>> => Phase(r, u)'
             /\ req'[r].todo = <<>> => Settled(u)'
  <2> DEFINE n == Charged(u)
             t == req[r].todo
             t2 == req'[r].todo
  <2>1. req[r].sub # 0 /\ subs[req[r].sub].usage = n + req[r].extra
    BY <1>1, <1>7 DEF Phase, PhaseOK
  <2>2. Pays(account'[u], n + req[r].extra, subs')
    BY <1>1, <1>7, <2>1 DEF Pays
  <2>3. \/ t2 = <<>> /\ t \in Uncounted
        \/ /\ t2 # <<>> /\ Head(t2) \in {"insert", "delete"}
           /\ t2 \in DeleteTodos => t \in DeleteTodos
    BY <1>1, <1>2, StepFlags
  <2>4. CASE t2 = <<>> /\ t \in Uncounted
    <3>1. req[r].extra = 0
      BY <2>4, AtStep DEF Good, ExtraFits
    <3>2. n \in Nat
      BY ChargedTypes, Zenon
    <3>3. n + req[r].extra = n
      BY <3>1, <3>2
    <3> QED
      BY <1>6, <2>2, <2>4, <3>3 DEF Settled, Pays
  <2>5. CASE /\ t2 # <<>> /\ Head(t2) \in {"insert", "delete"}
             /\ t2 \in DeleteTodos => t \in DeleteTodos
    <3>1. /\ req'[r].zone = req[r].zone /\ req'[r].new = req[r].new /\ req'[r].extra = req[r].extra
          /\ t2 \in Todos
      BY <1>3, <2>5 DEF KeepsData
    <3>2. t2 \in DeleteTodos => req'[r].zone \in live' /\ row'[req'[r].zone] = req'[r].new
      BY <1>1, <1>7, <2>5, <3>1 DEF Phase, PhaseOK, Deletes
    <3> HIDE DEF n
    <3>3. PhaseOK(req'[r], u, n, account'[u], subs', live', row')
      BY <2>2, <2>5, <3>1, <3>2, PhaseNext
    <3> QED
      BY <1>6, <2>5, <3>3 DEF Phase, n
  <2> QED
    BY <2>3, <2>4, <2>5
<1> QED
  BY <1>1, <1>3, <1>4, <1>5, <1>7, BillStep DEF KeepsData

LEMMA BillDies ==
    ASSUME TypeInv, BillInv, NEW r \in Slots, dies(r)
    PROVE  BillInv'
<1>1. /\ req[r].todo # <<>> /\ req'[r].todo = <<>> /\ \A s \in Slots \ {r} : req'[s] = req[s]
      /\ UNCHANGED <<live, row, account, subs>> /\ Excuse({req[r].user})
  BY NothingTodo DEF dies, zoneVars, billVars
<1>2. \A s \in Slots \ {r} : SameRequest(s)
  BY <1>1 DEF SameRequest
<1> QED
  BY <1>1, <1>2, BillReads

\* The row that was reported.
LEMMA BillInsert ==
    ASSUME TypeInv, BillInv, NEW r \in Slots, insert(r)
    PROVE  BillInv'
<1> DEFINE k == created + 1
           new == req[r].new
<1>1. /\ created \in Nat /\ k \in Ids /\ k \notin live /\ live' = live \cup {k}
      /\ row'[k] = new /\ \A i \in Ids \ {k} : row'[i] = row[i]
      /\ Inserts(req[r])
  BY InsertEffect
<1>2. /\ req[r].todo # <<>> /\ req[r].todo \in Todos /\ Head(req[r].todo) = "insert"
      /\ UNCHANGED <<account, subs>> /\ Excuse({})
  BY AtStep DEF insert, At, billVars
<1>3. /\ req'[r].todo # <<>> => req'[r].user = req[r].user
      /\ \A s \in Slots \ {r} : SameRequest(s)
  BY PlainTodo DEF Plain, KeepsData, SameRequest
<1>4. req'[r].todo = Tail(req[r].todo)
  <2>1. req'[r] = Ended([req[r] EXCEPT !.todo = Tail(@)])
    BY InsertEffect
  <2> QED
    BY <2>1, NothingOK DEF Ended, TypeInv, ReqInv, Request
<1>5. \A i \in live : i \in Ids /\ i # k
  BY <1>1, RowsOf
<1>6. new.owner = req[r].user /\ new \in Row
  BY <1>1, AtStep DEF Good, ExtraFits, Request
<1>7. \A v \in Users : v # req[r].user => SameBill(v)
  BY <1>1, <1>2, <1>5, <1>6 DEF SameBill
<1>8. ASSUME NEW u \in Users, u = req[r].user, Phase(r, u), req'[r].todo # <<>>
      PROVE  Phase(r, u)'
  <2>1. req'[r].todo = <<"count", "report_anyway">>
    BY <1>2, <1>4, <1>8, StepFlags
  <2>2. req'[r].todo \in Todos
    BY <1>2, <1>4, TailKind
  <2>3. \A n : PhaseOK(req'[r], u, n, account'[u], subs', live', row')
    BY <2>1, <2>2, <1>8, PhaseNext
  <2> QED
    BY <2>3 DEF Phase
<1>9. ASSUME NEW u \in Users, u = req[r].user, Phase(r, u), req'[r].todo = <<>>
      PROVE  Settled(u)'
  <2> DEFINE Mine == {i \in live : row[i].owner = u /\ row[i].charged}
             Later == {i \in live' : row'[i].owner = u /\ row'[i].charged}
             n == Charged(u)
  <2>1. req[r].todo \in OwnerTodos /\ req[r].todo \notin AdminTodos
    <3>1. <<"count", "report_anyway">> # <<>>
      OBVIOUS
    <3> QED
      BY <1>2, <1>4, <1>9, <3>1, StepFlags
  <2>2. req[r].extra = IF new.charged THEN 1 ELSE 0
    BY <2>1, AtStep DEF Good, ExtraFits
  <2>3. Pays(account[u], n + req[r].extra, subs)
    BY <1>2, <1>9, <2>1 DEF Phase, PhaseOK
  <2>4. IsFiniteSet(Mine) /\ n \in Nat /\ n = Cardinality(Mine)
    BY ChargedTypes, Zenon DEF Charged
  <2>5. k \notin Mine
    BY <1>1
  <2>6. Later = IF new.charged THEN Mine \cup {k} ELSE Mine
    BY <1>1, <1>5, <1>6, <1>9
  <2> HIDE DEF Mine
  <2>7. Cardinality(Mine \cup {k}) = Cardinality(Mine) + 1
    BY <2>4, <2>5, FS_AddElement, Zenon
  <2>8. Charged(u)' = Cardinality(Later)
    BY DEF Charged
  <2> HIDE DEF Later, n
  <2>9. Charged(u)' = n + req[r].extra
    BY <2>2, <2>4, <2>6, <2>7, <2>8
  <2> QED
    BY <1>2, <2>3, <2>9 DEF Settled, Pays
<1> QED
  BY <1>2, <1>3, <1>7, <1>8, <1>9, BillStep

\* The row that was reported goes, as it was loaded.
LEMMA BillDelete ==
    ASSUME TypeInv, BillInv, NEW r \in Slots, delete(r)
    PROVE  BillInv'
<1> DEFINE k == req[r].zone
           new == req[r].new
           S == IF req[r].extra = -1 /\ ~ new.charged THEN {req[r].user} ELSE {}
<1>1. /\ req[r].todo # <<>> /\ req[r].todo \in Todos /\ Head(req[r].todo) = "delete"
      /\ UNCHANGED <<row, account, subs>> /\ live' = live \ {k} /\ Go(r) /\ Excuse(S)
  BY AtStep DEF delete, At, billVars
<1>2. /\ \A s \in Slots \ {r} : SameRequest(s)
  BY PlainTodo DEF Plain, SameRequest
<1>3. req'[r].todo = <<>> /\ req[r].todo \in DeleteTodos
  <2>1. req'[r].todo = Tail(req[r].todo)
    BY <1>1, GoTodo
  <2> QED
    BY <2>1, <1>1, StepFlags, PhaseFlags
<1>4. /\ new.owner = req[r].user /\ row[k].owner = new.owner /\ new \in Row
      /\ req[r].extra = -1 \/ (req[r].extra = 0 /\ ~ new.charged)
  BY <1>3, AtStep DEF Good, ExtraFits, LoadedOK, Deletes, SameZone, Request
<1>5. \A v \in Users : v # req[r].user => SameBill(v)
  BY <1>1, <1>4 DEF SameBill
<1>6. ASSUME NEW u \in Users, u = req[r].user, u \notin S, Phase(r, u)
      PROVE  Settled(u)'
  <2> DEFINE Mine == {i \in live : row[i].owner = u /\ row[i].charged}
             Later == {i \in live' : row'[i].owner = u /\ row'[i].charged}
             n == Charged(u)
  <2>1. req[r].extra = IF new.charged THEN -1 ELSE 0
    BY <1>4, <1>6 DEF Row
  <2>2. Pays(account[u], n + req[r].extra, subs)
    <3>1. req[r].todo \notin AdminTodos
      BY <1>3, Kinds
    <3> QED
      BY <1>1, <1>6, <3>1 DEF Phase, PhaseOK
  <2>3. k \in live /\ row[k] = new
    BY <1>3, <1>6 DEF Phase, PhaseOK, Deletes
  <2>4. IsFiniteSet(Mine) /\ n \in Nat /\ n = Cardinality(Mine)
    BY ChargedTypes, Zenon DEF Charged
  <2>5. Later = Mine \ {k} /\ (k \in Mine <=> new.charged)
    BY <1>1, <1>4, <1>6, <2>3
  <2> HIDE DEF Mine
  <2>6. Cardinality(Mine \ {k}) = IF k \in Mine THEN Cardinality(Mine) - 1 ELSE Cardinality(Mine)
    BY <2>4, FS_RemoveElement, Zenon
  <2>7. Charged(u)' = Cardinality(Later)
    BY DEF Charged
  <2> HIDE DEF Later, n
  <2>8. Charged(u)' = n + req[r].extra
    BY <2>1, <2>4, <2>5, <2>6, <2>7
  <2> QED
    BY <1>1, <2>2, <2>8 DEF Settled, Pays
<1> HIDE DEF S
<1> QED
  BY <1>1, <1>2, <1>3, <1>5, <1>6, BillStep

\* A row that has not changed since it was loaded is saved without an effect;
\* one that has is somebody else's, or is counted and reported afterwards.
LEMMA BillSaveRow ==
    ASSUME TypeInv, BillInv, NEW r \in Slots, save(r)
    PROVE  BillInv'
<1>1. /\ req[r].todo # <<>> /\ req[r].todo \in Todos /\ Head(req[r].todo) = "save"
      /\ UNCHANGED <<account, subs>>
  BY AtStep DEF save, At, billVars
<1>2. /\ req'[r].todo # <<>> => req'[r].user = req[r].user
      /\ \A s \in Slots \ {r} : SameRequest(s)
  <2>1. save(r) => \A s \in Slots \ {r} : req'[s] = req[s]
    BY GotoIs DEF save, Go
  <2> QED
    BY <2>1, PlainTodo DEF Plain, KeepsData, SameRequest
<1>3. CASE Go(r) /\ UNCHANGED <<live, row>> /\ Excuse({})
  <2>1. \/ req'[r].todo = <<>> /\ req[r].todo \in SettledTodos
        \/ req'[r].todo = <<"count", "report_anyway">> /\ req'[r].todo \in Todos /\ req'[r].todo # <<>>
    <3>1. req'[r].todo = Tail(req[r].todo)
      BY <1>1, <1>3, GoTodo
    <3>2. <<"count", "report_anyway">> # <<>>
      OBVIOUS
    <3> QED
      BY <1>1, <3>1, <3>2, StepFlags, TailKind
  <2>2. ASSUME NEW u \in Users, u = req[r].user, Phase(r, u)
        PROVE  /\ req'[r].todo # <<>> => PhaseOK(req'[r], u, Charged(u), account[u], subs, live, row)
               /\ req'[r].todo = <<>> => Pays(account[u], Charged(u), subs)
    <3>1. CASE req'[r].todo = <<>> /\ req[r].todo \in SettledTodos
      BY <2>2, <3>1 DEF Phase, PhaseOK
    <3>2. CASE req'[r].todo = <<"count", "report_anyway">> /\ req'[r].todo \in Todos /\ req'[r].todo # <<>>
      BY <3>2, PhaseNext
    <3> QED
      BY <2>1, <3>1, <3>2
  <2> QED
    BY <1>1, <1>2, <1>3, <2>2, BillReads
<1>4. ASSUME NEW z \in req[r].snapshot, live' = live \cup {z.id}, row' = [row EXCEPT ![z.id] = z.row],
             Goto(r, [req[r] EXCEPT !.snapshot = @ \ {z}]),
             Excuse(IF Reverts(z) THEN {z.row.owner} \ {req[r].user} ELSE {})
      PROVE  BillInv'
  <2> DEFINE S == IF Reverts(z) THEN {z.row.owner} \ {req[r].user} ELSE {}
             p == [req[r] EXCEPT !.snapshot = @ \ {z}]
  <2>1. /\ z.id \in Ids /\ row[z.id].owner = z.row.owner /\ row \in [Ids -> Row]
        /\ live \subseteq Ids
    BY CopyOK, RowsOf DEF SameZone, TypeInv, ZoneTypes
  <2>2. row'[z.id] = z.row /\ \A i \in Ids \ {z.id} : row'[i] = row[i]
    BY <1>4, <2>1
  <2>3. \A v \in Users : v # z.row.owner => SameBill(v)
    BY <1>1, <1>4, <2>1, <2>2 DEF SameBill
  <2>4. ASSUME ~ Reverts(z)
        PROVE  \A v \in Users : SameBill(v)
    <3>1. live' = live /\ \A i \in live : row'[i] = row[i]
      BY <1>4, <2>1, <2>2, <2>4 DEF Reverts
    <3> QED
      BY <1>1, <3>1 DEF SameBill
  <2>5. \A v \in Users : v # req[r].user /\ v \notin S => SameBill(v)
    BY <2>3, <2>4
  <2>6. /\ p.todo = req[r].todo /\ p.snapshot = req[r].snapshot \ {z}
    BY DEF TypeInv, ReqInv, Request
  <2>7. Excuse(S)
    BY <1>4
  <2>8. Goto(r, p)
    BY <1>4
  <2> HIDE DEF p, S
  <2>9. req'[r] = p
    BY <1>1, <2>6, <2>8, GotoIs
  <2>10. ASSUME NEW u \in Users, u = req[r].user, Phase(r, u)
         PROVE  Phase(r, u)'
    <3>1. CASE req[r].todo = <<"save", "count", "report_anyway">>
      <4>1. \A n : PhaseOK(p, u, n, account'[u], subs', live', row')
        BY <1>1, <2>6, <3>1, PhaseNext
      <4> QED
        BY <2>9, <4>1 DEF Phase
    <3>2. CASE req[r].todo = <<"save">>
      <4>1. /\ Pays(account[u], Charged(u), subs)
            /\ \A y \in req[r].snapshot : y.row.owner = u => y.id \in live /\ row[y.id] = y.row
        <5>1. req[r].todo \in SettledTodos
          BY <3>2, SettledMembers
        <5> QED
          BY <2>10, <3>2, <5>1 DEF Phase, PhaseOK
      <4>2. SameBill(u)
        BY <2>3, <2>4, <4>1 DEF Reverts
      <4>3. Pays(account'[u], Charged(u), subs') /\ Charged(u)' = Charged(u)
        BY <4>1, <4>2, PaysSame, ChargedSame
      <4>4. \A y \in p.snapshot : y.row.owner = u => y.id \in live' /\ row'[y.id] = y.row
        BY <2>6, <4>1, <4>2 DEF SameBill
      <4>5. PhaseOK(p, u, Charged(u), account'[u], subs', live', row')
        BY <1>1, <2>6, <3>2, <4>3, <4>4, PhaseNext
      <4> QED
        BY <2>9, <4>3, <4>5 DEF Phase
    <3> QED
      BY <1>1, <3>1, <3>2, Heads
  <2>11. req'[r].todo # <<>>
    BY <1>1, <2>6, <2>9
  <2> QED
    BY <1>1, <1>2, <2>5, <2>7, <2>10, <2>11, BillStep
<1> QED
  BY <1>3, <1>4 DEF save

\* A request begins alone, or its user has an excuse.
LEMMA BillBegin ==
    ASSUME TypeInv, BillInv, NEW r \in Slots, NEW w \in Users, NEW t, NEW zone, NEW new, NEW extra,
           Begin(r, w, t, zone, new, extra), t # <<>>,
           Settled(w) => PhaseOK(Begun(w, t, zone, new, extra), w, Charged(w), account[w], subs, live, row)
    PROVE  BillInv'
<1> DEFINE S == IF Busy(w) THEN {w} ELSE {}
<1>1. /\ req[r].todo = <<>> /\ req'[r] = Begun(w, t, zone, new, extra)
      /\ req'[r].todo = t /\ req'[r].user = w
      /\ \A s \in Slots \ {r} : req'[s] = req[s]
      /\ UNCHANGED <<live, row, account, subs>>
  BY BeginTodo DEF zoneVars, billVars
<1>2. Excuse(S)
  BY DEF Begin
<1>3. \A v : SameBill(v) /\ Charged(v)' = Charged(v)
  BY <1>1, BillQuiet
<1>4. ASSUME NEW u \in Users, u \notin excused, u \notin S
      PROVE  BillAt(u)'
  <2>1. BillAt(u)
    BY <1>4 DEF BillInv
  <2>2. CASE u # w
    <3>1. \A s \in Slots : BusyAt(s, u)' <=> BusyAt(s, u)
      BY <1>1, <2>2 DEF BusyAt
    <3>2. \A s \in Slots : BusyAt(s, u) => SameRequest(s)
      BY <1>1 DEF BusyAt, SameRequest
    <3> QED
      BY <1>3, <2>1, <3>1, <3>2, BillSame
  <2>3. CASE u = w
    <3>1. ~ Busy(w)
      BY <1>4, <2>3
    <3>2. Settled(w)
      BY <2>1, <2>3, <3>1 DEF BillAt
    <3>3. \A s \in Slots : BusyAt(s, u)' <=> s = r
      BY <1>1, <2>3, <3>1 DEF BusyAt, Busy
    <3>4. PhaseOK(req'[r], w, Charged(w), account[w], subs, live, row)
      BY <1>1, <3>2
    <3>5. Phase(r, u)'
      BY <1>1, <1>3, <2>3, <3>4 DEF Phase
    <3> QED
      BY <3>3, <3>5 DEF BillAt, Busy, BusyAt
  <2> QED
    BY <2>2, <2>3
<1> HIDE DEF S
<1> QED
  BY <1>2, <1>4, BillExcuse

LEMMA BegunIs ==
    ASSUME NEW u, NEW t, NEW zone, NEW new, NEW extra
    PROVE  LET q == Begun(u, t, zone, new, extra)
           IN  q.todo = t /\ q.zone = zone /\ q.new = new /\ q.extra = extra /\ q.sub = 0
  BY NothingOK DEF Begun, Nothing

\* What is asked of the first steps.
LEMMA BeginPhases ==
    ASSUME NEW u \in Users, Settled(u), NEW zone, NEW new, NEW extra
    PROVE  LET OK(t) == PhaseOK(Begun(u, t, zone, new, extra), u, Charged(u), account[u], subs, live, row)
           IN  /\ OK(<<"check", "count", "report", "insert">>)
               /\ OK(<<"existing", "check", "count", "report", "insert">>)
               /\ OK(<<"insert", "count", "report_anyway">>)
               /\ OK(<<"snapshot", "domains", "count", "report_anyway">>)
               /\ account[u] = 0 => OK(<<"count_loaded", "report">>)
               /\ zone \in live /\ row[zone] = new => /\ OK(<<"count", "report", "delete">>)
                                                      /\ OK(<<"count", "report_anyway", "delete">>)
<1> DEFINE OK(t) == PhaseOK(Begun(u, t, zone, new, extra), u, Charged(u), account[u], subs, live, row)
<1>1. Pays(account[u], Charged(u), subs)
  BY SettledPays
<1>2. ASSUME NEW t \in Todos, t # <<>>, Head(t) \in {"existing", "check", "snapshot"}, t \notin DeleteTodos
      PROVE  OK(t)
  BY <1>1, <1>2, BegunIs, PhaseNext
<1>3. ASSUME NEW t \in Todos, t # <<>>, Head(t) = "count", zone \in live, row[zone] = new
      PROVE  OK(t)
  BY <1>1, <1>3, BegunIs, PhaseNext
<1>4. ASSUME NEW t, t \in AdminTodos
      PROVE  OK(t)
  <2>1. Head(t) = "insert" /\ t \notin DeleteTodos /\ t # <<"save">>
    BY <1>4, Kinds, FirstSteps DEF AdminTodos
  <2> QED
    BY <1>1, <1>4, <2>1, BegunIs DEF PhaseOK, Deletes
<1>5. ASSUME NEW t, Head(t) = "count_loaded", t \notin DeleteTodos, account[u] = 0
      PROVE  OK(t)
  <2>1. t # <<"save">>
    BY <1>5, FirstSteps
  <2> QED
    BY <1>1, <1>5, <2>1, BegunIs DEF PhaseOK, Deletes
<1> HIDE DEF OK
<1>6. /\ OK(<<"check", "count", "report", "insert">>)
      /\ OK(<<"existing", "check", "count", "report", "insert">>)
      /\ OK(<<"snapshot", "domains", "count", "report_anyway">>)
  BY <1>2, FirstSteps, Members, Kinds DEF Todos
<1>7. zone \in live /\ row[zone] = new => /\ OK(<<"count", "report", "delete">>)
                                          /\ OK(<<"count", "report_anyway", "delete">>)
  BY <1>3, FirstSteps, Members DEF Todos
<1>8. OK(<<"insert", "count", "report_anyway">>)
  BY <1>4, Members
<1>9. account[u] = 0 => OK(<<"count_loaded", "report">>)
  BY <1>5, FirstSteps, Members, Kinds
<1> QED
  BY <1>6, <1>7, <1>8, <1>9 DEF OK

LEMMA BillBegins ==
    ASSUME TypeInv, BillInv, Begins
    PROVE  BillInv'
<1>0. /\ \A r \in Requests : r \in Slots
      /\ Cron \in Slots
  BY BoundsAssumption DEF Requests, Slots, Cron
<1>1. /\ <<"check", "count", "report", "insert">> # <<>>
      /\ <<"existing", "check", "count", "report", "insert">> # <<>>
      /\ <<"insert", "count", "report_anyway">> # <<>>
      /\ <<"snapshot", "domains", "count", "report_anyway">> # <<>>
      /\ <<"count_loaded", "report">> # <<>>
      /\ <<"count", "report", "delete">> # <<>>
      /\ <<"count", "report_anyway", "delete">> # <<>>
  OBVIOUS
<1>2. ASSUME NEW r \in Requests, NEW u \in Users, NEW c \in Creates, create_zone(r, u, c[1], c[2])
      PROVE  BillInv'
  BY <1>0, <1>1, <1>2, BillBegin, BeginPhases DEF create_zone
<1>3. ASSUME NEW r \in Requests, NEW u \in Users, NEW c \in AdminCreates,
             admin_create(r, u, c[1], c[2])
      PROVE  BillInv'
  BY <1>0, <1>1, <1>3, BillBegin, BeginPhases DEF admin_create
<1>4. ASSUME NEW r \in Requests, NEW u \in Users, NEW n \in Registrable, create_domains_zone(r, u, n)
      PROVE  BillInv'
  BY <1>0, <1>1, <1>4, BillBegin, BeginPhases DEF create_domains_zone
<1>5. ASSUME NEW r \in Requests, NEW i \in Ids, delete_zone(r, i)
      PROVE  BillInv'
  <2>1. i \in live /\ row[i].owner \in Users
    BY <1>5, RowsOf DEF delete_zone
  <2> QED
    BY <1>0, <1>1, <1>5, <2>1, BillBegin, BeginPhases DEF delete_zone
<1>6. ASSUME NEW r \in Requests, NEW i \in Ids, admin_delete(r, i)
      PROVE  BillInv'
  <2>1. i \in live /\ row[i].owner \in Users
    BY <1>6, RowsOf DEF admin_delete
  <2> QED
    BY <1>0, <1>1, <1>6, <2>1, BillBegin, BeginPhases DEF admin_delete
<1>7. ASSUME NEW r \in Requests, NEW u \in Users, setup_subscription(r, u)
      PROVE  BillInv'
  BY <1>0, <1>1, <1>7, BillBegin, BeginPhases DEF setup_subscription
<1>8. ASSUME NEW u \in Users, validate_charged(u)
      PROVE  BillInv'
  BY <1>0, <1>1, <1>8, BillBegin, BeginPhases DEF validate_charged
<1> QED
  BY <1>2, <1>3, <1>4, <1>5, <1>6, <1>7, <1>8 DEF Begins

\* Domains and subscriptions come and go elsewhere.
LEMMA BillOutside ==
    ASSUME TypeInv, BillInv
    PROVE  /\ UNCHANGED vars => BillInv'
           /\ \A n \in Names : domain_changes(n) => BillInv'
           /\ \A w \in Users : sub_cancelled(w) \/ user_saved(w) => BillInv'
           /\ \A w \in Users : \A id \in loaded[w] : create_user_profile(w, id) => BillInv'
<1>1. ASSUME UNCHANGED <<live, row, account, subs, req>>, NEW u \in Users, BillAt(u)
      PROVE  BillAt(u)'
  BY <1>1 DEF BillAt, BusyAt, Busy, Settled, Charged, Phase
<1>2. UNCHANGED vars \/ (\E n \in Names : domain_changes(n)) \/ (\E w \in Users : user_saved(w)) =>
         UNCHANGED <<live, row, account, subs, req, excused>>
  BY DEF vars, zoneVars, billVars, domain_changes, user_saved
<1>3. UNCHANGED <<live, row, account, subs, req, excused>> => BillInv'
  BY <1>1 DEF BillInv
<1>4. ASSUME NEW w \in Users, sub_cancelled(w)
      PROVE  BillInv'
  <2> DEFINE a == account[w]
             x == [subs[a] EXCEPT !.open = FALSE]
  <2>1. /\ a \in 1 .. Len(subs) /\ subs' = [subs EXCEPT ![a] = x]
        /\ account' = [account EXCEPT ![w] = 0] /\ UNCHANGED <<live, row, req>> /\ Excuse({})
        /\ account \in [Users -> Nat] /\ subs \in Seq(Subscription)
    BY <1>4 DEF sub_cancelled, zoneVars, TypeInv, BillTypes
  <2>2. x \in Subscription /\ x.usage = subs[a].usage
    BY <2>1, SubsElements DEF Subscription
  <2> HIDE DEF x
  <2>3. /\ subs'[a] = x /\ \A k \in 1 .. Len(subs) : k # a => subs'[k] = subs[k]
    BY <2>1, <2>2, SubsChange
  <2>4. \A v \in Users : SameBill(v)
    BY <2>1, <2>2, <2>3 DEF SameBill
  <2>5. ASSUME NEW u \in Users, u \notin excused
        PROVE  BillAt(u)'
    <3>1. \A s \in Slots : (BusyAt(s, u)' <=> BusyAt(s, u)) /\ SameRequest(s)
      BY <2>1 DEF BusyAt, SameRequest
    <3> QED
      BY <2>4, <2>5, <3>1, BillSame DEF BillInv
  <2> QED
    BY <2>1, <2>5, BillExcuse
<1>5. ASSUME NEW w \in Users, NEW id \in loaded[w], create_user_profile(w, id)
      PROVE  BillInv'
  <2> DEFINE S == IF id \in {0, account[w]} THEN {} ELSE {w}
  <2>1. /\ account' = [account EXCEPT ![w] = id] /\ UNCHANGED <<live, row, req, subs>>
        /\ Excuse(S) /\ account \in [Users -> Nat]
    BY <1>5 DEF create_user_profile, zoneVars, TypeInv, BillTypes
  <2>2. ASSUME NEW u \in Users, u \notin excused, u \notin S
        PROVE  BillAt(u)'
    <3>1. account'[u] \in {account[u], 0}
      BY <2>1, <2>2
    <3>2. SameBill(u)
      BY <2>1, <3>1 DEF SameBill
    <3>3. \A s \in Slots : (BusyAt(s, u)' <=> BusyAt(s, u)) /\ SameRequest(s)
      BY <2>1 DEF BusyAt, SameRequest
    <3> QED
      BY <2>2, <3>2, <3>3, BillSame DEF BillInv
  <2> HIDE DEF S
  <2> QED
    BY <2>1, <2>2, BillExcuse
<1> QED
  BY <1>2, <1>3, <1>4, <1>5

LEMMA BillInit ==
    ASSUME Init
    PROVE  BillInv
<1>1. \A r \in Slots : req[r].todo = <<>>
  BY NothingOK DEF Init
<1>2. ASSUME NEW u \in Users
      PROVE  Settled(u)
  <2>1. CASE account[u] = 0
    BY <2>1 DEF Settled
  <2>2. ASSUME account[u] # 0
        PROVE  subs[account[u]].usage = Charged(u)
    <3>1. PICK v \in Users, c \in Creates, charged \in BOOLEAN :
             /\ created = 1
             /\ row = [i \in Ids |-> IF i = 1 THEN NewRow(v, c[1], c[2], charged) ELSE AnyRow]
             /\ account = [w \in Users |-> IF w = v THEN 1 ELSE 0]
             /\ subs = <<[owner |-> v, usage |-> IF charged THEN 1 ELSE 0, open |-> TRUE]>>
      BY <2>2 DEF Init
    <3>2. u = v /\ account[u] = 1 /\ subs[1].usage = IF charged THEN 1 ELSE 0
      BY <2>2, <3>1
    <3>3. 1 \in Ids
      BY BoundsAssumption DEF Ids
    <3>4. row[1] = NewRow(v, c[1], c[2], charged)
      BY <3>1, <3>3
    <3>5. row[1].owner = u /\ row[1].charged = charged
      BY <3>2, <3>4 DEF NewRow
    <3>6. live = {1}
      BY <3>1 DEF Init
    <3>7. {i \in live : row[i].owner = u /\ row[i].charged} = IF charged THEN {1} ELSE {}
      BY <3>5, <3>6
    <3>8. Cardinality({}) = 0 /\ Cardinality({1}) = 1
      BY FS_EmptySet, FS_Singleton
    <3> QED
      BY <3>2, <3>7, <3>8 DEF Charged
  <2> QED
    BY <2>1, <2>2 DEF Settled
<1> QED
  BY <1>1, <1>2 DEF BillInv, BillAt, BusyAt

LEMMA BillNext == TypeInv /\ BillInv /\ [Next]_vars => BillInv'
<1> SUFFICES ASSUME TypeInv, BillInv, [Next]_vars PROVE BillInv'
  OBVIOUS
<1>1. \A r \in Slots : Plain(r) => BillInv'
  BY BillCheck, BillExisting, BillCount, BillRefused, BillInsert, BillDelete,
     BillSnapshot, BillDomains, BillSaveRow DEF Plain
<1> QED
  BY <1>1, NextCases, BillBegins, BillReport, BillSubscribe, BillSave, BillDies, BillOutside

\* A user without an excuse has one request at most; what it has reported is
\* what there will be when it is done, and what it has loaded is what there is.
THEOREM ReportsComeTrue == Spec => []BillInv
<1>1. Init => BillInv
  BY BillInit
<1> QED
  BY <1>1, BillNext, NamesTypeCorrect, PTL DEF Spec

\* Users are billed for the zones charged to them when nothing is going on,
\* unless what happened excuses it.
THEOREM UsersAreBilled == Spec => []MisbilledOnlyIfRaced
<1>1. BillInv => MisbilledOnlyIfRaced
  BY DEF BillInv, BillAt, MisbilledOnlyIfRaced
<1> QED
  BY <1>1, ReportsComeTrue, PTL

==============================================================================
