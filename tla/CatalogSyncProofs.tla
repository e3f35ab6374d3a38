--------------------------- MODULE CatalogSyncProofs ---------------------------
(***************************************************************************)
(* Proofs about CatalogSync for any number of zones, views, workers,       *)
(* changes and faults.                                                     *)
(***************************************************************************)
EXTENDS CatalogSync, TLAPS

------------------------------------------------------------------------------
(* Types.                                                                    *)

LEMMA AnyZoneType == AnyZone \in Zones
  BY ZonesAssumption DEF AnyZone

LEMMA NothingType == Nothing \in Held /\ Nothing.pc = "idle"
  BY AnyZoneType DEF Nothing, Held, HandlerPCs

LEMMA IdleType ==
    /\ Idle \in Job
    /\ Idle.task = "idle" /\ Idle.active = {} /\ Idle.inactive = {} /\ Idle.todo = {}
  BY AnyZoneType DEF Idle, Job, JobPCs

LEMMA MessageTypes ==
    /\ \A t \in PlainTasks : Plain(t) \in Messages
    /\ \A t \in FileTasks, z \in Zones : Fzone(t, z) \in Messages
    /\ \A a, i \in SUBSET Zones : a \cap i = {} => Netnod(a, i) \in Messages
  <1> DEFINE P == {Plain(t) : t \in PlainTasks}
             F == {Fzone(t, z) : t \in FileTasks, z \in Zones}
  <1>1. Messages = P \cup F \cup NetnodMessages
    BY DEF Messages
  <1>2. \A t \in PlainTasks : Plain(t) \in P
    OBVIOUS
  <1>3. \A t \in FileTasks, z \in Zones : Fzone(t, z) \in F
    OBVIOUS
  <1>4. ASSUME NEW a \in SUBSET Zones, NEW i \in SUBSET Zones, a \cap i = {}
        PROVE  Netnod(a, i) \in NetnodMessages
    BY <1>4 DEF Netnod, NetnodMessages
  <1> HIDE DEF P, F
  <1> QED
    BY <1>1, <1>2, <1>3, <1>4

LEMMA MessageFields ==
    ASSUME NEW m \in Messages
    PROVE  /\ m.task \in FileTasks \cup PlainTasks \cup {"sync_netnod_zones"}
           /\ m.zone \in Zones
           /\ m.active \in SUBSET Zones /\ m.inactive \in SUBSET Zones
           /\ m.active \cap m.inactive = {}
  <1> DEFINE P == {Plain(t) : t \in PlainTasks}
             F == {Fzone(t, z) : t \in FileTasks, z \in Zones}
  <1>1. m \in P \/ m \in F \/ m \in NetnodMessages
    BY DEF Messages
  <1>2. CASE m \in P
    <2>1. PICK t \in PlainTasks : m = Plain(t)
      BY <1>2
    <2> QED
      BY <2>1, AnyZoneType DEF Plain
  <1>3. CASE m \in F
    <2>1. PICK t \in FileTasks, z \in Zones : m = Fzone(t, z)
      BY <1>3
    <2> QED
      BY <2>1 DEF Fzone
  <1>4. CASE m \in NetnodMessages
    BY <1>4, AnyZoneType DEF NetnodMessages
  <1> QED
    BY <1>1, <1>2, <1>3, <1>4

LEMMA InitType == Init => TypeOK
  <1> SUFFICES ASSUME Init PROVE TypeOK
    OBVIOUS
  <1>1. held \in [Handlers -> Held]
    BY NothingType DEF Init
  <1>2. job \in [Workers -> Job] /\ \A w \in Workers : job[w] = Idle
    BY IdleType DEF Init
  <1>3. notif \in [pc : NotifPCs, owner : Zones, state : Billing]
    BY AnyZoneType DEF Init, NoNotif, NotifPCs, Billing
  <1>4. /\ catalog \in [Zones -> Groups]
        /\ signal \in [Zones -> CdsContents] /\ file \in [Zones -> CdsContents]
    BY DEF Init, Groups, CdsContents
  <1>5. \A w \in Workers : ListsDisjoint(job[w])
    BY <1>2, IdleType DEF ListsDisjoint
  <1> QED
    BY <1>1, <1>2, <1>3, <1>4, <1>5 DEF Init, TypeOK

LEMMA HeldType ==
    ASSUME TypeOK, NEW h \in Handlers
    PROVE  /\ held[h] \in Held
           /\ held[h].pc \in HandlerPCs
           /\ held[h].zone \in Zones /\ held[h].cds \in BOOLEAN
  BY DEF TypeOK, Held

LEMMA DoneType ==
    ASSUME TypeOK, NEW h \in Handlers, Done(h)
    PROVE  held' \in [Handlers -> Held]
  BY NothingType DEF TypeOK, Done

LEMMA DelayType ==
    ASSUME TypeOK, NEW M \in SUBSET Messages, Delay(M)
    PROVE  queue' \subseteq Messages
  BY DEF TypeOK, Delay

LEMMA PlainCatalog ==
    {Plain("update_catalog")} \in SUBSET Messages
  BY MessageTypes DEF PlainTasks

LEMMA ChangeType == TypeOK /\ Change => changes' \in Nat
  BY DEF TypeOK, Change

LEMMA FaultType == TypeOK /\ Fault => faults' \in Nat
  BY DEF TypeOK, Fault

LEMMA SaveRowType ==
    ASSUME TypeOK, NEW z \in Zones, NEW flag \in BOOLEAN, SaveRow(z, flag)
    PROVE  created' \subseteq Zones /\ row' \subseteq Zones /\ cds_disable' \subseteq row'
  BY DEF TypeOK, SaveRow

LEMMA SaveHeldType ==
    ASSUME TypeOK, NEW h \in Handlers, SaveHeld(h),
           held' \in [Handlers -> Held], UNCHANGED queue
    PROVE  TypeOK'
  <1>1. created' \subseteq Zones /\ row' \subseteq Zones /\ cds_disable' \subseteq row'
    BY HeldType, SaveRowType DEF SaveHeld
  <1>2. clobbered' \subseteq Zones
    BY HeldType DEF SaveHeld, TypeOK
  <1> QED
    BY <1>1, <1>2 DEF SaveHeld, TypeOK, accountVars, fileVars

LEMMA SetCdsType ==
    ASSUME TypeOK, NEW h \in Handlers, NEW flag \in BOOLEAN, SetCds(h, flag)
    PROVE  TypeOK'
  <1>1. created' \subseteq Zones /\ row' \subseteq Zones /\ cds_disable' \subseteq row'
    BY HeldType, SaveRowType DEF SetCds
  <1>2. held' \in [Handlers -> Held]
    BY DoneType DEF SetCds
  <1>3. intended' \subseteq Zones /\ stale' \subseteq Handlers /\ clobbered' \subseteq Zones
    BY HeldType DEF SetCds, TypeOK
  <1> QED
    BY <1>1, <1>2, <1>3 DEF SetCds, TypeOK, accountVars, fileVars

LEMMA ViewStepType ==
    ASSUME TypeOK, NEW h \in Handlers, ViewStep(h)
    PROVE  TypeOK'
  <1>1. ASSUME disable_zone_cds(h) \/ enable_zone_cds(h) PROVE TypeOK'
    BY <1>1, SetCdsType DEF disable_zone_cds, enable_zone_cds
  <1>2. ASSUME validate_ns(h) PROVE TypeOK'
    BY <1>2, SaveHeldType, DoneType DEF validate_ns
  <1>3. ASSUME edit_record(h) PROVE TypeOK'
    <2>1. held' \in [Handlers -> Held]
      BY <1>3, HeldType DEF edit_record, TypeOK, Held, HandlerPCs
    <2> QED
      BY <1>3, <2>1, SaveHeldType DEF edit_record
  <1>4. ASSUME delay_fzone(h) PROVE TypeOK'
    <2>1. {Fzone(held[h].pc, held[h].zone)} \in SUBSET Messages
      BY <1>4, HeldType, MessageTypes DEF delay_fzone
    <2>2. queue' \subseteq Messages
      BY <1>4, <2>1, DelayType DEF delay_fzone
    <2>3. held' \in [Handlers -> Held]
      BY <1>4, DoneType DEF delay_fzone
    <2> QED
      BY <1>4, <2>2, <2>3
      DEF delay_fzone, TypeOK, dbVars, accountVars, fileVars, historyVars
  <1>5. ASSUME create_record(h) PROVE TypeOK'
    <2>1. CASE held[h].pc = "loaded"
      <3>1. {Fzone("update_fzone", held[h].zone)} \in SUBSET Messages
        BY HeldType, MessageTypes DEF FileTasks
      <3>2. queue' \subseteq Messages
        BY <1>5, <2>1, <3>1, DelayType DEF create_record
      <3>3. held' \in [Handlers -> Held]
        BY <1>5, <2>1, HeldType DEF create_record, TypeOK, Held, HandlerPCs
      <3> QED
        BY <1>5, <2>1, <3>2, <3>3
        DEF create_record, TypeOK, dbVars, accountVars, fileVars, historyVars
    <2>2. CASE held[h].pc = "save"
      BY <1>5, <2>2, SaveHeldType, DoneType DEF create_record
    <2> QED
      BY <1>5, <2>1, <2>2 DEF create_record
  <1>6. ASSUME delete_zone(h) PROVE TypeOK'
    <2>1. CASE held[h].pc = "loaded"
      <3>1. held' \in [Handlers -> Held]
        BY <1>6, <2>1, HeldType DEF delete_zone, TypeOK, Held, HandlerPCs
      <3>2. created' \subseteq Zones /\ row' \subseteq Zones /\ cds_disable' \subseteq row'
        BY <1>6, <2>1 DEF delete_zone, TypeOK
      <3> QED
        BY <1>6, <2>1, <3>1, <3>2
        DEF delete_zone, TypeOK, accountVars, fileVars, historyVars
    <2>2. CASE held[h].pc = "update_catalog"
      <3>1. queue' \subseteq Messages
        BY <1>6, <2>2, PlainCatalog, DelayType DEF delete_zone
      <3>2. held' \in [Handlers -> Held]
        BY <1>6, <2>2, DoneType DEF delete_zone
      <3> QED
        BY <1>6, <2>2, <3>1, <3>2
        DEF delete_zone, TypeOK, dbVars, accountVars, fileVars, historyVars
    <2> QED
      BY <1>6, <2>1, <2>2 DEF delete_zone
  <1> QED
    BY <1>1, <1>2, <1>3, <1>4, <1>5, <1>6 DEF ViewStep

LEMMA LoadType ==
    ASSUME TypeOK, NEW h \in Handlers,
           (\E z \in Zones : create_zone(h, z) \/ load_zone(h, z)) \/ HandlerDies(h)
    PROVE  TypeOK'
  <1>1. ASSUME NEW z \in Zones, create_zone(h, z) PROVE TypeOK'
    <2>1. held' \in [Handlers -> Held]
      BY <1>1, HeldType DEF create_zone, TypeOK, Held, HandlerPCs
    <2>2. created' \subseteq Zones /\ row' \subseteq Zones /\ cds_disable' \subseteq row'
      BY <1>1 DEF create_zone, TypeOK
    <2> QED
      BY <1>1, <2>1, <2>2, ChangeType
      DEF create_zone, TypeOK, accountVars, fileVars, historyVars
  <1>2. ASSUME NEW z \in Zones, load_zone(h, z) PROVE TypeOK'
    <2>1. held' \in [Handlers -> Held]
      BY <1>2, HeldType DEF load_zone, TypeOK, Held, HandlerPCs
    <2> QED
      BY <1>2, <2>1, ChangeType DEF load_zone, TypeOK, dbVars, accountVars, fileVars
  <1>3. ASSUME HandlerDies(h) PROVE TypeOK'
    BY <1>3, DoneType, FaultType
    DEF HandlerDies, TypeOK, dbVars, accountVars, fileVars, historyVars
  <1> QED
    BY <1>1, <1>2, <1>3

LEMMA BillingType ==
    ASSUME TypeOK,
           \/ \E z \in Zones, s \in Billing : billing_notifies(z, s)
           \/ BillingStep
           \/ consumer_dies
           \/ update_aname_zones
    PROVE  TypeOK'
  <1>0. /\ notif.owner \in Zones /\ notif.state \in Billing
        /\ NoNotif \in [pc : NotifPCs, owner : Zones, state : Billing]
    BY AnyZoneType DEF TypeOK, NoNotif, NotifPCs, Billing
  <1>1. ASSUME NEW z \in Zones, NEW s \in Billing, billing_notifies(z, s) PROVE TypeOK'
    <2>1. notif' \in [pc : NotifPCs, owner : Zones, state : Billing]
      BY <1>1 DEF billing_notifies, NotifPCs
    <2> QED
      BY <1>1, <2>1, ChangeType DEF billing_notifies, TypeOK, dbVars, fileVars, historyVars
  <1>2. ASSUME sub_callback_save PROVE TypeOK'
    <2>1. notif' \in [pc : NotifPCs, owner : Zones, state : Billing]
      BY <1>0, <1>2 DEF sub_callback_save, TypeOK, NotifPCs
    <2>2. linked' \subseteq Zones /\ subscribed' \subseteq Zones /\ paid' \subseteq Zones
      BY <1>0, <1>2 DEF sub_callback_save, TypeOK
    <2> QED
      BY <1>2, <2>1, <2>2 DEF sub_callback_save, TypeOK, dbVars, fileVars, historyVars
  <1>3. ASSUME sub_callback_delay PROVE TypeOK'
    <2>1. notif' \in [pc : NotifPCs, owner : Zones, state : Billing]
      BY <1>3 DEF sub_callback_delay, TypeOK, NotifPCs
    <2>2. queue' \subseteq Messages
      BY <1>3, PlainCatalog, DelayType DEF sub_callback_delay
    <2> QED
      BY <1>3, <2>1, <2>2 DEF sub_callback_delay, TypeOK, dbVars, fileVars, historyVars
  <1>4. ASSUME sub_callback_ack PROVE TypeOK'
    BY <1>0, <1>4 DEF sub_callback_ack, TypeOK, dbVars, fileVars, historyVars
  <1>5. ASSUME consumer_dies PROVE TypeOK'
    <2>1. notif' \in [pc : NotifPCs, owner : Zones, state : Billing]
      BY <1>5 DEF consumer_dies, TypeOK, NotifPCs
    <2> QED
      BY <1>5, <2>1, FaultType DEF consumer_dies, TypeOK, dbVars, fileVars, historyVars
  <1>6. ASSUME delay_update_catalog PROVE TypeOK'
    <2>1. queue' \subseteq Messages
      BY <1>6, PlainCatalog, DelayType DEF delay_update_catalog
    <2> QED
      BY <1>6, <2>1
      DEF delay_update_catalog, TypeOK, dbVars, accountVars, fileVars, historyVars
  <1>7. ASSUME NEW z \in Zones, update_aname(z) PROVE TypeOK'
    <2>1. {Fzone("update_fzone", z)} \in SUBSET Messages
      BY MessageTypes DEF FileTasks
    <2>2. queue' \subseteq Messages
      BY <1>7, <2>1, DelayType DEF update_aname
    <2> QED
      BY <1>7, <2>2, ChangeType
      DEF update_aname, TypeOK, dbVars, accountVars, fileVars, historyVars
  <1> QED
    BY <1>1, <1>2, <1>3, <1>4, <1>5, <1>6, <1>7 DEF BillingStep, update_aname_zones

LEMMA JobType ==
    ASSUME TypeOK, NEW w \in Workers
    PROVE  /\ job[w] \in Job /\ ListsDisjoint(job[w])
           /\ job[w].zone \in Zones
           /\ job[w].rows \in SUBSET Zones /\ job[w].cds \in SUBSET Zones
           /\ job[w].todo \in SUBSET Zones
           /\ job[w].active \in SUBSET Zones /\ job[w].inactive \in SUBSET Zones
  BY DEF TypeOK, Job

\* One job is replaced by another well-formed one.
LEMMA NewJobType ==
    ASSUME TypeOK, NEW w \in Workers, NEW j \in Job, ListsDisjoint(j),
           job' = [job EXCEPT ![w] = j]
    PROVE  job' \in [Workers -> Job] /\ \A v \in Workers : ListsDisjoint(job'[v])
  <1>1. \A v \in Workers : job'[v] = IF v = w THEN j ELSE job[v]
    BY DEF TypeOK
  <1> QED
    BY <1>1 DEF TypeOK

LEMMA FinishType ==
    ASSUME TypeOK, NEW w \in Workers, Finish(w)
    PROVE  job' \in [Workers -> Job] /\ \A v \in Workers : ListsDisjoint(job'[v])
  BY NewJobType, IdleType DEF Finish, ListsDisjoint

LEMMA StartTaskType ==
    ASSUME TypeOK, NEW w \in Workers, NEW m \in queue, StartTask(w, m)
    PROVE  TypeOK'
  <1>1. /\ m.task \in FileTasks \cup PlainTasks \cup {"sync_netnod_zones"}
        /\ m.zone \in Zones
        /\ m.active \in SUBSET Zones /\ m.inactive \in SUBSET Zones
        /\ m.active \cap m.inactive = {}
    BY MessageFields DEF TypeOK
  <1>2. job' \in [Workers -> Job] /\ \A v \in Workers : ListsDisjoint(job'[v])
    <2> DEFINE read == [Idle EXCEPT !.task = m.task, !.zone = m.zone, !.rows = row,
                                    !.cds = cds_disable, !.todo = row]
               sync == [Idle EXCEPT !.task = m.task, !.active = m.active,
                                    !.inactive = m.inactive,
                                    !.todo = m.active \cup m.inactive]
    <2>1. CASE job' = [job EXCEPT ![w] = read]
      <3>1. read \in Job
        BY <1>1, IdleType DEF Job, Idle, TypeOK
      <3>2. ListsDisjoint(read)
        BY DEF ListsDisjoint, Idle
      <3> HIDE DEF read
      <3> QED
        BY <2>1, <3>1, <3>2, NewJobType
    <2>2. CASE job' = [job EXCEPT ![w] = sync] /\ m.task = "sync_netnod_zones"
      <3>1. sync \in Job
        BY <1>1, IdleType DEF Job, Idle
      <3>2. ListsDisjoint(sync)
        BY <1>1, <2>2 DEF ListsDisjoint, Idle
      <3> HIDE DEF sync
      <3> QED
        BY <2>2, <3>1, <3>2, NewJobType
    <2>3. CASE UNCHANGED job
      BY <2>3 DEF TypeOK
    <2> QED
      BY <2>1, <2>2, <2>3 DEF StartTask
  <1>3. queue' \subseteq Messages
    BY DEF StartTask, TypeOK
  <1> QED
    BY <1>2, <1>3 DEF StartTask, TypeOK, dbVars, accountVars, fileVars, historyVars

LEMMA CatalogTaskType ==
    ASSUME TypeOK, NEW w \in Workers,
           (\E z \in Zones : is_active(w, z)) \/ write_catalog(w) \/ delay_followups(w)
    PROVE  TypeOK'
  <1>1. ASSUME NEW z \in Zones, is_active(w, z) PROVE TypeOK'
    <2> DEFINE ja == [job[w] EXCEPT !.todo = @ \ {z}, !.active = @ \cup {z}]
               ji == [job[w] EXCEPT !.todo = @ \ {z}, !.inactive = @ \cup {z}]
    <2>0. job[w] \in Job /\ ListsDisjoint(job[w]) /\ z \in job[w].todo
          /\ job[w].task = "update_catalog"
      BY <1>1, JobType DEF is_active
    <2>1. ja \in Job /\ ji \in Job
      BY <2>0 DEF Job
    <2>2. ListsDisjoint(ja) /\ ListsDisjoint(ji)
      BY <2>0 DEF ListsDisjoint, Job
    <2>3. job' = [job EXCEPT ![w] = ja] \/ job' = [job EXCEPT ![w] = ji]
      BY <1>1 DEF is_active, TypeOK
    <2>4. job' \in [Workers -> Job] /\ \A v \in Workers : ListsDisjoint(job'[v])
      <3> HIDE DEF ja, ji
      <3> QED
        BY <2>1, <2>2, <2>3, NewJobType
    <2>5. faults' \in Nat
      BY <1>1, FaultType DEF is_active, TypeOK
    <2> QED
      BY <1>1, <2>4, <2>5 DEF is_active, TypeOK, dbVars, accountVars, fileVars, historyVars
  <1>2. ASSUME write_catalog(w) PROVE TypeOK'
    <2> DEFINE j == [job[w] EXCEPT !.pc = "publish"]
    <2>0. job[w] \in Job /\ ListsDisjoint(job[w])
      BY JobType
    <2>1. j \in Job /\ ListsDisjoint(j)
      BY <2>0 DEF Job, JobPCs, ListsDisjoint
    <2>2. job' = [job EXCEPT ![w] = j]
      BY <1>2 DEF write_catalog, TypeOK
    <2>3. job' \in [Workers -> Job] /\ \A v \in Workers : ListsDisjoint(job'[v])
      <3> HIDE DEF j
      <3> QED
        BY <2>1, <2>2, NewJobType
    <2>4. catalog' \in [Zones -> Groups]
      BY <1>2 DEF write_catalog, Groups
    <2> QED
      BY <1>2, <2>3, <2>4
      DEF write_catalog, TypeOK, dbVars, accountVars, historyVars
  <1>3. ASSUME delay_followups(w) PROVE TypeOK'
    <2>1. {Plain("update_signal_zones"), Netnod(job[w].active, job[w].inactive)}
              \in SUBSET Messages
      BY MessageTypes, JobType DEF PlainTasks, ListsDisjoint
    <2>2. queue' \subseteq Messages
      BY <1>3, <2>1, DelayType DEF delay_followups
    <2>3. job' \in [Workers -> Job] /\ \A v \in Workers : ListsDisjoint(job'[v])
      BY <1>3, FinishType DEF delay_followups
    <2> QED
      BY <1>3, <2>2, <2>3
      DEF delay_followups, TypeOK, dbVars, accountVars, fileVars, historyVars
  <1> QED
    BY <1>1, <1>2, <1>3

LEMMA PublishedType == \A z, S : Published(z, S) \in CdsContents
  BY DEF Published, CdsContents

LEMMA OtherTaskType ==
    ASSUME TypeOK, NEW w \in Workers,
           \/ \E z \in Zones : sync_netnod_zone(w, z)
           \/ write_signal_zones(w) \/ FinishNetnod(w) \/ write_fzone(w)
    PROVE  TypeOK'
  <1>1. ASSUME NEW z \in Zones, sync_netnod_zone(w, z) PROVE TypeOK'
    <2> DEFINE j == [job[w] EXCEPT !.todo = @ \ {z}]
    <2>0. job[w] \in Job /\ ListsDisjoint(job[w]) /\ job[w].task # "update_catalog"
      BY <1>1, JobType DEF sync_netnod_zone
    <2>1. j \in Job /\ ListsDisjoint(j)
      BY <2>0 DEF Job, ListsDisjoint
    <2>2. job' = [job EXCEPT ![w] = j]
      BY <1>1 DEF sync_netnod_zone, TypeOK
    <2>3. job' \in [Workers -> Job] /\ \A v \in Workers : ListsDisjoint(job'[v])
      <3> HIDE DEF j
      <3> QED
        BY <2>1, <2>2, NewJobType
    <2>4. registered' \subseteq Zones /\ faults' \in Nat
      BY <1>1, FaultType DEF sync_netnod_zone, TypeOK
    <2> QED
      BY <1>1, <2>3, <2>4
      DEF sync_netnod_zone, TypeOK, dbVars, accountVars, historyVars
  <1>2. ASSUME write_signal_zones(w) PROVE TypeOK'
    <2>1. signal' \in [Zones -> CdsContents]
      BY <1>2, PublishedType DEF write_signal_zones, CdsContents
    <2> QED
      BY <1>2, <2>1, FinishType
      DEF write_signal_zones, TypeOK, dbVars, accountVars, historyVars
  <1>3. ASSUME FinishNetnod(w) PROVE TypeOK'
    BY <1>3, FinishType
    DEF FinishNetnod, TypeOK, dbVars, accountVars, fileVars, historyVars
  <1>4. ASSUME write_fzone(w) PROVE TypeOK'
    <2>1. file' \in [Zones -> CdsContents]
      BY <1>4, PublishedType DEF write_fzone, TypeOK
    <2>2. queue' \subseteq Messages
      BY <1>4, PlainCatalog DEF write_fzone, Delay, TypeOK
    <2> QED
      BY <1>4, <2>1, <2>2, FinishType
      DEF write_fzone, TypeOK, dbVars, accountVars, historyVars
  <1> QED
    BY <1>1, <1>2, <1>3, <1>4

\* The message a failed task is enqueued with.
LEMMA RetryType ==
    ASSUME TypeOK, NEW w \in Workers
    PROVE  MessageOf(job[w]) \in Messages
  <1>1. Netnod(job[w].active, job[w].inactive) \in Messages
    BY MessageTypes, JobType DEF ListsDisjoint
  <1> QED
    BY <1>1, MessageTypes, JobType DEF MessageOf

LEMMA TaskFaultType ==
    ASSUME TypeOK, NEW w \in Workers, TaskError(w) \/ WorkerCrash(w)
    PROVE  TypeOK'
  <1>1. ASSUME TaskError(w) PROVE TypeOK'
    BY <1>1, RetryType, FinishType, FaultType
    DEF TaskError, Delay, TypeOK, dbVars, accountVars, fileVars, historyVars
  <1>2. ASSUME WorkerCrash(w) PROVE TypeOK'
    BY <1>2, FinishType, FaultType
    DEF WorkerCrash, TypeOK, dbVars, accountVars, fileVars, historyVars
  <1> QED
    BY <1>1, <1>2

LEMMA NextType == TypeOK /\ [Next]_vars => TypeOK'
  <1> SUFFICES ASSUME TypeOK, [Next]_vars PROVE TypeOK'
    OBVIOUS
  <1>1. CASE UNCHANGED vars
    BY <1>1 DEF vars, TypeOK
  <1>2. CASE Next
    BY <1>2, LoadType, ViewStepType, BillingType, StartTaskType, CatalogTaskType,
       OtherTaskType, TaskFaultType
    DEF Next, TaskStep
  <1> QED
    BY <1>1, <1>2

\* Every variable of CatalogSync always holds a value of its kind, and no task
\* has a zone in two of its lists.
THEOREM CatalogTypeCorrect == Spec => []TypeOK
  BY InitType, NextType, PTL DEF Spec

------------------------------------------------------------------------------
(* Only paid zones are published.  Inductive: not only the catalog and Netnod *)
(* but the subscriptions, the waiting messages and the lists of the running   *)
(* tasks are about owners that paid.                                          *)

\* A list on its way to Netnod or to the catalog only has zones of paid owners.
PaidInv ==
    /\ TypeOK
    /\ OnlyPaidPublished
    /\ subscribed \subseteq paid
    /\ \A m \in queue : m.active \subseteq paid
    /\ \A w \in Workers : job[w].active \subseteq paid

LEMMA InitPaid == Init => PaidInv
  <1> SUFFICES ASSUME Init PROVE PaidInv
    OBVIOUS
  <1>1. \A w \in Workers : job[w].active = {}
    BY IdleType DEF Init
  <1>2. \A z \in Zones : catalog[z] # "none" \/ z \in registered => z \in paid
    BY DEF Init
  <1> QED
    BY <1>1, <1>2, InitType DEF Init, PaidInv, OnlyPaidPublished

\* The messages views, cron and billing send have no lists.
LEMMA EmptyLists ==
    /\ \A t : Plain(t).active = {}
    /\ \A t, z : Fzone(t, z).active = {}
    /\ \A a, i : Netnod(a, i).active = a
  BY DEF Plain, Fzone, Netnod

\* Everything of PaidInv but the types, which NextType takes care of.
PaidParts ==
    /\ OnlyPaidPublished
    /\ subscribed \subseteq paid
    /\ \A m \in queue : m.active \subseteq paid
    /\ \A w \in Workers : job[w].active \subseteq paid

LEMMA ViewPaid ==
    ASSUME PaidInv, NEW h \in Handlers,
           \/ \E z \in Zones : create_zone(h, z) \/ load_zone(h, z)
           \/ ViewStep(h) \/ HandlerDies(h)
    PROVE  PaidParts'
  <1>1. UNCHANGED <<subscribed, paid, job, catalog, registered>>
    BY DEF create_zone, load_zone, ViewStep, HandlerDies, disable_zone_cds,
           enable_zone_cds, SetCds, validate_ns, edit_record, SaveHeld, delay_fzone,
           create_record, delete_zone, accountVars, fileVars
  <1>2. \/ queue' = queue
        \/ \E m : queue' = queue \cup {m} /\ m.active = {}
    <2>1. CASE delay_fzone(h)
      BY <2>1, EmptyLists DEF delay_fzone, Delay
    <2>2. CASE create_record(h)
      BY <2>2, EmptyLists DEF create_record, Delay
    <2>3. CASE delete_zone(h)
      BY <2>3, EmptyLists DEF delete_zone, Delay
    <2>4. CASE ~(delay_fzone(h) \/ create_record(h) \/ delete_zone(h))
      BY <2>4
      DEF create_zone, load_zone, ViewStep, HandlerDies, disable_zone_cds,
          enable_zone_cds, SetCds, validate_ns, edit_record
    <2> QED
      BY <2>1, <2>2, <2>3, <2>4
  <1> QED
    BY <1>1, <1>2 DEF PaidParts, PaidInv, OnlyPaidPublished

LEMMA BillingPaid ==
    ASSUME PaidInv,
           \/ \E z \in Zones, s \in Billing : billing_notifies(z, s)
           \/ BillingStep
           \/ consumer_dies
           \/ update_aname_zones
    PROVE  PaidParts'
  <1>1. CASE sub_callback_save
    <2>1. paid \subseteq paid' /\ subscribed' \subseteq paid'
      BY <1>1 DEF sub_callback_save, PaidInv
    <2> QED
      BY <1>1, <2>1 DEF sub_callback_save, PaidParts, PaidInv, OnlyPaidPublished, fileVars
  <1>2. CASE ~sub_callback_save
    <2>1. UNCHANGED <<subscribed, paid, job, catalog, registered>>
      BY <1>2 DEF billing_notifies, BillingStep, sub_callback_delay, sub_callback_ack,
                  consumer_dies, update_aname_zones, delay_update_catalog, update_aname,
                  accountVars, fileVars
    <2>2. \/ queue' = queue
          \/ \E m : queue' = queue \cup {m} /\ m.active = {}
      BY <1>2, EmptyLists
      DEF billing_notifies, BillingStep, sub_callback_delay, sub_callback_ack,
          consumer_dies, update_aname_zones, delay_update_catalog, update_aname, Delay
    <2> QED
      BY <2>1, <2>2 DEF PaidParts, PaidInv, OnlyPaidPublished
  <1> QED
    BY <1>1, <1>2

LEMMA TaskPaid ==
    ASSUME PaidInv, NEW w \in Workers, TaskStep(w) \/ TaskError(w) \/ WorkerCrash(w)
    PROVE  PaidParts'
  <1> USE DEF PaidParts
  <1>0. TypeOK /\ job \in [Workers -> Job]
    BY DEF PaidInv, TypeOK
  <1>a. ASSUME Finish(w) PROVE \A v \in Workers : job'[v].active \subseteq paid
    BY <1>0, <1>a, IdleType DEF Finish, PaidInv
  <1>1. ASSUME NEW m \in queue, StartTask(w, m) PROVE PaidParts'
    <2>1. \A v \in Workers : job'[v].active \subseteq paid
      <3>1. \/ job' = job
            \/ \E j : job' = [job EXCEPT ![w] = j] /\ j.active \in {{}, m.active}
        <4> DEFINE read == [Idle EXCEPT !.task = m.task, !.zone = m.zone, !.rows = row,
                                        !.cds = cds_disable, !.todo = row]
                   sync == [Idle EXCEPT !.task = m.task, !.active = m.active,
                                        !.inactive = m.inactive,
                                        !.todo = m.active \cup m.inactive]
        <4>1. read.active = {} /\ sync.active = m.active
          BY DEF Idle
        <4>2. \/ job' = job
              \/ job' = [job EXCEPT ![w] = read]
              \/ job' = [job EXCEPT ![w] = sync]
          BY <1>1 DEF StartTask
        <4> HIDE DEF read, sync
        <4> QED
          BY <4>1, <4>2
      <3> QED
        BY <1>0, <3>1 DEF PaidInv
    <2> QED
      BY <1>1, <2>1 DEF StartTask, PaidInv, OnlyPaidPublished, accountVars, fileVars
  <1>2. ASSUME NEW z \in Zones, is_active(w, z) PROVE PaidParts'
    <2>1. \A v \in Workers : job'[v].active \subseteq paid
      BY <1>0, <1>2 DEF is_active, PaidInv, Job
    <2> QED
      BY <1>2, <2>1 DEF is_active, PaidInv, OnlyPaidPublished, accountVars, fileVars
  <1>3. ASSUME write_catalog(w) PROVE PaidParts'
    <2>1. \A v \in Workers : job'[v].active \subseteq paid
      BY <1>0, <1>3 DEF write_catalog, PaidInv, Job
    <2>2. \A z \in Zones : catalog'[z] # "none" => z \in paid
      BY <1>3 DEF write_catalog, PaidInv
    <2> QED
      BY <1>3, <2>1, <2>2 DEF write_catalog, PaidInv, OnlyPaidPublished, accountVars
  <1>4. ASSUME delay_followups(w) PROVE PaidParts'
    <2>1. \A m \in queue' : m.active \subseteq paid
      BY <1>4, EmptyLists DEF delay_followups, Delay, PaidInv
    <2> QED
      BY <1>4, <1>a, <2>1
      DEF delay_followups, PaidInv, OnlyPaidPublished, accountVars, fileVars
  <1>5. ASSUME write_signal_zones(w) \/ FinishNetnod(w) \/ WorkerCrash(w) PROVE PaidParts'
    BY <1>5, <1>a
    DEF write_signal_zones, FinishNetnod, WorkerCrash, PaidInv, OnlyPaidPublished,
        accountVars, fileVars
  <1>6. ASSUME NEW z \in Zones, sync_netnod_zone(w, z) PROVE PaidParts'
    <2>1. \A v \in Workers : job'[v].active \subseteq paid
      BY <1>0, <1>6 DEF sync_netnod_zone, PaidInv, Job
    <2>2. registered' \subseteq registered \cup job[w].active
      BY <1>6 DEF sync_netnod_zone
    <2> QED
      BY <1>6, <2>1, <2>2 DEF sync_netnod_zone, PaidInv, OnlyPaidPublished, accountVars
  <1>7. ASSUME write_fzone(w) PROVE PaidParts'
    <2>1. \A m \in queue' : m.active \subseteq paid
      BY <1>7, EmptyLists DEF write_fzone, Delay, PaidInv
    <2> QED
      BY <1>7, <1>a, <2>1 DEF write_fzone, PaidInv, OnlyPaidPublished, accountVars
  <1>8. ASSUME TaskError(w) PROVE PaidParts'
    <2>1. \A m \in queue' : m.active \subseteq paid
      <3>1. \E m : queue' = queue \cup {m} /\ m.active \subseteq paid
        BY <1>8, EmptyLists DEF TaskError, MessageOf, Delay, PaidInv
      <3> QED
        BY <3>1 DEF PaidInv
    <2> QED
      BY <1>8, <1>a, <2>1 DEF TaskError, PaidInv, OnlyPaidPublished, accountVars, fileVars
  <1> QED
    BY <1>1, <1>2, <1>3, <1>4, <1>5, <1>6, <1>7, <1>8 DEF TaskStep

LEMMA NextPaid == PaidInv /\ [Next]_vars => PaidInv'
  <1> SUFFICES ASSUME PaidInv, [Next]_vars PROVE PaidParts'
    BY NextType DEF PaidInv, PaidParts
  <1>1. CASE UNCHANGED vars
    BY <1>1 DEF vars, PaidInv, PaidParts, OnlyPaidPublished
  <1>2. CASE Next
    BY <1>2, ViewPaid, BillingPaid, TaskPaid DEF Next
  <1> QED
    BY <1>1, <1>2

\* A zone is never in the catalog nor registered at Netnod unless its owner had an
\* active subscription at some time, however tasks are retried, reordered or killed.
THEOREM PublishedWerePaid == Spec => []OnlyPaidPublished
  <1>1. PaidInv => OnlyPaidPublished
    BY DEF PaidInv
  <1> QED
    BY InitPaid, NextPaid, <1>1, PTL DEF Spec

------------------------------------------------------------------------------
(* The CDS setting.  Inductive: an object loaded after the last CDS view has  *)
(* the owner's choice in it, so that saving it cannot undo the choice.        *)

\* An object that is still going to be saved has the owner's choice in it.
HeldCurrent ==
    \A h \in Handlers :
        held[h].pc \in {"loaded", "save"} /\ h \notin stale
            /\ held[h].zone \notin clobbered
        => (held[h].cds <=> held[h].zone \in intended)

\* Rows, objects and choices are about zones that were created.
AboutCreated ==
    /\ row \subseteq created
    /\ intended \subseteq created
    /\ \A h \in Handlers : held[h].pc # "idle" => held[h].zone \in created

SettingInv == TypeOK /\ CdsSettingKept /\ HeldCurrent /\ AboutCreated

\* Everything of SettingInv but the types.
SettingParts == CdsSettingKept /\ HeldCurrent /\ AboutCreated

LEMMA InitSetting == Init => SettingInv
  <1> SUFFICES ASSUME Init PROVE SettingInv
    OBVIOUS
  <1>1. \A h \in Handlers : held[h].pc = "idle"
    BY NothingType DEF Init
  <1> QED
    BY <1>1, InitType DEF Init, SettingInv, CdsSettingKept, HeldCurrent, AboutCreated

\* What only the views touch.
LEMMA SettingFrame ==
    ASSUME SettingInv,
           UNCHANGED <<row, created, cds_disable, held, intended, stale, clobbered>>
    PROVE  SettingParts'
  BY DEF SettingInv, SettingParts, CdsSettingKept, HeldCurrent, AboutCreated

LEMMA SaveHeldSetting ==
    ASSUME SettingInv, NEW h \in Handlers, SaveHeld(h),
           held[h].pc \in {"loaded", "save"},
           NEW x, held' = [held EXCEPT ![h] = x],
           x.pc \in {"idle", "update_fzone"},
           x.pc # "idle" => x.zone = held[h].zone
    PROVE  SettingParts'
  <1>0. TypeOK /\ held[h].zone \in Zones
    BY HeldType DEF SettingInv
  <1>1. \A g \in Handlers : held'[g] = IF g = h THEN x ELSE held[g]
    BY <1>0 DEF TypeOK
  <1>2. /\ row' = row \cup {held[h].zone}
        /\ created' = created /\ intended' = intended /\ stale' = stale
        /\ cds_disable' = IF held[h].cds THEN cds_disable \cup {held[h].zone}
                          ELSE cds_disable \ {held[h].zone}
        /\ clobbered' = IF h \in stale THEN clobbered \cup {held[h].zone}
                        ELSE clobbered
    BY DEF SaveHeld, SaveRow
  <1>3. CdsSettingKept'
    BY <1>0, <1>2 DEF SettingInv, CdsSettingKept, HeldCurrent, TypeOK
  <1>4. HeldCurrent'
    BY <1>0, <1>1, <1>2 DEF SettingInv, HeldCurrent
  <1>5. AboutCreated'
    BY <1>0, <1>1, <1>2 DEF SettingInv, AboutCreated
  <1> QED
    BY <1>3, <1>4, <1>5 DEF SettingParts

LEMMA SetCdsSetting ==
    ASSUME SettingInv, NEW h \in Handlers, NEW flag \in BOOLEAN, SetCds(h, flag)
    PROVE  SettingParts'
  <1> DEFINE z == held[h].zone
  <1>0. TypeOK /\ z \in Zones /\ held[h].pc = "loaded"
    BY HeldType DEF SettingInv, SetCds
  <1>1. \A g \in Handlers : held'[g] = IF g = h THEN Nothing ELSE held[g]
    BY <1>0 DEF TypeOK, SetCds, Done
  <1>2. /\ row' = row \cup {z}
        /\ created' = created
        /\ cds_disable' = IF flag THEN cds_disable \cup {z} ELSE cds_disable \ {z}
        /\ intended' = IF flag THEN intended \cup {z} ELSE intended \ {z}
        /\ stale' = stale \cup {g \in Handlers : held[g].pc # "idle"
                                                   /\ held[g].zone = z}
        /\ clobbered' = clobbered \ {z}
    BY DEF SetCds, SaveRow
  <1>3. CdsSettingKept'
    BY <1>0, <1>2 DEF SettingInv, CdsSettingKept, TypeOK
  <1>4. HeldCurrent'
    <2> SUFFICES ASSUME NEW g \in Handlers, held'[g].pc \in {"loaded", "save"},
                        g \notin stale', held'[g].zone \notin clobbered'
                 PROVE  held'[g].cds <=> held'[g].zone \in intended'
      BY DEF HeldCurrent
    <2>1. g # h /\ held'[g] = held[g]
      BY <1>1, NothingType
    <2>2. held[g].zone # z /\ g \notin stale
      BY <1>2, <2>1
    <2> QED
      BY <1>2, <2>1, <2>2 DEF SettingInv, HeldCurrent
  <1>5. AboutCreated'
    BY <1>0, <1>1, <1>2, NothingType DEF SettingInv, AboutCreated
  <1> QED
    BY <1>3, <1>4, <1>5 DEF SettingParts

\* A handler moves on without saving the zone.
LEMMA MoveOnSetting ==
    ASSUME SettingInv, NEW h \in Handlers,
           NEW x, held' = [held EXCEPT ![h] = x],
           \/ x.pc = "idle"
           \/ x.pc = "save" /\ held[h].pc = "loaded" /\ x.zone = held[h].zone
                 /\ x.cds = held[h].cds,
           UNCHANGED <<row, created, cds_disable, intended, stale, clobbered>>
    PROVE  SettingParts'
  <1>1. \A g \in Handlers : held'[g] = IF g = h THEN x ELSE held[g]
    BY DEF SettingInv, TypeOK
  <1> QED
    BY <1>1 DEF SettingInv, SettingParts, CdsSettingKept, HeldCurrent, AboutCreated

LEMMA ViewSetting ==
    ASSUME SettingInv, NEW h \in Handlers, ViewStep(h)
    PROVE  SettingParts'
  <1>0. TypeOK /\ held[h] \in Held
    BY HeldType DEF SettingInv
  <1>1. ASSUME disable_zone_cds(h) \/ enable_zone_cds(h) PROVE SettingParts'
    BY <1>1, SetCdsSetting DEF disable_zone_cds, enable_zone_cds
  <1>2. ASSUME validate_ns(h) PROVE SettingParts'
    BY <1>2, SaveHeldSetting, NothingType DEF validate_ns, Done
  <1>3. ASSUME edit_record(h) PROVE SettingParts'
    <2> DEFINE x == [held[h] EXCEPT !.pc = "update_fzone"]
    <2>1. held' = [held EXCEPT ![h] = x] /\ x.pc = "update_fzone" /\ x.zone = held[h].zone
      BY <1>0, <1>3 DEF edit_record, TypeOK, Held
    <2> HIDE DEF x
    <2> QED
      BY <1>3, <2>1, SaveHeldSetting DEF edit_record
  <1>4. ASSUME delay_fzone(h) PROVE SettingParts'
    BY <1>4, MoveOnSetting, NothingType DEF delay_fzone, Done, dbVars, historyVars
  <1>5. ASSUME create_record(h) PROVE SettingParts'
    <2>1. CASE held[h].pc = "loaded"
      <3> DEFINE x == [held[h] EXCEPT !.pc = "save"]
      <3>1. /\ held' = [held EXCEPT ![h] = x]
            /\ x.pc = "save" /\ x.zone = held[h].zone /\ x.cds = held[h].cds
        BY <1>0, <1>5, <2>1 DEF create_record, TypeOK, Held
      <3> HIDE DEF x
      <3> QED
        BY <1>5, <2>1, <3>1, MoveOnSetting DEF create_record, dbVars, historyVars
    <2>2. CASE held[h].pc = "save"
      BY <1>5, <2>2, SaveHeldSetting, NothingType DEF create_record, Done
    <2> QED
      BY <1>5, <2>1, <2>2 DEF create_record
  <1>6. ASSUME delete_zone(h) PROVE SettingParts'
    <2>1. CASE held[h].pc = "loaded"
      <3>1. \A g \in Handlers : held'[g] = IF g = h
                                           THEN [held[h] EXCEPT !.pc = "update_catalog"]
                                           ELSE held[g]
        BY <1>0, <1>6, <2>1 DEF delete_zone, TypeOK
      <3>2. [held[h] EXCEPT !.pc = "update_catalog"].pc = "update_catalog"
            /\ [held[h] EXCEPT !.pc = "update_catalog"].zone = held[h].zone
        BY <1>0 DEF Held
      <3> QED
        BY <1>6, <2>1, <3>1, <3>2
        DEF delete_zone, historyVars, SettingInv, SettingParts, CdsSettingKept,
            HeldCurrent, AboutCreated
    <2>2. CASE held[h].pc = "update_catalog"
      BY <1>6, <2>2, MoveOnSetting, NothingType DEF delete_zone, Done, dbVars, historyVars
    <2> QED
      BY <1>6, <2>1, <2>2 DEF delete_zone
  <1> QED
    BY <1>1, <1>2, <1>3, <1>4, <1>5, <1>6 DEF ViewStep

LEMMA LoadSetting ==
    ASSUME SettingInv, NEW h \in Handlers,
           (\E z \in Zones : create_zone(h, z) \/ load_zone(h, z)) \/ HandlerDies(h)
    PROVE  SettingParts'
  <1>1. ASSUME NEW z \in Zones, create_zone(h, z) PROVE SettingParts'
    <2> DEFINE x == [pc |-> "add_fzone", zone |-> z, cds |-> FALSE]
    <2>1. \A g \in Handlers : held'[g] = IF g = h THEN x ELSE held[g]
      BY <1>1 DEF create_zone, SettingInv, TypeOK
    <2>2. z \notin row /\ z \notin cds_disable /\ z \notin intended
      BY <1>1 DEF create_zone, SettingInv, AboutCreated, TypeOK
    <2> QED
      BY <1>1, <2>1, <2>2
      DEF create_zone, historyVars, SettingInv, SettingParts, CdsSettingKept,
          HeldCurrent, AboutCreated
  <1>2. ASSUME NEW z \in Zones, load_zone(h, z) PROVE SettingParts'
    <2> DEFINE x == [pc |-> "loaded", zone |-> z, cds |-> z \in cds_disable]
    <2>1. \A g \in Handlers : held'[g] = IF g = h THEN x ELSE held[g]
      BY <1>2 DEF load_zone, SettingInv, TypeOK
    <2>2. x.pc = "loaded" /\ x.zone = z /\ (x.cds <=> z \in cds_disable)
      OBVIOUS
    <2>3. z \in row /\ (z \in clobbered \/ (z \in cds_disable <=> z \in intended))
      BY <1>2 DEF load_zone, SettingInv, CdsSettingKept
    <2>4. /\ UNCHANGED <<row, created, cds_disable, intended, clobbered>>
          /\ stale' = stale \ {h}
      BY <1>2 DEF load_zone, dbVars
    <2> HIDE DEF x
    <2>5. CdsSettingKept'
      BY <2>4 DEF SettingInv, CdsSettingKept
    <2>6. HeldCurrent'
      BY <2>1, <2>2, <2>3, <2>4 DEF SettingInv, HeldCurrent
    <2>7. AboutCreated'
      BY <2>1, <2>2, <2>3, <2>4 DEF SettingInv, AboutCreated
    <2> QED
      BY <2>5, <2>6, <2>7 DEF SettingParts
  <1>3. ASSUME HandlerDies(h) PROVE SettingParts'
    BY <1>3, MoveOnSetting, NothingType DEF HandlerDies, Done, dbVars, historyVars
  <1> QED
    BY <1>1, <1>2, <1>3

LEMMA NextSetting == SettingInv /\ [Next]_vars => SettingInv'
  <1> SUFFICES ASSUME SettingInv, [Next]_vars PROVE SettingParts'
    BY NextType DEF SettingInv, SettingParts
  <1> DEFINE same == UNCHANGED <<row, created, cds_disable, held, intended, stale,
                                 clobbered>>
  <1>1. CASE UNCHANGED vars
    BY <1>1, SettingFrame DEF vars
  <1>2. ASSUME NEW h \in Handlers,
               \/ \E z \in Zones : create_zone(h, z) \/ load_zone(h, z)
               \/ ViewStep(h) \/ HandlerDies(h)
        PROVE  SettingParts'
    BY <1>2, ViewSetting, LoadSetting
  <1>3. ASSUME \/ \E z \in Zones, s \in Billing : billing_notifies(z, s)
               \/ BillingStep \/ consumer_dies \/ update_aname_zones
        PROVE  SettingParts'
    <2>1. same
      BY <1>3 DEF billing_notifies, BillingStep, sub_callback_save, sub_callback_delay,
                  sub_callback_ack, consumer_dies, update_aname_zones,
                  delay_update_catalog, update_aname, dbVars, historyVars
    <2> QED
      BY <2>1, SettingFrame
  <1>4. ASSUME NEW w \in Workers, TaskStep(w) \/ TaskError(w) \/ WorkerCrash(w)
        PROVE  SettingParts'
    <2>1. same
      BY <1>4 DEF TaskStep, TaskError, WorkerCrash, StartTask, is_active, write_catalog,
                  delay_followups, write_signal_zones, sync_netnod_zone, FinishNetnod,
                  write_fzone, dbVars, historyVars
    <2> QED
      BY <2>1, SettingFrame
  <1> QED
    BY <1>1, <1>2, <1>3, <1>4 DEF Next

\* The row always has the CDS setting its owner chose last, unless an object
\* loaded before that choice was saved after it.
THEOREM CdsChoiceKept == Spec => []CdsSettingKept
  <1>1. SettingInv => CdsSettingKept
    BY DEF SettingInv
  <1> QED
    BY InitSetting, NextSetting, <1>1, PTL DEF Spec
==============================================================================
