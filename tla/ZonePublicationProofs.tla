----------------------- MODULE ZonePublicationProofs -----------------------
(***************************************************************************)
(* Proofs about ZonePublication for every number of zones, requests,       *)
(* workers, tables and faults.                                             *)
(***************************************************************************)
EXTENDS ZonePublication, SequenceTheorems, TLAPS

------------------------------------------------------------------------------
(* Programs of the requests.                                                 *)

LEMMA ShortSeq ==
    ASSUME NEW S, NEW a \in S, NEW b \in S
    PROVE  <<a>> \in Seq(S) /\ <<a, b>> \in Seq(S)
  OBVIOUS

LEMMA StepTypes ==
    ASSUME NEW z \in Zones
    PROVE  /\ Delay("update_fzone", z) \in Step
           /\ Delay("add_fzone", z) \in Step
           /\ Delay("update_catalog", z) \in Step
           /\ \A T \in SUBSET Tables : Commit(z, T) \in Step
           /\ SaveZone(z) \in Step
           /\ [name |-> "delete_zone", zone |-> z, tables |-> {}] \in Step
  BY DEF Delay, Commit, SaveZone, Step, StepNames

LEMMA RecordSaveType ==
    ASSUME NEW z \in Zones, NEW t \in Tables
    PROVE  /\ RecordSave(z, t) \in Seq(Step)
           /\ RecordSave(z, t)[1] \in Step
           /\ RecordSave(z, t)[2] \in Step
  <1>1. Delay("update_fzone", z) \in Step /\ Commit(z, {t}) \in Step
    BY StepTypes
  <1> QED
    BY <1>1, ShortSeq DEF RecordSave

LEMMA InitialRecordsType ==
    ASSUME NEW z \in Zones
    PROVE  setup_initial_records(z) \in Seq(Step)
  <1>1. TXT \in Tables
    BY TablesAssumption DEF Tables, TXT
  <1>2. RecordSave(z, TXT)[1] \in Step /\ RecordSave(z, TXT)[2] \in Step
    BY <1>1, RecordSaveType
  <1>3. 2 * InitialRecords \in Nat
    BY BoundsAssumption
  <1>4. \A i \in 1 .. 2 * InitialRecords : setup_initial_records(z)[i] \in Step
    BY <1>2 DEF setup_initial_records
  <1> QED
    BY <1>2, <1>3 DEF setup_initial_records

\* A request about records is a program for an existing zone.
LEMMA RecordRequestShape ==
    ASSUME NEW h \in Handlers, NEW z \in Zones,
           \/ verify_zone_google(h, z)
           \/ \E t \in Tables : \/ RecordRequest(h, z, t)
                               \/ create_r_record(h, z, t)
                               \/ edit_r_record(h, z, t)
    PROVE  \E p \in Seq(Step) : OnZone(h, z, p)
  <1>1. ASSUME NEW t \in Tables
        PROVE  /\ RecordSave(z, t) \in Seq(Step)
               /\ <<Commit(z, {t})>> \in Seq(Step)
               /\ RecordSave(z, t) \o <<SaveZone(z)>> \in Seq(Step)
               /\ <<SaveZone(z)>> \o RecordSave(z, t) \in Seq(Step)
               /\ <<Commit(z, {t})>> \o RecordSave(z, t) \in Seq(Step)
               /\ RecordSave(z, t) \o RecordSave(z, t) \in Seq(Step)
               /\ <<Commit(z, {t}), Delay("update_fzone", z)>> \in Seq(Step)
    <2>1. /\ SaveZone(z) \in Step /\ Commit(z, {t}) \in Step
          /\ Delay("update_fzone", z) \in Step
      BY StepTypes
    <2>2. /\ RecordSave(z, t) \in Seq(Step)
          /\ <<SaveZone(z)>> \in Seq(Step)
          /\ <<Commit(z, {t})>> \in Seq(Step)
          /\ <<Commit(z, {t}), Delay("update_fzone", z)>> \in Seq(Step)
      BY <2>1, RecordSaveType, ShortSeq
    <2> QED
      BY <2>2, ConcatProperties
  <1>2. CASE verify_zone_google(h, z)
    <2>1. TXT \in Tables
      BY TablesAssumption DEF Tables, TXT
    <2> QED
      BY <1>1, <1>2, <2>1 DEF verify_zone_google
  <1>3. ASSUME NEW t \in Tables, create_r_record(h, z, t) \/ edit_r_record(h, z, t)
        PROVE  \E p \in Seq(Step) : OnZone(h, z, p)
    BY <1>1, <1>3 DEF create_r_record, edit_r_record
  <1>4. ASSUME NEW t \in Tables, RecordRequest(h, z, t)
        PROVE  \E p \in Seq(Step) : OnZone(h, z, p)
    BY <1>1, <1>4 DEF RecordRequest, create_record, edit_record, save_record,
          save_custom_ns, edit_zone_cds, update_ip, setup_github_pages,
          edit_github_pages_record, delete_github_pages_record,
          delete_dhcid_record, update_aname_zones, setup_gsuite
  <1> QED
    BY <1>2, <1>3, <1>4

\* Every request is a program for one zone; a new zone's program enqueues a task.
LEMMA RequestShape ==
    ASSUME NEW h \in Handlers, Request(h)
    PROVE  \E z \in Zones, p \in Seq(Step) :
              \/ OnZone(h, z, p)
              \/ /\ NewZone(h, z, p)
                 /\ \E i \in 1 .. Len(p) : p[i].zone = z /\ p[i].name \in TaskNames
  <1>1. PICK z \in Zones :
          \/ create_zone(h, z)
          \/ create_domains_zone(h, z) \/ admin_create_zone(h, z)
          \/ import_zone_file(h, z)
          \/ delete_zone(h, z)
          \/ verify_zone_google(h, z)
          \/ \E t \in Tables : \/ RecordRequest(h, z, t)
                              \/ create_r_record(h, z, t)
                              \/ edit_r_record(h, z, t)
    <2>1. ReverseZones \subseteq Zones
      BY ReverseAssumption DEF ReverseZones
    <2> QED
      BY <2>1 DEF Request
  <1> DEFINE d == Delay("add_fzone", z)
  <1>2. d \in Step /\ d.zone = z /\ d.name \in TaskNames
    BY StepTypes DEF Delay, TaskNames
  <1>3. <<d>> \in Seq(Step) /\ Len(<<d>>) = 1 /\ <<d>>[1] = d
    BY <1>2, ShortSeq
  <1> HIDE DEF d
  <1>4. CASE create_zone(h, z)
    <2> DEFINE p == setup_initial_records(z) \o <<d>>
    <2>1. p \in Seq(Step) /\ Len(p) = Len(setup_initial_records(z)) + 1
      BY <1>3, InitialRecordsType, ConcatProperties
    <2>2. Len(setup_initial_records(z)) \in Nat
      BY InitialRecordsType, LenProperties
    <2>3. Len(p) \in 1 .. Len(p) /\ p[Len(p)] = d
      BY <1>3, <2>1, <2>2, InitialRecordsType, ConcatProperties
    <2>4. NewZone(h, z, p)
      BY <1>4 DEF create_zone, d
    <2> QED
      BY <1>2, <2>1, <2>3, <2>4
  <1>5. CASE create_domains_zone(h, z) \/ admin_create_zone(h, z)
    <2>1. NewZone(h, z, <<d>>)
      BY <1>5 DEF create_domains_zone, admin_create_zone, d
    <2> QED
      BY <1>2, <1>3, <2>1
  <1>6. CASE import_zone_file(h, z)
    <2>1. [i \in Tables |-> Delay("update_fzone", z)] \in Seq(Step)
      <3>1. Delay("update_fzone", z) \in Step
        BY StepTypes
      <3> QED
        BY <3>1, TablesAssumption DEF Tables
    <2>2. <<Commit(z, Tables)>> \in Seq(Step)
      BY StepTypes, ShortSeq
    <2>3. [i \in Tables |-> Delay("update_fzone", z)] \o <<Commit(z, Tables)>>
             \in Seq(Step)
      BY <2>1, <2>2, ConcatProperties
    <2> QED
      BY <1>6, <2>3 DEF import_zone_file
  <1>7. CASE delete_zone(h, z)
    <2>1. <<[name |-> "delete_zone", zone |-> z, tables |-> {}],
            Delay("update_catalog", z)>> \in Seq(Step)
      BY StepTypes, ShortSeq
    <2> QED
      BY <1>7, <2>1 DEF delete_zone
  <1>8. CASE \/ verify_zone_google(h, z)
             \/ \E t \in Tables : \/ RecordRequest(h, z, t)
                                  \/ create_r_record(h, z, t)
                                  \/ edit_r_record(h, z, t)
    BY <1>8, RecordRequestShape
  <1> QED
    BY <1>1, <1>4, <1>5, <1>6, <1>7, <1>8

LEMMA RequestType ==
    ASSUME TypeOK, NEW h \in Handlers, Request(h)
    PROVE  TypeOK'
  <1>1. PICK z \in Zones, p \in Seq(Step) : OnZone(h, z, p) \/ NewZone(h, z, p)
    BY RequestShape
  <1>2. Begin(h, p)
    BY <1>1 DEF OnZone, NewZone
  <1>3. /\ todo' \in [Handlers -> Seq(Step)]
        /\ requests' \in Nat
    BY <1>2 DEF Begin, TypeOK
  <1>4. /\ row' \subseteq Zones
        /\ db' \in [Zones -> Content]
        /\ covers' \in [Zones -> SUBSET Zones]
        /\ \A y \in Zones : covers'[y] \subseteq (IF y \in row' THEN Reverse[y] ELSE {})
    <2>1. CASE OnZone(h, z, p)
      BY <2>1 DEF OnZone, TypeOK, dbVars
    <2>2. CASE NewZone(h, z, p)
      BY <2>2 DEF NewZone, TypeOK, Content
    <2> QED
      BY <1>1, <2>1, <2>2
  <1> QED
    BY <1>2, <1>3, <1>4 DEF Begin, TypeOK, knotVars, historyVars

------------------------------------------------------------------------------
(* Type correctness.                                                         *)

LEMMA IdleType == Idle \in Job
  <1>1. AnyZone \in Zones
    BY ZonesAssumption DEF AnyZone
  <1>2. Empty \in Content
    BY DEF Empty, Content
  <1> QED
    BY <1>1, <1>2 DEF Idle, Job, TaskNames

LEMMA InitType == Init => TypeOK
  <1> SUFFICES ASSUME Init PROVE TypeOK
    OBVIOUS
  <1>1. Empty \in Content /\ First \in Content
    BY DEF Empty, First, Content
  <1>2. todo \in [Handlers -> Seq(Step)]
    BY DEF Init
  <1>3. job \in [Workers -> Job] /\ \A w \in Workers : job[w].pc = "idle"
    BY IdleType DEF Init, Idle
  <1> QED
    BY <1>1, <1>2, <1>3 DEF Init, TypeOK, TaskNames

LEMMA QueueAdd ==
    ASSUME NEW q \in [TaskNames -> [Zones -> Nat]], NEW n \in TaskNames, NEW z \in Zones
    PROVE  [q EXCEPT ![n][z] = @ + 1] \in [TaskNames -> [Zones -> Nat]]
  <1>1. q[n] \in [Zones -> Nat] /\ q[n][z] + 1 \in Nat
    OBVIOUS
  <1>2. [q[n] EXCEPT ![z] = @ + 1] \in [Zones -> Nat]
    BY <1>1
  <1> QED
    BY <1>2

\* A commit raises versions and moves the addresses of one zone.
LEMMA CommitTablesType ==
    ASSUME TypeOK, NEW z \in Zones, NEW T, NEW R \in SUBSET Reverse[z],
           CommitTables(z, T, R)
    PROVE  /\ db' \in [Zones -> Content]
           /\ \A y \in Zones, t \in Tables : db'[y][t] >= db[y][t]
           /\ raced' \subseteq Zones
           /\ covers' \in [Zones -> SUBSET Zones]
           /\ covers' = [covers EXCEPT ![z] = R]
  <1> DEFINE moved == IF Addresses \in T THEN (covers[z] \cup R) \cap row ELSE {}
  <1>1. /\ db' = [y \in Zones |-> [t \in Tables |->
                    IF (y = z /\ t \in T) \/ (y \in moved /\ t = AutoReverse)
                    THEN db[y][t] + 1 ELSE db[y][t]]]
        /\ covers' = [covers EXCEPT ![z] = R]
        /\ \E M \in SUBSET moved :
              raced' = raced \cup M
                          \cup (IF \A t \in T : WillBeRead(z, t) THEN {} ELSE {z})
    BY DEF CommitTables
  <1>2. R \subseteq Zones /\ moved \subseteq Zones
    BY ReverseAssumption DEF TypeOK
  <1> HIDE DEF moved
  <1>3. \A y \in Zones, t \in Tables : db[y][t] \in Nat
    BY DEF TypeOK, Content
  <1>4. db' \in [Zones -> Content]
    BY <1>1, <1>3 DEF Content
  <1>5. \A y \in Zones, t \in Tables : db'[y][t] >= db[y][t]
    BY <1>1, <1>3
  <1>6. raced' \subseteq Zones
    BY <1>1, <1>2 DEF TypeOK
  <1>7. covers' \in [Zones -> SUBSET Zones]
    BY <1>1, <1>2 DEF TypeOK
  <1> QED
    BY <1>1, <1>4, <1>5, <1>6, <1>7

\* Both ways to commit; addresses stay where they are unless their table changes.
LEMMA CommitOrDelete ==
    ASSUME TypeOK, NEW s, s.zone \in Zones, CommitStep(s) \/ DeleteZoneStep(s)
    PROVE  \E T : \E R \in SUBSET Reverse[s.zone] :
              /\ CommitTables(s.zone, T, R)
              /\ Addresses \notin T => R = covers[s.zone]
  <1>1. CASE CommitStep(s)
    BY <1>1 DEF CommitStep
  <1>2. CASE DeleteZoneStep(s)
    <2>1. Addresses \in Tables /\ {} \in SUBSET Reverse[s.zone]
      BY AddressesAssumption DEF Tables
    <2> QED
      BY <1>2, <2>1 DEF DeleteZoneStep
  <1> QED
    BY <1>1, <1>2

LEMMA RequestStepType ==
    ASSUME TypeOK, NEW h \in Handlers, RequestStep(h)
    PROVE  TypeOK'
  <1> DEFINE s == Head(todo[h])
  <1>1. s \in Step /\ Tail(todo[h]) \in Seq(Step)
    BY HeadTailProperties DEF RequestStep, TypeOK
  <1>2. todo' \in [Handlers -> Seq(Step)]
    BY <1>1 DEF RequestStep, TypeOK
  <1>3. UNCHANGED <<job, file, reloads, sidecarUp, member, served, requests, faults>>
    BY DEF RequestStep, knotVars
  <1>4. s.zone \in Zones
    BY <1>1 DEF Step
  <1> HIDE DEF s
  <1>5. ASSUME DelayStep(s) PROVE TypeOK'
    <2>2. queue' \in [TaskNames -> [Zones -> Nat]]
      <3>1. queue \in [TaskNames -> [Zones -> Nat]]
        BY DEF TypeOK
      <3>2. CASE UNCHANGED queue
        BY <3>1, <3>2
      <3>3. CASE s.name \in TaskNames /\ queue' = [queue EXCEPT ![s.name][s.zone] = @ + 1]
        BY <1>4, <3>1, <3>3, QueueAdd
      <3> QED
        BY <1>5, <3>2, <3>3 DEF DelayStep
    <2>3. catalogDue' \in BOOLEAN
      BY <1>5 DEF DelayStep, TypeOK
    <2> QED
      BY <1>2, <1>3, <1>5, <2>2, <2>3 DEF DelayStep, TypeOK, dbVars
  <1>6. ASSUME CommitStep(s) PROVE TypeOK'
    <2>1. PICK R \in SUBSET Reverse[s.zone] : CommitTables(s.zone, s.tables, R)
      BY <1>6 DEF CommitStep
    <2>2. /\ db' \in [Zones -> Content] /\ raced' \subseteq Zones
          /\ covers' \in [Zones -> SUBSET Zones]
          /\ covers' = [covers EXCEPT ![s.zone] = R]
      BY <1>4, <2>1, CommitTablesType
    <2> QED
      BY <1>2, <1>3, <1>4, <1>6, <2>2 DEF CommitStep, TypeOK
  <1>7. ASSUME SaveZoneStep(s) PROVE TypeOK'
    BY <1>2, <1>3, <1>4, <1>7 DEF SaveZoneStep, TypeOK
  <1>8. ASSUME DeleteZoneStep(s) PROVE TypeOK'
    <2>1. /\ db' \in [Zones -> Content] /\ raced' \subseteq Zones
          /\ covers' \in [Zones -> SUBSET Zones]
          /\ covers' = [covers EXCEPT ![s.zone] = {}]
      BY <1>4, <1>8, CommitTablesType DEF DeleteZoneStep
    <2> QED
      BY <1>2, <1>3, <1>4, <1>8, <2>1 DEF DeleteZoneStep, TypeOK
  <1> QED
    BY <1>5, <1>6, <1>7, <1>8 DEF RequestStep, s

LEMMA TaskStepType ==
    ASSUME TypeOK, NEW w \in Workers, TaskStep(w)
    PROVE  TypeOK'
  <1>1. job[w] \in Job /\ Idle \in Job /\ Empty \in Content
    BY IdleType DEF TypeOK, Empty, Content
  <1>2. ASSUME NEW n \in TaskNames, NEW z \in Zones, StartTask(w, n, z)
        PROVE  TypeOK'
    <2>1. queue' \in [TaskNames -> [Zones -> Nat]]
      BY <1>2 DEF StartTask, TypeOK
    <2>2. [pc |-> "read", name |-> n, zone |-> z, next |-> 1, snap |-> Empty] \in Job
      BY <1>1 DEF Job
    <2>3. 1 \in Tables
      BY TablesAssumption DEF Tables
    <2>4. /\ job' \in [Workers -> Job]
          /\ \A v \in Workers : job'[v].pc = "read" => job'[v].next \in Tables
      BY <1>2, <2>2, <2>3 DEF StartTask, TypeOK
    <2> QED
      BY <1>2, <2>1, <2>4 DEF StartTask, TypeOK, dbVars, knotVars, historyVars
  <1>3. ASSUME generate_fzone(w) PROVE TypeOK'
    <2> DEFINE t == job[w].next
    <2> DEFINE j == [pc |-> IF t = NumTables THEN "write" ELSE "read",
                     name |-> job[w].name, zone |-> job[w].zone, next |-> t + 1,
                     snap |-> [job[w].snap EXCEPT ![t] = db[job[w].zone][t]]]
    <2>1. t \in Tables /\ job[w].zone \in Zones /\ job[w].snap \in Content
      BY <1>1, <1>3 DEF generate_fzone, TypeOK, Job
    <2>2. [job[w].snap EXCEPT ![t] = db[job[w].zone][t]] \in Content
      BY <2>1 DEF TypeOK, Content
    <2>3. j \in Job /\ (j.pc = "read" => j.next \in Tables)
      BY <1>1, <2>1, <2>2, TablesAssumption DEF Job, Tables
    <2>4. job' = [job EXCEPT ![w] = j]
      BY <1>1, <1>3 DEF generate_fzone, Job, TypeOK
    <2> HIDE DEF j
    <2>5. /\ job' \in [Workers -> Job]
          /\ \A v \in Workers : job'[v].pc = "read" => job'[v].next \in Tables
      BY <2>3, <2>4 DEF TypeOK
    <2>6. queue' \in [TaskNames -> [Zones -> Nat]]
      BY <1>3 DEF generate_fzone, DelayReverse, TypeOK
    <2> QED
      BY <1>3, <2>5, <2>6 DEF generate_fzone, TypeOK, dbVars, knotVars, historyVars
  <1>4. ASSUME write_zone_file(w) PROVE TypeOK'
    <2>1. job[w].zone \in Zones /\ job[w].snap \in Content
      BY <1>1 DEF Job
    <2>2. /\ job' \in [Workers -> Job]
          /\ \A v \in Workers : job'[v].pc = "read" => job'[v].next \in Tables
      BY <1>1, <1>4 DEF write_zone_file, TypeOK, Job
    <2>3. file' \in [Zones -> Content] /\ raced' \subseteq Zones /\ missed' \subseteq Zones
      BY <1>4, <2>1 DEF write_zone_file, TypeOK
    <2> QED
      BY <1>4, <2>2, <2>3 DEF write_zone_file, TypeOK, dbVars, knotVars
  <1>5. Finish(w) => /\ job' \in [Workers -> Job]
                     /\ \A v \in Workers : job'[v].pc = "read" => job'[v].next \in Tables
    BY <1>1 DEF Finish, TypeOK, Idle
  <1>6. ASSUME send_reload_message(w) PROVE TypeOK'
    <2>1. job[w].zone \in Zones
      BY <1>1 DEF Job
    <2>0. reloads \in [Zones -> Nat] /\ missed \subseteq Zones
      BY DEF TypeOK
    <2>2. reloads' \in [Zones -> Nat] /\ missed' \subseteq Zones
      BY <1>6, <2>0, <2>1 DEF send_reload_message
    <2> QED
      BY <1>5, <1>6, <2>2 DEF send_reload_message, TypeOK, dbVars
  <1>7. ASSUME delay_catalog(w) PROVE TypeOK'
    BY <1>5, <1>7 DEF delay_catalog, TypeOK, dbVars, knotVars, historyVars
  <1> QED
    BY <1>2, <1>3, <1>4, <1>6, <1>7 DEF TaskStep

LEMMA NextType == TypeOK /\ [Next]_vars => TypeOK'
  <1> SUFFICES ASSUME TypeOK, [Next]_vars PROVE TypeOK'
    OBVIOUS
  <1>1. ASSUME NEW h \in Handlers, Request(h) PROVE TypeOK'
    BY <1>1, RequestType
  <1>2. ASSUME NEW h \in Handlers, Abort(h), UNCHANGED faults \/ faults' = faults + 1
        PROVE  TypeOK'
    <2>1. todo' \in [Handlers -> Seq(Step)]
      BY <1>2 DEF Abort, TypeOK
    <2> QED
      BY <1>2, <2>1 DEF Abort, TypeOK, dbVars, knotVars
  <1>3. ASSUME NEW w \in Workers, TaskError(w) \/ WorkerCrash(w) PROVE TypeOK'
    <2>1. job[w].zone \in Zones /\ job[w].name \in TaskNames /\ Idle \in Job
      BY IdleType DEF TypeOK, Job
    <2>2. Finish(w)
      BY <1>3 DEF TaskError, WorkerCrash
    <2>3. /\ job' \in [Workers -> Job]
          /\ \A v \in Workers : job'[v].pc = "read" => job'[v].next \in Tables
      BY <2>1, <2>2 DEF Finish, TypeOK, Idle
    <2>4. ASSUME TaskError(w) PROVE TypeOK'
      <3>1. queue' \in [TaskNames -> [Zones -> Nat]]
        BY <2>1, <2>4, QueueAdd DEF TaskError, TypeOK
      <3> QED
        BY <2>3, <2>4, <3>1 DEF TaskError, TypeOK, dbVars, knotVars, historyVars
    <2>5. ASSUME WorkerCrash(w) PROVE TypeOK'
      <3>1. raced' \subseteq Zones /\ missed' \subseteq Zones
        BY <2>1, <2>5 DEF WorkerCrash, TypeOK
      <3> QED
        BY <2>3, <2>5, <3>1 DEF WorkerCrash, TypeOK, dbVars, knotVars
    <2> QED
      BY <1>3, <2>4, <2>5
  <1>4. ASSUME NEW z \in Zones, callback_reload(z) PROVE TypeOK'
    <2>1. /\ reloads \in [Zones -> Nat] /\ served \in [Zones -> Content]
          /\ file \in [Zones -> Content] /\ missed \subseteq Zones
      BY DEF TypeOK
    <2>2. reloads' \in [Zones -> Nat] /\ served' \in [Zones -> Content] /\ missed' \subseteq Zones
      BY <1>4, <2>1 DEF callback_reload
    <2> QED
      BY <1>4, <2>2 DEF callback_reload, TypeOK, dbVars
  <1>5. ASSUME SidecarCrash \/ SidecarStart PROVE TypeOK'
    <2>1. sidecarUp' \in BOOLEAN
      BY <1>5 DEF SidecarCrash, SidecarStart
    <2>2. CASE SidecarCrash
      BY <2>1, <2>2 DEF SidecarCrash, TypeOK, dbVars
    <2>3. CASE SidecarStart
      BY <2>1, <2>3 DEF SidecarStart, TypeOK, dbVars, historyVars
    <2> QED
      BY <1>5, <2>2, <2>3
  <1>6. ASSUME NEW S \in SUBSET Zones, CatalogReload(S) PROVE TypeOK'
    <2>1. Empty \in Content
      BY DEF Empty, Content
    <2> QED
      BY <1>6, <2>1 DEF CatalogReload, TypeOK, dbVars
  <1>7. ASSUME UNCHANGED vars PROVE TypeOK'
    BY <1>7 DEF vars, TypeOK
  <1> QED
    BY <1>1, <1>2, <1>3, <1>4, <1>5, <1>6, <1>7, RequestStepType, TaskStepType
       DEF Next, RequestSteps, IntegrityError, RequestDies

\* Every reachable state is well typed: the queues of the broker and of the
\* sidecar never count below zero and a worker never reads past the last table.
THEOREM TypeCorrect == Spec => []TypeOK
  BY InitType, NextType, PTL DEF Spec

------------------------------------------------------------------------------
(* Nothing uncommitted is published.                                         *)

LEMMA InitCommitted == Init => NothingUncommitted
  <1> SUFFICES ASSUME Init, NEW t \in Tables
               PROVE  /\ \A z \in Zones : file[z][t] <= db[z][t] /\ served[z][t] <= db[z][t]
                      /\ \A w \in Workers : job[w].snap[t] <= db[job[w].zone][t]
    BY DEF NothingUncommitted
  <1>1. Idle.zone \in Zones /\ Idle.snap[t] = 0
    BY ZonesAssumption DEF Idle, AnyZone, Empty
  <1>2. \A z \in Zones : /\ db[z][t] \in {0, 1}
                          /\ file[z][t] = db[z][t] /\ served[z][t] = db[z][t]
    BY DEF Init, Empty, First
  <1>3. \A w \in Workers : job[w].snap[t] = 0 /\ db[job[w].zone][t] \in {0, 1}
    BY <1>1, <1>2 DEF Init
  <1> QED
    BY <1>2, <1>3

LEMMA NextCommitted == TypeOK /\ NothingUncommitted /\ [Next]_vars => NothingUncommitted'
  <1> SUFFICES ASSUME TypeOK, NothingUncommitted, [Next]_vars
               PROVE  NothingUncommitted'
    OBVIOUS
  <1>0. /\ \A z \in Zones, t \in Tables :
              db[z][t] \in Nat /\ file[z][t] \in Nat /\ served[z][t] \in Nat
        /\ \A w \in Workers : job[w].zone \in Zones
        /\ \A w \in Workers, t \in Tables : job[w].snap[t] \in Nat
    BY DEF TypeOK, Content, Job
  \* A step that only adds versions to the tables.
  <1>1. ASSUME UNCHANGED <<job, file, served>>,
               \A z \in Zones, t \in Tables : db'[z][t] \in Nat /\ db[z][t] <= db'[z][t]
        PROVE  NothingUncommitted'
    BY <1>0, <1>1 DEF NothingUncommitted
  <1>2. ASSUME NEW h \in Handlers, Request(h) PROVE NothingUncommitted'
    <2>1. PICK z \in Zones, p \in Seq(Step) : OnZone(h, z, p) \/ NewZone(h, z, p)
      BY <1>2, RequestShape
    <2>2. Begin(h, p)
      BY <2>1 DEF OnZone, NewZone
    <2>3. CASE OnZone(h, z, p)
      BY <1>0, <1>1, <2>2, <2>3 DEF OnZone, Begin, dbVars, knotVars
    <2>4. CASE NewZone(h, z, p)
      <3>1. \A t \in Tables : db[z][t] = 0
        BY <1>0, <2>4 DEF NewZone, Created
      <3> QED
        BY <1>0, <1>1, <2>2, <2>4, <3>1 DEF NewZone, Begin, knotVars, TypeOK
    <2> QED
      BY <2>1, <2>3, <2>4
  <1>3. ASSUME NEW h \in Handlers, RequestStep(h) PROVE NothingUncommitted'
    <2> DEFINE s == Head(todo[h])
    <2>1. s \in Step
      BY <1>3, HeadTailProperties DEF RequestStep, TypeOK
    <2>2. s.zone \in Zones
      BY <2>1 DEF Step
    <2>3. UNCHANGED <<job, file, served>>
      BY <1>3 DEF RequestStep, knotVars
    <2> HIDE DEF s
    <2>4. CASE UNCHANGED db
      BY <1>0, <1>1, <2>3, <2>4
    <2>5. CASE CommitStep(s) \/ DeleteZoneStep(s)
      <3>1. /\ db' \in [Zones -> Content]
            /\ \A y \in Zones, t \in Tables : db'[y][t] >= db[y][t]
        BY <2>2, <2>5, CommitOrDelete, CommitTablesType
      <3>2. \A y \in Zones, t \in Tables : db'[y][t] \in Nat /\ db[y][t] <= db'[y][t]
        BY <1>0, <3>1 DEF Content
      <3> QED
        BY <1>1, <2>3, <3>2
    <2> QED
      BY <1>3, <2>4, <2>5 DEF RequestStep, DelayStep, SaveZoneStep, s, dbVars
  <1>4. ASSUME NEW h \in Handlers, Abort(h) PROVE NothingUncommitted'
    BY <1>0, <1>1, <1>4 DEF Abort, dbVars, knotVars
  <1>5. ASSUME NEW w \in Workers, NEW j \in Job, job' = [job EXCEPT ![w] = j],
               \A t \in Tables : j.snap[t] <= db[j.zone][t],
               UNCHANGED <<db, file, served>>
        PROVE  NothingUncommitted'
    BY <1>0, <1>5 DEF NothingUncommitted, TypeOK
  <1>6. /\ Idle \in Job
        /\ \A t \in Tables : Idle.snap[t] <= db[Idle.zone][t]
    <2>1. Idle.zone \in Zones /\ \A t \in Tables : Idle.snap[t] = 0
      BY ZonesAssumption DEF Idle, AnyZone, Empty
    <2> QED
      BY <1>0, <2>1, IdleType
  <1>7. ASSUME NEW w \in Workers, Finish(w), UNCHANGED <<db, file, served>>
        PROVE  NothingUncommitted'
    BY <1>5, <1>6, <1>7 DEF Finish
  <1>8. ASSUME NEW w \in Workers, NEW n \in TaskNames, NEW z \in Zones, StartTask(w, n, z)
        PROVE  NothingUncommitted'
    <2> DEFINE j == [pc |-> "read", name |-> n, zone |-> z, next |-> 1, snap |-> Empty]
    <2>1. j \in Job /\ \A t \in Tables : j.snap[t] <= db[j.zone][t]
      BY <1>0 DEF Job, Empty, Content
    <2>2. UNCHANGED <<db, file, served>>
      BY <1>8 DEF StartTask, dbVars, knotVars
    <2>3. UNCHANGED job \/ job' = [job EXCEPT ![w] = j]
      BY <1>8 DEF StartTask
    <2> HIDE DEF j
    <2> QED
      BY <1>0, <1>1, <1>5, <2>1, <2>2, <2>3
  <1>9. ASSUME NEW w \in Workers, generate_fzone(w) PROVE NothingUncommitted'
    <2> DEFINE t == job[w].next
               j == [pc |-> IF t = NumTables THEN "write" ELSE "read",
                     name |-> job[w].name, zone |-> job[w].zone, next |-> t + 1,
                     snap |-> [job[w].snap EXCEPT ![t] = db[job[w].zone][t]]]
    <2>1. /\ t \in Tables
          /\ job[w].snap \in Content
          /\ job[w].name \in TaskNames
      BY <1>9 DEF generate_fzone, TypeOK, Job
    <2>2. j.snap \in Content
      BY <1>0, <2>1 DEF Content
    <2>3. j \in Job
      BY <1>0, <2>1, <2>2 DEF Job, Tables
    <2>4. \A u \in Tables : j.snap[u] <= db[j.zone][u]
      BY <1>0, <2>1 DEF NothingUncommitted, Content
    <2>5. job' = [job EXCEPT ![w] = j] /\ UNCHANGED <<db, file, served>>
      BY <1>9 DEF generate_fzone, dbVars, knotVars
    <2> HIDE DEF j
    <2> QED
      BY <1>5, <2>3, <2>4, <2>5
  <1>10. ASSUME NEW w \in Workers, write_zone_file(w) PROVE NothingUncommitted'
    <2>1. /\ UNCHANGED <<db, served>>
          /\ file' = [file EXCEPT ![job[w].zone] = job[w].snap]
          /\ \A v \in Workers : job'[v].snap = job[v].snap /\ job'[v].zone = job[v].zone
      BY <1>10 DEF write_zone_file, dbVars, knotVars, TypeOK, Job
    <2> QED
      BY <1>0, <2>1 DEF NothingUncommitted, TypeOK
  <1>11. ASSUME NEW w \in Workers,
                \/ send_reload_message(w)
                \/ delay_catalog(w)
                \/ TaskError(w)
                \/ WorkerCrash(w)
         PROVE  NothingUncommitted'
    <2>1. Finish(w) /\ UNCHANGED <<db, file, served>>
      BY <1>11 DEF send_reload_message, delay_catalog, TaskError, WorkerCrash,
            dbVars, knotVars
    <2> QED
      BY <1>7, <2>1
  <1>12. ASSUME NEW z \in Zones, callback_reload(z) PROVE NothingUncommitted'
    <2>1. /\ UNCHANGED <<db, file, job>>
          /\ \A y \in Zones : served'[y] = served[y] \/ served'[y] = file[y]
      BY <1>12 DEF callback_reload, dbVars, TypeOK
    <2> QED
      BY <1>0, <2>1 DEF NothingUncommitted
  <1>13. ASSUME NEW S \in SUBSET Zones, CatalogReload(S) PROVE NothingUncommitted'
    <2>1. /\ UNCHANGED <<db, file, job>>
          /\ \A y \in Zones : \/ served'[y] = served[y]
                              \/ served'[y] = file[y]
                              \/ served'[y] = Empty
      BY <1>13 DEF CatalogReload, dbVars
    <2> QED
      BY <1>0, <2>1 DEF NothingUncommitted, Empty
  <1>14. ASSUME SidecarCrash \/ SidecarStart \/ UNCHANGED vars
         PROVE  NothingUncommitted'
    BY <1>0, <1>1, <1>14 DEF SidecarCrash, SidecarStart, dbVars, vars
  <1> QED
    BY <1>2, <1>3, <1>4, <1>8, <1>9, <1>10, <1>11, <1>12, <1>13, <1>14
       DEF Next, RequestSteps, IntegrityError, RequestDies, TaskStep

\* Whatever fails, dies or races, only committed record tables reach a zone
\* file and Knot, although every task is enqueued before its commit.
THEOREM OnlyCommittedPublished == Spec => []NothingUncommitted
  BY InitCommitted, NextCommitted, TypeCorrect, PTL DEF Spec

------------------------------------------------------------------------------
(* A zone file is stale for good only after a lost race.                     *)

\* A waiting step is the next one or stays in the program.
LEMMA StillWaiting ==
    ASSUME NEW q \in Seq(Step), q # <<>>, NEW i \in 1 .. Len(q)
    PROVE  q[i] = Head(q) \/ \E k \in 1 .. Len(Tail(q)) : Tail(q)[k] = q[i]
  <1>1. CASE i = 1
    BY <1>1
  <1>2. CASE i # 1
    <2>1. i - 1 \in 1 .. Len(Tail(q)) /\ Tail(q)[i - 1] = q[i]
      BY <1>2, HeadTailProperties, LenProperties
    <2> QED
      BY <2>1
  <1> QED
    BY <1>1, <1>2

\* Whoever is going to refresh z, itself or a zone with addresses in it, still is.
LEMMA AnnouncedCarries ==
    ASSUME NEW z \in Zones, NEW t \in Tables,
           UNCHANGED covers,
           WillBeRead(z, t) => WillBeRead(z, t)',
           \A f \in Zones : z \in covers[f] /\ WillBeRead(f, Addresses)
                              => WillBeRead(f, Addresses)',
           Announced(z, t)
    PROVE  Announced(z, t)'
  BY DEF Announced

\* A table of z that a commit to y changes will be read again, or z has raced.
LEMMA CommitStale ==
    ASSUME TypeOK, NEW y \in Zones, NEW T, NEW R \in SUBSET Reverse[y],
           CommitTables(y, T, R), Addresses \notin T => R = covers[y],
           UNCHANGED <<job, file>>,
           \A f \in Zones, u \in Tables : WillBeRead(f, u) => WillBeRead(f, u)',
           NEW z \in row, z \notin raced', NEW t \in Tables, Covered(z, t)
    PROVE  Covered(z, t)'
  <1> DEFINE moved == IF Addresses \in T THEN (covers[y] \cup R) \cap row ELSE {}
  <1>1. /\ db' = [x \in Zones |-> [u \in Tables |->
                    IF (x = y /\ u \in T) \/ (x \in moved /\ u = AutoReverse)
                    THEN db[x][u] + 1 ELSE db[x][u]]]
        /\ covers' = [covers EXCEPT ![y] = R]
        /\ z = y => \A u \in T : WillBeRead(y, u)
        /\ z \in moved => \/ WillBeRead(z, AutoReverse)
                          \/ \E f \in Zones : /\ z \in [covers EXCEPT ![y] = R][f]
                                               /\ WillBeRead(f, Addresses)
    BY DEF CommitTables
  <1>2. z \in Zones /\ Addresses \in Tables /\ AutoReverse \in Tables
    BY TablesAssumption, AddressesAssumption DEF TypeOK, Tables, AutoReverse
  <1>3. CASE z = y /\ t \in T
    BY <1>1, <1>2, <1>3 DEF Covered, Announced
  <1>4. CASE z \in moved /\ t = AutoReverse
    <2>1. \/ WillBeRead(z, AutoReverse)'
          \/ \E f \in Zones : z \in covers'[f] /\ WillBeRead(f, Addresses)'
      BY <1>1, <1>2, <1>4
    <2> QED
      BY <1>2, <1>4, <2>1 DEF Covered, Announced
  <1>5. CASE ~(z = y /\ t \in T) /\ ~(z \in moved /\ t = AutoReverse)
    <2>1. db'[z][t] = db[z][t]
      BY <1>1, <1>2, <1>5
    <2>2. CASE Announced(z, t)
      <3>1. CASE WillBeRead(z, t)
        BY <1>2, <3>1 DEF Covered, Announced
      <3>2. CASE t = AutoReverse /\ \E f \in Zones : z \in covers[f] /\ WillBeRead(f, Addresses)
        <4>1. PICK f \in Zones : z \in covers[f] /\ WillBeRead(f, Addresses)
          BY <3>2
        <4>2. z \in covers'[f]
          BY <1>1, <1>5, <3>2, <4>1 DEF TypeOK
        <4> QED
          BY <1>2, <3>2, <4>1, <4>2 DEF Covered, Announced
      <3> QED
        BY <2>2, <3>1, <3>2 DEF Announced
    <2>3. CASE ~Announced(z, t)
      BY <2>1, <2>3 DEF Covered
    <2> QED
      BY <2>2, <2>3
  <1> QED
    BY <1>3, <1>4, <1>5

LEMMA InitStale == Init => StaleOnlyIfRaced
  BY DEF Init, StaleOnlyIfRaced, Covered

LEMMA RequestStale ==
    ASSUME TypeOK, StaleOnlyIfRaced, NEW h \in Handlers, Request(h)
    PROVE  StaleOnlyIfRaced'
  <1> SUFFICES ASSUME NEW z \in row', z \notin raced', NEW t \in Tables
               PROVE  Covered(z, t)'
    BY DEF StaleOnlyIfRaced
  <1>1. PICK z0 \in Zones, p \in Seq(Step) :
              \/ OnZone(h, z0, p)
              \/ /\ NewZone(h, z0, p)
                 /\ \E i \in 1 .. Len(p) : p[i].zone = z0 /\ p[i].name \in TaskNames
    BY RequestShape
  <1>2. Begin(h, p)
    BY <1>1 DEF OnZone, NewZone
  <1>3. /\ todo[h] = <<>>
        /\ todo' = [todo EXCEPT ![h] = p]
        /\ UNCHANGED <<queue, job, file, raced>>
    BY <1>2 DEF Begin, historyVars
  <1>4. \A g \in Handlers, y \in Zones : WillEnqueue(g, y) => WillEnqueue(g, y)'
    BY <1>3 DEF WillEnqueue, TypeOK
  <1>5. CASE z \in row /\ db'[z] = db[z]
    <2>1. Covered(z, t)
      BY <1>3, <1>5 DEF StaleOnlyIfRaced
    <2>2. z \in Zones
      BY <1>5 DEF TypeOK
    <2>3. \A y \in Zones : \A u : WillBeRead(y, u) => WillBeRead(y, u)'
      BY <1>3, <1>4 DEF WillBeRead
    <2>4. UNCHANGED covers
      BY <1>1 DEF OnZone, NewZone, dbVars
    <2>5. Announced(z, t) => Announced(z, t)'
      BY <2>2, <2>3, <2>4, AnnouncedCarries
    <2> QED
      BY <1>3, <1>5, <2>1, <2>5 DEF Covered
  <1>6. CASE z = z0 /\ NewZone(h, z0, p)
    <2>1. PICK i \in 1 .. Len(p) : p[i].zone = z0 /\ p[i].name \in TaskNames
      BY <1>1, <1>6 DEF NewZone, OnZone
    <2>2. todo'[h] = p
      BY <1>3 DEF TypeOK
    <2>3. WillEnqueue(h, z)'
      BY <1>6, <2>1, <2>2 DEF WillEnqueue
    <2> QED
      BY <2>3 DEF Covered, Announced, WillBeRead
  <1>7. CASE OnZone(h, z0, p)
    BY <1>5, <1>7 DEF OnZone, dbVars
  <1>8. CASE NewZone(h, z0, p) /\ z # z0
    BY <1>5, <1>8 DEF NewZone, TypeOK
  <1> QED
    BY <1>1, <1>6, <1>7, <1>8

LEMMA RequestStepStale ==
    ASSUME TypeOK, StaleOnlyIfRaced, NEW h \in Handlers, RequestStep(h)
    PROVE  StaleOnlyIfRaced'
  <1> SUFFICES ASSUME NEW z \in row', z \notin raced', NEW t \in Tables
               PROVE  Covered(z, t)'
    BY DEF StaleOnlyIfRaced
  <1> DEFINE s == Head(todo[h])
  <1>1. /\ todo[h] \in Seq(Step)
        /\ todo[h] # <<>>
        /\ todo' = [todo EXCEPT ![h] = Tail(todo[h])]
        /\ UNCHANGED <<job, file>>
    BY DEF RequestStep, TypeOK
  <1>2. s \in Step
    BY <1>1, HeadTailProperties
  <1>3. s.zone \in Zones
    BY <1>2 DEF Step
  <1>4. ASSUME NEW g \in Handlers, NEW y \in Zones, WillEnqueue(g, y)
        PROVE  WillEnqueue(g, y)' \/ (s.zone = y /\ s.name \in TaskNames)
    <2>1. CASE g # h
      BY <1>1, <1>4, <2>1 DEF WillEnqueue, TypeOK
    <2>2. CASE g = h
      <3>1. PICK i \in 1 .. Len(todo[h]) :
                todo[h][i].zone = y /\ todo[h][i].name \in TaskNames
        BY <1>4, <2>2 DEF WillEnqueue
      <3>2. CASE todo[h][i] = s
        BY <3>1, <3>2
      <3>3. CASE \E k \in 1 .. Len(Tail(todo[h])) : Tail(todo[h])[k] = todo[h][i]
        <4>1. todo'[h] = Tail(todo[h])
          BY <1>1 DEF TypeOK
        <4> QED
          BY <2>2, <3>1, <3>3, <4>1 DEF WillEnqueue
      <3> QED
        BY <1>1, <3>2, <3>3, StillWaiting
    <2> QED
      BY <2>1, <2>2
  <1> HIDE DEF s
  <1>5. ASSUME DelayStep(s) PROVE Covered(z, t)'
    <2>1. z \in row /\ z \in Zones /\ UNCHANGED <<db, covers, raced>>
      BY <1>5 DEF DelayStep, TypeOK, dbVars
    <2>2. \A n \in TaskNames, y \in Zones :
              /\ queue[n][y] > 0 => queue'[n][y] > 0
              /\ (s.name = n /\ s.zone = y) => queue'[n][y] > 0
      <3>1. \A n \in TaskNames, y \in Zones : queue[n][y] \in Nat
        BY DEF TypeOK
      <3>2. CASE s.name = "update_catalog" /\ UNCHANGED queue
        BY <3>2 DEF TaskNames
      <3>3. CASE /\ s.name \in TaskNames
                 /\ queue' = [queue EXCEPT ![s.name][s.zone] = @ + 1]
        BY <1>3, <3>1, <3>3 DEF TypeOK
      <3> QED
        BY <1>5, <3>2, <3>3 DEF DelayStep
    <2>3. Covered(z, t)
      BY <2>1 DEF StaleOnlyIfRaced
    <2>4. \A y \in Zones : \A u : WillBeRead(y, u) => WillBeRead(y, u)'
      BY <1>1, <1>4, <2>2 DEF WillBeRead
    <2>5. Announced(z, t) => Announced(z, t)'
      BY <2>1, <2>4, AnnouncedCarries
    <2> QED
      BY <1>1, <2>1, <2>3, <2>5 DEF Covered
  <1>6. ASSUME UNCHANGED queue, s.name \notin TaskNames
        PROVE  \A y \in Zones : \A u : WillBeRead(y, u) => WillBeRead(y, u)'
    BY <1>1, <1>4, <1>6 DEF WillBeRead
  <1>7. ASSUME SaveZoneStep(s) PROVE Covered(z, t)'
    <2>1. /\ z \in row /\ z \notin raced /\ UNCHANGED <<db, covers, queue>>
          /\ s.name \notin TaskNames
      BY <1>7 DEF SaveZoneStep, TaskNames
    <2>2. Covered(z, t) /\ z \in Zones
      BY <2>1 DEF StaleOnlyIfRaced, TypeOK
    <2>3. Announced(z, t) => Announced(z, t)'
      BY <1>6, <2>1, <2>2, AnnouncedCarries
    <2> QED
      BY <1>1, <2>1, <2>2, <2>3 DEF Covered
  <1>8. ASSUME CommitStep(s) \/ DeleteZoneStep(s) PROVE Covered(z, t)'
    <2>1. UNCHANGED queue /\ s.name \notin TaskNames /\ z \in row
      BY <1>8 DEF CommitStep, DeleteZoneStep, TaskNames
    <2>2. PICK T : \E R \in SUBSET Reverse[s.zone] :
              /\ CommitTables(s.zone, T, R)
              /\ Addresses \notin T => R = covers[s.zone]
      BY <1>3, <1>8, CommitOrDelete
    <2>3. PICK R \in SUBSET Reverse[s.zone] :
              /\ CommitTables(s.zone, T, R)
              /\ Addresses \notin T => R = covers[s.zone]
      BY <2>2
    <2>4. z \notin raced
      BY <2>3 DEF CommitTables
    <2>5. Covered(z, t)
      BY <2>1, <2>4 DEF StaleOnlyIfRaced
    <2> QED
      BY <1>1, <1>3, <1>6, <2>1, <2>3, <2>5, CommitStale
  <1> QED
    BY <1>5, <1>7, <1>8 DEF RequestStep, s

LEMMA AbortStale ==
    ASSUME TypeOK, StaleOnlyIfRaced, NEW h \in Handlers, Abort(h)
    PROVE  StaleOnlyIfRaced'
  <1> SUFFICES ASSUME NEW z \in row', z \notin raced', NEW t \in Tables
               PROVE  Covered(z, t)'
    BY DEF StaleOnlyIfRaced
  <1>1. /\ z \in row /\ z \in Zones /\ z \notin raced
        /\ UNCHANGED <<db, covers, queue, job, file>>
        /\ \A y \in Zones : y = z \/ z \in covers[y] => ~WillEnqueue(h, y)
    BY DEF Abort, dbVars, TypeOK
  <1>2. \A y \in Zones : y = z \/ z \in covers[y] =>
          \A u : WillBeRead(y, u) => WillBeRead(y, u)'
    <2>1. \A y \in Zones, g \in Handlers :
             (y = z \/ z \in covers[y]) /\ WillEnqueue(g, y) => WillEnqueue(g, y)'
      BY <1>1 DEF Abort, WillEnqueue, TypeOK
    <2> QED
      BY <1>1, <2>1 DEF WillBeRead
  <1>3. Covered(z, t)
    BY <1>1 DEF StaleOnlyIfRaced
  <1>4. Announced(z, t) => Announced(z, t)'
    BY <1>1, <1>2, AnnouncedCarries
  <1> QED
    BY <1>1, <1>3, <1>4 DEF Covered

LEMMA TaskStepStale ==
    ASSUME TypeOK, NothingUncommitted, StaleOnlyIfRaced, NEW w \in Workers, TaskStep(w)
    PROVE  StaleOnlyIfRaced'
  <1> SUFFICES ASSUME NEW z \in row', z \notin raced', NEW t \in Tables
               PROVE  Covered(z, t)'
    BY DEF StaleOnlyIfRaced
  <1>1. /\ UNCHANGED <<row, db, covers, todo>>
        /\ \A v \in Workers \ {w} : job'[v] = job[v]
    BY DEF TaskStep, StartTask, generate_fzone, write_zone_file,
           send_reload_message, delay_catalog, Finish, dbVars, TypeOK
  <1>2. z \in row /\ z \in Zones /\ t \in Nat
    BY <1>1 DEF TypeOK, Tables
  <1>3. \A h \in Handlers, y \in Zones : WillEnqueue(h, y) => WillEnqueue(h, y)'
    BY <1>1 DEF WillEnqueue
  <1>0. ASSUME \A y \in row : \A u \in Tables : WillBeRead(y, u) => WillBeRead(y, u)',
               Announced(z, t)
        PROVE  Announced(z, t)'
    <2>1. Addresses \in Tables /\ \A f \in Zones : z \in covers[f] => f \in row
      BY AddressesAssumption DEF Tables, TypeOK
    <2> QED
      BY <1>0, <1>1, <1>2, <2>1, AnnouncedCarries
  <1>4. ASSUME NEW n \in TaskNames, NEW y \in Zones, StartTask(w, n, y)
        PROVE  Covered(z, t)'
    <2>1. z \notin raced /\ UNCHANGED file /\ job[w].pc = "idle"
      BY <1>4 DEF StartTask, historyVars
    <2>2. Covered(z, t)
      BY <1>2, <2>1 DEF StaleOnlyIfRaced
    <2>3. \A x \in row : \A u \in Tables : WillBeRead(x, u) => WillBeRead(x, u)'
      <3> SUFFICES ASSUME NEW x \in row, NEW u \in Tables, WillBeRead(x, u)
                   PROVE  WillBeRead(x, u)'
        OBVIOUS
      <3>0. x \in Zones
        BY DEF TypeOK
      <3>1. CASE y = x
        <4>1. job'[w] = [pc |-> "read", name |-> n, zone |-> x, next |-> 1, snap |-> Empty]
          BY <1>4, <3>1 DEF StartTask, TypeOK
        <4>2. job'[w].pc = "read" /\ job'[w].zone = x /\ job'[w].next <= u
          BY <4>1 DEF Tables
        <4> QED
          BY <4>2 DEF WillBeRead
      <3>2. CASE y # x
        <4>1. \A m \in TaskNames : queue'[m][x] = queue[m][x]
          BY <1>4, <3>0, <3>2 DEF StartTask, TypeOK
        <4> QED
          BY <1>1, <1>3, <2>1, <3>0, <4>1 DEF WillBeRead
      <3> QED
        BY <3>1, <3>2
    <2>4. Announced(z, t) => Announced(z, t)'
      BY <1>0, <2>3
    <2> QED
      BY <1>1, <2>1, <2>2, <2>4 DEF Covered
  <1>5. ASSUME generate_fzone(w) PROVE Covered(z, t)'
    <2> DEFINE u == job[w].next
    <2>1. /\ z \notin raced /\ UNCHANGED file /\ job[w].pc = "read"
          /\ queue' = DelayReverse(w)
      BY <1>5 DEF generate_fzone, historyVars
    <2>2. u \in Tables /\ job[w].snap \in Content
      BY <2>1 DEF TypeOK, Job
    <2>3. /\ job'[w].pc = IF u = NumTables THEN "write" ELSE "read"
          /\ job'[w].zone = job[w].zone
          /\ job'[w].next = u + 1
          /\ job'[w].snap = [job[w].snap EXCEPT ![u] = db[job[w].zone][u]]
      BY <1>5 DEF generate_fzone, TypeOK
    <2>4. Covered(z, t)
      BY <1>2, <2>1 DEF StaleOnlyIfRaced
    <2>5. /\ \A n \in TaskNames, y \in Zones : queue[n][y] > 0 => queue'[n][y] > 0
          /\ u = Addresses /\ z \in covers[job[w].zone] => queue'["update_fzone"][z] > 0
      <3>1. \A n \in TaskNames, y \in Zones : queue[n][y] \in Nat
        BY DEF TypeOK
      <3> QED
        BY <1>2, <2>1, <3>1 DEF DelayReverse, TaskNames
    <2>6. ASSUME NEW y \in Zones, NEW v \in Tables, WillBeRead(y, v)
          PROVE  WillBeRead(y, v)' \/ (job[w].zone = y /\ u = v)
      <3>1. CASE job[w].zone = y /\ u < v
        BY <2>2, <2>3, <3>1, TablesAssumption DEF WillBeRead, Tables
      <3>2. CASE ~(job[w].zone = y /\ u <= v)
        BY <1>1, <1>3, <2>5, <2>6, <3>2 DEF WillBeRead
      <3> QED
        BY <2>2, <3>1, <3>2 DEF Tables
    <2>7. CASE Announced(z, t)
      <3>1. CASE WillBeRead(z, t)
        BY <1>1, <1>2, <2>2, <2>3, <2>6, <3>1 DEF Covered, Announced, Content
      <3>2. CASE t = AutoReverse /\ \E f \in Zones : z \in covers[f] /\ WillBeRead(f, Addresses)
        <4>1. PICK f \in Zones : z \in covers[f] /\ WillBeRead(f, Addresses)
          BY <3>2
        <4>2. Addresses \in Tables /\ "update_fzone" \in TaskNames
          BY AddressesAssumption DEF Tables, TaskNames
        <4>3. WillBeRead(f, Addresses)' \/ queue'["update_fzone"][z] > 0
          BY <2>5, <2>6, <4>1, <4>2
        <4>4. Announced(z, t)'
          BY <1>1, <3>2, <4>1, <4>2, <4>3 DEF Announced, WillBeRead
        <4> QED
          BY <4>4 DEF Covered
      <3> QED
        BY <2>7, <3>1, <3>2 DEF Announced
    <2>8. ASSUME job[w].zone = z, job[w].snap[t] = db[z][t] PROVE Covered(z, t)'
      BY <1>1, <2>2, <2>3, <2>8 DEF Covered, Content
    <2> QED
      BY <1>1, <2>1, <2>4, <2>7, <2>8 DEF Covered
  <1>6. ASSUME write_zone_file(w) PROVE Covered(z, t)'
    <2> DEFINE y == job[w].zone
    <2>1. /\ UNCHANGED queue /\ job[w].pc = "write"
          /\ file' = [file EXCEPT ![y] = job[w].snap]
      BY <1>6 DEF write_zone_file
    <2>2. y \in Zones
      BY DEF TypeOK, Job
    <2>6. job'[w].pc = "publish"
      BY <1>6 DEF write_zone_file, TypeOK
    <2>7. Announced(z, t) => Announced(z, t)'
      <3>1. \A x \in row : \A u \in Tables : WillBeRead(x, u) => WillBeRead(x, u)'
        BY <1>1, <1>3, <2>1, <2>6 DEF WillBeRead, TypeOK
      <3> QED
        BY <1>0, <3>1
    <2>3. CASE y = z /\ job[w].snap = db[z]
      <3>1. file'[z][t] = db'[z][t]
        BY <1>1, <1>2, <2>1, <2>3 DEF TypeOK
      <3> QED
        BY <3>1 DEF Covered
    <2>4. CASE y = z /\ job[w].snap # db[z]
      <3>1. z \notin raced /\ \A u \in Tables : ~(job[w].snap[u] < file[z][u])
        BY <1>6, <2>4 DEF write_zone_file
      <3>2. Covered(z, t)
        BY <1>2, <3>1 DEF StaleOnlyIfRaced
      <3>3. file'[z][t] = job[w].snap[t]
        BY <1>2, <2>1, <2>4 DEF TypeOK
      <3>4. /\ job[w].snap[t] <= db[z][t]
            /\ job[w].snap[t] \in Nat /\ db[z][t] \in Nat /\ file[z][t] \in Nat
        BY <1>2, <2>4 DEF NothingUncommitted, TypeOK, Job, Content
      <3>5. file[z][t] = db[z][t] => file'[z][t] = db[z][t]
        BY <3>1, <3>3, <3>4
      <3> QED
        BY <1>1, <2>1, <2>7, <3>2, <3>3, <3>5 DEF Covered
    <2>5. CASE y # z
      <3>1. z \notin raced /\ file'[z] = file[z]
        BY <1>6, <2>1, <2>5, <2>2, <1>2 DEF write_zone_file, TypeOK
      <3>2. Covered(z, t)
        BY <1>2, <3>1 DEF StaleOnlyIfRaced
      <3> QED
        BY <1>1, <2>5, <2>7, <3>1, <3>2 DEF Covered
    <2> QED
      BY <2>3, <2>4, <2>5
  <1>7. ASSUME send_reload_message(w) \/ delay_catalog(w) PROVE Covered(z, t)'
    <2>1. z \notin raced /\ UNCHANGED <<queue, file>> /\ job[w].pc = "publish"
      BY <1>7 DEF send_reload_message, delay_catalog, historyVars
    <2>2. Covered(z, t)
      BY <1>2, <2>1 DEF StaleOnlyIfRaced
    <2>3. Announced(z, t) => Announced(z, t)'
      <3>1. \A x \in row : \A u \in Tables : WillBeRead(x, u) => WillBeRead(x, u)'
        BY <1>1, <1>3, <2>1 DEF WillBeRead, TypeOK
      <3> QED
        BY <1>0, <3>1
    <2> QED
      BY <1>1, <2>1, <2>2, <2>3 DEF Covered
  <1> QED
    BY <1>4, <1>5, <1>6, <1>7 DEF TaskStep

LEMMA TaskFaultStale ==
    ASSUME TypeOK, StaleOnlyIfRaced, NEW w \in Workers, TaskError(w) \/ WorkerCrash(w)
    PROVE  StaleOnlyIfRaced'
  <1> SUFFICES ASSUME NEW z \in row', z \notin raced', NEW t \in Tables
               PROVE  Covered(z, t)'
    BY DEF StaleOnlyIfRaced
  <1>1. /\ UNCHANGED <<row, db, covers, todo, file>>
        /\ \A v \in Workers \ {w} : job'[v] = job[v]
    BY DEF TaskError, WorkerCrash, Finish, dbVars, TypeOK
  <1>2. z \in row /\ z \in Zones
    BY <1>1 DEF TypeOK
  <1>3. \A h \in Handlers, y \in Zones : WillEnqueue(h, y) => WillEnqueue(h, y)'
    BY <1>1 DEF WillEnqueue
  <1>0. ASSUME \A y \in row : \A u \in Tables : WillBeRead(y, u) => WillBeRead(y, u)',
               Announced(z, t)
        PROVE  Announced(z, t)'
    <2>1. Addresses \in Tables /\ \A f \in Zones : z \in covers[f] => f \in row
      BY AddressesAssumption DEF Tables, TypeOK
    <2> QED
      BY <1>0, <1>1, <1>2, <2>1, AnnouncedCarries
  <1>4. ASSUME TaskError(w) PROVE Covered(z, t)'
    <2>1. Covered(z, t)
      BY <1>2, <1>4 DEF TaskError, StaleOnlyIfRaced, historyVars
    <2>2. \A x \in row : \A u \in Tables : WillBeRead(x, u) => WillBeRead(x, u)'
      <3>1. /\ job[w].name \in TaskNames /\ job[w].zone \in Zones
            /\ \A n \in TaskNames, x \in Zones : queue[n][x] \in Nat
        BY DEF TypeOK, Job
      <3>2. /\ queue'[job[w].name][job[w].zone] > 0
            /\ \A n \in TaskNames, x \in Zones : queue[n][x] > 0 => queue'[n][x] > 0
        BY <1>4, <3>1 DEF TaskError, TypeOK
      <3> SUFFICES ASSUME NEW x \in row, NEW u \in Tables, WillBeRead(x, u)
                   PROVE  WillBeRead(x, u)'
        OBVIOUS
      <3>3. x \in Zones
        BY DEF TypeOK
      <3>4. CASE job[w].zone = x
        BY <3>1, <3>2, <3>4 DEF WillBeRead
      <3>5. CASE job[w].zone # x
        BY <1>1, <1>3, <3>2, <3>3, <3>5 DEF WillBeRead
      <3> QED
        BY <3>4, <3>5
    <2>3. Announced(z, t) => Announced(z, t)'
      BY <1>0, <2>2
    <2>4. CASE job[w].zone = z
      <3>1. job[w].name \in TaskNames /\ queue'[job[w].name][z] > 0
        BY <1>2, <1>4, <2>4 DEF TaskError, TypeOK, Job
      <3> QED
        BY <3>1 DEF Covered, Announced, WillBeRead
    <2>5. CASE job[w].zone # z
      BY <1>1, <2>1, <2>3, <2>5 DEF Covered
    <2> QED
      BY <2>4, <2>5
  <1>5. ASSUME WorkerCrash(w) PROVE Covered(z, t)'
    <2>1. /\ z \notin raced /\ UNCHANGED queue
          /\ job[w].pc = "publish" \/ job[w].zone # z
      BY <1>5 DEF WorkerCrash
    <2>2. Covered(z, t)
      BY <1>2, <2>1 DEF StaleOnlyIfRaced
    <2>3. ASSUME NEW y \in Zones, NEW u, WillBeRead(y, u),
                 ~(job[w].pc = "read" /\ job[w].zone = y /\ job[w].next <= u)
          PROVE  WillBeRead(y, u)'
      BY <1>1, <1>3, <2>1, <2>3 DEF WillBeRead
    <2>4. WillBeRead(z, t) => WillBeRead(z, t)'
      BY <1>2, <2>1, <2>3
    <2>5. ASSUME NEW f \in Zones, z \in covers[f], WillBeRead(f, Addresses)
          PROVE  WillBeRead(f, Addresses)'
      <3>1. ~(job[w].pc = "read" /\ job[w].zone = f /\ job[w].next <= Addresses)
        BY <1>5, <2>5 DEF WorkerCrash
      <3> QED
        BY <2>3, <2>5, <3>1
    <2>6. Announced(z, t) => Announced(z, t)'
      BY <1>1, <1>2, <2>4, <2>5, AnnouncedCarries
    <2> QED
      BY <1>1, <2>1, <2>2, <2>6 DEF Covered
  <1> QED
    BY <1>4, <1>5

LEMMA NextStale ==
    TypeOK /\ NothingUncommitted /\ StaleOnlyIfRaced /\ [Next]_vars => StaleOnlyIfRaced'
  <1> SUFFICES ASSUME TypeOK, NothingUncommitted, StaleOnlyIfRaced, [Next]_vars
               PROVE  StaleOnlyIfRaced'
    OBVIOUS
  <1>1. ASSUME UNCHANGED <<row, db, covers, todo, queue, job, file, raced>>
        PROVE  StaleOnlyIfRaced'
    BY <1>1 DEF StaleOnlyIfRaced, Covered, Announced, WillBeRead, WillEnqueue
  <1>2. ASSUME \/ \E z \in Zones : callback_reload(z)
               \/ SidecarCrash
               \/ SidecarStart
               \/ \E S \in SUBSET Zones : CatalogReload(S)
               \/ UNCHANGED vars
        PROVE  UNCHANGED <<row, db, covers, todo, queue, job, file, raced>>
    BY <1>2 DEF callback_reload, SidecarCrash, SidecarStart, CatalogReload,
          vars, dbVars, historyVars
  <1> QED
    BY <1>1, <1>2, RequestStale, RequestStepStale, AbortStale, TaskStepStale,
       TaskFaultStale DEF Next, RequestSteps, IntegrityError, RequestDies

\* For every number of requests, workers, tables and faults: a zone file that
\* nobody is going to refresh equals the committed tables, unless the zone lost
\* one of the races the history variable names.
THEOREM StaleFilesWereRaced == Spec => []StaleOnlyIfRaced
  BY InitStale, NextStale, TypeCorrect, OnlyCommittedPublished, PTL DEF Spec

------------------------------------------------------------------------------
(* Knot does not stay behind the file.                                       *)

\* Knot only knows zones that have been created, so a new zone is not a member.
MembersCreated == \A z \in member : Created(z)

LEMMA InitMembers == Init => MembersCreated
  <1> SUFFICES ASSUME Init, NEW z \in member PROVE Created(z)
    BY DEF MembersCreated
  <1>1. 1 \in Tables
    BY TablesAssumption DEF Tables
  <1>2. z \in Zones /\ db[z] = First
    BY DEF Init
  <1>3. db[z][1] > 0
    BY <1>1, <1>2 DEF First
  <1> QED
    BY <1>1, <1>3 DEF Created

LEMMA NextMembers == TypeOK /\ MembersCreated /\ [Next]_vars => MembersCreated'
  <1> SUFFICES ASSUME TypeOK, MembersCreated, [Next]_vars
               PROVE  MembersCreated'
    OBVIOUS
  <1>0. \A z \in Zones, t \in Tables : db[z][t] \in Nat
    BY DEF TypeOK, Content
  \* Versions grow, so a zone stays created.
  <1>1. ASSUME UNCHANGED member,
               \A z \in Zones, t \in Tables : db'[z][t] \in Nat /\ db'[z][t] >= db[z][t]
        PROVE  MembersCreated'
    <2> SUFFICES ASSUME NEW z \in member PROVE Created(z)'
      BY <1>1 DEF MembersCreated
    <2>1. z \in Zones
      BY DEF TypeOK
    <2>2. PICK t \in Tables : db[z][t] > 0
      BY DEF MembersCreated, Created
    <2>3. db'[z][t] > 0
      BY <1>0, <1>1, <2>1, <2>2
    <2> QED
      BY <2>3 DEF Created
  <1>2. ASSUME NEW h \in Handlers, Request(h) PROVE MembersCreated'
    <2>1. PICK z \in Zones, p \in Seq(Step) : OnZone(h, z, p) \/ NewZone(h, z, p)
      BY <1>2, RequestShape
    <2>2. UNCHANGED member
      BY <2>1 DEF OnZone, NewZone, Begin, knotVars
    <2>3. \A y \in Zones, t \in Tables : db'[y][t] \in Nat /\ db'[y][t] >= db[y][t]
      <3>1. CASE OnZone(h, z, p)
        BY <1>0, <3>1 DEF OnZone, dbVars
      <3>2. CASE NewZone(h, z, p)
        <4>1. \A t \in Tables : db[z][t] = 0
          BY <1>0, <3>2 DEF NewZone, Created
        <4> QED
          BY <1>0, <3>2, <4>1 DEF NewZone, TypeOK
      <3> QED
        BY <2>1, <3>1, <3>2
    <2> QED
      BY <1>1, <2>2, <2>3
  <1>3. ASSUME NEW h \in Handlers, RequestStep(h) PROVE MembersCreated'
    <2> DEFINE s == Head(todo[h])
    <2>0. s \in Step
      BY <1>3, HeadTailProperties DEF RequestStep, TypeOK
    <2>1. s.zone \in Zones
      BY <2>0 DEF Step
    <2>2. UNCHANGED member
      BY <1>3 DEF RequestStep, knotVars
    <2> HIDE DEF s
    <2>3. CASE CommitStep(s) \/ DeleteZoneStep(s)
      <3>1. /\ db' \in [Zones -> Content]
            /\ \A y \in Zones, t \in Tables : db'[y][t] >= db[y][t]
        BY <2>1, <2>3, CommitOrDelete, CommitTablesType
      <3> QED
        BY <1>1, <2>2, <3>1 DEF Content
    <2>4. CASE UNCHANGED db
      BY <1>0, <1>1, <2>2, <2>4
    <2> QED
      BY <1>3, <2>3, <2>4 DEF RequestStep, DelayStep, SaveZoneStep, s, dbVars
  <1>4. ASSUME NEW S \in SUBSET Zones, CatalogReload(S) PROVE MembersCreated'
    BY <1>4 DEF CatalogReload, MembersCreated, Created, dbVars
  <1>5. ASSUME UNCHANGED <<db, member>> PROVE MembersCreated'
    BY <1>5 DEF MembersCreated, Created
  <1>6. ASSUME NEW h \in Handlers, Abort(h) PROVE UNCHANGED <<db, member>>
    BY <1>6 DEF Abort, dbVars, knotVars
  <1>7. ASSUME NEW w \in Workers, TaskStep(w) \/ TaskError(w) \/ WorkerCrash(w)
        PROVE  UNCHANGED <<db, member>>
    BY <1>7 DEF TaskStep, StartTask, generate_fzone, write_zone_file,
          send_reload_message, delay_catalog, TaskError, WorkerCrash, dbVars, knotVars
  <1>8. ASSUME \/ \E z \in Zones : callback_reload(z)
               \/ SidecarCrash \/ SidecarStart \/ UNCHANGED vars
        PROVE  UNCHANGED <<db, member>>
    BY <1>8 DEF callback_reload, SidecarCrash, SidecarStart, dbVars, vars
  <1> QED
    BY <1>2, <1>3, <1>4, <1>5, <1>6, <1>7, <1>8
       DEF Next, RequestSteps, IntegrityError, RequestDies

\* The part of ServedTracksFile about one zone.
Tracked(z) == z \in missed \/ served[z] = file[z] \/ ReloadPending(z)

\* A request or a step of one leaves Knot, the file and the workers alone; it
\* only brings rows of zones Knot does not know, or that enter missed.
LEMMA RequestTracked ==
    ASSUME TypeOK, MembersCreated, ServedTracksFile, NEW h \in Handlers,
           Request(h) \/ RequestStep(h) \/ Abort(h)
    PROVE  ServedTracksFile'
  <1>1. UNCHANGED <<job, file, reloads, member, served>>
    <2>1. CASE Request(h)
      <3>1. PICK z \in Zones, p \in Seq(Step) : OnZone(h, z, p) \/ NewZone(h, z, p)
        BY <2>1, RequestShape
      <3> QED
        BY <3>1 DEF OnZone, NewZone, Begin, knotVars
    <2> QED
      BY <2>1 DEF RequestStep, Abort, knotVars
  <1>2. ASSUME NEW z \in row' \cap member
        PROVE  z \in row \/ z \in missed'
    <2>1. CASE Request(h)
      <3>1. PICK y \in Zones, p \in Seq(Step) : OnZone(h, y, p) \/ NewZone(h, y, p)
        BY <2>1, RequestShape
      <3> QED
        BY <1>2, <3>1 DEF OnZone, NewZone, MembersCreated, dbVars
    <2>2. CASE RequestStep(h)
      BY <1>2, <2>2 DEF RequestStep, DelayStep, CommitStep, SaveZoneStep,
            DeleteZoneStep, dbVars
    <2>3. CASE Abort(h)
      BY <1>2, <2>3 DEF Abort, dbVars
    <2> QED
      BY <2>1, <2>2, <2>3
  <1>3. missed \subseteq missed'
    <2>1. CASE Request(h)
      <3>1. PICK z \in Zones, p \in Seq(Step) : OnZone(h, z, p) \/ NewZone(h, z, p)
        BY <2>1, RequestShape
      <3> QED
        BY <3>1 DEF OnZone, NewZone, Begin, historyVars
    <2> QED
      BY <2>1 DEF RequestStep, DelayStep, CommitStep, SaveZoneStep, DeleteZoneStep, Abort
  <1>4. \A z \in Zones : queue["update_fzone"][z] > 0 => queue'["update_fzone"][z] > 0
    <2>0. \A n \in TaskNames, z \in Zones : queue[n][z] \in Nat
      BY DEF TypeOK
    <2>1. CASE Request(h)
      <3>1. PICK z \in Zones, p \in Seq(Step) : OnZone(h, z, p) \/ NewZone(h, z, p)
        BY <2>1, RequestShape
      <3> QED
        BY <3>1 DEF OnZone, NewZone, Begin
    <2>2. CASE RequestStep(h)
      <3> DEFINE s == Head(todo[h])
      <3>1. s \in Step
        BY <2>2, HeadTailProperties DEF RequestStep, TypeOK
      <3>2. \/ UNCHANGED queue
            \/ s.name \in TaskNames /\ queue' = [queue EXCEPT ![s.name][s.zone] = @ + 1]
        BY <2>2 DEF RequestStep, DelayStep, CommitStep, SaveZoneStep, DeleteZoneStep
      <3>3. s.zone \in Zones /\ "update_fzone" \in TaskNames
        BY <3>1 DEF Step, TaskNames
      <3> HIDE DEF s
      <3>4. CASE UNCHANGED queue
        BY <3>4
      <3>5. CASE s.name \in TaskNames /\ queue' = [queue EXCEPT ![s.name][s.zone] = @ + 1]
        <4> SUFFICES ASSUME NEW z \in Zones, queue["update_fzone"][z] > 0
                     PROVE  queue'["update_fzone"][z] > 0
          OBVIOUS
        <4>1. queue'["update_fzone"][z] \in {queue["update_fzone"][z],
                                             queue["update_fzone"][z] + 1}
          BY <3>3, <3>5 DEF TypeOK
        <4> QED
          BY <2>0, <3>3, <4>1
      <3> QED
        BY <3>2, <3>4, <3>5
    <2>3. CASE Abort(h)
      BY <2>3 DEF Abort
    <2> QED
      BY <2>1, <2>2, <2>3
  <1>5. ASSUME NEW z \in row \cap member PROVE Tracked(z)'
    <2>1. Tracked(z) /\ z \in Zones
      BY <1>5 DEF ServedTracksFile, Tracked, TypeOK
    <2> QED
      BY <1>1, <1>3, <1>4, <2>1 DEF Tracked, ReloadPending
  <1> QED
    BY <1>1, <1>2, <1>5 DEF ServedTracksFile, Tracked

\* Steps of a worker hand the reload on from queue to job to the sidecar's queue.
LEMMA TaskTracked ==
    ASSUME TypeOK, ServedTracksFile, NEW w \in Workers,
           TaskStep(w) \/ TaskError(w) \/ WorkerCrash(w)
    PROVE  ServedTracksFile'
  <1>0. /\ \A n \in TaskNames, z \in Zones : queue[n][z] \in Nat
        /\ \A z \in Zones : reloads[z] \in Nat
        /\ \A v \in Workers : job[v].zone \in Zones /\ job[v].name \in TaskNames
        /\ "update_fzone" \in TaskNames
    BY DEF TypeOK, Job, TaskNames
  <1>1. UNCHANGED <<row, member, served>>
    BY DEF TaskStep, StartTask, generate_fzone, write_zone_file,
          send_reload_message, delay_catalog, TaskError, WorkerCrash, dbVars, knotVars
  <1> SUFFICES ASSUME NEW z \in row \cap member PROVE Tracked(z)'
    BY <1>1 DEF ServedTracksFile, Tracked
  <1>2. Tracked(z) /\ z \in Zones
    BY DEF ServedTracksFile, Tracked, TypeOK
  <1>3. \A v \in Workers \ {w} : job'[v] = job[v]
    BY DEF TaskStep, StartTask, generate_fzone, write_zone_file, Finish,
          send_reload_message, delay_catalog, TaskError, WorkerCrash, TypeOK
  <1>4. ASSUME NEW n \in TaskNames, NEW y \in Zones, StartTask(w, n, y)
        PROVE  Tracked(z)'
    <2>1. /\ UNCHANGED <<file, reloads, missed>>
          /\ job[w].pc = "idle"
          /\ queue' = [queue EXCEPT ![n][y] = @ - 1]
      BY <1>4 DEF StartTask, knotVars, historyVars
    <2>2. CASE n = "update_fzone" /\ y = z
      <3>1. job'[w].pc = "read" /\ job'[w].name = n /\ job'[w].zone = y
        BY <1>4, <2>2 DEF StartTask, TypeOK
      <3> QED
        BY <2>2, <3>1 DEF Tracked, ReloadPending
    <2>3. CASE ~(n = "update_fzone" /\ y = z)
      <3>1. queue'["update_fzone"][z] = queue["update_fzone"][z]
        BY <1>0, <1>2, <2>1, <2>3 DEF TypeOK
      <3> QED
        BY <1>1, <1>2, <1>3, <2>1, <3>1 DEF Tracked, ReloadPending
    <2> QED
      BY <2>2, <2>3
  <1>5. ASSUME generate_fzone(w) PROVE Tracked(z)'
    <2>1. /\ UNCHANGED <<file, reloads, missed>>
          /\ job[w].pc = "read"
          /\ job'[w].pc # "idle" /\ job'[w].name = job[w].name /\ job'[w].zone = job[w].zone
      BY <1>5 DEF generate_fzone, knotVars, historyVars, TypeOK
    <2>2. queue'["update_fzone"][z] \in {queue["update_fzone"][z], queue["update_fzone"][z] + 1}
      BY <1>0, <1>2, <1>5 DEF generate_fzone, DelayReverse
    <2>3. queue["update_fzone"][z] > 0 => queue'["update_fzone"][z] > 0
      BY <1>0, <1>2, <2>2
    <2> QED
      BY <1>1, <1>2, <1>3, <2>1, <2>3 DEF Tracked, ReloadPending
  <1>6. ASSUME write_zone_file(w) PROVE Tracked(z)'
    <2>1. /\ UNCHANGED <<queue, reloads>>
          /\ file' = [file EXCEPT ![job[w].zone] = job[w].snap]
          /\ missed \subseteq missed'
          /\ job[w].name = "add_fzone" /\ job[w].zone = z => z \in missed'
          /\ job'[w].pc = "publish" /\ job'[w].name = job[w].name /\ job'[w].zone = job[w].zone
      BY <1>6 DEF write_zone_file, knotVars, TypeOK, Job
    <2>2. CASE job[w].zone = z
      BY <1>0, <2>1, <2>2 DEF Tracked, ReloadPending, TaskNames
    <2>3. CASE job[w].zone # z
      <3>1. file'[z] = file[z]
        BY <1>0, <1>2, <2>1, <2>3 DEF TypeOK
      <3> QED
        BY <1>1, <1>2, <1>3, <2>1, <2>3, <3>1 DEF Tracked, ReloadPending
    <2> QED
      BY <2>2, <2>3
  \* The end of a task whose reload is in the queues or in missed by then.
  <1>7. ASSUME UNCHANGED file, missed \subseteq missed',
               reloads[z] > 0 => reloads'[z] > 0,
               queue["update_fzone"][z] > 0 => queue'["update_fzone"][z] > 0,
               job[w].name = "update_fzone" /\ job[w].zone = z =>
                  z \in missed' \/ reloads'[z] > 0 \/ queue'["update_fzone"][z] > 0
        PROVE  Tracked(z)'
    BY <1>1, <1>2, <1>3, <1>7 DEF Tracked, ReloadPending
  <1>8. ASSUME send_reload_message(w) PROVE Tracked(z)'
    <2>1. UNCHANGED <<file, queue>> /\ missed \subseteq missed'
      BY <1>8 DEF send_reload_message
    <2>2. CASE reloads' = [reloads EXCEPT ![job[w].zone] = @ + 1]
      <3>1. reloads[z] > 0 \/ job[w].zone = z => reloads'[z] > 0
        BY <1>0, <1>2, <2>2 DEF TypeOK
      <3> QED
        BY <1>7, <2>1, <3>1
    <2>3. CASE missed' = missed \cup {job[w].zone} /\ UNCHANGED reloads
      BY <1>7, <2>1, <2>3
    <2> QED
      BY <1>8, <2>2, <2>3 DEF send_reload_message
  <1>9. ASSUME delay_catalog(w) PROVE Tracked(z)'
    <2>1. /\ UNCHANGED <<file, queue, reloads, missed>>
          /\ job[w].name # "update_fzone"
      BY <1>9 DEF delay_catalog, knotVars, historyVars
    <2> QED
      BY <1>7, <2>1
  <1>10. ASSUME TaskError(w) PROVE Tracked(z)'
    <2>1. /\ UNCHANGED <<file, reloads, missed>>
          /\ queue' = [queue EXCEPT ![job[w].name][job[w].zone] = @ + 1]
      BY <1>10 DEF TaskError, knotVars, historyVars
    <2>2. /\ queue["update_fzone"][z] > 0 => queue'["update_fzone"][z] > 0
          /\ job[w].name = "update_fzone" /\ job[w].zone = z => queue'["update_fzone"][z] > 0
      BY <1>0, <1>2, <2>1 DEF TypeOK
    <2> QED
      BY <1>7, <2>1, <2>2
  <1>11. ASSUME WorkerCrash(w) PROVE Tracked(z)'
    <2>1. /\ UNCHANGED <<file, queue, reloads>>
          /\ missed \subseteq missed'
          /\ job[w].name = "update_fzone" => job[w].zone \in missed'
      BY <1>11 DEF WorkerCrash, knotVars
    <2> QED
      BY <1>7, <2>1
  <1> QED
    BY <1>4, <1>5, <1>6, <1>8, <1>9, <1>10, <1>11 DEF TaskStep

LEMMA NextTracked ==
    TypeOK /\ MembersCreated /\ ServedTracksFile /\ [Next]_vars => ServedTracksFile'
  <1> SUFFICES ASSUME TypeOK, MembersCreated, ServedTracksFile, [Next]_vars
               PROVE  ServedTracksFile'
    OBVIOUS
  <1>1. ASSUME NEW z \in Zones, callback_reload(z) PROVE ServedTracksFile'
    <2>1. /\ UNCHANGED <<row, member, queue, job, file>>
          /\ reloads' = [reloads EXCEPT ![z] = @ - 1]
      BY <1>1 DEF callback_reload, dbVars
    <2> SUFFICES ASSUME NEW y \in row \cap member PROVE Tracked(y)'
      BY <2>1 DEF ServedTracksFile, Tracked
    <2>2. Tracked(y) /\ y \in Zones
      BY DEF ServedTracksFile, Tracked, TypeOK
    <2>3. CASE y = z
      <3>1. served'[y] = file[y]
        BY <1>1, <2>2, <2>3 DEF callback_reload, TypeOK
      <3> QED
        BY <2>1, <3>1 DEF Tracked
    <2>4. CASE y # z
      <3>1. reloads'[y] = reloads[y] /\ served'[y] = served[y]
            /\ (y \in missed => y \in missed')
        BY <1>1, <2>1, <2>2, <2>4 DEF callback_reload, TypeOK
      <3> QED
        BY <2>1, <2>2, <3>1 DEF Tracked, ReloadPending
    <2> QED
      BY <2>3, <2>4
  <1>2. ASSUME SidecarCrash PROVE ServedTracksFile'
    <2>1. /\ UNCHANGED <<row, member, queue, job, file, served>>
          /\ missed' = missed \cup {z \in Zones : reloads[z] > 0}
      BY <1>2 DEF SidecarCrash, dbVars
    <2> QED
      BY <2>1 DEF ServedTracksFile, ReloadPending, TypeOK
  <1>3. ASSUME SidecarStart \/ UNCHANGED vars PROVE ServedTracksFile'
    <2>1. UNCHANGED <<row, member, queue, job, file, served, reloads, missed>>
      BY <1>3 DEF SidecarStart, vars, dbVars, historyVars
    <2> QED
      BY <2>1 DEF ServedTracksFile, ReloadPending
  <1>4. ASSUME NEW S \in SUBSET Zones, CatalogReload(S) PROVE ServedTracksFile'
    <2>1. /\ UNCHANGED <<row, queue, job, file, reloads>>
          /\ member' = S
          /\ missed' = missed \cap member \cap S
          /\ \A z \in S : served'[z] = IF z \in member THEN served[z] ELSE file[z]
      BY <1>4 DEF CatalogReload, dbVars
    <2> QED
      BY <2>1 DEF ServedTracksFile, ReloadPending
  <1> QED
    BY <1>1, <1>2, <1>3, <1>4, RequestTracked, TaskTracked
       DEF Next, RequestSteps, IntegrityError, RequestDies

\* For every number of requests, workers and faults: Knot serves the file of a
\* member or a reload of it is coming, unless the reload was lost in one of the
\* ways the history variable names.
THEOREM KnotTracksFiles == Spec => []ServedTracksFile
  <1>1. Init => ServedTracksFile
    BY DEF Init, ServedTracksFile
  <1> QED
    BY <1>1, InitMembers, NextMembers, NextTracked, TypeCorrect, PTL DEF Spec

------------------------------------------------------------------------------
(* The pipeline implements Publication.                                      *)

LEMMA InitAbstract == Init => Abstract!Init
  <1> SUFFICES ASSUME Init PROVE Abstract!Init
    OBVIOUS
  <1>1. First \in Content /\ Empty \in Content
    BY DEF First, Empty, Content
  <1>2. db \in [Zones -> [Tables -> Nat]]
    BY <1>1 DEF Init, Content
  <1> QED
    BY <1>2 DEF Init, Abstract!Init

\* Each step is an Edit, a Publish or a Load, or leaves db, file and served alone.
LEMMA NextAbstract ==
    TypeOK /\ NothingUncommitted /\ [Next]_vars => [Abstract!Next]_(Abstract!vars)
  <1> SUFFICES ASSUME TypeOK, NothingUncommitted, [Next]_vars
               PROVE  Abstract!Next \/ UNCHANGED <<db, file, served>>
    BY DEF Abstract!vars
  <1>0. /\ \A z \in Zones, t \in Tables : db[z][t] \in Nat
        /\ \A w \in Workers : job[w].zone \in Zones
        /\ \A w \in Workers, t \in Tables : job[w].snap[t] \in Nat
    BY DEF TypeOK, Content, Job
  <1>1. ASSUME db' \in [Zones -> Content],
               \A z \in Zones, t \in Tables : db'[z][t] >= db[z][t],
               UNCHANGED <<file, served>>
        PROVE  Abstract!Next
    BY <1>1 DEF Abstract!Next, Abstract!Edit
  <1>2. ASSUME NEW h \in Handlers, Request(h)
        PROVE  Abstract!Next \/ UNCHANGED <<db, file, served>>
    <2>1. PICK z \in Zones, p \in Seq(Step) : OnZone(h, z, p) \/ NewZone(h, z, p)
      BY <1>2, RequestShape
    <2>2. UNCHANGED <<file, served>>
      BY <2>1 DEF OnZone, NewZone, Begin, knotVars
    <2>3. CASE OnZone(h, z, p)
      BY <2>2, <2>3 DEF OnZone, dbVars
    <2>4. CASE NewZone(h, z, p)
      <3>1. db' \in [Zones -> Content]
        BY <2>4 DEF NewZone, TypeOK, Content
      <3>2. \A y \in Zones, t \in Tables : db'[y][t] >= db[y][t]
        BY <1>0, <2>4 DEF NewZone, Created, TypeOK
      <3> QED
        BY <1>1, <2>2, <3>1, <3>2
    <2> QED
      BY <2>1, <2>3, <2>4
  <1>3. ASSUME NEW h \in Handlers, RequestStep(h)
        PROVE  Abstract!Next \/ UNCHANGED <<db, file, served>>
    <2> DEFINE s == Head(todo[h])
    <2>1. s \in Step
      BY <1>3, HeadTailProperties DEF RequestStep, TypeOK
    <2>2. s.zone \in Zones
      BY <2>1 DEF Step
    <2>3. UNCHANGED <<file, served>>
      BY <1>3 DEF RequestStep, knotVars
    <2> HIDE DEF s
    <2>4. CASE CommitStep(s) \/ DeleteZoneStep(s)
      <3>1. /\ db' \in [Zones -> Content]
            /\ \A y \in Zones, t \in Tables : db'[y][t] >= db[y][t]
        BY <2>2, <2>4, CommitOrDelete, CommitTablesType
      <3> QED
        BY <1>1, <2>3, <3>1
    <2> QED
      BY <1>3, <2>3, <2>4 DEF RequestStep, DelayStep, SaveZoneStep, s, dbVars
  <1>4. ASSUME NEW w \in Workers, write_zone_file(w)
        PROVE  Abstract!Next
    <2> DEFINE z == job[w].zone
    <2>1. /\ UNCHANGED <<db, served>>
          /\ file' = [file EXCEPT ![z] = job[w].snap]
      BY <1>4 DEF write_zone_file, dbVars, knotVars
    <2>2. \A t \in Tables : job[w].snap[t] \in 0 .. db[z][t]
      BY <1>0 DEF NothingUncommitted
    <2>3. Abstract!Publish(z)
      BY <1>0, <2>1, <2>2 DEF Abstract!Publish, TypeOK
    <2> QED
      BY <1>0, <2>3 DEF Abstract!Next
  <1>5. ASSUME UNCHANGED <<db, file>>,
               served' = [z \in Zones |-> served'[z]],
               \A z \in Zones : \/ served'[z] = served[z]
                                 \/ served'[z] = file[z]
                                 \/ served'[z] = Empty
        PROVE  Abstract!Next
    BY <1>5 DEF Abstract!Next, Abstract!Load, Abstract!Nothing, Empty
  <1>6. ASSUME NEW z \in Zones, callback_reload(z) PROVE Abstract!Next
    <2>1. /\ UNCHANGED <<db, file>>
          /\ served' = [y \in Zones |-> served'[y]]
          /\ \A y \in Zones : served'[y] = served[y] \/ served'[y] = file[y]
      BY <1>6 DEF callback_reload, dbVars, TypeOK
    <2> QED
      BY <1>5, <2>1
  <1>7. ASSUME NEW S \in SUBSET Zones, CatalogReload(S) PROVE Abstract!Next
    <2>1. /\ UNCHANGED <<db, file>>
          /\ served' = [y \in Zones |-> served'[y]]
          /\ \A y \in Zones : \/ served'[y] = served[y]
                              \/ served'[y] = file[y]
                              \/ served'[y] = Empty
      BY <1>7 DEF CatalogReload, dbVars
    <2> QED
      BY <1>5, <2>1
  <1>8. ASSUME NEW h \in Handlers, Abort(h) PROVE UNCHANGED <<db, file, served>>
    BY <1>8 DEF Abort, dbVars, knotVars
  <1>9. ASSUME NEW w \in Workers,
               \/ \E n \in TaskNames, z \in Zones : StartTask(w, n, z)
               \/ generate_fzone(w)
               \/ send_reload_message(w)
               \/ delay_catalog(w)
               \/ TaskError(w)
               \/ WorkerCrash(w)
        PROVE  UNCHANGED <<db, file, served>>
    BY <1>9 DEF StartTask, generate_fzone, send_reload_message, delay_catalog,
          TaskError, WorkerCrash, dbVars, knotVars
  <1>10. ASSUME SidecarCrash \/ SidecarStart \/ UNCHANGED vars
         PROVE  UNCHANGED <<db, file, served>>
    BY <1>10 DEF SidecarCrash, SidecarStart, dbVars, vars
  <1> QED
    BY <1>2, <1>3, <1>4, <1>6, <1>7, <1>8, <1>9, <1>10
       DEF Next, RequestSteps, IntegrityError, RequestDies, TaskStep

\* The pipeline of requests, broker, workers, bucket, sidecar and Knot implements
\* Publication: files are made of committed tables and Knot serves whole files.
THEOREM PublicationImplemented == Spec => ImplementsPublication
  <1>1. Spec => []TypeOK /\ []NothingUncommitted
    BY TypeCorrect, OnlyCommittedPublished, PTL
  <1> QED
    BY <1>1, InitAbstract, NextAbstract, PTL
       DEF Spec, ImplementsPublication, Abstract!Spec
============================================================================
