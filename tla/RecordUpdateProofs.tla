-------------------------- MODULE RecordUpdateProofs --------------------------
(* Proofs about the writers of records (RecordUpdate), for every number of   *)
(* names, threads, views and messages.                                       *)
EXTENDS RecordUpdate, TLAPS

------------------------------------------------------------------------------
(* Types.                                                                    *)

\* Rows with unique ids among those handed out.
RowsOK(S, last) ==
    /\ S \subseteq Row
    /\ \A r \in S : r.id <= last /\ \A s \in S : r.id = s.id => r = s

Busy == {"check", "count", "fetch", "save", "delete"}

\* A thread that handles an RR has one, and adds only RRs of class IN.
RrGoing ==
    \A u \in Updaters :
        /\ upd[u].i >= 1
        /\ upd[u].pc \in Busy => upd[u].i <= Len(upd[u].msg.ups)
        /\ upd[u].pc \in {"check", "save"} => rrOf(u).class = "IN"

\* Nobody holds a record with an id that was not handed out.
IdsKnown ==
    /\ \A u \in Updaters : \A r \in upd[u].found : r.id <= lastId
    /\ \A w \in Writers : form[w].row.id <= lastId

TypeInv == TypeOK /\ RrGoing /\ IdsKnown

\* The same by variable, for the proofs that a step preserves it.
ThreadsOK ==
    /\ upd \in [Updaters -> Upd] /\ RrGoing
    /\ \A u \in Updaters : \A r \in upd[u].found : r.id <= lastId
FormsOK ==
    form \in [Writers -> Form] /\ \A w \in Writers : form[w].row.id <= lastId
HistoryOK ==
    /\ clean \in [Actors -> BOOLEAN] /\ quiet \in [Updaters -> BOOLEAN]
    /\ bypassed \subseteq Names
CountersOK == messages \in Nat /\ changes \in Nat

LEMMA TypeParts ==
    ASSUME TypeInv
    PROVE  /\ RowsOK(rows, lastId) /\ lastId \in Nat
           /\ ThreadsOK /\ FormsOK /\ HistoryOK /\ CountersOK
  BY DEF TypeInv, TypeOK, IdsKnown, RowsOK, ThreadsOK, FormsOK, HistoryOK, CountersOK

LEMMA TypePartsNext ==
    ASSUME RowsOK(rows', lastId'), lastId' \in Nat,
           ThreadsOK', FormsOK', HistoryOK', CountersOK'
    PROVE  TypeInv'
  BY DEF TypeInv, TypeOK, IdsKnown, RowsOK, ThreadsOK, FormsOK, HistoryOK, CountersOK

LEMMA RestingType ==
    /\ Resting \in Upd /\ Resting.pc = "idle" /\ Resting.i = 1 /\ Resting.found = {}
  BY MessagesAssumption DEF Resting, AnyMessage, Upd, UpdPCs

LEMMA NoFormType == NoForm \in Form /\ NoForm.pc = "idle" /\ NoForm.row.id = 0
  BY ActorsAssumption DEF NoForm, Form, Row, Names, Types, UpdateTypes

LEMMA ContentsType == \A S \in SUBSET Row : Contents(S) \in SUBSET Entry
  BY DEF Contents, Content, Row, Entry

\* The RR a thread is handling.
LEMMA RrType ==
    ASSUME TypeInv, NEW u \in Updaters,
           upd[u].i <= Len(upd[u].msg.ups)
    PROVE  /\ rrOf(u) \in Rr
           /\ rrOf(u).class = "IN" => rrOf(u).type \in UpdateTypes
           /\ rrOf(u).class = "IN" => rrOf(u).type \in Types
           /\ rrOf(u).name \in Names /\ rrOf(u).data \in Data
  <1>1. upd[u].msg \in Message /\ upd[u].i \in Nat /\ upd[u].i >= 1
    BY DEF TypeInv, TypeOK, RrGoing, Upd
  <1>2. /\ upd[u].msg.ups \in Seq(Rr)
        /\ \A i \in 1 .. Len(upd[u].msg.ups) : WellFormed(upd[u].msg.ups[i])
    BY <1>1 DEF Message
  <1>3. upd[u].i \in 1 .. Len(upd[u].msg.ups)
    BY <1>1, <1>2
  <1>4. rrOf(u) \in Rr /\ WellFormed(rrOf(u))
    BY <1>2, <1>3 DEF rrOf
  <1> QED
    BY <1>4 DEF Rr, WellFormed, Types

LEMMA NewRowType ==
    ASSUME TypeInv, NEW e, e.name \in Names, e.type \in Types, e.data \in Data
    PROVE  NewRow(e) \in Row /\ NewRow(e).id = lastId + 1
  BY DEF TypeInv, TypeOK, NewRow, Row

LEMMA SavedRows ==
    ASSUME TypeInv, NEW r \in Row, r.id <= lastId
    PROVE  RowsOK(Saved(r), lastId)
  BY DEF TypeInv, TypeOK, RowsOK, Saved

LEMMA FewerRows ==
    ASSUME TypeInv, NEW S \in SUBSET rows
    PROVE  RowsOK(S, lastId)
  BY DEF TypeInv, TypeOK, RowsOK

LEMMA MoreRows ==
    ASSUME TypeInv, NEW S \in SUBSET rows, NEW r \in Row, r.id = lastId + 1
    PROVE  RowsOK(S \cup {r}, lastId + 1)
  <1>1. \A s \in S : s \in Row /\ s.id \in Nat /\ s.id <= lastId /\ s.id # r.id
    BY DEF TypeInv, TypeOK, Row
  <1>2. \A s, t \in S : s.id = t.id => s = t
    BY DEF TypeInv, TypeOK
  <1>3. lastId \in Nat
    BY DEF TypeInv, TypeOK
  <1> QED
    BY <1>1, <1>2, <1>3 DEF RowsOK

\* What a write leaves of the history variables' types.
LEMMA WriteTypes ==
    ASSUME TypeInv, NEW a, NEW S, NEW excused, Write(a, S, excused)
    PROVE  /\ rows' = S
           /\ clean' \in [Actors -> BOOLEAN] /\ quiet' \in [Updaters -> BOOLEAN]
           /\ bypassed' \subseteq Names
  <1>1. \A b \in Actors : clean[b] \in BOOLEAN
    BY DEF TypeInv, TypeOK
  <1>2. \A u \in Updaters : quiet[u] \in BOOLEAN
    BY DEF TypeInv, TypeOK
  <1>3. \A b \in Actors : (clean[b] /\ (b = a \/ S = rows)) \in BOOLEAN
    BY <1>1
  <1>4. \A u \in Updaters : (quiet[u] /\ S = rows) \in BOOLEAN
    BY <1>2
  <1> QED
    BY <1>3, <1>4 DEF Write

LEMMA InitType == Init => TypeInv
  <1> SUFFICES ASSUME Init PROVE TypeInv
    OBVIOUS
  <1>1. RowsOK(rows, lastId) /\ lastId \in Nat
    BY InitialAssumption DEF Init, RowsOK
  <1>2. upd \in [Updaters -> Upd] /\ form \in [Writers -> Form]
    BY RestingType, NoFormType DEF Init
  <1>3. TypeOK
    BY <1>1, <1>2 DEF Init, TypeOK, RowsOK
  <1>4. RrGoing
    BY RestingType DEF Init, RrGoing, Busy
  <1>5. IdsKnown
    BY <1>1, RestingType, NoFormType DEF Init, IdsKnown
  <1> QED
    BY <1>3, <1>4, <1>5 DEF TypeInv

LEMMA UpdFields ==
    ASSUME NEW y \in Upd
    PROVE  /\ y.pc \in UpdPCs /\ y.msg \in Message /\ y.i \in Nat /\ y.t \in Nat
           /\ y.search \in Names \cup {""} /\ y.found \in SUBSET Row
           /\ y.base \in SUBSET Entry
           /\ y = [pc |-> y.pc, msg |-> y.msg, i |-> y.i, t |-> y.t, search |-> y.search,
                   found |-> y.found, base |-> y.base]
  BY DEF Upd

\* A step that changes what one thread is doing.
LEMMA ThreadTypes ==
    ASSUME TypeInv, NEW u \in Updaters, NEW x \in Upd,
           upd' = [upd EXCEPT ![u] = x],
           x.i >= 1,
           x.pc \in Busy => x.i <= Len(x.msg.ups),
           x.pc \in {"check", "save"} => x.msg.ups[x.i].class = "IN",
           \A r \in x.found : r.id <= lastId,
           lastId' \in Nat, lastId <= lastId'
    PROVE  ThreadsOK'
  <1>1. upd \in [Updaters -> Upd] /\ lastId \in Nat
    BY DEF TypeInv, TypeOK
  <1>2. upd'[u] = x /\ \A v \in Updaters : v # u => upd'[v] = upd[v]
    BY <1>1
  <1>3. upd' \in [Updaters -> Upd]
    BY <1>1
  <1>4. RrGoing'
    BY <1>2 DEF TypeInv, RrGoing, rrOf
  <1>5. \A v \in Updaters : \A r \in upd[v].found : r \in Row /\ r.id <= lastId
    BY <1>1 DEF TypeInv, IdsKnown, Upd
  <1>6. \A r \in x.found : r \in Row
    BY DEF Upd
  <1>7. ASSUME NEW v \in Updaters, NEW r \in upd'[v].found PROVE r.id <= lastId'
    <2>1. r \in Row /\ r.id <= lastId
      BY <1>2, <1>5, <1>6
    <2>2. r.id \in Nat
      BY <2>1 DEF Row
    <2> QED
      BY <1>1, <2>1, <2>2
  <1> QED
    BY <1>3, <1>4, <1>7 DEF ThreadsOK

\* The three ways in which a thread goes on, and the two in which it ends.
LEMMA ThreadGoes ==
    ASSUME TypeInv, NEW u \in Updaters, lastId' \in Nat, lastId <= lastId',
           \/ Answer(u)
           \/ upd[u].pc \in Busy /\ NextRr(u)
           \/ upd[u].pc = "check" /\ Goto(u, "count")
    PROVE  ThreadsOK'
  <1>1. upd \in [Updaters -> Upd] /\ upd[u] \in Upd
    BY DEF TypeInv, TypeOK
  <1>2. CASE Answer(u)
    <2>1. upd' = [upd EXCEPT ![u] = Resting]
      BY <1>2 DEF Answer
    <2>2. /\ Resting.i >= 1 /\ Resting.pc \notin Busy /\ Resting.pc \notin {"check", "save"}
          /\ \A r \in Resting.found : r.id <= lastId
      BY RestingType DEF Busy
    <2>3. Resting \in Upd
      BY RestingType
    <2> QED
      BY <2>1, <2>2, <2>3, ThreadTypes
  <1>3. CASE upd[u].pc \in Busy /\ NextRr(u)
    <2> DEFINE x == [pc |-> "next", msg |-> upd[u].msg, i |-> upd[u].i + 1, t |-> 1,
                     search |-> "", found |-> {}, base |-> upd[u].base]
    <2>0. /\ upd[u].msg \in Message /\ upd[u].i \in Nat /\ upd[u].base \in SUBSET Entry
      BY <1>1, UpdFields
    <2>1. x \in Upd /\ x.i = upd[u].i + 1 /\ x.pc = "next" /\ x.found = {}
      BY <2>0 DEF Upd, UpdPCs
    <2>2. upd' = [upd EXCEPT ![u] = x]
      BY <1>1, <1>3 DEF NextRr
    <2> HIDE DEF x
    <2>3. x.i >= 1
      BY <2>0, <2>1
    <2> QED
      BY <2>1, <2>2, <2>3, ThreadTypes DEF Busy
  <1>4. CASE upd[u].pc = "check" /\ Goto(u, "count")
    <2> DEFINE x == [upd[u] EXCEPT !.pc = "count"]
    <2>1. /\ x \in Upd /\ x.i = upd[u].i /\ x.msg = upd[u].msg /\ x.pc = "count"
          /\ x.found = upd[u].found
      BY <1>1 DEF Upd, UpdPCs
    <2>2. upd' = [upd EXCEPT ![u] = x]
      BY <1>1, <1>4 DEF Goto
    <2>3. /\ x.i >= 1 /\ x.i <= Len(x.msg.ups)
          /\ \A r \in x.found : r.id <= lastId
      BY <1>4, <2>1 DEF TypeInv, RrGoing, Busy, IdsKnown
    <2> HIDE DEF x
    <2> QED
      BY <2>1, <2>2, <2>3, ThreadTypes
  <1> QED
    BY <1>2, <1>3, <1>4

\* Forms stay what they are, or one becomes another.
LEMMA FormTypes ==
    ASSUME TypeInv, lastId' \in Nat, lastId <= lastId',
           \/ UNCHANGED form
           \/ \E w \in Writers : \E f \in Form :
                 f.row.id <= lastId' /\ form' = [form EXCEPT ![w] = f]
    PROVE  FormsOK'
  <1>1. form \in [Writers -> Form] /\ lastId \in Nat
    BY DEF TypeInv, TypeOK
  <1>2. \A v \in Writers : form[v].row.id \in Nat /\ form[v].row.id <= lastId
    <2>1. \A f \in Form : f.row.id \in Nat
      BY DEF Form, Row
    <2> QED
      BY <1>1, <2>1 DEF TypeInv, IdsKnown
  <1>3. \A v \in Writers : form[v].row.id <= lastId'
    BY <1>1, <1>2
  <1>4. CASE UNCHANGED form
    BY <1>1, <1>3, <1>4 DEF FormsOK
  <1>5. ASSUME NEW w \in Writers, NEW f \in Form, f.row.id <= lastId',
               form' = [form EXCEPT ![w] = f]
        PROVE  FormsOK'
    <2>1. form'[w] = f /\ \A v \in Writers : v # w => form'[v] = form[v]
      BY <1>1, <1>5
    <2>2. form' \in [Writers -> Form]
      BY <1>1, <1>5
    <2> QED
      BY <1>3, <1>5, <2>1, <2>2 DEF FormsOK
  <1> QED
    BY <1>4, <1>5

LEMMA WriteHistory ==
    ASSUME TypeInv, NEW a, NEW S, NEW excused, Write(a, S, excused)
    PROVE  rows' = S /\ HistoryOK'
  BY WriteTypes DEF HistoryOK

\* Steps of a thread that write nothing.
LEMMA ReadingType ==
    ASSUME TypeInv, ThreadsOK', UNCHANGED <<rows, lastId, form>>, HistoryOK', CountersOK'
    PROVE  TypeInv'
  <1>1. RowsOK(rows', lastId') /\ lastId' \in Nat
    BY TypeParts
  <1>2. FormsOK'
    BY TypeParts DEF FormsOK
  <1> QED
    BY <1>1, <1>2, TypePartsNext

LEMMA NotIdle == /\ {"check", "save"} \subseteq Busy
                 /\ "idle" \notin Busy /\ "prereq" \notin Busy /\ "next" \notin Busy
  BY DEF Busy

\* A message that arrives.
LEMMA ReceiveType ==
    ASSUME TypeInv, NEW u \in Updaters, NEW m \in Messages, receive_update(u, m)
    PROVE  TypeInv'
  <1> DEFINE x == [Resting EXCEPT !.pc = "prereq", !.msg = m]
  <1>1. m \in Message
    BY MessagesAssumption
  <1>2. x \in Upd /\ x.i = 1 /\ x.pc = "prereq" /\ x.found = {}
    BY <1>1, RestingType DEF Resting, Upd, UpdPCs
  <1>3. upd' = [upd EXCEPT ![u] = x] /\ UNCHANGED <<rows, lastId, form>>
    BY DEF receive_update
  <1> HIDE DEF x
  <1>4. /\ x.i >= 1 /\ x.pc \notin Busy /\ x.pc \notin {"check", "save"}
        /\ \A r \in x.found : r.id <= lastId
    BY <1>2, NotIdle
  <1>5. lastId' \in Nat /\ lastId <= lastId'
    BY <1>3, TypeParts
  <1>6. ThreadsOK'
    BY <1>2, <1>3, <1>4, <1>5, ThreadTypes
  <1>7. CountersOK'
    BY TypeParts DEF receive_update, CountersOK
  <1>8. HistoryOK'
    BY TypeParts DEF receive_update, HistoryOK
  <1> QED
    BY <1>3, <1>6, <1>7, <1>8, ReadingType

\* Steps that only change the thread that takes them.
LEMMA ThreadOnlyType ==
    ASSUME TypeInv, ThreadsOK',
           UNCHANGED <<rows, lastId, form, messages, changes, historyVars>>
    PROVE  TypeInv'
  <1>1. CountersOK' /\ HistoryOK'
    BY TypeParts DEF CountersOK, HistoryOK, historyVars
  <1> QED
    BY <1>1, ReadingType

LEMMA PrereqType ==
    ASSUME TypeInv, NEW u \in Updaters, check_prereq(u)
    PROVE  TypeInv'
  <1>0. UNCHANGED <<rows, lastId, form, messages, changes, historyVars>>
    BY DEF check_prereq
  <1>1. upd \in [Updaters -> Upd] /\ upd[u] \in Upd /\ upd[u].pc = "prereq"
    BY TypeParts DEF ThreadsOK, check_prereq
  <1>2. lastId' \in Nat /\ lastId <= lastId'
    BY <1>0, TypeParts
  <1>3. CASE Answer(u)
    BY <1>0, <1>2, <1>3, ThreadGoes, ThreadOnlyType
  <1>4. ASSUME NEW pc \in {"prereq", "next"}, NEW i \in Nat, i >= 1,
               upd' = [upd EXCEPT ![u].pc = pc, ![u].i = i]
        PROVE  TypeInv'
    <2> DEFINE x == [upd[u] EXCEPT !.pc = pc, !.i = i]
    <2>1. x \in Upd /\ x.i = i /\ x.pc = pc /\ x.found = upd[u].found
      BY <1>1 DEF Upd, UpdPCs
    <2>2. upd' = [upd EXCEPT ![u] = x]
      BY <1>1, <1>4
    <2> HIDE DEF x
    <2>3. /\ x.i >= 1 /\ x.pc \notin Busy /\ x.pc \notin {"check", "save"}
          /\ \A r \in x.found : r.id <= lastId
      BY <1>4, <2>1, TypeParts DEF ThreadsOK, Busy
    <2>4. ThreadsOK'
      BY <1>2, <2>1, <2>2, <2>3, ThreadTypes
    <2> QED
      BY <1>0, <2>4, ThreadOnlyType
  <1>5. CASE upd' = [upd EXCEPT ![u].i = @ + 1]
    <2>1. upd' = [upd EXCEPT ![u].pc = "prereq", ![u].i = upd[u].i + 1]
      BY <1>1, <1>5 DEF Upd
    <2>2. upd[u].i \in Nat
      BY <1>1, UpdFields
    <2>3. upd[u].i + 1 \in Nat /\ upd[u].i + 1 >= 1
      BY <2>2
    <2> QED
      BY <1>4, <2>1, <2>3
  <1>6. CASE upd' = [upd EXCEPT ![u].pc = "next", ![u].i = 1]
    <2>1. 1 \in Nat /\ 1 >= 1
      OBVIOUS
    <2> QED
      BY <1>4, <1>6, <2>1
  <1> QED
    BY <1>3, <1>5, <1>6 DEF check_prereq

\* A thread that goes on with the same message and RR.
LEMMA SameRrType ==
    ASSUME TypeInv, NEW u \in Updaters, NEW x \in Upd,
           upd' = [upd EXCEPT ![u] = x],
           x.i = upd[u].i, x.msg = upd[u].msg,
           x.i <= Len(x.msg.ups),
           x.pc \in {"check", "save"} => rrOf(u).class = "IN",
           \A r \in x.found : r.id <= lastId,
           lastId' \in Nat, lastId <= lastId'
    PROVE  ThreadsOK'
  <1>1. x.i >= 1 /\ (x.pc \in {"check", "save"} => x.msg.ups[x.i].class = "IN")
    BY DEF TypeInv, RrGoing, rrOf
  <1> QED
    BY <1>1, ThreadTypes

LEMMA NextRrType ==
    ASSUME TypeInv, NEW u \in Updaters, next_rr(u)
    PROVE  TypeInv'
  <1>1. upd \in [Updaters -> Upd] /\ upd[u] \in Upd
    BY TypeParts DEF ThreadsOK
  <1>2. /\ UNCHANGED <<rows, lastId, form, messages, changes, quiet, bypassed>>
        /\ clean' = [clean EXCEPT ![u] = TRUE]
        /\ upd[u].i <= Len(upd[u].msg.ups)
    BY DEF next_rr
  <1>3. lastId' \in Nat /\ lastId <= lastId'
    BY <1>2, TypeParts
  <1>4. CountersOK' /\ HistoryOK'
    BY <1>2, TypeParts DEF CountersOK, HistoryOK
  <1>5. CASE Answer(u)
    BY <1>2, <1>3, <1>4, <1>5, ThreadGoes, ReadingType
  <1>6. CASE upd' = [upd EXCEPT ![u].pc = IF rrOf(u).class = "IN" THEN "check" ELSE "count",
                                ![u].base = Contents(rows)]
    <2>1. PICK pc \in {"check", "count"}, b \in SUBSET Entry :
             /\ upd' = [upd EXCEPT ![u].pc = pc, ![u].base = b]
             /\ pc = "check" => rrOf(u).class = "IN"
      <3>1. Contents(rows) \in SUBSET Entry
        BY ContentsType, TypeParts DEF RowsOK
      <3> QED
        BY <1>6, <3>1
    <2> DEFINE x == [upd[u] EXCEPT !.pc = pc, !.base = b]
    <2>2. /\ x \in Upd /\ x.pc = pc /\ x.msg = upd[u].msg /\ x.i = upd[u].i
          /\ x.found = upd[u].found
      BY <1>1 DEF Upd, UpdPCs
    <2>3. upd' = [upd EXCEPT ![u] = x]
      BY <1>1, <2>1
    <2> HIDE DEF x
    <2>4. \A r \in x.found : r.id <= lastId
      BY <2>2, TypeParts DEF ThreadsOK
    <2>6. ThreadsOK'
      BY <1>2, <1>3, <2>1, <2>2, <2>3, <2>4, SameRrType
    <2> QED
      BY <1>2, <1>4, <2>6, ReadingType
  <1> QED
    BY <1>5, <1>6 DEF next_rr

LEMMA SignType ==
    ASSUME TypeInv, NEW u \in Updaters, sign_resp(u) \/ update_fails(u)
    PROVE  TypeInv'
  <1>1. /\ UNCHANGED <<rows, lastId, form, messages, changes, historyVars>>
        /\ Answer(u)
    BY DEF sign_resp, update_fails
  <1>2. lastId' \in Nat /\ lastId <= lastId'
    BY <1>1, TypeParts
  <1>3. CountersOK' /\ HistoryOK'
    BY <1>1, TypeParts DEF CountersOK, HistoryOK, historyVars
  <1> QED
    BY <1>1, <1>2, <1>3, ThreadGoes, ReadingType

LEMMA TryType ==
    ASSUME TypeInv, NEW u \in Updaters, try_update(u)
    PROVE  TypeInv'
  <1>1. /\ UNCHANGED <<rows, lastId, form, messages, changes, historyVars>>
        /\ upd[u].pc = "check" /\ (NextRr(u) \/ Goto(u, "count"))
    BY DEF try_update
  <1>2. lastId' \in Nat /\ lastId <= lastId' /\ upd[u].pc \in Busy
    BY <1>1, TypeParts, NotIdle
  <1> QED
    BY <1>1, <1>2, ThreadGoes, ThreadOnlyType

\* The RR of a busy thread, and the row that adding it makes.
LEMMA BusyRr ==
    ASSUME TypeInv, NEW u \in Updaters, upd[u].pc \in Busy
    PROVE  /\ upd[u].i <= Len(upd[u].msg.ups)
           /\ rrOf(u) \in Rr /\ rrOf(u).name \in Names /\ rrOf(u).data \in Data
           /\ rrOf(u).class = "IN" => rrOf(u).type \in Types
           /\ LabelOf(rrOf(u)) \in Names \cup {""}
  <1>1. upd[u].i <= Len(upd[u].msg.ups)
    BY DEF TypeInv, RrGoing
  <1> QED
    BY <1>1, RrType DEF LabelOf

LEMMA CountType ==
    ASSUME TypeInv, NEW u \in Updaters, find_records_count(u)
    PROVE  TypeInv'
  <1>1. upd \in [Updaters -> Upd] /\ upd[u] \in Upd
    BY TypeParts DEF ThreadsOK
  <1>2. /\ UNCHANGED <<rows, lastId, form, messages, changes, historyVars>>
        /\ upd[u].pc \in Busy
    BY DEF find_records_count, Busy
  <1>3. lastId' \in Nat /\ lastId <= lastId'
    BY <1>2, TypeParts
  <1>4. PICK name \in Names \cup {""} : upd' = [upd EXCEPT ![u].pc = "fetch", ![u].search = name]
    <2>1. LabelOf(rrOf(u)) \in Names \cup {""} /\ "*" \in Names
      BY <1>2, BusyRr DEF Names
    <2>2. \A t : SearchName(t, LabelOf(rrOf(u))) \in Names \cup {""}
      BY <2>1 DEF SearchName
    <2> QED
      BY <2>1, <2>2 DEF find_records_count
  <1> DEFINE x == [upd[u] EXCEPT !.pc = "fetch", !.search = name]
  <1>5. /\ x \in Upd /\ x.pc = "fetch" /\ x.msg = upd[u].msg /\ x.i = upd[u].i
        /\ x.found = upd[u].found
    BY <1>1 DEF Upd, UpdPCs
  <1>6. upd' = [upd EXCEPT ![u] = x]
    BY <1>1, <1>4
  <1> HIDE DEF x
  <1>7. \A r \in x.found : r.id <= lastId
    BY <1>5, TypeParts DEF ThreadsOK
  <1>8. ThreadsOK'
    BY <1>2, <1>3, <1>5, <1>6, <1>7, BusyRr, SameRrType
  <1> QED
    BY <1>2, <1>8, ThreadOnlyType

LEMMA FetchType ==
    ASSUME TypeInv, NEW u \in Updaters, find_records_fetch(u)
    PROVE  TypeInv'
  <1>1. upd \in [Updaters -> Upd] /\ upd[u] \in Upd
    BY TypeParts DEF ThreadsOK
  <1>2. /\ UNCHANGED <<rows, lastId, form, messages, changes, historyVars>>
        /\ upd[u].pc \in Busy
    BY DEF find_records_fetch, Busy
  <1>3. lastId' \in Nat /\ lastId <= lastId'
    BY <1>2, TypeParts
  <1>4. PICK pc \in {"save", "delete"}, S \in SUBSET rows :
           /\ upd' = [upd EXCEPT ![u].pc = pc, ![u].found = S]
           /\ pc = "save" => rrOf(u).class = "IN"
    BY DEF find_records_fetch, RowsOf
  <1> DEFINE x == [upd[u] EXCEPT !.pc = pc, !.found = S]
  <1>a. S \in SUBSET Row /\ \A r \in S : r.id <= lastId
    BY TypeParts DEF RowsOK
  <1>5. /\ x \in Upd /\ x.pc = pc /\ x.msg = upd[u].msg /\ x.i = upd[u].i
        /\ x.found = S
    BY <1>1, <1>a DEF Upd, UpdPCs
  <1>6. upd' = [upd EXCEPT ![u] = x]
    BY <1>1, <1>4
  <1> HIDE DEF x
  <1>8. ThreadsOK'
    BY <1>2, <1>3, <1>4, <1>a, <1>5, <1>6, BusyRr, SameRrType
  <1> QED
    BY <1>2, <1>8, ThreadOnlyType

LEMMA DeletedAllType ==
    ASSUME TypeInv, NEW u \in Updaters, deleted_all(u)
    PROVE  TypeInv'
  <1>1. upd \in [Updaters -> Upd] /\ upd[u] \in Upd /\ upd[u].t \in Nat
    BY TypeParts, UpdFields DEF ThreadsOK
  <1>2. /\ UNCHANGED <<rows, lastId, form, messages, changes, historyVars>>
        /\ upd[u].pc \in Busy
    BY DEF deleted_all, Busy
  <1>3. lastId' \in Nat /\ lastId <= lastId'
    BY <1>2, TypeParts
  <1>4. CASE NextRr(u)
    BY <1>2, <1>3, <1>4, ThreadGoes, ThreadOnlyType
  <1>5. CASE upd' = [upd EXCEPT ![u].pc = "count", ![u].t = @ + 1]
    <2>1. PICK t \in Nat : upd' = [upd EXCEPT ![u].pc = "count", ![u].t = t]
      <3>1. upd[u].t + 1 \in Nat
        BY <1>1
      <3> QED
        BY <1>5, <3>1
    <2> DEFINE x == [upd[u] EXCEPT !.pc = "count", !.t = t]
    <2>2. /\ x \in Upd /\ x.pc = "count" /\ x.msg = upd[u].msg /\ x.i = upd[u].i
          /\ x.found = upd[u].found
      BY <1>1 DEF Upd, UpdPCs
    <2>3. upd' = [upd EXCEPT ![u] = x]
      BY <1>1, <2>1
    <2> HIDE DEF x
    <2>4. \A r \in x.found : r.id <= lastId
      BY <2>2, TypeParts DEF ThreadsOK
    <2>5. ThreadsOK'
      BY <1>2, <1>3, <2>2, <2>3, <2>4, BusyRr, SameRrType
    <2> QED
      BY <1>2, <2>5, ThreadOnlyType
  <1> QED
    BY <1>4, <1>5 DEF deleted_all

LEMMA Renamed ==
    ASSUME NEW r \in Row, NEW n \in Names, NEW d \in Data
    PROVE  /\ [r EXCEPT !.name = n] \in Row /\ [r EXCEPT !.name = n].id = r.id
           /\ [r EXCEPT !.name = n].name = n /\ [r EXCEPT !.name = n].type = r.type
           /\ [r EXCEPT !.name = n, !.data = d] \in Row
           /\ [r EXCEPT !.name = n, !.data = d].id = r.id
           /\ [r EXCEPT !.name = n, !.data = d].name = n
           /\ [r EXCEPT !.name = n, !.data = d].type = r.type
  BY DEF Row

LEMMA SaveRrType ==
    ASSUME TypeInv, NEW u \in Updaters, save_rr(u)
    PROVE  TypeInv'
  <1>1. /\ UNCHANGED <<form, messages, changes>>
        /\ upd[u].pc \in Busy /\ upd[u].pc = "save" /\ NextRr(u)
    BY DEF save_rr, Busy
  <1>2. /\ rrOf(u).name \in Names /\ rrOf(u).data \in Data /\ rrOf(u).type \in Types
    BY <1>1, BusyRr DEF TypeInv, RrGoing
  <1>3. /\ RowsOK(rows', lastId') /\ lastId' \in Nat /\ lastId <= lastId' /\ HistoryOK'
    <2>1. CASE /\ lastId' = lastId + 1
               /\ Write(u, rows \cup {NewRow(rrOf(u))}, Unseen(rrOf(u)))
      <3>1. NewRow(rrOf(u)) \in Row /\ NewRow(rrOf(u)).id = lastId + 1
        BY <1>2, NewRowType
      <3>2. RowsOK(rows \cup {NewRow(rrOf(u))}, lastId + 1)
        BY <3>1, MoreRows
      <3>3. rows' = rows \cup {NewRow(rrOf(u))} /\ HistoryOK'
        BY <2>1, WriteHistory
      <3> QED
        BY <2>1, <3>2, <3>3, TypeParts
    <2>2. ASSUME NEW r \in upd[u].found, UNCHANGED lastId,
                 Write(u, Saved([r EXCEPT !.name = rrOf(u).name]), Unseen(rrOf(u)))
          PROVE  RowsOK(rows', lastId') /\ lastId' \in Nat /\ lastId <= lastId' /\ HistoryOK'
      <3>0. r \in Row /\ r.id <= lastId
        BY TypeParts, UpdFields DEF ThreadsOK
      <3>1. PICK q \in Row : q.id <= lastId /\ Write(u, Saved(q), Unseen(rrOf(u)))
        BY <1>2, <2>2, <3>0, Renamed
      <3>2. RowsOK(Saved(q), lastId)
        BY <3>1, SavedRows
      <3>3. rows' = Saved(q) /\ HistoryOK'
        BY <3>1, WriteHistory
      <3> QED
        BY <2>2, <3>2, <3>3, TypeParts
    <2> QED
      BY <2>1, <2>2 DEF save_rr
  <1>4. ThreadsOK' /\ FormsOK'
    BY <1>1, <1>3, ThreadGoes, FormTypes
  <1>5. CountersOK'
    BY <1>1, TypeParts DEF CountersOK
  <1> QED
    BY <1>3, <1>4, <1>5, TypePartsNext

LEMMA DeleteRrType ==
    ASSUME TypeInv, NEW u \in Updaters, NEW r \in upd[u].found, delete_rr(u, r)
    PROVE  TypeInv'
  <1>1. upd \in [Updaters -> Upd] /\ upd[u] \in Upd /\ upd[u].found \in SUBSET Row
    BY TypeParts, UpdFields DEF ThreadsOK
  <1>2. /\ UNCHANGED <<lastId, form, messages, changes>>
        /\ upd[u].pc \in Busy /\ upd[u].pc = "delete"
    BY DEF delete_rr, Busy
  <1>3. lastId' \in Nat /\ lastId <= lastId'
    BY <1>2, TypeParts
  <1>4. FormsOK' /\ CountersOK'
    BY <1>2, <1>3, FormTypes, TypeParts DEF CountersOK
  <1>5. CASE Answer(u) /\ UNCHANGED <<rows, clean, quiet, bypassed>>
    <2>1. ThreadsOK' /\ HistoryOK'
      BY <1>3, <1>5, ThreadGoes, TypeParts DEF HistoryOK
    <2> QED
      BY <1>2, <1>3, <1>4, <1>5, <2>1, TypeParts, TypePartsNext
  <1>6. CASE /\ upd' = [upd EXCEPT ![u].found = @ \ {r}]
             /\ Write(u, {s \in rows : s.id # r.id}, FALSE)
    <2> DEFINE x == [upd[u] EXCEPT !.found = @ \ {r}]
    <2>1. /\ x \in Upd /\ x.pc = upd[u].pc /\ x.msg = upd[u].msg /\ x.i = upd[u].i
          /\ x.found \in SUBSET upd[u].found
      BY <1>1 DEF Upd, UpdPCs
    <2>2. upd' = [upd EXCEPT ![u] = x]
      BY <1>1, <1>6
    <2> HIDE DEF x
    <2>3. \A s \in x.found : s.id <= lastId
      BY <2>1, TypeParts DEF ThreadsOK
    <2>4. ThreadsOK'
      BY <1>2, <1>3, <2>1, <2>2, <2>3, BusyRr, SameRrType
    <2>5. rows' \in SUBSET rows /\ HistoryOK'
      <3>1. PICK S \in SUBSET rows : Write(u, S, FALSE)
        BY <1>6
      <3> QED
        BY <3>1, WriteHistory
    <2>6. RowsOK(rows', lastId')
      BY <1>2, <2>5, FewerRows
    <2> QED
      BY <1>3, <1>4, <2>4, <2>5, <2>6, TypePartsNext
  <1> QED
    BY <1>5, <1>6 DEF delete_rr

------------------------------------------------------------------------------
(* Types: forms, API, imports.                                               *)

LEMMA EntryFields ==
    ASSUME NEW e \in Entries
    PROVE  e.name \in Names /\ e.type \in Types /\ e.data \in Data
  BY EntriesAssumption DEF Entry

LEMMA ThreadsStay ==
    ASSUME TypeInv, UNCHANGED upd, lastId' \in Nat, lastId <= lastId'
    PROVE  ThreadsOK'
  <1>1. /\ upd \in [Updaters -> Upd] /\ RrGoing /\ lastId \in Nat
        /\ \A u \in Updaters : \A r \in upd[u].found : r.id <= lastId
    BY TypeParts DEF ThreadsOK
  <1>2. RrGoing'
    BY <1>1 DEF RrGoing, rrOf
  <1>3. ASSUME NEW u \in Updaters, NEW r \in upd[u].found PROVE r.id <= lastId'
    <2>1. r \in Row
      BY <1>1, UpdFields
    <2>2. r.id \in Nat /\ r.id <= lastId
      BY <1>1, <2>1 DEF Row
    <2> QED
      BY <1>1, <2>2
  <1> QED
    BY <1>1, <1>2, <1>3 DEF ThreadsOK

\* A writer that saves rows while the threads go on.
LEMMA WriterWrites ==
    ASSUME TypeInv, NEW w \in Writers, NEW S, NEW excused, Write(w, S, excused),
           RowsOK(S, lastId'), lastId' \in Nat, lastId <= lastId',
           UNCHANGED upd, FormsOK', CountersOK'
    PROVE  TypeInv'
  <1>1. rows' = S /\ HistoryOK'
    BY WriteHistory
  <1>2. ThreadsOK'
    BY ThreadsStay
  <1> QED
    BY <1>1, <1>2, TypePartsNext

\* The row a new record gets, or an edited one.
LEMMA MadeRow ==
    ASSUME TypeInv, NEW e \in Entries
    PROVE  /\ NewRow(e) \in Row /\ NewRow(e).id = lastId + 1
           /\ \A r \in rows : Edited(r, e) \in Row /\ Edited(r, e).id <= lastId
  <1>1. e.name \in Names /\ e.type \in Types /\ e.data \in Data
    BY EntryFields
  <1>2. NewRow(e) \in Row /\ NewRow(e).id = lastId + 1
    BY <1>1, NewRowType
  <1>3. ASSUME NEW r \in rows
        PROVE  Edited(r, e) \in Row /\ Edited(r, e).id <= lastId
    <2>1. r \in Row /\ r.id <= lastId
      BY TypeParts DEF RowsOK
    <2> QED
      BY <1>1, <2>1 DEF Edited, Row
  <1> QED
    BY <1>2, <1>3

LEMMA IsValidType ==
    ASSUME TypeInv, NEW w \in Writers, NEW r \in Row, is_valid(w, r),
           lastId' \in Nat, lastId <= lastId', r.id <= lastId'
    PROVE  TypeInv'
  <1>1. [pc |-> "valid", row |-> r] \in Form
    BY DEF Form
  <1>2. FormsOK'
    BY <1>1, FormTypes DEF is_valid
  <1>3. CountersOK' /\ HistoryOK' /\ UNCHANGED <<rows, upd>>
    <2>1. clean' \in [Actors -> BOOLEAN]
      BY TypeParts DEF is_valid, HistoryOK
    <2> QED
      BY <2>1, TypeParts DEF is_valid, Change, CountersOK, HistoryOK
  <1>4. RowsOK(rows', lastId')
    <2>1. rows \subseteq Row /\ lastId \in Nat /\ \A q \in rows : q.id <= lastId
      BY TypeParts DEF RowsOK
    <2>2. \A q \in rows : q.id \in Nat /\ q.id <= lastId'
      BY <2>1 DEF Row
    <2> QED
      BY <1>3, <2>2, TypeParts DEF RowsOK
  <1>5. ThreadsOK'
    BY <1>3, ThreadsStay
  <1> QED
    BY <1>2, <1>3, <1>4, <1>5, TypePartsNext

LEMMA FormOpens ==
    ASSUME TypeInv, NEW w \in Writers, NEW e \in Entries,
           \/ create_form(w, e)
           \/ \E r \in rows : edit_form(w, r, e)
    PROVE  TypeInv'
  <1>0. lastId \in Nat
    BY TypeParts
  <1>1. CASE create_form(w, e)
    <2>1. lastId' = lastId + 1 /\ is_valid(w, NewRow(e))
      BY <1>1 DEF create_form
    <2>2. NewRow(e) \in Row /\ NewRow(e).id = lastId'
      BY <2>1, MadeRow
    <2> QED
      BY <1>0, <2>1, <2>2, IsValidType
  <1>2. ASSUME NEW r \in rows, edit_form(w, r, e) PROVE TypeInv'
    <2>1. UNCHANGED lastId /\ is_valid(w, Edited(r, e))
      BY <1>2 DEF edit_form
    <2>2. PICK q \in Row : q.id <= lastId /\ is_valid(w, q)
      BY <2>1, MadeRow
    <2> QED
      BY <1>0, <2>1, <2>2, IsValidType
  <1> QED
    BY <1>1, <1>2

LEMMA SaveFormType ==
    ASSUME TypeInv, NEW w \in Writers, save_form(w)
    PROVE  TypeInv'
  <1>1. /\ Write(w, Saved(form[w].row), UnseenByForm(form[w].row))
        /\ form' = [form EXCEPT ![w] = NoForm]
        /\ UNCHANGED <<lastId, upd, messages, changes>>
    BY DEF save_form
  <1>2. lastId' \in Nat /\ lastId <= lastId' /\ lastId' = lastId
    BY <1>1, TypeParts
  <1>3. form[w].row \in Row /\ form[w].row.id <= lastId
    BY TypeParts DEF FormsOK, Form
  <1>4. RowsOK(Saved(form[w].row), lastId')
    BY <1>2, <1>3, SavedRows
  <1>5. FormsOK'
    <2>1. NoForm \in Form /\ NoForm.row.id <= lastId'
      BY <1>2, NoFormType
    <2> QED
      BY <1>1, <1>2, <2>1, FormTypes
  <1>6. CountersOK'
    BY <1>1, TypeParts DEF CountersOK
  <1> QED
    BY <1>1, <1>2, <1>4, <1>5, <1>6, WriterWrites

LEMMA DiesType ==
    ASSUME TypeInv, NEW w \in Writers, view_dies(w)
    PROVE  TypeInv'
  <1>1. /\ form' = [form EXCEPT ![w] = NoForm]
        /\ UNCHANGED <<rows, lastId, upd, messages, changes, historyVars>>
    BY DEF view_dies
  <1>2. lastId' \in Nat /\ lastId <= lastId' /\ lastId' = lastId
    BY <1>1, TypeParts
  <1>3. FormsOK'
    <2>1. NoForm \in Form /\ NoForm.row.id <= lastId'
      BY <1>2, NoFormType
    <2> QED
      BY <1>1, <1>2, <2>1, FormTypes
  <1>4. ThreadsOK' /\ RowsOK(rows', lastId')
    BY <1>1, <1>2, ThreadsStay, TypeParts
  <1>5. CountersOK' /\ HistoryOK'
    BY <1>1, TypeParts DEF CountersOK, HistoryOK, historyVars
  <1> QED
    BY <1>2, <1>3, <1>4, <1>5, TypePartsNext

LEMMA DirectWriteType ==
    ASSUME TypeInv, NEW w \in Writers, NEW S, NEW excused, Write(w, S, excused),
           RowsOK(S, lastId'), lastId' \in Nat, lastId <= lastId',
           Change, UNCHANGED <<upd, form, messages>>
    PROVE  TypeInv'
  <1>1. FormsOK'
    BY FormTypes
  <1>2. CountersOK'
    BY TypeParts DEF CountersOK, Change
  <1> QED
    BY <1>1, <1>2, WriterWrites

LEMMA ApiType ==
    ASSUME TypeInv, NEW w \in Writers, NEW e \in Entries,
           \/ api_create(w, e)
           \/ \E r \in rows : api_update(w, r, e)
    PROVE  TypeInv'
  <1>0. lastId \in Nat /\ rows \in SUBSET rows
    BY TypeParts
  <1>1. CASE api_create(w, e)
    <2>1. lastId' = lastId + 1 /\ api_save(w, NewRow(e))
      BY <1>1 DEF api_create
    <2>2. NewRow(e) \in Row /\ NewRow(e).id = lastId + 1
      BY MadeRow
    <2>3. Saved(NewRow(e)) = rows \cup {NewRow(e)}
      <3>1. \A s \in rows : s \in Row /\ s.id <= lastId
        BY TypeParts DEF RowsOK
      <3>2. \A s \in rows : s.id \in Nat
        BY <3>1 DEF Row
      <3>3. \A s \in rows : s.id # NewRow(e).id
        BY <1>0, <2>2, <3>1, <3>2
      <3> QED
        BY <3>3 DEF Saved
    <2>4. RowsOK(Saved(NewRow(e)), lastId')
      BY <1>0, <2>1, <2>2, <2>3, MoreRows
    <2>5. /\ Write(w, Saved(NewRow(e)), TRUE)
          /\ Change /\ UNCHANGED <<upd, form, messages>>
      BY <2>1 DEF api_save
    <2>6. lastId' \in Nat /\ lastId <= lastId'
      BY <1>0, <2>1
    <2> QED
      BY <2>4, <2>5, <2>6, DirectWriteType
  <1>2. ASSUME NEW r \in rows, api_update(w, r, e) PROVE TypeInv'
    <2>1. UNCHANGED lastId /\ api_save(w, Edited(r, e))
      BY <1>2 DEF api_update
    <2>2. PICK q \in Row : q.id <= lastId /\ api_save(w, q)
      BY <2>1, MadeRow
    <2>3. RowsOK(Saved(q), lastId')
      BY <2>1, <2>2, SavedRows
    <2>4. /\ Write(w, Saved(q), TRUE)
          /\ Change /\ UNCHANGED <<upd, form, messages>>
      BY <2>2 DEF api_save
    <2>5. lastId' \in Nat /\ lastId <= lastId'
      BY <1>0, <2>1
    <2> QED
      BY <2>3, <2>4, <2>5, DirectWriteType
  <1> QED
    BY <1>1, <1>2

LEMMA ImportType ==
    ASSUME TypeInv, NEW w \in Writers, NEW e \in Entries, NEW overwrite \in BOOLEAN,
           import_zone_file(w, e, overwrite)
    PROVE  TypeInv'
  <1>1. PICK S \in SUBSET rows :
           /\ Write(w, S \cup {NewRow(e)}, TRUE)
           /\ Change /\ lastId' = lastId + 1
           /\ UNCHANGED <<upd, form, messages>>
    BY DEF import_zone_file
  <1>2. RowsOK(S \cup {NewRow(e)}, lastId')
    BY <1>1, MadeRow, MoreRows
  <1>3. lastId \in Nat /\ lastId' \in Nat /\ lastId <= lastId'
    BY <1>1, TypeParts
  <1>4. /\ Write(w, S \cup {NewRow(e)}, TRUE)
        /\ Change /\ UNCHANGED <<upd, form, messages>>
    BY <1>1
  <1> QED
    BY <1>2, <1>3, <1>4, DirectWriteType

LEMMA DeleteRecordType ==
    ASSUME TypeInv, NEW w \in Writers, NEW r \in rows, delete_record(w, r)
    PROVE  TypeInv'
  <1>1. PICK S \in SUBSET rows :
           /\ Write(w, S, FALSE)
           /\ Change /\ UNCHANGED <<lastId, upd, form, messages>>
    BY DEF delete_record
  <1>2. RowsOK(S, lastId') /\ lastId' \in Nat /\ lastId <= lastId'
    BY <1>1, FewerRows, TypeParts
  <1> QED
    BY <1>1, <1>2, DirectWriteType

LEMMA StutterType ==
    ASSUME TypeInv, UNCHANGED vars
    PROVE  TypeInv'
  <1>1. lastId' \in Nat /\ lastId <= lastId' /\ UNCHANGED <<rows, lastId, upd, form>>
    BY TypeParts DEF vars
  <1>2. ThreadsOK' /\ FormsOK' /\ RowsOK(rows', lastId')
    BY <1>1, ThreadsStay, FormTypes, TypeParts
  <1>3. CountersOK' /\ HistoryOK'
    BY TypeParts DEF CountersOK, HistoryOK, vars
  <1> QED
    BY <1>1, <1>2, <1>3, TypePartsNext

LEMMA NextType == TypeInv /\ [Next]_vars => TypeInv'
  <1> SUFFICES ASSUME TypeInv, [Next]_vars PROVE TypeInv'
    OBVIOUS
  <1>1. ASSUME NEW u \in Updaters, NEW m \in Messages, receive_update(u, m) PROVE TypeInv'
    BY <1>1, ReceiveType
  <1>2. ASSUME NEW u \in Updaters, UpdateStep(u) \/ update_fails(u) PROVE TypeInv'
    BY <1>2, PrereqType, NextRrType, SignType, TryType, CountType, FetchType,
       SaveRrType, DeleteRrType, DeletedAllType DEF UpdateStep
  <1>3. ASSUME NEW w \in Writers, WriterStep(w) PROVE TypeInv'
    BY <1>3, FormOpens, SaveFormType, DiesType, ApiType, ImportType, DeleteRecordType
       DEF WriterStep
  <1>4. CASE UNCHANGED vars
    BY <1>4, StutterType
  <1> QED
    BY <1>1, <1>2, <1>3, <1>4 DEF Next

\* Records keep valid fields and unique ids, and every thread and view holds values
\* of the right kind, however updates, forms, API requests and imports interleave.
THEOREM RecordsTypeCorrect == Spec => []TypeOK
  <1>1. Init => TypeInv
    BY InitType
  <1>2. TypeInv /\ [Next]_vars => TypeInv'
    BY NextType
  <1>3. TypeInv => TypeOK
    BY DEF TypeInv
  <1> QED
    BY <1>1, <1>2, <1>3, PTL DEF Spec

------------------------------------------------------------------------------
(* A CNAME shares its label only if no check could prevent it.               *)

\* What _try_update found still holds while nobody else wrote.
CheckedAdd(u) ==
    /\ upd[u].pc \in {"count", "fetch", "save"} /\ clean[u]
    /\ rrOf(u).class = "IN" /\ rrOf(u).name # "@"
    => \A r \in rows : r.name = rrOf(u).name =>
          IF rrOf(u).type = "CNAME" THEN r.type \in {"CNAME"} \cup Unlisted
          ELSE r.type # "CNAME"

\* A record that is saved under another name keeps the type of the RR.
FoundSame(u) == upd[u].pc = "save" => \A r \in upd[u].found : r.type = rrOf(u).type

\* What a form was checked for still holds while nobody else wrote.
CheckedForm(w) == form[w].pc = "valid" /\ clean[w] => validate_unique(form[w].row)

CnameInv ==
    /\ TypeInv
    /\ CnameAloneUnlessBypassed
    /\ \A u \in Updaters : CheckedAdd(u) /\ FoundSame(u)
    /\ \A w \in Writers : CheckedForm(w)

LEMMA InitCname == Init => CnameInv
  <1> SUFFICES ASSUME Init PROVE CnameInv
    OBVIOUS
  <1>1. TypeInv
    BY InitType
  <1>2. CnameAloneUnlessBypassed
    BY DEF Init, CnameAloneUnlessBypassed
  <1>3. \A u \in Updaters : CheckedAdd(u) /\ FoundSame(u)
    BY RestingType DEF Init, CheckedAdd, FoundSame
  <1>4. \A w \in Writers : CheckedForm(w)
    BY NoFormType DEF Init, CheckedForm
  <1> QED
    BY <1>1, <1>2, <1>3, <1>4 DEF CnameInv

\* A write that was checked, excused or overtaken.
LEMMA WriteAlone ==
    ASSUME CnameInv, NEW a \in Actors, NEW S, NEW excused, Write(a, S, excused),
           excused \/ ~clean[a] \/ \A n \in Names : Conflict(S, n) => Conflict(rows, n)
    PROVE  CnameAloneUnlessBypassed'
  <1>1. rows' = S
    BY DEF Write
  <1>2. ASSUME NEW n \in Names, Conflict(S, n) PROVE n \in bypassed'
    BY <1>2 DEF CnameInv, CnameAloneUnlessBypassed, Write
  <1> QED
    BY <1>1, <1>2 DEF CnameAloneUnlessBypassed, Conflict

\* Fewer rows, fewer conflicts.
LEMMA FewerConflicts ==
    ASSUME NEW S \in SUBSET rows, NEW n \in Names, Conflict(S, n)
    PROVE  Conflict(rows, n)
  BY DEF Conflict

\* The others keep what they do, and their checks unless the rows changed.
Others(a) ==
    /\ \A v \in Updaters : v # a => upd'[v] = upd[v]
    /\ \A w \in Writers : w # a => form'[w] = form[w]
    /\ \A b \in Actors : b # a /\ clean'[b] => clean[b] /\ rows' = rows

LEMMA OthersKept ==
    ASSUME CnameInv, NEW a \in Actors, Others(a)
    PROVE  /\ \A v \in Updaters : v # a => CheckedAdd(v)' /\ FoundSame(v)'
           /\ \A w \in Writers : w # a => CheckedForm(w)'
  <1>1. ASSUME NEW v \in Updaters, v # a PROVE CheckedAdd(v)' /\ FoundSame(v)'
    <2>1. upd'[v] = upd[v] /\ (clean'[v] => clean[v] /\ rows' = rows)
      BY <1>1 DEF Others, Actors
    <2>2. CheckedAdd(v) /\ FoundSame(v)
      BY DEF CnameInv
    <2> QED
      BY <2>1, <2>2 DEF CheckedAdd, FoundSame, rrOf
  <1>2. ASSUME NEW w \in Writers, w # a PROVE CheckedForm(w)'
    <2>1. form'[w] = form[w] /\ (clean'[w] => clean[w] /\ rows' = rows)
      BY <1>2 DEF Others, Actors
    <2>2. CheckedForm(w)
      BY DEF CnameInv
    <2> QED
      BY <2>1, <2>2 DEF CheckedForm, validate_unique
  <1> QED
    BY <1>1, <1>2

\* A thread's step, and a writer's.
LEMMA ThreadCname ==
    ASSUME CnameInv, TypeInv', NEW u \in Updaters, Others(u),
           CnameAloneUnlessBypassed', CheckedAdd(u)', FoundSame(u)'
    PROVE  CnameInv'
  <1>1. u \in Actors /\ \A w \in Writers : w # u
    BY ActorsAssumption DEF Actors
  <1> QED
    BY <1>1, OthersKept DEF CnameInv

LEMMA WriterCname ==
    ASSUME CnameInv, TypeInv', NEW w \in Writers, Others(w),
           CnameAloneUnlessBypassed', CheckedForm(w)'
    PROVE  CnameInv'
  <1>1. w \in Actors /\ \A u \in Updaters : w # u
    BY ActorsAssumption DEF Actors
  <1> QED
    BY <1>1, OthersKept DEF CnameInv

\* A write of a.
LEMMA WriteOthers ==
    ASSUME TypeInv, NEW a \in Actors, NEW S, NEW excused, Write(a, S, excused),
           NEW b \in Actors, b # a, clean'[b]
    PROVE  clean[b] /\ rows' = rows
  BY DEF Write

LEMMA AloneKept ==
    ASSUME CnameInv, UNCHANGED <<rows, bypassed>>
    PROVE  CnameAloneUnlessBypassed'
  BY DEF CnameInv, CnameAloneUnlessBypassed, Conflict

\* A thread's step that writes nothing.
LEMMA ThreadReads ==
    ASSUME CnameInv, TypeInv', NEW u \in Updaters, NEW x, upd' = [upd EXCEPT ![u] = x],
           UNCHANGED <<rows, form, bypassed>>,
           clean' = clean \/ clean' = [clean EXCEPT ![u] = TRUE],
           CheckedAdd(u)', FoundSame(u)'
    PROVE  CnameInv'
  <1>1. upd \in [Updaters -> Upd] /\ clean \in [Actors -> BOOLEAN]
    BY TypeParts DEF CnameInv, ThreadsOK, HistoryOK
  <1>2. Others(u)
    BY <1>1 DEF Others
  <1> QED
    BY <1>2, AloneKept, ThreadCname

\* Outside of an addition there is nothing to keep.
LEMMA NothingChecked ==
    ASSUME NEW u \in Updaters,
           \/ upd'[u].pc \in {"idle", "prereq", "next", "check", "delete"}
           \/ upd'[u].pc = "count" /\ rrOf(u)'.class # "IN"
    PROVE  CheckedAdd(u)' /\ FoundSame(u)'
  BY DEF CheckedAdd, FoundSame

\* How the steps that read change the thread.
LEMMA ThreadRecord ==
    ASSUME TypeInv, NEW u \in Updaters
    PROVE  /\ upd \in [Updaters -> Upd] /\ upd[u] \in Upd
           /\ Answer(u) => upd' = [upd EXCEPT ![u] = Resting] /\ upd'[u] = Resting
           /\ NextRr(u) => upd' = [upd EXCEPT ![u] = upd'[u]] /\ upd'[u].pc = "next"
           /\ Goto(u, "count") => /\ upd' = [upd EXCEPT ![u] = upd'[u]]
                                  /\ upd'[u].pc = "count" /\ upd'[u].msg = upd[u].msg
                                  /\ upd'[u].i = upd[u].i
  <1>1. upd \in [Updaters -> Upd] /\ upd[u] \in Upd
    BY TypeParts DEF ThreadsOK
  <1>2. Answer(u) => upd' = [upd EXCEPT ![u] = Resting] /\ upd'[u] = Resting
    BY <1>1 DEF Answer
  <1>3. ASSUME NextRr(u) PROVE upd' = [upd EXCEPT ![u] = upd'[u]] /\ upd'[u].pc = "next"
    <2> DEFINE x == [pc |-> "next", msg |-> upd[u].msg, i |-> upd[u].i + 1, t |-> 1,
                     search |-> "", found |-> {}, base |-> upd[u].base]
    <2>1. upd' = [upd EXCEPT ![u] = x]
      BY <1>3 DEF NextRr
    <2>2. x.pc = "next"
      OBVIOUS
    <2> HIDE DEF x
    <2> QED
      BY <1>1, <2>1, <2>2
  <1>4. Goto(u, "count") => /\ upd' = [upd EXCEPT ![u] = upd'[u]]
                            /\ upd'[u].pc = "count" /\ upd'[u].msg = upd[u].msg
                            /\ upd'[u].i = upd[u].i
    BY <1>1 DEF Goto, Upd
  <1> QED
    BY <1>1, <1>2, <1>3, <1>4

LEMMA ReceiveCname ==
    ASSUME CnameInv, TypeInv', NEW u \in Updaters, NEW m \in Messages, receive_update(u, m)
    PROVE  CnameInv'
  <1> DEFINE x == [Resting EXCEPT !.pc = "prereq", !.msg = m]
  <1>1. upd \in [Updaters -> Upd]
    BY TypeParts DEF CnameInv, ThreadsOK
  <1>2. x.pc = "prereq"
    BY DEF Resting
  <1>3. upd' = [upd EXCEPT ![u] = x] /\ UNCHANGED <<rows, form, bypassed, clean>>
    BY DEF receive_update
  <1> HIDE DEF x
  <1>4. CheckedAdd(u)' /\ FoundSame(u)'
    BY <1>1, <1>2, <1>3, NothingChecked
  <1> QED
    BY <1>3, <1>4, ThreadReads

LEMMA AnswerCname ==
    ASSUME CnameInv, TypeInv', NEW u \in Updaters, Answer(u) \/ NextRr(u),
           UNCHANGED <<rows, form, bypassed>>,
           clean' = clean \/ clean' = [clean EXCEPT ![u] = TRUE]
    PROVE  CnameInv'
  <1>1. upd' = [upd EXCEPT ![u] = upd'[u]] /\ upd'[u].pc \in {"idle", "next"}
    BY ThreadRecord, RestingType DEF CnameInv
  <1> QED
    BY <1>1, NothingChecked, ThreadReads

LEMMA PrereqCname ==
    ASSUME CnameInv, TypeInv', NEW u \in Updaters, check_prereq(u)
    PROVE  CnameInv'
  <1>1. upd \in [Updaters -> Upd] /\ upd[u] \in Upd /\ UNCHANGED <<rows, form, bypassed, clean>>
    BY TypeParts DEF CnameInv, ThreadsOK, check_prereq, historyVars
  <1>2. CASE Answer(u)
    BY <1>1, <1>2, AnswerCname
  <1>3. CASE \/ upd' = [upd EXCEPT ![u].i = @ + 1]
             \/ upd' = [upd EXCEPT ![u].pc = "next", ![u].i = 1]
    <2>1. upd[u].pc = "prereq"
      BY DEF check_prereq
    <2>2. upd' = [upd EXCEPT ![u] = upd'[u]] /\ upd'[u].pc \in {"prereq", "next"}
      BY <1>1, <1>3, <2>1 DEF Upd
    <2> QED
      BY <1>1, <2>2, NothingChecked, ThreadReads
  <1> QED
    BY <1>2, <1>3 DEF check_prereq

LEMMA NextRrCname ==
    ASSUME CnameInv, TypeInv', NEW u \in Updaters, next_rr(u)
    PROVE  CnameInv'
  <1>1. /\ upd \in [Updaters -> Upd] /\ upd[u] \in Upd /\ UNCHANGED <<rows, form, bypassed>>
        /\ clean' = [clean EXCEPT ![u] = TRUE]
    BY TypeParts DEF CnameInv, ThreadsOK, next_rr
  <1>2. CASE Answer(u)
    BY <1>1, <1>2, AnswerCname
  <1>3. ASSUME NEW pc \in {"check", "count"}, NEW b, pc = "count" => rrOf(u).class # "IN",
               upd' = [upd EXCEPT ![u].pc = pc, ![u].base = b]
        PROVE  CnameInv'
    <2>1. /\ upd' = [upd EXCEPT ![u] = upd'[u]]
          /\ upd'[u].pc = pc /\ upd'[u].msg = upd[u].msg /\ upd'[u].i = upd[u].i
      BY <1>1, <1>3 DEF Upd
    <2>2. rrOf(u)' = rrOf(u)
      BY <2>1 DEF rrOf
    <2>3. CheckedAdd(u)' /\ FoundSame(u)'
      BY <1>3, <2>1, <2>2, NothingChecked
    <2> QED
      BY <1>1, <2>1, <2>3, ThreadReads
  <1> QED
    BY <1>2, <1>3 DEF next_rr

LEMMA TryCname ==
    ASSUME CnameInv, TypeInv', NEW u \in Updaters, try_update(u)
    PROVE  CnameInv'
  <1>1. UNCHANGED <<rows, form, bypassed, clean>> /\ upd[u].pc = "check"
    BY DEF try_update, historyVars
  <1>2. CASE NextRr(u)
    BY <1>1, <1>2, AnswerCname
  <1>3. CASE Goto(u, "count") /\ ~NextRr(u)
    <2> DEFINE rr == rrOf(u)
               n == LabelOf(rr)
    <2>1. /\ upd' = [upd EXCEPT ![u] = upd'[u]]
          /\ upd'[u].pc = "count" /\ rrOf(u)' = rr
      BY <1>3, ThreadRecord DEF CnameInv, rrOf
    <2>2. ~(IF rr.type = "CNAME" THEN n # "" /\ any_records(n, FALSE)
            ELSE any_record_type(n, "CNAME"))
      BY <1>3 DEF try_update
    <2>3. ASSUME rr.name # "@", NEW r \in rows, r.name = rr.name
          PROVE  IF rr.type = "CNAME" THEN r.type \in {"CNAME"} \cup Unlisted
                 ELSE r.type # "CNAME"
      <3>1. n = rr.name
        BY <2>3 DEF LabelOf
      <3>2. n # ""
        <4>1. upd[u].pc \in Busy /\ TypeInv
          BY <1>1, NotIdle DEF CnameInv
        <4>2. rr.name \in Names
          BY <4>1, BusyRr
        <4> QED
          BY <2>3, <3>1, <4>2, NamesAssumption DEF Names
      <3>3. CASE rr.type = "CNAME"
        <4>1. ~any_records(n, FALSE)
          BY <2>2, <3>2, <3>3
        <4> QED
          BY <2>3, <3>1, <3>3, <4>1 DEF any_records
      <3>4. CASE rr.type # "CNAME"
        <4>1. ~any_record_type(n, "CNAME")
          BY <2>2, <3>4
        <4>2. RowsOf("CNAME", n) = {}
          BY <4>1 DEF any_record_type, Unlisted
        <4> QED
          BY <2>3, <3>1, <3>4, <4>2 DEF RowsOf, TableOf
      <3> QED
        BY <3>3, <3>4
    <2> HIDE DEF rr
    <2>4. CheckedAdd(u)'
      BY <1>1, <2>1, <2>3 DEF CheckedAdd
    <2>5. FoundSame(u)'
      BY <2>1 DEF FoundSame
    <2> QED
      BY <1>1, <2>1, <2>4, <2>5, ThreadReads
  <1> QED
    BY <1>2, <1>3 DEF try_update

LEMMA CountCname ==
    ASSUME CnameInv, TypeInv', NEW u \in Updaters, find_records_count(u)
    PROVE  CnameInv'
  <1>1. /\ upd \in [Updaters -> Upd] /\ upd[u] \in Upd /\ UNCHANGED <<rows, form, bypassed, clean>>
        /\ upd[u].pc = "count"
    BY TypeParts DEF CnameInv, ThreadsOK, find_records_count, historyVars
  <1>2. PICK name : upd' = [upd EXCEPT ![u].pc = "fetch", ![u].search = name]
    BY DEF find_records_count
  <1>3. /\ upd' = [upd EXCEPT ![u] = upd'[u]] /\ upd'[u].pc = "fetch"
        /\ upd'[u].msg = upd[u].msg /\ upd'[u].i = upd[u].i
    BY <1>1, <1>2 DEF Upd
  <1>4. rrOf(u)' = rrOf(u)
    BY <1>3 DEF rrOf
  <1>5. CheckedAdd(u)' /\ FoundSame(u)'
    <2>1. CheckedAdd(u)
      BY DEF CnameInv
    <2> QED
      BY <1>1, <1>3, <1>4, <2>1 DEF CheckedAdd, FoundSame
  <1> QED
    BY <1>1, <1>3, <1>5, ThreadReads

LEMMA FetchCname ==
    ASSUME CnameInv, TypeInv', NEW u \in Updaters, find_records_fetch(u)
    PROVE  CnameInv'
  <1>1. /\ upd \in [Updaters -> Upd] /\ upd[u] \in Upd /\ UNCHANGED <<rows, form, bypassed, clean>>
        /\ upd[u].pc = "fetch"
    BY TypeParts DEF CnameInv, ThreadsOK, find_records_fetch, historyVars
  <1>2. PICK pc, S :
           /\ upd' = [upd EXCEPT ![u].pc = pc, ![u].found = S]
           /\ pc \in {"save", "delete"}
           /\ pc = "save" => rrOf(u).class = "IN" /\ \A r \in S : Concerns(rrOf(u), r)
    <2> DEFINE pc == IF rrOf(u).class = "IN" THEN "save" ELSE "delete"
               S == {r \in RowsOf(TableNow(u), upd[u].search) : Concerns(rrOf(u), r)}
    <2>1. upd' = [upd EXCEPT ![u].pc = pc, ![u].found = S]
      BY DEF find_records_fetch
    <2>2. /\ pc \in {"save", "delete"}
          /\ pc = "save" => rrOf(u).class = "IN" /\ \A r \in S : Concerns(rrOf(u), r)
      OBVIOUS
    <2> HIDE DEF pc, S
    <2> QED
      BY <2>1, <2>2
  <1>3. /\ upd' = [upd EXCEPT ![u] = upd'[u]] /\ upd'[u].pc = pc /\ upd'[u].found = S
        /\ upd'[u].msg = upd[u].msg /\ upd'[u].i = upd[u].i
    BY <1>1, <1>2 DEF Upd
  <1>4. rrOf(u)' = rrOf(u)
    BY <1>3 DEF rrOf
  <1>5. FoundSame(u)'
    BY <1>2, <1>3, <1>4 DEF FoundSame, Concerns, DeletesAll
  <1>6. CheckedAdd(u)'
    <2>1. CheckedAdd(u)
      BY DEF CnameInv
    <2> QED
      BY <1>1, <1>2, <1>3, <1>4, <2>1 DEF CheckedAdd
  <1> QED
    BY <1>1, <1>3, <1>5, <1>6, ThreadReads

LEMMA DeletedAllCname ==
    ASSUME CnameInv, TypeInv', NEW u \in Updaters, deleted_all(u)
    PROVE  CnameInv'
  <1>1. upd \in [Updaters -> Upd] /\ upd[u] \in Upd /\ UNCHANGED <<rows, form, bypassed, clean>>
    BY TypeParts DEF CnameInv, ThreadsOK, deleted_all, historyVars
  <1>2. CASE NextRr(u)
    BY <1>1, <1>2, AnswerCname
  <1>3. CASE DeletesAll(rrOf(u)) /\ upd' = [upd EXCEPT ![u].pc = "count", ![u].t = @ + 1]
    <2>1. PICK t : upd' = [upd EXCEPT ![u].pc = "count", ![u].t = t]
      BY <1>3
    <2>2. /\ upd' = [upd EXCEPT ![u] = upd'[u]] /\ upd'[u].pc = "count"
          /\ upd'[u].msg = upd[u].msg /\ upd'[u].i = upd[u].i
      BY <1>1, <2>1 DEF Upd
    <2>3. rrOf(u)'.class # "IN"
      BY <1>3, <2>2 DEF rrOf, DeletesAll
    <2> QED
      BY <1>1, <2>2, <2>3, NothingChecked, ThreadReads
  <1> QED
    BY <1>2, <1>3 DEF deleted_all

\* A thread's step that writes.
LEMMA ThreadWrites ==
    ASSUME CnameInv, TypeInv', NEW u \in Updaters,
           upd' = [upd EXCEPT ![u] = upd'[u]], upd'[u].pc \in {"next", "delete"},
           UNCHANGED form, NEW S, NEW excused, Write(u, S, excused),
           excused \/ ~clean[u] \/ \A n \in Names : Conflict(S, n) => Conflict(rows, n)
    PROVE  CnameInv'
  <1>1. u \in Actors /\ upd \in [Updaters -> Upd] /\ TypeInv
    BY TypeParts DEF CnameInv, ThreadsOK, Actors
  <1>2. CnameAloneUnlessBypassed'
    BY <1>1, WriteAlone
  <1>3. Others(u)
    <2>1. \A v \in Updaters : v # u => upd'[v] = upd[v]
      BY <1>1
    <2>2. \A b \in Actors : b # u /\ clean'[b] => clean[b] /\ rows' = rows
      BY <1>1, WriteOthers
    <2> QED
      BY <2>1, <2>2 DEF Others
  <1>4. CheckedAdd(u)' /\ FoundSame(u)'
    BY NothingChecked
  <1> QED
    BY <1>2, <1>3, <1>4, ThreadCname

\* Adding a row where the check allowed it makes no conflict.
LEMMA AddedAlone ==
    ASSUME NEW S \in SUBSET rows, NEW q,
           \A r \in S : r.name = q.name => r.type # "CNAME" /\ q.type # "CNAME",
           NEW n \in Names, Conflict(S \cup {q}, n)
    PROVE  Conflict(rows, n)
  <1>1. PICK r, s \in S \cup {q} : r # s /\ r.name = n /\ s.name = n /\ r.type = "CNAME"
    BY DEF Conflict
  <1>2. r \in S /\ s \in S
    BY <1>1
  <1> QED
    BY <1>1, <1>2 DEF Conflict

LEMMA SaveRrCname ==
    ASSUME CnameInv, TypeInv', NEW u \in Updaters, save_rr(u)
    PROVE  CnameInv'
  <1> DEFINE rr == rrOf(u)
  <1>1. /\ TypeInv /\ CheckedAdd(u) /\ FoundSame(u)
        /\ upd[u].pc = "save" /\ NextRr(u) /\ UNCHANGED form
    BY DEF CnameInv, save_rr
  <1>2. upd' = [upd EXCEPT ![u] = upd'[u]] /\ upd'[u].pc = "next"
    BY <1>1, ThreadRecord
  <1>3. /\ rr.class = "IN" /\ rr.name \in Names /\ rr.data \in Data /\ rr.type \in Types
    BY <1>1, BusyRr, NotIdle DEF RrGoing, TypeInv
  <1>4. ASSUME ~Unseen(rr), clean[u], NEW r \in rows, r.name = rr.name
        PROVE  r.type # "CNAME" /\ rr.type # "CNAME"
    BY <1>1, <1>3, <1>4 DEF CheckedAdd, Unseen
  <1>5. ASSUME NEW S \in SUBSET rows, NEW q, q.name = rr.name, q.type = rr.type,
               Write(u, S \cup {q}, Unseen(rr))
        PROVE  CnameInv'
    <2>1. CASE Unseen(rr) \/ ~clean[u]
      BY <1>1, <1>2, <1>5, <2>1, ThreadWrites
    <2>2. CASE ~Unseen(rr) /\ clean[u]
      <3>1. \A r \in S : r.name = q.name => r.type # "CNAME" /\ q.type # "CNAME"
        BY <1>4, <1>5, <2>2
      <3>2. \A n \in Names : Conflict(S \cup {q}, n) => Conflict(rows, n)
        BY <3>1, AddedAlone
      <3> QED
        BY <1>1, <1>2, <1>5, <3>2, ThreadWrites
    <2> QED
      BY <2>1, <2>2
  <1>6. CASE Write(u, rows \cup {NewRow(rr)}, Unseen(rr))
    <2>1. NewRow(rr).name = rr.name /\ NewRow(rr).type = rr.type
      BY DEF NewRow
    <2> QED
      BY <1>5, <1>6, <2>1
  <1>7. ASSUME NEW r \in upd[u].found,
               Write(u, Saved([r EXCEPT !.name = rr.name]), Unseen(rr))
        PROVE  CnameInv'
    <2>1. r \in Row /\ r.type = rr.type
      BY <1>1, TypeParts, UpdFields DEF ThreadsOK, FoundSame
    <2>2. PICK q : /\ q.name = rr.name /\ q.type = rr.type
                   /\ Write(u, Saved(q), Unseen(rr))
      BY <1>3, <1>7, <2>1, Renamed
    <2>3. PICK S \in SUBSET rows : Saved(q) = S \cup {q}
      BY DEF Saved
    <2> QED
      BY <1>5, <2>2, <2>3
  <1> QED
    BY <1>6, <1>7 DEF save_rr

LEMMA DeleteRrCname ==
    ASSUME CnameInv, TypeInv', NEW u \in Updaters, NEW r \in upd[u].found, delete_rr(u, r)
    PROVE  CnameInv'
  <1>1. /\ upd \in [Updaters -> Upd] /\ upd[u] \in Upd /\ UNCHANGED form
        /\ upd[u].pc = "delete"
    BY TypeParts DEF CnameInv, ThreadsOK, delete_rr
  <1>2. CASE Answer(u) /\ UNCHANGED <<rows, clean, quiet, bypassed>>
    BY <1>1, <1>2, AnswerCname
  <1>3. CASE /\ upd' = [upd EXCEPT ![u].found = @ \ {r}]
             /\ Write(u, {s \in rows : s.id # r.id}, FALSE)
    <2>1. upd' = [upd EXCEPT ![u] = upd'[u]] /\ upd'[u].pc = "delete"
      BY <1>1, <1>3 DEF Upd
    <2>2. PICK S \in SUBSET rows : Write(u, S, FALSE)
      BY <1>3
    <2>3. \A n \in Names : Conflict(S, n) => Conflict(rows, n)
      BY FewerConflicts
    <2> QED
      BY <1>1, <2>1, <2>2, <2>3, ThreadWrites
  <1> QED
    BY <1>2, <1>3 DEF delete_rr

\* A writer's step that writes.
LEMMA WriterWritesCname ==
    ASSUME CnameInv, TypeInv', NEW w \in Writers,
           UNCHANGED upd, form' = form \/ form' = [form EXCEPT ![w] = NoForm],
           form'[w].pc = "idle", NEW S, NEW excused, Write(w, S, excused),
           excused \/ ~clean[w] \/ \A n \in Names : Conflict(S, n) => Conflict(rows, n)
    PROVE  CnameInv'
  <1>1. w \in Actors /\ form \in [Writers -> Form] /\ TypeInv
    BY TypeParts DEF CnameInv, FormsOK, Actors
  <1>2. CnameAloneUnlessBypassed'
    BY <1>1, WriteAlone
  <1>3. Others(w)
    <2>1. \A v \in Writers : v # w => form'[v] = form[v]
      BY <1>1
    <2>2. \A b \in Actors : b # w /\ clean'[b] => clean[b] /\ rows' = rows
      BY <1>1, WriteOthers
    <2> QED
      BY <2>1, <2>2 DEF Others
  <1>4. CheckedForm(w)'
    BY DEF CheckedForm
  <1> QED
    BY <1>2, <1>3, <1>4, WriterCname

\* A writer's step that writes nothing.
LEMMA WriterReads ==
    ASSUME CnameInv, TypeInv', NEW w \in Writers, NEW f, form' = [form EXCEPT ![w] = f],
           UNCHANGED <<rows, upd, bypassed>>,
           clean' = clean \/ clean' = [clean EXCEPT ![w] = TRUE],
           f.pc = "valid" => validate_unique(f.row)
    PROVE  CnameInv'
  <1>1. form \in [Writers -> Form] /\ clean \in [Actors -> BOOLEAN]
    BY TypeParts DEF CnameInv, FormsOK, HistoryOK
  <1>2. Others(w)
    BY <1>1 DEF Others
  <1>3. form'[w] = f
    BY <1>1
  <1>4. CheckedForm(w)'
    BY <1>3 DEF CheckedForm, validate_unique
  <1> QED
    BY <1>2, <1>4, AloneKept, WriterCname

LEMMA FormCname ==
    ASSUME CnameInv, TypeInv', NEW w \in Writers, NEW r, is_valid(w, r)
    PROVE  CnameInv'
  <1>1. /\ form' = [form EXCEPT ![w] = [pc |-> "valid", row |-> r]]
        /\ validate_unique(r)
        /\ clean' = [clean EXCEPT ![w] = TRUE] /\ UNCHANGED <<rows, upd, bypassed>>
    BY DEF is_valid
  <1> QED
    BY <1>1, WriterReads

LEMMA SaveFormCname ==
    ASSUME CnameInv, TypeInv', NEW w \in Writers, save_form(w)
    PROVE  CnameInv'
  <1> DEFINE q == form[w].row
  <1>1. /\ form[w].pc = "valid" /\ Write(w, Saved(q), UnseenByForm(q))
        /\ form' = [form EXCEPT ![w] = NoForm] /\ UNCHANGED upd
    BY DEF save_form
  <1>2. CheckedForm(w) /\ form \in [Writers -> Form] /\ form'[w] = NoForm
    BY <1>1, TypeParts DEF CnameInv, FormsOK
  <1>3. CASE clean[w] /\ ~UnseenByForm(q)
    <2>1. validate_unique(q)
      BY <1>1, <1>2, <1>3 DEF CheckedForm
    <2> DEFINE S == {r \in rows : r.id # q.id}
    <2>2. S \in SUBSET rows /\ Saved(q) = S \cup {q} /\ \A r \in S : r.id # q.id
      BY DEF Saved
    <2> HIDE DEF S
    <2>3. \A r \in S : r.name = q.name => r.type # "CNAME" /\ q.type # "CNAME"
      BY <1>3, <2>1, <2>2 DEF validate_unique, UnseenByForm
    <2> HIDE DEF q
    <2>4. \A n \in Names : Conflict(S \cup {q}, n) => Conflict(rows, n)
      BY <2>2, <2>3, AddedAlone
    <2> QED
      BY <1>1, <1>2, <2>2, <2>4, NoFormType, WriterWritesCname
  <1>4. CASE ~clean[w] \/ UnseenByForm(q)
    BY <1>1, <1>2, <1>4, NoFormType, WriterWritesCname
  <1> QED
    BY <1>3, <1>4

LEMMA DiesCname ==
    ASSUME CnameInv, TypeInv', NEW w \in Writers, view_dies(w)
    PROVE  CnameInv'
  <1>1. /\ form' = [form EXCEPT ![w] = NoForm]
        /\ UNCHANGED <<rows, upd, bypassed, clean>>
    BY DEF view_dies, historyVars
  <1>2. NoForm.pc # "valid"
    BY NoFormType
  <1> QED
    BY <1>1, <1>2, WriterReads

LEMMA DeleteRecordCname ==
    ASSUME CnameInv, TypeInv', NEW w \in Writers, NEW r \in rows, delete_record(w, r)
    PROVE  CnameInv'
  <1>1. PICK S \in SUBSET rows :
           Write(w, S, FALSE) /\ form[w].pc = "idle" /\ UNCHANGED <<upd, form>>
    BY DEF delete_record
  <1>2. \A n \in Names : Conflict(S, n) => Conflict(rows, n)
    BY FewerConflicts
  <1> QED
    BY <1>1, <1>2, WriterWritesCname

LEMMA UncheckedCname ==
    ASSUME CnameInv, TypeInv', NEW w \in Writers, NEW e,
           \/ \E r : api_save(w, r)
           \/ \E overwrite \in BOOLEAN : import_zone_file(w, e, overwrite)
    PROVE  CnameInv'
  <1>1. PICK S : Write(w, S, TRUE) /\ form[w].pc = "idle" /\ UNCHANGED <<upd, form>>
    BY DEF api_save, import_zone_file
  <1> QED
    BY <1>1, WriterWritesCname

LEMMA StutterCname ==
    ASSUME CnameInv, TypeInv', UNCHANGED vars
    PROVE  CnameInv'
  BY DEF CnameInv, vars, CnameAloneUnlessBypassed, Conflict, CheckedAdd, FoundSame, rrOf,
         CheckedForm, validate_unique

LEMMA NextCname == CnameInv /\ [Next]_vars => CnameInv'
  <1> SUFFICES ASSUME CnameInv, [Next]_vars PROVE CnameInv'
    OBVIOUS
  <1>0. TypeInv'
    BY NextType DEF CnameInv
  <1>1. ASSUME NEW u \in Updaters, NEW m \in Messages, receive_update(u, m) PROVE CnameInv'
    BY <1>0, <1>1, ReceiveCname
  <1>2. ASSUME NEW u \in Updaters, UpdateStep(u) \/ update_fails(u) PROVE CnameInv'
    <2>1. CASE sign_resp(u) \/ update_fails(u)
      BY <1>0, <2>1, AnswerCname DEF sign_resp, update_fails, historyVars
    <2> QED
      BY <1>0, <1>2, <2>1, PrereqCname, NextRrCname, TryCname, CountCname, FetchCname,
         SaveRrCname, DeleteRrCname, DeletedAllCname DEF UpdateStep
  <1>3. ASSUME NEW w \in Writers, WriterStep(w) PROVE CnameInv'
    <2>1. ASSUME NEW e \in Entries, create_form(w, e) PROVE CnameInv'
      BY <1>0, <2>1, FormCname DEF create_form
    <2>2. ASSUME NEW e \in Entries, NEW r \in rows, edit_form(w, r, e) PROVE CnameInv'
      BY <1>0, <2>2, FormCname DEF edit_form
    <2>3. ASSUME NEW e \in Entries,
                 \/ api_create(w, e)
                 \/ \E r \in rows : api_update(w, r, e)
                 \/ \E overwrite \in BOOLEAN : import_zone_file(w, e, overwrite)
          PROVE  CnameInv'
      BY <1>0, <2>3, UncheckedCname DEF api_create, api_update
    <2> QED
      BY <1>0, <1>3, <2>1, <2>2, <2>3, SaveFormCname, DiesCname, DeleteRecordCname
         DEF WriterStep
  <1>4. CASE UNCHANGED vars
    BY <1>0, <1>4, StutterCname
  <1> QED
    BY <1>1, <1>2, <1>3, <1>4 DEF Next

\* A CNAME shares its label with another record only if the last write there made no
\* check, was overtaken between its check and its save, or is one of the cases that
\* _try_update does not see, whatever else the threads and views do.
THEOREM CnamesAlone == Spec => []CnameAloneUnlessBypassed
  <1>1. Init => CnameInv
    BY InitCname
  <1>2. CnameInv /\ [Next]_vars => CnameInv'
    BY NextCname
  <1>3. CnameInv => CnameAloneUnlessBypassed
    BY DEF CnameInv
  <1> QED
    BY <1>1, <1>2, <1>3, PTL DEF Spec

------------------------------------------------------------------------------
(* A thread and everybody else.                                              *)

\* Somebody else's step: history says if it wrote.
Bystander(u) ==
    /\ upd'[u] = upd[u]
    /\ clean'[u] => clean[u] /\ rows' = rows
    /\ quiet'[u] => quiet[u] /\ rows' = rows

LEMMA WriteBystander ==
    ASSUME TypeInv, NEW a, NEW S, NEW excused, Write(a, S, excused),
           NEW u \in Updaters, u # a, upd'[u] = upd[u]
    PROVE  Bystander(u)
  BY DEF Write, Bystander, Actors

LEMMA WriterBystander ==
    ASSUME TypeInv, NEW w \in Writers, WriterStep(w), NEW u \in Updaters
    PROVE  Bystander(u)
  <1> USE DEF create_form, api_create, import_zone_file, edit_form, api_update,
              delete_record, save_form, view_dies, is_valid, api_save
  <1>1. u # w /\ upd' = upd
    BY ActorsAssumption DEF WriterStep
  <1>2. ASSUME NEW S, NEW excused, Write(w, S, excused) PROVE Bystander(u)
    BY <1>1, <1>2, WriteBystander
  <1>3. CASE /\ UNCHANGED <<rows, quiet>>
             /\ clean' = clean \/ clean' = [clean EXCEPT ![w] = TRUE]
    BY <1>1, <1>3, TypeParts DEF Bystander, HistoryOK, Actors
  <1>4. ASSUME NEW r, is_valid(w, r) PROVE Bystander(u)
    BY <1>3, <1>4
  <1>5. ASSUME NEW r, api_save(w, r) PROVE Bystander(u)
    BY <1>2, <1>5
  <1>6. CASE save_form(w) \/ view_dies(w)
    BY <1>2, <1>3, <1>6 DEF historyVars
  <1>7. ASSUME NEW e \in Entries, NEW overwrite \in BOOLEAN, import_zone_file(w, e, overwrite)
        PROVE  Bystander(u)
    BY <1>2, <1>7
  <1>8. ASSUME NEW r \in rows, delete_record(w, r) PROVE Bystander(u)
    BY <1>2, <1>8
  <1>9. ASSUME NEW e \in Entries, create_form(w, e) \/ api_create(w, e) PROVE Bystander(u)
    BY <1>4, <1>5, <1>9
  <1>10. ASSUME NEW e \in Entries, NEW r \in rows, edit_form(w, r, e) \/ api_update(w, r, e)
         PROVE  Bystander(u)
    BY <1>4, <1>5, <1>10
  <1> QED
    BY <1>6, <1>7, <1>8, <1>9, <1>10, Zenon DEF WriterStep

\* A thread's own steps.
OwnStep(u) == (\E m \in Messages : receive_update(u, m)) \/ UpdateStep(u) \/ update_fails(u)

\* A step of another thread.
LEMMA OwnBystander ==
    ASSUME TypeInv, NEW v \in Updaters, OwnStep(v), NEW u \in Updaters, u # v
    PROVE  Bystander(u)
  <1>1. upd \in [Updaters -> Upd] /\ quiet \in [Updaters -> BOOLEAN]
        /\ clean \in [Actors -> BOOLEAN]
    BY TypeParts DEF ThreadsOK, HistoryOK
  <1>2. ASSUME Answer(v) \/ NextRr(v) \/ \E pc : Goto(v, pc) PROVE upd'[u] = upd[u]
    BY <1>1, <1>2 DEF Answer, NextRr, Goto
  <1>3. ASSUME NEW S, NEW excused, Write(v, S, excused), upd'[u] = upd[u] PROVE Bystander(u)
    BY <1>3, WriteBystander
  <1>4. CASE /\ rows' = rows /\ upd'[u] = upd[u]
             /\ quiet' = quiet \/ quiet' = [quiet EXCEPT ![v] = TRUE]
             /\ clean' = clean \/ clean' = [clean EXCEPT ![v] = TRUE]
    BY <1>1, <1>4 DEF Bystander, Actors
  <1>5. ASSUME NEW m \in Messages, receive_update(v, m) PROVE Bystander(u)
    BY <1>1, <1>4, <1>5 DEF receive_update
  <1>6. CASE check_prereq(v)
    BY <1>1, <1>2, <1>4, <1>6 DEF check_prereq, historyVars
  <1>7. CASE next_rr(v)
    <2>1. upd'[u] = upd[u]
      BY <1>1, <1>2, <1>7 DEF next_rr
    <2> QED
      BY <1>4, <1>7, <2>1 DEF next_rr
  <1>8. CASE sign_resp(v) \/ update_fails(v)
    BY <1>2, <1>4, <1>8 DEF sign_resp, update_fails, historyVars
  <1>9. CASE try_update(v)
    <2>1. NextRr(v) \/ Goto(v, "count")
      BY <1>9 DEF try_update
    <2> QED
      BY <1>2, <1>4, <1>9, <2>1 DEF try_update, historyVars
  <1>10. CASE find_records_count(v) \/ find_records_fetch(v)
    BY <1>1, <1>4, <1>10 DEF find_records_count, find_records_fetch, historyVars
  <1>11. CASE save_rr(v)
    BY <1>2, <1>3, <1>11 DEF save_rr
  <1>12. ASSUME NEW r \in upd[v].found, delete_rr(v, r) PROVE Bystander(u)
    <2>1. CASE Answer(v) /\ UNCHANGED <<rows, clean, quiet, bypassed>>
      BY <1>2, <1>4, <2>1
    <2>2. CASE /\ upd' = [upd EXCEPT ![v].found = @ \ {r}]
               /\ Write(v, {s \in rows : s.id # r.id}, FALSE)
      BY <1>1, <1>3, <2>2
    <2> QED
      BY <1>12, <2>1, <2>2 DEF delete_rr
  <1>13. CASE deleted_all(v)
    <2>1. upd'[u] = upd[u]
      BY <1>1, <1>2, <1>13 DEF deleted_all
    <2> QED
      BY <1>4, <1>13, <2>1 DEF deleted_all, historyVars
  <1> QED
    BY <1>5, <1>6, <1>7, <1>8, <1>9, <1>10, <1>11, <1>12, <1>13 DEF OwnStep, UpdateStep

\* Every step is one of the thread or leaves it alone.
LEMMA StepSplit ==
    ASSUME TypeInv, [Next]_vars, NEW u \in Updaters
    PROVE  OwnStep(u) \/ Bystander(u)
  <1>1. CASE UNCHANGED vars
    BY <1>1 DEF vars, Bystander
  <1>2. ASSUME NEW v \in Updaters, OwnStep(v) PROVE OwnStep(u) \/ Bystander(u)
    BY <1>2, OwnBystander
  <1>3. ASSUME NEW w \in Writers, WriterStep(w) PROVE Bystander(u)
    BY <1>3, WriterBystander
  <1> QED
    BY <1>1, <1>2, <1>3 DEF Next, OwnStep
------------------------------------------------------------------------------
(* Prerequisites.                                                            *)

\* What a thread with message m has found to hold does while nobody writes: the
\* prerequisites behind it, and all of them once it goes through the RRs.
Passed(u, m) ==
    upd[u].msg = m /\ quiet[u] =>
        /\ upd[u].pc = "prereq" => \A j \in 1 .. Len(m.pre) : j < upd[u].i => Holds(m.pre[j])
        /\ upd[u].pc \notin {"idle", "prereq"} => \A j \in 1 .. Len(m.pre) : Holds(m.pre[j])
PrereqInv == \A u \in Updaters : \A m \in Message : Passed(u, m)

\* Prerequisites are about the rows.
LEMMA HoldsSame ==
    ASSUME rows' = rows, NEW p, Holds(p)
    PROVE  Holds(p)'
  <1>1. Exists(p)' = Exists(p)
    BY DEF Exists, any_records, any_record_type, find_records, SearchName, RowsOf
  <1>2. same_rrset(p)' = same_rrset(p)
    BY DEF find_records, SearchName, RowsOf, same_rrset
  <1> QED
    BY <1>1, <1>2 DEF Holds

LEMMA BystanderPassed ==
    ASSUME NEW u \in Updaters, Bystander(u), NEW m \in Message, Passed(u, m)
    PROVE  Passed(u, m)'
  <1>1. upd'[u] = upd[u] /\ (quiet'[u] => quiet[u] /\ rows' = rows)
    BY DEF Bystander
  <1> QED
    BY <1>1, HoldsSame DEF Passed

LEMMA ReceivePassed ==
    ASSUME TypeInv, NEW u \in Updaters, NEW m0 \in Messages, receive_update(u, m0),
           NEW m \in Message
    PROVE  Passed(u, m)'
  <1> DEFINE x == [Resting EXCEPT !.pc = "prereq", !.msg = m0]
  <1>1. upd \in [Updaters -> Upd]
    BY TypeParts DEF ThreadsOK
  <1>2. x.pc = "prereq" /\ x.i = 1
    BY DEF Resting
  <1>3. upd' = [upd EXCEPT ![u] = x]
    BY DEF receive_update
  <1> HIDE DEF x
  <1>4. upd'[u].pc = "prereq" /\ upd'[u].i = 1
    BY <1>1, <1>2, <1>3
  <1>5. \A j \in 1 .. Len(m.pre) : ~(j < 1)
    OBVIOUS
  <1> QED
    BY <1>4, <1>5 DEF Passed

\* One more prerequisite, or all of them.
LEMMA PrereqPassed ==
    ASSUME TypeInv, NEW u \in Updaters, check_prereq(u), NEW m \in Message, Passed(u, m)
    PROVE  Passed(u, m)'
  <1>1. /\ upd \in [Updaters -> Upd] /\ upd[u] \in Upd /\ rows' = rows /\ quiet' = quiet
        /\ upd[u].pc = "prereq"
    BY TypeParts DEF ThreadsOK, check_prereq, historyVars
  <1>2. CASE Answer(u)
    BY <1>1, <1>2, RestingType, ThreadRecord DEF Passed
  <1>a. upd[u].i \in Nat /\ Len(m.pre) \in Nat
    <2>1. m.pre \in Seq(Rr)
      BY DEF Message
    <2>2. upd[u].i \in Nat
      BY <1>1, UpdFields
    <2>3. Len(m.pre) \in Nat
      BY <2>1
    <2> QED
      BY <2>2, <2>3
  <1>3. CASE /\ upd[u].i <= Len(upd[u].msg.pre) /\ Holds(upd[u].msg.pre[upd[u].i])
             /\ upd' = [upd EXCEPT ![u].i = @ + 1]
    <2>1. /\ upd'[u].pc = "prereq" /\ upd'[u].msg = upd[u].msg
          /\ upd'[u].i = upd[u].i + 1
      BY <1>1, <1>3 DEF Upd
    <2>2. ASSUME upd[u].msg = m, quiet[u], NEW j \in 1 .. Len(m.pre), j < upd[u].i + 1
          PROVE  Holds(m.pre[j])'
      <3>1. CASE j < upd[u].i
        BY <1>1, <2>2, <3>1, HoldsSame DEF Passed
      <3>2. CASE ~(j < upd[u].i)
        <4>1. j = upd[u].i
          BY <1>a, <2>2, <3>2
        <4>2. Holds(m.pre[j])
          BY <1>3, <2>2, <4>1
        <4> QED
          BY <1>1, <4>2, HoldsSame
      <3> QED
        BY <3>1, <3>2
    <2> QED
      BY <1>1, <2>1, <2>2 DEF Passed
  <1>4. CASE /\ upd[u].i > Len(upd[u].msg.pre)
             /\ upd' = [upd EXCEPT ![u].pc = "next", ![u].i = 1]
    <2>1. upd'[u].pc = "next" /\ upd'[u].msg = upd[u].msg
      BY <1>1, <1>4 DEF Upd
    <2>2. ASSUME upd[u].msg = m, quiet[u], NEW j \in 1 .. Len(m.pre) PROVE Holds(m.pre[j])'
      <3>1. j < upd[u].i
        BY <1>4, <1>a, <2>2
      <3> QED
        BY <1>1, <2>2, <3>1, HoldsSame DEF Passed
    <2> QED
      BY <1>1, <2>1, <2>2 DEF Passed
  <1> QED
    BY <1>2, <1>3, <1>4 DEF check_prereq

\* Any other step of the thread keeps the message, or ends it.
LEMMA GoesOn ==
    ASSUME TypeInv, NEW u \in Updaters, OwnStep(u), ~check_prereq(u),
           ~\E m \in Messages : receive_update(u, m)
    PROVE  /\ upd'[u].pc # "idle" => /\ upd[u].pc \notin {"idle", "prereq"}
                                     /\ upd'[u].pc # "prereq"
                                     /\ upd'[u].msg = upd[u].msg
           /\ quiet'[u] => quiet[u] /\ rows' = rows
  <1>1. upd \in [Updaters -> Upd] /\ upd[u] \in Upd
    BY TypeParts DEF ThreadsOK
  <1>2. ASSUME UpdateStep(u), ~Answer(u)
        PROVE  upd'[u].pc # "prereq" /\ upd'[u].msg = upd[u].msg
    <2>2. ASSUME NextRr(u) PROVE upd'[u].pc # "prereq" /\ upd'[u].msg = upd[u].msg
      BY <1>1, <2>2 DEF NextRr
    <2>3. ASSUME NEW x, upd' = [upd EXCEPT ![u] = x], x.pc # "prereq", x.msg = upd[u].msg
          PROVE  upd'[u].pc # "prereq" /\ upd'[u].msg = upd[u].msg
      BY <1>1, <2>3
    <2>4. CASE try_update(u) \/ save_rr(u)
      <3>1. NextRr(u) \/ Goto(u, "count")
        BY <2>4 DEF try_update, save_rr
      <3>2. CASE Goto(u, "count")
        <4>1. upd'[u].pc = "count" /\ upd'[u].msg = upd[u].msg
          BY <3>2, ThreadRecord
        <4> QED
          BY <4>1
      <3> QED
        BY <2>2, <3>1, <3>2
    <2>5. ASSUME NEW pc \in {"check", "count"}, NEW b,
                 upd' = [upd EXCEPT ![u].pc = pc, ![u].base = b]
          PROVE  upd'[u].pc # "prereq" /\ upd'[u].msg = upd[u].msg
      BY <1>1, <2>5 DEF Upd
    <2>6. CASE next_rr(u)
      BY <1>2, <2>5, <2>6 DEF next_rr
    <2>7. CASE find_records_count(u)
      <3>1. PICK n : upd' = [upd EXCEPT ![u].pc = "fetch", ![u].search = n]
        BY <2>7 DEF find_records_count
      <3> QED
        BY <1>1, <3>1 DEF Upd
    <2>8. CASE find_records_fetch(u)
      <3>1. PICK pc \in {"save", "delete"} : \E S : upd' = [upd EXCEPT ![u].pc = pc, ![u].found = S]
        BY <2>8 DEF find_records_fetch
      <3> QED
        BY <1>1, <3>1 DEF Upd
    <2>9. ASSUME NEW r \in upd[u].found, delete_rr(u, r)
          PROVE  upd'[u].pc # "prereq" /\ upd'[u].msg = upd[u].msg
      <3>1. upd[u].pc = "delete" /\ upd' = [upd EXCEPT ![u].found = @ \ {r}]
        BY <1>2, <2>9 DEF delete_rr
      <3> QED
        BY <1>1, <3>1 DEF Upd
    <2>10. CASE deleted_all(u)
      <3>1. CASE upd' = [upd EXCEPT ![u].pc = "count", ![u].t = @ + 1]
        BY <1>1, <3>1 DEF Upd
      <3> QED
        BY <2>2, <2>10, <3>1 DEF deleted_all
    <2> QED
      BY <1>2, <2>4, <2>6, <2>7, <2>8, <2>9, <2>10 DEF UpdateStep, sign_resp
  <1>3. ASSUME UpdateStep(u) PROVE upd[u].pc \notin {"idle", "prereq"}
    BY <1>3 DEF UpdateStep, next_rr, sign_resp, try_update, find_records_count,
                find_records_fetch, save_rr, delete_rr, deleted_all
  <1>6. ASSUME Answer(u) PROVE upd'[u].pc = "idle"
    BY <1>6, ThreadRecord, RestingType
  <1>4. UpdateStep(u) \/ Answer(u)
    BY DEF OwnStep, update_fails
  <1>5. quiet'[u] => quiet[u] /\ rows' = rows
    <2>1. (\E S, excused : Write(u, S, excused)) \/ UNCHANGED <<rows, quiet>>
      <3>1. \A r \in upd[u].found : delete_rr(u, r) =>
               (\E S, excused : Write(u, S, excused)) \/ UNCHANGED <<rows, quiet>>
        BY DEF delete_rr
      <3>2. save_rr(u) => \E S, excused : Write(u, S, excused)
        BY DEF save_rr
      <3> QED
        BY <3>1, <3>2
        DEF OwnStep, UpdateStep, update_fails, next_rr, sign_resp, try_update,
            find_records_count, find_records_fetch, deleted_all, historyVars
    <2> QED
      BY <2>1 DEF Write
  <1> QED
    BY <1>2, <1>3, <1>4, <1>5, <1>6

LEMMA NextPassed ==
    ASSUME TypeInv, PrereqInv, [Next]_vars
    PROVE  PrereqInv'
  <1> SUFFICES ASSUME NEW u \in Updaters, NEW m \in Message PROVE Passed(u, m)'
    BY DEF PrereqInv
  <1>1. Passed(u, m)
    BY DEF PrereqInv
  <1>2. CASE Bystander(u)
    BY <1>1, <1>2, BystanderPassed
  <1>3. CASE check_prereq(u)
    BY <1>1, <1>3, PrereqPassed
  <1>4. CASE \E m0 \in Messages : receive_update(u, m0)
    BY <1>4, ReceivePassed
  <1>5. CASE OwnStep(u) /\ ~check_prereq(u) /\ ~\E m0 \in Messages : receive_update(u, m0)
    BY <1>1, <1>5, GoesOn, HoldsSame DEF Passed
  <1> QED
    BY <1>2, <1>3, <1>4, <1>5, StepSplit

LEMMA InitPassed == Init => PrereqInv
  BY RestingType DEF Init, PrereqInv, Passed

\* When a message makes its first change, and until somebody writes, all its
\* prerequisites hold at once, although they were checked one by one.
THEOREM PrerequisitesHold == Spec => []PrereqsHoldWhenApplied
  <1>1. Init => TypeInv /\ PrereqInv
    BY InitType, InitPassed
  <1>2. TypeInv /\ PrereqInv /\ [Next]_vars => TypeInv' /\ PrereqInv'
    BY NextType, NextPassed
  <1>3. TypeInv /\ PrereqInv => PrereqsHoldWhenApplied
    <2> SUFFICES ASSUME TypeInv, PrereqInv, NEW u \in Updaters
                 PROVE  upd[u].pc \notin {"idle", "prereq"} /\ quiet[u] =>
                            \A i \in 1 .. Len(upd[u].msg.pre) : Holds(upd[u].msg.pre[i])
      BY DEF PrereqsHoldWhenApplied
    <2>1. upd[u].msg \in Message
      BY TypeParts, UpdFields DEF ThreadsOK
    <2> QED
      BY <2>1 DEF PrereqInv, Passed
  <1> QED
    BY <1>1, <1>2, <1>3, PTL DEF Spec

==============================================================================
