--------------------------- MODULE RecordEffectProofs ---------------------------
(* Proofs about what one RR of an update does (RecordUpdate): its effect on   *)
(* the zone, and what it may touch.                                           *)
EXTENDS RecordUpdateProofs

------------------------------------------------------------------------------
(* What is known of a thread at each step.                                   *)

RrAt(q) == q.msg.ups[q.i]
TableAt(q) == IF DeletesAll(RrAt(q)) THEN Tables[q.t] ELSE TableOf(RrAt(q).type)

\* Rows an RR is about in a zone that held S when it began.
Target(S, rr, r) ==
    /\ r.name = Taken(S, TableOf(r.type), rr.name)
    /\ r.type = rr.type \/ (DeletesAll(rr) /\ r.type \in UpdateTypes)
    /\ rr.class # "ANY" => r.data = rr.data

\* The key manages what the RR is about, unless each row is still to be asked for.
Allowed(q) ==
    /\ q.t \in 1 .. Len(Tables)
    /\ q.pc \in {"idle", "prereq", "next"} => q.t = 1
    /\ q.pc \in Busy => DeletesAll(RrAt(q)) \/ can_manage(q.msg.key, RrAt(q).type, RrAt(q).name)
    /\ q.pc = "delete" => RrAt(q).class # "IN"

\* What find_records brought is among the rows R, and what the RR is about.
Read(q, R) ==
    LET rr == RrAt(q)
    IN /\ q.pc = "fetch" => q.search = Taken(q.base, TableAt(q), rr.name)
       /\ q.pc \in {"save", "delete"} =>
             \A r \in q.found :
                r \in R /\ Target(q.base, rr, r) /\ TableOf(r.type) = TableAt(q)

\* An addition has changed nothing yet, and was not refused.
Adding(q, R) ==
    /\ Contents(R) = q.base
    /\ q.pc # "check" => ~Refused(q.base, RrAt(q))

\* What x is in is still to come for a deletion of all RRsets that is at table t.
ToCome(t, x) == \E k \in t .. Len(Tables) : Tables[k] = TableOf(x.type)

\* A deletion has deleted nothing else, finished the tables before t, not begun
\* those after it, and has found what it is to delete in table t.
Deleting(q, R) ==
    LET rr == RrAt(q)
    IN /\ q.base \ About(q.base, rr) \subseteq Contents(R) /\ Contents(R) \subseteq q.base
       /\ DeletesAll(rr) =>
             /\ \A r \in R : Target(q.base, rr, r) => ToCome(q.t, r)
             /\ \A x \in q.base : ToCome(q.t + 1, x) => x \in Contents(R)
       /\ q.pc \in {"count", "fetch"} =>
             \A x \in q.base : TableOf(x.type) = TableAt(q) => x \in Contents(R)
       /\ q.pc = "delete" =>
             \A r \in R : Target(q.base, rr, r) /\ TableOf(r.type) = TableAt(q) => r \in q.found

Going(q, R) == IF RrAt(q).class = "IN" THEN Adding(q, R) ELSE Deleting(q, R)

Done(q, R) ==
    LET rr == q.msg.ups[q.i - 1]
    IN q.i > 1 => /\ Contents(R) \in Effects(q.base, rr)
                  /\ Plain(q.base, rr) => Contents(R) = Applied(q.base, rr)

\* A thread in state q, with rows R, alone since its RR began if ok.
RrOK(q, R, ok) ==
    /\ Allowed(q)
    /\ ok /\ q.pc \in Busy => Read(q, R) /\ Going(q, R)
    /\ ok /\ q.pc = "next" => Done(q, R)
RrInv == \A u \in Updaters : RrOK(upd[u], rows, clean[u])

------------------------------------------------------------------------------
(* Rows and their contents, tables.                                          *)

LEMMA ContentIs ==
    ASSUME NEW r \in Row
    PROVE  /\ Content(r).name = r.name /\ Content(r).type = r.type /\ Content(r).data = r.data
           /\ Content(r) \in Entry
  BY DEF Row, Entry, Content

LEMMA RowsTyped == ASSUME TypeInv PROVE \A r \in rows : r \in Row
  BY TypeParts DEF RowsOK

LEMMA ContentsOf == \A S : \A x : x \in Contents(S) <=> \E r \in S : x = Content(r)
  BY DEF Contents

LEMMA ContentsMore ==
    ASSUME NEW S, NEW r
    PROVE  Contents(S \cup {r}) = Contents(S) \cup {Content(r)}
  BY DEF Contents

\* A row that is found is the only one with its id.
LEMMA OnlyRow ==
    ASSUME TypeInv, NEW r \in rows
    PROVE  \A s \in rows : s.id = r.id <=> s = r
  BY TypeParts DEF RowsOK

\* A row is a target if its content is among what the RR is about.
LEMMA TargetAbout ==
    ASSUME NEW S, NEW rr, NEW r \in Row, Content(r) \in S
    PROVE  Content(r) \in About(S, rr) <=> Target(S, rr, r)
  BY ContentIs DEF About, Target

LEMMA SameEntry ==
    ASSUME NEW x \in Entry, NEW y \in Entry,
           x.name = y.name, x.type = y.type, x.data = y.data
    PROVE  x = y
  BY DEF Entry

LEMMA TableFacts ==
    /\ Len(Tables) = 4 /\ Tables[1] = "address" /\ Tables[2] = "TXT"
    /\ Tables[3] = "CNAME" /\ Tables[4] = "DHCID"
  BY DEF Tables

\* The tables are different, and hold what updates may delete.
LEMMA TablesApart ==
    \A j, k \in 1 .. Len(Tables) : Tables[j] = Tables[k] => j = k
  BY TableFacts

LEMMA TableTypes ==
    ASSUME NEW t \in Types
    PROVE  t \in UpdateTypes <=> \E k \in 1 .. Len(Tables) : Tables[k] = TableOf(t)
  <1>1. ASSUME t \in UpdateTypes PROVE \E k \in 1 .. Len(Tables) : Tables[k] = TableOf(t)
    <2>1. TableOf(t) \in {"address", "TXT", "CNAME", "DHCID"}
      BY <1>1 DEF TableOf, UpdateTypes
    <2>2. 1 \in 1 .. 4 /\ 2 \in 1 .. 4 /\ 3 \in 1 .. 4 /\ 4 \in 1 .. 4
      OBVIOUS
    <2> QED
      BY <2>1, <2>2, TableFacts
  <1>2. ASSUME t \notin UpdateTypes, NEW k \in 1 .. Len(Tables), Tables[k] = TableOf(t) PROVE FALSE
    <2>1. TableOf(t) \in {"SSHFP", "DNSKEY"}
      BY <1>2 DEF Types, UpdateTypes, TableOf
    <2>2. k \in {1, 2, 3, 4}
      BY TableFacts
    <2> QED
      BY <1>2, <2>1, <2>2, TableFacts
  <1> QED
    BY <1>1, <1>2

\* The RR a busy thread handles.
LEMMA RrNow ==
    ASSUME TypeInv, NEW u \in Updaters, upd[u].i <= Len(upd[u].msg.ups)
    PROVE  /\ RrAt(upd[u]) = rrOf(u) /\ TableAt(upd[u]) = TableNow(u)
           /\ rrOf(u) \in Rr /\ WellFormed(rrOf(u))
           /\ rrOf(u).name \in Names /\ rrOf(u).data \in Data
           /\ rrOf(u).class # "ANY" => rrOf(u).type \in UpdateTypes
           /\ upd[u].base \in SUBSET Entry
  <1>1. upd[u].msg \in Message /\ upd[u].i \in Nat /\ upd[u].i >= 1
    BY DEF TypeInv, TypeOK, RrGoing, Upd
  <1>2. /\ upd[u].msg.ups \in Seq(Rr)
        /\ \A i \in 1 .. Len(upd[u].msg.ups) : WellFormed(upd[u].msg.ups[i])
    BY <1>1 DEF Message
  <1>3. upd[u].i \in 1 .. Len(upd[u].msg.ups)
    BY <1>1, <1>2
  <1>4. rrOf(u) \in Rr /\ WellFormed(rrOf(u))
    BY <1>2, <1>3 DEF rrOf
  <1>5. RrAt(upd[u]) = rrOf(u) /\ TableAt(upd[u]) = TableNow(u)
    BY DEF RrAt, TableAt, TableNow, rrOf
  <1>6. upd[u].base \in SUBSET Entry
    BY ThreadRecord, UpdFields
  <1> QED
    BY <1>4, <1>5, <1>6 DEF Rr, WellFormed

LEMMA NoName == "" \notin Names
  BY NamesAssumption DEF Names

\* Where the code follows the RFC, an RR can only do what the RFC says.
LEMMA PlainEffects ==
    ASSUME NEW rr \in Rr, WellFormed(rr), NEW S \in SUBSET Entry, Plain(S, rr),
           NEW E \in Effects(S, rr)
    PROVE  E = Applied(S, rr)
  <1> DEFINE c == ContentOf(rr)
  <1>1. rr.name \in Hosts /\ rr.name # "@" /\ rr.name # "*" /\ rr.name # ""
    BY NamesAssumption DEF Plain
  <1>2. \A x \in S : x.name # "*" /\ x.type \in Types /\ x \in Entry
    BY DEF Plain, Entry
  <1>3. \A x \in S : x.name = Taken(S, TableOf(x.type), rr.name) <=> x.name = rr.name
    BY <1>1, <1>2 DEF Taken
  <1>4. About(S, rr) = {x \in S : /\ x.name = rr.name
                                  /\ x.type = rr.type \/ (DeletesAll(rr) /\ x.type \in UpdateTypes)
                                  /\ rr.class # "ANY" => x.data = rr.data}
    BY <1>3 DEF About
  <1>5. c.name = rr.name /\ c.type = rr.type /\ c.data = rr.data
    BY DEF ContentOf
  <1>6. ASSUME rr.class # "ANY"
        PROVE  /\ c \in Entry
               /\ \A x \in S : x \in About(S, rr) <=> x = c
    <2>1. rr.type \in UpdateTypes /\ ~DeletesAll(rr)
      BY <1>6 DEF WellFormed, DeletesAll
    <2>2. c \in Entry
      BY <1>1, <2>1 DEF ContentOf, Entry, Rr, Names, Types
    <2>3. \A x \in S : x \in About(S, rr) <=>
                          x.name = rr.name /\ x.type = rr.type /\ x.data = rr.data
      BY <1>4, <1>6, <2>1
    <2> HIDE DEF c
    <2> QED
      BY <1>2, <1>5, <2>2, <2>3, SameEntry
  <1>7. CASE rr.class = "IN"
    <2>1. Applied(S, rr) = IF \E x \in S : x.name = rr.name /\ ~(x.type = "CNAME" <=> rr.type = "CNAME")
                           THEN S ELSE S \cup {c}
      BY <1>7 DEF Applied
    <2>2. Refused(S, rr) <=>
             \E x \in S : x.name = rr.name /\ ~(x.type = "CNAME" <=> rr.type = "CNAME")
      <3>1. CASE rr.type = "CNAME"
        <4>1. \A x \in S : x.name = rr.name => x.type \notin {"CNAME"} \cup Unlisted
          BY <1>7, <3>1 DEF Plain
        <4> QED
          BY <1>1, <1>2, <3>1, <4>1 DEF Refused
      <3>2. CASE rr.type # "CNAME"
        BY <1>1, <3>2 DEF Refused
      <3> QED
        BY <3>1, <3>2
    <2>a. Effects(S, rr) = IF Refused(S, rr) THEN {S}
                           ELSE {S \cup {c}, (S \ About(S, rr)) \cup {c}}
      BY <1>7 DEF Effects
    <2>3. /\ Refused(S, rr) => E = S
          /\ ~Refused(S, rr) => E = S \cup {c} \/ E = (S \ About(S, rr)) \cup {c}
      BY <2>a
    <2>4. (S \ About(S, rr)) \cup {c} = S \cup {c}
      BY <1>6, <1>7
    <2> HIDE DEF c
    <2> QED
      BY <2>1, <2>2, <2>3, <2>4
  <1>8. CASE rr.class = "NONE"
    <2>1. Applied(S, rr) = S \ {c}
      BY <1>8 DEF Applied
    <2>2. E = S \ About(S, rr)
      BY <1>8 DEF Effects
    <2> HIDE DEF c
    <2>3. \A x \in S : x \in About(S, rr) <=> x = c
      BY <1>6, <1>8
    <2> QED
      BY <2>1, <2>2, <2>3 DEF About
  <1>9. CASE rr.class = "ANY"
    <2>1. Applied(S, rr) = {x \in S : x.name # rr.name \/ (rr.type # "ANY" /\ x.type # rr.type)}
      BY <1>9 DEF Applied
    <2>2. E = S \ About(S, rr)
      BY <1>9 DEF Effects
    <2>3. \A x \in S : x.type # "ANY"
      BY <1>2 DEF Types, UpdateTypes
    <2>4. DeletesAll(rr) <=> rr.type = "ANY"
      BY <1>9 DEF DeletesAll
    <2>5. DeletesAll(rr) => \A x \in S : x.name = rr.name => x.type \in UpdateTypes
      BY DEF Plain
    <2>6. \A x \in S : x \in About(S, rr) <=>
             ~(x.name # rr.name \/ (rr.type # "ANY" /\ x.type # rr.type))
      BY <1>4, <1>9, <2>3, <2>4, <2>5
    <2> QED
      BY <2>1, <2>2, <2>6
  <1> QED
    BY <1>7, <1>8, <1>9 DEF Rr

------------------------------------------------------------------------------
(* The steps of a thread.                                                    *)

LEMMA RestRr ==
    ASSUME NEW q, NEW R, NEW ok, q.pc \in {"idle", "prereq"}, q.t = 1
    PROVE  RrOK(q, R, ok)
  <1>1. 1 \in 1 .. Len(Tables)
    BY TableFacts
  <1> QED
    BY <1>1, NotIdle DEF RrOK, Allowed

\* After an RR.
LEMMA NextRrFields ==
    ASSUME TypeInv, NEW u \in Updaters, NextRr(u)
    PROVE  /\ upd'[u].pc = "next" /\ upd'[u].t = 1
           /\ upd'[u].msg = upd[u].msg /\ upd'[u].base = upd[u].base
           /\ upd'[u].i - 1 = upd[u].i
  <1>1. upd \in [Updaters -> Upd] /\ upd[u].i \in Nat
    BY TypeParts, UpdFields DEF ThreadsOK
  <1>2. /\ upd'[u].pc = "next" /\ upd'[u].t = 1
        /\ upd'[u].msg = upd[u].msg /\ upd'[u].base = upd[u].base
        /\ upd'[u].i = upd[u].i + 1
    BY <1>1 DEF NextRr
  <1> QED
    BY <1>1, <1>2

LEMMA RrHandled ==
    ASSUME TypeInv, NEW u \in Updaters, NextRr(u), upd[u].pc \in Busy, NEW R, NEW ok,
           ok => Contents(R) \in Effects(upd[u].base, rrOf(u))
    PROVE  RrOK(upd'[u], R, ok)
  <1>1. upd'[u].msg.ups[upd'[u].i - 1] = rrOf(u) /\ upd'[u].base = upd[u].base
    BY NextRrFields DEF rrOf
  <1>2. upd'[u].pc = "next" /\ upd'[u].t = 1 /\ 1 \in 1 .. Len(Tables)
    BY NextRrFields, TableFacts
  <1>3. rrOf(u) \in Rr /\ WellFormed(rrOf(u)) /\ upd[u].base \in SUBSET Entry
    BY BusyRr, RrNow
  <1>4. ok /\ Plain(upd[u].base, rrOf(u)) => Contents(R) = Applied(upd[u].base, rrOf(u))
    BY <1>3, PlainEffects
  <1>5. ok => Done(upd'[u], R)
    BY <1>1, <1>4 DEF Done
  <1> QED
    BY <1>2, <1>5, NotIdle DEF RrOK, Allowed

LEMMA AnswerRr ==
    ASSUME TypeInv, NEW u \in Updaters, Answer(u), NEW R, NEW ok
    PROVE  RrOK(upd'[u], R, ok)
  <1>1. Resting.pc = "idle" /\ Resting.t = 1
    BY DEF Resting
  <1>2. upd'[u] = Resting
    BY ThreadRecord
  <1> QED
    BY <1>1, <1>2, RestRr

LEMMA ReceiveRr ==
    ASSUME TypeInv, NEW u \in Updaters, NEW m \in Messages, receive_update(u, m)
    PROVE  RrOK(upd'[u], rows', clean'[u])
  <1> DEFINE x == [Resting EXCEPT !.pc = "prereq", !.msg = m]
  <1>1. upd \in [Updaters -> Upd]
    BY TypeParts DEF ThreadsOK
  <1>2. x.pc = "prereq" /\ x.t = 1
    BY DEF Resting
  <1>3. upd' = [upd EXCEPT ![u] = x]
    BY DEF receive_update
  <1> HIDE DEF x
  <1>4. upd'[u].pc = "prereq" /\ upd'[u].t = 1
    BY <1>1, <1>2, <1>3
  <1> QED
    BY <1>4, RestRr

LEMMA PrereqRr ==
    ASSUME TypeInv, NEW u \in Updaters, check_prereq(u), RrOK(upd[u], rows, clean[u])
    PROVE  RrOK(upd'[u], rows', clean'[u])
  <1>1. upd \in [Updaters -> Upd] /\ upd[u] \in Upd /\ upd[u].pc = "prereq" /\ upd[u].t = 1
    BY TypeParts DEF ThreadsOK, check_prereq, RrOK, Allowed
  <1>2. CASE Answer(u)
    BY <1>2, AnswerRr
  <1>3. CASE upd' = [upd EXCEPT ![u].i = @ + 1]
    <2>1. upd'[u].pc = "prereq" /\ upd'[u].t = 1
      BY <1>1, <1>3 DEF Upd
    <2> QED
      BY <2>1, RestRr
  <1>4. CASE upd' = [upd EXCEPT ![u].pc = "next", ![u].i = 1]
    <2>1. upd'[u].pc = "next" /\ upd'[u].t = 1 /\ upd'[u].i = 1
      BY <1>1, <1>4 DEF Upd
    <2>a. 1 \in 1 .. Len(Tables)
      BY TableFacts
    <2>2. ~(upd'[u].i > 1)
      BY <2>1
    <2>3. Done(upd'[u], rows')
      BY <2>2 DEF Done
    <2> QED
      BY <2>1, <2>a, <2>3, NotIdle DEF RrOK, Allowed
  <1> QED
    BY <1>2, <1>3, <1>4 DEF check_prereq

\* A deletion has everything before it.
LEMMA DeletionStarts ==
    ASSUME TypeInv, NEW q, RrAt(q) \in Rr, WellFormed(RrAt(q)), RrAt(q).class # "IN",
           q.base = Contents(rows), q.t = 1, q.pc = "count"
    PROVE  Deleting(q, rows)
  <1>1. ASSUME NEW r \in rows, DeletesAll(RrAt(q)), Target(q.base, RrAt(q), r)
        PROVE  ToCome(q.t, r)
    <2>1. r.type \in Types /\ r.type # "ANY"
      BY RowsTyped DEF Row, Types, UpdateTypes
    <2>2. r.type \in UpdateTypes
      BY <1>1, <2>1 DEF Target, DeletesAll
    <2> QED
      BY <2>1, <2>2, TableTypes DEF ToCome
  <1> QED
    BY <1>1 DEF Deleting

LEMMA NextRrStarts ==
    ASSUME TypeInv, NEW u \in Updaters, next_rr(u), RrOK(upd[u], rows, clean[u])
    PROVE  RrOK(upd'[u], rows', clean'[u])
  <1>1. /\ upd \in [Updaters -> Upd] /\ upd[u] \in Upd /\ rows' = rows
        /\ upd[u].pc = "next" /\ upd[u].t = 1 /\ upd[u].i <= Len(upd[u].msg.ups)
    BY TypeParts DEF ThreadsOK, next_rr, RrOK, Allowed
  <1>2. CASE Answer(u)
    BY <1>2, AnswerRr
  <1>3. CASE /\ DeletesAll(rrOf(u)) \/ can_manage(upd[u].msg.key, rrOf(u).type, rrOf(u).name)
             /\ upd' = [upd EXCEPT ![u].pc = IF rrOf(u).class = "IN" THEN "check" ELSE "count",
                                   ![u].base = Contents(rows)]
    <2>1. /\ upd'[u].pc = (IF rrOf(u).class = "IN" THEN "check" ELSE "count")
          /\ upd'[u].base = Contents(rows)
          /\ upd'[u].msg = upd[u].msg /\ upd'[u].i = upd[u].i /\ upd'[u].t = 1
      BY <1>1, <1>3 DEF Upd
    <2>2. RrAt(upd'[u]) = rrOf(u) /\ RrAt(upd[u]) = rrOf(u)
      BY <2>1 DEF RrAt, rrOf
    <2>3. rrOf(u) \in Rr /\ WellFormed(rrOf(u))
      BY <1>1, RrNow
    <2>4. Allowed(upd'[u])
      BY <1>3, <2>1, <2>2, TableFacts DEF Allowed
    <2>5. Read(upd'[u], rows)
      BY <2>1 DEF Read
    <2>6. Going(upd'[u], rows)
      <3>1. CASE rrOf(u).class = "IN"
        BY <2>1, <2>2, <3>1 DEF Going, Adding
      <3>2. CASE rrOf(u).class # "IN"
        <4>1. Deleting(upd'[u], rows)
          BY <2>1, <2>2, <2>3, <3>2, DeletionStarts
        <4> QED
          BY <2>2, <3>2, <4>1 DEF Going
      <3> QED
        BY <3>1, <3>2
    <2>7. upd'[u].pc # "next"
      BY <2>1
    <2> QED
      BY <1>1, <2>4, <2>5, <2>6, <2>7 DEF RrOK
  <1> QED
    BY <1>1, <1>2, <1>3 DEF next_rr

\* _try_update ignores an addition exactly if the zone refuses it.
Ignored(rr) ==
    IF rr.type = "CNAME" THEN LabelOf(rr) # "" /\ any_records(LabelOf(rr), FALSE)
    ELSE any_record_type(LabelOf(rr), "CNAME")

LEMMA IgnoredRefused ==
    ASSUME TypeInv, NEW rr \in Rr
    PROVE  Ignored(rr) <=> Refused(Contents(rows), rr)
  <1>1. /\ \A r \in rows : r.name # ""
        /\ rr.name # "@" => rr.name # "" /\ LabelOf(rr) = rr.name
        /\ rr.name = "@" => LabelOf(rr) = ""
    BY RowsTyped, NoName DEF Row, Rr, LabelOf
  <1>2. \A r \in rows : Content(r).name = r.name /\ Content(r).type = r.type
    BY RowsTyped, ContentIs
  <1>3. CASE rr.type = "CNAME"
    <2>1. Ignored(rr) <=> rr.name # "@" /\ any_records(rr.name, FALSE)
      BY <1>1, <1>3 DEF Ignored
    <2>2. any_records(rr.name, FALSE) <=>
             \E r \in rows : r.name \in {rr.name, "*"} /\ r.type \notin {"CNAME"} \cup Unlisted
      BY DEF any_records
    <2>3. Refused(Contents(rows), rr) <=>
             /\ rr.name # "@"
             /\ \E x \in Contents(rows) : x.name \in {rr.name, "*"} /\ x.type \notin {"CNAME"} \cup Unlisted
      BY <1>3 DEF Refused
    <2>4. (\E x \in Contents(rows) : x.name \in {rr.name, "*"} /\ x.type \notin {"CNAME"} \cup Unlisted)
          <=> \E r \in rows : r.name \in {rr.name, "*"} /\ r.type \notin {"CNAME"} \cup Unlisted
      BY <1>2, ContentsOf
    <2> QED
      BY <2>1, <2>2, <2>3, <2>4
  <1>4. CASE rr.type # "CNAME"
    <2>1. Ignored(rr) <=> RowsOf("CNAME", LabelOf(rr)) # {}
      BY <1>4 DEF Ignored, any_record_type, Unlisted
    <2>2. \A r \in rows : TableOf(r.type) = "CNAME" <=> r.type = "CNAME"
      BY DEF TableOf
    <2>3. RowsOf("CNAME", LabelOf(rr)) # {} <=>
             \E r \in rows : r.name = LabelOf(rr) /\ r.type = "CNAME"
      BY <2>2 DEF RowsOf
    <2>4. Refused(Contents(rows), rr) <=>
             rr.name # "@" /\ \E x \in Contents(rows) : x.name = rr.name /\ x.type = "CNAME"
      BY <1>4 DEF Refused
    <2>5. (\E x \in Contents(rows) : x.name = rr.name /\ x.type = "CNAME") <=>
             \E r \in rows : r.name = rr.name /\ r.type = "CNAME"
      BY <1>2, ContentsOf
    <2> QED
      BY <1>1, <2>1, <2>3, <2>4, <2>5
  <1> QED
    BY <1>3, <1>4

LEMMA TryRr ==
    ASSUME TypeInv, NEW u \in Updaters, try_update(u), RrOK(upd[u], rows, clean[u])
    PROVE  RrOK(upd'[u], rows', clean'[u])
  <1> DEFINE q == upd[u]
             rr == rrOf(u)
  <1>1. /\ upd[u].pc = "check" /\ upd[u].pc \in Busy /\ rows' = rows /\ clean' = clean
        /\ RrAt(q) = rr
        /\ IF Ignored(rr) THEN NextRr(u) ELSE Goto(u, "count")
    BY DEF try_update, Ignored, historyVars, RrAt, rrOf, Busy
  <1>2. rr \in Rr /\ rr.class = "IN"
    BY <1>1, BusyRr DEF TypeInv, RrGoing
  <1>3. ASSUME clean[u] PROVE Contents(rows) = q.base /\ (Ignored(rr) <=> Refused(q.base, rr))
    <2>1. Contents(rows) = q.base
      BY <1>1, <1>2, <1>3 DEF RrOK, Going, Adding
    <2> QED
      BY <1>2, <2>1, IgnoredRefused
  <1>4. CASE Ignored(rr)
    <2> HIDE DEF rr, q
    <2>1. clean[u] => Contents(rows) \in Effects(q.base, rr)
      BY <1>2, <1>3, <1>4 DEF Effects
    <2> QED
      BY <1>1, <1>4, <2>1, RrHandled DEF rr, q
  <1>5. CASE ~Ignored(rr)
    <2>0. upd \in [Updaters -> Upd] /\ upd[u] \in Upd
      BY ThreadRecord
    <2>1. /\ upd'[u].pc = "count" /\ upd'[u].msg = q.msg /\ upd'[u].i = q.i
          /\ upd'[u].base = q.base /\ upd'[u].t = q.t
      BY <1>1, <1>5, <2>0 DEF Goto, Upd
    <2>2. RrAt(upd'[u]) = rr
      BY <1>1, <2>1 DEF RrAt
    <2>3. (DeletesAll(rr) \/ can_manage(q.msg.key, rr.type, rr.name)) /\ q.t \in 1 .. Len(Tables)
      BY <1>1 DEF RrOK, Allowed
    <2> HIDE DEF q, rr
    <2>4. Allowed(upd'[u])
      BY <2>1, <2>2, <2>3 DEF Allowed
    <2>5. Read(upd'[u], rows)
      BY <2>1 DEF Read
    <2>6. ASSUME clean[u] PROVE Going(upd'[u], rows)
      BY <1>2, <1>3, <1>5, <2>1, <2>2, <2>6 DEF Going, Adding
    <2> QED
      BY <1>1, <2>1, <2>2, <2>4, <2>5, <2>6 DEF RrOK
  <1> QED
    BY <1>4, <1>5

\* A thread that stays at its RR: what has to be shown.
LEMMA SameRrKept ==
    ASSUME TypeInv, NEW u \in Updaters, RrOK(upd[u], rows, clean[u]), upd[u].pc \in Busy,
           NEW q, q.pc \in Busy, q.msg = upd[u].msg, q.i = upd[u].i,
           q.t \in 1 .. Len(Tables),
           q.pc = "delete" => rrOf(u).class # "IN",
           NEW R, NEW ok \in BOOLEAN,
           ok => Read(q, R) /\ Going(q, R)
    PROVE  RrOK(q, R, ok)
  <1>1. RrAt(q) = rrOf(u) /\ RrAt(upd[u]) = rrOf(u)
    BY DEF RrAt, rrOf
  <1>2. DeletesAll(RrAt(q)) \/ can_manage(q.msg.key, RrAt(q).type, RrAt(q).name)
    BY <1>1 DEF RrOK, Allowed
  <1>3. Allowed(q)
    BY <1>1, <1>2, NotIdle DEF Allowed
  <1> QED
    BY <1>3, NotIdle DEF RrOK

\* The count sees the rows the RR began with, in the table it is about to search.
LEMMA CountTaken ==
    ASSUME TypeInv, NEW u \in Updaters, upd[u].pc = "count", Going(upd[u], rows)
    PROVE  (IF LabelOf(rrOf(u)) = "" THEN "" ELSE SearchName(TableNow(u), LabelOf(rrOf(u))))
              = Taken(upd[u].base, TableNow(u), rrOf(u).name)
  <1> DEFINE rr == rrOf(u)
             q == upd[u]
             T == TableNow(u)
  <1>1. /\ rr.name \in Names /\ RrAt(q) = rr /\ TableAt(q) = T
    BY BusyRr, RrNow DEF Busy
  <1>2. /\ rr.name = "@" => LabelOf(rr) = ""
        /\ rr.name # "@" => LabelOf(rr) = rr.name /\ rr.name # ""
    BY <1>1, NoName DEF LabelOf
  <1> HIDE DEF rr, q, T
  <1>3. /\ Contents(rows) \subseteq q.base
        /\ \A x \in q.base : TableOf(x.type) = T => x \in Contents(rows)
    <2>1. CASE rr.class = "IN"
      BY <1>1, <2>1 DEF Going, Adding, q
    <2>2. CASE rr.class # "IN"
      BY <1>1, <2>2 DEF Going, Deleting, q
    <2> QED
      BY <2>1, <2>2
  <1>4. \A r \in rows : Content(r).name = r.name /\ Content(r).type = r.type
    BY RowsTyped, ContentIs
  <1>5. (\E r \in rows : r.name = rr.name /\ TableOf(r.type) = T) <=>
           \E x \in q.base : x.name = rr.name /\ TableOf(x.type) = T
    <2>1. ASSUME NEW r \in rows, r.name = rr.name, TableOf(r.type) = T
          PROVE  \E x \in q.base : x.name = rr.name /\ TableOf(x.type) = T
      <3>1. Content(r) \in q.base
        BY <1>3, ContentsOf
      <3> QED
        BY <1>4, <2>1, <3>1
    <2>2. ASSUME NEW x \in q.base, x.name = rr.name, TableOf(x.type) = T
          PROVE  \E r \in rows : r.name = rr.name /\ TableOf(r.type) = T
      <3>1. PICK r \in rows : x = Content(r)
        BY <1>3, <2>2, ContentsOf
      <3> QED
        BY <1>4, <2>2, <3>1
    <2> QED
      BY <2>1, <2>2
  <1>6. (IF LabelOf(rr) = "" THEN "" ELSE SearchName(T, LabelOf(rr))) = Taken(q.base, T, rr.name)
    BY <1>2, <1>5 DEF SearchName, Taken
  <1> QED
    BY <1>6 DEF rr, q, T

LEMMA CountRr ==
    ASSUME TypeInv, NEW u \in Updaters, find_records_count(u), RrOK(upd[u], rows, clean[u])
    PROVE  RrOK(upd'[u], rows', clean'[u])
  <1> DEFINE rr == rrOf(u)
             n == LabelOf(rr)
             s == IF n = "" THEN "" ELSE SearchName(TableNow(u), n)
  <1>1. /\ upd[u].pc = "count" /\ upd[u].pc \in Busy /\ rows' = rows /\ clean' = clean
        /\ upd' = [upd EXCEPT ![u].pc = "fetch", ![u].search = s]
    BY DEF find_records_count, historyVars, Busy
  <1>2. upd \in [Updaters -> Upd] /\ upd[u] \in Upd /\ clean[u] \in BOOLEAN
    BY TypeParts, ThreadRecord DEF HistoryOK, Actors
  <1>3. ASSUME clean[u]
        PROVE  Going(upd[u], rows) /\ s = Taken(upd[u].base, TableNow(u), rr.name)
    <2>1. Going(upd[u], rows)
      BY <1>1, <1>3 DEF RrOK
    <2> QED
      BY <1>1, <2>1, CountTaken
  <1> HIDE DEF s
  <1>4. /\ upd'[u].pc = "fetch" /\ upd'[u].msg = upd[u].msg /\ upd'[u].i = upd[u].i
        /\ upd'[u].base = upd[u].base /\ upd'[u].search = s /\ upd'[u].t = upd[u].t
    BY <1>1, <1>2 DEF Upd
  <1>5. /\ RrAt(upd'[u]) = rr /\ RrAt(upd[u]) = rr
        /\ TableAt(upd'[u]) = TableNow(u) /\ TableAt(upd[u]) = TableNow(u)
    BY <1>4 DEF RrAt, rrOf, TableAt, TableNow
  <1> HIDE DEF rr
  <1>6. ASSUME clean[u] PROVE Read(upd'[u], rows)
    BY <1>3, <1>4, <1>5, <1>6 DEF Read
  <1>7. ASSUME clean[u] PROVE Going(upd'[u], rows)
    <2>1. CASE rr.class = "IN"
      BY <1>1, <1>3, <1>4, <1>5, <1>7, <2>1 DEF Going, Adding
    <2>2. CASE rr.class # "IN"
      <3>1. Deleting(upd[u], rows)
        BY <1>3, <1>5, <1>7, <2>2 DEF Going
      <3>2. Deleting(upd'[u], rows)
        BY <1>1, <1>4, <1>5, <3>1 DEF Deleting
      <3> QED
        BY <1>5, <2>2, <3>2 DEF Going
    <2> QED
      BY <2>1, <2>2
  <1>8. upd'[u].pc \in Busy /\ upd'[u].pc # "delete" /\ upd'[u].t \in 1 .. Len(Tables)
    BY <1>4 DEF Busy, RrOK, Allowed
  <1> QED
    BY <1>1, <1>2, <1>4, <1>6, <1>7, <1>8, SameRrKept

\* What the fetch takes is what the RR is about in this table.
LEMMA FetchTargets ==
    ASSUME TypeInv, NEW u \in Updaters, upd[u].pc = "fetch", Allowed(upd[u]),
           Read(upd[u], rows), NEW r \in rows
    PROVE  /\ r.name = upd[u].search /\ TableOf(r.type) = TableNow(u) /\ Concerns(rrOf(u), r)
           <=>
           /\ Target(upd[u].base, rrOf(u), r)
           /\ TableOf(r.type) = TableNow(u)
  <1> DEFINE rr == rrOf(u)
  <1>1. RrAt(upd[u]) = rr /\ TableAt(upd[u]) = TableNow(u) /\ rr \in Rr /\ WellFormed(rr)
    BY BusyRr, RrNow DEF Busy
  <1>2. upd[u].search = Taken(upd[u].base, TableNow(u), rr.name)
    BY <1>1 DEF Read
  <1>3. r.type \in Types /\ r.type # "ANY"
    BY RowsTyped DEF Row, Types, UpdateTypes
  <1>4. DeletesAll(rr) /\ TableOf(r.type) = TableNow(u) => r.type \in UpdateTypes
    <2>1. DeletesAll(rr) => TableNow(u) = Tables[upd[u].t] /\ upd[u].t \in 1 .. Len(Tables)
      BY DEF TableNow, Allowed
    <2> QED
      BY <1>3, <2>1, TableTypes
  <1> HIDE DEF rr
  <1>5. rr.class \in {"IN", "ANY", "NONE"} /\ (rr.type = "ANY" => rr.class = "ANY")
    BY <1>1 DEF Rr, WellFormed, UpdateTypes
  <1>6. ASSUME TableOf(r.type) = TableNow(u)
        PROVE  Concerns(rr, r) <=> /\ r.type = rr.type \/ (DeletesAll(rr) /\ r.type \in UpdateTypes)
                                   /\ rr.class # "ANY" => r.data = rr.data
    <2>1. CASE DeletesAll(rr)
      BY <1>4, <1>6, <2>1 DEF Concerns, DeletesAll
    <2>2. CASE ~DeletesAll(rr)
      BY <2>2 DEF Concerns
    <2> QED
      BY <2>1, <2>2
  <1>7. /\ r.name = upd[u].search /\ TableOf(r.type) = TableNow(u) /\ Concerns(rr, r)
        <=> Target(upd[u].base, rr, r) /\ TableOf(r.type) = TableNow(u)
    BY <1>2, <1>6 DEF Target
  <1> QED
    BY <1>7 DEF rr

LEMMA FetchRr ==
    ASSUME TypeInv, NEW u \in Updaters, find_records_fetch(u), RrOK(upd[u], rows, clean[u])
    PROVE  RrOK(upd'[u], rows', clean'[u])
  <1> DEFINE rr == rrOf(u)
             pc == IF rr.class = "IN" THEN "save" ELSE "delete"
             S == {r \in RowsOf(TableNow(u), upd[u].search) : Concerns(rr, r)}
  <1>1. /\ upd[u].pc = "fetch" /\ upd[u].pc \in Busy /\ rows' = rows /\ clean' = clean
        /\ upd' = [upd EXCEPT ![u].pc = pc, ![u].found = S]
    BY DEF find_records_fetch, historyVars, Busy
  <1>2. upd \in [Updaters -> Upd] /\ upd[u] \in Upd /\ clean[u] \in BOOLEAN
    BY TypeParts, ThreadRecord DEF HistoryOK, Actors
  <1>c. \A r : r \in S <=> /\ r \in rows /\ r.name = upd[u].search
                           /\ TableOf(r.type) = TableNow(u) /\ Concerns(rr, r)
    BY DEF S, RowsOf
  <1>d. Allowed(upd[u]) /\ (clean[u] => Read(upd[u], rows) /\ Going(upd[u], rows))
    BY <1>1 DEF RrOK
  <1>e. ASSUME clean[u]
        PROVE  \A r : r \in S <=> /\ r \in rows /\ Target(upd[u].base, rr, r)
                                  /\ TableOf(r.type) = TableNow(u)
    <2>1. ASSUME NEW r \in rows
          PROVE  r \in S <=> Target(upd[u].base, rr, r) /\ TableOf(r.type) = TableNow(u)
      BY <1>1, <1>c, <1>d, <1>e, FetchTargets
    <2> QED
      BY <1>c, <2>1
  <1>a. pc = (IF rr.class = "IN" THEN "save" ELSE "delete")
    BY DEF pc
  <1>b. pc \in {"save", "delete"} /\ (pc = "delete" <=> rr.class # "IN") /\ pc \in Busy
    BY <1>a DEF Busy
  <1> HIDE DEF S, pc
  <1>3. /\ upd'[u].pc = pc /\ upd'[u].msg = upd[u].msg /\ upd'[u].i = upd[u].i
        /\ upd'[u].base = upd[u].base /\ upd'[u].found = S /\ upd'[u].t = upd[u].t
    BY <1>1, <1>2 DEF Upd
  <1>4. /\ RrAt(upd'[u]) = rr /\ RrAt(upd[u]) = rr
        /\ TableAt(upd'[u]) = TableNow(u) /\ TableAt(upd[u]) = TableNow(u)
    BY <1>3 DEF RrAt, rrOf, TableAt, TableNow
  <1> HIDE DEF rr
  <1>5. ASSUME clean[u] PROVE Read(upd'[u], rows)
    BY <1>3, <1>4, <1>5, <1>b, <1>e DEF Read
  <1>6. ASSUME clean[u] PROVE Going(upd'[u], rows)
    <2>1. CASE rr.class = "IN"
      BY <1>1, <1>3, <1>4, <1>6, <1>d, <2>1 DEF Going, Adding
    <2>2. CASE rr.class # "IN"
      <3>1. Deleting(upd[u], rows) /\ upd'[u].pc = "delete"
        BY <1>3, <1>4, <1>6, <1>b, <1>d, <2>2 DEF Going
      <3>2. \A r \in rows : Target(upd[u].base, rr, r) /\ TableOf(r.type) = TableNow(u) => r \in S
        BY <1>6, <1>e
      <3>3. Deleting(upd'[u], rows)
        BY <1>3, <1>4, <3>1, <3>2 DEF Deleting
      <3> QED
        BY <1>4, <2>2, <3>3 DEF Going
    <2> QED
      BY <2>1, <2>2
  <1>7. /\ upd'[u].pc \in Busy /\ (upd'[u].pc = "delete" => rrOf(u).class # "IN")
        /\ upd'[u].t \in 1 .. Len(Tables)
    BY <1>3, <1>b, <1>d DEF rr, Allowed
  <1> QED
    BY <1>1, <1>2, <1>3, <1>5, <1>6, <1>7, SameRrKept

\* A row that takes the name of the RR takes what it said away, unless another row
\* says the same.
LEMMA RenamedContents ==
    ASSUME TypeInv, NEW r \in rows, NEW q, q.id = r.id
    PROVE  LET S == (Contents(rows) \ {Content(r)}) \cup {Content(q)}
           IN Contents(Saved(q)) \in {S, Contents(rows) \cup {Content(q)}}
  <1>1. Saved(q) = (rows \ {r}) \cup {q}
    BY OnlyRow DEF Saved
  <1>2. Contents(Saved(q)) = Contents(rows \ {r}) \cup {Content(q)}
    BY <1>1, ContentsMore
  <1>3. Contents(rows \ {r}) \in {Contents(rows) \ {Content(r)}, Contents(rows)}
    <2>1. CASE \E s \in rows \ {r} : Content(s) = Content(r)
      <3>1. Contents(rows \ {r}) = Contents(rows)
        BY <2>1 DEF Contents
      <3> QED
        BY <3>1
    <2>2. CASE ~\E s \in rows \ {r} : Content(s) = Content(r)
      <3>1. Contents(rows \ {r}) = Contents(rows) \ {Content(r)}
        BY <2>2 DEF Contents
      <3> QED
        BY <3>1
    <2> QED
      BY <2>1, <2>2
  <1> QED
    BY <1>2, <1>3

LEMMA SaveRr ==
    ASSUME TypeInv, NEW u \in Updaters, save_rr(u), RrOK(upd[u], rows, clean[u])
    PROVE  RrOK(upd'[u], rows', clean'[u])
  <1> DEFINE rr == rrOf(u)
             S == upd[u].base
  <1>1. upd[u].pc = "save" /\ upd[u].pc \in Busy /\ NextRr(u)
    BY DEF save_rr, Busy
  <1>2. /\ rr \in Rr /\ rr.class = "IN" /\ RrAt(upd[u]) = rr
        /\ rr.name \in Names /\ rr.type \in UpdateTypes /\ rr.data \in Data
    BY <1>1, BusyRr, RrNow DEF TypeInv, RrGoing
  <1>a. ~DeletesAll(rr) /\ ContentOf(rr) \in Entry
    BY <1>2 DEF DeletesAll, ContentOf, Entry, Types
  <1>b. /\ ContentOf(rr).name = rr.name /\ ContentOf(rr).type = rr.type
        /\ ContentOf(rr).data = rr.data
    BY DEF ContentOf
  <1> HIDE DEF rr
  <1>3. ASSUME clean'[u] PROVE Contents(rows') \in Effects(S, rr)
    <2>1. clean[u]
      <3>1. \E T, excused : Write(u, T, excused)
        BY DEF save_rr
      <3>2. u \in Actors
        BY DEF Actors
      <3> QED
        BY <1>3, <3>1, <3>2 DEF Write
    <2>2. Read(upd[u], rows) /\ Going(upd[u], rows)
      BY <1>1, <2>1 DEF RrOK
    <2>3. Contents(rows) = S /\ ~Refused(S, rr)
      BY <1>1, <1>2, <2>2 DEF Going, Adding
    <2>4. Effects(S, rr) = {S \cup {ContentOf(rr)}, (S \ About(S, rr)) \cup {ContentOf(rr)}}
      BY <1>2, <2>3 DEF Effects
    <2>5. CASE Write(u, rows \cup {NewRow(rr)}, Unseen(rr))
      <3>1. rows' = rows \cup {NewRow(rr)}
        BY <2>5 DEF Write
      <3>2. Content(NewRow(rr)) = ContentOf(rr)
        BY DEF Content, NewRow, ContentOf
      <3>3. Contents(rows') = S \cup {ContentOf(rr)}
        BY <2>3, <3>1, <3>2, ContentsMore
      <3> QED
        BY <2>4, <3>3
    <2>6. ASSUME NEW r \in upd[u].found,
                 Write(u, Saved([r EXCEPT !.name = rr.name]), Unseen(rr))
          PROVE  Contents(rows') \in Effects(S, rr)
      <3> DEFINE q == [r EXCEPT !.name = rr.name]
      <3>1. r \in rows /\ Target(S, rr, r)
        BY <1>1, <1>2, <2>2 DEF Read
      <3>2. r \in Row /\ Content(r) \in S
        BY <2>3, <3>1, RowsTyped, ContentsOf
      <3>3. r.type = rr.type /\ r.data = rr.data
        BY <1>2, <1>a, <3>1 DEF Target
      <3>4. /\ q.id = r.id /\ q \in Row /\ q.name = rr.name /\ q.type = rr.type
            /\ q.data = rr.data
        BY <1>2, <3>2, <3>3 DEF Row
      <3>5. rows' = Saved(q)
        BY <2>6 DEF Write
      <3> HIDE DEF q
      <3>6. Content(q) = ContentOf(rr)
        BY <3>4 DEF Content, ContentOf
      <3>7. About(S, rr) = {Content(r)}
        <4>1. Content(r) \in About(S, rr)
          BY <3>1, <3>2, TargetAbout
        <4>2. ASSUME NEW x \in About(S, rr) PROVE x = Content(r)
          <5>1. /\ x \in S /\ x.name = Taken(S, TableOf(x.type), rr.name)
                /\ x.type = rr.type /\ x.data = rr.data
            BY <1>2, <1>a, <4>2 DEF About
          <5>2. r.name = Taken(S, TableOf(rr.type), rr.name)
            BY <3>1, <3>3 DEF Target
          <5>3. /\ Content(r).name = x.name /\ Content(r).type = x.type
                /\ Content(r).data = x.data /\ Content(r) \in Entry
            BY <3>2, <3>3, <5>1, <5>2, ContentIs
          <5>4. x \in Entry
            BY <1>1, <5>1, BusyRr, RrNow
          <5> QED
            BY <5>3, <5>4, SameEntry
        <4> QED
          BY <4>1, <4>2
      <3>8. Contents(rows') \in {(S \ {Content(r)}) \cup {ContentOf(rr)}, S \cup {ContentOf(rr)}}
        <4>1. Contents(Saved(q)) \in {(Contents(rows) \ {Content(r)}) \cup {Content(q)},
                                      Contents(rows) \cup {Content(q)}}
          BY <3>1, <3>4, RenamedContents
        <4> QED
          BY <2>3, <3>5, <3>6, <4>1
      <3> QED
        BY <2>4, <3>7, <3>8
    <2> QED
      BY <2>5, <2>6 DEF save_rr, rr
  <1> QED
    BY <1>1, <1>3, RrHandled DEF rr

LEMMA DeleteRr ==
    ASSUME TypeInv, NEW u \in Updaters, NEW r \in upd[u].found, delete_rr(u, r),
           RrOK(upd[u], rows, clean[u])
    PROVE  RrOK(upd'[u], rows', clean'[u])
  <1> DEFINE rr == rrOf(u)
             S == upd[u].base
  <1>1. upd[u].pc = "delete" /\ upd[u].pc \in Busy
    BY DEF delete_rr, Busy
  <1>2. /\ upd \in [Updaters -> Upd] /\ upd[u] \in Upd /\ u \in Actors
        /\ \A a \in Actors : clean[a] \in BOOLEAN
    BY TypeParts, ThreadRecord DEF HistoryOK, Actors
  <1>3. /\ RrAt(upd[u]) = rr /\ rr.class # "IN" /\ upd[u].t \in 1 .. Len(Tables)
    BY <1>1, BusyRr, RrNow DEF RrOK, Allowed
  <1> HIDE DEF rr
  <1>4. CASE Answer(u)
    BY <1>4, AnswerRr
  <1>5. CASE /\ upd' = [upd EXCEPT ![u].found = @ \ {r}]
             /\ Write(u, {s \in rows : s.id # r.id}, FALSE)
    <2>1. /\ upd'[u].pc = "delete" /\ upd'[u].msg = upd[u].msg /\ upd'[u].i = upd[u].i
          /\ upd'[u].base = S /\ upd'[u].t = upd[u].t
          /\ upd'[u].found = upd[u].found \ {r}
      BY <1>1, <1>2, <1>5 DEF Upd
    <2>2. RrAt(upd'[u]) = rr /\ TableAt(upd'[u]) = TableAt(upd[u])
      BY <1>3, <2>1 DEF RrAt, TableAt
    <2>3. clean'[u] = clean[u] /\ rows' = {s \in rows : s.id # r.id}
      BY <1>2, <1>5 DEF Write
    <2>4. ASSUME clean[u]
          PROVE  /\ \A s \in upd[u].found : s \in rows /\ Target(S, rr, s)
                                            /\ TableOf(s.type) = TableAt(upd[u])
                 /\ \A s : s \in rows' <=> s \in rows /\ s # r
                 /\ Deleting(upd[u], rows)
      <3>1. Read(upd[u], rows) /\ Deleting(upd[u], rows)
        BY <1>1, <1>3, <2>4 DEF RrOK, Going
      <3>2. \A s \in upd[u].found : s \in rows /\ Target(S, rr, s)
                                    /\ TableOf(s.type) = TableAt(upd[u])
        BY <1>1, <1>3, <3>1 DEF Read
      <3>3. \A s : s \in rows' <=> s \in rows /\ s # r
        BY <2>3, <3>2, OnlyRow
      <3> QED
        BY <3>1, <3>2, <3>3
    <2>5. ASSUME clean[u] PROVE Read(upd'[u], rows')
      BY <2>1, <2>2, <2>4, <2>5 DEF Read
    <2>6. ASSUME clean[u] PROVE Going(upd'[u], rows')
      <3>2. S \ About(S, rr) \subseteq Contents(rows) /\ Contents(rows) \subseteq S
        BY <1>3, <2>4, <2>6 DEF Deleting
      <3>3. /\ r \in rows /\ Content(r) \in S /\ Content(r) \in About(S, rr)
            /\ TableOf(r.type) = TableAt(upd[u]) /\ Content(r).type = r.type
        <4>1. r \in rows /\ Target(S, rr, r) /\ TableOf(r.type) = TableAt(upd[u])
          BY <2>4, <2>6
        <4>2. r \in Row /\ Content(r) \in S
          BY <3>2, <4>1, RowsTyped, ContentsOf
        <4> QED
          BY <4>1, <4>2, TargetAbout, ContentIs
      <3>4. ASSUME NEW x \in Contents(rows), x # Content(r) PROVE x \in Contents(rows')
        <4>1. PICK s \in rows : x = Content(s)
          BY <3>4, ContentsOf
        <4>2. s \in rows'
          BY <2>4, <2>6, <3>4, <4>1
        <4> QED
          BY <4>1, <4>2, ContentsOf
      <3>5. S \ About(S, rr) \subseteq Contents(rows')
        BY <3>2, <3>3, <3>4
      <3>6. Contents(rows') \subseteq S
        BY <2>4, <2>6, <3>2, ContentsOf
      <3>7. ASSUME DeletesAll(rr), NEW x \in S, ToCome(upd[u].t + 1, x)
            PROVE  x \in Contents(rows')
        <4>1. x \in Contents(rows)
          BY <1>3, <2>4, <2>6, <3>7 DEF Deleting
        <4>2. PICK k \in upd[u].t + 1 .. Len(Tables) : Tables[k] = TableOf(x.type)
          BY <3>7 DEF ToCome
        <4>3. k \in 1 .. Len(Tables) /\ k # upd[u].t
          BY <1>3, <4>2, TableFacts
        <4>4. TableAt(upd[u]) = Tables[upd[u].t]
          BY <1>3, <3>7 DEF TableAt
        <4>5. TableOf(x.type) # TableOf(r.type)
          BY <1>3, <3>3, <4>2, <4>3, <4>4, TablesApart
        <4>6. x # Content(r)
          BY <3>3, <4>5
        <4> QED
          BY <3>4, <4>1, <4>6
      <3>8. DeletesAll(rr) => \A s \in rows' : Target(S, rr, s) => ToCome(upd[u].t, s)
        BY <1>3, <2>4, <2>6 DEF Deleting
      <3>9. \A s \in rows' : Target(S, rr, s) /\ TableOf(s.type) = TableAt(upd[u]) =>
                s \in upd'[u].found
        BY <1>1, <1>3, <2>1, <2>4, <2>6 DEF Deleting
      <3>10. Deleting(upd'[u], rows')
        BY <2>1, <2>2, <3>5, <3>6, <3>7, <3>8, <3>9 DEF Deleting
      <3> QED
        BY <1>3, <2>2, <3>10 DEF Going
    <2>7. upd'[u].pc \in Busy /\ clean'[u] \in BOOLEAN /\ upd'[u].t \in 1 .. Len(Tables)
      BY <1>1, <1>2, <1>3, <2>1, <2>3
    <2>8. upd'[u].pc = "delete" => rrOf(u).class # "IN"
      BY <1>3 DEF rr
    <2>9. clean'[u] => Read(upd'[u], rows') /\ Going(upd'[u], rows')
      BY <2>3, <2>5, <2>6
    <2> QED
      BY <1>1, <2>1, <2>7, <2>8, <2>9, SameRrKept
  <1> QED
    BY <1>4, <1>5 DEF delete_rr

LEMMA DeletedAllRr ==
    ASSUME TypeInv, NEW u \in Updaters, deleted_all(u), RrOK(upd[u], rows, clean[u])
    PROVE  RrOK(upd'[u], rows', clean'[u])
  <1> DEFINE rr == rrOf(u)
             S == upd[u].base
  <1>1. /\ upd[u].pc = "delete" /\ upd[u].pc \in Busy /\ upd[u].found = {}
        /\ rows' = rows /\ clean' = clean
        /\ IF DeletesAll(rr) /\ upd[u].t < Len(Tables)
           THEN upd' = [upd EXCEPT ![u].pc = "count", ![u].t = @ + 1] ELSE NextRr(u)
    BY DEF deleted_all, historyVars, Busy
  <1>2. /\ upd \in [Updaters -> Upd] /\ upd[u] \in Upd /\ clean[u] \in BOOLEAN
    BY TypeParts, ThreadRecord DEF HistoryOK, Actors
  <1>3. /\ RrAt(upd[u]) = rr /\ rr.class # "IN" /\ upd[u].t \in 1 .. Len(Tables)
        /\ S \in SUBSET Entry
    BY <1>1, BusyRr, RrNow DEF RrOK, Allowed
  <1>a. upd[u].t \in Nat /\ Len(Tables) \in Nat
    BY <1>3, TableFacts
  <1> HIDE DEF rr
  <1>4. ASSUME clean[u]
        PROVE  /\ Deleting(upd[u], rows)
               /\ \A r \in rows : Target(S, rr, r) => TableOf(r.type) # TableAt(upd[u])
    <2>1. Deleting(upd[u], rows)
      BY <1>1, <1>3, <1>4 DEF RrOK, Going
    <2> QED
      BY <1>1, <1>3, <2>1 DEF Deleting
  <1>5. CASE NextRr(u) /\ ~(DeletesAll(rr) /\ upd[u].t < Len(Tables))
    <2>1. ASSUME clean[u] PROVE Contents(rows) = S \ About(S, rr)
      <3>1. S \ About(S, rr) \subseteq Contents(rows) /\ Contents(rows) \subseteq S
        BY <1>3, <1>4, <2>1 DEF Deleting
      <3>2. ASSUME NEW r \in rows, Target(S, rr, r) PROVE FALSE
        <4>1. TableOf(r.type) # TableAt(upd[u])
          BY <1>4, <2>1, <3>2
        <4>2. CASE DeletesAll(rr)
          <5>1. ToCome(upd[u].t, r)
            BY <1>3, <1>4, <2>1, <3>2, <4>2 DEF Deleting
          <5>2. PICK k \in upd[u].t .. Len(Tables) : Tables[k] = TableOf(r.type)
            BY <5>1 DEF ToCome
          <5>3. k = upd[u].t
            BY <1>a, <1>3, <1>5, <4>2, <5>2
          <5> QED
            BY <1>3, <4>1, <4>2, <5>2, <5>3 DEF TableAt
        <4>3. CASE ~DeletesAll(rr)
          BY <1>3, <3>2, <4>1, <4>3 DEF Target, TableAt
        <4> QED
          BY <4>2, <4>3
      <3>3. ASSUME NEW x \in Contents(rows) PROVE x \notin About(S, rr)
        <4>1. PICK r \in rows : x = Content(r)
          BY ContentsOf
        <4>2. r \in Row /\ Content(r) \in S
          BY <3>1, <4>1, RowsTyped
        <4> QED
          BY <3>2, <4>1, <4>2, TargetAbout
      <3> QED
        BY <3>1, <3>3
    <2>2. clean'[u] => Contents(rows') \in Effects(S, rr)
      BY <1>1, <1>3, <2>1 DEF Effects
    <2> QED
      BY <1>1, <1>5, <2>2, RrHandled DEF rr
  <1>6. CASE /\ DeletesAll(rr) /\ upd[u].t < Len(Tables)
             /\ upd' = [upd EXCEPT ![u].pc = "count", ![u].t = @ + 1]
    <2>1. /\ upd'[u].pc = "count" /\ upd'[u].msg = upd[u].msg /\ upd'[u].i = upd[u].i
          /\ upd'[u].base = S /\ upd'[u].t = upd[u].t + 1
      BY <1>2, <1>6 DEF Upd
    <2>2. RrAt(upd'[u]) = rr
      BY <1>3, <2>1 DEF RrAt
    <2>3. Read(upd'[u], rows)
      BY <2>1 DEF Read
    <2>4. ASSUME clean[u] PROVE Going(upd'[u], rows)
      <3>1. Deleting(upd[u], rows)
        BY <1>4, <2>4
      <3>a. /\ S \ About(S, rr) \subseteq Contents(rows) /\ Contents(rows) \subseteq S
            /\ \A r \in rows : Target(S, rr, r) => ToCome(upd[u].t, r)
            /\ \A x \in S : ToCome(upd[u].t + 1, x) => x \in Contents(rows)
        BY <1>3, <1>6, <3>1 DEF Deleting
      <3>2. ASSUME NEW r \in rows, Target(S, rr, r) PROVE ToCome(upd[u].t + 1, r)
        <4>1. PICK k \in upd[u].t .. Len(Tables) : Tables[k] = TableOf(r.type)
          BY <3>2, <3>a DEF ToCome
        <4>2. TableOf(r.type) # Tables[upd[u].t]
          BY <1>3, <1>4, <1>6, <2>4, <3>2 DEF TableAt
        <4>3. k \in upd[u].t + 1 .. Len(Tables)
          BY <1>a, <4>1, <4>2
        <4> QED
          BY <4>1, <4>3 DEF ToCome
      <3>3. ASSUME NEW x \in S, ToCome(upd[u].t + 1 + 1, x) PROVE x \in Contents(rows)
        <4>1. PICK k \in upd[u].t + 1 + 1 .. Len(Tables) : Tables[k] = TableOf(x.type)
          BY <3>3 DEF ToCome
        <4>2. k \in upd[u].t + 1 .. Len(Tables)
          BY <1>a, <4>1
        <4> QED
          BY <3>a, <4>1, <4>2 DEF ToCome
      <3>4. ASSUME NEW x \in S, TableOf(x.type) = TableAt(upd'[u]) PROVE x \in Contents(rows)
        <4>1. TableOf(x.type) = Tables[upd[u].t + 1]
          BY <1>6, <2>1, <2>2, <3>4 DEF TableAt
        <4>2. upd[u].t + 1 \in upd[u].t + 1 .. Len(Tables)
          BY <1>a, <1>6
        <4> QED
          BY <3>a, <4>1, <4>2 DEF ToCome
      <3>5. Deleting(upd'[u], rows)
        BY <2>1, <2>2, <3>a, <3>2, <3>3, <3>4 DEF Deleting
      <3> QED
        BY <1>3, <2>2, <3>5 DEF Going
    <2>5. upd'[u].pc \in Busy /\ upd'[u].pc # "delete" /\ upd'[u].t \in 1 .. Len(Tables)
      BY <1>a, <1>3, <1>6, <2>1 DEF Busy
    <2> QED
      BY <1>1, <1>2, <2>1, <2>3, <2>4, <2>5, SameRrKept
  <1> QED
    BY <1>1, <1>5, <1>6

LEMMA NextRrInv ==
    ASSUME TypeInv, RrInv, [Next]_vars
    PROVE  RrInv'
  <1> SUFFICES ASSUME NEW u \in Updaters PROVE RrOK(upd'[u], rows', clean'[u])
    BY DEF RrInv
  <1>1. RrOK(upd[u], rows, clean[u])
    BY DEF RrInv
  <1>2. CASE Bystander(u)
    <2>1. upd'[u] = upd[u] /\ (clean'[u] => clean[u] /\ rows' = rows)
      BY <1>2 DEF Bystander
    <2> QED
      BY <1>1, <2>1 DEF RrOK
  <1>3. CASE sign_resp(u) \/ update_fails(u)
    BY <1>3, AnswerRr DEF sign_resp, update_fails
  <1>4. CASE OwnStep(u)
    BY <1>1, <1>3, <1>4, ReceiveRr, PrereqRr, NextRrStarts, TryRr, CountRr, FetchRr, SaveRr,
       DeleteRr, DeletedAllRr DEF OwnStep, UpdateStep
  <1> QED
    BY <1>2, <1>4, StepSplit

LEMMA InitRr == Init => RrInv
  <1> SUFFICES ASSUME Init, NEW u \in Updaters PROVE RrOK(upd[u], rows, clean[u])
    BY DEF RrInv
  <1>1. upd[u].pc = "idle" /\ upd[u].t = 1
    BY DEF Init, Resting
  <1> QED
    BY <1>1, RestRr

LEMMA RrInvariant == Spec => [](TypeInv /\ RrInv)
  <1>1. Init => TypeInv /\ RrInv
    BY InitType, InitRr
  <1>2. TypeInv /\ RrInv /\ [Next]_vars => TypeInv' /\ RrInv'
    BY NextType, NextRrInv
  <1> QED
    BY <1>1, <1>2, PTL DEF Spec

\* An RR that was handled while nobody else wrote did what Effects says of its class
\* and type and of what the zone held: the apex, wildcards and the tables that
\* "delete all RRsets" leaves out included, however many rows and tables it went
\* through.  Where none of these is met (Plain) that is RFC 2136's effect.
THEOREM RrsApplied == Spec => []RrApplied
  <1>1. TypeInv /\ RrInv => RrApplied
    BY DEF RrInv, RrOK, Done, RrApplied
  <1> QED
    BY <1>1, RrInvariant, PTL

------------------------------------------------------------------------------
(* What an update changes.                                                   *)

\* The rows change only in what the RR is about, or in what it adds, of a type the
\* key was asked for.
LEMMA OwnInScope ==
    ASSUME TypeInv, NEW u \in Updaters, OwnStep(u), RrOK(upd[u], rows, clean[u])
    PROVE  InScope(u)
  <1> DEFINE rr == rrOf(u)
             Scope(r) == /\ r.name \in {rr.name, Taken(upd[u].base, TableOf(r.type), rr.name)}
                         /\ can_manage(upd[u].msg.key, r.type, rr.name)
  <1>0. RrAt(upd[u]) = rr
    BY DEF RrAt, rrOf
  <1>1. CASE rows' = rows
    BY <1>1 DEF InScope
  <1>2. CASE save_rr(u)
    <2>1. upd[u].pc = "save" /\ upd[u].pc \in Busy
      BY <1>2 DEF save_rr, Busy
    <2>2. rr.class = "IN" /\ ~DeletesAll(rr)
      BY <2>1, BusyRr DEF TypeInv, RrGoing, DeletesAll
    <2>3. can_manage(upd[u].msg.key, rr.type, rr.name)
      BY <1>0, <2>1, <2>2 DEF RrOK, Allowed
    <2>4. ASSUME NEW r, r.type = rr.type,
                 r.name \in {rr.name, Taken(upd[u].base, TableOf(r.type), rr.name)}
          PROVE  Scope(r)
      BY <2>3, <2>4
    <2> HIDE DEF Scope
    <2>5. CASE Write(u, rows \cup {NewRow(rr)}, Unseen(rr))
      <3>1. rows' = rows \cup {NewRow(rr)}
        BY <2>5 DEF Write
      <3>2. Scope(NewRow(rr))
        BY <2>4 DEF NewRow
      <3>3. \A r \in (rows \ rows') \cup (rows' \ rows) : Scope(r)
        BY <3>1, <3>2
      <3> QED
        BY <3>3 DEF InScope, Scope
    <2>6. ASSUME NEW r \in upd[u].found, clean[u],
                 Write(u, Saved([r EXCEPT !.name = rr.name]), Unseen(rr))
          PROVE  InScope(u)
      <3>1. r \in rows /\ Target(upd[u].base, rr, r)
        BY <1>0, <2>1, <2>6 DEF RrOK, Read
      <3>2. /\ r \in Row /\ r.type = rr.type
            /\ r.name = Taken(upd[u].base, TableOf(r.type), rr.name)
        BY <2>2, <3>1, RowsTyped DEF Target
      <3> DEFINE q == [r EXCEPT !.name = rr.name]
      <3>3. q.id = r.id /\ q.name = rr.name /\ q.type = rr.type
        BY <3>2 DEF Row
      <3>4. rows' = Saved(q)
        BY <2>6 DEF Write
      <3> HIDE DEF q
      <3>5. rows' = (rows \ {r}) \cup {q}
        BY <3>1, <3>3, <3>4, OnlyRow DEF Saved
      <3>6. Scope(r) /\ Scope(q)
        BY <2>4, <3>2, <3>3
      <3>7. \A s \in (rows \ rows') \cup (rows' \ rows) : Scope(s)
        BY <3>5, <3>6
      <3> QED
        BY <3>7 DEF InScope, Scope
    <2>7. CASE ~clean[u]
      BY <2>7 DEF InScope
    <2> QED
      BY <1>2, <2>5, <2>6, <2>7 DEF save_rr
  <1>3. ASSUME NEW r \in upd[u].found, delete_rr(u, r), rows' # rows PROVE InScope(u)
    <2>1. CASE ~clean[u]
      BY <2>1 DEF InScope
    <2>2. CASE clean[u]
      <3>1. /\ upd[u].pc = "delete" /\ upd[u].pc \in Busy
            /\ can_manage(upd[u].msg.key, r.type, rr.name)
            /\ rows' = {s \in rows : s.id # r.id}
        BY <1>3 DEF delete_rr, Write, Busy
      <3>2. r \in rows /\ r.name = Taken(upd[u].base, TableOf(r.type), rr.name)
        BY <1>0, <2>2, <3>1 DEF RrOK, Read, Target
      <3>3. rows' = rows \ {r}
        BY <3>1, <3>2, OnlyRow
      <3> QED
        BY <3>1, <3>2, <3>3 DEF InScope
    <2> QED
      BY <2>1, <2>2
  <1>4. save_rr(u) \/ (\E r \in upd[u].found : delete_rr(u, r)) \/ rows' = rows
    BY DEF OwnStep, UpdateStep, receive_update, update_fails, check_prereq, next_rr, sign_resp,
           try_update, find_records_count, find_records_fetch, deleted_all
  <1> QED
    BY <1>1, <1>2, <1>3, <1>4

\* While nobody else writes, an update changes no row of a type its key may not
\* manage at the name of the RR, and none but those of this name or, where it has
\* none in their table, of the wildcard, which may be outside restrict_to.
THEOREM UpdatesStayInScope == Spec => ChangesInScope
  <1>1. TypeInv /\ RrInv /\ [Next]_vars => [\A u \in Updaters : InScope(u)]_vars
    <2> SUFFICES ASSUME TypeInv, RrInv, [Next]_vars, NEW u \in Updaters PROVE InScope(u)
      OBVIOUS
    <2>1. RrOK(upd[u], rows, clean[u])
      BY DEF RrInv
    <2>2. CASE Bystander(u)
      BY <2>2 DEF Bystander, InScope
    <2> QED
      BY <2>1, <2>2, StepSplit, OwnInScope
  <1> QED
    BY <1>1, RrInvariant, PTL DEF ChangesInScope, Spec

==============================================================================
