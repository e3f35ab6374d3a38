--------------------------- MODULE NotifyChainProofs ---------------------------
(***************************************************************************)
(* Proofs about zone transfers and NOTIFYs, for any number of secondaries, *)
(* records, edits and faults, and for channels of every capacity.          *)
(***************************************************************************)
EXTENDS NotifyChain, SequenceTheorems, TLAPS

------------------------------------------------------------------------------
(* The answers to a query, and where a connection is in them.                *)

Length(query) == IF query = "soa" THEN 1 ELSE NumRecords + 2

AnswerAt(query, v, i) ==
    IF query = "soa" \/ i = 1 \/ i = NumRecords + 2 THEN Soa(v) ELSE Rr(v, i - 1)

LEMMA AnswersShape ==
    ASSUME NEW query, NEW v \in Nat
    PROVE  /\ Answers(query, v) \in Seq(Message)
           /\ Len(Answers(query, v)) = Length(query)
           /\ \A i \in 1 .. Length(query) : Answers(query, v)[i] = AnswerAt(query, v, i)
  <1>1. Soa(v) \in Message
    BY DEF Soa, Message
  <1>2. <<Soa(v)>> \in Seq(Message) /\ Len(<<Soa(v)>>) = 1 /\ <<Soa(v)>>[1] = Soa(v)
    BY <1>1
  <1>3. CASE query = "soa"
    BY <1>2, <1>3 DEF Answers, Length, AnswerAt
  <1>4. CASE query # "soa"
    <2> DEFINE r == [i \in 1 .. NumRecords |-> Rr(v, i)]
               s == <<Soa(v)>>
    <2>0. NumRecords \in Nat
      BY LimitsAssumption
    <2>1. \A i \in 1 .. NumRecords : Rr(v, i) \in Message
      BY DEF Rr, Message
    <2>2. r \in Seq(Message) /\ Len(r) = NumRecords
      BY <2>0, <2>1
    <2>3. \A i \in 1 .. NumRecords : r[i] = Rr(v, i)
      OBVIOUS
    <2>4. Answers(query, v) = (s \o r) \o s
      BY <1>4 DEF Answers
    <2> HIDE DEF r, s
    <2>5. s \in Seq(Message) /\ Len(s) = 1 /\ s[1] = Soa(v)
      BY <1>2 DEF s
    <2> DEFINE a == s \o r
    <2>6. /\ a \in Seq(Message) /\ Len(a) = 1 + Len(r)
          /\ \A i \in 1 .. Len(s) + Len(r) : a[i] = IF i <= Len(s) THEN s[i] ELSE r[i - Len(s)]
      BY <2>2, <2>5, ConcatProperties
    <2>7. \A i \in 1 .. NumRecords + 1 : a[i] = IF i = 1 THEN Soa(v) ELSE Rr(v, i - 1)
      BY <2>0, <2>2, <2>3, <2>5, <2>6
    <2> HIDE DEF a
    <2>8. /\ a \o s \in Seq(Message) /\ Len(a \o s) = Len(a) + 1
          /\ \A i \in 1 .. Len(a) + Len(s) : (a \o s)[i] = IF i <= Len(a) THEN a[i] ELSE s[i - Len(a)]
      <3>1. a \in Seq(Message) /\ s \in Seq(Message) /\ Len(s) = 1
        BY <2>5, <2>6
      <3>2. /\ a \o s \in Seq(Message) /\ Len(a \o s) = Len(a) + Len(s)
            /\ \A i \in 1 .. Len(a) + Len(s) :
                  (a \o s)[i] = IF i <= Len(a) THEN a[i] ELSE s[i - Len(a)]
        BY <3>1, ConcatProperties, Zenon
      <3> QED
        BY <3>1, <3>2
    <2>9. Answers(query, v) = a \o s
      BY <2>4 DEF a
    <2>10. Len(a) = NumRecords + 1 /\ Length(query) = NumRecords + 2
      BY <1>4, <2>0, <2>2, <2>6 DEF Length
    <2>11. ASSUME NEW i \in 1 .. Length(query)
           PROVE  (a \o s)[i] = AnswerAt(query, v, i)
      BY <1>4, <2>0, <2>5, <2>7, <2>8, <2>10 DEF AnswerAt
    <2> QED
      BY <2>0, <2>8, <2>9, <2>10, <2>11
  <1> QED
    BY <1>3, <1>4

\* The secondary k has had n of the answers with version v; ch and todo hold
\* the others, in their order.
Transfer(todo, ch, k, v, n) ==
    /\ k.query \in {"soa", "axfr"}
    /\ n + Len(ch) + Len(todo) = Length(k.query)
    /\ \A i \in 1 .. Len(ch) : ch[i].msg = AnswerAt(k.query, v, n + i)
    /\ \A i \in 1 .. Len(todo) : todo[i] = AnswerAt(k.query, v, n + Len(ch) + i)
    /\ k.opened <=> n > 0
    /\ k.got = {Rr(v, i) : i \in 1 .. n - 1}

InTransfer(todo, ch, k) == \E v \in Nat, n \in Nat : Transfer(todo, ch, k, v, n)

\* The MACs in the channel continue the chain of the secondary.
Chained(ch, k) ==
    /\ ch # <<>> /\ ch[1].msg.kind # "error" =>
          ch[1].mac = Mac(k.hash, ch[1].msg, ~ k.opened)
    /\ \A i \in 2 .. Len(ch) : ch[i].mac = Mac(ch[i - 1].mac, ch[i].msg, FALSE)

\* The server signs the next message over the last MAC on its way.
Continues(c, ch, k) ==
    /\ ch = <<>> => c.hash = k.hash /\ c.first = ~ k.opened
    /\ ch # <<>> => c.hash = ch[Len(ch)].mac /\ c.first = FALSE

Busy == {"lookup", "touch", "send"}

Typed(c, ch, k) == c \in Connection /\ ch \in Seq(Packet) /\ k \in Client

\* What connects a task c of the server, its channel and the secondary; sg: the
\* secondary uses TSIG.
Good(sg, c, ch, k) ==
    /\ Typed(c, ch, k)
    /\ ~ k.bad
    /\ k.query = "none" => k = Quiet /\ ch = <<>> /\ (c.pc = "idle" \/ c.broken)
    /\ c.broken => ch = <<>> /\ c.pc \in Busy
    /\ c.pc = "request" => /\ c.query \in Queries /\ k.query = c.query
                           /\ ch = <<>> /\ c.first = TRUE /\ k.opened = FALSE /\ k.got = {}
                           /\ k.hash = QueryMac(c.query)
    /\ c.pc \in Busy => c.todo # <<>>
    /\ c.pc \in Busy /\ ~ c.broken => /\ InTransfer(c.todo, ch, k)
                                      /\ sg => Continues(c, ch, k)
    /\ c.pc \in {"lookup", "touch"} => ch = <<>>
    /\ c.pc = "idle" => /\ c = Idle
                        /\ \/ ch = <<>>
                           \/ Len(ch) = 1 /\ ch[1].msg.kind = "error"
                           \/ InTransfer(<<>>, ch, k)
    /\ sg => Chained(ch, k)

\* Types of the building blocks.
LEMMA MacTypes ==
    /\ NoMac \in Macs
    /\ \A hash \in Macs, m \in Message, first \in BOOLEAN : Mac(hash, m, first) \in Macs
    /\ \A query \in Queries : QueryMac(query) \in Macs
  <1>1. NoMac \in Macs
    BY DEF NoMac, Macs
  <1>2. ASSUME NEW hash \in Macs, NEW m \in Message, NEW first \in BOOLEAN
        PROVE  Mac(hash, m, first) \in Macs
    <2>1. <<[over |-> m, whole |-> first]>> \in Seq([over : Message, whole : BOOLEAN])
      OBVIOUS
    <2> QED
      BY <2>1, ConcatProperties DEF Mac, Macs
  <1>3. ASSUME NEW query \in Queries PROVE QueryMac(query) \in Macs
    <2>1. [kind |-> "query", query |-> query] \in Message
      BY DEF Message
    <2> QED
      BY <1>1, <1>2, <2>1 DEF QueryMac
  <1> QED
    BY <1>1, <1>2, <1>3

LEMMA RestTypes == Idle \in Connection /\ Quiet \in Client
  <1>1. <<>> \in Seq(Message)
    OBVIOUS
  <1>2. {} \in SUBSET Message
    OBVIOUS
  <1> QED
    BY <1>1, <1>2, MacTypes DEF Idle, Connection, Quiet, Client, Queries, Values

\* Nobody asks and nothing is on the way.
LEMMA QuietGood ==
    ASSUME NEW sg, NEW c \in Connection, c = Idle \/ (c.broken /\ c.pc \in Busy /\ c.todo # <<>>)
    PROVE  Good(sg, c, <<>>, Quiet)
  <1>1. <<>> \in Seq(Packet) /\ Len(<<>>) = 0
    OBVIOUS
  <1>2. c = Idle => c.pc = "idle" /\ ~ c.broken
    BY DEF Idle
  <1>3. Quiet.query = "none" /\ ~ Quiet.bad
    BY DEF Quiet
  <1>4. Chained(<<>>, Quiet)
    BY <1>1 DEF Chained
  <1> QED
    BY <1>1, <1>2, <1>3, <1>4, RestTypes DEF Good, Typed, Busy

\* Ask: a new query on a connection at rest.
LEMMA AskGood ==
    ASSUME NEW sg, NEW query \in Queries, NEW sig, NEW notified \in BOOLEAN,
           sig \in {"none", "good", "malformed", "late", "badmac", "badalg"}
    PROVE  Good(sg, [Idle EXCEPT !.pc = "request", !.query = query, !.sig = sig], <<>>,
                [Quiet EXCEPT !.query = query, !.hash = QueryMac(query),
                              !.notified = notified])
  <1> DEFINE c == [Idle EXCEPT !.pc = "request", !.query = query, !.sig = sig]
             k == [Quiet EXCEPT !.query = query, !.hash = QueryMac(query),
                                !.notified = notified]
  <1>1. /\ c \in Connection /\ c.pc = "request" /\ c.query = query /\ ~ c.broken
        /\ c.first = TRUE
    BY RestTypes DEF Idle, Connection
  <1>2. /\ k \in Client /\ k.query = query /\ k.hash = QueryMac(query)
        /\ ~ k.bad /\ k.opened = FALSE /\ k.got = {}
    BY RestTypes, MacTypes DEF Quiet, Client
  <1> HIDE DEF c, k
  <1>3. <<>> \in Seq(Packet) /\ Len(<<>>) = 0
    OBVIOUS
  <1>4. Chained(<<>>, k)
    BY <1>3 DEF Chained
  <1>5. Good(sg, c, <<>>, k)
    BY <1>1, <1>2, <1>3, <1>4 DEF Good, Typed, Busy, Queries
  <1> QED
    BY <1>5 DEF c, k

\* handle_request has read the zone and goes on to Django or to the answers.
LEMMA LoadGood ==
    ASSUME NEW sg, NEW c, NEW k, Good(sg, c, <<>>, k), c.pc = "request",
           c.query # "other", NEW v \in Nat, NEW pc \in {"lookup", "send"}
    PROVE  Good(sg, [c EXCEPT !.pc = pc, !.todo = Answers(c.query, v),
                              !.hash = QueryMac(c.query)], <<>>, k)
  <1> DEFINE d == [c EXCEPT !.pc = pc, !.todo = Answers(c.query, v),
                            !.hash = QueryMac(c.query)]
  <1>1. /\ c \in Connection /\ k \in Client /\ ~ k.bad /\ c.query \in Queries
        /\ k.query = c.query /\ k.opened = FALSE /\ k.got = {} /\ k.hash = QueryMac(c.query)
        /\ c.first = TRUE /\ ~ c.broken
    BY DEF Good, Typed, Busy
  <1>2. c.query \in {"soa", "axfr"}
    BY <1>1 DEF Queries
  <1> DEFINE a == Answers(c.query, v)
  <1>3. /\ a \in Seq(Message) /\ Len(a) = Length(c.query)
        /\ \A i \in 1 .. Length(c.query) : a[i] = AnswerAt(c.query, v, i)
    BY AnswersShape
  <1>4. Length(c.query) \in Nat \ {0}
    BY LimitsAssumption DEF Length
  <1>5. a # <<>>
    BY <1>3, <1>4
  <1> HIDE DEF a
  <1>6. /\ d \in Connection /\ d.pc = pc /\ d.todo = a /\ ~ d.broken
        /\ d.hash = QueryMac(c.query) /\ d.first = c.first
    BY <1>1, <1>3, MacTypes DEF Connection, a
  <1> HIDE DEF d
  <1>7. <<>> \in Seq(Packet) /\ Len(<<>>) = 0
    OBVIOUS
  <1>8. {Rr(v, i) : i \in 1 .. 0 - 1} = {}
    OBVIOUS
  <1>9. Transfer(a, <<>>, k, v, 0)
    BY <1>1, <1>2, <1>3, <1>4, <1>7, <1>8 DEF Transfer
  <1>10. InTransfer(d.todo, <<>>, k)
    BY <1>6, <1>9 DEF InTransfer
  <1>11. Continues(d, <<>>, k)
    BY <1>1, <1>6 DEF Continues
  <1>12. Chained(<<>>, k)
    BY <1>7 DEF Chained
  <1>13. Good(sg, d, <<>>, k)
    BY <1>1, <1>2, <1>5, <1>6, <1>7, <1>10, <1>11, <1>12 DEF Good, Typed, Busy
  <1> QED
    BY <1>13 DEF d

\* The task ends without an answer; so does a connection that broke.
LEMMA IdleGood ==
    ASSUME NEW sg, NEW c, NEW k, Good(sg, c, <<>>, k)
    PROVE  Good(sg, Idle, <<>>, k)
  <1>1. Idle.pc = "idle" /\ ~ Idle.broken
    BY DEF Idle
  <1>2. <<>> \in Seq(Packet) /\ Chained(<<>>, k)
    BY DEF Chained
  <1> QED
    BY <1>1, <1>2, RestTypes DEF Good, Typed, Busy

\* The task answers with an error.
LEMMA ErrorGood ==
    ASSUME NEW sg, NEW c, NEW k, Good(sg, c, <<>>, k), c.pc # "idle", ~ c.broken,
           NEW code \in {"refused", "servfail", "badsig", "badtime", "badalg"}
    PROVE  Good(sg, Idle, Append(<<>>, [msg |-> Error(code), mac |-> NoMac]), k)
  <1> DEFINE e == [msg |-> Error(code), mac |-> NoMac]
             ch == Append(<<>>, e)
  <1>1. e \in Packet /\ e.msg.kind = "error"
    BY MacTypes DEF Packet, Message, Error
  <1>2. <<>> \in Seq(Packet) /\ Len(<<>>) = 0
    OBVIOUS
  <1> HIDE DEF e
  <1>3. ch \in Seq(Packet) /\ Len(ch) = 1 /\ ch[1] = e /\ ch # <<>>
    BY <1>1, <1>2, AppendProperties
  <1> HIDE DEF ch
  <1>4. Chained(ch, k)
    BY <1>1, <1>3 DEF Chained
  <1>5. k \in Client /\ ~ k.bad /\ k.query # "none"
    BY DEF Good, Typed
  <1>6. Idle.pc = "idle" /\ ~ Idle.broken
    BY DEF Idle
  <1>7. Good(sg, Idle, ch, k)
    BY <1>1, <1>3, <1>4, <1>5, <1>6, RestTypes DEF Good, Typed, Busy
  <1> QED
    BY <1>7 DEF ch, e

\* The connection breaks: what is in the channel is lost, a task goes on.
LEMMA LostGood ==
    ASSUME NEW sg, NEW c, NEW ch, NEW k, Good(sg, c, ch, k), k.query # "none"
    PROVE  Good(sg, CASE c.pc = "idle"    -> c
                      [] c.pc = "request" -> Idle
                      [] OTHER            -> [c EXCEPT !.broken = TRUE], <<>>, k)
  <1>0. Idle.pc = "idle" /\ ~ Idle.broken
    BY DEF Idle
  <1>1. <<>> \in Seq(Packet) /\ Chained(<<>>, k)
    BY DEF Chained
  <1>2. CASE c.pc \in {"idle", "request"}
    <2>1. Good(sg, Idle, <<>>, k)
      BY <1>0, <1>1, RestTypes DEF Good, Typed, Busy
    <2>2. c.pc = "idle" => c = Idle
      BY DEF Good
    <2> QED
      BY <1>2, <2>1, <2>2
  <1>3. CASE c.pc \notin {"idle", "request"}
    <2> DEFINE d == [c EXCEPT !.broken = TRUE]
    <2>1. d \in Connection /\ d.pc = c.pc /\ d.broken /\ d.todo = c.todo
      BY DEF Good, Typed, Connection
    <2>2. c.pc \in Busy
      BY <1>3 DEF Good, Typed, Connection, Busy
    <2> HIDE DEF d
    <2>3. Good(sg, d, <<>>, k)
      BY <1>1, <2>1, <2>2 DEF Good, Typed, Busy
    <2> QED
      BY <1>3, <2>3 DEF d
  <1> QED
    BY <1>2, <1>3

\* Django has answered: the task goes on with what it had.
LEMMA StageGood ==
    ASSUME NEW sg, NEW c, NEW ch, NEW k, Good(sg, c, ch, k), c.pc \in {"lookup", "touch"},
           NEW d \in Connection, d.pc \in {"touch", "send"}, d.todo = c.todo,
           d.hash = c.hash, d.first = c.first, d.broken = c.broken
    PROVE  Good(sg, d, ch, k)
  <1>1. Continues(c, ch, k) => Continues(d, ch, k)
    BY DEF Continues
  <1> QED
    BY <1>1 DEF Good, Typed, Busy

\* A message of a connection that broke goes nowhere.
LEMMA SendBrokenGood ==
    ASSUME NEW sg, NEW c, NEW ch, NEW k, Good(sg, c, ch, k), c.pc = "send", c.broken,
           NEW d \in Connection, d.pc = "send", d.broken, d.todo # <<>>
    PROVE  Good(sg, d, ch, k)
  BY DEF Good, Typed, Busy

\* The next message is signed and sent.
LEMMA SendGood ==
    ASSUME NEW sg \in BOOLEAN, NEW c, NEW ch, NEW k, Good(sg, c, ch, k),
           c.pc = "send", ~ c.broken,
           NEW mac \in Macs, sg => mac = Mac(c.hash, Head(c.todo), c.first),
           NEW d, d = IF Len(c.todo) = 1 THEN Idle
                      ELSE [c EXCEPT !.todo = Tail(@), !.hash = mac, !.first = FALSE]
    PROVE  Good(sg, d, Append(ch, [msg |-> Head(c.todo), mac |-> mac]), k)
  <1> DEFINE m == Head(c.todo)
             e == [msg |-> m, mac |-> mac]
             dh == Append(ch, e)
             rest == Tail(c.todo)
  <1>1. /\ c \in Connection /\ ch \in Seq(Packet) /\ k \in Client
        /\ ~ k.bad /\ k.query # "none"
        /\ c.todo \in Seq(Message) /\ c.todo # <<>>
        /\ InTransfer(c.todo, ch, k)
        /\ sg => Continues(c, ch, k) /\ Chained(ch, k)
    <2>1. c.todo \in Seq(Message)
      BY DEF Good, Typed, Connection
    <2>2. InTransfer(c.todo, ch, k) => k.query # "none"
      BY DEF InTransfer, Transfer
    <2> QED
      BY <2>1, <2>2 DEF Good, Typed, Busy
  <1>2. /\ m \in Message /\ rest \in Seq(Message) /\ Len(rest) = Len(c.todo) - 1
        /\ \A i \in 1 .. Len(rest) : rest[i] = c.todo[i + 1]
        /\ m = c.todo[1]
        /\ Len(c.todo) \in Nat \ {0} /\ Len(ch) \in Nat
    <2>1. m = c.todo[1]
      BY <1>1
    <2>2. Len(c.todo) \in Nat \ {0} /\ Len(ch) \in Nat
      BY <1>1, EmptySeq, LenProperties
    <2> QED
      BY <1>1, <2>1, <2>2, HeadTailProperties
  <1>3. e \in Packet /\ e.msg = m /\ e.mac = mac
    BY <1>2 DEF Packet
  <1> HIDE DEF m, e, rest
  <1>4. /\ dh \in Seq(Packet) /\ dh # <<>> /\ Len(dh) = Len(ch) + 1
        /\ \A i \in 1 .. Len(ch) : dh[i] = ch[i]
        /\ dh[Len(ch) + 1] = e
    BY <1>1, <1>3, AppendProperties
  <1> HIDE DEF dh
  <1>5. PICK v \in Nat, n \in Nat : Transfer(c.todo, ch, k, v, n)
    BY <1>1 DEF InTransfer
  <1>6. Transfer(rest, dh, k, v, n)
    <2>1. n + Len(dh) + Len(rest) = Length(k.query)
      <3>1. n + Len(ch) + Len(c.todo) = Length(k.query)
        BY <1>5 DEF Transfer
      <3>2. Len(rest) = Len(c.todo) - 1 /\ Len(dh) = Len(ch) + 1
        BY <1>2, <1>4
      <3>3. Len(c.todo) \in Nat /\ Len(ch) \in Nat
        BY <1>2
      <3> QED
        BY <3>1, <3>2, <3>3
    <2>2. m = AnswerAt(k.query, v, n + Len(ch) + 1)
      BY <1>2, <1>5 DEF Transfer
    <2>3. ASSUME NEW i \in 1 .. Len(dh)
          PROVE  dh[i].msg = AnswerAt(k.query, v, n + i)
      <3>1. CASE i \in 1 .. Len(ch)
        BY <1>4, <1>5, <3>1 DEF Transfer
      <3>2. CASE i = Len(ch) + 1
        <4>1. n + i = n + Len(ch) + 1
          BY <1>2, <3>2
        <4> QED
          BY <1>3, <1>4, <2>2, <3>2, <4>1
      <3>3. i \in 1 .. Len(ch) \/ i = Len(ch) + 1
        <4>1. Len(dh) = Len(ch) + 1 /\ Len(ch) \in Nat
          BY <1>2, <1>4
        <4> QED
          BY <4>1
      <3> QED
        BY <3>1, <3>2, <3>3
    <2>4. ASSUME NEW i \in 1 .. Len(rest)
          PROVE  rest[i] = AnswerAt(k.query, v, n + Len(dh) + i)
      <3>0. /\ Len(rest) = Len(c.todo) - 1 /\ Len(dh) = Len(ch) + 1
            /\ Len(c.todo) \in Nat /\ Len(ch) \in Nat
        BY <1>2, <1>4
      <3>1. i + 1 \in 1 .. Len(c.todo) /\ n + Len(ch) + (i + 1) = n + Len(dh) + i
        <4>1. i \in Nat /\ 1 <= i /\ i <= Len(c.todo) - 1
          BY <3>0
        <4>2. i + 1 \in 1 .. Len(c.todo)
          BY <3>0, <4>1
        <4>3. n + Len(ch) + (i + 1) = n + (Len(ch) + 1) + i
          BY <3>0, <4>1
        <4> QED
          BY <3>0, <4>2, <4>3
      <3>2. c.todo[i + 1] = AnswerAt(k.query, v, n + Len(ch) + (i + 1))
        BY <1>5, <3>1 DEF Transfer
      <3> QED
        BY <1>2, <3>1, <3>2
    <2> QED
      BY <1>5, <2>1, <2>3, <2>4 DEF Transfer
  <1>7. sg => Chained(dh, k)
    <2> SUFFICES ASSUME sg PROVE Chained(dh, k)
      OBVIOUS
    <2>1. Chained(ch, k) /\ Continues(c, ch, k) /\ mac = Mac(c.hash, m, c.first)
      BY <1>1 DEF m
    <2>2. CASE ch = <<>>
      <3>1. Len(ch) = 0 /\ Len(dh) = 1 /\ dh[1] = e
        BY <1>4, <2>2
      <3>2. c.hash = k.hash /\ c.first = ~ k.opened
        BY <2>1, <2>2 DEF Continues
      <3> QED
        BY <1>3, <2>1, <3>1, <3>2 DEF Chained
    <2>3. CASE ch # <<>>
      <3>1. Len(ch) \in Nat \ {0} /\ dh[1] = ch[1] /\ dh[Len(ch)] = ch[Len(ch)]
        BY <1>1, <1>4, <2>3, EmptySeq
      <3>2. c.hash = ch[Len(ch)].mac /\ c.first = FALSE
        BY <2>1, <2>3 DEF Continues
      <3>3. ASSUME NEW i \in 2 .. Len(dh)
            PROVE  dh[i].mac = Mac(dh[i - 1].mac, dh[i].msg, FALSE)
        <4>1. CASE i \in 2 .. Len(ch)
          <5>1. dh[i] = ch[i] /\ dh[i - 1] = ch[i - 1]
            BY <1>4, <3>1, <4>1
          <5> QED
            BY <2>1, <4>1, <5>1 DEF Chained
        <4>2. CASE i = Len(ch) + 1
          <5>1. dh[i] = e /\ dh[i - 1] = ch[Len(ch)]
            BY <1>4, <3>1, <4>2
          <5> QED
            BY <1>3, <2>1, <3>2, <5>1
        <4>3. i \in 2 .. Len(ch) \/ i = Len(ch) + 1
          <5>1. Len(dh) = Len(ch) + 1 /\ Len(ch) \in Nat \ {0}
            BY <1>4, <3>1
          <5> QED
            BY <5>1
        <4> QED
          BY <4>1, <4>2, <4>3
      <3>4. dh[1].msg.kind # "error" => dh[1].mac = Mac(k.hash, dh[1].msg, ~ k.opened)
        BY <2>1, <2>3, <3>1 DEF Chained
      <3> QED
        BY <3>3, <3>4 DEF Chained
    <2> QED
      BY <2>2, <2>3
  <1>8. CASE Len(c.todo) = 1
    <2>1. d = Idle /\ Idle.pc = "idle" /\ ~ Idle.broken
      BY <1>8 DEF Idle
    <2>2. rest = <<>>
      BY <1>2, <1>8
    <2>3. InTransfer(<<>>, dh, k)
      BY <1>6, <2>2 DEF InTransfer
    <2>4. Good(sg, Idle, dh, k)
      BY <1>1, <1>4, <1>7, <2>1, <2>3, RestTypes DEF Good, Typed, Busy
    <2> QED
      BY <2>1, <2>4 DEF dh, e, m
  <1>9. CASE Len(c.todo) # 1
    <2>1. /\ d \in Connection /\ d.pc = "send" /\ d.todo = rest /\ d.hash = mac
          /\ d.first = FALSE /\ ~ d.broken
      BY <1>1, <1>2, <1>9 DEF Connection, rest
    <2>2. rest # <<>>
      <3>1. Len(rest) = Len(c.todo) - 1 /\ Len(c.todo) \in Nat \ {0}
        BY <1>2
      <3>2. Len(rest) # 0
        BY <1>9, <3>1
      <3> QED
        BY <3>2, EmptySeq
    <2>3. InTransfer(d.todo, dh, k)
      BY <1>6, <2>1 DEF InTransfer
    <2>4. Continues(d, dh, k)
      BY <1>3, <1>4, <2>1 DEF Continues
    <2>5. Good(sg, d, dh, k)
      BY <1>1, <1>4, <1>7, <2>1, <2>2, <2>3, <2>4 DEF Good, Typed, Busy
    <2> QED
      BY <2>5 DEF dh, e, m
  <1> QED
    BY <1>8, <1>9
LEMMA AnswerKinds ==
    ASSUME NEW query, NEW v \in Nat, NEW i \in Nat
    PROVE  /\ AnswerAt(query, v, i).kind \in {"soa", "rr"}
           /\ AnswerAt(query, v, i).version = v
           /\ AnswerAt(query, v, i).kind = "soa" <=>
                 query = "soa" \/ i = 1 \/ i = NumRecords + 2
           /\ AnswerAt(query, v, i).kind = "rr" => AnswerAt(query, v, i) = Rr(v, i - 1)
  <1>1. Soa(v).kind = "soa" /\ Soa(v).version = v
    BY DEF Soa
  <1>2. Rr(v, i - 1).kind = "rr" /\ Rr(v, i - 1).version = v
    BY DEF Rr
  <1> QED
    BY <1>1, <1>2 DEF AnswerAt

\* What is first in the channel is an error, alone, or the next answer; after
\* the last answer the task of the server has ended.
ErrorFirst(c, ch) == ch[1].msg.kind = "error" /\ c = Idle /\ Tail(ch) = <<>>

AnswerFirst(sg, c, ch, k) ==
    /\ ch[1].msg.kind # "error"
    /\ c = Idle \/ (c.pc \in Busy /\ ~ c.broken /\ c.todo # <<>>)
    /\ sg => ch[1].mac = Mac(k.hash, ch[1].msg, ~ k.opened)
    /\ \E v \in Nat, n \in Nat :
          /\ Transfer(c.todo, ch, k, v, n)
          /\ ch[1].msg = AnswerAt(k.query, v, n + 1)
          /\ n + 1 <= Length(k.query)
          /\ n + 1 = Length(k.query) => c = Idle /\ Tail(ch) = <<>>

LEMMA FirstInChannel ==
    ASSUME NEW sg \in BOOLEAN, NEW c, NEW ch, NEW k, Good(sg, c, ch, k), ch # <<>>
    PROVE  ErrorFirst(c, ch) \/ AnswerFirst(sg, c, ch, k)
  <1>1. ch \in Seq(Packet) /\ Len(ch) \in Nat \ {0} /\ c \in Connection
    BY EmptySeq DEF Good, Typed
  <1>2. /\ Tail(ch) \in Seq(Packet) /\ Len(Tail(ch)) = Len(ch) - 1
    BY <1>1, HeadTailProperties
  <1>3. Len(ch) = 1 => Tail(ch) = <<>>
    <2> SUFFICES ASSUME Len(ch) = 1 PROVE Tail(ch) = <<>>
      OBVIOUS
    <2>1. Len(Tail(ch)) = 0
      BY <1>2
    <2> QED
      BY <1>2, <2>1, EmptySeq
  <1>4. Idle.todo = <<>> /\ Idle.pc = "idle"
    BY DEF Idle
  <1>5. c.pc = "idle" \/ (c.pc \in Busy /\ ~ c.broken)
    BY <1>1 DEF Good, Connection, Busy
  <1>6. CASE c = Idle /\ Len(ch) = 1 /\ ch[1].msg.kind = "error"
    BY <1>3, <1>6 DEF ErrorFirst
  <1>7. CASE ~ (c = Idle /\ Len(ch) = 1 /\ ch[1].msg.kind = "error")
    <2>1. InTransfer(c.todo, ch, k)
      <3>1. CASE c.pc = "idle"
        <4>1. c = Idle /\ InTransfer(<<>>, ch, k)
          BY <1>7, <3>1 DEF Good
        <4> QED
          BY <1>4, <4>1
      <3>2. CASE c.pc \in Busy /\ ~ c.broken
        BY <3>2 DEF Good
      <3> QED
        BY <1>5, <3>1, <3>2
    <2>2. PICK v \in Nat, n \in Nat : Transfer(c.todo, ch, k, v, n)
      BY <2>1 DEF InTransfer
    <2>3. ch[1].msg = AnswerAt(k.query, v, n + 1)
      BY <1>1, <2>2 DEF Transfer
    <2>4. ch[1].msg.kind # "error"
      BY <2>3, AnswerKinds
    <2>5. c = Idle \/ (c.pc \in Busy /\ ~ c.broken /\ c.todo # <<>>)
      BY <1>5 DEF Good
    <2>6. sg => ch[1].mac = Mac(k.hash, ch[1].msg, ~ k.opened)
      BY <2>4 DEF Good, Chained
    <2>7. c.todo \in Seq(Message) /\ Len(c.todo) \in Nat
      BY <1>1 DEF Connection
    <2>8. n + Len(ch) + Len(c.todo) = Length(k.query)
      BY <2>2 DEF Transfer
    <2> DEFINE l == Len(ch)
               r == Len(c.todo)
    <2>a. l \in Nat /\ l >= 1 /\ r \in Nat /\ n + l + r = Length(k.query)
      <3>1. l \in Nat \ {0}
        BY <1>1
      <3>2. l \in Nat /\ l >= 1
        BY <3>1
      <3>3. r \in Nat
        BY <2>7
      <3>4. n + l + r = Length(k.query)
        BY <2>8
      <3> QED
        BY <3>2, <3>3, <3>4
    <2> HIDE DEF l, r
    <2>9. n + 1 <= Length(k.query)
      BY <2>a
    <2>10. ASSUME n + 1 = Length(k.query)
           PROVE  c = Idle /\ Tail(ch) = <<>>
      <3>1. l = 1 /\ r = 0
        BY <2>a, <2>10
      <3>2. c.todo = <<>>
        BY <2>7, <3>1, EmptySeq DEF r
      <3> QED
        BY <1>3, <2>5, <3>1, <3>2 DEF l
    <2> QED
      BY <2>2, <2>3, <2>4, <2>5, <2>6, <2>9, <2>10 DEF AnswerFirst
  <1> QED
    BY <1>6, <1>7

\* The secondary has had an answer that is not the last.
LEMMA MoreGood ==
    ASSUME NEW sg \in BOOLEAN, NEW c, NEW ch, NEW k, Good(sg, c, ch, k), ch # <<>>,
           c = Idle \/ (c.pc \in Busy /\ ~ c.broken /\ c.todo # <<>>),
           NEW v \in Nat, NEW n \in Nat, Transfer(c.todo, ch, k, v, n),
           ch[1].msg = AnswerAt(k.query, v, n + 1), n + 1 <= NumRecords + 1,
           k.query = "axfr",
           NEW j \in Client, j.query = k.query, j.hash = ch[1].mac, j.opened, ~ j.bad,
           j.got = IF ch[1].msg.kind = "rr" THEN k.got \cup {ch[1].msg} ELSE k.got
    PROVE  Good(sg, c, Tail(ch), j)
  <1> DEFINE th == Tail(ch)
  <1>1. ch \in Seq(Packet) /\ Len(ch) \in Nat \ {0} /\ c \in Connection
    BY EmptySeq DEF Good, Typed
  <1>2. /\ th \in Seq(Packet) /\ Len(th) = Len(ch) - 1
        /\ \A i \in 1 .. Len(th) : th[i] = ch[i + 1]
    BY <1>1, HeadTailProperties
  <1> HIDE DEF th
  <1>3. Len(th) \in Nat /\ Len(ch) = Len(th) + 1
    BY <1>1, <1>2
  <1>4. NumRecords \in Nat
    BY LimitsAssumption
  <1>5. j.got = {Rr(v, i) : i \in 1 .. (n + 1) - 1}
    <2>0. k.got = {Rr(v, i) : i \in 1 .. n - 1}
      BY DEF Transfer
    <2>1. CASE n = 0
      <3>1. ch[1].msg.kind = "soa"
        BY <2>1, AnswerKinds
      <3>2. 1 .. n - 1 = {} /\ 1 .. (n + 1) - 1 = {}
        BY <2>1
      <3> QED
        BY <2>0, <3>1, <3>2
    <2>2. CASE n # 0
      <3>1. n + 1 # 1 /\ n + 1 # NumRecords + 2
        BY <1>4, <2>2
      <3>2. ch[1].msg.kind = "rr" /\ ch[1].msg = Rr(v, (n + 1) - 1)
        BY <1>4, <3>1, AnswerKinds
      <3>3. 1 .. (n + 1) - 1 = (1 .. n - 1) \cup {n} /\ (n + 1) - 1 = n
        BY <2>2
      <3>4. {Rr(v, i) : i \in (1 .. n - 1) \cup {n}} = {Rr(v, i) : i \in 1 .. n - 1} \cup {Rr(v, n)}
        BY Zenon
      <3> QED
        BY <2>0, <3>2, <3>3, <3>4
    <2> QED
      BY <2>1, <2>2
  <1>6. Transfer(c.todo, th, j, v, n + 1)
    <2>0. c.todo \in Seq(Message) /\ Len(c.todo) \in Nat
      BY <1>1 DEF Connection
    <2>1. (n + 1) + Len(th) + Len(c.todo) = Length(k.query)
      <3>1. n + Len(ch) + Len(c.todo) = Length(k.query)
        BY DEF Transfer
      <3> QED
        BY <1>3, <2>0, <3>1
    <2>2. ASSUME NEW i \in 1 .. Len(th)
          PROVE  th[i].msg = AnswerAt(k.query, v, (n + 1) + i)
      <3>1. i + 1 \in 1 .. Len(ch) /\ (n + 1) + i = n + (i + 1)
        BY <1>3
      <3>2. ch[i + 1].msg = AnswerAt(k.query, v, n + (i + 1))
        BY <3>1 DEF Transfer
      <3> QED
        BY <1>2, <3>1, <3>2
    <2>3. ASSUME NEW i \in 1 .. Len(c.todo)
          PROVE  c.todo[i] = AnswerAt(k.query, v, (n + 1) + Len(th) + i)
      <3>1. (n + 1) + Len(th) + i = n + Len(ch) + i
        BY <1>3
      <3>2. c.todo[i] = AnswerAt(k.query, v, n + Len(ch) + i)
        BY DEF Transfer
      <3> QED
        BY <3>1, <3>2
    <2>4. n + 1 > 0 /\ j.opened /\ j.query \in {"soa", "axfr"} /\ j.query = k.query
      OBVIOUS
    <2> QED
      BY <1>5, <2>1, <2>2, <2>3, <2>4 DEF Transfer
  <1>7. InTransfer(c.todo, th, j)
    <2>1. n + 1 \in Nat
      OBVIOUS
    <2> QED
      BY <1>6, <2>1 DEF InTransfer
  <1>8. sg => Chained(th, j)
    <2> SUFFICES ASSUME sg PROVE Chained(th, j)
      OBVIOUS
    <2>1. \A i \in 2 .. Len(ch) : ch[i].mac = Mac(ch[i - 1].mac, ch[i].msg, FALSE)
      BY DEF Good, Chained
    <2>2. th # <<>> => th[1].mac = Mac(j.hash, th[1].msg, FALSE)
      <3> SUFFICES ASSUME th # <<>> PROVE th[1].mac = Mac(j.hash, th[1].msg, FALSE)
        OBVIOUS
      <3>1. Len(th) \in Nat \ {0}
        BY <1>2, EmptySeq
      <3>2. 2 \in 2 .. Len(ch) /\ 1 \in 1 .. Len(th) /\ 2 - 1 = 1
        BY <1>3, <3>1
      <3>3. th[1] = ch[2]
        BY <1>2, <3>2
      <3> QED
        BY <2>1, <3>2, <3>3
    <2>3. ASSUME NEW i \in 2 .. Len(th)
          PROVE  th[i].mac = Mac(th[i - 1].mac, th[i].msg, FALSE)
      <3>1. /\ i + 1 \in 2 .. Len(ch) /\ i \in 1 .. Len(th) /\ i - 1 \in 1 .. Len(th)
            /\ (i + 1) - 1 = i /\ (i - 1) + 1 = i
        BY <1>3
      <3>2. th[i] = ch[i + 1] /\ th[i - 1] = ch[i]
        BY <1>2, <3>1
      <3> QED
        BY <2>1, <3>1, <3>2
    <2> QED
      BY <2>2, <2>3 DEF Chained
  <1>9. ASSUME c.pc \in Busy, sg PROVE Continues(c, th, j)
    <2>0. ~ c.broken
      BY <1>9 DEF Idle, Busy
    <2>1. c.hash = ch[Len(ch)].mac /\ c.first = FALSE
      BY <1>9, <2>0 DEF Good, Continues
    <2>2. CASE th = <<>>
      <3>1. Len(ch) = 1
        BY <1>3, <2>2
      <3> QED
        BY <2>1, <2>2, <3>1 DEF Continues
    <2>3. CASE th # <<>>
      <3>1. Len(th) \in Nat \ {0}
        BY <1>2, <2>3, EmptySeq
      <3>2. Len(th) \in 1 .. Len(th)
        BY <3>1
      <3>3. th[Len(th)] = ch[Len(ch)]
        BY <1>2, <1>3, <3>2
      <3> QED
        BY <2>1, <2>3, <3>3 DEF Continues
    <2> QED
      BY <2>2, <2>3
  <1>10. Idle.pc = "idle" /\ Idle.todo = <<>> /\ ~ Idle.broken
    BY DEF Idle
  <1>11. Good(sg, c, th, j)
    <2>1. CASE c = Idle
      BY <1>1, <1>2, <1>7, <1>8, <1>10, <2>1 DEF Good, Typed, Busy
    <2>2. CASE c.pc \in Busy /\ ~ c.broken /\ c.todo # <<>>
      <3>1. c.pc \in {"lookup", "touch"} => FALSE
        BY <2>2 DEF Good, Busy
      <3> QED
        BY <1>1, <1>2, <1>7, <1>8, <1>9, <2>2, <3>1 DEF Good, Typed, Busy
    <2> QED
      BY <2>1, <2>2
  <1> QED
    BY <1>11 DEF th
------------------------------------------------------------------------------
(* Every step of the server and of a secondary keeps their connection good.  *)

TransferTypes ==
    /\ conn \in [Targets -> Connection]
    /\ chan \in [Targets -> Seq(Packet)]
    /\ \A t \in Targets : Len(chan[t]) <= Capacity
    /\ client \in [Targets -> Client]

Transferring ==
    /\ TransferTypes
    /\ \A t \in Targets : Good(t \in signed, conn[t], chan[t], client[t])

LEMMA AtTarget ==
    ASSUME Transferring, NEW t \in Targets
    PROVE  /\ Good(t \in signed, conn[t], chan[t], client[t])
           /\ conn[t] \in Connection /\ chan[t] \in Seq(Packet) /\ client[t] \in Client
           /\ Len(chan[t]) \in Nat /\ Len(chan[t]) <= Capacity
           /\ conn = [conn EXCEPT ![t] = conn[t]]
           /\ chan = [chan EXCEPT ![t] = chan[t]]
           /\ client = [client EXCEPT ![t] = client[t]]
  <1>1. chan[t] \in Seq(Packet)
    BY DEF Transferring, TransferTypes
  <1>2. Len(chan[t]) \in Nat
    BY <1>1, LenProperties
  <1> QED
    BY <1>1, <1>2 DEF Transferring, TransferTypes

\* One connection moves to a good state, the others stay.
LEMMA MoveGood ==
    ASSUME Transferring, NEW t \in Targets, NEW c, NEW ch, NEW k,
           Good(t \in signed, c, ch, k), Len(ch) <= Capacity,
           conn' = [conn EXCEPT ![t] = c],
           chan' = [chan EXCEPT ![t] = ch],
           client' = [client EXCEPT ![t] = k],
           signed' = signed
    PROVE  Transferring'
  <1>1. c \in Connection /\ ch \in Seq(Packet) /\ k \in Client
    BY DEF Good, Typed
  <1>2. /\ conn' \in [Targets -> Connection] /\ chan' \in [Targets -> Seq(Packet)]
        /\ client' \in [Targets -> Client]
    BY <1>1 DEF Transferring, TransferTypes
  <1>3. ASSUME NEW u \in Targets
        PROVE  /\ Len(chan'[u]) <= Capacity
               /\ Good(u \in signed', conn'[u], chan'[u], client'[u])
    <2>1. CASE u = t
      <3>1. conn'[u] = c /\ chan'[u] = ch /\ client'[u] = k
        BY <2>1 DEF Transferring, TransferTypes
      <3> QED
        BY <2>1, <3>1
    <2>2. CASE u # t
      <3>1. conn'[u] = conn[u] /\ chan'[u] = chan[u] /\ client'[u] = client[u]
        BY <2>2 DEF Transferring, TransferTypes
      <3> QED
        BY <3>1 DEF Transferring, TransferTypes
    <2> QED
      BY <2>1, <2>2
  <1> QED
    BY <1>2, <1>3 DEF Transferring, TransferTypes

LEMMA NoMoveGood ==
    Transferring /\ UNCHANGED <<signed, conn, chan, client>> => Transferring'
  BY DEF Transferring, TransferTypes

\* Respond ends a task that has not sent anything.
LEMMA RespondGood ==
    ASSUME Transferring, NEW t \in Targets, conn[t].pc \in {"request", "lookup", "touch"},
           NEW code \in {"refused", "servfail", "badsig", "badtime", "badalg"},
           Respond(t, code), UNCHANGED <<signed, client>>
    PROVE  Transferring'
  <1>1. chan[t] = <<>>
    BY AtTarget DEF Good
  <1>2. /\ Good(t \in signed, conn[t], <<>>, client[t])
        /\ client' = [client EXCEPT ![t] = client[t]]
    BY <1>1, AtTarget
  <1>3. conn' = [conn EXCEPT ![t] = Idle]
    BY DEF Respond, Finish
  <1>4. CASE conn[t].broken
    <2>1. Good(t \in signed, Idle, <<>>, client[t])
      BY <1>2, IdleGood
    <2>2. chan' = [chan EXCEPT ![t] = <<>>]
      BY <1>1, <1>4, AtTarget DEF Respond, Send
    <2>3. Len(<<>>) <= Capacity
      BY LimitsAssumption
    <2> QED
      BY <1>2, <1>3, <2>1, <2>2, <2>3, MoveGood
  <1>5. CASE ~ conn[t].broken
    <2> DEFINE ch == Append(<<>>, [msg |-> Error(code), mac |-> NoMac])
    <2>1. Good(t \in signed, Idle, ch, client[t])
      BY <1>2, <1>5, ErrorGood
    <2>2. chan' = [chan EXCEPT ![t] = ch]
      BY <1>1, <1>5 DEF Respond, Send
    <2>3. Len(ch) <= Capacity
      <3>1. <<>> \in Seq({[msg |-> Error(code), mac |-> NoMac]}) /\ Len(<<>>) = 0
        OBVIOUS
      <3>2. Len(ch) = 1
        BY <3>1, AppendProperties
      <3> QED
        BY <3>2, LimitsAssumption
    <2> HIDE DEF ch
    <2> QED
      BY <1>2, <1>3, <2>1, <2>2, <2>3, MoveGood
  <1> QED
    BY <1>4, <1>5

LEMMA HandleRequestGood ==
    ASSUME Transferring, NEW t \in Targets, file.version \in Nat, handle_request(t)
    PROVE  Transferring'
  <1> DEFINE c == conn[t]
             loaded == [c EXCEPT !.pc = "lookup", !.todo = Answers(c.query, file.version),
                                 !.hash = QueryMac(c.query)]
  <1>1. c.pc = "request" /\ UNCHANGED <<signed, client>>
    BY DEF handle_request
  <1>2. /\ Good(t \in signed, c, <<>>, client[t]) /\ chan[t] = <<>>
        /\ client' = [client EXCEPT ![t] = client[t]]
    BY <1>1, AtTarget DEF Good
  <1>3. ASSUME NEW code \in {"refused", "servfail", "badsig", "badtime"}, Respond(t, code)
        PROVE  Transferring'
    BY <1>1, <1>3, RespondGood
  <1>4. ASSUME Finish(t), UNCHANGED chan
        PROVE  Transferring'
    <2>1. Good(t \in signed, Idle, <<>>, client[t])
      BY <1>2, IdleGood
    <2>2. chan' = [chan EXCEPT ![t] = <<>>]
      BY <1>2, <1>4, AtTarget
    <2>3. Len(<<>>) <= Capacity
      BY LimitsAssumption
    <2> QED
      BY <1>1, <1>2, <1>4, <2>1, <2>2, <2>3, MoveGood DEF Finish
  <1>5. ASSUME c.query # "other", UNCHANGED chan,
               conn' = [conn EXCEPT ![t] = IF t \notin signed /\ c.query = "soa"
                                           THEN [loaded EXCEPT !.pc = "send"] ELSE loaded]
        PROVE  Transferring'
    <2> DEFINE Loaded(pc) == [c EXCEPT !.pc = pc, !.todo = Answers(c.query, file.version),
                                       !.hash = QueryMac(c.query)]
    <2>1. \A pc \in {"lookup", "send"} : Good(t \in signed, Loaded(pc), <<>>, client[t])
      BY <1>1, <1>2, <1>5, LoadGood
    <2>2. [loaded EXCEPT !.pc = "send"] = Loaded("send") /\ loaded = Loaded("lookup")
      <3>1. c \in Connection
        BY AtTarget
      <3> QED
        BY <3>1 DEF Connection
    <2>3. chan' = [chan EXCEPT ![t] = <<>>]
      BY <1>2, <1>5, AtTarget
    <2>4. Len(<<>>) <= Capacity
      BY LimitsAssumption
    <2> HIDE DEF Loaded, loaded
    <2>5. CASE t \notin signed /\ c.query = "soa"
      <3>1. conn' = [conn EXCEPT ![t] = Loaded("send")]
        BY <1>5, <2>2, <2>5
      <3>2. Good(t \in signed, Loaded("send"), <<>>, client[t])
        BY <2>1
      <3> QED
        BY <1>1, <1>2, <2>3, <2>4, <3>1, <3>2, MoveGood
    <2>6. CASE ~ (t \notin signed /\ c.query = "soa")
      <3>1. conn' = [conn EXCEPT ![t] = Loaded("lookup")]
        BY <1>5, <2>2, <2>6
      <3>2. Good(t \in signed, Loaded("lookup"), <<>>, client[t])
        BY <2>1
      <3> QED
        BY <1>1, <1>2, <2>3, <2>4, <3>1, <3>2, MoveGood
    <2> QED
      BY <2>5, <2>6
  <1> QED
    BY <1>3, <1>4, <1>5 DEF handle_request

LEMMA FindRowGood ==
    ASSUME Transferring, NEW t \in Targets, rows \in [Keys -> Values], find_row(t)
    PROVE  Transferring'
  <1>1. conn[t].pc = "lookup" /\ UNCHANGED <<signed, client>>
    BY DEF find_row
  <1> DEFINE value == rows[<<"access", t>>]
             d == [conn[t] EXCEPT !.pc = "touch", !.row = value]
  <1>2. ASSUME conn' = [conn EXCEPT ![t] = d], UNCHANGED chan
        PROVE  Transferring'
    <2>0. value \in Values
      BY DEF Keys
    <2> HIDE DEF value
    <2>1. /\ d \in Connection /\ d.pc = "touch" /\ d.todo = conn[t].todo /\ d.hash = conn[t].hash
          /\ d.first = conn[t].first /\ d.broken = conn[t].broken
      BY <2>0, AtTarget DEF Connection
    <2> HIDE DEF d
    <2>2. Good(t \in signed, d, chan[t], client[t])
      BY <1>1, <2>1, AtTarget, StageGood
    <2> QED
      BY <1>1, <1>2, <2>2, AtTarget, MoveGood
  <1>3. ASSUME NEW code \in {"badsig", "refused"}, Respond(t, code) PROVE Transferring'
    BY <1>1, <1>3, RespondGood
  <1> QED
    BY <1>2, <1>3 DEF find_row

LEMMA LookupFailsGood ==
    ASSUME Transferring, NEW t \in Targets, lookup_fails(t)
    PROVE  Transferring'
  BY RespondGood DEF lookup_fails

LEMMA SaveLastUsedGood ==
    ASSUME Transferring, NEW t \in Targets, save_last_used(t)
    PROVE  Transferring'
  <1>1. conn[t].pc = "touch" /\ UNCHANGED <<signed, client>>
    BY DEF save_last_used
  <1> DEFINE d == [conn[t] EXCEPT !.pc = "send"]
  <1>2. ASSUME conn' = [conn EXCEPT ![t] = d], UNCHANGED chan
        PROVE  Transferring'
    <2>1. /\ d \in Connection /\ d.pc = "send" /\ d.todo = conn[t].todo /\ d.hash = conn[t].hash
          /\ d.first = conn[t].first /\ d.broken = conn[t].broken
      BY AtTarget DEF Connection
    <2> HIDE DEF d
    <2>2. Good(t \in signed, d, chan[t], client[t])
      BY <1>1, <2>1, AtTarget, StageGood
    <2> QED
      BY <1>1, <1>2, <2>2, AtTarget, MoveGood
  <1>3. ASSUME NEW code \in {"badsig", "badalg"}, Respond(t, code) PROVE Transferring'
    BY <1>1, <1>3, RespondGood
  <1> QED
    BY <1>2, <1>3 DEF save_last_used
LEMMA SendResponseGood ==
    ASSUME Transferring, NEW t \in Targets, send_response(t)
    PROVE  Transferring'
  <1> DEFINE c == conn[t]
             mac == MacOf(t)
             d == IF Len(c.todo) = 1 THEN Idle ELSE AfterSigning(t)
             e == [msg |-> Head(c.todo), mac |-> mac]
  <1>1. /\ c.pc = "send" /\ Len(chan[t]) < Capacity /\ UNCHANGED <<signed, client>>
        /\ conn' = [conn EXCEPT ![t] = d]
        /\ chan' = IF c.broken THEN chan ELSE [chan EXCEPT ![t] = Append(@, e)]
    BY DEF send_response, HasRoom, Send, NextMessage
  <1>2. /\ Good(t \in signed, c, chan[t], client[t]) /\ c \in Connection
        /\ chan[t] \in Seq(Packet) /\ Len(chan[t]) \in Nat
        /\ client' = [client EXCEPT ![t] = client[t]]
    BY <1>1, AtTarget
  <1>3. c.todo # <<>> /\ c.todo \in Seq(Message)
    BY <1>1, <1>2 DEF Good, Busy, Connection
  <1>4. /\ Head(c.todo) \in Message /\ Tail(c.todo) \in Seq(Message)
        /\ Len(Tail(c.todo)) = Len(c.todo) - 1
    BY <1>3, HeadTailProperties
  <1>5. mac \in Macs /\ (t \in signed => mac = Mac(c.hash, Head(c.todo), c.first))
    <2>1. c.hash \in Macs /\ c.first \in BOOLEAN
      BY <1>2 DEF Connection
    <2> QED
      BY <1>4, <2>1, MacTypes DEF MacOf, NextMessage
  <1>6. d = IF Len(c.todo) = 1 THEN Idle
            ELSE [c EXCEPT !.todo = Tail(@), !.hash = mac, !.first = FALSE]
    BY DEF AfterSigning
  <1> HIDE DEF mac, d
  <1>7. CASE c.broken
    <2>0. chan[t] = <<>> /\ chan' = [chan EXCEPT ![t] = chan[t]]
      BY <1>1, <1>2, <1>7, AtTarget DEF Good
    <2>1. Good(t \in signed, d, chan[t], client[t])
      <3>1. CASE Len(c.todo) = 1
        <4>1. Good(t \in signed, Idle, <<>>, client[t])
          BY <1>2, <2>0, IdleGood
        <4> QED
          BY <1>6, <2>0, <3>1, <4>1
      <3>2. CASE Len(c.todo) # 1
        <4>1. /\ d \in Connection /\ d.pc = "send" /\ d.broken /\ d.todo = Tail(c.todo)
          BY <1>1, <1>2, <1>4, <1>5, <1>6, <1>7, <3>2 DEF Connection
        <4>2. Tail(c.todo) # <<>>
          <5>1. Len(c.todo) \in Nat
            BY <1>3
          <5>2. Len(Tail(c.todo)) # 0
            BY <1>4, <3>2, <5>1
          <5> QED
            BY <5>2, EmptySeq
        <4> QED
          BY <1>1, <1>2, <1>7, <4>1, <4>2, SendBrokenGood
      <3> QED
        BY <3>1, <3>2
    <2>2. Len(chan[t]) <= Capacity
      BY AtTarget
    <2> QED
      BY <1>1, <1>2, <2>0, <2>1, <2>2, MoveGood
  <1>8. CASE ~ c.broken
    <2> DEFINE ch == Append(chan[t], e)
    <2>1. Good(t \in signed, d, ch, client[t])
      <3>1. (t \in signed) \in BOOLEAN
        OBVIOUS
      <3> QED
        BY <1>1, <1>2, <1>5, <1>6, <1>8, <3>1, SendGood
    <2>2. chan' = [chan EXCEPT ![t] = ch]
      BY <1>1, <1>8
    <2>3. Len(ch) <= Capacity
      <3>1. e \in Packet
        BY <1>4, <1>5 DEF Packet
      <3>2. Len(ch) = Len(chan[t]) + 1
        BY <1>2, <3>1, AppendProperties
      <3> QED
        BY <1>1, <1>2, <3>2, LimitsAssumption
    <2> HIDE DEF ch
    <2> QED
      BY <1>1, <1>2, <2>1, <2>2, <2>3, MoveGood
  <1> QED
    BY <1>7, <1>8

LEMMA ConnectionLostGood ==
    ASSUME Transferring, NEW t \in Targets, connection_lost(t)
    PROVE  Transferring'
  <1> DEFINE d == CASE conn[t].pc = "idle"    -> conn[t]
                    [] conn[t].pc = "request" -> Idle
                    [] OTHER                  -> [conn[t] EXCEPT !.broken = TRUE]
  <1>1. /\ client[t].query # "none" /\ UNCHANGED <<signed, client>>
        /\ conn' = [conn EXCEPT ![t] = d] /\ chan' = [chan EXCEPT ![t] = <<>>]
    BY DEF connection_lost
  <1>2. Good(t \in signed, d, <<>>, client[t])
    BY <1>1, AtTarget, LostGood
  <1>3. Len(<<>>) <= Capacity
    BY LimitsAssumption
  <1>4. client' = [client EXCEPT ![t] = client[t]]
    BY <1>1, AtTarget
  <1> HIDE DEF d
  <1> QED
    BY <1>1, <1>2, <1>3, <1>4, MoveGood

Sigs == {"none", "good", "malformed", "late", "badmac", "badalg"}

\* Ask, on a channel with nothing in it.
LEMMA AskMoves ==
    ASSUME Transferring, NEW t \in Targets, NEW query \in Queries, NEW sig \in Sigs,
           NEW notified \in BOOLEAN, Ask(t, query, sig, notified),
           chan' = [chan EXCEPT ![t] = <<>>], signed' = signed
    PROVE  Transferring'
  <1> DEFINE c == [Idle EXCEPT !.pc = "request", !.query = query, !.sig = sig]
             k == [Quiet EXCEPT !.query = query, !.hash = QueryMac(query),
                                !.notified = notified]
  <1>1. Good(t \in signed, c, <<>>, k)
    BY AskGood DEF Sigs
  <1>2. conn' = [conn EXCEPT ![t] = c] /\ client' = [client EXCEPT ![t] = k]
    BY DEF Ask
  <1>3. Len(<<>>) <= Capacity
    BY LimitsAssumption
  <1> HIDE DEF c, k
  <1> QED
    BY <1>1, <1>2, <1>3, MoveGood

\* A secondary at rest has an empty channel.
LEMMA QuietEmpty ==
    ASSUME Transferring, NEW t \in Targets, client[t] = Quiet
    PROVE  chan[t] = <<>> /\ chan = [chan EXCEPT ![t] = <<>>]
  <1>0. Good(t \in signed, conn[t], chan[t], client[t]) /\ client[t].query = "none"
    BY AtTarget DEF Quiet
  <1>1. chan[t] = <<>>
    BY <1>0 DEF Good
  <1> QED
    BY <1>1, AtTarget

LEMMA RefreshGood ==
    ASSUME Transferring, NEW t \in Targets, refresh(t)
    PROVE  Transferring'
  <1>1. chan' = [chan EXCEPT ![t] = <<>>] /\ signed' = signed
    BY QuietEmpty DEF refresh
  <1>2. SigOf(t) \in Sigs /\ "soa" \in Queries /\ (t \in wake) \in BOOLEAN
    BY DEF SigOf, Sigs, Queries
  <1>3. Ask(t, "soa", SigOf(t), t \in wake)
    BY DEF refresh
  <1> QED
    BY <1>1, <1>2, <1>3, AskMoves

LEMMA OddQueryGood ==
    ASSUME Transferring, NEW t \in Targets, NEW q \in OddQueries, odd_query(t, q[1], q[2])
    PROVE  Transferring'
  <1>1. chan' = [chan EXCEPT ![t] = <<>>] /\ signed' = signed
    BY QuietEmpty DEF odd_query
  <1>2. q[1] \in Queries /\ q[2] \in Sigs
    BY DEF OddQueries, Queries, Sigs
  <1>3. Ask(t, q[1], q[2], FALSE)
    BY DEF odd_query
  <1> QED
    BY <1>1, <1>2, <1>3, AskMoves

\* The round of a secondary ends with nothing on the way.
LEMMA GiveUpGood ==
    ASSUME Transferring, NEW t \in Targets, NEW failed, GiveUp(t, failed),
           conn[t] = Idle \/ conn[t].broken,
           chan' = [chan EXCEPT ![t] = <<>>], UNCHANGED <<signed, conn>>
    PROVE  Transferring'
  <1>1. conn[t].broken => conn[t].pc \in Busy /\ conn[t].todo # <<>>
    BY AtTarget DEF Good
  <1>2. Good(t \in signed, conn[t], <<>>, Quiet)
    BY <1>1, AtTarget, QuietGood
  <1>3. conn' = [conn EXCEPT ![t] = conn[t]] /\ client' = [client EXCEPT ![t] = Quiet]
    BY AtTarget DEF GiveUp
  <1>4. Len(<<>>) <= Capacity
    BY LimitsAssumption
  <1> QED
    BY <1>2, <1>3, <1>4, MoveGood

LEMMA EndOfAnswersGood ==
    ASSUME Transferring, NEW t \in Targets, end_of_answers(t)
    PROVE  Transferring'
  <1>1. chan' = [chan EXCEPT ![t] = <<>>]
    BY AtTarget DEF end_of_answers
  <1> QED
    BY <1>1, GiveUpGood DEF end_of_answers
\* receive: the connection stays good, and what is installed is one version of
\* the zone.
LEMMA ReceiveGood ==
    ASSUME Transferring, NEW t \in Targets, receive(t)
    PROVE  /\ Transferring'
           /\ \/ copy' = copy
              \/ \E v \in Nat : copy' = [copy EXCEPT ![t] =
                                           [version |-> v, records |-> Records(v)]]
  <1> DEFINE c == conn[t]
             ch == chan[t]
             k == client[t]
             m == Head(ch).msg
             mac == Head(ch).mac
             more == [k EXCEPT !.hash = mac, !.opened = TRUE]
  <1>1. /\ k.query # "none" /\ ch # <<>> /\ chan' = [chan EXCEPT ![t] = Tail(ch)]
        /\ signed' = signed
    BY DEF receive
  <1>2. /\ Good(t \in signed, c, ch, k) /\ c \in Connection /\ ch \in Seq(Packet)
        /\ k \in Client /\ Len(ch) \in Nat /\ Len(ch) <= Capacity
    BY AtTarget
  <1>3. Head(ch) = ch[1] /\ m = ch[1].msg /\ mac = ch[1].mac
    BY <1>1, <1>2
  <1>4. ch[1] \in Packet /\ m \in Message /\ mac \in Macs
    <2>1. Head(ch) \in Packet
      BY <1>1, <1>2, HeadTailProperties
    <2> QED
      BY <1>3, <2>1 DEF Packet
  <1> DEFINE sg == t \in signed
  <1>5. ErrorFirst(c, ch) \/ AnswerFirst(sg, c, ch, k)
    <2>1. sg \in BOOLEAN
      OBVIOUS
    <2>2. Good(sg, c, ch, k) /\ ch # <<>>
      BY <1>1, <1>2
    <2> HIDE DEF ch, c, k, sg
    <2> QED
      BY <2>1, <2>2, FirstInChannel
  <1>6. CASE m.kind = "error"
    <2>1. c = Idle /\ Tail(ch) = <<>>
      BY <1>3, <1>5, <1>6 DEF ErrorFirst, AnswerFirst
    <2>2. GiveUp(t, TRUE) /\ UNCHANGED <<conn, copy>>
      BY <1>6 DEF receive
    <2> QED
      BY <1>1, <2>1, <2>2, GiveUpGood
  <1>7. CASE m.kind # "error"
    <2>1. PICK v \in Nat, n \in Nat :
             /\ Transfer(c.todo, ch, k, v, n)
             /\ ch[1].msg = AnswerAt(k.query, v, n + 1)
             /\ n + 1 <= Length(k.query)
             /\ n + 1 = Length(k.query) => c = Idle /\ Tail(ch) = <<>>
      BY <1>3, <1>5, <1>7 DEF ErrorFirst, AnswerFirst
    <2>2. Verifies(t, m, mac)
      BY <1>3, <1>5, <1>7 DEF ErrorFirst, AnswerFirst, Verifies
    <2>3. c = Idle \/ (c.pc \in Busy /\ ~ c.broken /\ c.todo # <<>>)
      BY <1>3, <1>5, <1>7 DEF ErrorFirst, AnswerFirst
    <2>4. /\ m.kind \in {"soa", "rr"} /\ m.version = v
          /\ m.kind = "soa" <=> k.query = "soa" \/ n + 1 = 1 \/ n + 1 = NumRecords + 2
      BY <1>3, <2>1, AnswerKinds
    <2>5. NumRecords \in Nat
      BY LimitsAssumption
    <2>6. CASE k.query = "soa"
      <3>1. n + 1 = Length(k.query)
        BY <2>1, <2>6 DEF Length
      <3>2. c = Idle /\ Tail(ch) = <<>>
        BY <2>1, <3>1
      <3>3. CASE m.version > copy[t].version
        <4>1. Ask(t, "axfr", SigOf(t), k.notified) /\ UNCHANGED copy
          BY <1>7, <2>2, <2>6, <3>3 DEF receive
        <4>2. SigOf(t) \in Sigs /\ "axfr" \in Queries /\ k.notified \in BOOLEAN
          BY <1>2 DEF SigOf, Sigs, Queries, Client
        <4>3. Transferring'
          BY <1>1, <3>2, <4>1, <4>2, AskMoves
        <4> QED
          BY <4>1, <4>3
      <3>4. CASE ~ (m.version > copy[t].version)
        <4>1. GiveUp(t, TRUE) /\ UNCHANGED <<conn, copy>>
          BY <1>7, <2>2, <2>6, <3>4 DEF receive
        <4> QED
          BY <1>1, <3>2, <4>1, GiveUpGood
      <3> QED
        BY <3>3, <3>4
    <2>7. CASE k.query # "soa"
      <3>0. k.query = "axfr" /\ Length(k.query) = NumRecords + 2
        BY <2>1, <2>7 DEF Transfer, Length
      <3>1. CASE k.opened /\ m.kind = "soa"
        <4>1. n = NumRecords + 1
          <5>1. n > 0
            BY <2>1, <3>1 DEF Transfer
          <5> QED
            BY <2>4, <2>5, <2>7, <3>1, <5>1
        <4>2. c = Idle /\ Tail(ch) = <<>>
          <5>1. n + 1 = Length(k.query)
            BY <2>5, <3>0, <4>1
          <5> QED
            BY <2>1, <5>1
        <4>3. k.got = Records(v)
          <5>1. k.got = {Rr(v, i) : i \in 1 .. n - 1} /\ n - 1 = NumRecords
            BY <2>1, <2>5, <4>1 DEF Transfer
          <5> QED
            BY <5>1 DEF Records
        <4>4. /\ copy' = [copy EXCEPT ![t] = [version |-> m.version, records |-> k.got]]
              /\ GiveUp(t, m.version # local.version)
              /\ UNCHANGED conn
          BY <1>7, <2>2, <2>7, <3>1 DEF receive
        <4>5. Transferring'
          BY <1>1, <4>2, <4>4, GiveUpGood
        <4> QED
          BY <2>4, <4>3, <4>4, <4>5
      <3>2. CASE ~ (k.opened /\ m.kind = "soa")
        <4> DEFINE j == IF m.kind = "rr" THEN [more EXCEPT !.got = @ \cup {m}] ELSE more
        <4>1. client' = [client EXCEPT ![t] = j] /\ UNCHANGED <<conn, copy>>
          BY <1>7, <2>2, <2>7, <3>2 DEF receive
        <4>2. /\ j \in Client /\ j.query = k.query /\ j.hash = mac /\ j.opened /\ ~ j.bad
              /\ j.got = IF m.kind = "rr" THEN k.got \cup {m} ELSE k.got
          <5>1. ~ k.bad
            BY <1>2 DEF Good
          <5> QED
            BY <1>2, <1>4, <5>1 DEF Client
        <4>3. n + 1 <= NumRecords + 1
          <5>1. n + 1 # NumRecords + 2
            <6>1. n > 0 <=> k.opened
              BY <2>1 DEF Transfer
            <6> QED
              BY <2>4, <2>5, <3>2, <6>1
          <5> QED
            BY <2>1, <2>5, <3>0, <5>1
        <4> HIDE DEF j, m, mac
        <4>4. Good(t \in signed, c, Tail(ch), j)
          <5>1. (t \in signed) \in BOOLEAN
            OBVIOUS
          <5> HIDE DEF c, ch, k
          <5> QED
            BY <1>1, <1>2, <1>3, <2>1, <2>3, <3>0, <4>2, <4>3, <5>1, MoreGood
        <4>5. Len(Tail(ch)) <= Capacity
          <5>1. Len(Tail(ch)) = Len(ch) - 1
            BY <1>1, <1>2, HeadTailProperties
          <5> QED
            BY <1>2, <5>1, LimitsAssumption
        <4>6. conn' = [conn EXCEPT ![t] = c]
          BY <4>1, AtTarget
        <4>7. Transferring'
          BY <1>1, <4>1, <4>4, <4>5, <4>6, MoveGood
        <4> QED
          BY <4>1, <4>7
      <3> QED
        BY <3>1, <3>2
    <2> QED
      BY <2>6, <2>7
  <1> QED
    BY <1>6, <1>7
------------------------------------------------------------------------------
(* Type correctness, and what the steps of the whole chain leave alone.      *)

StateTypes ==
    /\ signed \subseteq Targets
    /\ file \in [version : Nat, kind : {"good", "bad", "panic"}]
    /\ local \in [version : Nat, told : BOOLEAN, notify : BOOLEAN]
    /\ rows \in [Keys -> Values] /\ wanted \in [Keys -> Values]
    /\ raced \subseteq Keys
    /\ held \in [Handlers -> {NoForm} \cup [op : {"create", "edit", "delete"}, key : Keys]]
    /\ wake \subseteq Targets /\ missed \subseteq Targets
    /\ events \in 0 .. MaxEvents

UpTypes ==
    /\ primary \in [version : Nat, notify : BOOLEAN]
    /\ reloads \in Nat /\ sidecar \in BOOLEAN /\ reloadLost \in BOOLEAN

DownTypes ==
    /\ thread \in [pc : {"idle", "lookup", "publish"}, left : SUBSET Notice]
    /\ queue \in Seq(Notice) /\ unacked \in Seq(Notice)
    /\ current = Nobody \/ current \in [pc : {"send", "ack"}, msg : Notice]

CopyTypes == copy \in [Targets -> [version : Nat, records : SUBSET Message]]

LEMMA TypeParts == TypeOK <=> StateTypes /\ UpTypes /\ DownTypes /\ CopyTypes /\ TransferTypes
  BY DEF TypeOK, StateTypes, UpTypes, DownTypes, CopyTypes, TransferTypes

LEMMA EventTypes == ASSUME StateTypes, Event PROVE events' \in 0 .. MaxEvents
  BY LimitsAssumption DEF StateTypes, Event

\* The steps of AxfrServer.
LEMMA AxfrStateTypes ==
    ASSUME StateTypes, TransferTypes, AxfrNext
    PROVE  StateTypes'
  <1> USE DEF StateTypes
  <1>1. ASSUME NEW h \in Handlers, NEW k \in Keys, NEW op \in {"create", "edit", "delete"},
               open_form(h, k, op)
        PROVE  StateTypes'
    <2>1. events' \in 0 .. MaxEvents
      BY <1>1, EventTypes DEF open_form
    <2>2. held' \in [Handlers -> {NoForm} \cup [op : {"create", "edit", "delete"}, key : Keys]]
      BY <1>1 DEF open_form
    <2> QED
      BY <1>1, <2>1, <2>2 DEF open_form
  <1>2. ASSUME NEW h \in Handlers, NEW value \in Values, submit_form(h, value)
        PROVE  StateTypes'
    <2>1. held[h].key \in Keys
      BY <1>2 DEF submit_form
    <2>2. /\ rows' \in [Keys -> Values] /\ wanted' \in [Keys -> Values]
          /\ raced' \subseteq Keys
      BY <1>2, <2>1 DEF submit_form, Race
    <2>3. held' \in [Handlers -> {NoForm} \cup [op : {"create", "edit", "delete"}, key : Keys]]
      BY <1>2 DEF submit_form
    <2> QED
      BY <1>2, <2>2, <2>3 DEF submit_form
  <1>3. ASSUME NEW t \in Targets, ServerStep(t) PROVE StateTypes'
    <2>1. CASE handle_request(t)
      BY <2>1 DEF handle_request, rowVars
    <2>2. CASE find_row(t)
      BY <2>2 DEF find_row, rowVars
    <2>3. CASE save_last_used(t)
      <3>1. conn[t].row \in Values
        BY DEF TransferTypes, Connection
      <3>2. rows' \in [Keys -> Values]
        BY <2>3, <3>1 DEF save_last_used, RowSaved
      <3> QED
        BY <2>3, <3>2 DEF save_last_used
    <2>4. CASE send_response(t)
      BY <2>4 DEF send_response, rowVars
    <2> QED
      BY <1>3, <2>1, <2>2, <2>3, <2>4 DEF ServerStep
  <1>4. ASSUME NEW t \in Targets, ClientStep(t) PROVE StateTypes'
    <2>0. ASSUME NEW failed, GiveUp(t, failed) PROVE missed' \subseteq Targets
      BY <2>0 DEF GiveUp
    <2>1. CASE receive(t)
      <3>1. missed' \subseteq Targets
        BY <2>0, <2>1 DEF receive
      <3> QED
        BY <2>1, <3>1 DEF receive, rowVars
    <2>2. CASE end_of_answers(t)
      BY <2>0, <2>2 DEF end_of_answers, rowVars
    <2> QED
      BY <1>4, <2>1, <2>2 DEF ClientStep
  <1>5. ASSUME NEW t \in Targets, refresh(t) PROVE StateTypes'
    BY <1>5 DEF refresh, rowVars
  <1>6. ASSUME NEW t \in Targets, lookup_fails(t) PROVE StateTypes'
    <2>1. events' \in 0 .. MaxEvents
      BY <1>6, EventTypes DEF lookup_fails
    <2> QED
      BY <1>6, <2>1 DEF lookup_fails, rowVars
  <1>7. ASSUME NEW t \in Targets, connection_lost(t) PROVE StateTypes'
    <2>1. events' \in 0 .. MaxEvents
      BY <1>7, EventTypes DEF connection_lost
    <2> QED
      BY <1>7, <2>1 DEF connection_lost, rowVars
  <1>8. ASSUME NEW t \in Targets, NEW q \in OddQueries, odd_query(t, q[1], q[2])
        PROVE  StateTypes'
    <2>1. events' \in 0 .. MaxEvents
      BY <1>8, EventTypes DEF odd_query
    <2> QED
      BY <1>8, <2>1 DEF odd_query, rowVars
  <1> QED
    BY <1>1, <1>2, <1>3, <1>4, <1>5, <1>6, <1>7, <1>8 DEF AxfrNext

LEMMA AxfrTransferring ==
    ASSUME StateTypes, Transferring, AxfrNext
    PROVE  Transferring'
  <1>0. file.version \in Nat /\ rows \in [Keys -> Values]
    BY DEF StateTypes
  <1>1. ASSUME NEW h \in Handlers, NEW k \in Keys, NEW op \in {"create", "edit", "delete"},
               open_form(h, k, op)
        PROVE  Transferring'
    BY <1>1, NoMoveGood DEF open_form, connVars
  <1>2. ASSUME NEW h \in Handlers, NEW value \in Values, submit_form(h, value)
        PROVE  Transferring'
    BY <1>2, NoMoveGood DEF submit_form, connVars
  <1>3. ASSUME NEW t \in Targets, ServerStep(t) PROVE Transferring'
    BY <1>0, <1>3, HandleRequestGood, FindRowGood, SaveLastUsedGood, SendResponseGood DEF ServerStep
  <1>4. ASSUME NEW t \in Targets, ClientStep(t) PROVE Transferring'
    BY <1>4, ReceiveGood, EndOfAnswersGood DEF ClientStep
  <1>5. ASSUME NEW t \in Targets, refresh(t) PROVE Transferring'
    BY <1>5, RefreshGood
  <1>6. ASSUME NEW t \in Targets, lookup_fails(t) PROVE Transferring'
    BY <1>6, LookupFailsGood
  <1>7. ASSUME NEW t \in Targets, connection_lost(t) PROVE Transferring'
    BY <1>7, ConnectionLostGood
  <1>8. ASSUME NEW t \in Targets, NEW q \in OddQueries, odd_query(t, q[1], q[2])
        PROVE  Transferring'
    BY <1>8, OddQueryGood
  <1> QED
    BY <1>1, <1>2, <1>3, <1>4, <1>5, <1>6, <1>7, <1>8 DEF AxfrNext

\* Only receive changes what a secondary serves.
LEMMA AxfrCopy ==
    ASSUME Transferring, AxfrNext
    PROVE  \/ copy' = copy
           \/ \E t \in Targets, v \in Nat :
                 copy' = [copy EXCEPT ![t] = [version |-> v, records |-> Records(v)]]
  <1>1. ASSUME NEW t \in Targets, receive(t)
        PROVE  \/ copy' = copy
               \/ \E v \in Nat : copy' = [copy EXCEPT ![t] =
                                            [version |-> v, records |-> Records(v)]]
    BY <1>1, ReceiveGood
  <1>2. ASSUME NEW t \in Targets, ServerStep(t) PROVE copy' = copy
    BY <1>2 DEF ServerStep, handle_request, find_row, save_last_used, send_response
  <1>3. ASSUME NEW t \in Targets, end_of_answers(t) PROVE copy' = copy
    BY <1>3 DEF end_of_answers
  <1>4. ASSUME NEW t \in Targets,
               \/ refresh(t) \/ lookup_fails(t) \/ connection_lost(t)
               \/ \E q \in OddQueries : odd_query(t, q[1], q[2])
        PROVE  copy' = copy
    BY <1>4 DEF refresh, lookup_fails, connection_lost, odd_query
  <1>5. ASSUME \/ \E h \in Handlers, k \in Keys, op \in {"create", "edit", "delete"} :
                     open_form(h, k, op)
               \/ \E h \in Handlers, value \in Values : submit_form(h, value)
        PROVE  copy' = copy
    BY <1>5 DEF open_form, submit_form, connVars
  <1> QED
    BY <1>1, <1>2, <1>3, <1>4, <1>5 DEF AxfrNext, ClientStep

LEMMA RecordTypes == \A v \in Nat : Records(v) \subseteq Message
  BY DEF Records, Rr, Message

LEMMA CopySteps ==
    ASSUME CopyTypes, InstalledWhole, NEW t \in Targets, NEW v \in Nat,
           copy' = [copy EXCEPT ![t] = [version |-> v, records |-> Records(v)]]
    PROVE  CopyTypes' /\ InstalledWhole'
  <1>1. CopyTypes'
    BY RecordTypes DEF CopyTypes
  <1>2. ASSUME NEW u \in Targets PROVE copy'[u].records = Records(copy'[u].version)
    BY DEF CopyTypes, InstalledWhole
  <1> QED
    BY <1>1, <1>2 DEF InstalledWhole
\* The steps of the chain of NOTIFYs touch no connection and no row.
LEMMA ChainFrame ==
    ASSUME ChainNext
    PROVE  UNCHANGED <<signed, rows, wanted, raced, held, conn, chan, client, copy>>
  BY DEF ChainNext, ChainStep, notify_conn, callback, sidecar_reconnects, axfr_notify_conn,
         lookup_targets, publish, consume, skip, send_notify, ack, primary_loads, notify_fails,
         sidecar_disconnects, local_refreshes, local_flushes, thread_dies, resolve_fails,
         send_fails, consumer_restarts, AxfrRest, axfrVars, rowVars, connVars

LEMMA ListedTypes == ASSUME StateTypes PROVE Listed \subseteq Notice
  <1>1. \A t \in Targets : <<"notify", t>> \in Keys
    BY DEF Keys
  <1>2. ASSUME NEW t \in Targets, rows[<<"notify", t>>] # "absent"
        PROVE  [target |-> t, server |-> rows[<<"notify", t>>]] \in Notice
    <2>1. rows[<<"notify", t>>] \in Values
      BY <1>1 DEF StateTypes
    <2>2. rows[<<"notify", t>>] \in {"on", "off"}
      BY <1>2, <2>1 DEF Values
    <2> QED
      BY <2>2 DEF Notice
  <1>3. ASSUME NEW m \in Listed PROVE m \in Notice
    <2>1. PICK t \in {u \in Targets : rows[<<"notify", u>>] # "absent"} :
             m = [target |-> t, server |-> rows[<<"notify", t>>]]
      BY <1>3, Zenon DEF Listed
    <2> QED
      BY <1>2, <2>1
  <1> QED
    BY <1>3

\* The message axfr-notify is at is one from the queue.
LEMMA CurrentTypes ==
    ASSUME DownTypes, current.pc \in {"send", "ack"} \/ current # Nobody
    PROVE  current \in [pc : {"send", "ack"}, msg : Notice]
  BY DEF DownTypes, Nobody

LEMMA UpSteps ==
    ASSUME StateTypes, UpTypes, DownTypes,
           \/ \E answered \in BOOLEAN : notify_conn(answered)
           \/ callback \/ sidecar_reconnects \/ primary_loads \/ notify_fails
           \/ sidecar_disconnects \/ local_refreshes
           \/ \E kind \in {"good", "bad", "panic"} : local_flushes(kind)
    PROVE  StateTypes' /\ UpTypes' /\ DownTypes'
  <1> USE DEF StateTypes, UpTypes, AxfrRest, axfrVars, rowVars, connVars, upVars
  <1>0. UNCHANGED downVars => DownTypes'
    BY DEF DownTypes, downVars
  <1>1. ASSUME NEW answered \in BOOLEAN, notify_conn(answered)
        PROVE  StateTypes' /\ UpTypes' /\ DownTypes'
    <2>1. events' \in 0 .. MaxEvents
      BY <1>1, EventTypes DEF notify_conn
    <2>2. primary' \in [version : Nat, notify : BOOLEAN]
      BY <1>1 DEF notify_conn
    <2>3. reloads' \in Nat
      BY <1>1 DEF notify_conn
    <2>4. reloadLost' \in BOOLEAN
      BY <1>1, Zenon DEF notify_conn
    <2> QED
      BY <1>0, <1>1, <2>1, <2>2, <2>3, <2>4 DEF notify_conn
  <1>2. ASSUME callback PROVE StateTypes' /\ UpTypes' /\ DownTypes'
    <2>1. reloads' \in Nat
      BY <1>2 DEF callback
    <2>2. local' \in [version : Nat, told : BOOLEAN, notify : BOOLEAN]
      BY <1>2 DEF callback
    <2> QED
      BY <1>0, <1>2, <2>1, <2>2 DEF callback
  <1>3. ASSUME sidecar_reconnects PROVE StateTypes' /\ UpTypes' /\ DownTypes'
    BY <1>0, <1>3 DEF sidecar_reconnects
  <1>4. ASSUME primary_loads PROVE StateTypes' /\ UpTypes' /\ DownTypes'
    <2>1. events' \in 0 .. MaxEvents /\ primary' \in [version : Nat, notify : BOOLEAN]
      BY <1>4, EventTypes DEF primary_loads
    <2> QED
      BY <1>0, <1>4, <2>1 DEF primary_loads
  <1>5. ASSUME notify_fails PROVE StateTypes' /\ UpTypes' /\ DownTypes'
    <2>1. events' \in 0 .. MaxEvents /\ primary' \in [version : Nat, notify : BOOLEAN]
      BY <1>5, EventTypes DEF notify_fails
    <2> QED
      BY <1>0, <1>5, <2>1 DEF notify_fails
  <1>6. ASSUME sidecar_disconnects PROVE StateTypes' /\ UpTypes' /\ DownTypes'
    <2>1. events' \in 0 .. MaxEvents /\ reloadLost' \in BOOLEAN
      BY <1>6, EventTypes DEF sidecar_disconnects
    <2> QED
      BY <1>0, <1>6, <2>1 DEF sidecar_disconnects
  <1>7. ASSUME local_refreshes PROVE StateTypes' /\ UpTypes' /\ DownTypes'
    <2>1. (local.notify \/ local.version < primary.version) \in BOOLEAN
      OBVIOUS
    <2>2. local' \in [version : Nat, told : BOOLEAN, notify : BOOLEAN]
      BY <1>7, <2>1 DEF local_refreshes
    <2> QED
      BY <1>0, <1>7, <2>2 DEF local_refreshes
  <1>8. ASSUME NEW kind \in {"good", "bad", "panic"}, local_flushes(kind)
        PROVE  StateTypes' /\ UpTypes' /\ DownTypes'
    <2>1. events' \in 0 .. MaxEvents
      BY <1>8, EventTypes DEF local_flushes
    <2> QED
      BY <1>0, <1>8, <2>1 DEF local_flushes
  <1> QED
    BY <1>1, <1>2, <1>3, <1>4, <1>5, <1>6, <1>7, <1>8

LEMMA DownSteps ==
    ASSUME StateTypes, UpTypes, DownTypes,
           \/ \E answered \in BOOLEAN : axfr_notify_conn(answered)
           \/ lookup_targets
           \/ thread.pc = "publish" /\ \E m \in thread.left : publish(m)
           \/ thread_dies \/ consume \/ skip \/ resolve_fails \/ send_notify \/ send_fails
           \/ ack \/ consumer_restarts
    PROVE  StateTypes' /\ UpTypes' /\ DownTypes'
  <1> USE DEF StateTypes, DownTypes, AxfrRest, axfrVars, rowVars, connVars, downVars
  <1>0. UNCHANGED upVars => UpTypes'
    BY DEF UpTypes, upVars
  <1>1. ASSUME NEW answered \in BOOLEAN, axfr_notify_conn(answered)
        PROVE  StateTypes' /\ UpTypes' /\ DownTypes'
    <2>1. events' \in 0 .. MaxEvents
      BY <1>1, EventTypes DEF axfr_notify_conn
    <2>2. /\ local' \in [version : Nat, told : BOOLEAN, notify : BOOLEAN]
          /\ thread' \in [pc : {"idle", "lookup", "publish"}, left : SUBSET Notice]
      BY <1>1 DEF axfr_notify_conn, NoThread
    <2> QED
      BY <1>0, <1>1, <2>1, <2>2 DEF axfr_notify_conn
  <1>2. ASSUME lookup_targets PROVE StateTypes' /\ UpTypes' /\ DownTypes'
    <2>1. thread' \in [pc : {"idle", "lookup", "publish"}, left : SUBSET Notice]
      BY <1>2, ListedTypes DEF lookup_targets, NoThread
    <2> QED
      BY <1>0, <1>2, <2>1 DEF lookup_targets
  <1>3. ASSUME NEW m \in thread.left, publish(m) PROVE StateTypes' /\ UpTypes' /\ DownTypes'
    <2>1. thread' \in [pc : {"idle", "lookup", "publish"}, left : SUBSET Notice] /\ m \in Notice
      BY <1>3 DEF publish, NoThread
    <2>2. queue' \in Seq(Notice)
      BY <1>3, <2>1, AppendProperties DEF publish
    <2> QED
      BY <1>0, <1>3, <2>1, <2>2 DEF publish
  <1>4. ASSUME thread_dies PROVE StateTypes' /\ UpTypes' /\ DownTypes'
    <2>1. events' \in 0 .. MaxEvents
      BY <1>4, EventTypes DEF thread_dies
    <2>2. TargetsOf(thread.left) \subseteq Targets
      BY DEF TargetsOf, Notice
    <2>3. missed' \subseteq Targets
      BY <1>4, <2>2 DEF thread_dies
    <2>4. thread' \in [pc : {"idle", "lookup", "publish"}, left : SUBSET Notice]
      BY <1>4 DEF thread_dies, NoThread
    <2> QED
      BY <1>0, <1>4, <2>1, <2>3, <2>4 DEF thread_dies
  <1>5. ASSUME consume PROVE StateTypes' /\ UpTypes' /\ DownTypes'
    <2>1. Head(queue) \in Notice /\ queue' \in Seq(Notice)
      BY <1>5, HeadTailProperties DEF consume
    <2>2. current' \in [pc : {"send", "ack"}, msg : Notice]
      BY <1>5, <2>1 DEF consume
    <2> QED
      BY <1>0, <1>5, <2>1, <2>2 DEF consume
  <1>6. ASSUME skip \/ resolve_fails PROVE StateTypes' /\ UpTypes' /\ DownTypes'
    <2>1. current.msg \in Notice
      BY <1>6, CurrentTypes DEF skip, resolve_fails
    <2>2. Append(unacked, current.msg) \in Seq(Notice)
      BY <2>1, AppendProperties
    <2>3. unacked' \in Seq(Notice)
      BY <1>6, <2>2 DEF skip, resolve_fails
    <2> QED
      BY <1>0, <1>6, <2>3 DEF skip, resolve_fails
  <1>7. ASSUME send_notify \/ send_fails PROVE StateTypes' /\ UpTypes' /\ DownTypes'
    <2>1. current \in [pc : {"send", "ack"}, msg : Notice]
      BY <1>7, CurrentTypes DEF send_notify, send_fails
    <2>2. current.msg.target \in Targets /\ current' \in [pc : {"send", "ack"}, msg : Notice]
      BY <1>7, <2>1 DEF send_notify, send_fails, Notice
    <2>3. events' \in 0 .. MaxEvents
      BY <1>7, EventTypes DEF send_notify, send_fails
    <2> QED
      BY <1>0, <1>7, <2>2, <2>3 DEF send_notify, send_fails
  <1>8. ASSUME ack PROVE StateTypes' /\ UpTypes' /\ DownTypes'
    BY <1>0, <1>8 DEF ack
  <1>9. ASSUME consumer_restarts PROVE StateTypes' /\ UpTypes' /\ DownTypes'
    <2> DEFINE again == IF current = Nobody THEN <<>> ELSE <<current.msg>>
    <2>1. again \in Seq(Notice)
      BY CurrentTypes
    <2> HIDE DEF again
    <2>2. unacked \o again \in Seq(Notice)
      BY <2>1, ConcatProperties
    <2>3. unacked \o again \o queue \in Seq(Notice)
      BY <2>2, ConcatProperties
    <2>4. queue' \in Seq(Notice) /\ unacked' \in Seq(Notice)
      BY <1>9, <2>3 DEF consumer_restarts, again
    <2> QED
      BY <1>0, <1>9, <2>4 DEF consumer_restarts
  <1> QED
    BY <1>1, <1>2, <1>3, <1>4, <1>5, <1>6, <1>7, <1>8, <1>9

LEMMA ChainParts ==
    ASSUME ChainNext
    PROVE  \/ \/ \E answered \in BOOLEAN : notify_conn(answered)
              \/ callback \/ sidecar_reconnects \/ primary_loads \/ notify_fails
              \/ sidecar_disconnects \/ local_refreshes
              \/ \E kind \in {"good", "bad", "panic"} : local_flushes(kind)
           \/ \/ \E answered \in BOOLEAN : axfr_notify_conn(answered)
              \/ lookup_targets
              \/ thread.pc = "publish" /\ \E m \in thread.left : publish(m)
              \/ thread_dies \/ consume \/ skip \/ resolve_fails \/ send_notify \/ send_fails
              \/ ack \/ consumer_restarts
  BY DEF ChainNext, ChainStep

\* The inductive invariant behind the theorems about transfers.
TransferInv == TypeOK /\ Transferring /\ InstalledWhole

LEMMA InitTransferInv == Init => TransferInv
  <1> SUFFICES ASSUME Init PROVE TransferInv
    OBVIOUS
  <1> USE DEF Init, AxfrInit
  <1>1. StateTypes
    BY LimitsAssumption DEF StateTypes, Keys, Values
  <1>2. UpTypes
    BY DEF UpTypes
  <1>3. DownTypes
    BY DEF DownTypes, NoThread
  <1>4. CopyTypes /\ InstalledWhole
    BY RecordTypes DEF CopyTypes, InstalledWhole
  <1>5. TransferTypes
    BY RestTypes, LimitsAssumption DEF TransferTypes
  <1>6. ASSUME NEW t \in Targets PROVE Good(t \in signed, conn[t], chan[t], client[t])
    <2>1. Good(t \in signed, Idle, <<>>, Quiet)
      BY RestTypes, QuietGood
    <2> QED
      BY <2>1
  <1> QED
    BY <1>1, <1>2, <1>3, <1>4, <1>5, <1>6, TypeParts DEF TransferInv, Transferring

LEMMA NextTransferInv == TransferInv /\ [Next]_vars => TransferInv'
  <1> SUFFICES ASSUME TransferInv, [Next]_vars PROVE TransferInv'
    OBVIOUS
  <1>1. StateTypes /\ UpTypes /\ DownTypes /\ CopyTypes /\ Transferring /\ InstalledWhole
    BY TypeParts DEF TransferInv
  <1>2. TransferTypes
    BY <1>1 DEF Transferring
  <1>3. ASSUME StateTypes', UpTypes', DownTypes', CopyTypes', Transferring', InstalledWhole'
        PROVE  TransferInv'
    <2>1. TransferTypes'
      BY <1>3 DEF Transferring
    <2>2. TypeOK'
      BY <1>3, <2>1 DEF TypeOK, StateTypes, UpTypes, DownTypes, CopyTypes, TransferTypes
    <2> QED
      BY <1>3, <2>2 DEF TransferInv
  <1>4. CASE AxfrNext /\ UNCHANGED <<upVars, downVars>>
    <2>1. StateTypes' /\ Transferring'
      BY <1>1, <1>2, <1>4, AxfrStateTypes, AxfrTransferring
    <2>2. UpTypes' /\ DownTypes'
      BY <1>1, <1>4 DEF upVars, downVars, UpTypes, DownTypes
    <2>3. CopyTypes' /\ InstalledWhole'
      <3>1. CASE copy' = copy
        BY <1>1, <3>1 DEF CopyTypes, InstalledWhole
      <3>2. CASE copy' # copy
        BY <1>1, <1>4, <3>2, AxfrCopy, CopySteps
      <3> QED
        BY <3>1, <3>2
    <2> QED
      BY <1>3, <2>1, <2>2, <2>3
  <1>5. CASE ChainNext
    <2>1. StateTypes' /\ UpTypes' /\ DownTypes'
      BY <1>1, <1>5, ChainParts, UpSteps, DownSteps
    <2>2. Transferring' /\ CopyTypes' /\ InstalledWhole'
      BY <1>1, <1>5, ChainFrame, NoMoveGood DEF CopyTypes, InstalledWhole
    <2> QED
      BY <1>3, <2>1, <2>2
  <1>6. CASE UNCHANGED vars
    <2>1. /\ UNCHANGED <<signed, local, file, rows, wanted, raced, held, conn, chan, client, copy>>
          /\ UNCHANGED <<wake, missed, events>>
          /\ UNCHANGED <<primary, reloads, sidecar, reloadLost, thread, queue, unacked, current>>
      BY <1>6 DEF vars, axfrVars, rowVars, connVars, upVars, downVars
    <2> QED
      BY <1>1, <1>3, <2>1, NoMoveGood
         DEF StateTypes, UpTypes, DownTypes, CopyTypes, InstalledWhole
  <1> QED
    BY <1>4, <1>5, <1>6 DEF Next

LEMMA TransferInvariant == Spec => []TransferInv
  BY InitTransferInv, NextTransferInv, PTL DEF Spec

\* Type correctness; the channel of a connection (mpsc::channel, 1024) never
\* holds more than its capacity, although handle_request sends whole zones.
THEOREM TypeCorrect == Spec => []TypeOK
  <1>1. TransferInv => TypeOK
    BY DEF TransferInv
  <1> QED
    BY <1>1, TransferInvariant, PTL

\* sign_message: every secondary with TSIG can verify every message it gets.
THEOREM SignaturesVerify == Spec => []SignedAnswersVerify
  <1>1. TransferInv => SignedAnswersVerify
    BY DEF TransferInv, TypeOK, Transferring, Good, SignedAnswersVerify
  <1> QED
    BY <1>1, TransferInvariant, PTL

\* handle_request: what a secondary installs is one version, all of it.
THEOREM WholeZonesInstalled == Spec => []InstalledWhole
  <1>1. TransferInv => InstalledWhole
    BY DEF TransferInv
  <1> QED
    BY <1>1, TransferInvariant, PTL
------------------------------------------------------------------------------
(* The rows of the web interface, and the secondary Knot.                    *)

\* What a task will save again is the row as it is, unless a form came between.
RowsHeld ==
    \A t \in Targets :
        conn[t].pc = "touch" => \/ conn[t].row = rows[<<"access", t>>]
                                \/ <<"access", t>> \in raced

\* A step of connection t that saves nothing, and reads the row if it reads one.
LEMMA RowsKept ==
    ASSUME StateTypes, TransferTypes, RowsHeld, RowsAsSubmitted, NEW t \in Targets, NEW d,
           conn' = [conn EXCEPT ![t] = d], UNCHANGED <<rows, wanted, raced>>,
           d.pc = "touch" => \/ d.row = rows[<<"access", t>>]
                             \/ conn[t].pc = "touch" /\ d.row = conn[t].row
    PROVE  RowsHeld' /\ RowsAsSubmitted'
  <1>1. ASSUME NEW u \in Targets, conn'[u].pc = "touch"
        PROVE  \/ conn'[u].row = rows[<<"access", u>>]
               \/ <<"access", u>> \in raced
    <2>1. CASE u = t
      <3>1. conn'[u] = d
        BY <2>1 DEF TransferTypes
      <3> QED
        BY <1>1, <2>1, <3>1 DEF RowsHeld
    <2>2. CASE u # t
      <3>1. conn'[u] = conn[u]
        BY <2>2 DEF TransferTypes
      <3> QED
        BY <1>1, <3>1 DEF RowsHeld
    <2> QED
      BY <2>1, <2>2
  <1> QED
    BY <1>1 DEF RowsHeld, RowsAsSubmitted

LEMMA RowsUnchanged ==
    RowsHeld /\ RowsAsSubmitted /\ UNCHANGED <<conn, rows, wanted, raced>>
      => RowsHeld' /\ RowsAsSubmitted'
  BY DEF RowsHeld, RowsAsSubmitted

LEMMA SubmitRows ==
    ASSUME StateTypes, TransferTypes, RowsHeld, RowsAsSubmitted,
           NEW h \in Handlers, NEW value \in Values, submit_form(h, value)
    PROVE  RowsHeld' /\ RowsAsSubmitted'
  <1> DEFINE key == held[h].key
  <1>1. /\ key \in Keys /\ rows' = [rows EXCEPT ![key] = value]
        /\ wanted' = [wanted EXCEPT ![key] = value] /\ raced' = Race(key) /\ conn' = conn
    BY DEF submit_form, StateTypes, connVars
  <1> HIDE DEF key
  <1>2. raced \subseteq raced'
    BY <1>1 DEF Race
  <1>3. ASSUME NEW u \in Keys, rows'[u] # wanted'[u] PROVE u \in raced'
    <2>1. u # key
      BY <1>1, <1>3 DEF StateTypes
    <2>2. rows[u] # wanted[u]
      BY <1>1, <1>3, <2>1 DEF StateTypes
    <2> QED
      BY <1>2, <2>2 DEF RowsAsSubmitted
  <1>4. ASSUME NEW t \in Targets, conn[t].pc = "touch"
        PROVE  conn[t].row = rows'[<<"access", t>>] \/ <<"access", t>> \in raced'
    <2>1. CASE key = <<"access", t>>
      <3>1. raced' = raced \cup {key}
        BY <1>1, <1>4, <2>1 DEF Race
      <3> QED
        BY <2>1, <3>1
    <2>2. CASE key # <<"access", t>>
      <3>1. <<"access", t>> \in Keys
        BY DEF Keys
      <3>2. rows'[<<"access", t>>] = rows[<<"access", t>>]
        BY <1>1, <2>2, <3>1 DEF StateTypes
      <3> QED
        BY <1>2, <1>4, <3>2 DEF RowsHeld
    <2> QED
      BY <2>1, <2>2
  <1> QED
    BY <1>1, <1>3, <1>4 DEF RowsHeld, RowsAsSubmitted

LEMMA SaveRows ==
    ASSUME StateTypes, TransferTypes, RowsHeld, RowsAsSubmitted,
           NEW t \in Targets, save_last_used(t)
    PROVE  RowsHeld' /\ RowsAsSubmitted'
  <1> DEFINE key == <<"access", t>>
  <1>1. /\ conn[t].pc = "touch" /\ rows' = [rows EXCEPT ![key] = conn[t].row]
        /\ UNCHANGED <<wanted, raced>> /\ key \in Keys
    BY DEF save_last_used, RowSaved, Keys
  <1>2. \E d : conn' = [conn EXCEPT ![t] = d] /\ d.pc \in {"idle", "send"}
    <2>1. Finish(t) => conn' = [conn EXCEPT ![t] = Idle]
      BY DEF Finish
    <2>2. Idle.pc = "idle"
      BY DEF Idle
    <2>3. [conn[t] EXCEPT !.pc = "send"].pc = "send"
      BY DEF TransferTypes, Connection
    <2>4. \/ Finish(t)
          \/ conn' = [conn EXCEPT ![t] = [conn[t] EXCEPT !.pc = "send"]]
      BY DEF save_last_used, Respond
    <2> QED
      BY <2>1, <2>2, <2>3, <2>4
  <1>3. PICK d : conn' = [conn EXCEPT ![t] = d] /\ d.pc \in {"idle", "send"}
    BY <1>2
  <1>4. ASSUME NEW u \in Keys, u # key PROVE rows'[u] = rows[u]
    BY <1>1, <1>4 DEF StateTypes
  <1>5. key \in raced \/ rows'[key] = rows[key]
    <2>1. rows'[key] = conn[t].row
      BY <1>1 DEF StateTypes
    <2> QED
      BY <1>1, <2>1 DEF RowsHeld
  <1>6. ASSUME NEW u \in Keys, rows'[u] # wanted'[u] PROVE u \in raced'
    BY <1>1, <1>4, <1>5, <1>6 DEF RowsAsSubmitted
  <1>7. ASSUME NEW u \in Targets, conn'[u].pc = "touch"
        PROVE  conn'[u].row = rows'[<<"access", u>>] \/ <<"access", u>> \in raced'
    <2>1. conn'[t] = d
      BY <1>3 DEF TransferTypes
    <2>2. u # t
      BY <1>3, <1>7, <2>1
    <2>3. conn'[u] = conn[u]
      BY <1>3, <2>2 DEF TransferTypes
    <2>4. <<"access", u>> \in Keys /\ <<"access", u>> # key
      BY <2>2 DEF Keys
    <2>5. rows'[<<"access", u>>] = rows[<<"access", u>>]
      BY <1>4, <2>4
    <2> QED
      BY <1>1, <1>7, <2>3, <2>5 DEF RowsHeld
  <1> QED
    BY <1>6, <1>7 DEF RowsHeld, RowsAsSubmitted

\* The steps of a connection that do not save.
LEMMA OtherRows ==
    ASSUME StateTypes, TransferTypes, RowsHeld, RowsAsSubmitted, NEW t \in Targets,
           \/ handle_request(t) \/ find_row(t) \/ send_response(t) \/ ClientStep(t)
           \/ refresh(t) \/ lookup_fails(t) \/ connection_lost(t)
           \/ \E q \in OddQueries : odd_query(t, q[1], q[2])
    PROVE  RowsHeld' /\ RowsAsSubmitted'
  <1>0. conn[t] \in Connection /\ Idle.pc = "idle"
    BY DEF TransferTypes, Idle
  <1>1. ASSUME UNCHANGED <<rows, wanted, raced>>, Finish(t)
        PROVE  RowsHeld' /\ RowsAsSubmitted'
    BY <1>0, <1>1, RowsKept DEF Finish
  <1>2. CASE handle_request(t)
    <2>1. UNCHANGED <<rows, wanted, raced>>
      BY <1>2 DEF handle_request, rowVars
    <2> DEFINE todo == Answers(conn[t].query, file.version)
               loaded == [conn[t] EXCEPT !.pc = "lookup", !.todo = todo,
                                         !.hash = QueryMac(conn[t].query)]
               d == IF t \notin signed /\ conn[t].query = "soa"
                    THEN [loaded EXCEPT !.pc = "send"] ELSE loaded
    <2>2. d.pc # "touch"
      BY <1>0 DEF Connection
    <2> HIDE DEF d
    <2>3. Finish(t) \/ conn' = [conn EXCEPT ![t] = d]
      BY <1>2 DEF handle_request, Respond, d
    <2> QED
      BY <1>1, <2>1, <2>2, <2>3, RowsKept
  <1>3. CASE find_row(t)
    <2>1. UNCHANGED <<rows, wanted, raced>>
      BY <1>3 DEF find_row, rowVars
    <2> DEFINE d == [conn[t] EXCEPT !.pc = "touch", !.row = rows[<<"access", t>>]]
    <2>2. d.row = rows[<<"access", t>>]
      BY <1>0 DEF Connection
    <2> HIDE DEF d
    <2>3. Finish(t) \/ conn' = [conn EXCEPT ![t] = d]
      BY <1>3 DEF find_row, Respond, d
    <2> QED
      BY <1>1, <2>1, <2>2, <2>3, RowsKept
  <1>4. CASE send_response(t)
    <2>1. UNCHANGED <<rows, wanted, raced>> /\ conn[t].pc = "send"
      BY <1>4 DEF send_response, rowVars
    <2> DEFINE d == AfterSigning(t)
    <2>2. d.pc = "send"
      BY <1>0, <2>1 DEF AfterSigning, Connection
    <2> HIDE DEF d
    <2>3. conn' = [conn EXCEPT ![t] = Idle] \/ conn' = [conn EXCEPT ![t] = d]
      BY <1>4 DEF send_response, d
    <2> QED
      BY <1>0, <2>1, <2>2, <2>3, RowsKept
  <1>5. ASSUME NEW query, NEW sig, NEW notified, Ask(t, query, sig, notified),
               UNCHANGED <<rows, wanted, raced>>
        PROVE  RowsHeld' /\ RowsAsSubmitted'
    <2> DEFINE d == [Idle EXCEPT !.pc = "request", !.query = query, !.sig = sig]
    <2>1. d.pc = "request"
      BY DEF Idle
    <2>2. conn' = [conn EXCEPT ![t] = d]
      BY <1>5 DEF Ask
    <2> HIDE DEF d
    <2> QED
      BY <1>5, <2>1, <2>2, RowsKept
  <1>6. CASE ClientStep(t)
    <2>1. UNCHANGED <<rows, wanted, raced>>
      BY <1>6 DEF ClientStep, receive, end_of_answers, rowVars
    <2>2. conn' = conn \/ Ask(t, "axfr", SigOf(t), client[t].notified)
      BY <1>6 DEF ClientStep, receive, end_of_answers
    <2> QED
      BY <1>5, <2>1, <2>2, RowsUnchanged
  <1>7. CASE refresh(t) \/ \E q \in OddQueries : odd_query(t, q[1], q[2])
    BY <1>5, <1>7 DEF refresh, odd_query, rowVars
  <1>8. CASE lookup_fails(t)
    BY <1>1, <1>8 DEF lookup_fails, Respond, rowVars
  <1>9. CASE connection_lost(t)
    <2>1. UNCHANGED <<rows, wanted, raced>>
      BY <1>9 DEF connection_lost, rowVars
    <2> DEFINE d == CASE conn[t].pc = "idle"    -> conn[t]
                      [] conn[t].pc = "request" -> Idle
                      [] OTHER                  -> [conn[t] EXCEPT !.broken = TRUE]
    <2>2. d.pc = "touch" => conn[t].pc = "touch" /\ d.row = conn[t].row
      BY <1>0 DEF Connection
    <2>3. conn' = [conn EXCEPT ![t] = d]
      BY <1>9 DEF connection_lost
    <2> HIDE DEF d
    <2> QED
      BY <2>1, <2>2, <2>3, RowsKept
  <1> QED
    BY <1>2, <1>3, <1>4, <1>6, <1>7, <1>8, <1>9

LEMMA NextRows ==
    TransferInv /\ RowsHeld /\ RowsAsSubmitted /\ [Next]_vars => RowsHeld' /\ RowsAsSubmitted'
  <1> SUFFICES ASSUME TransferInv, RowsHeld, RowsAsSubmitted, [Next]_vars
               PROVE  RowsHeld' /\ RowsAsSubmitted'
    OBVIOUS
  <1>1. StateTypes /\ TransferTypes
    BY TypeParts DEF TransferInv
  <1>2. CASE AxfrNext
    <2>1. ASSUME NEW h \in Handlers, NEW k \in Keys, NEW op \in {"create", "edit", "delete"},
                 open_form(h, k, op)
          PROVE  RowsHeld' /\ RowsAsSubmitted'
      BY <2>1, RowsUnchanged DEF open_form, connVars
    <2>2. ASSUME NEW h \in Handlers, NEW value \in Values, submit_form(h, value)
          PROVE  RowsHeld' /\ RowsAsSubmitted'
      BY <1>1, <2>2, SubmitRows
    <2>3. ASSUME NEW t \in Targets, save_last_used(t) PROVE RowsHeld' /\ RowsAsSubmitted'
      BY <1>1, <2>3, SaveRows
    <2>4. ASSUME NEW t \in Targets,
                 \/ handle_request(t) \/ find_row(t) \/ send_response(t) \/ ClientStep(t)
                 \/ refresh(t) \/ lookup_fails(t) \/ connection_lost(t)
                 \/ \E q \in OddQueries : odd_query(t, q[1], q[2])
          PROVE  RowsHeld' /\ RowsAsSubmitted'
      BY <1>1, <2>4, OtherRows
    <2> QED
      BY <1>2, <2>1, <2>2, <2>3, <2>4 DEF AxfrNext, ServerStep
  <1>3. CASE ChainNext
    BY <1>3, ChainFrame, RowsUnchanged
  <1>4. CASE UNCHANGED vars
    BY <1>4, RowsUnchanged DEF vars, axfrVars, rowVars, connVars
  <1> QED
    BY <1>2, <1>3, <1>4 DEF Next

\* GetTSIGSecret and CheckIPACL save the whole row for last_used: a form is
\* undone only if it was submitted between the read and the save.
THEOREM FormsUndoneOnlyByRaces == Spec => []RowsAsSubmitted
  <1>1. Init => RowsHeld /\ RowsAsSubmitted
    BY DEF Init, AxfrInit, RowsHeld, RowsAsSubmitted, Idle
  <1>2. RowsHeld /\ RowsAsSubmitted /\ TransferInv /\ [Next]_vars
          => (RowsHeld /\ RowsAsSubmitted)'
    BY NextRows
  <1> QED
    BY <1>1, <1>2, TransferInvariant, PTL DEF Spec

\* notify_conn, callback and the sidecars: a reload reaches the secondary Knot
\* unless it was published without a queue, lost with one, or given up.
THEOREM ReloadsReachKnot == Spec => []KnotStaleOnlyIfLost
  <1>1. Init => KnotStaleOnlyIfLost
    BY DEF Init, AxfrInit, KnotStaleOnlyIfLost
  <1>2. TypeOK /\ KnotStaleOnlyIfLost /\ [Next]_vars => KnotStaleOnlyIfLost'
    <2> SUFFICES ASSUME TypeOK, KnotStaleOnlyIfLost, [Next]_vars PROVE KnotStaleOnlyIfLost'
      OBVIOUS
    <2> USE DEF KnotStaleOnlyIfLost, AxfrRest, axfrVars, upVars
    <2>0. UpTypes /\ StateTypes
      BY TypeParts
    <2>1. ASSUME UNCHANGED <<primary, reloads, reloadLost>>, local'.version = local.version,
                 local.told => local'.told
          PROVE  KnotStaleOnlyIfLost'
      BY <2>1
    <2>2. CASE AxfrNext /\ UNCHANGED <<upVars, downVars>>
      <3>1. local' = local
        BY <2>2 DEF AxfrNext, open_form, submit_form, ServerStep, handle_request, find_row,
                    save_last_used, send_response, ClientStep, receive, end_of_answers,
                    refresh, lookup_fails, connection_lost, odd_query
      <3> QED
        BY <2>1, <2>2, <3>1
    <2>3. CASE UNCHANGED vars
      BY <2>1, <2>3 DEF vars
    <2>4. ASSUME NEW answered \in BOOLEAN, notify_conn(answered) PROVE KnotStaleOnlyIfLost'
      <3>1. sidecar => reloads' > 0
        BY <2>0, <2>4 DEF notify_conn, UpTypes
      <3> QED
        BY <2>4, <3>1 DEF notify_conn
    <2>5. CASE callback
      BY <2>0, <2>5 DEF callback, StateTypes
    <2>6. CASE primary_loads
      BY <2>0, <2>6 DEF primary_loads
    <2>7. CASE notify_fails \/ sidecar_disconnects
      BY <2>0, <2>7 DEF notify_fails, sidecar_disconnects
    <2>8. CASE local_refreshes
      BY <2>8 DEF local_refreshes
    <2>9. CASE sidecar_reconnects \/ \E kind \in {"good", "bad", "panic"} : local_flushes(kind)
      BY <2>1, <2>9 DEF sidecar_reconnects, local_flushes
    <2>10. ASSUME NEW answered \in BOOLEAN, axfr_notify_conn(answered)
           PROVE  KnotStaleOnlyIfLost'
      <3>1. local'.version = local.version /\ local'.told = local.told
        BY <2>0, <2>10 DEF axfr_notify_conn, StateTypes
      <3> QED
        BY <2>1, <2>10, <3>1 DEF axfr_notify_conn
    <2>11. CASE \/ lookup_targets
                \/ thread.pc = "publish" /\ \E m \in thread.left : publish(m)
                \/ thread_dies \/ consume \/ skip \/ resolve_fails \/ send_notify
                \/ send_fails \/ ack \/ consumer_restarts
      BY <2>1, <2>11 DEF lookup_targets, publish, thread_dies, consume, skip, resolve_fails,
                         send_notify, send_fails, ack, consumer_restarts
    <2> QED
      BY <2>2, <2>3, <2>4, <2>5, <2>6, <2>7, <2>8, <2>9, <2>10, <2>11, ChainParts DEF Next
  <1> QED
    BY <1>1, <1>2, TypeCorrect, PTL DEF Spec
------------------------------------------------------------------------------
(* Versions only grow along the chain, and a secondary that is behind has a  *)
(* NOTIFY coming or has missed it.                                           *)

\* No answer is newer than version w.
TodoUpTo(w, todo) == \A i \in 1 .. Len(todo) : todo[i].version \in 0 .. w
ChanUpTo(w, ch) ==
    \A i \in 1 .. Len(ch) : ch[i].msg.kind # "error" => ch[i].msg.version \in 0 .. w

UpTo(w, c, ch) == TodoUpTo(w, c.todo) /\ ChanUpTo(w, ch)

Versions ==
    /\ file.version <= local.version
    /\ local.version <= primary.version
    /\ \A t \in Targets : UpTo(local.version, conn[t], chan[t])
    /\ \A t \in Targets : client[t].query = "axfr" => copy[t].version < local.version

LEMMA UpToGrows ==
    ASSUME NEW v \in Nat, NEW w \in Nat, v <= w, NEW c, NEW ch, UpTo(v, c, ch)
    PROVE  UpTo(w, c, ch)
  <1>1. 0 .. v \subseteq 0 .. w
    OBVIOUS
  <1> QED
    BY <1>1 DEF UpTo, TodoUpTo, ChanUpTo

LEMMA UpToIdle == \A w : TodoUpTo(w, Idle.todo) /\ ChanUpTo(w, <<>>)
  BY DEF Idle, TodoUpTo, ChanUpTo

LEMMA UpToAnswers ==
    ASSUME NEW query, NEW v \in Nat, NEW w \in Nat, v <= w
    PROVE  TodoUpTo(w, Answers(query, v))
  <1> DEFINE a == Answers(query, v)
  <1>1. /\ Len(a) = Length(query)
        /\ \A i \in 1 .. Length(query) : a[i] = AnswerAt(query, v, i)
    BY AnswersShape
  <1> HIDE DEF a
  <1>2. ASSUME NEW i \in 1 .. Len(a) PROVE a[i].version \in 0 .. w
    <2>1. i \in Nat /\ Length(query) \in Nat
      BY <1>1, LimitsAssumption DEF Length
    <2>2. AnswerAt(query, v, i).version = v
      BY <2>1, AnswerKinds
    <2> QED
      BY <1>1, <2>2
  <1> QED
    BY <1>2 DEF TodoUpTo, a

LEMMA UpToTails ==
    ASSUME NEW w, NEW todo \in Seq(Message), NEW ch \in Seq(Packet)
    PROVE  /\ todo # <<>> /\ TodoUpTo(w, todo) => TodoUpTo(w, Tail(todo))
           /\ ch # <<>> /\ ChanUpTo(w, ch) => ChanUpTo(w, Tail(ch))
  <1>1. ASSUME todo # <<>>, TodoUpTo(w, todo) PROVE TodoUpTo(w, Tail(todo))
    <2>1. /\ Len(Tail(todo)) = Len(todo) - 1 /\ Len(todo) \in Nat
          /\ \A i \in 1 .. Len(Tail(todo)) : Tail(todo)[i] = todo[i + 1]
      BY <1>1, HeadTailProperties
    <2>2. \A i \in 1 .. Len(Tail(todo)) : i + 1 \in 1 .. Len(todo)
      BY <2>1
    <2> QED
      BY <1>1, <2>1, <2>2 DEF TodoUpTo
  <1>2. ASSUME ch # <<>>, ChanUpTo(w, ch) PROVE ChanUpTo(w, Tail(ch))
    <2>1. /\ Len(Tail(ch)) = Len(ch) - 1 /\ Len(ch) \in Nat
          /\ \A i \in 1 .. Len(Tail(ch)) : Tail(ch)[i] = ch[i + 1]
      BY <1>2, HeadTailProperties
    <2>2. \A i \in 1 .. Len(Tail(ch)) : i + 1 \in 1 .. Len(ch)
      BY <2>1
    <2> QED
      BY <1>2, <2>1, <2>2 DEF ChanUpTo
  <1> QED
    BY <1>1, <1>2

LEMMA UpToAppend ==
    ASSUME NEW w, NEW ch \in Seq(Packet), NEW e \in Packet, ChanUpTo(w, ch),
           e.msg.kind # "error" => e.msg.version \in 0 .. w
    PROVE  ChanUpTo(w, Append(ch, e))
  <1> DEFINE dh == Append(ch, e)
  <1>1. /\ Len(dh) = Len(ch) + 1 /\ dh[Len(ch) + 1] = e /\ Len(ch) \in Nat
        /\ \A i \in 1 .. Len(ch) : dh[i] = ch[i]
    BY AppendProperties
  <1> HIDE DEF dh
  <1>2. ASSUME NEW i \in 1 .. Len(dh), dh[i].msg.kind # "error"
        PROVE  dh[i].msg.version \in 0 .. w
    <2>1. i \in 1 .. Len(ch) \/ i = Len(ch) + 1
      BY <1>1
    <2> QED
      BY <1>1, <1>2, <2>1 DEF ChanUpTo
  <1> QED
    BY <1>2 DEF ChanUpTo, dh

\* One connection moves, and no answer in it is too new.
LEMMA MoveUpTo ==
    ASSUME TransferTypes, Versions, NEW t \in Targets, NEW c, NEW ch,
           conn' = [conn EXCEPT ![t] = c], chan' = [chan EXCEPT ![t] = ch],
           UpTo(local.version, c, ch)
    PROVE  \A u \in Targets : UpTo(local.version, conn'[u], chan'[u])
  <1> TAKE u \in Targets
  <1>1. CASE u = t
    <2>1. conn'[u] = c /\ chan'[u] = ch
      BY <1>1 DEF TransferTypes
    <2> QED
      BY <2>1
  <1>2. CASE u # t
    <2>1. conn'[u] = conn[u] /\ chan'[u] = chan[u]
      BY <1>2 DEF TransferTypes
    <2> QED
      BY <2>1 DEF Versions
  <1> QED
    BY <1>1, <1>2

LEMMA RespondUpTo ==
    ASSUME TransferTypes, Versions, NEW t \in Targets, Respond(t, "badsig") \/ Respond(t, "refused")
           \/ Respond(t, "servfail") \/ Respond(t, "badtime") \/ Respond(t, "badalg")
    PROVE  \A u \in Targets : UpTo(local.version, conn'[u], chan'[u])
  <1>1. PICK code \in {"refused", "servfail", "badsig", "badtime", "badalg"} : Respond(t, code)
    OBVIOUS
  <1> DEFINE e == [msg |-> Error(code), mac |-> NoMac]
             ch == IF conn[t].broken THEN chan[t] ELSE Append(chan[t], e)
  <1>2. e \in Packet /\ e.msg.kind = "error"
    BY MacTypes DEF Packet, Message, Error
  <1>3. conn' = [conn EXCEPT ![t] = Idle] /\ chan' = [chan EXCEPT ![t] = ch]
    BY <1>1 DEF Respond, Finish, Send, TransferTypes
  <1>4. chan[t] \in Seq(Packet) /\ ChanUpTo(local.version, chan[t])
    BY DEF TransferTypes, Versions, UpTo
  <1> HIDE DEF e
  <1>5. UpTo(local.version, Idle, ch)
    BY <1>2, <1>4, UpToAppend, UpToIdle DEF UpTo
  <1> HIDE DEF ch
  <1> QED
    BY <1>3, <1>5, MoveUpTo
\* What a step of connection t does to the versions and to the NOTIFYs.
Round(t) ==
    /\ UNCHANGED <<file, local>>
    /\ \A u \in Targets \ {t} :
          client'[u] = client[u] /\ copy'[u] = copy[u] /\ (u \in wake => u \in wake')
    /\ missed \subseteq missed'
    /\ copy'[t].version # local.version => copy[t].version # local.version
    /\ t \in wake \/ client[t].notified =>
          \/ t \in wake' \/ client'[t].notified \/ t \in missed'
          \/ copy'[t].version = local.version
    /\ client'[t].query = "axfr" => copy'[t].version < local.version

LEMMA RoundQuiet ==
    ASSUME Versions, NEW t \in Targets, UNCHANGED <<file, local, client, copy, wake, missed>>
    PROVE  Round(t)
  BY DEF Versions, Round

LEMMA RoundGivenUp ==
    ASSUME TransferTypes, NEW t \in Targets, GiveUp(t, TRUE),
           UNCHANGED <<file, local, copy, wake>>
    PROVE  Round(t)
  <1>1. client'[t] = Quiet /\ \A u \in Targets \ {t} : client'[u] = client[u]
    BY DEF GiveUp, TransferTypes
  <1>2. missed \subseteq missed' /\ (client[t].notified => t \in missed')
    BY DEF GiveUp
  <1> QED
    BY <1>1, <1>2 DEF Round, Quiet

LEMMA RoundAsked ==
    ASSUME TransferTypes, NEW t \in Targets, NEW query, NEW sig, NEW notified,
           Ask(t, query, sig, notified), missed \subseteq missed',
           \A u \in Targets \ {t} : u \in wake => u \in wake',
           t \in wake \/ client[t].notified => t \in wake' \/ notified,
           query = "axfr" => copy[t].version < local.version,
           UNCHANGED <<file, local, copy>>
    PROVE  Round(t)
  <1>1. /\ client'[t].query = query /\ client'[t].notified = notified
        /\ \A u \in Targets \ {t} : client'[u] = client[u]
    BY DEF Ask, TransferTypes, Quiet
  <1> QED
    BY <1>1 DEF Round

LEMMA ReceiveRound ==
    ASSUME StateTypes, Transferring, CopyTypes, Versions, NEW t \in Targets, receive(t)
    PROVE  Round(t)
  <1> DEFINE k == client[t]
             m == Head(chan[t]).msg
             mac == Head(chan[t]).mac
  <1>0. TransferTypes
    BY DEF Transferring
  <1>1. k.query # "none" /\ chan[t] # <<>> /\ UNCHANGED <<file, local, wake>>
    BY DEF receive
  <1>2. chan[t] \in Seq(Packet) /\ Head(chan[t]) = chan[t][1] /\ Len(chan[t]) \in Nat \ {0}
    BY <1>0, <1>1, EmptySeq DEF TransferTypes
  <1>3. m.kind # "error" => m.version \in 0 .. local.version
    <2>1. ChanUpTo(local.version, chan[t]) /\ 1 \in 1 .. Len(chan[t])
      BY <1>2 DEF Versions, UpTo
    <2> QED
      BY <1>2, <2>1 DEF ChanUpTo
  <1>4. m.kind # "error" => k.query \in {"soa", "axfr"}
    <2> DEFINE sg == t \in signed
    <2>1. sg \in BOOLEAN /\ Good(sg, conn[t], chan[t], k) /\ chan[t] # <<>>
      BY <1>1, AtTarget
    <2> HIDE DEF sg, k
    <2>2. ErrorFirst(conn[t], chan[t]) \/ AnswerFirst(sg, conn[t], chan[t], k)
      BY <2>1, FirstInChannel
    <2> QED
      BY <1>2, <2>2 DEF ErrorFirst, AnswerFirst, Transfer
  <1>5. /\ copy[t].version \in Nat /\ local.version \in Nat
        /\ \A v, r : LET new == [copy EXCEPT ![t] = [version |-> v, records |-> r]] IN
                     new[t].version = v /\ \A u \in Targets \ {t} : new[u] = copy[u]
    BY DEF CopyTypes, StateTypes
  <1>6. CASE m.kind = "error"
    BY <1>0, <1>1, <1>6, RoundGivenUp DEF receive
  <1>7. ASSUME client' = [client EXCEPT ![t].bad = TRUE], UNCHANGED <<copy, missed>>
        PROVE  Round(t)
    <2>1. /\ client'[t].query = k.query /\ client'[t].notified = k.notified
          /\ \A u \in Targets \ {t} : client'[u] = client[u]
      BY <1>0, <1>7 DEF TransferTypes, Client
    <2> QED
      BY <1>1, <1>7, <2>1 DEF Round, Versions
  <1>8. CASE m.kind # "error" /\ ~ Verifies(t, m, mac)
    BY <1>7, <1>8 DEF receive
  <1>9. CASE m.kind # "error" /\ Verifies(t, m, mac) /\ k.query = "soa"
    <2>1. CASE m.version > copy[t].version
      <3>1. Ask(t, "axfr", SigOf(t), k.notified) /\ UNCHANGED <<copy, missed>>
        BY <1>9, <2>1 DEF receive
      <3>2. copy[t].version < local.version
        BY <1>3, <1>5, <1>9, <2>1
      <3> QED
        BY <1>0, <1>1, <3>1, <3>2, RoundAsked
    <2>2. CASE ~ (m.version > copy[t].version)
      BY <1>0, <1>1, <1>9, <2>2, RoundGivenUp DEF receive
    <2> QED
      BY <2>1, <2>2
  <1>10. CASE m.kind # "error" /\ Verifies(t, m, mac) /\ k.query # "soa"
    <2>0. k.query = "axfr"
      BY <1>4, <1>10
    <2>1. CASE k.opened /\ m.kind = "soa"
      <3>1. /\ copy' = [copy EXCEPT ![t] = [version |-> m.version, records |-> k.got]]
            /\ GiveUp(t, m.version # local.version)
        BY <1>10, <2>1 DEF receive
      <3>2. copy'[t].version = m.version /\ \A u \in Targets \ {t} : copy'[u] = copy[u]
        BY <1>5, <3>1
      <3>3. client'[t] = Quiet /\ \A u \in Targets \ {t} : client'[u] = client[u]
        BY <1>0, <3>1 DEF GiveUp, TransferTypes
      <3>4. /\ missed \subseteq missed'
            /\ k.notified /\ m.version # local.version => t \in missed'
        BY <3>1 DEF GiveUp
      <3>5. copy[t].version # local.version
        BY <1>5, <2>0 DEF Versions
      <3> QED
        BY <1>1, <3>2, <3>3, <3>4, <3>5 DEF Round, Quiet
    <2>2. CASE ~ (k.opened /\ m.kind = "soa")
      <3> DEFINE more == [k EXCEPT !.hash = mac, !.opened = TRUE]
                 j == IF m.kind = "rr" THEN [more EXCEPT !.got = @ \cup {m}] ELSE more
      <3>1. client' = [client EXCEPT ![t] = j] /\ UNCHANGED <<copy, missed>>
        BY <1>10, <2>2 DEF receive
      <3>2. j.query = k.query /\ j.notified = k.notified
        BY <1>0 DEF TransferTypes, Client
      <3> HIDE DEF j
      <3>3. client'[t] = j /\ \A u \in Targets \ {t} : client'[u] = client[u]
        BY <1>0, <3>1 DEF TransferTypes
      <3> QED
        BY <1>1, <3>1, <3>2, <3>3 DEF Round, Versions
    <2> QED
      BY <2>1, <2>2
  <1> QED
    BY <1>6, <1>8, <1>9, <1>10

\* Every step of a connection is such a round, and sends nothing too new.
LEMMA AxfrRound ==
    ASSUME StateTypes, Transferring, CopyTypes, Versions, NEW t \in Targets,
           \/ ServerStep(t) \/ ClientStep(t) \/ refresh(t) \/ lookup_fails(t)
           \/ connection_lost(t)
           \/ \E q \in OddQueries : odd_query(t, q[1], q[2])
    PROVE  Round(t)
  <1>0. TransferTypes
    BY DEF Transferring
  <1>1. CASE ServerStep(t) \/ lookup_fails(t) \/ connection_lost(t)
    BY <1>1, RoundQuiet DEF ServerStep, handle_request, find_row, save_last_used,
                            send_response, lookup_fails, connection_lost
  <1>2. CASE receive(t)
    BY <1>2, ReceiveRound
  <1>3. CASE end_of_answers(t)
    BY <1>0, <1>3, RoundGivenUp DEF end_of_answers
  <1>4. CASE refresh(t)
    <2>1. /\ Ask(t, "soa", SigOf(t), t \in wake) /\ wake' = wake \ {t}
          /\ ~ client[t].notified /\ UNCHANGED <<file, local, copy, missed>>
      BY <1>4 DEF refresh, Quiet
    <2> QED
      BY <1>0, <2>1, RoundAsked
  <1>5. ASSUME NEW q \in OddQueries, odd_query(t, q[1], q[2]) PROVE Round(t)
    <2>0. ~ Quiet.notified
      BY DEF Quiet
    <2>1. /\ Ask(t, q[1], q[2], FALSE) /\ ~ client[t].notified
          /\ UNCHANGED <<file, local, copy, missed, wake>>
      BY <1>5, <2>0 DEF odd_query
    <2>2. q[1] # "axfr"
      BY DEF OddQueries
    <2> QED
      BY <1>0, <2>1, <2>2, RoundAsked
  <1> QED
    BY <1>1, <1>2, <1>3, <1>4, <1>5 DEF ClientStep

LEMMA AxfrUpTo ==
    ASSUME StateTypes, Transferring, Versions, NEW t \in Targets,
           \/ ServerStep(t) \/ ClientStep(t) \/ refresh(t) \/ lookup_fails(t)
           \/ connection_lost(t)
           \/ \E q \in OddQueries : odd_query(t, q[1], q[2])
    PROVE  \A u \in Targets : UpTo(local.version, conn'[u], chan'[u])
  <1> DEFINE Goal == \A u \in Targets : UpTo(local.version, conn'[u], chan'[u])
  <1>0. TransferTypes
    BY DEF Transferring
  <1>1. /\ conn[t] \in Connection /\ chan[t] \in Seq(Packet)
        /\ conn = [conn EXCEPT ![t] = conn[t]] /\ chan = [chan EXCEPT ![t] = chan[t]]
        /\ TodoUpTo(local.version, conn[t].todo) /\ ChanUpTo(local.version, chan[t])
        /\ conn[t].todo \in Seq(Message)
    BY AtTarget DEF Versions, UpTo, Connection
  <1>2. ASSUME NEW c, conn' = [conn EXCEPT ![t] = c], chan' = chan,
               c.todo = conn[t].todo \/ c = Idle
        PROVE  Goal
    <2>1. UpTo(local.version, c, chan[t])
      BY <1>1, <1>2, UpToIdle DEF UpTo
    <2> QED
      BY <1>0, <1>1, <1>2, <2>1, MoveUpTo
  <1>3. CASE handle_request(t)
    <2>1. ASSUME Finish(t), chan' = chan PROVE Goal
      BY <1>2, <2>1 DEF Finish
    <2> DEFINE a == Answers(conn[t].query, file.version)
               loaded == [conn[t] EXCEPT !.pc = "lookup", !.todo = a,
                                         !.hash = QueryMac(conn[t].query)]
               d == IF t \notin signed /\ conn[t].query = "soa"
                    THEN [loaded EXCEPT !.pc = "send"] ELSE loaded
    <2>2. ASSUME conn' = [conn EXCEPT ![t] = d], chan' = chan PROVE Goal
      <3>1. d.todo = a
        BY <1>1 DEF Connection
      <3>2. TodoUpTo(local.version, a)
        BY UpToAnswers DEF StateTypes, Versions
      <3> HIDE DEF d, a
      <3>3. UpTo(local.version, d, chan[t])
        BY <1>1, <3>1, <3>2 DEF UpTo
      <3>4. chan' = [chan EXCEPT ![t] = chan[t]]
        BY <1>1, <2>2
      <3> QED
        BY <1>0, <2>2, <3>3, <3>4, MoveUpTo
    <2>3. \/ Respond(t, "refused") \/ Respond(t, "servfail") \/ Respond(t, "badsig")
          \/ Respond(t, "badtime")
          \/ Finish(t) /\ chan' = chan
          \/ conn' = [conn EXCEPT ![t] = d] /\ chan' = chan
      BY <1>3 DEF handle_request
    <2> HIDE DEF d
    <2> QED
      BY <1>0, <2>1, <2>2, <2>3, RespondUpTo
  <1>4. CASE find_row(t)
    <2> DEFINE d == [conn[t] EXCEPT !.pc = "touch", !.row = rows[<<"access", t>>]]
    <2>1. d.todo = conn[t].todo
      BY <1>1 DEF Connection
    <2>2. \/ Respond(t, "badsig") \/ Respond(t, "refused")
          \/ conn' = [conn EXCEPT ![t] = d] /\ chan' = chan
      BY <1>4 DEF find_row
    <2> HIDE DEF d
    <2> QED
      BY <1>0, <1>2, <2>1, <2>2, RespondUpTo
  <1>5. CASE lookup_fails(t)
    BY <1>0, <1>5, RespondUpTo DEF lookup_fails
  <1>6. CASE save_last_used(t)
    <2> DEFINE d == [conn[t] EXCEPT !.pc = "send"]
    <2>1. d.todo = conn[t].todo
      BY <1>1 DEF Connection
    <2>2. \/ Respond(t, "badsig") \/ Respond(t, "badalg")
          \/ conn' = [conn EXCEPT ![t] = d] /\ chan' = chan
      BY <1>6 DEF save_last_used
    <2> HIDE DEF d
    <2> QED
      BY <1>0, <1>2, <2>1, <2>2, RespondUpTo
  <1>7. CASE send_response(t)
    <2> DEFINE e == [msg |-> Head(conn[t].todo), mac |-> MacOf(t)]
               c == IF Len(conn[t].todo) = 1 THEN Idle ELSE AfterSigning(t)
               ch == IF conn[t].broken THEN chan[t] ELSE Append(chan[t], e)
    <2>1. conn' = [conn EXCEPT ![t] = c] /\ chan' = [chan EXCEPT ![t] = ch]
      BY <1>1, <1>7 DEF send_response, Send, NextMessage
    <2>2. conn[t].todo # <<>>
      BY <1>7, AtTarget DEF send_response, Good, Busy
    <2>3. Head(conn[t].todo) \in Message /\ Head(conn[t].todo) = conn[t].todo[1]
      BY <1>1, <2>2, HeadTailProperties
    <2>4. MacOf(t) \in Macs
      BY <1>1, <2>3, MacTypes DEF MacOf, NextMessage, Connection
    <2>5. e \in Packet /\ e.msg = conn[t].todo[1]
      BY <2>3, <2>4 DEF Packet
    <2>6. e.msg.version \in 0 .. local.version
      <3>1. Len(conn[t].todo) \in Nat \ {0}
        BY <1>1, <2>2, EmptySeq
      <3>2. 1 \in 1 .. Len(conn[t].todo)
        BY <3>1
      <3> QED
        BY <1>1, <2>5, <3>2 DEF TodoUpTo
    <2> HIDE DEF e
    <2>7. ChanUpTo(local.version, ch)
      BY <1>1, <2>5, <2>6, UpToAppend
    <2>8. TodoUpTo(local.version, c.todo)
      <3>1. AfterSigning(t).todo = Tail(conn[t].todo)
        BY <1>1 DEF AfterSigning, Connection
      <3> QED
        BY <1>1, <2>2, <3>1, UpToTails, UpToIdle
    <2> HIDE DEF c, ch
    <2> QED
      BY <1>0, <2>1, <2>7, <2>8, MoveUpTo DEF UpTo
  <1>8. CASE connection_lost(t)
    <2> DEFINE d == CASE conn[t].pc = "idle"    -> conn[t]
                      [] conn[t].pc = "request" -> Idle
                      [] OTHER                  -> [conn[t] EXCEPT !.broken = TRUE]
    <2>1. conn' = [conn EXCEPT ![t] = d] /\ chan' = [chan EXCEPT ![t] = <<>>]
      BY <1>8 DEF connection_lost
    <2>2. d.todo = conn[t].todo \/ d = Idle
      BY <1>1 DEF Connection
    <2> HIDE DEF d
    <2>3. UpTo(local.version, d, <<>>)
      BY <1>1, <2>2, UpToIdle DEF UpTo
    <2> QED
      BY <1>0, <2>1, <2>3, MoveUpTo
  <1>9. ASSUME NEW query, NEW sig, NEW notified, Ask(t, query, sig, notified),
               NEW ch, chan' = [chan EXCEPT ![t] = ch], ChanUpTo(local.version, ch)
        PROVE  Goal
    <2> DEFINE d == [Idle EXCEPT !.pc = "request", !.query = query, !.sig = sig]
    <2>1. conn' = [conn EXCEPT ![t] = d] /\ d.todo = Idle.todo
      BY <1>9 DEF Ask, Idle
    <2> HIDE DEF d
    <2> QED
      BY <1>0, <1>9, <2>1, UpToIdle, MoveUpTo DEF UpTo
  <1>10. CASE refresh(t) \/ \E q \in OddQueries : odd_query(t, q[1], q[2])
    <2>1. chan' = [chan EXCEPT ![t] = chan[t]]
      BY <1>1, <1>10 DEF refresh, odd_query
    <2> QED
      BY <1>1, <1>9, <1>10, <2>1 DEF refresh, odd_query
  <1>11. CASE ClientStep(t)
    <2>1. CASE receive(t)
      <3>1. chan[t] # <<>> /\ chan' = [chan EXCEPT ![t] = Tail(chan[t])]
        BY <2>1 DEF receive
      <3>2. ChanUpTo(local.version, Tail(chan[t]))
        BY <1>1, <3>1, UpToTails
      <3>3. conn' = conn \/ Ask(t, "axfr", SigOf(t), client[t].notified)
        BY <2>1 DEF receive
      <3>4. conn' = conn => conn' = [conn EXCEPT ![t] = conn[t]]
        BY <1>1
      <3>5. CASE conn' = conn
        BY <1>0, <1>1, <3>1, <3>2, <3>4, <3>5, MoveUpTo DEF UpTo
      <3> QED
        BY <1>9, <3>1, <3>2, <3>3, <3>5
    <2>2. CASE end_of_answers(t)
      BY <2>2 DEF end_of_answers, Versions
    <2> QED
      BY <1>11, <2>1, <2>2 DEF ClientStep
  <1> QED
    BY <1>3, <1>4, <1>5, <1>6, <1>7, <1>8, <1>10, <1>11 DEF ServerStep
LEMMA NextVersions ==
    TransferInv /\ Versions /\ [Next]_vars => Versions'
  <1> SUFFICES ASSUME TransferInv, Versions, [Next]_vars PROVE Versions'
    OBVIOUS
  <1>0. StateTypes /\ UpTypes /\ DownTypes /\ CopyTypes /\ Transferring /\ TransferTypes
    BY TypeParts DEF TransferInv
  <1>1. /\ local.version \in Nat /\ primary.version \in Nat /\ file.version \in Nat
        /\ \A t \in Targets : copy[t].version \in Nat
    BY <1>0 DEF StateTypes, UpTypes, CopyTypes
  <1>2. ASSUME UNCHANGED <<conn, chan, client, copy>>, local'.version \in Nat,
               local.version <= local'.version, file'.version <= local'.version,
               local'.version <= primary'.version
        PROVE  Versions'
    <2>1. ASSUME NEW t \in Targets
          PROVE  UpTo(local'.version, conn[t], chan[t])
      BY <1>1, <1>2, UpToGrows DEF Versions
    <2>2. ASSUME NEW t \in Targets, client[t].query = "axfr"
          PROVE  copy[t].version < local'.version
      BY <1>1, <1>2, <2>2 DEF Versions
    <2> QED
      BY <1>2, <2>1, <2>2 DEF Versions
  <1>3. CASE AxfrNext /\ UNCHANGED <<upVars, downVars>>
    <2>0. primary' = primary
      BY <1>3 DEF upVars
    <2>1. ASSUME \/ \E h \in Handlers, k \in Keys, op \in {"create", "edit", "delete"} :
                       open_form(h, k, op)
                 \/ \E h \in Handlers, value \in Values : submit_form(h, value)
          PROVE  Versions'
      <3>1. UNCHANGED <<local, file, conn, chan, client, copy>>
        BY <2>1 DEF open_form, submit_form, connVars
      <3> QED
        BY <1>1, <1>2, <2>0, <3>1 DEF Versions
    <2>2. ASSUME NEW t \in Targets, Round(t),
                 \A u \in Targets : UpTo(local.version, conn'[u], chan'[u])
          PROVE  Versions'
      <3>1. ASSUME NEW u \in Targets, client'[u].query = "axfr"
            PROVE  copy'[u].version < local.version
        BY <2>2, <3>1 DEF Round, Versions
      <3>2. UNCHANGED <<file, local>>
        BY <2>2 DEF Round
      <3> QED
        BY <2>0, <2>2, <3>1, <3>2 DEF Versions
    <2>3. ASSUME NEW t \in Targets,
                 \/ ServerStep(t) \/ ClientStep(t) \/ refresh(t) \/ lookup_fails(t)
                 \/ connection_lost(t)
                 \/ \E q \in OddQueries : odd_query(t, q[1], q[2])
          PROVE  Versions'
      BY <1>0, <2>2, <2>3, AxfrRound, AxfrUpTo
    <2> QED
      BY <1>3, <2>1, <2>3 DEF AxfrNext
  <1>4. CASE ChainNext
    <2>0. UNCHANGED <<conn, chan, client, copy>>
      BY <1>4, ChainFrame
    <2>1. CASE local_refreshes
      <3>1. local'.version = primary.version /\ UNCHANGED <<file, primary>>
        BY <2>1 DEF local_refreshes
      <3> QED
        BY <1>1, <1>2, <2>0, <3>1 DEF Versions
    <2>2. ASSUME NEW kind \in {"good", "bad", "panic"}, local_flushes(kind)
          PROVE  Versions'
      <3>1. file'.version = local.version /\ UNCHANGED <<local, primary>>
        BY <2>2 DEF local_flushes, upVars
      <3> QED
        BY <1>1, <1>2, <2>0, <3>1 DEF Versions
    <2>3. CASE primary_loads
      <3>1. primary'.version = primary.version + 1 /\ UNCHANGED <<local, file>>
        BY <2>3 DEF primary_loads
      <3> QED
        BY <1>1, <1>2, <2>0, <3>1 DEF Versions
    <2>4. ASSUME file' = file, local'.version = local.version,
                 primary'.version = primary.version
          PROVE  Versions'
      BY <1>1, <1>2, <2>0, <2>4 DEF Versions
    <2>5. ASSUME NEW answered \in BOOLEAN, notify_conn(answered) \/ axfr_notify_conn(answered)
          PROVE  Versions'
      <3>1. file' = file /\ local'.version = local.version /\ primary'.version = primary.version
        BY <1>0, <2>5 DEF notify_conn, axfr_notify_conn, StateTypes, UpTypes, upVars
      <3> QED
        BY <2>4, <3>1
    <2>6. CASE callback \/ notify_fails
      <3>1. file' = file /\ local'.version = local.version /\ primary'.version = primary.version
        BY <1>0, <2>6 DEF callback, notify_fails, StateTypes, UpTypes
      <3> QED
        BY <2>4, <3>1
    <2>7. CASE \/ sidecar_reconnects \/ sidecar_disconnects \/ lookup_targets
               \/ thread.pc = "publish" /\ \E m \in thread.left : publish(m)
               \/ thread_dies \/ consume \/ skip \/ resolve_fails \/ send_notify
               \/ send_fails \/ ack \/ consumer_restarts
      <3>1. UNCHANGED <<file, local, primary>>
        BY <2>7 DEF sidecar_reconnects, sidecar_disconnects, lookup_targets, publish,
                    thread_dies, consume, skip, resolve_fails, send_notify, send_fails, ack,
                    consumer_restarts, axfrVars, upVars
      <3> QED
        BY <2>4, <3>1
    <2> QED
      BY <1>4, <2>1, <2>2, <2>3, <2>5, <2>6, <2>7, ChainParts
  <1>5. CASE UNCHANGED vars
    <2>1. UNCHANGED <<local, file, primary, conn, chan, client, copy>>
      BY <1>5 DEF vars, axfrVars, connVars, upVars
    <2> QED
      BY <1>1, <1>2, <2>1 DEF Versions
  <1> QED
    BY <1>3, <1>4, <1>5 DEF Next

LEMMA VersionsInvariant == Spec => []Versions
  <1>1. Init => Versions
    <2> SUFFICES ASSUME Init PROVE Versions
      OBVIOUS
    <2>1. \A t \in Targets : conn[t] = Idle /\ chan[t] = <<>> /\ client[t].query = "none"
      BY DEF Init, AxfrInit, Quiet
    <2> QED
      BY <2>1, UpToIdle DEF Init, AxfrInit, Versions, UpTo
  <1> QED
    BY <1>1, NextVersions, TransferInvariant, PTL DEF Spec
\* A message for u is in s.
For(u, s) == \E i \in DOMAIN s : s[i].target = u

LEMMA ForAppend ==
    ASSUME NEW s \in Seq(Notice), NEW m \in Notice, NEW u, For(u, s) \/ m.target = u
    PROVE  For(u, Append(s, m))
  <1>1. /\ Append(s, m) \in Seq(Notice) /\ Len(Append(s, m)) = Len(s) + 1
        /\ \A i \in 1 .. Len(s) : Append(s, m)[i] = s[i]
        /\ Append(s, m)[Len(s) + 1] = m
    BY AppendProperties
  <1>2. /\ DOMAIN Append(s, m) = 1 .. Len(s) + 1 /\ DOMAIN s = 1 .. Len(s) /\ Len(s) \in Nat
    BY <1>1, LenProperties
  <1>3. CASE For(u, s)
    <2>1. PICK i \in 1 .. Len(s) : s[i].target = u
      BY <1>2, <1>3 DEF For
    <2>2. i \in 1 .. Len(s) + 1
      BY <1>2
    <2> QED
      BY <1>1, <1>2, <2>1, <2>2 DEF For
  <1>4. CASE m.target = u
    <2>1. Len(s) + 1 \in 1 .. Len(s) + 1
      BY <1>2
    <2> QED
      BY <1>1, <1>2, <1>4, <2>1 DEF For
  <1> QED
    BY <1>3, <1>4

LEMMA ForConcat ==
    ASSUME NEW s \in Seq(Notice), NEW r \in Seq(Notice), NEW u, For(u, s) \/ For(u, r)
    PROVE  For(u, s \o r)
  <1> DEFINE c == s \o r
  <1>1. /\ c \in Seq(Notice) /\ Len(c) = Len(s) + Len(r)
        /\ \A i \in 1 .. Len(s) + Len(r) : c[i] = IF i <= Len(s) THEN s[i] ELSE r[i - Len(s)]
    BY ConcatProperties, Zenon
  <1> HIDE DEF c
  <1>2. /\ Len(s) \in Nat /\ Len(r) \in Nat /\ DOMAIN c = 1 .. Len(s) + Len(r)
        /\ DOMAIN s = 1 .. Len(s) /\ DOMAIN r = 1 .. Len(r)
    BY <1>1, LenProperties
  <1>3. CASE For(u, s)
    <2>1. PICK i \in 1 .. Len(s) : s[i].target = u
      BY <1>2, <1>3 DEF For
    <2>2. i \in 1 .. Len(s) + Len(r) /\ i <= Len(s)
      BY <1>2
    <2>3. c[i] = s[i]
      BY <1>1, <2>2
    <2> QED
      BY <1>2, <2>1, <2>2, <2>3 DEF For, c
  <1>4. CASE For(u, r)
    <2>1. PICK i \in 1 .. Len(r) : r[i].target = u
      BY <1>2, <1>4 DEF For
    <2>2. /\ Len(s) + i \in 1 .. Len(s) + Len(r) /\ ~ (Len(s) + i <= Len(s))
          /\ (Len(s) + i) - Len(s) = i
      BY <1>2
    <2>3. c[Len(s) + i] = r[i]
      BY <1>1, <2>2
    <2> QED
      BY <1>2, <2>1, <2>2, <2>3 DEF For, c
  <1> QED
    BY <1>3, <1>4

LEMMA ForTail ==
    ASSUME NEW s \in Seq(Notice), s # <<>>, NEW u, For(u, s), Head(s).target # u
    PROVE  For(u, Tail(s))
  <1>1. /\ Tail(s) \in Seq(Notice) /\ Len(Tail(s)) = Len(s) - 1
        /\ \A i \in 1 .. Len(Tail(s)) : Tail(s)[i] = s[i + 1]
    BY HeadTailProperties
  <1>2. Head(s) = s[1]
    OBVIOUS
  <1>3. Len(s) \in Nat /\ DOMAIN s = 1 .. Len(s) /\ DOMAIN Tail(s) = 1 .. Len(Tail(s))
    BY <1>1, LenProperties
  <1>4. PICK i \in 1 .. Len(s) : s[i].target = u
    BY <1>3 DEF For
  <1>5. i # 1
    BY <1>2, <1>4
  <1>6. i - 1 \in 1 .. Len(Tail(s)) /\ (i - 1) + 1 = i
    <2>1. i - 1 \in 1 .. Len(s) - 1 /\ (i - 1) + 1 = i
      BY <1>3, <1>5
    <2> QED
      BY <1>1, <2>1
  <1> QED
    BY <1>1, <1>3, <1>4, <1>6 DEF For

LEMMA ForOne == ASSUME NEW m PROVE For(m.target, <<m>>)
  <1>1. 1 \in DOMAIN <<m>> /\ <<m>>[1] = m
    OBVIOUS
  <1> QED
    BY <1>1 DEF For

\* Coming, in terms of the parts of the chain.
LEMMA ComingParts ==
    ASSUME NEW t
    PROVE  Coming(t) <=>
             \/ local.notify
             \/ thread.pc = "lookup"
             \/ thread.pc = "publish" /\ t \in TargetsOf(thread.left)
             \/ For(t, queue)
             \/ For(t, unacked)
             \/ current.pc = "send" /\ current.msg.target = t
             \/ t \in wake
             \/ client[t].notified
  BY DEF Coming, For

LEMMA AxfrStale ==
    ASSUME StaleOnlyIfMissed, NEW t \in Targets, Round(t), UNCHANGED downVars
    PROVE  StaleOnlyIfMissed'
  <1> SUFFICES ASSUME NEW u \in Targets, copy'[u].version # local'.version
               PROVE  Coming(u)' \/ u \in missed'
    BY DEF StaleOnlyIfMissed
  <1>0. UNCHANGED <<local, thread, queue, unacked, current>> /\ missed \subseteq missed'
    BY DEF Round, downVars
  <1>1. copy[u].version # local.version
    BY <1>0 DEF Round
  <1>2. Coming(u) \/ u \in missed
    BY <1>1 DEF StaleOnlyIfMissed
  <1>3. u \in wake \/ client[u].notified => u \in wake' \/ client'[u].notified \/ u \in missed'
    BY <1>0 DEF Round
  <1> QED
    BY <1>0, <1>2, <1>3 DEF Coming

\* A step of the chain that moves the NOTIFYs, and leaves the zones alone.
LEMMA ChainStale ==
    ASSUME StaleOnlyIfMissed, UNCHANGED <<client, copy>>, local'.version = local.version,
           \A u \in Targets : Coming(u) => Coming(u)' \/ u \in missed',
           \A u \in Targets : u \in missed => Coming(u)' \/ u \in missed'
    PROVE  StaleOnlyIfMissed'
  BY DEF StaleOnlyIfMissed

LEMMA NextStale ==
    TransferInv /\ Versions /\ StaleOnlyIfMissed /\ [Next]_vars => StaleOnlyIfMissed'
  <1> SUFFICES ASSUME TransferInv, Versions, StaleOnlyIfMissed, [Next]_vars
               PROVE  StaleOnlyIfMissed'
    OBVIOUS
  <1>0. /\ StateTypes /\ UpTypes /\ DownTypes /\ CopyTypes /\ Transferring
        /\ queue \in Seq(Notice) /\ unacked \in Seq(Notice)
    BY TypeParts DEF TransferInv, DownTypes
  <1> DEFINE Kept == \A u \in Targets : Coming(u) => Coming(u)' \/ u \in missed'
  <1>1. CASE AxfrNext /\ UNCHANGED <<upVars, downVars>>
    <2>1. ASSUME \/ \E h \in Handlers, k \in Keys, op \in {"create", "edit", "delete"} :
                       open_form(h, k, op)
                 \/ \E h \in Handlers, value \in Values : submit_form(h, value)
          PROVE  StaleOnlyIfMissed'
      <3>1. UNCHANGED <<local, client, copy, wake, missed>>
        BY <2>1 DEF open_form, submit_form, connVars
      <3> QED
        BY <1>1, <3>1 DEF StaleOnlyIfMissed, Coming, downVars
    <2>2. ASSUME NEW t \in Targets,
                 \/ ServerStep(t) \/ ClientStep(t) \/ refresh(t) \/ lookup_fails(t)
                 \/ connection_lost(t)
                 \/ \E q \in OddQueries : odd_query(t, q[1], q[2])
          PROVE  StaleOnlyIfMissed'
      BY <1>0, <1>1, <2>2, AxfrRound, AxfrStale
    <2> QED
      BY <1>1, <2>1, <2>2 DEF AxfrNext
  <1>2. CASE ChainNext
    <2>0. UNCHANGED <<client, copy>>
      BY <1>2, ChainFrame
    <2>1. ASSUME local'.version = local.version, local'.notify = local.notify,
                 UNCHANGED <<wake, missed, thread, queue, unacked, current>>
          PROVE  StaleOnlyIfMissed'
      BY <2>0, <2>1, ChainStale DEF Coming
    <2>2. ASSUME NEW answered \in BOOLEAN, notify_conn(answered) PROVE StaleOnlyIfMissed'
      BY <2>1, <2>2 DEF notify_conn, downVars
    <2>3. CASE callback \/ notify_fails \/ sidecar_disconnects \/ sidecar_reconnects
               \/ primary_loads \/ \E kind \in {"good", "bad", "panic"} : local_flushes(kind)
      <3>1. /\ local'.version = local.version /\ local'.notify = local.notify
            /\ UNCHANGED <<wake, missed, thread, queue, unacked, current>>
        BY <1>0, <2>3 DEF callback, notify_fails, sidecar_disconnects, sidecar_reconnects,
                          primary_loads, local_flushes, downVars, axfrVars, StateTypes
      <3> QED
        BY <2>1, <3>1
    <2>4. CASE local_refreshes
      <3>1. CASE local.version < primary.version
        <4>1. local'.notify
          BY <2>4, <3>1 DEF local_refreshes
        <4> QED
          BY <4>1 DEF StaleOnlyIfMissed, Coming
      <3>2. CASE ~ (local.version < primary.version)
        <4>1. local.version = primary.version
          BY <1>0, <3>2 DEF Versions, StateTypes, UpTypes
        <4>2. local'.version = local.version /\ local'.notify = local.notify
          BY <1>0, <2>4, <3>2, <4>1 DEF local_refreshes, StateTypes
        <4> QED
          BY <2>1, <2>4, <4>2 DEF local_refreshes, downVars
      <3> QED
        BY <3>1, <3>2
    <2>5. ASSUME NEW answered \in BOOLEAN, axfr_notify_conn(answered)
          PROVE  StaleOnlyIfMissed'
      <3>1. thread'.pc = "lookup" /\ local'.version = local.version
        BY <1>0, <2>5 DEF axfr_notify_conn, StateTypes, NoThread
      <3> QED
        BY <2>0, <3>1, ChainStale DEF Coming
    <2>6. CASE lookup_targets
      <3>1. /\ local' = local /\ missed' = missed \cup (Targets \ TargetsOf(Listed))
            /\ thread' = IF Listed = {} THEN NoThread ELSE [pc |-> "publish", left |-> Listed]
        BY <2>6 DEF lookup_targets
      <3>2. ASSUME NEW u \in Targets PROVE Coming(u)' \/ u \in missed'
        <4>1. CASE u \in TargetsOf(Listed)
          <5>1. Listed # {}
            BY <4>1 DEF TargetsOf
          <5>2. thread'.pc = "publish" /\ thread'.left = Listed
            BY <3>1, <5>1
          <5>3. u \in TargetsOf(thread.left)'
            BY <4>1, <5>2 DEF TargetsOf
          <5> QED
            BY <5>2, <5>3 DEF Coming
        <4>2. CASE u \notin TargetsOf(Listed)
          BY <3>1, <4>2
        <4> QED
          BY <4>1, <4>2
      <3> QED
        BY <2>0, <3>1, <3>2, ChainStale
    <2>7. ASSUME NEW m \in thread.left, publish(m), thread.pc = "publish"
          PROVE  StaleOnlyIfMissed'
      <3>1. /\ UNCHANGED <<local, missed, wake, unacked, current>> /\ queue' = Append(queue, m)
            /\ thread' = IF thread.left = {m} THEN NoThread
                         ELSE [thread EXCEPT !.left = @ \ {m}]
        BY <2>7 DEF publish, axfrVars
      <3>2. m \in Notice
        BY <1>0, <2>7 DEF DownTypes
      <3>3. ASSUME NEW u \in Targets, Coming(u) PROVE Coming(u)'
        <4>1. CASE u \in TargetsOf(thread.left)
          <5>1. PICK n \in thread.left : n.target = u
            BY <4>1 DEF TargetsOf
          <5>2. CASE n = m
            <6>1. For(u, queue')
              BY <1>0, <3>1, <3>2, <5>1, <5>2, ForAppend
            <6> QED
              BY <6>1 DEF Coming, For
          <5>3. CASE n # m
            <6>1. n \in thread.left \ {m} /\ thread.left # {m}
              BY <5>1, <5>3
            <6>2. thread'.pc = "publish" /\ thread'.left = thread.left \ {m}
              BY <1>0, <2>7, <3>1, <6>1 DEF DownTypes
            <6>3. u \in TargetsOf(thread.left)'
              BY <5>1, <6>1, <6>2 DEF TargetsOf
            <6> QED
              BY <6>2, <6>3 DEF Coming
          <5> QED
            BY <5>2, <5>3
        <4>2. CASE For(u, queue)
          <5>1. For(u, queue')
            BY <1>0, <3>1, <3>2, <4>2, ForAppend
          <5> QED
            BY <5>1 DEF Coming, For
        <4>3. CASE u \notin TargetsOf(thread.left) /\ ~ For(u, queue)
          <5>1. \/ local.notify \/ For(u, unacked) \/ u \in wake \/ client[u].notified
                \/ current.pc = "send" /\ current.msg.target = u
            BY <2>7, <3>3, <4>3, ComingParts
          <5> QED
            BY <2>0, <3>1, <5>1 DEF Coming, For
        <4> QED
          BY <4>1, <4>2, <4>3
      <3> QED
        BY <2>0, <3>1, <3>3, ChainStale
    <2>8. CASE thread_dies
      <3>1. /\ UNCHANGED <<local, wake, queue, unacked, current>> /\ missed \subseteq missed'
            /\ thread.pc = "publish" => TargetsOf(thread.left) \subseteq missed'
            /\ thread.pc # "publish" => Targets \subseteq missed'
        BY <2>8 DEF thread_dies, upVars
      <3>2. ASSUME NEW u \in Targets, Coming(u) PROVE Coming(u)' \/ u \in missed'
        BY <2>0, <3>1, <3>2 DEF Coming
      <3> QED
        BY <2>0, <3>1, <3>2, ChainStale
    <2>9. CASE consume
      <3>1. /\ UNCHANGED <<local, wake, missed, thread, unacked>> /\ queue # <<>>
            /\ current = Nobody /\ queue' = Tail(queue)
            /\ current' = [pc |-> "send", msg |-> Head(queue)]
        BY <2>9 DEF consume, axfrVars
      <3>2. ASSUME NEW u \in Targets, Coming(u) PROVE Coming(u)'
        <4>1. CASE For(u, queue)
          <5>1. CASE Head(queue).target = u
            BY <3>1, <5>1 DEF Coming
          <5>2. CASE Head(queue).target # u
            <6>1. For(u, queue')
              BY <1>0, <3>1, <4>1, <5>2, ForTail
            <6> QED
              BY <6>1 DEF Coming, For
          <5> QED
            BY <5>1, <5>2
        <4>2. CASE ~ For(u, queue)
          <5>1. current.pc # "send"
            BY <3>1 DEF Nobody
          <5> QED
            BY <2>0, <3>1, <3>2, <4>2, <5>1 DEF Coming, For
        <4> QED
          BY <4>1, <4>2
      <3> QED
        BY <2>0, <3>1, <3>2, ChainStale
    <2>10. CASE skip \/ resolve_fails
      <3>1. /\ UNCHANGED <<local, wake, missed, thread, queue>> /\ current.pc = "send"
            /\ unacked' = Append(unacked, current.msg) /\ current' = Nobody
        BY <2>10 DEF skip, resolve_fails, axfrVars
      <3>2. current.msg \in Notice
        BY <1>0, <3>1, CurrentTypes
      <3>3. ASSUME NEW u \in Targets, Coming(u) PROVE Coming(u)'
        <4>1. CASE For(u, unacked) \/ current.msg.target = u
          <5>1. For(u, unacked')
            BY <1>0, <3>1, <3>2, <4>1, ForAppend
          <5> QED
            BY <5>1 DEF Coming, For
        <4>2. CASE ~ (For(u, unacked) \/ current.msg.target = u)
          BY <2>0, <3>1, <3>3, <4>2 DEF Coming, For
        <4> QED
          BY <4>1, <4>2
      <3> QED
        BY <2>0, <3>1, <3>3, ChainStale
    <2>11. CASE send_notify \/ send_fails
      <3>1. /\ UNCHANGED <<local, thread, queue, unacked>> /\ current.pc = "send"
            /\ wake \subseteq wake' /\ missed \ {current.msg.target} \subseteq missed'
            /\ current.msg.target \in wake' \/ current.msg.target \in missed'
            /\ missed \subseteq missed' \/ current.msg.target \in wake'
        BY <2>11 DEF send_notify, send_fails, upVars
      <3>2. ASSUME NEW u \in Targets, Coming(u) \/ u \in missed
            PROVE  Coming(u)' \/ u \in missed'
        <4>1. CASE u = current.msg.target
          BY <3>1, <4>1 DEF Coming
        <4>2. CASE u # current.msg.target
          BY <2>0, <3>1, <3>2, <4>2 DEF Coming
        <4> QED
          BY <4>1, <4>2
      <3> QED
        BY <2>0, <3>1, <3>2, ChainStale
    <2>12. CASE ack
      <3>1. /\ UNCHANGED <<local, wake, missed, thread, queue, unacked>> /\ current.pc = "ack"
        BY <2>12 DEF ack, axfrVars
      <3>2. ASSUME NEW u \in Targets, Coming(u) PROVE Coming(u)'
        BY <2>0, <3>1, <3>2 DEF Coming
      <3> QED
        BY <2>0, <3>1, <3>2, ChainStale
    <2>13. CASE consumer_restarts
      <3> DEFINE again == IF current = Nobody THEN <<>> ELSE <<current.msg>>
      <3>1. /\ UNCHANGED <<local, wake, missed, thread>>
            /\ queue' = unacked \o again \o queue
        BY <2>13 DEF consumer_restarts
      <3>2. again \in Seq(Notice)
        BY <1>0, CurrentTypes
      <3>3. ASSUME NEW u, current.pc = "send", current.msg.target = u PROVE For(u, again)
        <4>1. current # Nobody
          BY <3>3 DEF Nobody
        <4> QED
          BY <3>3, <4>1, ForOne
      <3> HIDE DEF again
      <3>4. unacked \o again \in Seq(Notice)
        BY <1>0, <3>2, ConcatProperties
      <3>5. ASSUME NEW u \in Targets, Coming(u) PROVE Coming(u)'
        <4>1. CASE \/ For(u, unacked) \/ For(u, queue)
                   \/ current.pc = "send" /\ current.msg.target = u
          <5>1. For(u, unacked) \/ For(u, again) \/ For(u, queue)
            BY <3>3, <4>1
          <5>2. For(u, unacked \o again) \/ For(u, queue)
            BY <1>0, <3>2, <5>1, ForConcat
          <5>3. For(u, queue')
            BY <1>0, <3>1, <3>4, <5>2, ForConcat
          <5> QED
            BY <5>3 DEF Coming, For
        <4>2. CASE ~ (\/ For(u, unacked) \/ For(u, queue)
                      \/ current.pc = "send" /\ current.msg.target = u)
          BY <2>0, <3>1, <3>5, <4>2 DEF Coming, For
        <4> QED
          BY <4>1, <4>2
      <3> QED
        BY <2>0, <3>1, <3>5, ChainStale
    <2> QED
      BY <1>2, <2>2, <2>3, <2>4, <2>5, <2>6, <2>7, <2>8, <2>9, <2>10, <2>11, <2>12, <2>13,
         ChainParts
  <1>3. CASE UNCHANGED vars
    <2>1. UNCHANGED <<local, client, copy, wake, missed, thread, queue, unacked, current>>
      BY <1>3 DEF vars, axfrVars, connVars, downVars
    <2> QED
      BY <2>1 DEF StaleOnlyIfMissed, Coming
  <1> QED
    BY <1>1, <1>2, <1>3 DEF Next

\* run-axfr-notify.py, axfr-notify and handle_request: a secondary that is
\* behind has a NOTIFY coming, or its last one came to nothing.
THEOREM StaleSecondariesMissed == Spec => []StaleOnlyIfMissed
  <1>1. Init => StaleOnlyIfMissed
    BY DEF Init, AxfrInit, StaleOnlyIfMissed
  <1> QED
    BY <1>1, NextStale, TransferInvariant, VersionsInvariant, PTL DEF Spec
================================================================================
