------------------------------ MODULE NotifyChain ------------------------------
(***************************************************************************)
(* How a new version of a zone reaches the secondaries of a customer:      *)
(*                                                                         *)
(*   primary Knot --NOTIFY--> knot/sidecar.py --fanout-->                  *)
(*   knot/sidecar-secondary.py --NOTIFY--> secondary Knot, which transfers *)
(*   the zone, writes the zone file and                                    *)
(*   --NOTIFY--> run-axfr-notify.py --durable queue--> axfr-notify         *)
(*   --NOTIFY--> the targets, which ask the server of AxfrServer.          *)
(*                                                                         *)
(* Every hop may lose the message or repeat it.  The two Knot servers are  *)
(* external: they transfer, notify and flush as their manual says.  Knot   *)
(* refreshes a zone on its own after some time, as secondaries do.         *)
(***************************************************************************)
EXTENDS AxfrServer

VARIABLES
    primary,   \* the primary Knot: its version, and a NOTIFY it has to send
    reloads,   \* messages in the queue of sidecar-secondary
    sidecar,   \* sidecar-secondary is connected, its queue exists
    thread,    \* the thread of run-axfr-notify after its answer to Knot
    queue,     \* hexdns_axfr_notify: messages that wait
    unacked,   \* messages axfr-notify has skipped without an acknowledgement
    current,   \* the message axfr-notify is at
    reloadLost \* history: a reload message never reached the secondary Knot

upVars == <<primary, reloads, sidecar, reloadLost>>
downVars == <<thread, queue, unacked, current>>
vars == <<axfrVars, upVars, downVars>>

AxfrRest == <<rowVars, connVars>>

------------------------------------------------------------------------------
(* From the primary Knot to the secondary Knot.                              *)

\* Knot has loaded a new zone file.
primary_loads ==
    /\ Event
    /\ primary' = [version |-> primary.version + 1, notify |-> TRUE]
    /\ UNCHANGED <<signed, local, file, AxfrRest, wake, missed, reloads, sidecar, reloadLost, downVars>>

\* notify_conn of sidecar.py: publish, then answer.  A fanout without a queue
\* drops the message.  Without an answer Knot tries again.
notify_conn(answered) ==
    /\ primary.notify
    /\ IF answered THEN UNCHANGED events ELSE Event
    /\ primary' = [primary EXCEPT !.notify = ~ answered]
    /\ reloads' = IF sidecar THEN reloads + 1 ELSE reloads
    /\ reloadLost' = (reloadLost \/ ~ sidecar)
    /\ UNCHANGED <<signed, local, file, AxfrRest, wake, missed, sidecar, downVars>>

\* sidecar.py cannot publish, until Knot gives up.
notify_fails ==
    /\ primary.notify
    /\ Event
    /\ primary' = [primary EXCEPT !.notify = FALSE]
    /\ reloadLost' = TRUE
    /\ UNCHANGED <<signed, local, file, AxfrRest, wake, missed, reloads, sidecar, downVars>>

\* Mutant: auto_ack, and Knot does not listen.
callback_auto_ack ==
    /\ sidecar
    /\ reloads > 0
    /\ reloads' = reloads - 1
    /\ local' = local
    /\ UNCHANGED <<signed, file, AxfrRest, wake, missed, events, primary, sidecar, reloadLost, downVars>>

\* callback of sidecar-secondary.py: NOTIFY to the local Knot, whose answer is
\* not read, then the acknowledgement.  An OSError requeues: no change.
callback ==
    /\ sidecar
    /\ reloads > 0
    /\ reloads' = reloads - 1
    /\ local' = [local EXCEPT !.told = TRUE]
    /\ UNCHANGED <<signed, file, AxfrRest, wake, missed, events, primary, sidecar, reloadLost, downVars>>

\* The sidecar loses its connection, and its exclusive queue with it.
sidecar_disconnects ==
    /\ sidecar
    /\ Event
    /\ sidecar' = FALSE
    /\ reloads' = 0
    /\ reloadLost' = (reloadLost \/ reloads > 0)
    /\ UNCHANGED <<signed, local, file, AxfrRest, wake, missed, primary, downVars>>

\* main of sidecar-secondary.py connects again, to a new queue.
sidecar_reconnects ==
    /\ ~ sidecar
    /\ sidecar' = TRUE
    /\ UNCHANGED <<axfrVars, primary, reloads, reloadLost, downVars>>

\* External: the secondary Knot asks the primary, having been told or by its
\* timer, and will notify run-axfr-notify of a newer version.
local_refreshes ==
    /\ local.told \/ local.version < primary.version
    /\ local' = [version |-> primary.version, told |-> FALSE,
                 notify |-> local.notify \/ local.version < primary.version]
    /\ reloadLost' = FALSE
    /\ UNCHANGED <<signed, file, AxfrRest, wake, missed, events, primary, reloads, sidecar, downVars>>

\* External: it writes the zone file, at a time that has nothing to do with its
\* NOTIFY.  The file may hold what the parser of the server does not read.
local_flushes(kind) ==
    /\ file.version # local.version
    /\ IF kind = "good" THEN UNCHANGED events ELSE Event
    /\ file' = [version |-> local.version, kind |-> kind]
    /\ UNCHANGED <<signed, local, AxfrRest, wake, missed, upVars, downVars>>

------------------------------------------------------------------------------
(* run-axfr-notify.py.  A thread answers Knot, then looks up the targets and *)
(* publishes one persistent message for each.  Knot sends one NOTIFY at a    *)
(* time for a zone; the next one finds the thread of the last finished.      *)

NoThread == [pc |-> "idle", left |-> {}]

axfr_notify_conn(answered) ==
    /\ local.notify
    /\ thread = NoThread
    /\ IF answered THEN UNCHANGED events ELSE Event
    /\ local' = [local EXCEPT !.notify = ~ answered]
    /\ thread' = [NoThread EXCEPT !.pc = "lookup"]
    /\ UNCHANGED <<signed, file, AxfrRest, wake, missed, upVars, queue, unacked, current>>

\* What is published for a target.
Notice == [target : Targets, server : {"on", "off"}]

\* The messages to send, with the server as the row has it.
Listed == {[target |-> t, server |-> rows[<<"notify", t>>]] :
              t \in {u \in Targets : rows[<<"notify", u>>] # "absent"}}

TargetsOf(S) == {m.target : m \in S}

lookup_targets ==
    /\ thread.pc = "lookup"
    /\ thread' = IF Listed = {} THEN NoThread ELSE [pc |-> "publish", left |-> Listed]
    /\ missed' = missed \cup (Targets \ TargetsOf(Listed))
    /\ UNCHANGED <<signed, local, file, AxfrRest, wake, events, upVars, queue, unacked, current>>

publish(m) ==
    /\ queue' = Append(queue, m)
    /\ thread' = IF thread.left = {m} THEN NoThread
                 ELSE [thread EXCEPT !.left = @ \ {m}]
    /\ UNCHANGED <<axfrVars, upVars, unacked, current>>

\* RabbitMQ is away, or the process is killed: Knot has its answer already.
thread_dies ==
    /\ thread # NoThread
    /\ Event
    /\ missed' = missed \cup (IF thread.pc = "publish" THEN TargetsOf(thread.left) ELSE Targets)
    /\ thread' = NoThread
    /\ UNCHANGED <<signed, local, file, AxfrRest, wake, upVars, queue, unacked, current>>

------------------------------------------------------------------------------
(* axfr-notify/src/main.rs: one message after the other.                     *)

Nobody == [pc |-> "idle"]

consume ==
    /\ current = Nobody
    /\ queue # <<>>
    /\ current' = [pc |-> "send", msg |-> Head(queue)]
    /\ queue' = Tail(queue)
    /\ UNCHANGED <<axfrVars, upVars, thread, unacked>>

\* The server does not resolve: continue, without an acknowledgement.
skip ==
    /\ current.pc = "send"
    /\ current.msg.server = "off"
    /\ unacked' = Append(unacked, current.msg)
    /\ current' = Nobody
    /\ UNCHANGED <<axfrVars, upVars, thread, queue>>

\* A name server is away for a moment: the same for a server that exists.
resolve_fails ==
    /\ current.pc = "send"
    /\ current.msg.server = "on"
    /\ unacked' = Append(unacked, current.msg)
    /\ current' = Nobody
    /\ UNCHANGED <<signed, local, file, AxfrRest, wake, missed, events, upVars, thread, queue>>

\* The first address that takes the message; a NOTIFY that arrives ends the
\* excuse for those before it.
send_notify ==
    /\ current.pc = "send"
    /\ current.msg.server = "on"
    /\ wake' = wake \cup {current.msg.target}
    /\ missed' = missed \ {current.msg.target}
    /\ current' = [current EXCEPT !.pc = "ack"]
    /\ UNCHANGED <<signed, local, file, AxfrRest, events, upVars, thread, queue, unacked>>

\* No address takes it: a warning, then acknowledged as if one had.
send_fails ==
    /\ current.pc = "send"
    /\ current.msg.server = "on"
    /\ Event
    /\ missed' = missed \cup {current.msg.target}
    /\ current' = [current EXCEPT !.pc = "ack"]
    /\ UNCHANGED <<signed, local, file, AxfrRest, wake, upVars, thread, queue, unacked>>

ack ==
    /\ current.pc = "ack"
    /\ current' = Nobody
    /\ UNCHANGED <<axfrVars, upVars, thread, queue, unacked>>

\* Mutant: a message that is skipped is acknowledged all the same.
consumer_restarts_forgets ==
    /\ current # Nobody \/ unacked # <<>>
    /\ queue' = (IF current = Nobody THEN <<>> ELSE <<current.msg>>) \o queue
    /\ unacked' = <<>>
    /\ current' = Nobody
    /\ UNCHANGED <<signed, local, file, AxfrRest, wake, missed, events, upVars, thread>>

\* The process restarts, and RabbitMQ puts what is not acknowledged back in
\* its place.
consumer_restarts ==
    /\ current # Nobody \/ unacked # <<>>
    /\ queue' = unacked \o (IF current = Nobody THEN <<>> ELSE <<current.msg>>) \o queue
    /\ unacked' = <<>>
    /\ current' = Nobody
    /\ UNCHANGED <<signed, local, file, AxfrRest, wake, missed, events, upVars, thread>>

------------------------------------------------------------------------------
\* Steps that happen without anybody's decision.
ChainStep ==
    \/ notify_conn(TRUE)
    \/ callback
    \/ sidecar_reconnects
    \/ axfr_notify_conn(TRUE)
    \/ lookup_targets
    \/ thread.pc = "publish" /\ \E m \in thread.left : publish(m)
    \/ consume
    \/ skip
    \/ send_notify
    \/ ack

ChainNext ==
    \/ ChainStep
    \/ primary_loads
    \/ notify_conn(FALSE)
    \/ notify_fails
    \/ sidecar_disconnects
    \/ local_refreshes
    \/ \E kind \in {"good", "bad", "panic"} : local_flushes(kind)
    \/ axfr_notify_conn(FALSE)
    \/ thread_dies
    \/ resolve_fails
    \/ send_fails
    \/ consumer_restarts

Next ==
    \/ AxfrNext /\ UNCHANGED <<upVars, downVars>>
    \/ ChainNext

Init ==
    /\ AxfrInit
    /\ primary = [version |-> 1, notify |-> FALSE]
    /\ reloads = 0
    /\ sidecar = TRUE
    /\ thread = NoThread
    /\ queue = <<>>
    /\ unacked = <<>>
    /\ current = Nobody
    /\ reloadLost = FALSE

Spec == Init /\ [][Next]_vars

\* A secondary and the task it talks to go on, one of them at least; the timers
\* of Knot and of the secondaries fire.  Nothing is assumed of the NOTIFYs.
Fairness ==
    /\ \A t \in Targets : WF_vars(/\ ServerStep(t) \/ ClientStep(t) \/ refresh(t)
                                 /\ UNCHANGED <<upVars, downVars>>)
    /\ WF_vars(local_refreshes \/ local_flushes("good"))

FairSpec == Spec /\ Fairness

------------------------------------------------------------------------------
\* Every variable holds a value of its kind; in particular the channel of a
\* connection never holds more than its capacity.
TypeOK ==
    /\ signed \subseteq Targets
    /\ file \in [version : Nat, kind : {"good", "bad", "panic"}]
    /\ local \in [version : Nat, told : BOOLEAN, notify : BOOLEAN]
    /\ primary \in [version : Nat, notify : BOOLEAN]
    /\ rows \in [Keys -> Values] /\ wanted \in [Keys -> Values]
    /\ raced \subseteq Keys
    /\ held \in [Handlers -> {NoForm} \cup [op : {"create", "edit", "delete"}, key : Keys]]
    /\ conn \in [Targets -> Connection]
    /\ chan \in [Targets -> Seq(Packet)]
    /\ \A t \in Targets : Len(chan[t]) <= Capacity
    /\ client \in [Targets -> Client]
    /\ copy \in [Targets -> [version : Nat, records : SUBSET Message]]
    /\ wake \subseteq Targets /\ missed \subseteq Targets
    /\ events \in 0 .. MaxEvents
    /\ reloads \in Nat /\ sidecar \in BOOLEAN /\ reloadLost \in BOOLEAN
    /\ thread \in [pc : {"idle", "lookup", "publish"}, left : SUBSET Notice]
    /\ queue \in Seq(Notice) /\ unacked \in Seq(Notice)
    /\ current = Nobody \/ current \in [pc : {"send", "ack"}, msg : Notice]

\* A secondary can verify the signature of every message it is sent, whatever
\* went on before on the connection: sign_message chains them (first, hash).
SignedAnswersVerify == \A t \in signed : ~ client[t].bad

\* What a secondary installs is one version of the zone, all of it, although
\* the file changes while handle_request waits for Django and for the channel.
InstalledWhole == \A t \in Targets : copy[t].records = Records(copy[t].version)

\* A row is as its last form left it, unless the form was submitted while a
\* task was between reading the row and saving it with a new last_used.
RowsAsSubmitted == \A k \in Keys : rows[k] # wanted[k] => k \in raced

\* The secondary Knot is current, or will hear of the new version, unless a
\* reload was published without a queue, lost with it, or given up.
KnotStaleOnlyIfLost ==
    \/ local.version = primary.version
    \/ primary.notify \/ reloads > 0 \/ local.told
    \/ reloadLost

\* A NOTIFY for t is under way, be it skipped and not acknowledged, or has
\* arrived and t is about to act or acting on it.
Coming(t) ==
    \/ local.notify
    \/ thread.pc = "lookup"
    \/ thread.pc = "publish" /\ t \in TargetsOf(thread.left)
    \/ \E i \in DOMAIN queue : queue[i].target = t
    \/ \E i \in DOMAIN unacked : unacked[i].target = t
    \/ current.pc = "send" /\ current.msg.target = t
    \/ t \in wake
    \/ client[t].notified

\* A secondary is as new as Knot, or a NOTIFY is coming, unless the last one
\* was dropped (killed after the answer to Knot, no row, no address took it) or
\* came to nothing (error, broken connection, file not written yet).
StaleOnlyIfMissed ==
    \A t \in Targets : copy[t].version # local.version => Coming(t) \/ t \in missed

\* Every query ends: with its answers, an error, or the end of the connection.
QueryEnds == \A t \in Targets : client[t] # Quiet ~> client[t] = Quiet

\* With the timers of Knot and of the secondaries, every secondary that may
\* transfer a zone that parses has the newest version in the end.
Denied(t) == IF t \in signed THEN rows[<<"access", t>>] = "absent"
             ELSE rows[<<"access", t>>] # "on"
SecondariesConverge ==
    <>[](\A t \in Targets :
            \/ copy[t].version = primary.version
            \/ Denied(t) \/ file.kind # "good")
================================================================================
