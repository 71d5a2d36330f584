------------------------------- MODULE Broker -------------------------------
(***************************************************************************)
(* The Server-Sent Events broker (package sse, part_014) and the Stream    *)
(* that numbers its events (part_013). The run goroutine selects over the  *)
(* buffered newClients, deadClients and messages channels and is the only  *)
(* goroutine that changes the clients map (a sync.Map keyed by client ID). *)
(* The keepalive goroutine ranges over the map on every tick and sends a   *)
(* keepalive event to each client; Stream.Send publishes through messages, *)
(* while Stream.SendTo loads one client and sends to it directly. Each     *)
(* subscriber calls Subscribe (Register) and later Unsubscribe, and its    *)
(* SSE writer reads the client's Channel.                                  *)
(*                                                                         *)
(* An event is its Stream number, 1..MaxEvents; Keepalive stands for the   *)
(* keepalive event, which has none. The counters only Stats reads          *)
(* (totalClients, messagesCount) are left out; droppedCount is kept, with  *)
(* drops, the number of sends that really failed, beside it.               *)
(***************************************************************************)
EXTENDS Naturals, Sequences, FiniteSets

CONSTANTS
    Clients,     \* Client objects, one per Subscribe call
    Id,          \* Id[c]: the clientID c was created with
    Publishers,  \* goroutines that call Stream.Send and Stream.SendTo
    MaxClients,  \* b.maxClients
    NewCap,      \* capacity of b.newClients (100)
    DeadCap,     \* capacity of b.deadClients (100)
    MsgCap,      \* capacity of b.messages (1000)
    Buf,         \* capacity of a client's Channel (100 from Subscribe)
    MaxEvents,   \* bound: events Stream numbers
    MaxTicks,    \* bound: keepalive ticks
    Nil          \* model value: no client

IDs == {Id[c] : c \in Clients}
Keepalive == 0
Events == 0..MaxEvents

VARIABLES
    newQ,      \* b.newClients
    deadQ,     \* b.deadClients
    msgQ,      \* b.messages
    stored,    \* b.clients: ID -> the client stored under it, or Nil
    chan,      \* c.Channel's buffered events
    closed,    \* c.closeCh and c.Channel are closed (Client.Close ran)
    seen,      \* the highest Stream number c's SSE writer has read
    sub,       \* where c's subscriber is: "new", "counted", "subscribed", "refused", "unsubscribed"
    lastId,    \* s.eventID
    pc,        \* publisher: "idle", "publish" (in Publish) or "sendto" (in Client.Send)
    ev,        \* publisher: the event it is sending
    tgt,       \* publisher: the client SendTo loaded
    ticks,     \* keepalive ticks so far
    kaPc,      \* keepalive: "idle", "range", "send", "drop", "count"
    kaTodo,    \* keepalive: the IDs its Range has still to visit
    kaTgt,     \* keepalive: the client it is sending to
    kaTmp,     \* keepalive: the droppedCount it has read
    dropped,   \* b.droppedCount
    drops,     \* the sends that returned false
    crashed    \* a send on a closed channel panicked and the process exited

vars == <<newQ, deadQ, msgQ, stored, chan, closed, seen, sub, lastId, pc, ev, tgt,
          ticks, kaPc, kaTodo, kaTgt, kaTmp, dropped, drops, crashed>>
kaVars == <<kaPc, kaTodo, kaTgt, kaTmp>>
pubVars == <<pc, ev, tgt, lastId>>

Alive == ~crashed

\* The clients the map holds.
StoredClients == {stored[i] : i \in IDs} \ {Nil}

\* Broker.ClientCount (part_014 191-198): Register's count of the map.
ClientCount == Cardinality({i \in IDs : stored[i] # Nil})

\* Mutant: the room check lets one more event in than Channel holds.
Fits_offByOne(c) == Len(chan[c]) <= Buf

\* Client.Send past IsClosed: the select finds room in Channel.
Fits(c) == Len(chan[c]) < Buf

\* Mutant: Client.Close without closeOnce's effect, or run forgetting it.
CloseClient_skip(cl, c) == cl

\* Client.Close (part_014 40-45): closeOnce closes closeCh and Channel.
CloseClient(cl, c) == [cl EXCEPT ![c] = TRUE]

\* A send on a closed channel panics; nothing recovers it.
Panic ==
    /\ crashed' = TRUE
    /\ UNCHANGED <<newQ, deadQ, msgQ, stored, chan, closed, seen, sub, lastId, pc, ev,
                   tgt, ticks, kaPc, kaTodo, kaTgt, kaTmp, dropped, drops>>

-----------------------------------------------------------------------------
(* Subscribers: Stream.Subscribe and Unsubscribe, and the SSE writer.     *)

\* Register counts the map, then refuses or goes on to queue the client.
RegisterCount(c) ==
    /\ Alive /\ sub[c] = "new"
    /\ sub' = [sub EXCEPT ![c] = IF ClientCount >= MaxClients THEN "refused" ELSE "counted"]
    /\ UNCHANGED <<newQ, deadQ, msgQ, stored, chan, closed, seen, dropped, drops, crashed, ticks>>
    /\ UNCHANGED pubVars /\ UNCHANGED kaVars

\* b.newClients <- client, blocking while the channel is full.
RegisterSend(c) ==
    /\ Alive /\ sub[c] = "counted"
    /\ Len(newQ) < NewCap
    /\ newQ' = Append(newQ, c)
    /\ sub' = [sub EXCEPT ![c] = "subscribed"]
    /\ UNCHANGED <<deadQ, msgQ, stored, chan, closed, seen, dropped, drops, crashed, ticks>>
    /\ UNCHANGED pubVars /\ UNCHANGED kaVars

\* Unsubscribe: b.deadClients <- client.
Unsubscribe(c) ==
    /\ Alive /\ sub[c] = "subscribed"
    /\ Len(deadQ) < DeadCap
    /\ deadQ' = Append(deadQ, c)
    /\ sub' = [sub EXCEPT ![c] = "unsubscribed"]
    /\ UNCHANGED <<newQ, msgQ, stored, chan, closed, seen, dropped, drops, crashed, ticks>>
    /\ UNCHANGED pubVars /\ UNCHANGED kaVars

\* The SSE writer receives from c.Channel; a closed channel is still drained.
Recv(c) ==
    /\ Alive /\ chan[c] # <<>>
    /\ seen' = [seen EXCEPT ![c] = IF Head(chan[c]) > @ THEN Head(chan[c]) ELSE @]
    /\ chan' = [chan EXCEPT ![c] = Tail(@)]
    /\ UNCHANGED <<newQ, deadQ, msgQ, stored, closed, sub, dropped, drops, crashed, ticks>>
    /\ UNCHANGED pubVars /\ UNCHANGED kaVars

-----------------------------------------------------------------------------
(* The run goroutine (part_014 109-125): one select case per channel.     *)

\* Store the new client under its ID, replacing whatever was there.
RunNew ==
    /\ Alive /\ newQ # <<>>
    /\ stored' = [stored EXCEPT ![Id[Head(newQ)]] = Head(newQ)]
    /\ newQ' = Tail(newQ)
    /\ UNCHANGED <<deadQ, msgQ, chan, closed, seen, sub, dropped, drops, crashed, ticks>>
    /\ UNCHANGED pubVars /\ UNCHANGED kaVars

\* Delete the client's ID, whichever client is stored under it, and close
\* the client.
RunDead ==
    /\ Alive /\ deadQ # <<>>
    /\ stored' = [stored EXCEPT ![Id[Head(deadQ)]] = Nil]
    /\ closed' = CloseClient(closed, Head(deadQ))
    /\ deadQ' = Tail(deadQ)
    /\ UNCHANGED <<newQ, msgQ, chan, seen, sub, dropped, drops, crashed, ticks>>
    /\ UNCHANGED pubVars /\ UNCHANGED kaVars

\* Mutant: Client.Send waits for room (a select without default).
SendNeverWaits_blocking == \A c \in StoredClients : closed[c] \/ Fits(c)

\* Client.Send's select has a default (part_014 63-68): it never waits.
SendNeverWaits == TRUE

(***************************************************************************)
(* broadcast (part_014 140-148) from run, which alone changes the map and  *)
(* closes clients: its Range sees the map as it is, and its IsClosed check *)
(* and send are not separated by any change. A client that is closed or    *)
(* full misses the event and droppedCount counts it.                       *)
(***************************************************************************)
RunMsg ==
    /\ Alive /\ msgQ # <<>>
    /\ SendNeverWaits
    /\ LET live == {c \in StoredClients : ~closed[c] /\ Fits(c)}
           failed == Cardinality(StoredClients \ live)
       IN /\ chan' = [c \in Clients |-> IF c \in live THEN Append(chan[c], Head(msgQ)) ELSE chan[c]]
          /\ dropped' = dropped + failed
          /\ drops' = drops + failed
    /\ msgQ' = Tail(msgQ)
    /\ UNCHANGED <<newQ, deadQ, stored, closed, seen, sub, crashed, ticks>>
    /\ UNCHANGED pubVars /\ UNCHANGED kaVars

-----------------------------------------------------------------------------
(* The keepalive goroutine (part_014 127-148): on each tick a broadcast   *)
(* whose Range runs beside run's Store and Delete. It visits the IDs held *)
(* when it began, loads each one's current client, checks IsClosed, then  *)
(* sends; droppedCount++ is a load and a store.                            *)

KaTick ==
    /\ Alive /\ kaPc = "idle" /\ ticks < MaxTicks
    /\ ticks' = ticks + 1
    /\ kaPc' = "range"
    /\ kaTodo' = {i \in IDs : stored[i] # Nil}
    /\ UNCHANGED <<newQ, deadQ, msgQ, stored, chan, closed, seen, sub, dropped, drops, crashed>>
    /\ UNCHANGED <<kaTgt, kaTmp>> /\ UNCHANGED pubVars

KaVisit(i) ==
    /\ Alive /\ kaPc = "range" /\ i \in kaTodo
    /\ kaTodo' = kaTodo \ {i}
    /\ kaPc' = CASE stored[i] = Nil        -> "range"
                 [] closed[stored[i]]      -> "drop"
                 [] OTHER                  -> "send"
    /\ kaTgt' = stored[i]
    /\ UNCHANGED <<newQ, deadQ, msgQ, stored, chan, closed, seen, sub, dropped, drops, crashed, ticks>>
    /\ UNCHANGED kaTmp /\ UNCHANGED pubVars

\* The select of Client.Send: a closed Channel panics, a full one drops.
KaSend ==
    /\ Alive /\ kaPc = "send"
    /\ IF closed[kaTgt] THEN Panic
       ELSE /\ chan' = IF Fits(kaTgt) THEN [chan EXCEPT ![kaTgt] = Append(@, Keepalive)] ELSE chan
            /\ kaPc' = IF Fits(kaTgt) THEN "range" ELSE "drop"
            /\ UNCHANGED <<newQ, deadQ, msgQ, stored, closed, seen, sub, dropped, drops, crashed, ticks>>
            /\ UNCHANGED <<kaTodo, kaTgt, kaTmp>> /\ UNCHANGED pubVars

KaDropLoad ==
    /\ Alive /\ kaPc = "drop"
    /\ kaTmp' = dropped
    /\ drops' = drops + 1
    /\ kaPc' = "count"
    /\ UNCHANGED <<newQ, deadQ, msgQ, stored, chan, closed, seen, sub, dropped, crashed, ticks>>
    /\ UNCHANGED <<kaTodo, kaTgt>> /\ UNCHANGED pubVars

KaDropStore ==
    /\ Alive /\ kaPc = "count"
    /\ dropped' = kaTmp + 1
    /\ kaPc' = "range"
    /\ UNCHANGED <<newQ, deadQ, msgQ, stored, chan, closed, seen, sub, drops, crashed, ticks>>
    /\ UNCHANGED <<kaTodo, kaTgt, kaTmp>> /\ UNCHANGED pubVars

KaEnd ==
    /\ Alive /\ kaPc = "range" /\ kaTodo = {}
    /\ kaPc' = "idle"
    /\ UNCHANGED <<newQ, deadQ, msgQ, stored, chan, closed, seen, sub, dropped, drops, crashed, ticks>>
    /\ UNCHANGED <<kaTodo, kaTgt, kaTmp>> /\ UNCHANGED pubVars

-----------------------------------------------------------------------------
(* Publishers (part_013 41-65): Stream.Send and Stream.SendTo.            *)

\* Stream.Send takes the next number with s.eventID.Add(1) ...
StreamSend(p) ==
    /\ Alive /\ pc[p] = "idle" /\ lastId < MaxEvents
    /\ lastId' = lastId + 1
    /\ ev' = [ev EXCEPT ![p] = lastId + 1]
    /\ pc' = [pc EXCEPT ![p] = "publish"]
    /\ UNCHANGED <<newQ, deadQ, msgQ, stored, chan, closed, seen, sub, dropped, drops, crashed, ticks>>
    /\ UNCHANGED tgt /\ UNCHANGED kaVars

\* ... and Publish sends it on b.messages, blocking while it is full.
Publish(p) ==
    /\ Alive /\ pc[p] = "publish"
    /\ Len(msgQ) < MsgCap
    /\ msgQ' = Append(msgQ, ev[p])
    /\ pc' = [pc EXCEPT ![p] = "idle"]
    /\ UNCHANGED <<newQ, deadQ, stored, chan, closed, seen, sub, dropped, drops, crashed, ticks>>
    /\ UNCHANGED <<ev, tgt, lastId>> /\ UNCHANGED kaVars

\* Stream.SendTo numbers its event, PublishToClient loads the client and
\* Client.Send checks IsClosed; a missing or closed client is an error.
SendToLoad(p, i) ==
    /\ Alive /\ pc[p] = "idle" /\ lastId < MaxEvents
    /\ lastId' = lastId + 1
    /\ ev' = [ev EXCEPT ![p] = lastId + 1]
    /\ tgt' = [tgt EXCEPT ![p] = stored[i]]
    /\ pc' = [pc EXCEPT ![p] = IF stored[i] = Nil \/ closed[stored[i]] THEN "idle" ELSE "sendto"]
    /\ UNCHANGED <<newQ, deadQ, msgQ, stored, chan, closed, seen, sub, dropped, drops, crashed, ticks>>
    /\ UNCHANGED kaVars

\* Client.Send's select: a closed Channel panics, a full one returns false.
SendToSend(p) ==
    /\ Alive /\ pc[p] = "sendto"
    /\ IF closed[tgt[p]] THEN Panic
       ELSE /\ chan' = IF Fits(tgt[p]) THEN [chan EXCEPT ![tgt[p]] = Append(@, ev[p])] ELSE chan
            /\ pc' = [pc EXCEPT ![p] = "idle"]
            /\ UNCHANGED <<newQ, deadQ, msgQ, stored, closed, seen, sub, dropped, drops, crashed, ticks>>
            /\ UNCHANGED <<ev, tgt, lastId>> /\ UNCHANGED kaVars

-----------------------------------------------------------------------------

\* NewBroker and NewStream: empty channels and map, both goroutines started.
Init ==
    /\ newQ = <<>> /\ deadQ = <<>> /\ msgQ = <<>>
    /\ stored = [i \in IDs |-> Nil]
    /\ chan = [c \in Clients |-> <<>>]
    /\ closed = [c \in Clients |-> FALSE]
    /\ seen = [c \in Clients |-> 0]
    /\ sub = [c \in Clients |-> "new"]
    /\ lastId = 0
    /\ pc = [p \in Publishers |-> "idle"]
    /\ ev = [p \in Publishers |-> 0]
    /\ tgt = [p \in Publishers |-> Nil]
    /\ ticks = 0
    /\ kaPc = "idle" /\ kaTodo = {} /\ kaTgt = Nil /\ kaTmp = 0
    /\ dropped = 0 /\ drops = 0
    /\ crashed = FALSE

KaStep == (\E i \in IDs : KaVisit(i)) \/ KaSend \/ KaDropLoad \/ KaDropStore \/ KaEnd

Next ==
    \/ \E c \in Clients : RegisterCount(c) \/ RegisterSend(c) \/ Unsubscribe(c) \/ Recv(c)
    \/ RunNew \/ RunDead \/ RunMsg
    \/ KaTick \/ KaStep
    \/ \E p \in Publishers : StreamSend(p) \/ Publish(p) \/ SendToSend(p)
    \/ \E p \in Publishers, i \in IDs : SendToLoad(p, i)

(***************************************************************************)
(* run's select takes a ready case at random, and a ready case stays ready *)
(* until run takes it: weak fairness for the deadClients and messages      *)
(* cases. A goroutine blocked on a channel send is queued and served in    *)
(* turn as room appears: strong fairness for Publish. Nobody has to        *)
(* subscribe, unsubscribe or publish, and an SSE writer may stall on its   *)
(* network connection: Recv has no fairness. The other steps need none     *)
(* for the properties below, and are given none.                           *)
(***************************************************************************)
Fairness ==
    /\ WF_vars(RunDead) /\ WF_vars(RunMsg)
    /\ \A p \in Publishers : SF_vars(Publish(p))

Spec == Init /\ [][Next]_vars /\ Fairness

-----------------------------------------------------------------------------

TypeOK ==
    /\ newQ \in Seq(Clients) /\ Len(newQ) <= NewCap
    /\ deadQ \in Seq(Clients) /\ Len(deadQ) <= DeadCap
    /\ msgQ \in Seq(Events) /\ Len(msgQ) <= MsgCap
    /\ stored \in [IDs -> Clients \cup {Nil}]
    /\ \A c \in Clients : chan[c] \in Seq(Events) /\ Len(chan[c]) <= Buf
    /\ closed \in [Clients -> BOOLEAN]
    /\ sub \in [Clients -> {"new", "counted", "subscribed", "refused", "unsubscribed"}]
    /\ lastId \in 0..MaxEvents
    /\ pc \in [Publishers -> {"idle", "publish", "sendto"}]
    /\ kaPc \in {"idle", "range", "send", "drop", "count"}
    /\ dropped \in Nat /\ drops \in Nat

(***************************************************************************)
(* Publish returns: an event Stream.Send has numbered is eventually in     *)
(* messages, taken by run and offered to every client, unless the process  *)
(* died. run never waits on a client, because Client.Send's select has a   *)
(* default, so one stalled SSE writer cannot stop the broker.              *)
(***************************************************************************)
PublishesComplete ==
    \A p \in Publishers : pc[p] = "publish" ~> (pc[p] = "idle" \/ crashed)

(***************************************************************************)
(* A client that has unsubscribed is eventually closed, so that its SSE    *)
(* writer's receive loop ends: run takes deadClients in turn, and its case *)
(* calls client.Close.                                                     *)
(***************************************************************************)
UnsubscribedClientsClosed ==
    \A c \in Clients : sub[c] = "unsubscribed" ~> (closed[c] \/ crashed)

(***************************************************************************)
(* The properties below are the broker's contract as its comments and      *)
(* names give it, and TLC finds each one violated; they are kept for the   *)
(* configurations that show how.                                           *)
(***************************************************************************)

(***************************************************************************)
(* Client.Send, "non-blocking", never panics: the IsClosed check before    *)
(* the send is meant to keep it off a closed Channel. keepalive and        *)
(* SendTo check and send apart from run, which closes clients.             *)
(***************************************************************************)
NoPanic == ~crashed

(***************************************************************************)
(* Register refuses a client with "max clients reached": the map never     *)
(* holds more than maxClients clients. Register counts before queueing.    *)
(***************************************************************************)
ClientLimit == ClientCount <= MaxClients

(***************************************************************************)
(* The map holds no closed client: run deletes a client when it closes it, *)
(* and a closed client can get no event. run's select may take a client's *)
(* deadClients entry before its newClients entry.                          *)
(***************************************************************************)
NoClosedClientStored == \A c \in StoredClients : ~closed[c]

(***************************************************************************)
(* A subscribed client that run has stored and not closed stays in the     *)
(* map, so it gets every broadcast. The map is keyed by the client's ID,   *)
(* which Subscribe takes from its caller.                                  *)
(***************************************************************************)
StoredWhileSubscribed ==
    \A c \in Clients :
        (sub[c] = "subscribed" /\ ~closed[c] /\ \A k \in 1..Len(newQ) : newQ[k] # c)
            => stored[Id[c]] = c

\* The Stream numbers in a sequence of events, keepalives left out.
StreamIds(s) == SelectSeq(s, LAMBDA e : e # Keepalive)

(***************************************************************************)
(* Each client reads the Stream's events in the order of their IDs, as the *)
(* SSE id field and Last-Event-ID resumption assume: what is in Channel is *)
(* increasing and above what the writer has read. Send goes through        *)
(* messages and run, SendTo straight to the Channel.                       *)
(***************************************************************************)
EventsInIdOrder ==
    \A c \in Clients :
        LET s == StreamIds(chan[c])
        IN \A k \in 1..Len(s) : s[k] > seen[c] /\ (k > 1 => s[k] > s[k - 1])

(***************************************************************************)
(* Stats' messages_dropped counts every send that failed, once the        *)
(* increment keepalive has begun is done: droppedCount++ runs on run and   *)
(* on keepalive with no lock.                                              *)
(***************************************************************************)
DroppedCounted == dropped + (IF kaPc = "count" THEN 1 ELSE 0) = drops

=============================================================================
