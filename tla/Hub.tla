-------------------------------- MODULE Hub --------------------------------
(***************************************************************************)
(* The WebSocket hub of core/websocket/hub.go: the run goroutine selecting *)
(* over the buffered register, unregister and broadcast channels; for each *)
(* client a readPump and a writePump goroutine; Register, SendTo and the   *)
(* room operations called from other goroutines; Client.Close.             *)
(*                                                                         *)
(* Payloads are abstracted away: a client's Send channel is the number of  *)
(* payloads buffered in it, and a broadcast is to everyone or to the room. *)
(* One room exists, created before the clients connect.                    *)
(***************************************************************************)
EXTENDS Naturals, Sequences, FiniteSets

CONSTANTS
    Clients,      \* clients, one per upgraded connection
    MaxClients,   \* h.maxClients
    RegCap,       \* capacity of h.register (100)
    UnregCap,     \* capacity of h.unregister (100)
    BcastCap,     \* capacity of h.broadcast (1000)
    SendCap,      \* capacity of a client's Send channel (256)
    MaxMsgs,      \* bound: Broadcast calls
    MaxDirect,    \* bound: SendTo calls
    NoClient      \* model value: no client

ASSUME /\ MaxClients \in Nat /\ RegCap \in Nat \ {0} /\ UnregCap \in Nat \ {0}
       /\ BcastCap \in Nat \ {0} /\ SendCap \in Nat \ {0}
       /\ MaxMsgs \in Nat /\ MaxDirect \in Nat

VARIABLES
    regQ,        \* h.register
    unregQ,      \* h.unregister
    bcastQ,      \* h.broadcast: TRUE for a message to the room, FALSE for everyone
    clients,     \* h.clients
    members,     \* the room's clients map
    roomLive,    \* the room is in h.rooms
    send,        \* client -> payloads buffered in client.Send
    sendClosed,  \* clients whose Send channel is closed (Client.Close)
    connUp,      \* client -> its network connection still works
    reg,         \* client -> where its Register call is
    rp, wp,      \* client -> readPump / writePump program counter
    hub,         \* run: program counter, clients left to visit, client to unregister
    sendTo,      \* a SendTo caller: program counter and the client it loaded
    msgs,        \* Broadcast calls so far
    direct,      \* SendTo calls so far
    slow,        \* clients a broadcast found with a full Send channel
    crashed      \* a goroutine panicked and the process exited

vars == <<regQ, unregQ, bcastQ, clients, members, roomLive, send, sendClosed, connUp,
          reg, rp, wp, hub, sendTo, msgs, direct, slow, crashed>>

Alive == ~crashed

\* A send on a closed channel panics; nothing recovers it.
Panic ==
    /\ crashed' = TRUE
    /\ UNCHANGED <<regQ, unregQ, bcastQ, clients, members, roomLive, send, sendClosed,
                   connUp, reg, rp, wp, hub, sendTo, msgs, direct, slow>>

-----------------------------------------------------------------------------
(* Register, HandleConnection and the pumps *)

\* Register counts h.clients; at the limit HandleConnection closes the connection.
RegisterCount(c) ==
    /\ Alive /\ reg[c] = "idle"
    /\ IF Cardinality(clients) >= MaxClients
       THEN /\ reg' = [reg EXCEPT ![c] = "rejected"]
            /\ connUp' = [connUp EXCEPT ![c] = FALSE]
       ELSE /\ reg' = [reg EXCEPT ![c] = "counted"]
            /\ UNCHANGED connUp
    /\ UNCHANGED <<regQ, unregQ, bcastQ, clients, members, roomLive, send, sendClosed,
                   rp, wp, hub, sendTo, msgs, direct, slow, crashed>>

\* h.register <- client, then both pumps are started.
RegisterSend(c) ==
    /\ Alive /\ reg[c] = "counted"
    /\ Len(regQ) < RegCap
    /\ regQ' = Append(regQ, c)
    /\ reg' = [reg EXCEPT ![c] = "done"]
    /\ rp' = [rp EXCEPT ![c] = "run"]
    /\ wp' = [wp EXCEPT ![c] = "run"]
    /\ UNCHANGED <<unregQ, bcastQ, clients, members, roomLive, send, sendClosed, connUp,
                   hub, sendTo, msgs, direct, slow, crashed>>

\* readPump: ReadMessage fails once the connection is gone; the defer unregisters.
ReadPump(c) ==
    /\ Alive /\ rp[c] = "run" /\ ~connUp[c]
    /\ rp' = [rp EXCEPT ![c] = "unreg"]
    /\ UNCHANGED <<regQ, unregQ, bcastQ, clients, members, roomLive, send, sendClosed,
                   connUp, reg, wp, hub, sendTo, msgs, direct, slow, crashed>>

(***************************************************************************)
(* writePump: range client.Send. A payload is written; a failed write, or  *)
(* the end of the range over the closed channel, ends the loop.            *)
(***************************************************************************)
WritePump(c) ==
    /\ Alive /\ wp[c] = "run"
    /\ \/ /\ send[c] > 0
          /\ send' = [send EXCEPT ![c] = @ - 1]
          /\ wp' = [wp EXCEPT ![c] = IF connUp[c] THEN "run" ELSE "unreg"]
       \/ /\ send[c] = 0 /\ c \in sendClosed
          /\ wp' = [wp EXCEPT ![c] = "unreg"]
          /\ UNCHANGED send
    /\ UNCHANGED <<regQ, unregQ, bcastQ, clients, members, roomLive, sendClosed, connUp,
                   reg, rp, hub, sendTo, msgs, direct, slow, crashed>>

\* The deferred h.Unregister(client) of a pump: a send on h.unregister.
PumpUnregister(c) ==
    /\ Alive /\ Len(unregQ) < UnregCap
    /\ \/ /\ rp[c] = "unreg"
          /\ rp' = [rp EXCEPT ![c] = "done"]
          /\ UNCHANGED wp
       \/ /\ wp[c] = "unreg"
          /\ wp' = [wp EXCEPT ![c] = "done"]
          /\ UNCHANGED rp
    /\ unregQ' = Append(unregQ, c)
    /\ UNCHANGED <<regQ, bcastQ, clients, members, roomLive, send, sendClosed, connUp,
                   reg, hub, sendTo, msgs, direct, slow, crashed>>

-----------------------------------------------------------------------------
(* Hub.run *)

HubRegister ==
    /\ Alive /\ hub.pc = "select" /\ regQ # <<>>
    /\ clients' = clients \cup {Head(regQ)}
    /\ regQ' = Tail(regQ)
    /\ UNCHANGED <<unregQ, bcastQ, members, roomLive, send, sendClosed, connUp,
                   reg, rp, wp, hub, sendTo, msgs, direct, slow, crashed>>

\* Mutant: the client is closed but left in h.clients.
HubUnregister_noDelete ==
    /\ Alive /\ hub.pc = "select" /\ unregQ # <<>>
    /\ LET c == Head(unregQ) IN
       IF c \in clients
       THEN /\ sendClosed' = sendClosed \cup {c}
            /\ connUp' = [connUp EXCEPT ![c] = FALSE]
            /\ UNCHANGED clients
       ELSE UNCHANGED <<clients, sendClosed, connUp>>
    /\ unregQ' = Tail(unregQ)
    /\ UNCHANGED <<regQ, bcastQ, members, roomLive, send, reg, rp, wp, hub, sendTo,
                   msgs, direct, slow, crashed>>

(***************************************************************************)
(* A client still in h.clients is deleted and closed: Client.Close swaps   *)
(* the closed flag, closes Send and closes the connection. An unknown      *)
(* client is ignored.                                                      *)
(***************************************************************************)
HubUnregister ==
    /\ Alive /\ hub.pc = "select" /\ unregQ # <<>>
    /\ LET c == Head(unregQ) IN
       IF c \in clients
       THEN /\ clients' = clients \ {c}
            /\ sendClosed' = sendClosed \cup {c}
            /\ connUp' = [connUp EXCEPT ![c] = FALSE]
       ELSE UNCHANGED <<clients, sendClosed, connUp>>
    /\ unregQ' = Tail(unregQ)
    /\ UNCHANGED <<regQ, bcastQ, members, roomLive, send, reg, rp, wp, hub, sendTo,
                   msgs, direct, slow, crashed>>

(***************************************************************************)
(* Room.Broadcast (hub.go 269-278): a Range over the members with a        *)
(* non-blocking send to each, a full channel skipped and no closed check;  *)
(* a member whose Send is closed makes the send panic.                     *)
(***************************************************************************)
RoomBroadcast ==
    IF members \cap sendClosed # {}
    THEN /\ crashed' = TRUE
         /\ UNCHANGED send
    ELSE /\ send' = [c \in Clients |->
                       IF c \in members /\ send[c] < SendCap THEN send[c] + 1 ELSE send[c]]
         /\ UNCHANGED crashed

(***************************************************************************)
(* A broadcast message. To everyone: visit h.clients one by one. To the    *)
(* room: Room.Broadcast, if the room is still in h.rooms.                  *)
(***************************************************************************)
HubBroadcast ==
    /\ Alive /\ hub.pc = "select" /\ bcastQ # <<>>
    /\ bcastQ' = Tail(bcastQ)
    /\ IF ~Head(bcastQ)
       THEN /\ hub' = [hub EXCEPT !.pc = "bcast", !.todo = clients]
            /\ UNCHANGED <<send, crashed>>
       ELSE /\ IF roomLive THEN RoomBroadcast ELSE UNCHANGED <<send, crashed>>
            /\ UNCHANGED hub
    /\ UNCHANGED <<regQ, unregQ, clients, members, roomLive, sendClosed, connUp,
                   reg, rp, wp, sendTo, msgs, direct, slow>>

\* Mutant: a full channel is skipped, as Room.Broadcast does, not unregistered.
HubBcastStep_skipFull ==
    /\ Alive /\ hub.pc = "bcast"
    /\ \E c \in hub.todo :
         /\ send' = [send EXCEPT ![c] = IF @ < SendCap THEN @ + 1 ELSE @]
         /\ slow' = IF send[c] < SendCap THEN slow ELSE slow \cup {c}
         /\ hub' = [hub EXCEPT !.todo = @ \ {c}]
    /\ UNCHANGED <<regQ, unregQ, bcastQ, clients, members, roomLive, sendClosed, connUp,
                   reg, rp, wp, sendTo, msgs, direct, crashed>>

(***************************************************************************)
(* One client of the Range: a non-blocking send on its Send channel; a     *)
(* full channel makes run queue the client on its own h.unregister.        *)
(***************************************************************************)
HubBcastStep ==
    /\ Alive /\ hub.pc = "bcast"
    /\ \E c \in hub.todo :
         IF send[c] < SendCap
         THEN /\ send' = [send EXCEPT ![c] = @ + 1]
              /\ hub' = [hub EXCEPT !.todo = @ \ {c}]
              /\ UNCHANGED slow
         ELSE /\ slow' = slow \cup {c}
              /\ hub' = [hub EXCEPT !.pc = "unreg", !.todo = @ \ {c}, !.victim = c]
              /\ UNCHANGED send
    /\ UNCHANGED <<regQ, unregQ, bcastQ, clients, members, roomLive, sendClosed, connUp,
                   reg, rp, wp, sendTo, msgs, direct, crashed>>

HubBcastDone ==
    /\ Alive /\ hub.pc = "bcast" /\ hub.todo = {}
    /\ hub' = [hub EXCEPT !.pc = "select"]
    /\ UNCHANGED <<regQ, unregQ, bcastQ, clients, members, roomLive, send, sendClosed,
                   connUp, reg, rp, wp, sendTo, msgs, direct, slow, crashed>>

\* h.unregister <- client from inside run, the channel's only receiver.
HubSelfUnregister ==
    /\ Alive /\ hub.pc = "unreg"
    /\ Len(unregQ) < UnregCap
    /\ unregQ' = Append(unregQ, hub.victim)
    /\ hub' = [hub EXCEPT !.pc = "bcast", !.victim = NoClient]
    /\ UNCHANGED <<regQ, bcastQ, clients, members, roomLive, send, sendClosed, connUp,
                   reg, rp, wp, sendTo, msgs, direct, slow, crashed>>

-----------------------------------------------------------------------------
(* Other callers *)

\* Broadcast/BroadcastText: h.broadcast <- msg, to everyone or to the room.
Broadcast(toRoom) ==
    /\ Alive /\ msgs < MaxMsgs /\ Len(bcastQ) < BcastCap
    /\ bcastQ' = Append(bcastQ, toRoom)
    /\ msgs' = msgs + 1
    /\ UNCHANGED <<regQ, unregQ, clients, members, roomLive, send, sendClosed, connUp,
                   reg, rp, wp, hub, sendTo, direct, slow, crashed>>

\* SendTo: h.clients.Load(clientID) ...
SendToLoad(c) ==
    /\ Alive /\ sendTo.pc = "idle" /\ direct < MaxDirect
    /\ c \in clients
    /\ sendTo' = [pc |-> "loaded", client |-> c]
    /\ direct' = direct + 1
    /\ UNCHANGED <<regQ, unregQ, bcastQ, clients, members, roomLive, send, sendClosed,
                   connUp, reg, rp, wp, hub, msgs, slow, crashed>>

\* Mutant: the payload is counted into Send even when the channel is full.
SendToSend_noFullCheck ==
    /\ Alive /\ sendTo.pc = "loaded"
    /\ LET c == sendTo.client IN
       IF c \in sendClosed
       THEN Panic
       ELSE /\ send' = [send EXCEPT ![c] = @ + 1]
            /\ sendTo' = [pc |-> "idle", client |-> NoClient]
            /\ UNCHANGED <<regQ, unregQ, bcastQ, clients, members, roomLive, sendClosed,
                           connUp, reg, rp, wp, hub, msgs, direct, slow, crashed>>

\* ... then a non-blocking send on the loaded client's Send channel.
SendToSend ==
    /\ Alive /\ sendTo.pc = "loaded"
    /\ LET c == sendTo.client IN
       IF c \in sendClosed
       THEN Panic
       ELSE /\ send' = [send EXCEPT ![c] = IF @ < SendCap THEN @ + 1 ELSE @]
            /\ sendTo' = [pc |-> "idle", client |-> NoClient]
            /\ UNCHANGED <<regQ, unregQ, bcastQ, clients, members, roomLive, sendClosed,
                           connUp, reg, rp, wp, hub, msgs, direct, slow, crashed>>

\* Room.Join: GetClient, then store the client in the room.
Join(c) ==
    /\ Alive /\ roomLive /\ c \in clients /\ c \notin members
    /\ members' = members \cup {c}
    /\ UNCHANGED <<regQ, unregQ, bcastQ, clients, roomLive, send, sendClosed, connUp,
                   reg, rp, wp, hub, sendTo, msgs, direct, slow, crashed>>

Leave(c) ==
    /\ Alive /\ c \in members
    /\ members' = members \ {c}
    /\ UNCHANGED <<regQ, unregQ, bcastQ, clients, roomLive, send, sendClosed, connUp,
                   reg, rp, wp, hub, sendTo, msgs, direct, slow, crashed>>

\* DeleteRoom: every member leaves, then the room leaves h.rooms.
DeleteRoom ==
    /\ Alive /\ roomLive
    /\ members' = {}
    /\ roomLive' = FALSE
    /\ UNCHANGED <<regQ, unregQ, bcastQ, clients, send, sendClosed, connUp,
                   reg, rp, wp, hub, sendTo, msgs, direct, slow, crashed>>

\* The peer goes away or the network fails.
PeerDrop(c) ==
    /\ Alive /\ connUp[c]
    /\ connUp' = [connUp EXCEPT ![c] = FALSE]
    /\ UNCHANGED <<regQ, unregQ, bcastQ, clients, members, roomLive, send, sendClosed,
                   reg, rp, wp, hub, sendTo, msgs, direct, slow, crashed>>

-----------------------------------------------------------------------------

\* NewHub and CreateRoom; every client has completed the upgrade.
Init ==
    /\ regQ = <<>> /\ unregQ = <<>> /\ bcastQ = <<>>
    /\ clients = {} /\ members = {} /\ roomLive = TRUE
    /\ send = [c \in Clients |-> 0]
    /\ sendClosed = {}
    /\ connUp = [c \in Clients |-> TRUE]
    /\ reg = [c \in Clients |-> "idle"]
    /\ rp = [c \in Clients |-> "off"]
    /\ wp = [c \in Clients |-> "off"]
    /\ hub = [pc |-> "select", todo |-> {}, victim |-> NoClient]
    /\ sendTo = [pc |-> "idle", client |-> NoClient]
    /\ msgs = 0 /\ direct = 0
    /\ slow = {}
    /\ crashed = FALSE

HubStep == HubRegister \/ HubUnregister \/ HubBroadcast
           \/ HubBcastStep \/ HubBcastDone \/ HubSelfUnregister

Pumps(c) == ReadPump(c) \/ WritePump(c) \/ PumpUnregister(c)

Next ==
    \/ HubStep
    \/ \E c \in Clients : RegisterCount(c) \/ RegisterSend(c) \/ Pumps(c)
    \/ \E b \in BOOLEAN : Broadcast(b)
    \/ \E c \in Clients : SendToLoad(c)
    \/ SendToSend
    \/ \E c \in Clients : Join(c) \/ Leave(c) \/ PeerDrop(c)
    \/ DeleteRoom

(***************************************************************************)
(* Fairness: run, the pumps, a started Register and a started SendTo are  *)
(* goroutines the scheduler keeps running. Peers, Broadcast callers and    *)
(* room operations owe nothing.                                            *)
(***************************************************************************)
Fairness ==
    /\ WF_vars(HubStep)
    /\ \A c \in Clients : WF_vars(Pumps(c)) /\ WF_vars(RegisterSend(c))
    /\ WF_vars(SendToSend)

Spec == Init /\ [][Next]_vars /\ Fairness

-----------------------------------------------------------------------------
(* Properties *)

\* Type invariant; buffered channels stay within their capacity.
TypeOK ==
    /\ regQ \in Seq(Clients) /\ Len(regQ) <= RegCap
    /\ unregQ \in Seq(Clients) /\ Len(unregQ) <= UnregCap
    /\ bcastQ \in Seq(BOOLEAN) /\ Len(bcastQ) <= BcastCap
    /\ clients \subseteq Clients /\ members \subseteq Clients
    /\ send \in [Clients -> 0..SendCap]
    /\ sendClosed \subseteq Clients /\ slow \subseteq Clients
    /\ reg \in [Clients -> {"idle", "counted", "done", "rejected"}]
    /\ rp \in [Clients -> {"off", "run", "unreg", "done"}]
    /\ wp \in [Clients -> {"off", "run", "unreg", "done"}]
    /\ hub.pc \in {"select", "bcast", "unreg"} /\ hub.todo \subseteq Clients

(***************************************************************************)
(* h.clients never holds a closed client: run's unregister case deletes a  *)
(* client before closing it, and a client is registered at most once, so   *)
(* broadcasts and SendTo lookups only find clients whose Send is open.     *)
(***************************************************************************)
ClosedClientsUnregistered == clients \cap sendClosed = {}

(***************************************************************************)
(* A client that a broadcast found with a full Send channel is eventually *)
(* closed: run queues it on h.unregister and later removes and closes it.  *)
(* (Process exit closes every connection too.)                             *)
(***************************************************************************)
SlowClientsEventuallyDropped ==
    \A c \in Clients : c \in slow ~> (c \in sendClosed \/ crashed)

(***************************************************************************)
(* A property the code is expected to have and does not (violation run).  *)
(***************************************************************************)

(***************************************************************************)
(* A registered client whose connection is gone is eventually removed from *)
(* h.clients by its pumps' Unregister. run may take the readPump's         *)
(* unregister before the register, ignore it, and keep the client forever. *)
(***************************************************************************)
DisconnectedClientsRemoved ==
    \A c \in Clients : (reg[c] = "done" /\ ~connUp[c]) ~> (c \notin clients \/ crashed)

=============================================================================
