------------------------------- MODULE Engine -------------------------------
(***************************************************************************)
(* The HTTP/1.1 engine of package core (src/unnamed/part_007): the         *)
(* event-loop goroutine of Engine.Run, which accepts sockets, reads them,  *)
(* parses a request, dispatches it and applies the keep-alive rule, and    *)
(* the idle-reaper goroutine cleanupIdleConnections, which snapshots the   *)
(* connection table under the read lock and closes what it found later.   *)
(* Around them: the kernel's descriptor table (lowest free number first),  *)
(* the epoll interest set, the connection table and the Connection pool,   *)
(* and the clients that connect, send and hang up.                         *)
(*                                                                         *)
(* Data is abstracted to what the properties tell apart: a request is      *)
(* keep-alive or not, and its route is found or not; a fragment is bytes   *)
(* that do not yet parse; time is one flag per Connection, set when more   *)
(* than the idle timeout has passed since its lastActive.                  *)
(***************************************************************************)
EXTENDS Naturals, Sequences, SequencesExt, FiniteSets

CONSTANTS
    Fds,          \* descriptor numbers the kernel can give accepted sockets
    Conns,        \* Connection records the connection pool can hand out
    NoConn,       \* model value: no Connection at this fd in e.connections
    Nil,          \* model value: a nil *http.Request
    Frag,         \* model value: bytes of a request whose header terminator is missing
    Bad,          \* model value: the "HTTP/1.1 400 Bad Request" reply
    BufCap,       \* read-buffer capacity in chunks (8192 bytes in the code)
    MaxSessions,  \* bound: client connections ever opened
    MaxSends      \* bound: chunks sent by all clients together

ASSUME /\ Fds \subseteq Nat /\ Fds # {}
       /\ BufCap \in Nat \ {0}
       /\ MaxSessions \in Nat /\ MaxSends \in Nat

NoFd == -1                                 \* Connection.fd after Reset
Reqs == [keep : BOOLEAN, hit : BOOLEAN]    \* complete request: keep-alive?, route found?
Chunks == Reqs \cup {Frag}
Sessions == 1..MaxSessions

VARIABLES
    fdOpen,      \* descriptors open in the process (the listener excluded)
    registered,  \* the epoll interest set
    table,       \* e.connections: fd -> *Connection
    pool,        \* Connection records idle in e.connectionPool
    rec,         \* the fields of every Connection record
    opened,      \* client connections opened so far
    accepted,    \* client connections taken from the listen queue so far
    session,     \* fd -> client session on that socket, 0 for none
    sock,        \* fd -> chunks sent by the client and not yet read
    hup,         \* fd -> the client has closed its side
    sends,       \* chunks sent so far
    resp,        \* session -> the replies that reached that client, in order
    dropped,     \* complete requests read from a socket and never dispatched
    loop,        \* the event loop: program counter and the Connection it holds
    reaper       \* the reaper: program counter, snapshot, fd and record it closes

vars == <<fdOpen, registered, table, pool, rec, opened, accepted, session,
          sock, hup, sends, resp, dropped, loop, reaper>>

Record == [fd : Fds \cup {NoFd}, state : {"Reading", "Processing"},
           rbuf : Seq(Chunks), request : Reqs \cup {Nil},
           buf : BOOLEAN, expired : BOOLEAN]

\* Connection.Reset (part_007:42-52); the zero lastActive is long expired.
Reset == [fd |-> NoFd, state |-> "Reading", rbuf |-> <<>>, request |-> Nil,
          buf |-> FALSE, expired |-> TRUE]

Alive == loop.pc # "Crashed"

IsReq(m) == m \in Reqs

\* A write on fd reaches the client of that socket; on a closed fd it fails.
Deliver(fd, r) ==
    resp' = IF fd \in fdOpen
            THEN [resp EXCEPT ![session[fd]] = Append(@, r)]
            ELSE resp

\* The socket is gone: unread data and the peer's state go with it.
Forget(fd) ==
    /\ sock' = [sock EXCEPT ![fd] = <<>>]
    /\ hup' = [hup EXCEPT ![fd] = FALSE]
    /\ session' = [session EXCEPT ![fd] = 0]

(***************************************************************************)
(* closeConnection(fd) on the event loop, given the records r as the       *)
(* caller left them: delete under the write lock, poller.Remove, return    *)
(* request, context and buffer, close the fd, Reset and pool the record.   *)
(* A missing entry makes it a no-op.                                       *)
(***************************************************************************)
\* Mutant: closeConnection without poller.Remove.
CloseConnection_noRemove(fd, r) ==
    IF fd \in Fds /\ table[fd] # NoConn
    THEN LET c == table[fd] IN
         /\ table' = [table EXCEPT ![fd] = NoConn]
         /\ rec' = [r EXCEPT ![c] = Reset]
         /\ fdOpen' = fdOpen \ {fd}
         /\ pool' = pool \cup {c}
         /\ Forget(fd)
         /\ UNCHANGED registered
    ELSE /\ rec' = r
         /\ UNCHANGED <<table, registered, fdOpen, pool, sock, hup, session>>

CloseConnection(fd, r) ==
    IF fd \in Fds /\ table[fd] # NoConn
    THEN LET c == table[fd] IN
         /\ table' = [table EXCEPT ![fd] = NoConn]
         /\ registered' = registered \ {fd}
         /\ rec' = [r EXCEPT ![c] = Reset]
         /\ fdOpen' = fdOpen \ {fd}
         /\ pool' = pool \cup {c}
         /\ Forget(fd)
    ELSE /\ rec' = r
         /\ UNCHANGED <<table, registered, fdOpen, pool, sock, hup, session>>

(***************************************************************************)
(* A nil *http.Request is dereferenced on the event loop: the goroutine    *)
(* panics, nothing recovers it, and the process exits, closing every       *)
(* descriptor and the listener.                                            *)
(***************************************************************************)
Crash ==
    /\ loop' = [pc |-> "Crashed", conn |-> NoConn]
    /\ fdOpen' = {}
    /\ registered' = {}
    /\ table' = [fd \in Fds |-> NoConn]
    /\ sock' = [fd \in Fds |-> <<>>]
    /\ hup' = [fd \in Fds |-> FALSE]
    /\ session' = [fd \in Fds |-> 0]
    /\ reaper' = [reaper EXCEPT !.pc = "Stopped", !.toClose = {}, !.fd = NoFd, !.conn = NoConn]
    /\ UNCHANGED <<pool, rec, opened, accepted, sends, resp, dropped>>

-----------------------------------------------------------------------------
(* Event loop *)

(***************************************************************************)
(* acceptConnections, one iteration: the kernel hands out the lowest free  *)
(* descriptor, a record is taken from the pool and initialised, and the fd *)
(* is added to the poller; if poller.Add fails the record is put back and  *)
(* the fd closed. The lease of the read buffer is dropped on that path.    *)
(***************************************************************************)
Accept ==
    /\ Alive /\ loop.pc = "Wait"
    /\ accepted < opened
    /\ Fds \ fdOpen # {}
    /\ \E c \in pool :
         LET nfd == Min(Fds \ fdOpen)
             s   == accepted + 1
         IN \/ /\ fdOpen' = fdOpen \cup {nfd}
               /\ registered' = registered \cup {nfd}
               /\ table' = [table EXCEPT ![nfd] = c]
               /\ pool' = pool \ {c}
               /\ rec' = [rec EXCEPT ![c] = [@ EXCEPT !.fd = nfd, !.state = "Reading",
                                               !.rbuf = <<>>, !.buf = TRUE,
                                               !.expired = FALSE]]
               /\ session' = [session EXCEPT ![nfd] = s]
            \/ /\ rec' = [rec EXCEPT ![c] = Reset]
               /\ UNCHANGED <<fdOpen, registered, table, pool, session>>
    /\ accepted' = accepted + 1
    /\ UNCHANGED <<opened, sock, hup, sends, resp, dropped, loop, reaper>>

(***************************************************************************)
(* handleConnectionEvent + handleRead for a ready fd (level-triggered:     *)
(* unread data or a hang-up). lastActive is refreshed. A read of 0 bytes   *)
(* closes. Otherwise up to the free room is read and ParseRequest runs on  *)
(* the whole buffer: on success the first request is taken, readOffset is  *)
(* reset to 0 (whatever followed it is lost) and the request dispatched;   *)
(* on failure a full buffer gets 400 and is closed, else it waits.         *)
(***************************************************************************)
\* Mutant: the test is off by one (readOffset > len(readBuf)).
BufferFull_offByOne(data) == Len(data) > BufCap

\* handleRead's test for a request that can never fit: readOffset >= len(readBuf).
BufferFull(data) == Len(data) >= BufCap

HandleEvent(fd) ==
    /\ Alive /\ loop.pc = "Wait"
    /\ fd \in registered /\ table[fd] # NoConn
    /\ sock[fd] # <<>> \/ hup[fd]
    /\ LET c  == table[fd]
           r1 == [rec EXCEPT ![c].expired = FALSE]
       IN /\ rec[c].state = "Reading"
          /\ \/ /\ sock[fd] = <<>>
                /\ CloseConnection(fd, r1)
                /\ UNCHANGED <<resp, dropped, loop>>
             \/ /\ sock[fd] # <<>>
                /\ LET room  == BufCap - Len(rec[c].rbuf)
                       n     == IF Len(sock[fd]) < room THEN Len(sock[fd]) ELSE room
                       data  == rec[c].rbuf \o SubSeq(sock[fd], 1, n)
                       first == SelectInSeq(data, IsReq)
                   IN \/ /\ first # 0
                         /\ rec' = [r1 EXCEPT ![c].rbuf = <<>>, ![c].request = data[first],
                                              ![c].state = "Processing"]
                         /\ sock' = [sock EXCEPT ![fd] = SubSeq(@, n + 1, Len(@))]
                         /\ dropped' = dropped + Len(SelectSeq(SubSeq(data, first + 1, Len(data)), IsReq))
                         /\ loop' = [pc |-> "Dispatch", conn |-> c]
                         /\ UNCHANGED <<table, registered, fdOpen, pool, hup, session, resp>>
                      \/ /\ first = 0 /\ BufferFull(data)
                         /\ Deliver(fd, Bad)
                         /\ CloseConnection(fd, r1)
                         /\ UNCHANGED <<dropped, loop>>
                      \/ /\ first = 0 /\ ~BufferFull(data)
                         /\ rec' = [r1 EXCEPT ![c].rbuf = data]
                         /\ sock' = [sock EXCEPT ![fd] = SubSeq(@, n + 1, Len(@))]
                         /\ UNCHANGED <<table, registered, fdOpen, pool, hup, session,
                                        resp, dropped, loop>>
    /\ UNCHANGED <<opened, accepted, sends, reaper>>

(***************************************************************************)
(* checkKeepAlive(conn): reads conn.request; HTTP/1.0 or Connection: close *)
(* closes, anything else resets the record to Reading, releases the        *)
(* request and refreshes lastActive. Returns the loop to Poller.Wait.      *)
(***************************************************************************)
\* Mutant: the keep-alive rule ignores Connection: close and HTTP/1.0.
CheckKeepAlive_alwaysKeep(c) ==
    IF rec[c].request = Nil
    THEN Crash
    ELSE /\ rec' = [rec EXCEPT ![c].state = "Reading", ![c].rbuf = <<>>,
                                ![c].request = Nil, ![c].expired = FALSE]
         /\ loop' = [pc |-> "Wait", conn |-> NoConn]
         /\ UNCHANGED <<table, registered, fdOpen, pool, sock, hup, session,
                        opened, accepted, sends, dropped, reaper>>

\* Mutant: the keep-alive path calls conn.Reset(), clearing conn.fd too.
CheckKeepAlive_fullReset(c) ==
    IF rec[c].request = Nil
    THEN Crash
    ELSE /\ IF rec[c].request.keep
            THEN /\ rec' = [rec EXCEPT ![c] = [Reset EXCEPT !.buf = TRUE, !.expired = FALSE]]
                 /\ UNCHANGED <<table, registered, fdOpen, pool, sock, hup, session>>
            ELSE CloseConnection(rec[c].fd, rec)
         /\ loop' = [pc |-> "Wait", conn |-> NoConn]
         /\ UNCHANGED <<opened, accepted, sends, dropped, reaper>>

\* Mutant: the keep-alive path forgets conn.state = StateReading.
CheckKeepAlive_stayProcessing(c) ==
    IF rec[c].request = Nil
    THEN Crash
    ELSE /\ IF rec[c].request.keep
            THEN /\ rec' = [rec EXCEPT ![c].rbuf = <<>>,
                                       ![c].request = Nil, ![c].expired = FALSE]
                 /\ UNCHANGED <<table, registered, fdOpen, pool, sock, hup, session>>
            ELSE CloseConnection(rec[c].fd, rec)
         /\ loop' = [pc |-> "Wait", conn |-> NoConn]
         /\ UNCHANGED <<opened, accepted, sends, dropped, reaper>>

CheckKeepAlive(c) ==
    IF rec[c].request = Nil
    THEN Crash
    ELSE /\ IF rec[c].request.keep
            THEN /\ rec' = [rec EXCEPT ![c].state = "Reading", ![c].rbuf = <<>>,
                                       ![c].request = Nil, ![c].expired = FALSE]
                 /\ UNCHANGED <<table, registered, fdOpen, pool, sock, hup, session>>
            ELSE CloseConnection(rec[c].fd, rec)
         /\ loop' = [pc |-> "Wait", conn |-> NoConn]
         /\ UNCHANGED <<opened, accepted, sends, dropped>>
         /\ UNCHANGED reaper

(***************************************************************************)
(* processRequest: router.Find reads conn.request.Method. A miss writes    *)
(* 404 and applies the keep-alive rule at once; a hit takes a context,     *)
(* runs the handler, which writes its response to the context's fd.        *)
(***************************************************************************)
Dispatch ==
    /\ Alive /\ loop.pc = "Dispatch"
    /\ LET c == loop.conn IN
       IF rec[c].request = Nil
       THEN Crash
       ELSE /\ Deliver(rec[c].fd, rec[c].request)
            /\ IF rec[c].request.hit
               THEN /\ loop' = [loop EXCEPT !.pc = "Finish"]
                    /\ UNCHANGED <<fdOpen, registered, table, pool, rec, opened, accepted,
                                   session, sock, hup, sends, dropped, reaper>>
               ELSE CheckKeepAlive(c)

\* The end of processRequest after the handler returned.
Finish ==
    /\ Alive /\ loop.pc = "Finish"
    /\ CheckKeepAlive(loop.conn)
    /\ UNCHANGED resp

-----------------------------------------------------------------------------
(* Idle reaper *)

(***************************************************************************)
(* One tick: under RLock, every fd whose Connection is not Processing and  *)
(* has been idle past the timeout goes into toClose. The session seen at   *)
(* each fd is kept only to state properties (the code keeps the fd).       *)
(***************************************************************************)
ReaperScan ==
    /\ Alive /\ reaper.pc = "Idle"
    /\ LET S == {fd \in Fds : /\ table[fd] # NoConn
                              /\ rec[table[fd]].state # "Processing"
                              /\ rec[table[fd]].expired}
       IN /\ S # {}
          /\ reaper' = [reaper EXCEPT !.pc = "Scanned", !.toClose = S,
                                      !.seen = {<<fd, session[fd]>> : fd \in S}]
    /\ UNCHANGED <<fdOpen, registered, table, pool, rec, opened, accepted, session,
                   sock, hup, sends, resp, dropped, loop>>

\* Mutant: the reaper closes what it found without deleting it from the table.
ReaperCloseBegin_noDelete ==
    /\ Alive /\ reaper.pc = "Scanned"
    /\ \E fd \in reaper.toClose :
         LET rest == reaper.toClose \ {fd} IN
         IF table[fd] = NoConn
         THEN reaper' = [reaper EXCEPT !.pc = IF rest = {} THEN "Idle" ELSE "Scanned",
                                       !.toClose = rest]
         ELSE reaper' = [reaper EXCEPT !.pc = "Closing", !.toClose = rest,
                                       !.fd = fd, !.conn = table[fd]]
    /\ UNCHANGED <<table, fdOpen, registered, pool, rec, opened, accepted, session,
                   sock, hup, sends, resp, dropped, loop>>

\* closeConnection(fd) for the next fd of toClose, up to releasing the lock.
ReaperCloseBegin ==
    /\ Alive /\ reaper.pc = "Scanned"
    /\ \E fd \in reaper.toClose :
         LET rest == reaper.toClose \ {fd} IN
         IF table[fd] = NoConn
         THEN /\ reaper' = [reaper EXCEPT !.pc = IF rest = {} THEN "Idle" ELSE "Scanned",
                                          !.toClose = rest]
              /\ UNCHANGED table
         ELSE /\ table' = [table EXCEPT ![fd] = NoConn]
              /\ reaper' = [reaper EXCEPT !.pc = "Closing", !.toClose = rest,
                                          !.fd = fd, !.conn = table[fd]]
    /\ UNCHANGED <<fdOpen, registered, pool, rec, opened, accepted, session,
                   sock, hup, sends, resp, dropped, loop>>

\* The rest of that closeConnection, on the record it took out of the table.
ReaperCloseEnd ==
    /\ Alive /\ reaper.pc = "Closing"
    /\ LET fd == reaper.fd
           c  == reaper.conn
       IN /\ registered' = registered \ {fd}
          /\ rec' = [rec EXCEPT ![c] = Reset]
          /\ fdOpen' = fdOpen \ {fd}
          /\ pool' = pool \cup {c}
          /\ Forget(fd)
          /\ reaper' = [reaper EXCEPT !.pc = IF reaper.toClose = {} THEN "Idle" ELSE "Scanned",
                                      !.fd = NoFd, !.conn = NoConn]
    /\ UNCHANGED <<table, opened, accepted, sends, resp, dropped, loop>>

-----------------------------------------------------------------------------
(* Environment: the clock and the clients *)

\* More than idleTimeout passes since c's lastActive.
TimePasses(c) ==
    /\ Alive
    /\ \E fd \in Fds : table[fd] = c
    /\ ~rec[c].expired
    /\ rec' = [rec EXCEPT ![c].expired = TRUE]
    /\ UNCHANGED <<fdOpen, registered, table, pool, opened, accepted, session,
                   sock, hup, sends, resp, dropped, loop, reaper>>

Connect ==
    /\ Alive /\ opened < MaxSessions
    /\ opened' = opened + 1
    /\ UNCHANGED <<fdOpen, registered, table, pool, rec, accepted, session,
                   sock, hup, sends, resp, dropped, loop, reaper>>

Send(fd, m) ==
    /\ Alive /\ session[fd] # 0 /\ ~hup[fd]
    /\ sends < MaxSends
    /\ sock' = [sock EXCEPT ![fd] = Append(@, m)]
    /\ sends' = sends + 1
    /\ UNCHANGED <<fdOpen, registered, table, pool, rec, opened, accepted, session,
                   hup, resp, dropped, loop, reaper>>

Hangup(fd) ==
    /\ Alive /\ session[fd] # 0 /\ ~hup[fd]
    /\ hup' = [hup EXCEPT ![fd] = TRUE]
    /\ UNCHANGED <<fdOpen, registered, table, pool, rec, opened, accepted, session,
                   sock, sends, resp, dropped, loop, reaper>>

\* The process has exited, or every client has come and gone.
Stopped ==
    /\ ~Alive \/ (accepted = MaxSessions /\ \A fd \in Fds : table[fd] = NoConn
                  /\ reaper.pc = "Idle")
    /\ UNCHANGED vars

-----------------------------------------------------------------------------

Init ==
    /\ fdOpen = {}
    /\ registered = {}
    /\ table = [fd \in Fds |-> NoConn]
    /\ pool = Conns
    /\ rec = [c \in Conns |-> [Reset EXCEPT !.expired = FALSE]]
    /\ opened = 0
    /\ accepted = 0
    /\ session = [fd \in Fds |-> 0]
    /\ sock = [fd \in Fds |-> <<>>]
    /\ hup = [fd \in Fds |-> FALSE]
    /\ sends = 0
    /\ resp = [s \in Sessions |-> <<>>]
    /\ dropped = 0
    /\ loop = [pc |-> "Wait", conn |-> NoConn]
    /\ reaper = [pc |-> "Idle", toClose |-> {}, seen |-> {}, fd |-> NoFd, conn |-> NoConn]

LoopStep == Accept \/ (\E fd \in Fds : HandleEvent(fd)) \/ Dispatch \/ Finish
ReaperStep == ReaperScan \/ ReaperCloseBegin \/ ReaperCloseEnd
Client == Connect \/ \E fd \in Fds : Hangup(fd) \/ \E m \in Chunks : Send(fd, m)

Next ==
    \/ LoopStep
    \/ ReaperStep
    \/ \E c \in Conns : TimePasses(c)
    \/ Client
    \/ Stopped

(***************************************************************************)
(* Fairness: epoll is level-triggered and Run handles every ready fd of    *)
(* each Wait, so each kind of event-loop step is weakly fair per fd; the   *)
(* reaper's ticker fires every second; time always advances. Clients owe   *)
(* nothing.                                                                *)
(***************************************************************************)
Fairness ==
    /\ WF_vars(Accept) /\ WF_vars(Dispatch) /\ WF_vars(Finish)
    /\ \A fd \in Fds : WF_vars(HandleEvent(fd))
    /\ WF_vars(ReaperStep)
    /\ \A c \in Conns : WF_vars(TimePasses(c))

Spec == Init /\ [][Next]_vars /\ Fairness

-----------------------------------------------------------------------------
(* Properties *)

(***************************************************************************)
(* Type invariant. Besides the types: a stored partial request leaves room *)
(* in readBuf, since handleRead answers a full unparsable buffer with 400; *)
(* a full buffer would make the next Read return 0 and look like EOF.     *)
(***************************************************************************)
TypeOK ==
    /\ fdOpen \subseteq Fds /\ registered \subseteq Fds
    /\ table \in [Fds -> Conns \cup {NoConn}]
    /\ pool \subseteq Conns
    /\ rec \in [Conns -> Record]
    /\ session \in [Fds -> 0..MaxSessions]
    /\ sock \in [Fds -> Seq(Chunks)] /\ hup \in [Fds -> BOOLEAN]
    /\ resp \in [Sessions -> Seq(Reqs \cup {Bad})]
    /\ dropped \in Nat
    /\ \A c \in Conns : Len(rec[c].rbuf) < BufCap
    /\ loop.pc \in {"Wait", "Dispatch", "Finish", "Crashed"}
    /\ reaper.pc \in {"Idle", "Scanned", "Closing", "Stopped"}

(***************************************************************************)
(* The epoll interest set follows the connection table: a descriptor in    *)
(* e.connections is registered with the poller and open, and no closed     *)
(* descriptor stays registered. acceptConnections must add to the poller   *)
(* before publishing the fd, closeConnection must remove it before close.  *)
(***************************************************************************)
PollerMatchesTable ==
    /\ \A fd \in Fds : table[fd] # NoConn => fd \in registered
    /\ registered \subseteq fdOpen

(***************************************************************************)
(* Every Connection in e.connections describes its own socket and holds a  *)
(* read buffer: no one resets or re-leases a record while the table still *)
(* maps an fd to it, whatever the reaper and the event loop interleave.    *)
(***************************************************************************)
LiveRecordsIntact ==
    \A fd \in Fds : table[fd] # NoConn =>
        /\ rec[table[fd]].fd = fd
        /\ rec[table[fd]].buf
        /\ table[fd] \notin pool
        /\ \A g \in Fds \ {fd} : table[g] # table[fd]

(***************************************************************************)
(* Between taking an fd out of the table and closing it, the reaper's fd   *)
(* is still open and no connection has been published on it again: its    *)
(* syscall.Close(fd) closes the socket it removed and no other.            *)
(***************************************************************************)
ReaperTargetIntact ==
    reaper.pc = "Closing" => reaper.fd \in fdOpen /\ table[reaper.fd] = NoConn

(***************************************************************************)
(* A client that sent Connection: close (or HTTP/1.0) gets no reply after  *)
(* the reply to that request: checkKeepAlive closes the socket rather than *)
(* returning it to Reading. A 400 reply is likewise the last.              *)
(***************************************************************************)
NoReplyAfterClose ==
    \A s \in Sessions : \A i \in 1..(Len(resp[s]) - 1) :
        resp[s][i] \in Reqs /\ resp[s][i].keep

(***************************************************************************)
(* Every accepted connection is eventually closed: by its client, by the   *)
(* keep-alive rule, or by the idle reaper once the client falls silent.    *)
(***************************************************************************)
ConnectionsEventuallyClosed ==
    \A fd \in Fds : table[fd] # NoConn ~> table[fd] = NoConn

(***************************************************************************)
(* Properties the code is expected to have and does not (violation runs). *)
(***************************************************************************)

(***************************************************************************)
(* The event loop never dereferences a nil conn.request. The reaper skips  *)
(* Processing connections, but it tests the state at its snapshot and      *)
(* closes later, after the loop may have read a request on that socket.    *)
(***************************************************************************)
NoNilRequestDereference == loop.pc # "Crashed"

(***************************************************************************)
(* The reaper closes only a connection it saw idle: the client on the fd   *)
(* it is closing is the client that was on that fd at the snapshot.        *)
(***************************************************************************)
ReaperClosesOnlyIdleSessions ==
    reaper.pc = "Closing" => <<reaper.fd, session[reaper.fd]>> \in reaper.seen

(***************************************************************************)
(* Pipelined requests are all served (spec 5 and 6): no complete request   *)
(* that was read from a socket is discarded without being dispatched.     *)
(***************************************************************************)
NoPipelinedRequestDropped == dropped = 0

=============================================================================
