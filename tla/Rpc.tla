-------------------------------- MODULE Rpc --------------------------------
(***************************************************************************)
(* The RPC client of core/rpc/client/client.go talking to the server of    *)
(* core/rpc/server/server.go over one TCP connection.                      *)
(*                                                                         *)
(* Client: Call and Ping register a pending entry under a fresh request id *)
(* and write a frame; the receive goroutine hands each response frame to   *)
(* the entry with its id; Close fails every pending call. Server: Serve    *)
(* accepts and tracks the connection, handleConn reads frames one at a     *)
(* time and answers each before reading the next, Shutdown closes the      *)
(* listener and the tracked connections and waits for active requests.    *)
(*                                                                         *)
(* Frames are records [id, kind, from, meta]: `from` is the caller whose  *)
(* request a frame answers, a history field the code does not have, and   *)
(* `meta` the service and method a request names. Payloads and codecs are *)
(* abstracted away. The server looks the method up in the registry        *)
(* (RpcProtocol) that its services were registered in before it serves.   *)
(***************************************************************************)
EXTENDS Naturals, Sequences, FiniteSets, RpcProtocol

CONSTANTS
    Callers,     \* goroutines that each make one Call or one Ping
    NoCaller,    \* model value: no pending entry
    Services,    \* the services given to Server.Register, in order
    Targets,     \* caller -> the [svc, meth] its Call may name, NoTarget for a Ping
    NoTarget     \* model value: the metadata of a frame that is not a request

Metas == UNION {Targets[c] : c \in Callers} \cup {NoTarget}

\* The registry handleRequest reads: every Register has returned before Serve.
Reg == Registry(Services)

Ids == 1..Cardinality(Callers)   \* reqID never wraps: one id per caller

VARIABLES
    c2s, s2c,    \* bytes in flight on the connection, as frames
    connOpen,    \* the TCP connection is up
    srv,         \* handleConn: program counter and the request being handled
    tracked,     \* the connection is in s.conns
    listening,   \* the listener is open
    active,      \* s.activeReqs
    sd,          \* Shutdown: program counter and its snapshot of s.conns
    reqID,       \* c.reqID
    pending,     \* c.pending: request id -> caller
    closed,      \* c.closed
    closer,      \* Close: program counter and the ids its Range has left
    call,        \* caller -> [pc, kind, id, target, result]
    callErr,     \* caller -> its Call's Error field: "nil", or "err" for any error
    doneCh,      \* caller -> the frame that completed the Call in its Done channel (buffer 1)
    recv         \* the receive goroutine: [pc, f], f the frame read and being handled

vars == <<c2s, s2c, connOpen, srv, tracked, listening, active, sd, reqID, pending,
          closed, closer, call, callErr, doneCh, recv>>
srvVars == <<srv, tracked, listening, active, sd>>
cliVars == <<reqID, pending, closed, closer, call, callErr, doneCh, recv>>

Frame(i, k, c) == [id |-> i, kind |-> k, from |-> c, meta |-> NoTarget]

\* An empty Done channel.
NoFrame == Frame(0, "none", NoCaller)

\* call.done(): a non-blocking send on the Done channel.
Done(d, c, r) == [d EXCEPT ![c] = IF @ = NoFrame THEN r ELSE @]

-----------------------------------------------------------------------------
(* Server *)

\* Serve: ln.Accept returns the connection while the listener is open.
ServeAccept ==
    /\ srv.pc = "backlog" /\ listening
    /\ srv' = [srv EXCEPT !.pc = "accepted"]
    /\ UNCHANGED <<c2s, s2c, connOpen, tracked, listening, active, sd>> /\ UNCHANGED cliVars

\* trackConn(conn, true), then go handleConn(conn).
ServeTrack ==
    /\ srv.pc = "accepted"
    /\ tracked' = TRUE
    /\ srv' = [srv EXCEPT !.pc = "serving"]
    /\ UNCHANGED <<c2s, s2c, connOpen, listening, active, sd>> /\ UNCHANGED cliVars

(***************************************************************************)
(* handleConn reads one frame. A request goes to handleRequest, which      *)
(* counts itself in activeReqs; a ping is answered by handlePing at once.  *)
(***************************************************************************)
ServeRead ==
    /\ srv.pc = "serving" /\ connOpen /\ c2s # <<>>
    /\ c2s' = Tail(c2s)
    /\ IF Head(c2s).kind = "request"
       THEN /\ srv' = [pc |-> "handling", req |-> Head(c2s)]
            /\ active' = active + 1
            /\ UNCHANGED s2c
       ELSE /\ s2c' = Append(s2c, Frame(Head(c2s).id, "pong", Head(c2s).from))
            /\ UNCHANGED <<srv, active>>
    /\ UNCHANGED <<connOpen, tracked, listening, sd>> /\ UNCHANGED cliVars

(***************************************************************************)
(* handleRequest: registry.GetMethod, then registry.Call. An unknown       *)
(* service or method is answered by sendError. A registered method whose   *)
(* context parameter is of a concrete type makes Call panic; nothing       *)
(* recovers on the handleConn goroutine, and the server process exits.     *)
(* Otherwise the answer is a reply, or an error frame from a decode,       *)
(* handler or encode error. A write on a closed connection fails and is    *)
(* only logged.                                                            *)
(***************************************************************************)
\* Mutant: handleRequest without its deferred activeReqs.Add(-1).
Answer_noDecrement(k) ==
    /\ s2c' = IF connOpen THEN Append(s2c, Frame(srv.req.id, k, srv.req.from)) ELSE s2c
    /\ srv' = [pc |-> "serving", req |-> srv.req]
    /\ UNCHANGED <<c2s, connOpen, tracked, listening, active, sd>>

\* The answer frame, written if the connection is up; the deferred activeReqs.Add(-1).
Answer(k) ==
    /\ s2c' = IF connOpen THEN Append(s2c, Frame(srv.req.id, k, srv.req.from)) ELSE s2c
    /\ active' = active - 1
    /\ srv' = [pc |-> "serving", req |-> srv.req]
    /\ UNCHANGED <<c2s, connOpen, tracked, listening, sd>>

ServeRespond ==
    /\ srv.pc = "handling"
    /\ LET r == GetMethod(Reg, srv.req.meta.svc, srv.req.meta.meth)
       IN  \/ r.err # "" /\ Answer("error")
           \/ /\ r.err = "" /\ CallPanics(r.method)
              /\ srv' = [srv EXCEPT !.pc = "crashed"]
              /\ connOpen' = FALSE /\ listening' = FALSE
              /\ sd' = [sd EXCEPT !.pc = IF @ \in {"returned", "timedOut"} THEN @ ELSE "crashed"]
              /\ UNCHANGED <<c2s, s2c, tracked, active>>
           \/ r.err = "" /\ ~CallPanics(r.method) /\ \E k \in {"reply", "error"} : Answer(k)
    /\ UNCHANGED cliVars

\* The read fails on a closed connection; the deferred close and trackConn(conn, false).
ServeExit ==
    /\ srv.pc = "serving" /\ ~connOpen
    /\ tracked' = FALSE
    /\ srv' = [srv EXCEPT !.pc = "exited"]
    /\ UNCHANGED <<c2s, s2c, connOpen, listening, active, sd>> /\ UNCHANGED cliVars

(***************************************************************************)
(* Shutdown: set the flag and close the listener (a connection still in    *)
(* the accept backlog is reset); copy s.conns under the lock; close the    *)
(* copied connections; wait until activeReqs is 0, or the context ends.    *)
(***************************************************************************)
ShutdownBegin ==
    /\ sd.pc = "idle"
    /\ listening' = FALSE
    /\ connOpen' = connOpen /\ srv.pc # "backlog"
    /\ sd' = [sd EXCEPT !.pc = "snapshot"]
    /\ UNCHANGED <<c2s, s2c, srv, tracked, active>> /\ UNCHANGED cliVars

ShutdownSnapshot ==
    /\ sd.pc = "snapshot"
    /\ sd' = [pc |-> "close", snap |-> tracked]
    /\ UNCHANGED <<c2s, s2c, connOpen, srv, tracked, listening, active>> /\ UNCHANGED cliVars

ShutdownClose ==
    /\ sd.pc = "close"
    /\ connOpen' = connOpen /\ ~sd.snap
    /\ sd' = [sd EXCEPT !.pc = "wait"]
    /\ UNCHANGED <<c2s, s2c, srv, tracked, listening, active>> /\ UNCHANGED cliVars

ShutdownWait ==
    /\ sd.pc = "wait"
    /\ \/ active = 0 /\ sd' = [sd EXCEPT !.pc = "returned"]
       \/ sd' = [sd EXCEPT !.pc = "timedOut"]
    /\ UNCHANGED <<c2s, s2c, connOpen, srv, tracked, listening, active>> /\ UNCHANGED cliVars

-----------------------------------------------------------------------------
(* Client *)

SetCall(c, f, v) == [call EXCEPT ![c] = [@ EXCEPT ![f] = v]]

\* Call or Ping returns r: the error it hands its user.
Return(c, r) == [call EXCEPT ![c] = [@ EXCEPT !.pc = "returned", !.result = r]]

(***************************************************************************)
(* Go (and Ping) check c.closed under the lock. A closed client fails the  *)
(* call at once: Go sets call.Error = ErrClientClosed and puts the call in *)
(* Done; Ping returns ErrClientClosed.                                     *)
(***************************************************************************)
GoCheck(c) ==
    /\ call[c].pc = "idle"
    /\ IF ~closed
       THEN /\ call' = SetCall(c, "pc", "checked")
            /\ UNCHANGED <<callErr, doneCh>>
       ELSE IF call[c].kind = "call"
       THEN /\ call' = SetCall(c, "pc", "waiting")
            /\ callErr' = [callErr EXCEPT ![c] = "err"]
            /\ doneCh' = Done(doneCh, c, Frame(0, "closed", c))
       ELSE /\ call' = Return(c, "err")
            /\ UNCHANGED <<callErr, doneCh>>
    /\ UNCHANGED <<c2s, s2c, connOpen, reqID, pending, closed, closer, recv>> /\ UNCHANGED srvVars

\* Mutant: the id is read (reqID.Load() + 1) rather than taken with Add.
GoRegister_loadId(c) ==
    /\ call[c].pc = "checked"
    /\ pending' = [pending EXCEPT ![reqID + 1] = c]
    /\ call' = [call EXCEPT ![c] = [@ EXCEPT !.pc = "stored", !.id = reqID + 1]]
    /\ UNCHANGED <<c2s, s2c, connOpen, reqID, closed, closer, callErr, doneCh, recv>> /\ UNCHANGED srvVars

\* requestID := c.reqID.Add(1); c.pending.Store(requestID, call).
GoRegister(c) ==
    /\ call[c].pc = "checked"
    /\ reqID' = reqID + 1
    /\ pending' = [pending EXCEPT ![reqID + 1] = c]
    /\ call' = [call EXCEPT ![c] = [@ EXCEPT !.pc = "stored", !.id = reqID + 1]]
    /\ UNCHANGED <<c2s, s2c, connOpen, closed, closer, callErr, doneCh, recv>> /\ UNCHANGED srvVars

(***************************************************************************)
(* c.send(frame): under the lock, ErrClientClosed if closed, else write; a *)
(* write on a connection the peer or the network has closed fails. On an  *)
(* error Go sets call.Error, deletes the entry and completes the call;     *)
(* Ping deletes the entry and returns the error.                           *)
(***************************************************************************)
GoSend(c) ==
    /\ call[c].pc = "stored"
    /\ LET i == call[c].id
           isCall == call[c].kind = "call"
       IN IF ~closed /\ connOpen
          THEN /\ c2s' = Append(c2s, IF isCall THEN [Frame(i, "request", c) EXCEPT !.meta = call[c].target]
                                           ELSE Frame(i, "ping", c))
               /\ call' = SetCall(c, "pc", "waiting")
               /\ UNCHANGED <<pending, callErr, doneCh>>
          ELSE /\ pending' = [pending EXCEPT ![i] = NoCaller]
               /\ IF isCall
                  THEN /\ call' = SetCall(c, "pc", "waiting")
                       /\ callErr' = [callErr EXCEPT ![c] = "err"]
                       /\ doneCh' = Done(doneCh, c, Frame(i, "closed", c))
                  ELSE /\ call' = Return(c, "err")
                       /\ UNCHANGED <<callErr, doneCh>>
               /\ UNCHANGED c2s
    /\ UNCHANGED <<s2c, connOpen, reqID, closed, closer, recv>> /\ UNCHANGED srvVars

\* Call's (or Ping's) select takes the call from Done and returns call.Error.
CallReturn(c) ==
    /\ call[c].pc = "waiting" /\ doneCh[c] # NoFrame
    /\ call' = Return(c, callErr[c])
    /\ UNCHANGED <<c2s, s2c, connOpen, reqID, pending, closed, closer, callErr, doneCh, recv>>
    /\ UNCHANGED srvVars

(***************************************************************************)
(* The caller's context (Call) or the 5 s timer (Ping) ends the wait. Ping *)
(* deletes its pending entry; Call returns ctx.Err() and leaves it.        *)
(***************************************************************************)
CallTimeout(c) ==
    /\ call[c].pc = "waiting"
    /\ call' = Return(c, "err")
    /\ pending' = IF call[c].kind = "ping"
                  THEN [pending EXCEPT ![call[c].id] = NoCaller] ELSE pending
    /\ UNCHANGED <<c2s, s2c, connOpen, reqID, closed, closer, callErr, doneCh, recv>>
    /\ UNCHANGED srvVars

(***************************************************************************)
(* handleFrame LoadAndDeletes the frame's id: an unknown id is logged and  *)
(* dropped; for a known one an error frame sets call.Error (a reply is     *)
(* decoded into call.Reply, a pong changes nothing) and the call is        *)
(* completed. Nothing on the receive goroutine looks at c.closed.          *)
(***************************************************************************)
handleFrame(f) ==
    LET c == pending[f.id]
    IN IF c = NoCaller
       THEN UNCHANGED <<pending, callErr, doneCh>>
       ELSE /\ pending' = [pending EXCEPT ![f.id] = NoCaller]
            /\ callErr' = IF f.kind = "error" THEN [callErr EXCEPT ![c] = "err"] ELSE callErr
            /\ doneCh' = Done(doneCh, c, f)

(***************************************************************************)
(* receive reads a whole frame and handles it; a read on the connection    *)
(* Close has closed fails. The read touches only the incoming bytes, so it *)
(* is taken together with its handling, except for a frame read before a   *)
(* Close and handled after it (CloseBegin, HandleFrame).                   *)
(***************************************************************************)
RecvFrame ==
    /\ recv.pc = "run" /\ ~closed /\ s2c # <<>>
    /\ handleFrame(Head(s2c))
    /\ s2c' = Tail(s2c)
    /\ UNCHANGED <<c2s, connOpen, reqID, closed, closer, call, recv>> /\ UNCHANGED srvVars

\* handleFrame of the frame read before the Close.
HandleFrame ==
    /\ recv.pc = "handle"
    /\ handleFrame(recv.f)
    /\ recv' = [recv EXCEPT !.pc = "run"]
    /\ UNCHANGED <<c2s, s2c, connOpen, reqID, closed, closer, call>> /\ UNCHANGED srvVars

(***************************************************************************)
(* Close, from the user or from receive: closeOnce sets c.closed under the *)
(* lock and closes the connection; Range then fails every pending call.    *)
(* receive may have read a whole frame just before, and handles it later.  *)
(***************************************************************************)
CloseBegin ==
    /\ closer.pc = "idle"
    /\ closed' = TRUE
    /\ connOpen' = FALSE
    /\ closer' = [pc |-> "range", left |-> {i \in Ids : pending[i] # NoCaller}, cur |-> 0, who |-> NoCaller]
    /\ \/ UNCHANGED <<s2c, recv>>
       \/ /\ recv.pc = "run" /\ s2c # <<>>
          /\ recv' = [pc |-> "handle", f |-> Head(s2c)]
          /\ s2c' = Tail(s2c)
    /\ UNCHANGED <<c2s, reqID, pending, call, callErr, doneCh>> /\ UNCHANGED srvVars

\* receive: a read error (EOF included) calls c.Close() and returns.
RecvExit ==
    /\ recv.pc = "run"
    /\ closed \/ (~connOpen /\ s2c = <<>>)
    /\ recv' = [recv EXCEPT !.pc = "exited"]
    /\ IF closer.pc = "idle"
       THEN /\ closed' = TRUE
            /\ connOpen' = FALSE
            /\ closer' = [pc |-> "range", left |-> {i \in Ids : pending[i] # NoCaller}, cur |-> 0, who |-> NoCaller]
       ELSE UNCHANGED <<closed, connOpen, closer>>
    /\ UNCHANGED <<c2s, s2c, reqID, pending, call, callErr, doneCh>> /\ UNCHANGED srvVars

\* Range loads a present entry and passes its call to the callback.
CloseVisit(i) ==
    /\ closer.pc = "range" /\ pending[i] # NoCaller
    /\ closer' = [pc |-> "callback", left |-> closer.left \ {i}, cur |-> i, who |-> pending[i]]
    /\ UNCHANGED <<c2s, s2c, connOpen, reqID, pending, closed, call, callErr, doneCh, recv>>
    /\ UNCHANGED srvVars

\* Mutant: the callback deletes the entry without completing the call.
CloseCallback_noDone ==
    /\ closer.pc = "callback"
    /\ pending' = [pending EXCEPT ![closer.cur] = NoCaller]
    /\ closer' = [closer EXCEPT !.pc = "range"]
    /\ UNCHANGED <<c2s, s2c, connOpen, reqID, closed, call, callErr, doneCh, recv>>
    /\ UNCHANGED srvVars

\* The callback: call.Error = ErrClientClosed; call.done(); c.pending.Delete(key).
CloseCallback ==
    /\ closer.pc = "callback"
    /\ callErr' = [callErr EXCEPT ![closer.who] = "err"]
    /\ doneCh' = Done(doneCh, closer.who, Frame(closer.cur, "closed", closer.who))
    /\ pending' = [pending EXCEPT ![closer.cur] = NoCaller]
    /\ closer' = [closer EXCEPT !.pc = "range"]
    /\ UNCHANGED <<c2s, s2c, connOpen, reqID, closed, call, recv>> /\ UNCHANGED srvVars

\* Range ends once every entry present at its start has been visited or deleted.
CloseEnd ==
    /\ closer.pc = "range"
    /\ \A i \in closer.left : pending[i] = NoCaller
    /\ closer' = [closer EXCEPT !.pc = "done"]
    /\ UNCHANGED <<c2s, s2c, connOpen, reqID, pending, closed, call, callErr, doneCh, recv>>
    /\ UNCHANGED srvVars

\* The network fails, or the server's 5 minute read deadline passes.
ConnFail ==
    /\ connOpen
    /\ connOpen' = FALSE
    /\ UNCHANGED <<c2s, s2c>> /\ UNCHANGED srvVars /\ UNCHANGED cliVars

-----------------------------------------------------------------------------

(***************************************************************************)
(* NewServer and ListenAndServe; NewClient has dialled, so the connection  *)
(* is up and waits in the accept backlog; receive is running. Each caller  *)
(* is about to make a Call or a Ping.                                      *)
(***************************************************************************)
Init ==
    /\ c2s = <<>> /\ s2c = <<>> /\ connOpen = TRUE
    /\ srv = [pc |-> "backlog", req |-> NoFrame]
    /\ tracked = FALSE /\ listening = TRUE /\ active = 0
    /\ sd = [pc |-> "idle", snap |-> FALSE]
    /\ reqID = 0
    /\ pending = [i \in Ids |-> NoCaller]
    /\ closed = FALSE
    /\ closer = [pc |-> "idle", left |-> {}, cur |-> 0, who |-> NoCaller]
    /\ call \in {[c \in Callers |-> [pc |-> "idle", kind |-> IF t[c] = NoTarget THEN "ping" ELSE "call",
                                       id |-> 0, result |-> "none", target |-> t[c]]] :
                  t \in {t \in [Callers -> Metas] : \A c \in Callers : t[c] \in Targets[c]}}
    /\ callErr = [c \in Callers |-> "nil"]
    /\ doneCh = [c \in Callers |-> NoFrame]
    /\ recv = [pc |-> "run", f |-> NoFrame]

Server == ServeAccept \/ ServeTrack \/ ServeRead \/ ServeRespond \/ ServeExit
ShutdownSteps == ShutdownSnapshot \/ ShutdownClose \/ ShutdownWait
Caller(c) == GoRegister(c) \/ GoSend(c) \/ CallReturn(c)
Closing == CloseCallback \/ CloseEnd \/ \E i \in Ids : CloseVisit(i)

Next ==
    \/ Server \/ ShutdownBegin \/ ShutdownSteps
    \/ \E c \in Callers : GoCheck(c) \/ Caller(c) \/ CallTimeout(c)
    \/ RecvFrame \/ HandleFrame \/ RecvExit
    \/ CloseBegin \/ Closing
    \/ ConnFail

(***************************************************************************)
(* Started goroutines keep running: the server's accept loop and           *)
(* handleConn, Shutdown once called, a caller inside Call or Ping, the     *)
(* receive loop and a Close in progress. Nobody has to call Shutdown,      *)
(* Close or start a call, timers need not fire and the network need not   *)
(* fail.                                                                   *)
(***************************************************************************)
Fairness ==
    /\ WF_vars(Server) /\ WF_vars(ShutdownSteps)
    /\ \A c \in Callers : WF_vars(Caller(c))
    /\ WF_vars(RecvFrame \/ HandleFrame \/ RecvExit) /\ WF_vars(Closing)

Spec == Init /\ [][Next]_vars /\ Fairness

-----------------------------------------------------------------------------
(* Properties *)

\* What Call or Ping returned: nothing yet, nil, or an error (ErrClientClosed,
\* a write error, the server's error, ctx.Err or ErrTimeout).
Results == {"none", "nil", "err"}

\* Type invariant.
TypeOK ==
    /\ c2s \in Seq([id : Ids, kind : {"request", "ping"}, from : Callers, meta : Metas])
    /\ s2c \in Seq([id : Ids, kind : {"reply", "error", "pong"}, from : Callers, meta : {NoTarget}])
    /\ srv.pc \in {"backlog", "accepted", "serving", "handling", "exited", "crashed"}
    /\ active \in 0..1
    /\ reqID \in 0..Cardinality(Callers)
    /\ pending \in [Ids -> Callers \cup {NoCaller}]
    /\ call \in [Callers -> [pc : {"idle", "checked", "stored", "waiting", "returned"},
                             kind : {"call", "ping"}, id : 0..Cardinality(Callers),
                             target : Metas, result : Results]]
    /\ callErr \in [Callers -> {"nil", "err"}]
    /\ recv.pc \in {"run", "handle", "exited"}
    /\ closer.pc \in {"idle", "range", "callback", "done"}

(***************************************************************************)
(* A Call or Ping that returns nil was completed by the answer to its own  *)
(* request, of the kind it asked for: a reply to a Call, a pong to a Ping. *)
(* Request ids from reqID.Add, the pending map, handleFrame's              *)
(* LoadAndDelete and Close's Range, which can complete the same call as    *)
(* an answer arrives (the first done() fills Done, both write call.Error), *)
(* must never hand one caller another's answer or a close as a success.   *)
(***************************************************************************)
AnswersMatchRequests ==
    \A c \in Callers :
        call[c].result = "nil" =>
            /\ doneCh[c].from = c
            /\ doneCh[c].kind = IF call[c].kind = "call" THEN "reply" ELSE "pong"

(***************************************************************************)
(* The method a target names in the services as the server was given them *)
(* (a later Register of a name replaces the earlier), NoMethod if none.    *)
(***************************************************************************)
DeclOf(t) ==
    LET idx == {i \in DOMAIN Services : Services[i].name = t.svc}
        ms  == IF idx = {} THEN {} ELSE {m \in Services[Max(idx)].methods : m.name = t.meth}
    IN  IF ms = {} THEN NoMethod ELSE CHOOSE m \in ms : TRUE

\* The signature service.go:47-48 documents: an exported
\* func (s *Service) M(ctx context.Context, arg *Arg) (*Reply, error).
Documented(m) ==
    /\ m.exported
    /\ Len(m.ins) = 2 /\ m.ins[1] = ContextType /\ m.ins[2].kind = "ptr"
    /\ Len(m.outs) = 2 /\ m.outs[1].kind = "ptr" /\ ErrIface \in m.outs[2].impls

(***************************************************************************)
(* A Call is answered with a reply only when the method its metadata names *)
(* has the documented signature: the registry's scan, the lookup in        *)
(* handleRequest and the request id the answer carries back through the    *)
(* client's pending map must together keep a call to an unexported or      *)
(* malformed method, or another caller's reply, from reaching the caller.  *)
(***************************************************************************)
RepliesOnlyForDocumentedMethods ==
    \A c \in Callers :
        doneCh[c].kind = "reply" => Documented(DeclOf(call[c].target))

(***************************************************************************)
(* Every Call or Ping that has been started returns: the server answers,   *)
(* or the connection goes down and Close fails the pending entries, or a   *)
(* send fails, whatever Close, Shutdown and the network do meanwhile.      *)
(***************************************************************************)
CallsReturn ==
    \A c \in Callers : call[c].pc \in {"checked", "stored", "waiting"} ~> call[c].pc = "returned"

(***************************************************************************)
(* A property the code is expected to have and does not (violation run).  *)
(***************************************************************************)

(***************************************************************************)
(* Once Shutdown has returned nil, no connection is still open: it closes  *)
(* "all connections" it finds in s.conns. A connection Accept has returned *)
(* but Serve has not yet tracked is missed, and is served afterwards.      *)
(***************************************************************************)
ShutdownClosesConnections == sd.pc = "returned" => ~connOpen

(***************************************************************************)
(* The server process never panics in handleRequest: every method Register *)
(* accepts can be called by registry.Call with context.Background().       *)
(***************************************************************************)
ServerNeverPanics == srv.pc # "crashed"

=============================================================================
