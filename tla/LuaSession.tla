----------------------------- MODULE LuaSession -----------------------------
(***************************************************************************)
(* The session of FritzBoxLuaHandler (app/classes/fritzbox/handler.py):    *)
(* request(), connect() and _build_session(), executed by the worker       *)
(* threads of one handler, which share sid and session without a lock.     *)
(* Every access to one of them is a step of its own.  The queries come in  *)
(* turns of task_loop: the next turn waits for all of them.                *)
(*                                                                         *)
(* main connects the handler before any thread starts and closes it after  *)
(* the last one has ended (module Daemon), so this module begins with a    *)
(* session and leaves close() out.                                         *)
(***************************************************************************)
EXTENDS Integers, FiniteSets

CONSTANTS
    Threads,            \* worker threads, as many as Semaphore(4) lets run
    TurnQueries,        \* services asked in a turn
    Clients,            \* httpx.Client objects; ids are used again once free
    NoClient

\* There is always a client object nobody refers to.
ASSUME SessionAssumption ==
    /\ TurnQueries \in Nat \ {0}
    /\ IsFiniteSet(Threads)
    /\ IsFiniteSet(Clients)
    /\ Cardinality(Clients) > 1 + Cardinality(Threads)
    /\ NoClient \notin Clients

\* What a session id is worth: none is None, and the box does not accept a
\* dead one any more.
SIDs == {"none", "live", "dead"}

VARIABLES
    sid,                \* self.sid
    session,            \* self.session
    closed,             \* clients closed so far
    waiting,            \* queries of this turn that have not begun
    pc,                 \* where each thread is in request() and connect()
    token,              \* sid each thread sends, or has just obtained
    client,             \* client each thread waits on
    use_tls,            \* local variable of connect()
    retry_on_auth,      \* parameter of request()
    healthy,            \* the box answers, and lets sessions live, for good
    crossed             \* ghost: threads whose client another thread closed,
                        \* or whose session another thread was replacing

shared == <<sid, session, closed>>
locals == <<token, client, use_tls, retry_on_auth>>
vars   == <<shared, waiting, pc, locals, healthy, crossed>>

\* request(): check, params, send, flight, denied; connect(): connect, close,
\* build, login, challenge, respond, response, store; after it: connected.
Places == {"idle", "check", "connect", "close", "build", "login", "challenge",
           "respond", "response", "store", "connected", "params", "send",
           "flight", "denied", "raised"}

Init ==
    /\ sid = "live"
    /\ session \in Clients
    /\ closed = {}
    /\ waiting = TurnQueries
    /\ pc = [t \in Threads |-> "idle"]
    /\ token = [t \in Threads |-> "none"]
    /\ client = [t \in Threads |-> NoClient]
    /\ use_tls = [t \in Threads |-> FALSE]
    /\ retry_on_auth = [t \in Threads |-> TRUE]
    /\ healthy = FALSE
    /\ crossed = {}

Goto(t, place) == pc' = [pc EXCEPT ![t] = place]
At(t, place)   == pc[t] = place

\* The request is answered: the thread lets its client go.
LetGo(t) == client' = [client EXCEPT ![t] = NoClient]

\* request() returns and leaves no local variables behind.
Return(t) ==
    /\ Goto(t, "idle")
    /\ LetGo(t)
    /\ token' = [token EXCEPT ![t] = "none"]
    /\ retry_on_auth' = [retry_on_auth EXCEPT ![t] = TRUE]

\* A call on a closed client raises RuntimeError, which neither request() nor
\* connect() catches; it ends the thread's query and with it the polling task.
Sends(t, place) ==
    /\ IF session \in closed THEN Goto(t, "raised") ELSE Goto(t, place)
    /\ client' = [client EXCEPT ![t] = session]

\* The other end does not answer, or another thread closed the client.
MayFail(t) == ~healthy \/ client[t] \in closed

(***************************************************************************)
(* request()                                                               *)
(***************************************************************************)
Begin(t) ==
    /\ At(t, "idle") /\ waiting > 0 /\ Goto(t, "check")
    /\ waiting' = waiting - 1
    /\ crossed' = IF \E u \in Threads : At(u, "build") THEN crossed \cup {t}
                  ELSE crossed \ {t}
    /\ UNCHANGED <<shared, locals, healthy>>

CheckSid(t) ==
    /\ At(t, "check")
    /\ Goto(t, IF sid = "none" THEN "connect" ELSE "params")
    /\ UNCHANGED <<waiting, shared, locals, healthy, crossed>>

Connected(t) ==
    /\ At(t, "connected")
    /\ IF sid = "none" THEN Return(t)
       ELSE Goto(t, "params") /\ UNCHANGED <<token, client, retry_on_auth>>
    /\ UNCHANGED <<waiting, shared, use_tls, healthy, crossed>>

Params(t) ==
    /\ At(t, "params") /\ Goto(t, "send")
    /\ token' = [token EXCEPT ![t] = sid]
    /\ UNCHANGED <<waiting, shared, client, use_tls, retry_on_auth, healthy,
                   crossed>>

Send(t) ==
    /\ At(t, "send") /\ Sends(t, "flight")
    /\ UNCHANGED <<waiting, shared, token, use_tls, retry_on_auth, healthy,
                   crossed>>

\* Data, an answer nobody can parse, or an httpx.HTTPError: the query ends.
Answer(t) ==
    /\ At(t, "flight") /\ Return(t)
    /\ token[t] = "live" \/ MayFail(t)
    /\ UNCHANGED <<waiting, shared, use_tls, healthy, crossed>>

\* Status 303, 401 or 403, or a login page.
Denial(t) ==
    /\ At(t, "flight") /\ Goto(t, "denied")
    /\ token[t] # "live"
    /\ LetGo(t)
    /\ UNCHANGED <<waiting, shared, token, use_tls, retry_on_auth, healthy,
                   crossed>>

\* Faults of Heals and QueryEnds.
SidKept        == sid
SidForgotten   == "none"
RetriesForever(t) == TRUE
RetriesOnce(t)    == FALSE

Denied(t) ==
    /\ At(t, "denied")
    /\ sid' = SidForgotten
    /\ IF retry_on_auth[t]
       THEN /\ Goto(t, "check")
            /\ retry_on_auth' = [retry_on_auth EXCEPT ![t] = RetriesOnce(t)]
            /\ UNCHANGED <<token, client>>
       ELSE Return(t)
    /\ UNCHANGED <<waiting, session, closed, use_tls, healthy, crossed>>

(***************************************************************************)
(* connect() and _build_session()                                          *)
(***************************************************************************)
\* config.which the last login set, may be either.
Connect(t) ==
    /\ At(t, "connect")
    /\ Goto(t, IF sid = "none" THEN "close" ELSE "connected")
    /\ use_tls' \in {use_tls, [use_tls EXCEPT ![t] = TRUE]}
    /\ UNCHANGED <<waiting, shared, token, client, retry_on_auth, healthy,
                   crossed>>

Others(t) == {u \in Threads \ {t} : ~At(u, "idle")}

CloseOld(t) ==
    /\ At(t, "close") /\ Goto(t, "build")
    /\ closed' = closed \cup {session}
    /\ crossed' = crossed \cup Others(t)
    /\ UNCHANGED <<waiting, sid, session, locals, healthy>>

\* Clients nobody refers to are collected; their ids are used again.
Referenced == {session} \cup {client[t] : t \in Threads}

\* Fault of SessionOpenAtRest and RaisesOnlyCrossed: the closed client stays.
OldClient == session
NewClient == CHOOSE c \in Clients : c \notin Referenced

Build(t) ==
    /\ At(t, "build") /\ Goto(t, "login")
    /\ session' = NewClient
    /\ closed' = closed \cap Referenced
    /\ UNCHANGED <<waiting, sid, locals, healthy, crossed>>

Login(t) ==
    /\ At(t, "login") /\ Sends(t, "challenge")
    /\ UNCHANGED <<waiting, shared, token, use_tls, retry_on_auth, healthy,
                   crossed>>

Challenge(t) ==
    /\ At(t, "challenge") /\ Goto(t, "respond")
    /\ LetGo(t)
    /\ UNCHANGED <<waiting, shared, token, use_tls, retry_on_auth, healthy,
                   crossed>>

\* ConnectError or ConnectTimeout on HTTPS: once more over plain HTTP.
FallBack(t) ==
    /\ At(t, "challenge") /\ Goto(t, "close")
    /\ use_tls[t] /\ MayFail(t)
    /\ use_tls' = [use_tls EXCEPT ![t] = FALSE]
    /\ LetGo(t)
    /\ UNCHANGED <<waiting, shared, token, retry_on_auth, healthy, crossed>>

\* Any other httpx.HTTPError, and an answer without a usable challenge or sid.
LoginFails(t) ==
    /\ At(t, "challenge") \/ At(t, "response")
    /\ MayFail(t)
    /\ Goto(t, "connected")
    /\ use_tls' = [use_tls EXCEPT ![t] = FALSE]
    /\ LetGo(t)
    /\ UNCHANGED <<waiting, shared, token, retry_on_auth, healthy, crossed>>

Respond(t) ==
    /\ At(t, "respond") /\ Sends(t, "response")
    /\ UNCHANGED <<waiting, shared, token, use_tls, retry_on_auth, healthy,
                   crossed>>

Response(t) ==
    /\ At(t, "response") /\ Goto(t, "store")
    /\ token' = [token EXCEPT ![t] = "live"]
    /\ LetGo(t)
    /\ UNCHANGED <<waiting, shared, use_tls, retry_on_auth, healthy, crossed>>

Store(t) ==
    /\ At(t, "store") /\ Goto(t, "connected")
    /\ sid' = token[t]
    /\ use_tls' = [use_tls EXCEPT ![t] = FALSE]
    /\ UNCHANGED <<waiting, session, closed, token, client, retry_on_auth,
                   healthy, crossed>>

(***************************************************************************)
(* The box                                                                 *)
(***************************************************************************)
Expired(s) == IF s = "live" THEN "dead" ELSE s

\* A restart, or its own limits, end all sessions of the box.
Expire ==
    /\ ~healthy
    /\ sid' = Expired(sid)
    /\ token' = [t \in Threads |-> Expired(token[t])]
    /\ UNCHANGED <<waiting, session, closed, pc, client, use_tls,
                   retry_on_auth, healthy, crossed>>

Recover ==
    /\ ~healthy /\ healthy' = TRUE
    /\ UNCHANGED <<waiting, shared, pc, locals, crossed>>

\* gather() has all results; after a second the next services are due.
NextTurn ==
    /\ waiting = 0 /\ \A t \in Threads : At(t, "idle")
    /\ waiting' = TurnQueries
    /\ UNCHANGED <<shared, pc, locals, healthy, crossed>>

Thread(t) ==
    \/ Begin(t) \/ CheckSid(t) \/ Connected(t) \/ Params(t) \/ Send(t)
    \/ Answer(t) \/ Denial(t) \/ Denied(t)
    \/ Connect(t) \/ CloseOld(t) \/ Build(t) \/ Login(t) \/ Challenge(t)
    \/ FallBack(t) \/ LoginFails(t) \/ Respond(t) \/ Response(t) \/ Store(t)

Next == NextTurn \/ Expire \/ Recover \/ \E t \in Threads : Thread(t)

Spec == Init /\ [][Next]_vars

\* Every request ends, by an answer or by its timeout, and threads are
\* scheduled; task_loop asks again and again.
FairSpec == Spec /\ WF_vars(NextTurn) /\ \A t \in Threads : WF_vars(Thread(t))

(***************************************************************************)
(* Properties                                                              *)
(***************************************************************************)
TypeOK ==
    /\ waiting \in 0 .. TurnQueries
    /\ sid \in SIDs
    /\ session \in Clients
    /\ closed \subseteq Clients
    /\ pc \in [Threads -> Places]
    /\ token \in [Threads -> SIDs]
    /\ client \in [Threads -> Clients \cup {NoClient}]
    /\ use_tls \in [Threads -> BOOLEAN]
    /\ retry_on_auth \in [Threads -> BOOLEAN]
    /\ healthy \in BOOLEAN
    /\ crossed \subseteq Threads

Raised == {t \in Threads : At(t, "raised")}

\* However the threads' renewals interleave, the client they leave behind is
\* an open one: only a thread between close() and the assignment of
\* _build_session leaves a closed one in self.session.
SessionOpenAtRest ==
    (\A t \in Threads : ~At(t, "build")) => session \notin closed

\* A query raises only if another thread replaced the client while it ran: a
\* single query copes with every answer of the box by itself.
RaisesOnlyCrossed == Raised \subseteq crossed

\* Every query ends: a session that expires again at once is not retried for
\* ever (retry_on_auth).
QueryEnds ==
    \A t \in Threads : At(t, "check") ~> At(t, "idle") \/ At(t, "raised")

\* Once the box lets sessions live, the handler soon has a live one and keeps
\* it, although answers to older requests may still take it away.
Heals == <>[](healthy => sid = "live" \/ Raised # {})

\* "one bad service must not stop the polling loop" (query_service_data).
PollingGoesOn == Raised = {}
=============================================================================
