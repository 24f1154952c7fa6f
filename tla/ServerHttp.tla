----------------------------- MODULE ServerHttp -----------------------------
(***************************************************************************)
(* src/src/server_http.cpp: the HTTP server.  config.threads threads run   *)
(* one io_context.  A thread that runs no handler takes one that is due;   *)
(* the handlers of a session follow one another: begin, on_read, on_write, *)
(* on_read, and so on.  on_read simulates, so it may hold its thread for   *)
(* long, while timers run out, peers hang up and signals arrive.           *)
(*                                                                         *)
(* A simulation (combat_loop, module CombatLoop) is reduced to whether it  *)
(* succeeds.  The sockets, the timer of a stream and the io_context are    *)
(* those of Boost, as this file uses them.                                 *)
(***************************************************************************)
EXTENDS Integers, Sequences, FiniteSets

CONSTANTS
    Main, Workers,  \* the threads: main, and the threads - 1 it starts
    Sessions,       \* connections
    Requests,       \* what the peer of each may send: [method, path, payload, keep_alive]
    MaxRequests,    \* bound: requests on each connection
    Faults,         \* which of "thread", "throw", "accept", "signal", "reset" may happen
    None

Threads == {Main} \cup Workers

Methods == {"GET", "POST"}
\* A request with a malformed path does not parse as HTTP, or is larger than body_limit.
Paths == {"/health", "/simulate", "/elsewhere", "unparsable", "malformed"}
\* What /simulate makes of the body: a report, an exception or a complaint.
Payloads == {"encounter", "failing", "none"}

ASSUME ServerAssumption ==
    /\ Main \notin Workers /\ Threads \cap Sessions = {} /\ None \notin Threads
    /\ Sessions \cap {"unborn", "starting", "idle", "done"} = {}
    /\ MaxRequests \in [Sessions -> Nat]
    /\ \A s \in Sessions :
          Requests[s] \subseteq [method : Methods, path : Paths, payload : Payloads,
                                keep_alive : BOOLEAN]
    /\ Faults \subseteq {"thread", "throw", "accept", "signal", "reset"}

VARIABLES
    thread,         \* "unborn", "starting" (main), "idle", "done" or the session it serves
    stopped,        \* io_context.stop()
    run_exception, start_failed, exit,  \* of start_server_http
    signalled,
    accepting,      \* an async_accept is pending
    session,        \* where each connection is
    asked,          \* the requests its peer has sent
    hung_up, reset, \* connections whose peer sends no more, or is gone
    read,           \* requests read
    replies,        \* responses that reached the peer
    expired         \* connections whose stream timer has run out

server == <<thread, stopped, run_exception, start_failed, exit>>
peers == <<asked, hung_up, reset>>
connections == <<session, read, replies, expired>>
vars == <<server, signalled, accepting, peers, connections>>

Init ==
    /\ thread = [w \in Threads |-> IF w = Main THEN "starting" ELSE "unborn"]
    /\ stopped = FALSE /\ run_exception = None /\ start_failed = FALSE /\ exit = None
    /\ signalled = FALSE
    /\ accepting = TRUE
    /\ session = [s \in Sessions |-> "absent"]
    /\ asked = [s \in Sessions |-> <<>>] /\ hung_up = {} /\ reset = {}
    /\ read = [s \in Sessions |-> 0]
    /\ replies = [s \in Sessions |-> <<>>]
    /\ expired = {}

-----------------------------------------------------------------------------
(* handle_request *)

simulate(r) == IF r.payload = "encounter" THEN "report" ELSE "bad_request"

handle_request(r) ==
    IF r.method # "GET" \/ r.path = "unparsable" THEN "bad_request"
    ELSE CASE r.path = "/health" -> "ok"
           [] r.path = "/simulate" -> simulate(r)
           [] OTHER -> "not_found"

-----------------------------------------------------------------------------
(* start_server_http *)

\* Workers serve as soon as they run, main when it has started them all.
StartThread(w) ==
    /\ thread[Main] = "starting" /\ thread[w] = "unborn"
    /\ thread' = [thread EXCEPT ![w] = "idle"]
    /\ UNCHANGED <<stopped, run_exception, start_failed, exit, signalled, accepting, peers,
                   connections>>

\* A thread that cannot be started stops the others; main unwinds and joins them.
StartFails ==
    /\ "thread" \in Faults
    /\ thread[Main] = "starting" /\ \E w \in Workers : thread[w] = "unborn"
    /\ stopped' = TRUE /\ start_failed' = TRUE
    /\ thread' = [thread EXCEPT ![Main] = "done"]
    /\ UNCHANGED <<run_exception, exit, signalled, accepting, peers, connections>>

RunMain ==
    /\ thread[Main] = "starting" /\ \A w \in Workers : thread[w] # "unborn"
    /\ thread' = [thread EXCEPT ![Main] = "idle"]
    /\ UNCHANGED <<stopped, run_exception, start_failed, exit, signalled, accepting, peers,
                   connections>>

\* A stopped io_context runs no more handlers, due or not.
Takes(w) == thread[w] = "idle" /\ ~stopped

OnSignal(w) ==
    /\ Takes(w) /\ signalled
    /\ stopped' = TRUE
    /\ UNCHANGED <<thread, run_exception, start_failed, exit, signalled, accepting, peers,
                   connections>>

RunReturns(w) ==
    /\ thread[w] = "idle" /\ stopped
    /\ thread' = [thread EXCEPT ![w] = "done"]
    /\ UNCHANGED <<stopped, run_exception, start_failed, exit, signalled, accepting, peers,
                   connections>>

\* The session is gone when no handler of it is pending, its timer with it.
Close(s) ==
    /\ session' = [session EXCEPT ![s] = "closed"]
    /\ expired' = expired \ {s} /\ hung_up' = hung_up \ {s} /\ reset' = reset \ {s}

FirstException(w) == IF run_exception = None THEN w ELSE run_exception

SwallowException(w) ==  \* mutant: only the thread that threw stops
    /\ run_exception' = FirstException(w)
    /\ UNCHANGED stopped

CatchException(w) ==
    /\ run_exception' = FirstException(w)
    /\ stopped' = TRUE

\* An exception that simulate does not turn into a response leaves the thread's run; the
\* session goes with its handler.
HandlerThrows(w) ==
    /\ "throw" \in Faults
    /\ thread[w] \in Sessions
    /\ CatchException(w)
    /\ thread' = [thread EXCEPT ![w] = "done"]
    /\ Close(thread[w])
    /\ UNCHANGED <<start_failed, exit, signalled, accepting, asked, read, replies>>

Join ==
    /\ thread[Main] = "done" /\ exit = None
    /\ \A w \in Workers : thread[w] \in {"unborn", "done"}
    /\ exit' = IF start_failed \/ run_exception # None THEN "exception" ELSE "returned"
    /\ UNCHANGED <<thread, stopped, run_exception, start_failed, signalled, accepting, peers,
                   connections>>

-----------------------------------------------------------------------------
(* connection_listener_t *)

\* The next accept is begun once the session is.
OnConnection(w, s) ==
    /\ Takes(w) /\ accepting /\ session[s] = "connected"
    /\ session' = [session EXCEPT ![s] = "accepted"]
    /\ UNCHANGED <<server, signalled, accepting, peers, read, replies, expired>>

\* After an error no other accept is begun.
AcceptFails(w) ==
    /\ "accept" \in Faults
    /\ Takes(w) /\ accepting
    /\ accepting' = FALSE
    /\ UNCHANGED <<server, signalled, peers, connections>>

-----------------------------------------------------------------------------
(* session_t *)

\* read_request: the timer is set here and nowhere else.
ReadRequest(s) ==
    /\ session' = [session EXCEPT ![s] = "reading"]
    /\ expired' = expired \ {s}

Begin(w, s) ==
    /\ Takes(w) /\ session[s] = "accepted"
    /\ ReadRequest(s)
    /\ UNCHANGED <<server, signalled, accepting, peers, read, replies>>

NextRequest(s) == asked[s][read[s] + 1]
Unread(s) == read[s] < Len(asked[s])

OnReadAhead(w, s) ==  \* mutant: the next request is read before the response is sent
    /\ Takes(w) /\ session[s] \in {"reading", "handling"}
    /\ Unread(s) /\ NextRequest(s).path # "malformed"
    /\ thread' = [thread EXCEPT ![w] = s]
    /\ session' = [session EXCEPT ![s] = "handling"]
    /\ read' = [read EXCEPT ![s] = @ + 1]
    /\ UNCHANGED <<stopped, run_exception, start_failed, exit, signalled, accepting, peers,
                   replies, expired>>

\* on_read of a request, up to handle_request, which keeps the thread.  A request that is
\* there when the timer has run out is read or not (OnReadError).
OnRead(w, s) ==
    /\ Takes(w) /\ session[s] = "reading"
    /\ Unread(s) /\ NextRequest(s).path # "malformed"
    /\ thread' = [thread EXCEPT ![w] = s]
    /\ session' = [session EXCEPT ![s] = "handling"]
    /\ read' = [read EXCEPT ![s] = @ + 1]
    /\ UNCHANGED <<stopped, run_exception, start_failed, exit, signalled, accepting, peers,
                   replies, expired>>

\* end_of_stream: the peer has hung up after its last request.
OnEndOfStream(w, s) ==
    /\ Takes(w) /\ session[s] = "reading"
    /\ s \in hung_up /\ ~Unread(s)
    /\ Close(s)
    /\ UNCHANGED <<server, signalled, accepting, asked, read, replies>>

OnReadError(w, s) ==
    /\ Takes(w) /\ session[s] = "reading"
    /\ \/ s \in expired \cup reset
       \/ Unread(s) /\ NextRequest(s).path = "malformed"
    /\ Close(s)
    /\ UNCHANGED <<server, signalled, accepting, asked, read, replies>>

\* handle_request is done, send_response begins the write: also in a stopped io_context.
SendResponse(w, s) ==
    /\ thread[w] = s
    /\ thread' = [thread EXCEPT ![w] = "idle"]
    /\ session' = [session EXCEPT ![s] = "writing"]
    /\ UNCHANGED <<stopped, run_exception, start_failed, exit, signalled, accepting, peers, read,
                   replies, expired>>

\* The response reaches the peer.
Delivered(s) ==
    /\ session[s] = "writing" /\ s \notin reset
    /\ session' = [session EXCEPT ![s] = "written"]
    /\ replies' = [replies EXCEPT ![s] = Append(@, handle_request(asked[s][read[s]]))]
    /\ UNCHANGED <<server, signalled, accepting, peers, read, expired>>

AlwaysKeepAlive(s) == TRUE  \* mutant
NeverKeepAlive(s) == FALSE  \* mutant
KeepAlive(s) == asked[s][read[s]].keep_alive

OnWrite(w, s) ==
    /\ Takes(w) /\ session[s] = "written"
    /\ IF KeepAlive(s) THEN ReadRequest(s) /\ UNCHANGED <<hung_up, reset>> ELSE Close(s)
    /\ UNCHANGED <<server, signalled, accepting, asked, read, replies>>

\* The timer still runs from read_request on: a response that takes longer is lost, or its
\* session is.
OnWriteError(w, s) ==
    /\ Takes(w) /\ session[s] \in {"writing", "written"}
    /\ s \in expired \cup reset
    /\ Close(s)
    /\ UNCHANGED <<server, signalled, accepting, asked, read, replies>>

-----------------------------------------------------------------------------
(* The environment *)

\* What peers do after the io_context is stopped has no consequence.
Open == {s \in Sessions : ~stopped /\ session[s] \notin {"absent", "closed"}}

PeerConnects(s) ==
    /\ session[s] = "absent" /\ ~stopped
    /\ session' = [session EXCEPT ![s] = "connected"]
    /\ UNCHANGED <<server, signalled, accepting, peers, read, replies, expired>>

\* Also before it has its answer: requests may be pipelined.
PeerSends(s, r) ==
    /\ s \in Open \ (hung_up \cup reset) /\ Len(asked[s]) < MaxRequests[s]
    /\ asked' = [asked EXCEPT ![s] = Append(@, r)]
    /\ UNCHANGED <<server, signalled, accepting, hung_up, reset, connections>>

PeerHangsUp(s) ==
    /\ s \in Open \ (hung_up \cup reset)
    /\ hung_up' = hung_up \cup {s}
    /\ UNCHANGED <<server, signalled, accepting, asked, reset, connections>>

PeerResets(s) ==
    /\ "reset" \in Faults
    /\ s \in Open \ reset
    /\ reset' = reset \cup {s} /\ hung_up' = hung_up \ {s}
    /\ UNCHANGED <<server, signalled, accepting, asked, connections>>

\* 30 seconds after read_request, whatever the session is doing.
TimerExpires(s) ==
    /\ ~stopped /\ session[s] \in {"reading", "handling", "writing", "written"}
    /\ s \notin expired
    /\ expired' = expired \cup {s}
    /\ UNCHANGED <<server, signalled, accepting, peers, session, read, replies>>

\* SIGINT or SIGTERM; the handler is installed before the threads are started.
Signal ==
    /\ "signal" \in Faults
    /\ ~signalled /\ ~stopped
    /\ signalled' = TRUE
    /\ UNCHANGED <<server, accepting, peers, connections>>

Environment ==
    \/ \E s \in Sessions :
          \/ PeerConnects(s) \/ PeerHangsUp(s) \/ PeerResets(s) \/ TimerExpires(s)
          \/ \E r \in Requests[s] : PeerSends(s, r)
    \/ Signal \/ StartFails
    \/ \E w \in Threads : HandlerThrows(w) \/ AcceptFails(w)

\* The handlers of a session, of which one at a time is due.
SessionHandler(w, s) ==
    \/ Begin(w, s) \/ OnRead(w, s) \/ OnEndOfStream(w, s) \/ OnReadError(w, s)
    \/ OnWrite(w, s) \/ OnWriteError(w, s)

System ==
    \/ \E w \in Workers : StartThread(w)
    \/ RunMain \/ Join
    \/ \E w \in Threads : OnSignal(w) \/ RunReturns(w)
    \/ \E w \in Threads, s \in Sessions :
          OnConnection(w, s) \/ SessionHandler(w, s) \/ SendResponse(w, s)
    \/ \E s \in Sessions : Delivered(s)

Next == System \/ Environment

Spec == Init /\ [][Next]_vars

(***************************************************************************)
(* Some thread runs what is due, simulations end and the network delivers. *)
(* Which handler goes first is left open: the io_context queues them, and  *)
(* as connections and requests are bounded none can be put off for ever.   *)
(***************************************************************************)
FairSpec == Spec /\ WF_vars(System)

-----------------------------------------------------------------------------
(* Properties *)

\* A thread serves a session just while the session is in handle_request, no two threads
\* serve the same one, and counts fit the requests.
TypeOK ==
    /\ thread \in [Threads -> {"unborn", "starting", "idle", "done"} \cup Sessions]
    /\ session \in [Sessions -> {"absent", "connected", "accepted", "reading", "handling",
                                 "writing", "written", "closed"}]
    /\ \A s \in Sessions :
          /\ asked[s] \in Seq(Requests[s]) /\ read[s] \in 0..Len(asked[s])
          /\ Cardinality({w \in Threads : thread[w] = s}) = IF session[s] = "handling" THEN 1 ELSE 0
    /\ hung_up \cup reset \cup expired \subseteq Sessions
    /\ stopped \in BOOLEAN /\ signalled \in BOOLEAN /\ accepting \in BOOLEAN
    /\ start_failed \in BOOLEAN
    /\ run_exception \in Threads \cup {None} /\ exit \in {None, "exception", "returned"}

\* A peer that pipelines gets its answers in the order of its requests, each the answer to
\* the request in its place, and none after the request that asked to close, whichever
\* threads the session's handlers run on and whatever the timer does meanwhile.
AnsweredInOrder ==
    \A s \in Sessions :
        /\ Len(replies[s]) <= read[s]
        /\ \A i \in DOMAIN replies[s] :
              /\ replies[s][i] = handle_request(asked[s][i])
              /\ i < read[s] => asked[s][i].keep_alive

\* What ends a connection before its n-th request is answered.
GivenUp(s, n) ==
    \/ s \in expired \cup reset
    \/ \E i \in DOMAIN asked[s] :
          \/ i <= n /\ asked[s][i].path = "malformed"
          \/ i < n /\ ~asked[s][i].keep_alive

\* A request on a connection is answered, unless the server ends or went deaf before it
\* accepted the connection, the 30 seconds run out, the peer is gone, or an earlier request
\* ended the connection: simulations of other sessions hold all threads for a while, and
\* may time it out, but do not starve it, and a pipelined request is not forgotten.
EveryRequestServed ==
    \A s \in Sessions : \A n \in 1..MaxRequests[s] :
        session[s] \notin {"absent", "closed"} /\ Len(asked[s]) >= n
            ~> Len(replies[s]) >= n \/ GivenUp(s, n) \/ ~accepting \/ stopped

\* start_server_http has returned, or thrown, and left no thread behind.
Over == exit # None /\ \A w \in Threads : thread[w] \in {"unborn", "done"}

\* A signal, a thread that cannot be started or an exception in any of the threads ends all
\* of them, and start_server_http, once the simulations they are in are over; an exception
\* of any thread is reported, and never taken for the signal to stop.
ShutsDown ==
    /\ signalled \/ start_failed ~> Over
    /\ run_exception # None ~> Over /\ exit = "exception"
=============================================================================
