--------------------------- MODULE ServerHttpProofs ---------------------------
(***************************************************************************)
(* The safety properties of ServerHttp for any threads, connections,       *)
(* requests and faults.                                                    *)
(***************************************************************************)
EXTENDS ServerHttp, FiniteSetTheorems, SequenceTheorems, TLAPS

Response == {"ok", "bad_request", "not_found", "report"}

\* TypeOK without the threads of a session, and what it leaves to the updates.
Types ==
    /\ thread \in [Threads -> {"unborn", "starting", "idle", "done"} \cup Sessions]
    /\ session \in [Sessions -> {"absent", "connected", "accepted", "reading", "handling",
                                 "writing", "written", "closed"}]
    /\ asked = [s \in Sessions |-> asked[s]] /\ \A s \in Sessions : asked[s] \in Seq(Requests[s])
    /\ read \in [Sessions -> Nat] /\ \A s \in Sessions : read[s] <= Len(asked[s])
    /\ replies \in [Sessions -> Seq(Response)]
    /\ hung_up \subseteq Sessions /\ reset \subseteq Sessions /\ expired \subseteq Sessions
    /\ stopped \in BOOLEAN /\ signalled \in BOOLEAN /\ accepting \in BOOLEAN
    /\ start_failed \in BOOLEAN
    /\ run_exception \in Threads \cup {None} /\ exit \in {None, "exception", "returned"}

\* The thread of a session, in place of the number of its threads.
ServedByOne ==
    /\ \A s \in Sessions : session[s] = "handling" <=> \E w \in Threads : thread[w] = s
    /\ \A v, w \in Threads : thread[v] = thread[w] /\ thread[v] \in Sessions => v = w

\* Where a session is says how many answers it owes: one while a request is handled or its
\* answer written, and none otherwise, unless it is over.
Owing(s) ==
    CASE session[s] \in {"handling", "writing"} -> Len(replies[s]) + 1 = read[s]
      [] session[s] = "closed" -> Len(replies[s]) <= read[s]
      [] OTHER -> Len(replies[s]) = read[s]

InOrder(s) ==
    /\ \A i \in 1..Len(replies[s]) : replies[s][i] = handle_request(asked[s][i])
    /\ \A i \in 1..read[s] :
          i < read[s] \/ session[s] \in {"absent", "connected", "accepted", "reading"}
              => asked[s][i].keep_alive

Progress == \A s \in Sessions : Owing(s) /\ InOrder(s)

\* start_server_http ends last, and with an exception just if there was one.
ExitIsLast ==
    exit # None =>
        /\ \A w \in Threads : thread[w] \in {"unborn", "done"} /\ thread[Main] = "done"
        /\ exit = "exception" <=> start_failed \/ run_exception # None

Inv == Types /\ ServedByOne /\ Progress /\ ExitIsLast

-----------------------------------------------------------------------------
(* Lemmas *)

LEMMA InvImpliesTypeOK == Inv => TypeOK
<1> SUFFICES ASSUME Inv PROVE TypeOK
    OBVIOUS
<1>1. ASSUME NEW s \in Sessions
      PROVE  Cardinality({w \in Threads : thread[w] = s}) = IF session[s] = "handling" THEN 1 ELSE 0
    <2> DEFINE serving == {w \in Threads : thread[w] = s}
    <2>1. CASE session[s] = "handling"
        <3>1. \E w : serving = {w}
            BY <2>1 DEF Inv, ServedByOne
        <3> QED
            BY <3>1, <2>1, FS_Singleton
    <2>2. CASE session[s] # "handling"
        <3>1. serving = {}
            BY <2>2 DEF Inv, ServedByOne
        <3> QED
            BY <3>1, <2>2, FS_EmptySet
    <2> QED
        BY <2>1, <2>2
<1> QED
    BY <1>1 DEF Inv, Types, TypeOK

LEMMA InvImpliesAnsweredInOrder == Inv => AnsweredInOrder
<1> SUFFICES ASSUME Inv, NEW s \in Sessions
             PROVE  /\ Len(replies[s]) <= read[s]
                    /\ \A i \in DOMAIN replies[s] :
                          /\ replies[s][i] = handle_request(asked[s][i])
                          /\ i < read[s] => asked[s][i].keep_alive
    BY DEF AnsweredInOrder
<1>1. /\ Len(replies[s]) \in Nat /\ read[s] \in Nat /\ DOMAIN replies[s] = 1..Len(replies[s])
    BY DEF Inv, Types
<1>2. Len(replies[s]) <= read[s]
    BY <1>1 DEF Inv, Progress, Owing
<1> QED
    BY <1>1, <1>2 DEF Inv, Progress, InOrder

LEMMA InitInv == Init => Inv
<1> SUFFICES ASSUME Init PROVE Inv
    OBVIOUS
<1>1. Types
    <2>1. \A T : <<>> \in Seq(T) /\ Len(<<>>) = 0
        OBVIOUS
    <2>2. replies \in [Sessions -> Seq(Response)]
        BY <2>1 DEF Init
    <2>3. /\ asked = [s \in Sessions |-> asked[s]]
          /\ \A s \in Sessions : asked[s] \in Seq(Requests[s]) /\ read[s] <= Len(asked[s])
        BY <2>1 DEF Init
    <2> QED
        BY <2>2, <2>3 DEF Init, Types, Threads
<1>2. ServedByOne
    BY ServerAssumption DEF Init, ServedByOne
<1>3. Progress
    BY DEF Init, Progress, Owing, InOrder
<1>4. ExitIsLast
    BY DEF Init, ExitIsLast
<1> QED
    BY <1>1, <1>2, <1>3, <1>4 DEF Inv

LEMMA AnswerIsResponse ==
    ASSUME NEW r
    PROVE  handle_request(r) \in Response
BY DEF handle_request, simulate, Response

\* Steps of threads that begin or end no request.
LEMMA SameService ==
    ASSUME Inv, UNCHANGED <<session, asked, read, replies>>,
           \A w \in Threads : thread[w] \in Sessions \/ thread'[w] \in Sessions => thread'[w] = thread[w]
    PROVE  ServedByOne' /\ Progress'
<1>1. ServedByOne'
    BY DEF Inv, ServedByOne
<1>2. Progress'
    BY DEF Inv, Progress, Owing, InOrder
<1> QED
    BY <1>1, <1>2

\* Steps of a session between the handling of its requests.
LEMMA SessionMoves ==
    ASSUME Inv, NEW s \in Sessions, UNCHANGED <<thread, asked, read, replies>>,
           NEW x, session' = [session EXCEPT ![s] = x],
           session[s] # "handling", x # "handling", Owing(s)', InOrder(s)'
    PROVE  ServedByOne' /\ Progress'
<1>1. session'[s] = x /\ \A t \in Sessions \ {s} : session'[t] = session[t]
    BY DEF Inv, Types
<1>2. ServedByOne'
    BY <1>1 DEF Inv, ServedByOne
<1>3. \A t \in Sessions \ {s} : Owing(t)' /\ InOrder(t)'
    BY <1>1 DEF Inv, Progress, Owing, InOrder
<1> QED
    BY <1>2, <1>3 DEF Progress

\* A session may close whatever it has answered.
LEMMA CloseFits ==
    ASSUME Inv, NEW s \in Sessions, UNCHANGED <<asked, read, replies>>, session'[s] = "closed"
    PROVE  Owing(s)' /\ InOrder(s)'
<1>1. Len(replies[s]) \in Nat /\ read[s] \in Nat
    BY DEF Inv, Types
<1>2. Owing(s)'
    BY <1>1 DEF Inv, Progress, Owing
<1>3. InOrder(s)'
    BY DEF Inv, Progress, InOrder
<1> QED
    BY <1>2, <1>3

\* Main and a thread it starts differ, and no session is taken for a state of a thread.
LEMMA ThreadStates ==
    ASSUME Inv
    PROVE  /\ Main \in Threads /\ Workers \subseteq Threads
           /\ \A s \in Sessions : s \notin {"unborn", "starting", "idle", "done"}
           /\ \A w \in Threads : thread[w] \in {"unborn", "starting", "idle", "done"} \cup Sessions
BY ServerAssumption DEF Threads, Inv, Types

-----------------------------------------------------------------------------
(* start_server_http *)

LEMMA StartThreadInv ==
    ASSUME Inv, NEW w \in Workers, StartThread(w)
    PROVE  Inv'
<1>1. /\ thread' = [thread EXCEPT ![w] = "idle"] /\ thread[Main] = "starting" /\ w \in Threads
      /\ UNCHANGED <<stopped, run_exception, start_failed, exit, signalled, accepting, asked,
                     hung_up, reset, session, read, replies, expired>>
    BY DEF StartThread, peers, connections, Threads
<1>2. Types'
    BY <1>1 DEF Inv, Types
<1>3. ServedByOne' /\ Progress'
    BY <1>1, SameService, ThreadStates DEF StartThread, Inv, Types
<1>4. exit = None
    BY <1>1 DEF Inv, ExitIsLast
<1> QED
    BY <1>1, <1>2, <1>3, <1>4 DEF Inv, ExitIsLast

LEMMA StartFailsInv ==
    ASSUME Inv, StartFails
    PROVE  Inv'
<1>1. /\ thread' = [thread EXCEPT ![Main] = "done"] /\ thread[Main] = "starting"
      /\ stopped' = TRUE /\ start_failed' = TRUE
      /\ UNCHANGED <<run_exception, exit, signalled, accepting, asked,
                     hung_up, reset, session, read, replies, expired>>
    BY DEF StartFails, peers, connections
<1>2. Types'
    BY <1>1 DEF Inv, Types
<1>3. ServedByOne' /\ Progress'
    BY <1>1, SameService, ThreadStates DEF Inv, Types
<1>4. exit = None
    BY <1>1 DEF Inv, ExitIsLast, Threads
<1> QED
    BY <1>1, <1>2, <1>3, <1>4 DEF Inv, ExitIsLast

LEMMA RunMainInv ==
    ASSUME Inv, RunMain
    PROVE  Inv'
<1>1. /\ thread' = [thread EXCEPT ![Main] = "idle"] /\ thread[Main] = "starting"
      /\ UNCHANGED <<stopped, run_exception, start_failed, exit, signalled, accepting, asked,
                     hung_up, reset, session, read, replies, expired>>
    BY DEF RunMain, peers, connections
<1>2. Types'
    BY <1>1 DEF Inv, Types
<1>3. ServedByOne' /\ Progress'
    BY <1>1, SameService, ThreadStates DEF Inv, Types
<1>4. exit = None
    BY <1>1 DEF Inv, ExitIsLast, Threads
<1> QED
    BY <1>1, <1>2, <1>3, <1>4 DEF Inv, ExitIsLast

LEMMA RunReturnsInv ==
    ASSUME Inv, NEW w \in Threads, RunReturns(w)
    PROVE  Inv'
<1>1. /\ thread' = [thread EXCEPT ![w] = "done"] /\ thread[w] = "idle"
      /\ UNCHANGED <<stopped, run_exception, start_failed, exit, signalled, accepting, asked,
                     hung_up, reset, session, read, replies, expired>>
    BY DEF RunReturns, peers, connections
<1>2. Types'
    BY <1>1 DEF Inv, Types
<1>3. ServedByOne' /\ Progress'
    BY <1>1, SameService, ThreadStates DEF Inv, Types
<1>4. exit = None
    BY <1>1 DEF Inv, ExitIsLast
<1> QED
    BY <1>1, <1>2, <1>3, <1>4 DEF Inv, ExitIsLast

LEMMA JoinInv ==
    ASSUME Inv, Join
    PROVE  Inv'
<1>1. /\ thread[Main] = "done" /\ \A w \in Workers : thread[w] \in {"unborn", "done"}
      /\ exit' = IF start_failed \/ run_exception # None THEN "exception" ELSE "returned"
      /\ UNCHANGED <<thread, stopped, run_exception, start_failed, signalled, accepting, asked,
                     hung_up, reset, session, read, replies, expired>>
    BY DEF Join, peers, connections
<1>2. Types'
    BY <1>1 DEF Inv, Types
<1>3. ServedByOne' /\ Progress'
    BY <1>1, SameService DEF Inv
<1>4. ExitIsLast'
    BY <1>1 DEF ExitIsLast, Threads
<1> QED
    BY <1>2, <1>3, <1>4 DEF Inv

\* The exception ends the thread and its session, and a session in handle_request has no
\* other thread.
LEMMA HandlerThrowsInv ==
    ASSUME Inv, NEW w \in Threads, HandlerThrows(w)
    PROVE  Inv'
<1>1. PICK s \in Sessions : s = thread[w]
    BY DEF HandlerThrows
<1>2. /\ thread[w] = s /\ thread' = [thread EXCEPT ![w] = "done"]
      /\ session' = [session EXCEPT ![s] = "closed"]
      /\ expired' = expired \ {s} /\ hung_up' = hung_up \ {s} /\ reset' = reset \ {s}
      /\ stopped' = TRUE /\ run_exception' \in {w, run_exception}
      /\ UNCHANGED <<start_failed, exit, signalled, accepting, asked, read, replies>>
    BY <1>1 DEF HandlerThrows, Close, CatchException, FirstException
<1>3. Types'
    BY <1>2 DEF Inv, Types
<1>4. ServedByOne'
    <2>1. \A v \in Threads : v # w => thread[v] # s
        BY <1>2 DEF Inv, ServedByOne
    <2>2. thread'[w] = "done" /\ \A v \in Threads : v # w => thread'[v] = thread[v]
        BY <1>2 DEF Inv, Types
    <2>3. session'[s] = "closed" /\ \A t \in Sessions : t # s => session'[t] = session[t]
        BY <1>2 DEF Inv, Types
    <2> QED
        BY <1>2, <2>1, <2>2, <2>3, ThreadStates DEF Inv, ServedByOne
<1>5. Progress'
    <2>1. session'[s] = "closed" /\ \A t \in Sessions : t # s => session'[t] = session[t]
        BY <1>2 DEF Inv, Types
    <2>2. Owing(s)' /\ InOrder(s)'
        BY <1>2, <2>1, CloseFits
    <2>3. \A t \in Sessions : t # s => Owing(t)' /\ InOrder(t)'
        BY <1>2, <2>1 DEF Inv, Progress, Owing, InOrder
    <2> QED
        BY <2>2, <2>3 DEF Progress
<1>6. exit = None
    BY <1>2, ThreadStates DEF Inv, ExitIsLast
<1> QED
    BY <1>2, <1>3, <1>4, <1>5, <1>6 DEF Inv, ExitIsLast

\* Signals, failing accepts, timers and what peers do to their connections.
LEMMA FlagsInv ==
    ASSUME Inv, Types',
           UNCHANGED <<thread, run_exception, start_failed, exit, session, asked, read, replies>>
    PROVE  Inv'
<1>1. ServedByOne' /\ Progress'
    BY SameService
<1>2. ExitIsLast'
    BY DEF Inv, ExitIsLast
<1> QED
    BY <1>1, <1>2 DEF Inv

LEMMA EnvironmentFlagsInv ==
    ASSUME Inv,
           \/ \E w \in Threads : OnSignal(w) \/ AcceptFails(w)
           \/ \E s \in Sessions : PeerHangsUp(s) \/ PeerResets(s) \/ TimerExpires(s)
           \/ Signal
    PROVE  Inv'
<1>1. /\ UNCHANGED <<thread, run_exception, start_failed, exit, session, asked, read, replies>>
      /\ stopped' \in {stopped, TRUE} /\ signalled' \in {signalled, TRUE}
      /\ accepting' \in {accepting, FALSE}
      /\ hung_up' \subseteq hung_up \cup Sessions /\ reset' \subseteq reset \cup Sessions
      /\ expired' \subseteq expired \cup Sessions
    BY DEF OnSignal, AcceptFails, PeerHangsUp, PeerResets, TimerExpires, Signal, server, peers,
        connections, Open
<1>2. Types'
    BY <1>1 DEF Inv, Types
<1> QED
    BY <1>1, <1>2, FlagsInv

-----------------------------------------------------------------------------
(* connection_listener_t and session_t *)

\* Steps of a session from x to y that keep the threads and the counts.
LEMMA MovesInv ==
    ASSUME Inv, NEW s \in Sessions, NEW y,
           y \in {"connected", "accepted", "reading", "closed"},
           session' = [session EXCEPT ![s] = y],
           \/ y = "closed" /\ session[s] # "handling"
           \/ y \in {"connected", "accepted"} /\ session[s] \in {"absent", "connected", "accepted"}
           \/ y = "reading" /\ session[s] \in {"accepted", "written"}
              /\ (session[s] = "written" => asked[s][read[s]].keep_alive),
           UNCHANGED <<thread, run_exception, start_failed, exit, stopped, signalled, accepting,
                       asked, read, replies>>,
           hung_up' \subseteq hung_up, reset' \subseteq reset, expired' \subseteq expired
    PROVE  Inv'
<1>1. Types'
    BY DEF Inv, Types
<1>2. session'[s] = y
    BY DEF Inv, Types
<1>3. Len(replies[s]) \in Nat /\ read[s] \in Nat
    BY DEF Inv, Types
<1>4. Owing(s)' /\ InOrder(s)'
    <2>1. CASE y = "closed"
        BY <2>1, <1>2, CloseFits
    <2>2. CASE y \in {"connected", "accepted"} /\ session[s] \in {"absent", "connected", "accepted"}
        BY <2>2, <1>2 DEF Inv, Progress, Owing, InOrder
    <2>3. CASE /\ y = "reading" /\ session[s] \in {"accepted", "written"}
               /\ (session[s] = "written" => asked[s][read[s]].keep_alive)
        <3>1. Owing(s)'
            BY <2>3, <1>2 DEF Inv, Progress, Owing
        <3>2. InOrder(s)'
            BY <2>3, <1>2, <1>3 DEF Inv, Progress, InOrder
        <3> QED
            BY <3>1, <3>2
    <2> QED
        BY <2>1, <2>2, <2>3
<1>5. ServedByOne' /\ Progress'
    <2>1. session[s] # "handling" /\ y # "handling"
        OBVIOUS
    <2> QED
        BY <2>1, <1>4, SessionMoves
<1>6. ExitIsLast'
    BY DEF Inv, ExitIsLast
<1> QED
    BY <1>1, <1>5, <1>6 DEF Inv

LEMMA SessionStepsInv ==
    ASSUME Inv, NEW s \in Sessions, NEW w \in Threads,
           \/ PeerConnects(s) \/ OnConnection(w, s) \/ Begin(w, s) \/ OnEndOfStream(w, s)
           \/ OnReadError(w, s) \/ OnWrite(w, s) \/ OnWriteError(w, s)
    PROVE  Inv'
<1>1. CASE PeerConnects(s)
    BY <1>1, MovesInv DEF PeerConnects, server, peers
<1>2. CASE OnConnection(w, s)
    BY <1>2, MovesInv DEF OnConnection, server, peers
<1>3. CASE Begin(w, s)
    BY <1>3, MovesInv DEF Begin, ReadRequest, server, peers
<1>4. CASE OnEndOfStream(w, s)
    BY <1>4, MovesInv DEF OnEndOfStream, Close, server
<1>5. CASE OnReadError(w, s)
    BY <1>5, MovesInv DEF OnReadError, Close, server
<1>6. CASE OnWrite(w, s)
    <2>1. CASE KeepAlive(s)
        BY <2>1, <1>6, MovesInv DEF OnWrite, KeepAlive, ReadRequest, server
    <2>2. CASE ~KeepAlive(s)
        BY <2>2, <1>6, MovesInv DEF OnWrite, Close, server
    <2> QED
        BY <2>1, <2>2
<1>7. CASE OnWriteError(w, s)
    BY <1>7, MovesInv DEF OnWriteError, Close, server
<1> QED
    BY <1>1, <1>2, <1>3, <1>4, <1>5, <1>6, <1>7

\* A thread begins one request of a session that has answered all it has read.
LEMMA OnReadInv ==
    ASSUME Inv, NEW w \in Threads, NEW s \in Sessions, OnRead(w, s)
    PROVE  Inv'
<1>1. /\ thread[w] = "idle" /\ session[s] = "reading" /\ read[s] < Len(asked[s])
      /\ thread' = [thread EXCEPT ![w] = s] /\ session' = [session EXCEPT ![s] = "handling"]
      /\ read' = [read EXCEPT ![s] = read[s] + 1]
      /\ UNCHANGED <<stopped, run_exception, start_failed, exit, signalled, accepting, asked,
                     hung_up, reset, replies, expired>>
    BY DEF OnRead, Takes, Unread, peers
<1>2. /\ thread'[w] = s /\ \A v \in Threads : v # w => thread'[v] = thread[v]
      /\ session'[s] = "handling" /\ \A t \in Sessions : t # s => session'[t] = session[t]
      /\ read'[s] = read[s] + 1 /\ \A t \in Sessions : t # s => read'[t] = read[t]
      /\ read[s] \in Nat /\ Len(asked[s]) \in Nat /\ Len(replies[s]) \in Nat
    BY <1>1 DEF Inv, Types
<1>3. Types'
    <2>1. \A t \in Sessions : read'[t] \in Nat /\ read'[t] <= Len(asked[t])
        BY <1>1, <1>2 DEF Inv, Types
    <2> QED
        BY <1>1, <2>1 DEF Inv, Types
<1>4. ServedByOne'
    BY <1>1, <1>2, ThreadStates DEF Inv, ServedByOne
<1>5. Owing(s)' /\ InOrder(s)'
    <2>1. Len(replies[s]) = read[s]
        BY <1>1 DEF Inv, Progress, Owing
    <2>2. Owing(s)'
        BY <2>1, <1>1, <1>2 DEF Owing
    <2>3. \A i \in 1..read[s] : asked[s][i].keep_alive
        BY <1>1 DEF Inv, Progress, InOrder
    <2>4. InOrder(s)'
        BY <2>3, <1>1, <1>2 DEF Inv, Progress, InOrder
    <2> QED
        BY <2>2, <2>4
<1>6. \A t \in Sessions : t # s => Owing(t)' /\ InOrder(t)'
    BY <1>1, <1>2 DEF Inv, Progress, Owing, InOrder
<1>7. exit = None
    BY <1>1 DEF Inv, ExitIsLast
<1> QED
    BY <1>1, <1>3, <1>4, <1>5, <1>6, <1>7 DEF Inv, Progress, ExitIsLast

LEMMA SendResponseInv ==
    ASSUME Inv, NEW w \in Threads, NEW s \in Sessions, SendResponse(w, s)
    PROVE  Inv'
<1>1. /\ thread[w] = s
      /\ thread' = [thread EXCEPT ![w] = "idle"] /\ session' = [session EXCEPT ![s] = "writing"]
      /\ UNCHANGED <<stopped, run_exception, start_failed, exit, signalled, accepting, asked,
                     hung_up, reset, read, replies, expired>>
    BY DEF SendResponse, peers
<1>2. session[s] = "handling" /\ \A v \in Threads : v # w => thread[v] # s
    BY <1>1 DEF Inv, ServedByOne
<1>3. /\ thread'[w] = "idle" /\ \A v \in Threads : v # w => thread'[v] = thread[v]
      /\ session'[s] = "writing" /\ \A t \in Sessions : t # s => session'[t] = session[t]
    BY <1>1 DEF Inv, Types
<1>4. Types'
    BY <1>1 DEF Inv, Types
<1>5. ServedByOne'
    BY <1>1, <1>2, <1>3, ThreadStates DEF Inv, ServedByOne
<1>6. Owing(s)' /\ InOrder(s)'
    BY <1>1, <1>2, <1>3 DEF Inv, Progress, Owing, InOrder
<1>7. \A t \in Sessions : t # s => Owing(t)' /\ InOrder(t)'
    BY <1>1, <1>3 DEF Inv, Progress, Owing, InOrder
<1>8. exit = None
    BY <1>1, ThreadStates DEF Inv, ExitIsLast
<1> QED
    BY <1>1, <1>4, <1>5, <1>6, <1>7, <1>8 DEF Inv, Progress, ExitIsLast

\* The answer delivered is that to the last request read, the one it owes.
LEMMA DeliveredInv ==
    ASSUME Inv, NEW s \in Sessions, Delivered(s)
    PROVE  Inv'
<1> DEFINE answer == handle_request(asked[s][read[s]])
<1> HIDE DEF answer
<1>1. /\ session[s] = "writing" /\ session' = [session EXCEPT ![s] = "written"]
      /\ replies' = [replies EXCEPT ![s] = Append(replies[s], answer)]
      /\ UNCHANGED <<thread, stopped, run_exception, start_failed, exit, signalled, accepting,
                     asked, hung_up, reset, read, expired>>
    BY DEF Delivered, server, peers, answer
<1>2. answer \in Response
    BY AnswerIsResponse DEF answer
<1>3. /\ session'[s] = "written" /\ \A t \in Sessions : t # s => session'[t] = session[t]
      /\ replies'[s] = Append(replies[s], answer)
      /\ \A t \in Sessions : t # s => replies'[t] = replies[t]
      /\ replies[s] \in Seq(Response) /\ Len(replies[s]) \in Nat /\ read[s] \in Nat
    BY <1>1 DEF Inv, Types
<1>4. /\ replies'[s] \in Seq(Response) /\ Len(replies'[s]) = Len(replies[s]) + 1
      /\ \A i \in 1..Len(replies[s]) : replies'[s][i] = replies[s][i]
      /\ replies'[s][Len(replies[s]) + 1] = answer
    BY <1>2, <1>3, AppendProperties
<1>5. Types'
    <2>1. replies' \in [Sessions -> Seq(Response)]
        BY <1>1, <1>3, <1>4 DEF Inv, Types
    <2> QED
        BY <1>1, <2>1 DEF Inv, Types
<1>6. ServedByOne'
    BY <1>1, <1>3 DEF Inv, ServedByOne
<1>7. Owing(s)' /\ InOrder(s)'
    <2>1. Len(replies[s]) + 1 = read[s]
        BY <1>1 DEF Inv, Progress, Owing
    <2>2. Owing(s)'
        BY <2>1, <1>1, <1>3, <1>4 DEF Owing
    <2>3. \A i \in 1..Len(replies[s]) : replies[s][i] = handle_request(asked[s][i])
        BY DEF Inv, Progress, InOrder
    <2>4. replies'[s][read[s]] = handle_request(asked[s][read[s]])
        BY <2>1, <1>4 DEF answer
    <2>5. \A i \in 1..Len(replies'[s]) : replies'[s][i] = handle_request(asked'[s][i])
        BY <2>1, <2>3, <2>4, <1>1, <1>3, <1>4
    <2>6. \A i \in 1..read[s] : i < read[s] \/ session'[s] \in {"absent", "connected", "accepted", "reading"}
                                    => asked[s][i].keep_alive
        BY <1>1, <1>3 DEF Inv, Progress, InOrder
    <2> QED
        BY <2>2, <2>5, <2>6, <1>1 DEF InOrder
<1>8. \A t \in Sessions : t # s => Owing(t)' /\ InOrder(t)'
    BY <1>1, <1>3 DEF Inv, Progress, Owing, InOrder
<1> QED
    BY <1>1, <1>5, <1>6, <1>7, <1>8 DEF Inv, Progress, ExitIsLast

\* A request sent ahead of its turn leaves those before it in their places.
LEMMA PeerSendsInv ==
    ASSUME Inv, NEW s \in Sessions, NEW r \in Requests[s], PeerSends(s, r)
    PROVE  Inv'
<1>1. /\ asked' = [asked EXCEPT ![s] = Append(asked[s], r)]
      /\ UNCHANGED <<thread, stopped, run_exception, start_failed, exit, signalled, accepting,
                     hung_up, reset, session, read, replies, expired>>
    BY DEF PeerSends, server, connections
<1>2. /\ asked'[s] = Append(asked[s], r) /\ \A t \in Sessions : t # s => asked'[t] = asked[t]
      /\ asked[s] \in Seq(Requests[s]) /\ Len(asked[s]) \in Nat
      /\ read[s] \in Nat /\ read[s] <= Len(asked[s])
    BY <1>1 DEF Inv, Types
<1>3. /\ asked'[s] \in Seq(Requests[s]) /\ Len(asked'[s]) = Len(asked[s]) + 1
      /\ \A i \in 1..Len(asked[s]) : asked'[s][i] = asked[s][i]
    <2>1. PICK R : R = Requests[s]
        OBVIOUS
    <2>2. asked[s] \in Seq(R) /\ r \in R
        BY <2>1, <1>2
    <2>3. /\ Append(asked[s], r) \in Seq(R)
          /\ Len(Append(asked[s], r)) = Len(asked[s]) + 1
          /\ \A i \in 1..Len(asked[s]) : Append(asked[s], r)[i] = asked[s][i]
        BY <2>2, AppendProperties
    <2> QED
        BY <1>2, <2>1, <2>3
<1>4. Types'
    <2>1. asked' = [t \in Sessions |-> asked'[t]]
        BY <1>1 DEF Inv, Types
    <2>2. \A t \in Sessions : asked'[t] \in Seq(Requests[t]) /\ read'[t] <= Len(asked'[t])
        <3>1. asked'[s] \in Seq(Requests[s]) /\ read'[s] <= Len(asked'[s])
            BY <1>1, <1>2, <1>3
        <3>2. \A t \in Sessions : t # s =>
                  asked'[t] \in Seq(Requests[t]) /\ read'[t] <= Len(asked'[t])
            BY <1>1, <1>2 DEF Inv, Types
        <3> QED
            BY <3>1, <3>2
    <2> QED
        BY <1>1, <2>1, <2>2 DEF Inv, Types
<1>5. ServedByOne'
    BY <1>1 DEF Inv, ServedByOne
<1>6. Owing(s)' /\ InOrder(s)'
    <2>1. Len(replies[s]) \in Nat /\ Owing(s) /\ InOrder(s)
        BY DEF Inv, Types, Progress
    <2>2. Len(replies[s]) <= read[s]
        BY <1>2, <2>1 DEF Owing
    <2>3. \A i \in 1..read[s] : asked'[s][i] = asked[s][i]
        BY <1>2, <1>3
    <2>4. \A i \in 1..Len(replies[s]) : asked'[s][i] = asked[s][i]
        BY <1>2, <2>1, <2>2, <2>3
    <2>5. Owing(s)'
        BY <1>1, <2>1 DEF Owing
    <2>6. InOrder(s)'
        BY <1>1, <2>1, <2>3, <2>4 DEF InOrder
    <2> QED
        BY <2>5, <2>6
<1>7. \A t \in Sessions : t # s => Owing(t)' /\ InOrder(t)'
    BY <1>1, <1>2 DEF Inv, Progress, Owing, InOrder
<1> QED
    BY <1>1, <1>4, <1>5, <1>6, <1>7 DEF Inv, Progress, ExitIsLast

-----------------------------------------------------------------------------
(* Theorems *)

LEMMA NextInv ==
    ASSUME Inv, Next
    PROVE  Inv'
<1>1. ASSUME System PROVE Inv'
    <2>1. CASE \E w \in Workers : StartThread(w)
        BY <2>1, StartThreadInv
    <2>2. CASE RunMain \/ Join
        BY <2>2, RunMainInv, JoinInv
    <2>3. CASE \E w \in Threads : OnSignal(w) \/ RunReturns(w)
        BY <2>3, EnvironmentFlagsInv, RunReturnsInv
    <2>4. CASE \E w \in Threads, s \in Sessions :
                  OnConnection(w, s) \/ SessionHandler(w, s) \/ SendResponse(w, s)
        BY <2>4, SessionStepsInv, OnReadInv, SendResponseInv DEF SessionHandler
    <2>5. CASE \E s \in Sessions : Delivered(s)
        BY <2>5, DeliveredInv
    <2> QED
        BY <1>1, <2>1, <2>2, <2>3, <2>4, <2>5 DEF System
<1>2. ASSUME Environment PROVE Inv'
    <2>1. CASE \E s \in Sessions : PeerConnects(s)
        BY <2>1, SessionStepsInv, ThreadStates
    <2>2. CASE \E s \in Sessions : PeerHangsUp(s) \/ PeerResets(s) \/ TimerExpires(s)
        BY <2>2, EnvironmentFlagsInv
    <2>3. CASE \E s \in Sessions : \E r \in Requests[s] : PeerSends(s, r)
        BY <2>3, PeerSendsInv
    <2>4. CASE Signal
        BY <2>4, EnvironmentFlagsInv
    <2>5. CASE StartFails
        BY <2>5, StartFailsInv
    <2>6. CASE \E w \in Threads : HandlerThrows(w) \/ AcceptFails(w)
        BY <2>6, EnvironmentFlagsInv, HandlerThrowsInv
    <2> QED
        BY <1>2, <2>1, <2>2, <2>3, <2>4, <2>5, <2>6 DEF Environment
<1> QED
    BY <1>1, <1>2 DEF Next

\* The invariant of server_http.cpp, for any number of threads and connections.
THEOREM InvHolds == Spec => []Inv
<1>1. Inv /\ [Next]_vars => Inv'
    <2> SUFFICES ASSUME Inv, [Next]_vars PROVE Inv'
        OBVIOUS
    <2>1. CASE Next
        BY <2>1, NextInv
    <2>2. CASE UNCHANGED vars
        <3>1. UNCHANGED <<thread, stopped, run_exception, start_failed, exit, signalled, accepting,
                          asked, hung_up, reset, session, read, replies, expired>>
            BY <2>2 DEF vars, server, peers, connections
        <3> QED
            BY <3>1, FlagsInv DEF Inv, Types
    <2> QED
        BY <2>1, <2>2
<1> QED
    BY <1>1, InitInv, PTL DEF Spec

\* Whatever the threads do, a session in handle_request has one of them and no other has any.
THEOREM TypeCorrect == Spec => []TypeOK
BY InvHolds, InvImpliesTypeOK, PTL

\* on_write reads again after the response is sent, and only then: responses reach a peer
\* that pipelines in the order of its requests, for any number of threads, connections and
\* requests, whichever threads run the handlers and whichever timers run out.
THEOREM AnswersInOrder == Spec => []AnsweredInOrder
BY InvHolds, InvImpliesAnsweredInOrder, PTL

\* start_server_http returns or throws once, when no thread is left in run(), and throws just
\* if a thread could not be started or threw: an exception of any thread is never taken for
\* the signal to stop, and no request is read any more.
NothingAfterExit == exit # None => UNCHANGED <<server, accepting, read>>

THEOREM ExitIsFinal ==
    Spec => /\ [](exit # None => Over /\ (exit = "exception" <=> start_failed \/ run_exception # None))
            /\ [][NothingAfterExit]_vars
<1>1. Inv => (exit # None => Over /\ (exit = "exception" <=> start_failed \/ run_exception # None))
    BY DEF Inv, ExitIsLast, Over
<1>2. Inv /\ [Next]_vars => [NothingAfterExit]_vars
    <2> SUFFICES ASSUME Inv, Next, exit # None PROVE UNCHANGED <<server, accepting, read>>
        BY DEF NothingAfterExit
    <2>1. /\ \A w \in Threads : thread[w] \notin {"starting", "idle"} \cup Sessions
          /\ Main \in Threads
        BY ThreadStates DEF Inv, ExitIsLast
    <2>2. CASE System
        <3>1. \E s \in Sessions : Delivered(s)
            BY <2>1, <2>2 DEF System, StartThread, RunMain, Join, OnSignal, RunReturns, OnConnection,
                SessionHandler, Begin, OnRead, OnEndOfStream, OnReadError, OnWrite, OnWriteError,
                SendResponse, Takes
        <3> QED
            BY <3>1 DEF Delivered
    <2>3. CASE Environment
        <3>1. ~StartFails /\ \A w \in Threads : ~HandlerThrows(w) /\ ~AcceptFails(w)
            BY <2>1 DEF StartFails, HandlerThrows, AcceptFails, Takes
        <3> QED
            BY <2>3, <3>1 DEF Environment, PeerConnects, PeerHangsUp, PeerResets, TimerExpires,
                PeerSends, Signal, connections
    <2> QED
        BY <2>2, <2>3 DEF Next
<1> QED
    BY <1>1, <1>2, InvHolds, PTL DEF Spec
=============================================================================
