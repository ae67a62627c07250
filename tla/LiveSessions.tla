---------------------------- MODULE LiveSessions ----------------------------
(***************************************************************************)
(* The WebSocket sessions of one request: the binding calls that connect,  *)
(* send and disconnect (app_websocket.go) and the keep-alive goroutine of  *)
(* each session.                                                           *)
(*                                                                         *)
(* The mutex of a session is held across a whole exchange with the peer;   *)
(* every other critical section is one step. The requests of the app share *)
(* only the map of sessions, whose mutex is never held across a call.      *)
(***************************************************************************)
EXTENDS Naturals

CONSTANTS
    Calls,         \* goroutines of binding calls, each serving any number
    MaxSessions,   \* bound on the connections dialled
    MaxEvents      \* no send or ping starts in a session with as many events

ASSUME LiveAssumption ==
    /\ MaxSessions \in Nat
    /\ MaxEvents \in Nat
    /\ 0 \notin Calls

VARIABLES
    registered,   \* a.websocketSessions[key], or None
    dialled,      \* connections so far
    conn,         \* the socket of each session
    closed,       \* session.closed
    done,         \* session.done is closed
    ticker,       \* the keep-alive goroutine
    holder,       \* the call that holds session.mu across the network
    logged,       \* len(session.events)
    pc,           \* where each call is
    sess,         \* the session it works on
    prev,         \* the session its connect has replaced
    answer,       \* the response it will store
    shown         \* item.Response

sessionVars == <<conn, closed, done, logged>>
callVars == <<pc, sess, prev, answer>>
vars == <<registered, dialled, sessionVars, ticker, holder, callVars, shown>>

None == 0
Sessions == 1..MaxSessions
Places == {"idle", "dial", "register", "replace", "lock", "exchange", "drop",
           "disconnect", "apply"}
Responses == [session : Sessions \cup {None}, connected : BOOLEAN]

NoResponse == [session |-> None, connected |-> FALSE]

TypeOK ==
    /\ registered \in Sessions \cup {None}
    /\ dialled \in 0..MaxSessions
    /\ conn \in [Sessions -> {"none", "open", "closed"}]
    /\ closed \in [Sessions -> BOOLEAN]
    /\ done \in [Sessions -> BOOLEAN]
    /\ ticker \in [Sessions -> {"off", "running", "ended"}]
    /\ holder \in [Sessions -> Calls \cup {None}]
    /\ logged \in [Sessions -> Nat]
    /\ pc \in [Calls -> Places]
    /\ sess \in [Calls -> Sessions \cup {None}]
    /\ prev \in [Calls -> Sessions \cup {None}]
    /\ answer \in [Calls -> Responses]
    /\ shown \in Responses

Init ==
    /\ registered = None
    /\ dialled = 0
    /\ conn = [s \in Sessions |-> "none"]
    /\ closed = [s \in Sessions |-> FALSE]
    /\ done = [s \in Sessions |-> FALSE]
    /\ ticker = [s \in Sessions |-> "off"]
    /\ holder = [s \in Sessions |-> None]
    /\ logged = [s \in Sessions |-> 0]
    /\ pc = [c \in Calls |-> "idle"]
    /\ sess = [c \in Calls |-> None]
    /\ prev = [c \in Calls |-> None]
    /\ answer = [c \in Calls |-> NoResponse]
    /\ shown = NoResponse

-----------------------------------------------------------------------------
(* appendEventLocked *)
AppendEvent(s) == logged' = [logged EXCEPT ![s] = @ + 1]

(* session.close, and a keep-alive ping that fails. *)
CloseLocked(s) ==
    /\ closed' = [closed EXCEPT ![s] = TRUE]
    /\ done' = [done EXCEPT ![s] = TRUE]
    /\ conn' = [conn EXCEPT ![s] = "closed"]
    /\ AppendEvent(s)

(* close waits for session.mu; closing twice changes nothing. *)
CloseSession(s) ==
    /\ holder[s] = None
    /\ \/ closed[s] /\ UNCHANGED sessionVars
       \/ ~closed[s] /\ CloseLocked(s)

Goto(c, place) == pc' = [pc EXCEPT ![c] = place]
Answer(c, s, up) ==
    answer' = [answer EXCEPT ![c] = [session |-> s, connected |-> up]]

-----------------------------------------------------------------------------
(* Connect. *)

ConnectWebSocket(c) ==
    /\ pc[c] = "idle"
    /\ Goto(c, "dial")
    /\ UNCHANGED <<registered, dialled, sessionVars, ticker, holder, sess,
                   prev, answer, shown>>

Dial(c) ==
    /\ pc[c] = "dial"
    /\ dialled < MaxSessions
    /\ \E s \in Sessions :
         /\ s = dialled + 1
         /\ dialled' = s
         /\ conn' = [conn EXCEPT ![s] = "open"]
         /\ sess' = [sess EXCEPT ![c] = s]
         /\ Answer(c, s, TRUE)
    /\ Goto(c, "register")
    /\ UNCHANGED <<registered, closed, done, logged, ticker, holder, prev,
                   shown>>

DialFails(c) ==
    /\ pc[c] = "dial"
    /\ Answer(c, None, FALSE)
    /\ Goto(c, "apply")
    /\ UNCHANGED <<registered, dialled, sessionVars, ticker, holder, sess,
                   prev, shown>>

(* Fault: the session that was registered is forgotten. *)
RegisterOver(c) ==
    /\ pc[c] = "register"
    /\ registered' = sess[c]
    /\ prev' = [prev EXCEPT ![c] = None]
    /\ Goto(c, "replace")
    /\ UNCHANGED <<dialled, sessionVars, ticker, holder, sess, answer, shown>>

(* replaceWebSocketSession up to the unlock. *)
Register(c) ==
    /\ pc[c] = "register"
    /\ registered' = sess[c]
    /\ prev' = [prev EXCEPT ![c] = registered]
    /\ Goto(c, "replace")
    /\ UNCHANGED <<dialled, sessionVars, ticker, holder, sess, answer, shown>>

(* The previous session is closed, then the keep-alive starts if the       *)
(* request asks for one.                                                   *)
ClosePrevious(c) ==
    /\ pc[c] = "replace"
    /\ \/ prev[c] = None /\ UNCHANGED sessionVars
       \/ prev[c] \in Sessions /\ CloseSession(prev[c])
    /\ \E goes \in {"off", "running"} :
         ticker' = [ticker EXCEPT ![sess[c]] = goes]
    /\ prev' = [prev EXCEPT ![c] = None]
    /\ Goto(c, "apply")
    /\ UNCHANGED <<registered, dialled, holder, sess, answer, shown>>

(* applyWebSocketResponse, the end of every call. *)
Apply(c) ==
    /\ pc[c] = "apply"
    /\ shown' = answer[c]
    /\ Goto(c, "idle")
    /\ sess' = [sess EXCEPT ![c] = None]
    /\ answer' = [answer EXCEPT ![c] = NoResponse]
    /\ UNCHANGED <<registered, dialled, sessionVars, ticker, holder, prev>>

-----------------------------------------------------------------------------
(* Send. A call that finds no session is an error and changes nothing. *)

LookUp(c) ==
    /\ pc[c] = "idle"
    /\ registered # None
    /\ logged[registered] < MaxEvents
    /\ sess' = [sess EXCEPT ![c] = registered]
    /\ Goto(c, "lock")
    /\ UNCHANGED <<registered, dialled, sessionVars, ticker, holder, prev,
                   answer, shown>>

(* Fault: a session that was closed since the look-up is written to. *)
BeginUnchecked(c) ==
    /\ pc[c] = "lock"
    /\ holder[sess[c]] = None
    /\ AppendEvent(sess[c])
    /\ holder' = [holder EXCEPT ![sess[c]] = c]
    /\ Goto(c, "exchange")
    /\ UNCHANGED <<registered, dialled, conn, closed, done, ticker, sess,
                   prev, answer, shown>>

(* The session is locked; it may have been closed since the look-up. *)
Begin(c) ==
    /\ pc[c] = "lock"
    /\ holder[sess[c]] = None
    /\ ~closed[sess[c]]
    /\ AppendEvent(sess[c])
    /\ holder' = [holder EXCEPT ![sess[c]] = c]
    /\ Goto(c, "exchange")
    /\ UNCHANGED <<registered, dialled, conn, closed, done, ticker, sess,
                   prev, answer, shown>>

FindClosed(c) ==
    /\ pc[c] = "lock"
    /\ holder[sess[c]] = None
    /\ closed[sess[c]]
    /\ Answer(c, sess[c], FALSE)
    /\ Goto(c, "drop")
    /\ UNCHANGED <<registered, dialled, sessionVars, ticker, holder, sess,
                   prev, shown>>

(* WriteMessage and ReadMessage succeed. *)
Exchange(c) ==
    /\ pc[c] = "exchange"
    /\ AppendEvent(sess[c])
    /\ Answer(c, sess[c], TRUE)
    /\ holder' = [holder EXCEPT ![sess[c]] = None]
    /\ Goto(c, "apply")
    /\ UNCHANGED <<registered, dialled, conn, closed, done, ticker, sess,
                   prev, shown>>

(* One of them fails, at the read deadline if not before. Unlike close,    *)
(* this leaves session.done open and appends nothing.                      *)
ExchangeFails(c) ==
    /\ pc[c] = "exchange"
    /\ closed' = [closed EXCEPT ![sess[c]] = TRUE]
    /\ conn' = [conn EXCEPT ![sess[c]] = "closed"]
    /\ Answer(c, sess[c], FALSE)
    /\ holder' = [holder EXCEPT ![sess[c]] = None]
    /\ Goto(c, "drop")
    /\ UNCHANGED <<registered, dialled, done, logged, ticker, sess, prev,
                   shown>>

(* Fault: whatever session is registered by now is removed. *)
DropAny(c) ==
    /\ pc[c] = "drop"
    /\ registered' = None
    /\ Goto(c, "apply")
    /\ UNCHANGED <<dialled, sessionVars, ticker, holder, sess, prev, answer,
                   shown>>

(* removeWebSocketSessionIfSame *)
Drop(c) ==
    /\ pc[c] = "drop"
    /\ registered' = IF registered = sess[c] THEN None ELSE registered
    /\ Goto(c, "apply")
    /\ UNCHANGED <<dialled, sessionVars, ticker, holder, sess, prev, answer,
                   shown>>

-----------------------------------------------------------------------------
(* Disconnect: the session is popped, then closed. *)

Pop(c) ==
    /\ pc[c] = "idle"
    /\ registered # None
    /\ sess' = [sess EXCEPT ![c] = registered]
    /\ registered' = None
    /\ Goto(c, "disconnect")
    /\ UNCHANGED <<dialled, sessionVars, ticker, holder, prev, answer, shown>>

Disconnect(c) ==
    /\ pc[c] = "disconnect"
    /\ CloseSession(sess[c])
    /\ Answer(c, sess[c], FALSE)
    /\ Goto(c, "apply")
    /\ UNCHANGED <<registered, dialled, ticker, holder, sess, prev, shown>>

-----------------------------------------------------------------------------
(* The keep-alive goroutine, at a tick or when done is closed. *)

(* Fault: only done ends the goroutine. *)
KeepAliveEndsOnDone(s) ==
    /\ ticker[s] = "running"
    /\ done[s]
    /\ ticker' = [ticker EXCEPT ![s] = "ended"]
    /\ UNCHANGED <<registered, dialled, sessionVars, holder, callVars, shown>>

KeepAliveEnds(s) ==
    /\ ticker[s] = "running"
    /\ done[s] \/ (closed[s] /\ holder[s] = None)
    /\ ticker' = [ticker EXCEPT ![s] = "ended"]
    /\ UNCHANGED <<registered, dialled, sessionVars, holder, callVars, shown>>

Ping(s) ==
    /\ ticker[s] = "running"
    /\ holder[s] = None
    /\ ~closed[s]
    /\ logged[s] < MaxEvents
    /\ \/ /\ AppendEvent(s)
          /\ UNCHANGED <<conn, closed, done, ticker>>
       \/ /\ CloseLocked(s)
          /\ ticker' = [ticker EXCEPT ![s] = "ended"]
    /\ UNCHANGED <<registered, dialled, holder, callVars, shown>>

Next ==
    \/ \E c \in Calls :
         \/ ConnectWebSocket(c) \/ Dial(c) \/ DialFails(c)
         \/ Register(c) \/ ClosePrevious(c)
         \/ LookUp(c) \/ Begin(c) \/ FindClosed(c)
         \/ Exchange(c) \/ ExchangeFails(c) \/ Drop(c)
         \/ Pop(c) \/ Disconnect(c) \/ Apply(c)
    \/ \E s \in Sessions : KeepAliveEnds(s) \/ Ping(s)

Spec == Init /\ [][Next]_vars

(* Tickers tick. *)
FairSpec == Spec /\ \A s \in Sessions : WF_vars(KeepAliveEnds(s))

-----------------------------------------------------------------------------
(* No socket is lost: an open one is of the session that is registered, or *)
(* some call still has it in hand to register or to close. A send that     *)
(* failed late, a disconnect and two connects at once leave none behind.   *)
NoLeakedConnection ==
    \A s \in Sessions :
        conn[s] = "open" =>
            \/ registered = s
            \/ \E c \in Calls :
                 \/ pc[c] \in {"register", "disconnect"} /\ sess[c] = s
                 \/ pc[c] = "replace" /\ prev[c] = s

(* Nothing is sent, received or recorded in a session once it was closed,  *)
(* whoever looked it up before.                                            *)
ClosedIsFinal ==
    [][\A s \in Sessions :
         closed[s] => /\ closed'[s]
                      /\ logged'[s] = logged[s]
                      /\ holder'[s] = None]_vars

(* The goroutine of a closed session ends, however the session was closed. *)
KeepAliveStops ==
    \A s \in Sessions :
        (closed[s] /\ ticker[s] = "running") ~> ticker[s] = "ended"
=============================================================================
