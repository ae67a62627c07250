------------------------ MODULE LiveSessionsProofs ------------------------
(***************************************************************************)
(* The sessions of any number of calls, connections and events.            *)
(***************************************************************************)
EXTENDS LiveSessions, TLAPS

(* Only what was dialled is registered, worked on or kept alive.           *)
OnlyDialled ==
    /\ registered <= dialled
    /\ \A c \in Calls : sess[c] <= dialled /\ prev[c] <= dialled
    /\ \A s \in Sessions : s > dialled => conn[s] = "none" /\ ticker[s] = "off"

(* A call past the idle and dialling places has a session.                 *)
HasSession ==
    \A c \in Calls :
        pc[c] \notin {"idle", "dial", "apply"} => sess[c] \in Sessions

(* A socket and the flag of its session go together.                       *)
ClosedWithItsSocket ==
    \A s \in Sessions : closed[s] <=> conn[s] = "closed"

(* Across the network only the call in an exchange holds a session, and    *)
(* the session is not closed.                                              *)
HolderExchanges ==
    /\ \A s \in Sessions : closed[s] => holder[s] = None
    /\ \A c \in Calls : pc[c] = "exchange" => holder[sess[c]] = c

(* A send removes the session it found closed or broke.                    *)
DropsClosed ==
    \A c \in Calls : pc[c] = "drop" => closed[sess[c]]

Bookkeeping ==
    /\ OnlyDialled
    /\ HasSession
    /\ ClosedWithItsSocket
    /\ HolderExchanges
    /\ DropsClosed

(* What NoLeakedConnection asks for a session.                              *)
Holds(c, s) ==
    \/ pc[c] \in {"register", "disconnect"} /\ sess[c] = s
    \/ pc[c] = "replace" /\ prev[c] = s

Held(s) == registered = s \/ \E c \in Calls : Holds(c, s)

IInv == TypeOK /\ Bookkeeping /\ NoLeakedConnection

(* Sessions are numbers and calls are neither numbered None nor sessions. *)
LEMMA Numbers ==
    /\ Sessions \subseteq Nat
    /\ None \in Nat
    /\ None = 0
    /\ None \notin Sessions
    /\ None \notin Calls
  BY LiveAssumption DEF Sessions, None

LEMMA NumbersInUse ==
    ASSUME TypeOK
    PROVE  /\ dialled \in Nat
           /\ \A c \in Calls : sess[c] \in Nat /\ prev[c] \in Nat
  <1>1. dialled \in Nat
    BY LiveAssumption DEF TypeOK
  <1>2. Sessions \cup {None} \subseteq Nat
    BY Numbers
  <1>3. /\ sess \in [Calls -> Sessions \cup {None}]
        /\ prev \in [Calls -> Sessions \cup {None}]
    BY DEF TypeOK
  <1> QED
    BY ONLY <1>1, <1>2, <1>3

LEMMA AnswerTyped ==
    ASSUME TypeOK, NEW c \in Calls, NEW s \in Sessions \cup {None},
           NEW up \in BOOLEAN, Answer(c, s, up)
    PROVE  answer' \in [Calls -> Responses]
  BY DEF TypeOK, Answer, Responses

(* What happens to one session: it is closed, or left alone. *)
Touch(t, shut) ==
    \/ /\ closed'[t] = closed[t]
       /\ conn'[t] = conn[t]
       /\ logged'[t] = logged[t]
    \/ /\ shut
       /\ holder[t] = None
       /\ closed'[t] /\ conn'[t] = "closed"
       /\ closed[t] => logged'[t] = logged[t]

Typed ==
    /\ closed' \in [Sessions -> BOOLEAN]
    /\ done' \in [Sessions -> BOOLEAN]
    /\ conn' \in [Sessions -> {"none", "open", "closed"}]
    /\ logged' \in [Sessions -> Nat]

ClosePreviousEffect(c) ==
    /\ pc[c] = "replace" /\ sess[c] \in Sessions
    /\ pc' = [pc EXCEPT ![c] = "apply"]
    /\ prev' = [prev EXCEPT ![c] = None]
    /\ ticker' \in [Sessions -> {"off", "running", "ended"}]
    /\ \A t \in Sessions \ {sess[c]} : ticker'[t] = ticker[t]
    /\ UNCHANGED <<registered, dialled, holder, sess, answer, shown>>
    /\ Typed
    /\ \A t \in Sessions : Touch(t, t = prev[c])
    /\ prev[c] \in Sessions => conn'[prev[c]] = "closed"

DisconnectEffect(c) ==
    /\ pc[c] = "disconnect" /\ sess[c] \in Sessions
    /\ pc' = [pc EXCEPT ![c] = "apply"]
    /\ answer' \in [Calls -> Responses]
    /\ UNCHANGED <<registered, dialled, ticker, holder, sess, prev, shown>>
    /\ Typed
    /\ \A t \in Sessions : Touch(t, t = sess[c])
    /\ conn'[sess[c]] = "closed"

PingEffect(s) ==
    /\ ~closed[s] /\ ticker[s] = "running"
    /\ ticker' \in [Sessions -> {"off", "running", "ended"}]
    /\ \A t \in Sessions \ {s} : ticker'[t] = ticker[t]
    /\ UNCHANGED <<registered, dialled, holder, pc, sess, prev, answer, shown>>
    /\ Typed
    /\ holder[s] = None
    /\ \A t \in Sessions \ {s} : Touch(t, FALSE)
    /\ \/ closed'[s] = closed[s] /\ conn'[s] = conn[s]
       \/ closed'[s] /\ conn'[s] = "closed"

LEMMA CloseLockedMoves ==
    ASSUME TypeOK, NEW s \in Sessions, CloseLocked(s)
    PROVE  /\ Typed
           /\ closed'[s] /\ conn'[s] = "closed"
           /\ \A t \in Sessions \ {s} : Touch(t, FALSE)
  BY DEF TypeOK, CloseLocked, AppendEvent, Typed, Touch

LEMMA CloseMoves ==
    ASSUME TypeOK, Bookkeeping, NEW s \in Sessions, CloseSession(s)
    PROVE  /\ Typed
           /\ \A t \in Sessions : Touch(t, t = s)
           /\ conn'[s] = "closed"
  <1>1. CASE CloseLocked(s) /\ ~closed[s] /\ holder[s] = None
    BY <1>1, CloseLockedMoves DEF Touch
  <1>2. CASE closed[s] /\ UNCHANGED sessionVars /\ holder[s] = None
    BY <1>2 DEF TypeOK, Bookkeeping, ClosedWithItsSocket, sessionVars, Typed,
                Touch
  <1> QED
    BY <1>1, <1>2 DEF CloseSession

LEMMA ClosePreviousMoves ==
    ASSUME TypeOK, Bookkeeping, NEW c \in Calls, ClosePrevious(c)
    PROVE  ClosePreviousEffect(c)
  <1>1. pc[c] = "replace" /\ sess[c] \in Sessions
    BY DEF TypeOK, Bookkeeping, HasSession, ClosePrevious
  <1>2. CASE prev[c] = None /\ UNCHANGED sessionVars
    <2>1. Typed /\ \A t \in Sessions : Touch(t, t = prev[c])
      BY <1>2 DEF TypeOK, sessionVars, Typed, Touch
    <2> QED
      BY <1>1, <1>2, <2>1, Numbers
      DEF TypeOK, ClosePrevious, ClosePreviousEffect, Goto
  <1>3. CASE prev[c] \in Sessions /\ CloseSession(prev[c])
    <2>1. /\ Typed
          /\ \A t \in Sessions : Touch(t, t = prev[c])
          /\ conn'[prev[c]] = "closed"
      BY <1>3, CloseMoves
    <2> QED
      BY <1>1, <2>1 DEF TypeOK, ClosePrevious, ClosePreviousEffect, Goto
  <1> QED
    BY <1>2, <1>3 DEF ClosePrevious

LEMMA DisconnectMoves ==
    ASSUME TypeOK, Bookkeeping, NEW c \in Calls, Disconnect(c)
    PROVE  DisconnectEffect(c)
  <1>1. pc[c] = "disconnect" /\ sess[c] \in Sessions
    BY DEF TypeOK, Bookkeeping, HasSession, Disconnect
  <1>2. answer' \in [Calls -> Responses]
    BY <1>1, AnswerTyped DEF Disconnect
  <1>3. /\ Typed
        /\ \A t \in Sessions : Touch(t, t = sess[c])
        /\ conn'[sess[c]] = "closed"
    BY <1>1, CloseMoves DEF Disconnect
  <1> QED
    BY <1>1, <1>2, <1>3 DEF Disconnect, DisconnectEffect, Goto

LEMMA PingMoves ==
    ASSUME TypeOK, Bookkeeping, NEW s \in Sessions, Ping(s)
    PROVE  PingEffect(s)
  <1>1. ~closed[s] /\ ticker[s] = "running" /\ holder[s] = None
    BY DEF Ping
  <1>2. CASE AppendEvent(s) /\ UNCHANGED <<conn, closed, done, ticker>>
    <2>1. Typed /\ \A t \in Sessions \ {s} : Touch(t, FALSE)
      BY <1>2 DEF TypeOK, AppendEvent, Typed, Touch
    <2> QED
      BY <1>1, <1>2, <2>1 DEF TypeOK, Ping, PingEffect, callVars
  <1>3. CASE CloseLocked(s) /\ ticker' = [ticker EXCEPT ![s] = "ended"]
    BY <1>1, <1>3, CloseLockedMoves DEF TypeOK, Ping, PingEffect, callVars
  <1> QED
    BY <1>2, <1>3 DEF Ping

(* Every step keeps the types. *)
LEMMA TypeStep ==
    ASSUME TypeOK, Bookkeeping, [Next]_vars
    PROVE  TypeOK'
  <1>a. ASSUME NEW c \in Calls, ClosePrevious(c)
        PROVE  ClosePreviousEffect(c)
    BY <1>a, ClosePreviousMoves
  <1>b. ASSUME NEW c \in Calls, Disconnect(c)
        PROVE  DisconnectEffect(c)
    BY <1>b, DisconnectMoves
  <1>c. ASSUME NEW s \in Sessions, Ping(s)
        PROVE  PingEffect(s)
    BY <1>c, PingMoves
  <1> USE Numbers DEF TypeOK, Bookkeeping, HasSession, Places, Responses,
          NoResponse, sessionVars, callVars
  <1>1. ASSUME NEW c \in Calls, ConnectWebSocket(c)
        PROVE  TypeOK'
    BY <1>1 DEF ConnectWebSocket, Goto
  <1>2. ASSUME NEW c \in Calls, Dial(c)
        PROVE  TypeOK'
    <2>1. PICK s \in Sessions :
            /\ s = dialled + 1
            /\ dialled' = s
            /\ conn' = [conn EXCEPT ![s] = "open"]
            /\ sess' = [sess EXCEPT ![c] = s]
            /\ Answer(c, s, TRUE)
      BY <1>2 DEF Dial
    <2>2. dialled' \in 0..MaxSessions
      BY <2>1 DEF Sessions
    <2>3. answer' \in [Calls -> Responses]
      BY <2>1, AnswerTyped
    <2> QED
      BY <1>2, <2>1, <2>2, <2>3 DEF Dial, Goto
  <1>3. ASSUME NEW c \in Calls, DialFails(c)
        PROVE  TypeOK'
    BY <1>3 DEF DialFails, Goto, Answer
  <1>4. ASSUME NEW c \in Calls, Register(c)
        PROVE  TypeOK'
    BY <1>4 DEF Register, Goto
  <1>5. ASSUME NEW c \in Calls, ClosePrevious(c)
        PROVE  TypeOK'
    <2>1. pc' \in [Calls -> Places] /\ prev' \in [Calls -> Sessions \cup {None}]
      <3>1. pc' = [pc EXCEPT ![c] = "apply"] /\ prev' = [prev EXCEPT ![c] = None]
        BY <1>5, <1>a DEF ClosePreviousEffect
      <3> QED
        BY <3>1
    <2>2. /\ UNCHANGED <<registered, dialled, holder, sess, answer, shown>>
          /\ ticker' \in [Sessions -> {"off", "running", "ended"}]
          /\ Typed
      BY <1>5, <1>a DEF ClosePreviousEffect
    <2> QED
      BY <2>1, <2>2 DEF Typed
  <1>6. ASSUME NEW c \in Calls, LookUp(c)
        PROVE  TypeOK'
    BY <1>6 DEF LookUp, Goto
  <1>7. ASSUME NEW c \in Calls, Begin(c)
        PROVE  TypeOK'
    <2>1. sess[c] \in Sessions
      BY <1>7 DEF Begin
    <2>2. logged' \in [Sessions -> Nat]
      BY ONLY <1>7, <2>1, logged \in [Sessions -> Nat] DEF Begin, AppendEvent
    <2> QED
      BY <1>7, <2>2 DEF Begin, Goto
  <1>8. ASSUME NEW c \in Calls, FindClosed(c)
        PROVE  TypeOK'
    BY <1>8 DEF FindClosed, Goto, Answer
  <1>9. ASSUME NEW c \in Calls, Exchange(c)
        PROVE  TypeOK'
    <2>1. sess[c] \in Sessions
      BY <1>9 DEF Exchange
    <2>2. answer' \in [Calls -> Responses]
      BY <1>9, <2>1, AnswerTyped DEF Exchange
    <2>3. logged' \in [Sessions -> Nat]
      BY ONLY <1>9, <2>1, logged \in [Sessions -> Nat] DEF Exchange, AppendEvent
    <2> QED
      BY <1>9, <2>2, <2>3 DEF Exchange, Goto
  <1>10. ASSUME NEW c \in Calls, ExchangeFails(c)
        PROVE  TypeOK'
    BY <1>10 DEF ExchangeFails, Goto, Answer
  <1>11. ASSUME NEW c \in Calls, Drop(c)
        PROVE  TypeOK'
    BY <1>11 DEF Drop, Goto
  <1>12. ASSUME NEW c \in Calls, Pop(c)
        PROVE  TypeOK'
    BY <1>12 DEF Pop, Goto
  <1>13. ASSUME NEW c \in Calls, Disconnect(c)
        PROVE  TypeOK'
    BY <1>13, <1>b DEF DisconnectEffect, Touch, Typed
  <1>14. ASSUME NEW c \in Calls, Apply(c)
        PROVE  TypeOK'
    BY <1>14 DEF Apply, Goto
  <1>15. ASSUME NEW s \in Sessions, KeepAliveEnds(s)
        PROVE  TypeOK'
    BY <1>15 DEF KeepAliveEnds
  <1>16. ASSUME NEW s \in Sessions, Ping(s)
        PROVE  TypeOK'
    BY <1>16, <1>c DEF PingEffect, Touch, Typed
  <1>17. CASE UNCHANGED vars
    BY <1>17 DEF vars
  <1> QED
    BY <1>1, <1>2, <1>3, <1>4, <1>5, <1>6, <1>7, <1>8, <1>9, <1>10,
       <1>11, <1>12, <1>13, <1>14, <1>15, <1>16, <1>17
    DEF Next

(* Every step keeps what is dialled in order. *)
LEMMA DialledStep ==
    ASSUME TypeOK, TypeOK', Bookkeeping, [Next]_vars
    PROVE  OnlyDialled'
  <1>a. ASSUME NEW c \in Calls, ClosePrevious(c)
        PROVE  ClosePreviousEffect(c)
    BY <1>a, ClosePreviousMoves
  <1>b. ASSUME NEW c \in Calls, Disconnect(c)
        PROVE  DisconnectEffect(c)
    BY <1>b, DisconnectMoves
  <1>c. ASSUME NEW s \in Sessions, Ping(s)
        PROVE  PingEffect(s)
    BY <1>c, PingMoves
  <1>d. /\ dialled \in Nat
        /\ \A c \in Calls : sess[c] \in Nat /\ prev[c] \in Nat
    BY NumbersInUse
  <1> USE Numbers DEF TypeOK, Bookkeeping, HasSession, OnlyDialled,
          ClosedWithItsSocket, sessionVars, callVars
  <1>1. ASSUME NEW c \in Calls, ConnectWebSocket(c)
        PROVE  OnlyDialled'
    BY <1>1 DEF ConnectWebSocket, Goto
  <1>2. ASSUME NEW c \in Calls, Dial(c)
        PROVE  OnlyDialled'
    <2>1. PICK s \in Sessions :
            /\ s = dialled + 1
            /\ dialled' = s
            /\ conn' = [conn EXCEPT ![s] = "open"]
            /\ sess' = [sess EXCEPT ![c] = s]
      BY <1>2 DEF Dial
    <2>2. registered <= dialled + 1
      OBVIOUS
    <2>3. ASSUME NEW d \in Calls
          PROVE  sess'[d] <= dialled + 1 /\ prev[d] <= dialled + 1
      <3>1. sess[d] \in Nat /\ prev[d] \in Nat /\ dialled \in Nat
        BY ONLY <1>d, d \in Calls
      <3>2. sess[d] <= dialled /\ prev[d] <= dialled
        OBVIOUS
      <3>3. sess'[d] = sess[d] \/ sess'[d] = dialled + 1
        BY <2>1
      <3> QED
        BY ONLY <3>1, <3>2, <3>3
    <2>4. \A t \in Sessions : t > dialled + 1
                              => conn'[t] = "none" /\ ticker[t] = "off"
      BY <2>1
    <2> QED
      BY <1>2, <2>1, <2>2, <2>3, <2>4 DEF Dial
  <1>3. ASSUME NEW c \in Calls, DialFails(c)
        PROVE  OnlyDialled'
    BY <1>3 DEF DialFails, Goto
  <1>4. ASSUME NEW c \in Calls, Register(c)
        PROVE  OnlyDialled'
    <2>1. registered' <= dialled
      BY <1>4 DEF Register
    <2>2. \A d \in Calls : prev'[d] <= dialled
      BY <1>4 DEF Register
    <2> QED
      BY <1>4, <2>1, <2>2 DEF Register
  <1>5. ASSUME NEW c \in Calls, ClosePrevious(c)
        PROVE  OnlyDialled'
    BY <1>5, <1>a DEF ClosePreviousEffect, Touch, Typed
  <1>6. ASSUME NEW c \in Calls, LookUp(c)
        PROVE  OnlyDialled'
    BY <1>6 DEF LookUp, Goto
  <1>7. ASSUME NEW c \in Calls, Begin(c)
        PROVE  OnlyDialled'
    BY <1>7 DEF Begin, Goto, AppendEvent
  <1>8. ASSUME NEW c \in Calls, FindClosed(c)
        PROVE  OnlyDialled'
    BY <1>8 DEF FindClosed, Goto
  <1>9. ASSUME NEW c \in Calls, Exchange(c)
        PROVE  OnlyDialled'
    BY <1>9 DEF Exchange, Goto, AppendEvent
  <1>10. ASSUME NEW c \in Calls, ExchangeFails(c)
        PROVE  OnlyDialled'
    BY <1>10 DEF ExchangeFails, Goto
  <1>11. ASSUME NEW c \in Calls, Drop(c)
        PROVE  OnlyDialled'
    BY <1>11 DEF Drop, Goto
  <1>12. ASSUME NEW c \in Calls, Pop(c)
        PROVE  OnlyDialled'
    BY <1>12 DEF Pop, Goto
  <1>13. ASSUME NEW c \in Calls, Disconnect(c)
        PROVE  OnlyDialled'
    BY <1>13, <1>b DEF DisconnectEffect, Touch, Typed
  <1>14. ASSUME NEW c \in Calls, Apply(c)
        PROVE  OnlyDialled'
    BY <1>14 DEF Apply, Goto
  <1>15. ASSUME NEW s \in Sessions, KeepAliveEnds(s)
        PROVE  OnlyDialled'
    BY <1>15 DEF KeepAliveEnds
  <1>16. ASSUME NEW s \in Sessions, Ping(s)
        PROVE  OnlyDialled'
    <2>1. s <= dialled
      <3>1. ticker[s] = "running"
        BY <1>16, <1>c DEF PingEffect
      <3>2. s \in Nat /\ dialled \in Nat
        OBVIOUS
      <3>3. ~(s > dialled)
        BY <3>1
      <3> QED
        BY ONLY <3>2, <3>3
    <2> QED
      BY <1>16, <2>1, <1>c DEF PingEffect, Touch
  <1>17. CASE UNCHANGED vars
    BY <1>17 DEF vars
  <1> QED
    BY <1>1, <1>2, <1>3, <1>4, <1>5, <1>6, <1>7, <1>8, <1>9, <1>10,
       <1>11, <1>12, <1>13, <1>14, <1>15, <1>16, <1>17
    DEF Next

(* A call that goes on has a session. *)
LEMMA HasSessionStep ==
    ASSUME TypeOK, TypeOK', Bookkeeping, [Next]_vars
    PROVE  HasSession'
  <1>a. ASSUME NEW c \in Calls, ClosePrevious(c)
        PROVE  ClosePreviousEffect(c)
    BY <1>a, ClosePreviousMoves
  <1>b. ASSUME NEW c \in Calls, Disconnect(c)
        PROVE  DisconnectEffect(c)
    BY <1>b, DisconnectMoves
  <1>c. ASSUME NEW s \in Sessions, Ping(s)
        PROVE  PingEffect(s)
    BY <1>c, PingMoves
  <1> USE Numbers DEF TypeOK, Bookkeeping, HasSession, Places,
          sessionVars, callVars
  <1>1. ASSUME NEW c \in Calls, ConnectWebSocket(c)
        PROVE  HasSession'
    BY <1>1 DEF ConnectWebSocket, Goto
  <1>2. ASSUME NEW c \in Calls, Dial(c)
        PROVE  HasSession'
    BY <1>2 DEF Dial, Goto
  <1>3. ASSUME NEW c \in Calls, DialFails(c)
        PROVE  HasSession'
    BY <1>3 DEF DialFails, Goto
  <1>4. ASSUME NEW c \in Calls, Register(c)
        PROVE  HasSession'
    BY <1>4 DEF Register, Goto
  <1>5. ASSUME NEW c \in Calls, ClosePrevious(c)
        PROVE  HasSession'
    BY <1>5, <1>a DEF ClosePreviousEffect, Touch, Typed
  <1>6. ASSUME NEW c \in Calls, LookUp(c)
        PROVE  HasSession'
    BY <1>6 DEF LookUp, Goto
  <1>7. ASSUME NEW c \in Calls, Begin(c)
        PROVE  HasSession'
    BY <1>7 DEF Begin, Goto, AppendEvent
  <1>8. ASSUME NEW c \in Calls, FindClosed(c)
        PROVE  HasSession'
    BY <1>8 DEF FindClosed, Goto
  <1>9. ASSUME NEW c \in Calls, Exchange(c)
        PROVE  HasSession'
    BY <1>9 DEF Exchange, Goto, AppendEvent
  <1>10. ASSUME NEW c \in Calls, ExchangeFails(c)
        PROVE  HasSession'
    BY <1>10 DEF ExchangeFails, Goto
  <1>11. ASSUME NEW c \in Calls, Drop(c)
        PROVE  HasSession'
    BY <1>11 DEF Drop, Goto
  <1>12. ASSUME NEW c \in Calls, Pop(c)
        PROVE  HasSession'
    BY <1>12 DEF Pop, Goto
  <1>13. ASSUME NEW c \in Calls, Disconnect(c)
        PROVE  HasSession'
    BY <1>13, <1>b DEF DisconnectEffect, Touch, Typed
  <1>14. ASSUME NEW c \in Calls, Apply(c)
        PROVE  HasSession'
    BY <1>14 DEF Apply, Goto
  <1>15. ASSUME NEW s \in Sessions, KeepAliveEnds(s)
        PROVE  HasSession'
    BY <1>15 DEF KeepAliveEnds
  <1>16. ASSUME NEW s \in Sessions, Ping(s)
        PROVE  HasSession'
    BY <1>16, <1>c DEF PingEffect, Touch, Typed
  <1>17. CASE UNCHANGED vars
    BY <1>17 DEF vars
  <1> QED
    BY <1>1, <1>2, <1>3, <1>4, <1>5, <1>6, <1>7, <1>8, <1>9, <1>10,
       <1>11, <1>12, <1>13, <1>14, <1>15, <1>16, <1>17
    DEF Next

(* A flag and its socket change together. *)
LEMMA SocketStep ==
    ASSUME TypeOK, TypeOK', Bookkeeping, [Next]_vars
    PROVE  ClosedWithItsSocket'
  <1>a. ASSUME NEW c \in Calls, ClosePrevious(c)
        PROVE  ClosePreviousEffect(c)
    BY <1>a, ClosePreviousMoves
  <1>b. ASSUME NEW c \in Calls, Disconnect(c)
        PROVE  DisconnectEffect(c)
    BY <1>b, DisconnectMoves
  <1>c. ASSUME NEW s \in Sessions, Ping(s)
        PROVE  PingEffect(s)
    BY <1>c, PingMoves
  <1> USE Numbers DEF TypeOK, Bookkeeping, HasSession, OnlyDialled,
          ClosedWithItsSocket, sessionVars, callVars
  <1>1. ASSUME NEW c \in Calls, ConnectWebSocket(c)
        PROVE  ClosedWithItsSocket'
    BY <1>1 DEF ConnectWebSocket, Goto
  <1>2. ASSUME NEW c \in Calls, Dial(c)
        PROVE  ClosedWithItsSocket'
    <2>1. PICK s \in Sessions :
            /\ s = dialled + 1
            /\ conn' = [conn EXCEPT ![s] = "open"]
      BY <1>2 DEF Dial
    <2>2. conn[s] = "none"
      <3>1. dialled \in Nat
        OBVIOUS
      <3>2. s > dialled
        BY ONLY <2>1, <3>1
      <3> QED
        BY <3>2
    <2>3. ~closed[s] /\ closed' = closed
      BY <1>2, <2>2 DEF Dial
    <2>4. conn'[s] = "open" /\ \A t \in Sessions \ {s} : conn'[t] = conn[t]
      BY <2>1
    <2> QED
      BY <2>3, <2>4
  <1>3. ASSUME NEW c \in Calls, DialFails(c)
        PROVE  ClosedWithItsSocket'
    BY <1>3 DEF DialFails, Goto
  <1>4. ASSUME NEW c \in Calls, Register(c)
        PROVE  ClosedWithItsSocket'
    BY <1>4 DEF Register, Goto
  <1>5. ASSUME NEW c \in Calls, ClosePrevious(c)
        PROVE  ClosedWithItsSocket'
    BY <1>5, <1>a DEF ClosePreviousEffect, Touch, Typed
  <1>6. ASSUME NEW c \in Calls, LookUp(c)
        PROVE  ClosedWithItsSocket'
    BY <1>6 DEF LookUp, Goto
  <1>7. ASSUME NEW c \in Calls, Begin(c)
        PROVE  ClosedWithItsSocket'
    BY <1>7 DEF Begin, Goto, AppendEvent
  <1>8. ASSUME NEW c \in Calls, FindClosed(c)
        PROVE  ClosedWithItsSocket'
    BY <1>8 DEF FindClosed, Goto
  <1>9. ASSUME NEW c \in Calls, Exchange(c)
        PROVE  ClosedWithItsSocket'
    BY <1>9 DEF Exchange, Goto, AppendEvent
  <1>10. ASSUME NEW c \in Calls, ExchangeFails(c)
        PROVE  ClosedWithItsSocket'
    BY <1>10 DEF ExchangeFails, Goto
  <1>11. ASSUME NEW c \in Calls, Drop(c)
        PROVE  ClosedWithItsSocket'
    BY <1>11 DEF Drop, Goto
  <1>12. ASSUME NEW c \in Calls, Pop(c)
        PROVE  ClosedWithItsSocket'
    BY <1>12 DEF Pop, Goto
  <1>13. ASSUME NEW c \in Calls, Disconnect(c)
        PROVE  ClosedWithItsSocket'
    BY <1>13, <1>b DEF DisconnectEffect, Touch, Typed
  <1>14. ASSUME NEW c \in Calls, Apply(c)
        PROVE  ClosedWithItsSocket'
    BY <1>14 DEF Apply, Goto
  <1>15. ASSUME NEW s \in Sessions, KeepAliveEnds(s)
        PROVE  ClosedWithItsSocket'
    BY <1>15 DEF KeepAliveEnds
  <1>16. ASSUME NEW s \in Sessions, Ping(s)
        PROVE  ClosedWithItsSocket'
    BY <1>16, <1>c DEF PingEffect, Touch, Typed
  <1>17. CASE UNCHANGED vars
    BY <1>17 DEF vars
  <1> QED
    BY <1>1, <1>2, <1>3, <1>4, <1>5, <1>6, <1>7, <1>8, <1>9, <1>10,
       <1>11, <1>12, <1>13, <1>14, <1>15, <1>16, <1>17
    DEF Next

(* A session is locked and released by its holder. *)
LEMMA HolderStep ==
    ASSUME TypeOK, TypeOK', Bookkeeping, [Next]_vars
    PROVE  HolderExchanges'
  <1>a. ASSUME NEW c \in Calls, ClosePrevious(c)
        PROVE  ClosePreviousEffect(c)
    BY <1>a, ClosePreviousMoves
  <1>b. ASSUME NEW c \in Calls, Disconnect(c)
        PROVE  DisconnectEffect(c)
    BY <1>b, DisconnectMoves
  <1>c. ASSUME NEW s \in Sessions, Ping(s)
        PROVE  PingEffect(s)
    BY <1>c, PingMoves
  <1> USE Numbers DEF TypeOK, Bookkeeping, HasSession, HolderExchanges,
          sessionVars, callVars
  <1>1. ASSUME NEW c \in Calls, ConnectWebSocket(c)
        PROVE  HolderExchanges'
    BY <1>1 DEF ConnectWebSocket, Goto
  <1>2. ASSUME NEW c \in Calls, Dial(c)
        PROVE  HolderExchanges'
    BY <1>2 DEF Dial, Goto
  <1>3. ASSUME NEW c \in Calls, DialFails(c)
        PROVE  HolderExchanges'
    BY <1>3 DEF DialFails, Goto
  <1>4. ASSUME NEW c \in Calls, Register(c)
        PROVE  HolderExchanges'
    BY <1>4 DEF Register, Goto
  <1>5. ASSUME NEW c \in Calls, ClosePrevious(c)
        PROVE  HolderExchanges'
    BY <1>5, <1>a DEF ClosePreviousEffect, Touch, Typed
  <1>6. ASSUME NEW c \in Calls, LookUp(c)
        PROVE  HolderExchanges'
    BY <1>6 DEF LookUp, Goto
  <1>7. ASSUME NEW c \in Calls, Begin(c)
        PROVE  HolderExchanges'
    BY <1>7 DEF Begin, Goto, AppendEvent
  <1>8. ASSUME NEW c \in Calls, FindClosed(c)
        PROVE  HolderExchanges'
    BY <1>8 DEF FindClosed, Goto
  <1>9. ASSUME NEW c \in Calls, Exchange(c)
        PROVE  HolderExchanges'
    BY <1>9 DEF Exchange, Goto, AppendEvent
  <1>10. ASSUME NEW c \in Calls, ExchangeFails(c)
        PROVE  HolderExchanges'
    BY <1>10 DEF ExchangeFails, Goto
  <1>11. ASSUME NEW c \in Calls, Drop(c)
        PROVE  HolderExchanges'
    BY <1>11 DEF Drop, Goto
  <1>12. ASSUME NEW c \in Calls, Pop(c)
        PROVE  HolderExchanges'
    BY <1>12 DEF Pop, Goto
  <1>13. ASSUME NEW c \in Calls, Disconnect(c)
        PROVE  HolderExchanges'
    BY <1>13, <1>b DEF DisconnectEffect, Touch, Typed
  <1>14. ASSUME NEW c \in Calls, Apply(c)
        PROVE  HolderExchanges'
    BY <1>14 DEF Apply, Goto
  <1>15. ASSUME NEW s \in Sessions, KeepAliveEnds(s)
        PROVE  HolderExchanges'
    BY <1>15 DEF KeepAliveEnds
  <1>16. ASSUME NEW s \in Sessions, Ping(s)
        PROVE  HolderExchanges'
    BY <1>16, <1>c DEF PingEffect, Touch, Typed
  <1>17. CASE UNCHANGED vars
    BY <1>17 DEF vars
  <1> QED
    BY <1>1, <1>2, <1>3, <1>4, <1>5, <1>6, <1>7, <1>8, <1>9, <1>10,
       <1>11, <1>12, <1>13, <1>14, <1>15, <1>16, <1>17
    DEF Next

(* A call drops a session that is closed for good. *)
LEMMA DropsStep ==
    ASSUME TypeOK, TypeOK', Bookkeeping, [Next]_vars
    PROVE  DropsClosed'
  <1>a. ASSUME NEW c \in Calls, ClosePrevious(c)
        PROVE  ClosePreviousEffect(c)
    BY <1>a, ClosePreviousMoves
  <1>b. ASSUME NEW c \in Calls, Disconnect(c)
        PROVE  DisconnectEffect(c)
    BY <1>b, DisconnectMoves
  <1>c. ASSUME NEW s \in Sessions, Ping(s)
        PROVE  PingEffect(s)
    BY <1>c, PingMoves
  <1> USE Numbers DEF TypeOK, Bookkeeping, HasSession, DropsClosed,
          sessionVars, callVars
  <1>1. ASSUME NEW c \in Calls, ConnectWebSocket(c)
        PROVE  DropsClosed'
    BY <1>1 DEF ConnectWebSocket, Goto
  <1>2. ASSUME NEW c \in Calls, Dial(c)
        PROVE  DropsClosed'
    BY <1>2 DEF Dial, Goto
  <1>3. ASSUME NEW c \in Calls, DialFails(c)
        PROVE  DropsClosed'
    BY <1>3 DEF DialFails, Goto
  <1>4. ASSUME NEW c \in Calls, Register(c)
        PROVE  DropsClosed'
    BY <1>4 DEF Register, Goto
  <1>5. ASSUME NEW c \in Calls, ClosePrevious(c)
        PROVE  DropsClosed'
    <2>1. ASSUME NEW d \in Calls, pc'[d] = "drop"
          PROVE  closed'[sess'[d]]
      <3>1. pc[d] = "drop" /\ sess' = sess
        BY <1>5, <2>1, <1>a DEF ClosePreviousEffect
      <3>2. sess[d] \in Sessions /\ closed[sess[d]]
        BY <3>1
      <3> QED
        BY <1>5, <1>a, <3>1, <3>2 DEF ClosePreviousEffect, Touch
    <2> QED
      BY <2>1
  <1>6. ASSUME NEW c \in Calls, LookUp(c)
        PROVE  DropsClosed'
    BY <1>6 DEF LookUp, Goto
  <1>7. ASSUME NEW c \in Calls, Begin(c)
        PROVE  DropsClosed'
    BY <1>7 DEF Begin, Goto, AppendEvent
  <1>8. ASSUME NEW c \in Calls, FindClosed(c)
        PROVE  DropsClosed'
    BY <1>8 DEF FindClosed, Goto
  <1>9. ASSUME NEW c \in Calls, Exchange(c)
        PROVE  DropsClosed'
    BY <1>9 DEF Exchange, Goto, AppendEvent
  <1>10. ASSUME NEW c \in Calls, ExchangeFails(c)
        PROVE  DropsClosed'
    BY <1>10 DEF ExchangeFails, Goto
  <1>11. ASSUME NEW c \in Calls, Drop(c)
        PROVE  DropsClosed'
    BY <1>11 DEF Drop, Goto
  <1>12. ASSUME NEW c \in Calls, Pop(c)
        PROVE  DropsClosed'
    BY <1>12 DEF Pop, Goto
  <1>13. ASSUME NEW c \in Calls, Disconnect(c)
        PROVE  DropsClosed'
    <2>1. ASSUME NEW d \in Calls, pc'[d] = "drop"
          PROVE  closed'[sess'[d]]
      <3>1. pc[d] = "drop" /\ sess' = sess
        BY <1>13, <2>1, <1>b DEF DisconnectEffect
      <3>2. sess[d] \in Sessions /\ closed[sess[d]]
        BY <3>1
      <3> QED
        BY <1>13, <1>b, <3>1, <3>2 DEF DisconnectEffect, Touch
    <2> QED
      BY <2>1
  <1>14. ASSUME NEW c \in Calls, Apply(c)
        PROVE  DropsClosed'
    BY <1>14 DEF Apply, Goto
  <1>15. ASSUME NEW s \in Sessions, KeepAliveEnds(s)
        PROVE  DropsClosed'
    BY <1>15 DEF KeepAliveEnds
  <1>16. ASSUME NEW s \in Sessions, Ping(s)
        PROVE  DropsClosed'
    <2>1. ASSUME NEW d \in Calls, pc'[d] = "drop"
          PROVE  closed'[sess'[d]]
      <3>1. pc[d] = "drop" /\ sess' = sess
        BY <1>16, <2>1, <1>c DEF PingEffect
      <3>2. sess[d] \in Sessions /\ closed[sess[d]]
        BY <3>1
      <3> QED
        <4>1. ~closed[s] /\ \A t \in Sessions \ {s} : Touch(t, FALSE)
          BY <1>16, <1>c DEF PingEffect
        <4>2. Touch(sess[d], FALSE)
          BY <3>2, <4>1
        <4> QED
          BY <3>1, <3>2, <4>2 DEF Touch
    <2> QED
      BY <2>1
  <1>17. CASE UNCHANGED vars
    BY <1>17 DEF vars
  <1> QED
    BY <1>1, <1>2, <1>3, <1>4, <1>5, <1>6, <1>7, <1>8, <1>9, <1>10,
       <1>11, <1>12, <1>13, <1>14, <1>15, <1>16, <1>17
    DEF Next

(* Whoever takes an open session out of the map has it in hand. *)
LEMMA NoLeakStep ==
    ASSUME TypeOK, TypeOK', Bookkeeping, NoLeakedConnection, [Next]_vars
    PROVE  NoLeakedConnection'
  <1>a. ASSUME NEW c \in Calls, ClosePrevious(c)
        PROVE  ClosePreviousEffect(c)
    BY <1>a, ClosePreviousMoves
  <1>b. ASSUME NEW c \in Calls, Disconnect(c)
        PROVE  DisconnectEffect(c)
    BY <1>b, DisconnectMoves
  <1>c. ASSUME NEW s \in Sessions, Ping(s)
        PROVE  PingEffect(s)
    BY <1>c, PingMoves
  <1> USE Numbers DEF TypeOK, Bookkeeping, HasSession, ClosedWithItsSocket,
          DropsClosed, NoLeakedConnection, Held, Holds, sessionVars, callVars
  <1>1. ASSUME NEW c \in Calls, ConnectWebSocket(c)
        PROVE  NoLeakedConnection'
    BY <1>1 DEF ConnectWebSocket, Goto
  <1>2. ASSUME NEW c \in Calls, Dial(c)
        PROVE  NoLeakedConnection'
    <2>1. ASSUME NEW s \in Sessions, conn'[s] = "open"
          PROVE  Held(s)'
      <3>1. CASE s = dialled + 1
        BY <1>2, <3>1 DEF Dial, Goto, Held
      <3>2. CASE s # dialled + 1
        BY <1>2, <2>1, <3>2 DEF Dial, Goto, Held
      <3> QED
        BY <3>1, <3>2
    <2> QED
      BY <2>1
  <1>3. ASSUME NEW c \in Calls, DialFails(c)
        PROVE  NoLeakedConnection'
    BY <1>3 DEF DialFails, Goto
  <1>4. ASSUME NEW c \in Calls, Register(c)
        PROVE  NoLeakedConnection'
    <2>1. ASSUME NEW s \in Sessions, conn'[s] = "open"
          PROVE  Held(s)'
      <3>1. Held(s)
        BY <1>4, <2>1 DEF Register
      <3>2. CASE registered = s
        BY <1>4, <3>2 DEF Register, Goto, Held
      <3>3. CASE registered # s
        <4>1. PICK d \in Calls : Holds(d, s)
          BY <3>1, <3>3 DEF Held
        <4>2. CASE d = c
          BY <1>4, <4>1, <4>2 DEF Register, Goto, Held, Holds
        <4>3. CASE d # c
          BY <1>4, <4>1, <4>3 DEF Register, Goto, Held, Holds
        <4> QED
          BY <4>2, <4>3
      <3> QED
        BY <3>2, <3>3
    <2> QED
      BY <2>1
  <1>5. ASSUME NEW c \in Calls, ClosePrevious(c)
        PROVE  NoLeakedConnection'
    BY <1>5, <1>a DEF ClosePreviousEffect, Touch, Typed
  <1>6. ASSUME NEW c \in Calls, LookUp(c)
        PROVE  NoLeakedConnection'
    BY <1>6 DEF LookUp, Goto
  <1>7. ASSUME NEW c \in Calls, Begin(c)
        PROVE  NoLeakedConnection'
    BY <1>7 DEF Begin, Goto, AppendEvent
  <1>8. ASSUME NEW c \in Calls, FindClosed(c)
        PROVE  NoLeakedConnection'
    BY <1>8 DEF FindClosed, Goto
  <1>9. ASSUME NEW c \in Calls, Exchange(c)
        PROVE  NoLeakedConnection'
    BY <1>9 DEF Exchange, Goto, AppendEvent
  <1>10. ASSUME NEW c \in Calls, ExchangeFails(c)
        PROVE  NoLeakedConnection'
    BY <1>10 DEF ExchangeFails, Goto
  <1>11. ASSUME NEW c \in Calls, Drop(c)
        PROVE  NoLeakedConnection'
    <2>1. ASSUME NEW s \in Sessions, conn'[s] = "open"
          PROVE  Held(s)'
      <3>1. Held(s) /\ ~closed[s]
        BY <1>11, <2>1 DEF Drop
      <3>2. s # sess[c]
        BY <1>11, <3>1 DEF Drop
      <3>3. CASE registered = s
        BY <1>11, <3>2, <3>3 DEF Drop
      <3>4. CASE registered # s
        <4>1. PICK d \in Calls : Holds(d, s)
          BY <3>1, <3>4
        <4>2. d # c
          BY <1>11, <4>1 DEF Drop
        <4> QED
          BY <1>11, <4>1, <4>2 DEF Drop, Goto
      <3> QED
        BY <3>3, <3>4
    <2> QED
      BY <2>1
  <1>12. ASSUME NEW c \in Calls, Pop(c)
        PROVE  NoLeakedConnection'
    BY <1>12 DEF Pop, Goto
  <1>13. ASSUME NEW c \in Calls, Disconnect(c)
        PROVE  NoLeakedConnection'
    BY <1>13, <1>b DEF DisconnectEffect, Touch, Typed
  <1>14. ASSUME NEW c \in Calls, Apply(c)
        PROVE  NoLeakedConnection'
    BY <1>14 DEF Apply, Goto
  <1>15. ASSUME NEW s \in Sessions, KeepAliveEnds(s)
        PROVE  NoLeakedConnection'
    BY <1>15 DEF KeepAliveEnds
  <1>16. ASSUME NEW s \in Sessions, Ping(s)
        PROVE  NoLeakedConnection'
    BY <1>16, <1>c DEF PingEffect, Touch, Typed
  <1>17. CASE UNCHANGED vars
    BY <1>17 DEF vars
  <1> QED
    BY <1>1, <1>2, <1>3, <1>4, <1>5, <1>6, <1>7, <1>8, <1>9, <1>10,
       <1>11, <1>12, <1>13, <1>14, <1>15, <1>16, <1>17
    DEF Next

Final ==
    \A s \in Sessions :
        closed[s] => /\ closed'[s]
                     /\ logged'[s] = logged[s]
                     /\ holder'[s] = None

(* Every step leaves a closed session as it is. *)
LEMMA FinalStep ==
    ASSUME TypeOK, TypeOK', Bookkeeping, [Next]_vars
    PROVE  Final
  <1>a. ASSUME NEW c \in Calls, ClosePrevious(c)
        PROVE  ClosePreviousEffect(c)
    BY <1>a, ClosePreviousMoves
  <1>b. ASSUME NEW c \in Calls, Disconnect(c)
        PROVE  DisconnectEffect(c)
    BY <1>b, DisconnectMoves
  <1>c. ASSUME NEW s \in Sessions, Ping(s)
        PROVE  PingEffect(s)
    BY <1>c, PingMoves
  <1> USE Numbers DEF TypeOK, Bookkeeping, HasSession, HolderExchanges,
          Final, sessionVars, callVars
  <1>1. ASSUME NEW c \in Calls, ConnectWebSocket(c)
        PROVE  Final
    BY <1>1 DEF ConnectWebSocket, Goto
  <1>2. ASSUME NEW c \in Calls, Dial(c)
        PROVE  Final
    BY <1>2 DEF Dial, Goto
  <1>3. ASSUME NEW c \in Calls, DialFails(c)
        PROVE  Final
    BY <1>3 DEF DialFails, Goto
  <1>4. ASSUME NEW c \in Calls, Register(c)
        PROVE  Final
    BY <1>4 DEF Register, Goto
  <1>5. ASSUME NEW c \in Calls, ClosePrevious(c)
        PROVE  Final
    BY <1>5, <1>a DEF ClosePreviousEffect, Touch, Typed
  <1>6. ASSUME NEW c \in Calls, LookUp(c)
        PROVE  Final
    BY <1>6 DEF LookUp, Goto
  <1>7. ASSUME NEW c \in Calls, Begin(c)
        PROVE  Final
    BY <1>7 DEF Begin, Goto, AppendEvent
  <1>8. ASSUME NEW c \in Calls, FindClosed(c)
        PROVE  Final
    BY <1>8 DEF FindClosed, Goto
  <1>9. ASSUME NEW c \in Calls, Exchange(c)
        PROVE  Final
    BY <1>9 DEF Exchange, Goto, AppendEvent
  <1>10. ASSUME NEW c \in Calls, ExchangeFails(c)
        PROVE  Final
    BY <1>10 DEF ExchangeFails, Goto
  <1>11. ASSUME NEW c \in Calls, Drop(c)
        PROVE  Final
    BY <1>11 DEF Drop, Goto
  <1>12. ASSUME NEW c \in Calls, Pop(c)
        PROVE  Final
    BY <1>12 DEF Pop, Goto
  <1>13. ASSUME NEW c \in Calls, Disconnect(c)
        PROVE  Final
    BY <1>13, <1>b DEF DisconnectEffect, Touch, Typed
  <1>14. ASSUME NEW c \in Calls, Apply(c)
        PROVE  Final
    BY <1>14 DEF Apply, Goto
  <1>15. ASSUME NEW s \in Sessions, KeepAliveEnds(s)
        PROVE  Final
    BY <1>15 DEF KeepAliveEnds
  <1>16. ASSUME NEW s \in Sessions, Ping(s)
        PROVE  Final
    BY <1>16, <1>c DEF PingEffect, Touch, Typed
  <1>17. CASE UNCHANGED vars
    BY <1>17 DEF vars
  <1> QED
    BY <1>1, <1>2, <1>3, <1>4, <1>5, <1>6, <1>7, <1>8, <1>9, <1>10,
       <1>11, <1>12, <1>13, <1>14, <1>15, <1>16, <1>17
    DEF Next

-----------------------------------------------------------------------------
LEMMA InitIInv ==
    Init => IInv
  BY LiveAssumption
  DEF Init, IInv, TypeOK, Bookkeeping, OnlyDialled, HasSession,
      ClosedWithItsSocket, HolderExchanges, DropsClosed, NoLeakedConnection,
      Sessions, Places, Responses, NoResponse, None

LEMMA NextIInv ==
    IInv /\ [Next]_vars => IInv'
  BY TypeStep, DialledStep, HasSessionStep, SocketStep, HolderStep, DropsStep,
     NoLeakStep
  DEF IInv, Bookkeeping

THEOREM Invariance ==
    Spec => []IInv
  BY InitIInv, NextIInv, PTL DEF Spec

(* Every variable keeps its type.                                          *)
THEOREM TypeCorrect ==
    Spec => []TypeOK
  <1>1. IInv => TypeOK
    BY DEF IInv
  <1> QED
    BY Invariance, <1>1, PTL

(* No open socket is without a session that is registered or in the hands  *)
(* of a call that registers or closes it.                                  *)
THEOREM NoConnectionLeaks ==
    Spec => []NoLeakedConnection
  <1>1. IInv => NoLeakedConnection
    BY DEF IInv
  <1> QED
    BY Invariance, <1>1, PTL

(* A closed session is never sent on, recorded in or reopened.             *)
THEOREM ClosedStaysClosed ==
    Spec => ClosedIsFinal
  <1>1. IInv /\ IInv' /\ [Next]_vars => [Final]_vars
    BY FinalStep DEF IInv
  <1> QED
    BY Invariance, <1>1, PTL DEF Spec, ClosedIsFinal, Final
=============================================================================
