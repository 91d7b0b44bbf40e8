-------------------------- MODULE WebSocketHook --------------------------
(***************************************************************************)
(* The React hook useWebSocket, frontend/src/hooks/useWebSocket.ts, as its *)
(* callers use it: every caller passes callbacks written inline, so        *)
(* `connect` is a new function in every render, and the effect that        *)
(* depends on it tears the socket down and opens another one each time the *)
(* component renders.                                                      *)
(*                                                                         *)
(* The module gives the hook's state and what its functions and socket     *)
(* handlers do to it; the component that calls the hook decides when it    *)
(* renders (NotificationFeed).  The hook's reconnect() is left out: that   *)
(* component does not use it.                                              *)
(***************************************************************************)
EXTENDS Integers

CONSTANTS
  Socket,                \* WebSocket objects; bound: how many of them can be
                         \* connecting, open or closing at a time
  None,                  \* null
  Callbacks,             \* what the callbacks of a render can have captured
  NoCallbacks,
  MaxReconnectAttempts

ASSUME HookConstants ==
  /\ None \notin Socket
  /\ NoCallbacks \in Callbacks
  /\ MaxReconnectAttempts \in Nat \ {0}

VARIABLES
  mounted,
  wsRef,              \* wsRef.current
  readyState,         \* of each object; NONE: not made, or closed and told so
  onMessage,          \* the callbacks the handlers of each live object captured
  shouldReconnect,    \* shouldReconnectRef.current
  reconnectTimeout,   \* the timer of reconnectTimeoutRef is pending
  conn                \* the hook's useState values

hookVars == <<mounted, wsRef, readyState, onMessage, shouldReconnect,
              reconnectTimeout, conn>>

Conn == [isConnected : BOOLEAN, isConnecting : BOOLEAN,
         connectionAttempts : 0 .. MaxReconnectAttempts]

NewConn == [isConnected |-> FALSE, isConnecting |-> FALSE, connectionAttempts |-> 0]

Living == {"CONNECTING", "OPEN"}
Live(s) == readyState[s] \in Living

\* An object that is not open hands out no message.
Heard(rs) == [s \in Socket |-> IF rs[s] \in Living THEN onMessage[s] ELSE NoCallbacks]

---------------------------------------------------------------------------
\* disconnect().  Fault: the socket is let go without closing it.
DisconnectedOnly(rs) == rs

Disconnected(rs) ==
  [s \in Socket |-> IF s = wsRef /\ Live(s) THEN "CLOSING" ELSE rs[s]]

\* connect(), wsRef not being open, from the component state c.  The url is a
\* constant of the build, so the constructor either accepts it always, as here,
\* or throws in every call: the hook then never has a socket, nor a handler
\* that would change anything.
Connect(rs, c, callbacks) ==
  \E s \in Socket :
    /\ rs[s] = "NONE"
    /\ readyState' = [rs EXCEPT ![s] = "CONNECTING"]
    /\ wsRef' = s
    /\ onMessage' = [Heard(rs) EXCEPT ![s] = callbacks]
    /\ conn' = [c EXCEPT !.isConnecting = TRUE]

\* The effect [connect, disconnect] of a component that has just mounted.
HookMounts(callbacks) ==
  /\ mounted' = TRUE
  /\ Connect(readyState, NewConn, callbacks)
  /\ shouldReconnect' = TRUE
  /\ reconnectTimeout' = FALSE

\* The same effect after a later render: its clean-up, then connect().
HookRenders(callbacks) ==
  /\ shouldReconnect' = FALSE
  /\ reconnectTimeout' = FALSE
  /\ Connect(Disconnected(readyState), conn, callbacks)
  /\ UNCHANGED mounted

HookUnmounts ==
  /\ mounted' = FALSE
  /\ shouldReconnect' = FALSE
  /\ reconnectTimeout' = FALSE
  /\ readyState' = Disconnected(readyState)
  /\ wsRef' = None
  /\ onMessage' = Heard(readyState')
  /\ conn' = NewConn

---------------------------------------------------------------------------
\* ws.onopen
Opened(s) ==
  /\ readyState[s] = "CONNECTING"
  /\ readyState' = [readyState EXCEPT ![s] = "OPEN"]
  /\ conn' = [isConnected |-> TRUE, isConnecting |-> FALSE, connectionAttempts |-> 0]
  /\ UNCHANGED <<mounted, wsRef, onMessage, shouldReconnect, reconnectTimeout>>

\* ws.onclose of any object, one that was replaced included, and the
\* ws.onerror that precedes it when the connection failed.  While
\* shouldReconnect holds the component has rendered once, and the handler
\* has captured connectionAttempts = 0.  A setter of an unmounted component
\* does nothing.
Closed(s) ==
  /\ readyState[s] # "NONE"
  /\ readyState' = [readyState EXCEPT ![s] = "NONE"]
  /\ onMessage' = Heard(readyState')
  /\ reconnectTimeout' = (shouldReconnect \/ reconnectTimeout)
  /\ conn' = IF mounted
             THEN [isConnected |-> FALSE, isConnecting |-> FALSE,
                   connectionAttempts |->
                     conn.connectionAttempts + (IF shouldReconnect THEN 1 ELSE 0)]
             ELSE conn
  /\ UNCHANGED <<mounted, wsRef, shouldReconnect>>

\* The reconnect timer calls the connect() that set it.
\* Bound: MaxReconnectAttempts, of the retries before the next render.
RetryFires(callbacks) ==
  /\ reconnectTimeout
  /\ conn.connectionAttempts < MaxReconnectAttempts
  /\ reconnectTimeout' = FALSE
  /\ Connect(readyState, conn, callbacks)
  /\ UNCHANGED <<mounted, shouldReconnect>>

---------------------------------------------------------------------------
(* Properties *)

\* At most one connection is being made or open, it is the one the next
\* clean-up closes, and none is left when the component is gone: the socket
\* is replaced in every render (useWebSocket.ts:151), and its close event
\* comes when another one has already taken its place.
OneLiveSocket == \A s \in Socket : Live(s) => mounted /\ s = wsRef
=============================================================================
