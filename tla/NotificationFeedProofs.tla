----------------------- MODULE NotificationFeedProofs -----------------------
(***************************************************************************)
(* Proofs about the notifications: what the hook keeps true of its sockets *)
(* and handlers however the component renders, what the list, its copy in  *)
(* localStorage and the rendered list have to do with each other, and from *)
(* these the three safety properties.                                      *)
(***************************************************************************)
EXTENDS NotificationFeed, FiniteSetTheorems, TLAPS

HookTypeOK ==
  /\ mounted \in BOOLEAN
  /\ wsRef \in Socket \cup {None}
  /\ readyState \in [Socket -> {"NONE", "CONNECTING", "OPEN", "CLOSING"}]
  /\ onMessage \in [Socket -> Callbacks]
  /\ shouldReconnect \in BOOLEAN /\ reconnectTimeout \in BOOLEAN
  /\ conn \in Conn

\* Until the first clean-up there is one socket at most, and one retry at a
\* time; after it there is no retry.
HookInv ==
  /\ OneLiveSocket
  /\ shouldReconnect => mounted /\ \A s \in Socket : readyState[s] # "NONE" =>
       s = wsRef /\ conn.connectionAttempts < MaxReconnectAttempts
  /\ reconnectTimeout => shouldReconnect /\ \A s \in Socket : readyState[s] = "NONE"

\* A live socket hands its messages to the callbacks of the last render.
HandlersAre(callbacks) == \A s \in Socket : Live(s) => onMessage[s] = callbacks

FeedTypeOK ==
  /\ state \in State
  /\ view \in [state : State, conn : Conn]
  /\ dirty \in BOOLEAN
  /\ stored \in Stored
  /\ lastId \in 0 .. MaxId /\ rendered \in 0 .. lastId
  /\ trimTimer \in {"no", "set", "due"}
  /\ cut \in {"no", "since", "missed"}

\* What the setters and localStorage hold was on the screen or is new.
ListsInv ==
  /\ \A id \in state.notifications \cup stored.notifications :
       id \in view.state.notifications \/ id > rendered
  /\ state.notifications \cup stored.notifications \cup view.state.notifications
       \subseteq 1 .. lastId

IInv ==
  /\ HookTypeOK /\ FeedTypeOK
  /\ HookInv
  /\ HandlersAre(Closure(view.state))
  /\ ListsInv

---------------------------------------------------------------------------
(* The hook *)

ReadyStates == [Socket -> {"NONE", "CONNECTING", "OPEN", "CLOSING"}]

LEMMA ClosureType == \A st \in State : Closure(st) \in Callbacks
  BY FeedConstants DEF Closure, State

LEMMA HeardFacts ==
  ASSUME HookTypeOK, NEW rs \in ReadyStates
  PROVE  /\ Heard(rs) \in [Socket -> Callbacks]
         /\ \A s \in Socket : rs[s] \in Living => Heard(rs)[s] = onMessage[s]
  BY HookConstants DEF HookTypeOK, Heard

LEMMA DisconnectedFacts ==
  ASSUME HookTypeOK, OneLiveSocket
  PROVE  /\ Disconnected(readyState) \in ReadyStates
         /\ \A s \in Socket : Disconnected(readyState)[s] \notin Living
  BY DEF HookTypeOK, OneLiveSocket, Disconnected, ReadyStates, Live, Living

\* The new socket is the only live one, and keeps the callbacks it was given.
LEMMA ConnectFacts ==
  ASSUME HookTypeOK, NEW rs \in ReadyStates, NEW c \in Conn, NEW callbacks \in Callbacks,
         \A s \in Socket : rs[s] \notin Living,
         Connect(rs, c, callbacks)
  PROVE  /\ wsRef' \in Socket
         /\ readyState' \in ReadyStates
         /\ onMessage' \in [Socket -> Callbacks]
         /\ conn' \in Conn
         /\ conn'.connectionAttempts = c.connectionAttempts
         /\ \A s \in Socket : s # wsRef' => readyState'[s] = rs[s]
         /\ HandlersAre(callbacks)'
         /\ \A s \in Socket : Live(s)' => s = wsRef'
  <1>1. PICK s \in Socket :
          /\ readyState' = [rs EXCEPT ![s] = "CONNECTING"]
          /\ wsRef' = s
          /\ onMessage' = [Heard(rs) EXCEPT ![s] = callbacks]
          /\ conn' = [c EXCEPT !.isConnecting = TRUE]
    BY DEF Connect
  <1>2. Heard(rs) \in [Socket -> Callbacks]
    BY HeardFacts
  <1>3. conn' \in Conn /\ conn'.connectionAttempts = c.connectionAttempts
    BY <1>1 DEF Conn
  <1>4. readyState' \in ReadyStates /\ \A t \in Socket : t # s => readyState'[t] = rs[t]
    BY <1>1 DEF ReadyStates
  <1>5. onMessage' \in [Socket -> Callbacks] /\ onMessage'[s] = callbacks
    BY <1>1, <1>2
  <1>6. \A t \in Socket : Live(t)' => t = s
    BY <1>4 DEF Live
  <1>7. QED BY <1>1, <1>3, <1>4, <1>5, <1>6 DEF HandlersAre

LEMMA MountsFacts ==
  ASSUME HookTypeOK, \A s \in Socket : readyState[s] = "NONE",
         NEW callbacks \in Callbacks, HookMounts(callbacks)
  PROVE  HookTypeOK' /\ HookInv' /\ HandlersAre(callbacks)'
  <1>1. NewConn \in Conn /\ NewConn.connectionAttempts = 0
    BY HookConstants DEF NewConn, Conn
  <1>2. Connect(readyState, NewConn, callbacks) /\ mounted' = TRUE
        /\ shouldReconnect' = TRUE /\ reconnectTimeout' = FALSE
    BY DEF HookMounts
  <1>3. readyState \in ReadyStates /\ \A s \in Socket : readyState[s] \notin Living
    BY DEF HookTypeOK, ReadyStates, Living
  <1>4. /\ wsRef' \in Socket
        /\ readyState' \in ReadyStates
        /\ onMessage' \in [Socket -> Callbacks]
        /\ conn' \in Conn
        /\ conn'.connectionAttempts = 0
        /\ \A s \in Socket : s # wsRef' => readyState'[s] = "NONE"
        /\ HandlersAre(callbacks)'
        /\ \A s \in Socket : Live(s)' => s = wsRef'
    BY <1>1, <1>2, <1>3, ConnectFacts
  <1>5. HookTypeOK'
    BY <1>2, <1>4 DEF HookTypeOK, ReadyStates
  <1>6. HookInv'
    BY <1>2, <1>4, HookConstants DEF HookInv, OneLiveSocket
  <1>7. QED BY <1>4, <1>5, <1>6

LEMMA RendersFacts ==
  ASSUME HookTypeOK, HookInv, mounted, NEW callbacks \in Callbacks, HookRenders(callbacks)
  PROVE  HookTypeOK' /\ HookInv' /\ HandlersAre(callbacks)'
  <1>1. /\ Connect(Disconnected(readyState), conn, callbacks)
        /\ mounted' = mounted /\ shouldReconnect' = FALSE /\ reconnectTimeout' = FALSE
    BY DEF HookRenders
  <1>2. /\ Disconnected(readyState) \in ReadyStates
        /\ \A s \in Socket : Disconnected(readyState)[s] \notin Living
    BY DisconnectedFacts DEF HookInv
  <1>3. conn \in Conn
    BY DEF HookTypeOK
  <1>4. /\ wsRef' \in Socket
        /\ readyState' \in ReadyStates
        /\ onMessage' \in [Socket -> Callbacks]
        /\ conn' \in Conn
        /\ HandlersAre(callbacks)'
        /\ \A s \in Socket : Live(s)' => s = wsRef'
    BY <1>1, <1>2, <1>3, ConnectFacts
  <1>5. HookTypeOK'
    BY <1>1, <1>4 DEF HookTypeOK, ReadyStates
  <1>6. HookInv'
    BY <1>1, <1>4 DEF HookInv, OneLiveSocket
  <1>7. QED BY <1>4, <1>5, <1>6

LEMMA UnmountsFacts ==
  ASSUME HookTypeOK, HookInv, HookUnmounts, NEW callbacks
  PROVE  HookTypeOK' /\ HookInv' /\ HandlersAre(callbacks)'
  <1>1. /\ readyState' = Disconnected(readyState) /\ onMessage' = Heard(readyState')
        /\ mounted' = FALSE /\ shouldReconnect' = FALSE /\ reconnectTimeout' = FALSE
        /\ wsRef' = None /\ conn' = NewConn
    BY DEF HookUnmounts
  <1>2. readyState' \in ReadyStates /\ \A s \in Socket : readyState'[s] \notin Living
    BY <1>1, DisconnectedFacts DEF HookInv
  <1>3. onMessage' \in [Socket -> Callbacks]
    BY <1>1, <1>2, HeardFacts
  <1>4. NewConn \in Conn
    BY HookConstants DEF NewConn, Conn
  <1>5. QED BY <1>1, <1>2, <1>3, <1>4
             DEF HookTypeOK, HookInv, OneLiveSocket, HandlersAre, Live, ReadyStates

LEMMA OpenedFacts ==
  ASSUME HookTypeOK, HookInv, NEW callbacks, HandlersAre(callbacks),
         NEW s \in Socket, Opened(s)
  PROVE  HookTypeOK' /\ HookInv' /\ HandlersAre(callbacks)'
  <1>1. /\ readyState[s] = "CONNECTING"
        /\ readyState' = [readyState EXCEPT ![s] = "OPEN"]
        /\ conn' = [isConnected |-> TRUE, isConnecting |-> FALSE, connectionAttempts |-> 0]
        /\ UNCHANGED <<mounted, wsRef, onMessage, shouldReconnect, reconnectTimeout>>
    BY DEF Opened
  <1>2. conn' \in Conn /\ conn'.connectionAttempts = 0
    BY <1>1, HookConstants DEF Conn
  <1>3. readyState' \in ReadyStates /\ \A t \in Socket : t # s => readyState'[t] = readyState[t]
    BY <1>1 DEF HookTypeOK, ReadyStates
  <1>4. Live(s)
    BY <1>1 DEF Live, Living
  <1>5. \A t \in Socket : Live(t)' => Live(t)
    BY <1>3, <1>4 DEF Live
  <1>6. HookTypeOK'
    BY <1>1, <1>2, <1>3 DEF HookTypeOK, ReadyStates
  <1>7. HookInv'
    <2>1. OneLiveSocket'
      BY <1>1, <1>5 DEF HookInv, OneLiveSocket
    <2>2. shouldReconnect => \A t \in Socket : readyState'[t] # "NONE" => t = wsRef
      BY <1>1, <1>3 DEF HookInv
    <2>3. ~reconnectTimeout
      BY <1>1 DEF HookInv
    <2>4. QED BY <1>1, <1>2, <2>1, <2>2, <2>3, HookConstants DEF HookInv
  <1>8. QED BY <1>1, <1>5, <1>6, <1>7 DEF HandlersAre

LEMMA ClosedFacts ==
  ASSUME HookTypeOK, HookInv, NEW callbacks, HandlersAre(callbacks),
         NEW s \in Socket, Closed(s)
  PROVE  HookTypeOK' /\ HookInv' /\ HandlersAre(callbacks)'
  <1>1. /\ readyState[s] # "NONE"
        /\ readyState' = [readyState EXCEPT ![s] = "NONE"]
        /\ onMessage' = Heard(readyState')
        /\ reconnectTimeout' = (shouldReconnect \/ reconnectTimeout)
        /\ UNCHANGED <<mounted, wsRef, shouldReconnect>>
    BY DEF Closed
  <1>2. readyState' \in ReadyStates /\ \A t \in Socket : t # s => readyState'[t] = readyState[t]
    BY <1>1 DEF HookTypeOK, ReadyStates
  <1>3. \A t \in Socket : Live(t)' => Live(t) /\ onMessage'[t] = onMessage[t]
    <2>1. \A t \in Socket : Live(t)' => t # s
      BY <1>1 DEF Live, Living, HookTypeOK
    <2>2. QED BY <1>1, <1>2, <2>1, HeardFacts DEF Live
  <1>4. onMessage' \in [Socket -> Callbacks]
    BY <1>1, <1>2, HeardFacts
  <1>5. conn' \in Conn
    <2>1. CASE mounted
      <3>1. PICK attempts : attempts = conn.connectionAttempts + (IF shouldReconnect THEN 1 ELSE 0)
        OBVIOUS
      <3>2. attempts \in 0 .. MaxReconnectAttempts
        <4>1. conn.connectionAttempts \in 0 .. MaxReconnectAttempts
          BY DEF HookTypeOK, Conn
        <4>2. shouldReconnect => conn.connectionAttempts < MaxReconnectAttempts
          BY <1>1 DEF HookInv
        <4>3. QED BY <3>1, <4>1, <4>2, HookConstants
      <3>3. conn' = [isConnected |-> FALSE, isConnecting |-> FALSE, connectionAttempts |-> attempts]
        BY <2>1, <3>1 DEF Closed
      <3>4. QED BY <3>2, <3>3 DEF Conn
    <2>2. CASE ~mounted
      BY <2>2 DEF Closed, HookTypeOK
    <2>3. QED BY <2>1, <2>2
  <1>6. HookTypeOK'
    BY <1>1, <1>2, <1>4, <1>5 DEF HookTypeOK, ReadyStates
  <1>7. HookInv'
    <2>1. OneLiveSocket'
      BY <1>1, <1>3 DEF HookInv, OneLiveSocket
    <2>2. ~reconnectTimeout
      BY <1>1 DEF HookInv
    <2>3. shouldReconnect => mounted /\ \A t \in Socket : readyState'[t] = "NONE"
      BY <1>1, <1>2 DEF HookInv, HookTypeOK
    <2>4. QED BY <1>1, <2>1, <2>2, <2>3 DEF HookInv
  <1>8. QED BY <1>3, <1>6, <1>7 DEF HandlersAre

LEMMA RetryFacts ==
  ASSUME HookTypeOK, HookInv, NEW callbacks \in Callbacks, RetryFires(callbacks)
  PROVE  HookTypeOK' /\ HookInv' /\ HandlersAre(callbacks)'
  <1>1. /\ Connect(readyState, conn, callbacks)
        /\ conn.connectionAttempts < MaxReconnectAttempts
        /\ reconnectTimeout' = FALSE
        /\ UNCHANGED <<mounted, shouldReconnect>>
    BY DEF RetryFires
  <1>2. shouldReconnect /\ mounted /\ \A s \in Socket : readyState[s] = "NONE"
    BY DEF RetryFires, HookInv
  <1>3. /\ readyState \in ReadyStates /\ conn \in Conn
        /\ \A s \in Socket : readyState[s] \notin Living
    BY <1>2 DEF HookTypeOK, ReadyStates, Living
  <1>4. /\ wsRef' \in Socket
        /\ readyState' \in ReadyStates
        /\ onMessage' \in [Socket -> Callbacks]
        /\ conn' \in Conn
        /\ conn'.connectionAttempts = conn.connectionAttempts
        /\ \A s \in Socket : s # wsRef' => readyState'[s] = readyState[s]
        /\ HandlersAre(callbacks)'
        /\ \A s \in Socket : Live(s)' => s = wsRef'
    BY <1>1, <1>3, ConnectFacts
  <1>5. HookTypeOK'
    BY <1>1, <1>4 DEF HookTypeOK, ReadyStates
  <1>6. HookInv'
    BY <1>1, <1>2, <1>4 DEF HookInv, OneLiveSocket
  <1>7. QED BY <1>4, <1>5, <1>6

LEMMA HookStays ==
  ASSUME HookTypeOK, HookInv, NEW callbacks, HandlersAre(callbacks), UNCHANGED hookVars
  PROVE  HookTypeOK' /\ HookInv' /\ HandlersAre(callbacks)'
  BY DEF hookVars, HookTypeOK, HookInv, OneLiveSocket, HandlersAre, Live

---------------------------------------------------------------------------
(* The list *)

\* A set of ids that is not empty has a last one: by the well-foundedness of
\* the strict subset order, on the sets of the ids that come after one.
LEMMA HasLast ==
  ASSUME NEW n \in Nat, NEW ids \in SUBSET (1 .. n), ids # {}
  PROVE  \E i \in ids : \A j \in ids : j <= i
  <1> DEFINE above(i) == {j \in ids : j > i}
             tails == {above(i) : i \in ids}
  <1>1. IsFiniteSet(ids)
    <2>1. IsFiniteSet(1 .. n)
      BY FS_Interval
    <2>2. ids \subseteq 1 .. n
      OBVIOUS
    <2>3. QED BY <2>1, <2>2, FS_Subset, Zenon
  <1>2. \A i \in ids : i \in Int
    OBVIOUS
  <1>3. tails \subseteq FiniteSubsetsOf(ids) /\ tails # {}
    <2>1. FiniteSubsetsOf(ids) = SUBSET ids
      BY <1>1, FS_FiniteSubsetsOfFinite
    <2>2. \A i \in ids : above(i) \in SUBSET ids
      OBVIOUS
    <2>3. tails \subseteq SUBSET ids
      <3> HIDE DEF above
      <3> QED BY <2>2
    <2>4. tails # {}
      <3> HIDE DEF above
      <3> QED OBVIOUS
    <2>5. QED BY <2>1, <2>3, <2>4
  <1>4. PICK t \in tails : \A u \in tails : <<u, t>> \notin StrictSubsetOrdering(ids)
    <2> HIDE DEF tails
    <2> QED BY <1>3, FS_StrictSubsetOrderingWellFounded, WFMin
  <1>5. PICK i \in ids : t = above(i)
    OBVIOUS
  <1>6. ASSUME NEW j \in ids, j > i PROVE FALSE
    <2>1. \A k \in above(j) : k \in above(i)
      BY <1>2, <1>6
    <2>2. j \in above(i) /\ j \notin above(j)
      BY <1>2, <1>6
    <2>3. above(j) \in SUBSET ids /\ above(i) \in SUBSET ids
      OBVIOUS
    <2>4. <<above(j), above(i)>> \in StrictSubsetOrdering(ids)
      <3> HIDE DEF above
      <3> QED BY <2>1, <2>2, <2>3 DEF StrictSubsetOrdering
    <2>5. above(j) \in tails
      OBVIOUS
    <2>6. QED BY <1>4, <1>5, <2>4, <2>5
  <1>7. QED BY <1>2, <1>6

LEMMA ShownFacts ==
  ASSUME FeedTypeOK, NEW ids \in SUBSET (1 .. lastId)
  PROVE  ShownUpTo(ids) \in 0 .. lastId
  <1>1. lastId \in Nat /\ rendered \in 0 .. lastId
    BY FeedConstants DEF FeedTypeOK
  <1>2. CASE Later(ids) = {}
    BY <1>1, <1>2 DEF ShownUpTo
  <1>3. CASE Later(ids) # {}
    <2>1. ids # {}
      BY <1>3 DEF Later
    <2>2. \E i \in ids : \A j \in ids : j <= i
      <3>1. PICK n \in Nat : n = lastId
        BY <1>1
      <3>2. PICK S : S = ids
        OBVIOUS
      <3>3. S \in SUBSET (1 .. n) /\ S # {}
        BY <2>1, <3>1, <3>2
      <3>4. \E i \in S : \A j \in S : j <= i
        BY <3>3, HasLast
      <3>5. QED BY <3>2, <3>4
    <2>3. ShownUpTo(ids) \in ids
      BY <1>3, <2>2 DEF ShownUpTo
    <2>4. PICK i \in ids : i = ShownUpTo(ids)
      BY <2>3
    <2>5. i \in 0 .. lastId
      BY <1>1
    <2>6. QED BY <2>4, <2>5
  <1>4. QED BY <1>2, <1>3

\* A step that renders nothing: what it adds to the list is new, and what it
\* writes to localStorage is in the list.
LEMMA ListStep ==
  ASSUME FeedTypeOK, ListsInv, UNCHANGED <<view, rendered>>,
         state' \in State, stored' \in Stored, dirty' \in BOOLEAN,
         lastId' \in lastId .. MaxId,
         trimTimer' \in {"no", "set", "due"}, cut' \in {"no", "since", "missed"},
         state'.notifications \subseteq state.notifications \cup (lastId + 1 .. lastId'),
         stored'.notifications \subseteq stored.notifications \cup state'.notifications
  PROVE  FeedTypeOK' /\ ListsInv'
  <1>1. /\ lastId \in Nat /\ lastId' \in Nat /\ lastId <= lastId' /\ lastId' \in 0 .. MaxId
        /\ rendered \in 0 .. lastId
    BY FeedConstants DEF FeedTypeOK
  <1>2. FeedTypeOK'
    BY <1>1 DEF FeedTypeOK
  <1>3. ListsInv'
    BY <1>1 DEF ListsInv
  <1>4. QED BY <1>2, <1>3

\* A setter changes its field of the state and, perhaps, of localStorage.
LEMMA SetFacts ==
  ASSUME FeedTypeOK, NEW ids \in SUBSET Id, Set("notifications", ids)
  PROVE  /\ state' \in State /\ state'.notifications = ids
         /\ stored' \in Stored
         /\ stored'.notifications = stored.notifications \/ stored'.notifications = ids
         /\ dirty' = TRUE
  <1>1. state' = [state EXCEPT !["notifications"] = ids]
    BY DEF Set
  <1>2. state' \in State /\ state'.notifications = ids
    BY <1>1 DEF FeedTypeOK, State
  <1>3. CASE UNCHANGED stored
    BY <1>2, <1>3 DEF Set, FeedTypeOK
  <1>4. CASE stored' = [stored EXCEPT !["notifications"] = ids]
    BY <1>2, <1>4 DEF Set, FeedTypeOK, Stored
  <1>5. QED BY <1>3, <1>4 DEF Set

LEMMA SetPreferencesFacts ==
  ASSUME FeedTypeOK, NEW p \in SUBSET Category, Set("preferences", p)
  PROVE  /\ state' \in State /\ state'.notifications = state.notifications
         /\ stored' \in Stored /\ stored'.notifications = stored.notifications
         /\ dirty' = TRUE
  <1>1. state' = [state EXCEPT !["preferences"] = p]
    BY DEF Set
  <1>2. state' \in State /\ state'.notifications = state.notifications
    BY <1>1 DEF FeedTypeOK, State
  <1>3. CASE UNCHANGED stored
    BY <1>2, <1>3 DEF Set, FeedTypeOK
  <1>4. CASE stored' = [stored EXCEPT !["preferences"] = p]
    BY <1>2, <1>4 DEF Set, FeedTypeOK, Stored
  <1>5. QED BY <1>3, <1>4 DEF Set

---------------------------------------------------------------------------
(* The actions *)

LEMMA InitIInv == Init => IInv
  <1> SUFFICES ASSUME Init PROVE IInv
    OBVIOUS
  <1> USE DEF Init
  <1>1. NewConn \in Conn
    BY HookConstants DEF NewConn, Conn
  <1>2. HookTypeOK
    BY <1>1, HookConstants DEF HookTypeOK
  <1>3. state \in State /\ state.notifications = {}
    BY DEF State
  <1>4. stored \in Stored /\ stored.notifications = {}
    BY DEF Stored
  <1>5. view \in [state : State, conn : Conn] /\ view.state = state
    BY <1>1, <1>3
  <1>6. FeedTypeOK
    <2>1. MaxId \in Nat
      BY FeedConstants
    <2>2. lastId \in 0 .. MaxId /\ rendered \in 0 .. lastId
      BY <2>1
    <2>3. dirty \in BOOLEAN /\ trimTimer \in {"no", "set", "due"} /\ cut \in {"no", "since", "missed"}
      OBVIOUS
    <2> HIDE DEF Init
    <2>4. QED BY <1>3, <1>4, <1>5, <2>2, <2>3, Zenon DEF FeedTypeOK
  <1>7. ListsInv
    BY <1>3, <1>4, <1>5 DEF ListsInv
  <1>8. HookInv /\ HandlersAre(Closure(view.state))
    BY DEF HookInv, OneLiveSocket, HandlersAre, Live, Living
  <1>9. QED BY <1>2, <1>6, <1>7, <1>8 DEF IInv

LEMMA MountIInv == IInv /\ Mount => IInv'
  <1> SUFFICES ASSUME IInv, Mount PROVE IInv'
    OBVIOUS
  <1>1. PICK st : st = [notifications |-> stored.notifications,
                        preferences |-> stored.preferences, isClient |-> FALSE]
    OBVIOUS
  <1>2. st \in State /\ st.notifications = stored.notifications
    BY <1>1 DEF IInv, FeedTypeOK, State, Stored
  <1>3. state' = st /\ view' = [state |-> st, conn |-> NewConn]
    BY <1>1 DEF Mount
  <1>4. view' \in [state : State, conn : Conn] /\ view'.state = st
    BY <1>2, <1>3, HookConstants DEF NewConn, Conn
  <1>5. PICK callbacks : callbacks = Closure(st)
    OBVIOUS
  <1>6. callbacks \in Callbacks
    BY <1>2, <1>5, ClosureType
  <1>7. HookMounts(callbacks) /\ \A s \in Socket : readyState[s] = "NONE"
    BY <1>3, <1>5 DEF Mount
  <1>8. HookTypeOK' /\ HookInv' /\ HandlersAre(callbacks)'
    BY <1>6, <1>7, MountsFacts DEF IInv
  <1>9. HandlersAre(Closure(view.state))'
    BY <1>4, <1>5, <1>8 DEF Closure
  <1>10. rendered' \in 0 .. lastId /\ stored.notifications \subseteq 1 .. lastId
    <2>1. stored.notifications \in SUBSET (1 .. lastId)
      BY DEF IInv, ListsInv
    <2>2. rendered' = ShownUpTo(stored.notifications)
      BY DEF Mount
    <2>3. QED BY <2>1, <2>2, ShownFacts DEF IInv
  <1>11. /\ dirty' = FALSE /\ trimTimer' = "no" /\ cut' = "no"
         /\ UNCHANGED <<stored, lastId>>
    BY DEF Mount
  <1>12. FeedTypeOK'
    BY <1>2, <1>3, <1>4, <1>10, <1>11 DEF IInv, FeedTypeOK
  <1>13. ListsInv'
    BY <1>2, <1>3, <1>4, <1>10, <1>11 DEF ListsInv
  <1>14. QED BY <1>8, <1>9, <1>12, <1>13 DEF IInv

LEMMA UnmountIInv == IInv /\ Unmount => IInv'
  <1> SUFFICES ASSUME IInv, Unmount PROVE IInv'
    OBVIOUS
  <1>1. PICK callbacks : callbacks = Closure(view.state)
    OBVIOUS
  <1>2. HookTypeOK' /\ HookInv' /\ HandlersAre(callbacks)'
    BY UnmountsFacts DEF IInv, Unmount
  <1>3. /\ state' = view.state /\ dirty' = FALSE /\ trimTimer' = "no" /\ cut' = "no"
        /\ UNCHANGED <<view, stored, lastId, rendered>>
    BY DEF Unmount
  <1>4. FeedTypeOK'
    BY <1>3 DEF IInv, FeedTypeOK
  <1>5. ListsInv'
    BY <1>3 DEF IInv, ListsInv
  <1>6. HandlersAre(Closure(view.state))'
    BY <1>1, <1>2, <1>3 DEF Closure
  <1>7. QED BY <1>2, <1>4, <1>5, <1>6 DEF IInv

LEMMA RenderIInv == IInv /\ Render => IInv'
  <1> SUFFICES ASSUME IInv, Render PROVE IInv'
    OBVIOUS
  <1>1. PICK callbacks : callbacks = Closure(state)
    OBVIOUS
  <1>2. callbacks \in Callbacks
    BY <1>1, ClosureType DEF IInv, FeedTypeOK
  <1>3. HookTypeOK' /\ HookInv' /\ HandlersAre(callbacks)'
    BY <1>1, <1>2, RendersFacts DEF IInv, Render
  <1>4. view' = [state |-> state, conn |-> conn]
    BY DEF Render
  <1>5. view' \in [state : State, conn : Conn] /\ view'.state = state
    BY <1>4 DEF IInv, FeedTypeOK, HookTypeOK
  <1>6. HandlersAre(Closure(view.state))'
    BY <1>1, <1>3, <1>5 DEF Closure
  <1>7. stored' \in Stored /\ stored'.notifications = state.notifications
    <2>1. stored' = [notifications |-> state.notifications, preferences |-> state.preferences]
      BY DEF Render, SavedByRender
    <2>2. QED BY <2>1 DEF IInv, FeedTypeOK, State, Stored
  <1>8. rendered' \in 0 .. lastId /\ state.notifications \subseteq 1 .. lastId
    <2>1. state.notifications \in SUBSET (1 .. lastId)
      BY DEF IInv, ListsInv
    <2>2. rendered' = ShownUpTo(state.notifications)
      BY DEF Render
    <2>3. QED BY <2>1, <2>2, ShownFacts DEF IInv
  <1>9. trimTimer' \in {"no", "set", "due"} /\ cut' \in {"no", "since", "missed"}
    <2>1. trimTimer \in {"no", "set", "due"} /\ state.isClient \in BOOLEAN
      BY DEF IInv, FeedTypeOK, State
    <2>2. trimTimer' = TrimArmed /\ cut' = IF cut # "no" /\ SameSize THEN "missed" ELSE "no"
      BY DEF Render
    <2>3. TrimArmed \in {"no", "set", "due"}
      BY <2>1 DEF TrimArmed, TooMany
    <2>4. QED BY <2>2, <2>3
  <1>10. lastId \in 0 .. MaxId
    BY DEF IInv, FeedTypeOK
  <1>11. CASE WarningDue /\ lastId < MaxId
    <2>1. /\ state' = [state EXCEPT !.notifications = @ \cup {lastId + 1}]
          /\ lastId' = lastId + 1
          /\ dirty' = TRUE
      BY <1>11 DEF Render
    <2>2. lastId + 1 \in Id /\ lastId' \in 0 .. MaxId
      BY <1>10, <1>11, <2>1, FeedConstants DEF Id
    <2>3. state' \in State /\ state'.notifications = state.notifications \cup {lastId + 1}
      BY <2>1, <2>2 DEF IInv, FeedTypeOK, State
    <2>4. FeedTypeOK'
      BY <1>5, <1>7, <1>8, <1>9, <1>10, <2>1, <2>2, <2>3, FeedConstants DEF FeedTypeOK
    <2>5. ListsInv'
      BY <1>5, <1>7, <1>8, <1>10, <2>1, <2>3, FeedConstants DEF ListsInv
    <2>6. QED BY <1>3, <1>6, <2>4, <2>5 DEF IInv
  <1>12. CASE ~(WarningDue /\ lastId < MaxId)
    <2>1. UNCHANGED <<state, lastId>> /\ dirty' = FALSE
      BY <1>12 DEF Render
    <2>2. FeedTypeOK'
      BY <1>5, <1>7, <1>8, <1>9, <2>1 DEF IInv, FeedTypeOK
    <2>3. ListsInv'
      BY <1>5, <1>7, <1>8, <2>1 DEF ListsInv
    <2>4. QED BY <1>3, <1>6, <2>2, <2>3 DEF IInv
  <1>13. QED BY <1>11, <1>12

\* A step of the list that leaves the hook and the last render alone.
LEMMA FeedStepIInv ==
  ASSUME IInv, UNCHANGED hookVars, UNCHANGED view, FeedTypeOK', ListsInv'
  PROVE  IInv'
  <1>1. PICK callbacks : callbacks = Closure(view.state)
    OBVIOUS
  <1>2. HookTypeOK' /\ HookInv' /\ HandlersAre(callbacks)'
    BY <1>1, HookStays DEF IInv
  <1>3. HandlersAre(Closure(view.state))'
    BY <1>1, <1>2 DEF Closure
  <1>4. QED BY <1>2, <1>3 DEF IInv

LEMMA SocketIInv == IInv /\ SocketEvent => IInv'
  <1> SUFFICES ASSUME IInv, SocketEvent PROVE IInv'
    OBVIOUS
  <1>1. UNCHANGED feedVars
    BY DEF SocketEvent
  <1>2. PICK callbacks : callbacks = Closure(view.state)
    OBVIOUS
  <1>3. callbacks \in Callbacks
    BY <1>2, ClosureType DEF IInv, FeedTypeOK
  <1>4. HandlersAre(callbacks)
    BY <1>2 DEF IInv
  <1>5. HookTypeOK' /\ HookInv' /\ HandlersAre(callbacks)'
    <2>1. CASE \E s \in Socket : Opened(s)
      BY <1>4, <2>1, OpenedFacts DEF IInv
    <2>2. CASE \E s \in Socket : Closed(s)
      BY <1>4, <2>2, ClosedFacts DEF IInv
    <2>3. CASE RetryFires(Closure(view.state))
      <3>1. RetryFires(callbacks)
        BY <1>2, <2>3
      <3>2. QED BY <1>3, <3>1, RetryFacts DEF IInv
    <2>4. QED BY <2>1, <2>2, <2>3 DEF SocketEvent
  <1>6. HandlersAre(Closure(view.state))'
    BY <1>1, <1>2, <1>5 DEF Closure, feedVars
  <1>7. FeedTypeOK'
    BY <1>1 DEF IInv, FeedTypeOK, feedVars
  <1>8. ListsInv'
    BY <1>1 DEF IInv, ListsInv, feedVars
  <1>9. QED BY <1>5, <1>6, <1>7, <1>8 DEF IInv

LEMMA Bounds ==
  ASSUME FeedTypeOK
  PROVE  /\ MaxId \in Nat /\ lastId \in lastId .. MaxId
         /\ lastId < MaxId => lastId + 1 \in Id /\ lastId + 1 \in lastId .. MaxId
         /\ {lastId + 1} = lastId + 1 .. lastId + 1
  BY FeedConstants DEF FeedTypeOK, Id

\* A setter of the list.
LEMMA SetNotificationsIInv ==
  ASSUME IInv, NEW ids \in SUBSET Id, SetNotifications(ids),
         lastId' \in lastId .. MaxId,
         ids \subseteq state.notifications \cup (lastId + 1 .. lastId')
  PROVE  IInv'
  <1>1. /\ Set("notifications", ids)
        /\ UNCHANGED hookVars
        /\ UNCHANGED <<view, rendered, trimTimer, cut>>
    BY DEF SetNotifications
  <1>2. /\ state' \in State /\ state'.notifications = ids
        /\ stored' \in Stored
        /\ stored'.notifications \subseteq stored.notifications \cup ids
        /\ dirty' = TRUE
    BY <1>1, SetFacts DEF IInv
  <1>3. FeedTypeOK' /\ ListsInv'
    <2>1. FeedTypeOK /\ ListsInv /\ UNCHANGED <<view, rendered>>
      BY <1>1 DEF IInv
    <2>2. trimTimer' \in {"no", "set", "due"} /\ cut' \in {"no", "since", "missed"}
      BY <1>1, <2>1 DEF FeedTypeOK
    <2>3. QED BY <1>2, <2>1, <2>2, ListStep
  <1>4. QED BY <1>1, <1>3, FeedStepIInv

LEMMA PanelIInv ==
  IInv /\ (ShowToast \/ (\E id \in Id : DismissToast(id)) \/ Mark \/ ClearAll) => IInv'
  <1> SUFFICES ASSUME IInv,
                      ShowToast \/ (\E id \in Id : DismissToast(id)) \/ Mark \/ ClearAll
               PROVE  IInv'
    OBVIOUS
  <1>1. state.notifications \in SUBSET Id /\ FeedTypeOK
    BY DEF IInv, FeedTypeOK, State
  <1>2. CASE ShowToast
    <2>1. /\ lastId < MaxId /\ lastId' = lastId + 1
          /\ SetNotifications(state.notifications \cup {lastId + 1})
      BY <1>2 DEF ShowToast
    <2>2. PICK ids : ids = state.notifications \cup {lastId + 1}
      OBVIOUS
    <2>3. ids \in SUBSET Id /\ lastId' \in lastId .. MaxId
          /\ ids \subseteq state.notifications \cup (lastId + 1 .. lastId')
      BY <1>1, <2>1, <2>2, Bounds
    <2>4. SetNotifications(ids)
      BY <2>1, <2>2
    <2>5. QED BY <2>3, <2>4, SetNotificationsIInv
  <1>3. CASE \E id \in Id : DismissToast(id)
    <2>1. PICK id \in Id : SetNotifications(state.notifications \ {id}) /\ lastId' = lastId
      BY <1>3 DEF DismissToast
    <2>2. PICK ids : ids = state.notifications \ {id}
      OBVIOUS
    <2>3. ids \in SUBSET Id /\ ids \subseteq state.notifications /\ SetNotifications(ids)
      BY <1>1, <2>1, <2>2
    <2>4. QED BY <1>1, <2>1, <2>3, Bounds, SetNotificationsIInv
  <1>4. CASE Mark
    <2>1. SetNotifications(state.notifications) /\ lastId' = lastId
      BY <1>4 DEF Mark
    <2>2. PICK ids : ids = state.notifications
      OBVIOUS
    <2>3. ids \in SUBSET Id /\ ids \subseteq state.notifications /\ SetNotifications(ids)
      BY <1>1, <2>1, <2>2
    <2>4. QED BY <1>1, <2>1, <2>3, Bounds, SetNotificationsIInv
  <1>5. CASE ClearAll
    <2>1. SetNotifications({}) /\ lastId' = lastId
      BY <1>5 DEF ClearAll
    <2>2. QED BY <1>1, <2>1, Bounds, SetNotificationsIInv
  <1>6. QED BY <1>2, <1>3, <1>4, <1>5

LEMMA HydratedIInv == IInv /\ Hydrated => IInv'
  <1> SUFFICES ASSUME IInv, Hydrated PROVE IInv'
    OBVIOUS
  <1>1. /\ state' = [state EXCEPT !.isClient = TRUE]
        /\ UNCHANGED hookVars
        /\ UNCHANGED <<view, dirty, stored, lastId, rendered, trimTimer, cut>>
    BY DEF Hydrated
  <1>2. state' \in State /\ state'.notifications = state.notifications
    BY <1>1 DEF IInv, FeedTypeOK, State
  <1>3. FeedTypeOK'
    BY <1>1, <1>2 DEF IInv, FeedTypeOK
  <1>4. ListsInv'
    BY <1>1, <1>2 DEF IInv, ListsInv
  <1>5. QED BY <1>1, <1>3, <1>4, FeedStepIInv

LEMMA MessageIInv == IInv /\ (\E c \in Category : Message(c)) => IInv'
  <1> SUFFICES ASSUME IInv, NEW c \in Category, Message(c) PROVE IInv'
    OBVIOUS
  <1>1. /\ dirty' = TRUE
        /\ UNCHANGED hookVars
        /\ UNCHANGED <<view, stored, rendered, trimTimer, cut>>
    BY DEF Message
  <1>2. FeedTypeOK /\ ListsInv
    BY DEF IInv
  <1>3. /\ stored' \in Stored /\ dirty' \in BOOLEAN
        /\ trimTimer' \in {"no", "set", "due"} /\ cut' \in {"no", "since", "missed"}
        /\ stored'.notifications \subseteq stored.notifications \cup state'.notifications
    BY <1>1, <1>2 DEF FeedTypeOK
  <1>4. /\ state' \in State /\ lastId' \in lastId .. MaxId
        /\ state'.notifications \subseteq state.notifications \cup (lastId + 1 .. lastId')
    <2>1. CASE UNCHANGED <<state, lastId>>
      BY <1>2, <2>1, Bounds DEF FeedTypeOK
    <2>2. CASE /\ lastId < MaxId /\ lastId' = lastId + 1
               /\ state' = [state EXCEPT !.notifications = @ \cup {lastId + 1}]
      <3>1. lastId + 1 \in Id /\ {lastId + 1} = lastId + 1 .. lastId' /\ lastId' \in lastId .. MaxId
        BY <1>2, <2>2, Bounds
      <3>2. state' \in State /\ state'.notifications = state.notifications \cup {lastId + 1}
        BY <1>2, <2>2, <3>1 DEF FeedTypeOK, State
      <3>3. QED BY <3>1, <3>2
    <2>3. QED BY <2>1, <2>2 DEF Message
  <1>5. FeedTypeOK' /\ ListsInv'
    BY <1>1, <1>2, <1>3, <1>4, ListStep
  <1>6. QED BY <1>1, <1>5, FeedStepIInv

LEMMA TrimIInv == IInv /\ TrimFires => IInv'
  <1> SUFFICES ASSUME IInv, TrimFires PROVE IInv'
    OBVIOUS
  <1>1. /\ cut' = "since" /\ trimTimer' = "no"
        /\ UNCHANGED hookVars
        /\ UNCHANGED <<view, lastId, rendered>>
    BY DEF TrimFires
  <1>2. FeedTypeOK /\ ListsInv
    BY DEF IInv
  <1>3. lastId' \in lastId .. MaxId
    BY <1>1, <1>2, Bounds
  <1>4. /\ state' \in State /\ stored' \in Stored /\ dirty' \in BOOLEAN
        /\ state'.notifications \subseteq state.notifications
        /\ stored'.notifications \subseteq stored.notifications \cup state'.notifications
    <2>1. CASE UNCHANGED <<state, stored, dirty>>
      BY <1>2, <2>1 DEF FeedTypeOK
    <2>2. CASE Set("notifications", Newest(state.notifications, Keep))
      <3>1. PICK ids : ids = Newest(state.notifications, Keep)
        OBVIOUS
      <3>2. ids \subseteq state.notifications
        BY <3>1 DEF Newest
      <3>3. ids \in SUBSET Id
        BY <1>2, <3>2 DEF FeedTypeOK, State
      <3>4. Set("notifications", ids)
        BY <2>2, <3>1
      <3>5. QED BY <1>2, <3>2, <3>3, <3>4, SetFacts
    <2>3. QED BY <2>1, <2>2 DEF TrimFires
  <1>5. FeedTypeOK' /\ ListsInv'
    BY <1>1, <1>2, <1>3, <1>4, ListStep
  <1>6. QED BY <1>1, <1>5, FeedStepIInv

LEMMA TrimDueIInv == IInv /\ TrimDue => IInv'
  <1> SUFFICES ASSUME IInv, TrimDue PROVE IInv'
    OBVIOUS
  <1>1. /\ trimTimer' = "due"
        /\ UNCHANGED hookVars
        /\ UNCHANGED <<state, view, dirty, stored, lastId, rendered, cut>>
    BY DEF TrimDue
  <1>2. FeedTypeOK'
    BY <1>1 DEF IInv, FeedTypeOK
  <1>3. ListsInv'
    BY <1>1 DEF IInv, ListsInv
  <1>4. QED BY <1>1, <1>2, <1>3, FeedStepIInv

LEMMA BatchDeleteIInv == IInv /\ BatchDelete => IInv'
  <1> SUFFICES ASSUME IInv, BatchDelete PROVE IInv'
    OBVIOUS
  <1>1. /\ dirty' = TRUE
        /\ UNCHANGED hookVars
        /\ UNCHANGED <<view, lastId, rendered, trimTimer, cut>>
    BY DEF BatchDelete
  <1>2. FeedTypeOK /\ ListsInv
    BY DEF IInv
  <1>3. lastId' \in lastId .. MaxId
    BY <1>1, <1>2, Bounds
  <1>4. PICK ticked :
          /\ state' = [state EXCEPT !.notifications = @ \ ticked]
          /\ \/ UNCHANGED stored
             \/ \E id \in ticked : stored' = [stored EXCEPT !.notifications = @ \ {id}]
    BY DEF BatchDelete
  <1>5. state' \in State /\ state'.notifications \subseteq state.notifications
    BY <1>2, <1>4 DEF FeedTypeOK, State
  <1>6. stored' \in Stored /\ stored'.notifications \subseteq stored.notifications
    BY <1>2, <1>4 DEF FeedTypeOK, Stored
  <1>7. trimTimer' \in {"no", "set", "due"} /\ cut' \in {"no", "since", "missed"} /\ dirty' \in BOOLEAN
    BY <1>1, <1>2 DEF FeedTypeOK
  <1>8. FeedTypeOK' /\ ListsInv'
    BY <1>1, <1>2, <1>3, <1>5, <1>6, <1>7, ListStep
  <1>9. QED BY <1>1, <1>8, FeedStepIInv

LEMMA PreferencesIInv == IInv /\ UpdatePreferences => IInv'
  <1> SUFFICES ASSUME IInv, UpdatePreferences PROVE IInv'
    OBVIOUS
  <1>1. /\ UNCHANGED hookVars
        /\ UNCHANGED <<view, lastId, rendered, trimTimer, cut>>
    BY DEF UpdatePreferences
  <1>2. FeedTypeOK /\ ListsInv
    BY DEF IInv
  <1>3. PICK p \in SUBSET Category : Set("preferences", p)
    BY DEF UpdatePreferences
  <1>4. /\ state' \in State /\ state'.notifications = state.notifications
        /\ stored' \in Stored /\ stored'.notifications = stored.notifications
        /\ dirty' = TRUE
    BY <1>2, <1>3, SetPreferencesFacts
  <1>5. lastId' \in lastId .. MaxId
    BY <1>1, <1>2, Bounds
  <1>6. trimTimer' \in {"no", "set", "due"} /\ cut' \in {"no", "since", "missed"} /\ dirty' \in BOOLEAN
    BY <1>1, <1>2, <1>4 DEF FeedTypeOK
  <1>7. FeedTypeOK' /\ ListsInv'
    BY <1>1, <1>2, <1>4, <1>5, <1>6, ListStep
  <1>8. QED BY <1>1, <1>7, FeedStepIInv

LEMMA NextIInv == IInv /\ [Next]_vars => IInv'
  <1> SUFFICES ASSUME IInv, [Next]_vars PROVE IInv'
    OBVIOUS
  <1>1. CASE UNCHANGED vars
    <2>1. UNCHANGED hookVars /\ UNCHANGED feedVars
      BY <1>1 DEF vars
    <2>2. FeedTypeOK'
      BY <2>1 DEF IInv, FeedTypeOK, feedVars
    <2>3. ListsInv'
      BY <2>1 DEF IInv, ListsInv, feedVars
    <2>4. UNCHANGED view
      BY <2>1 DEF feedVars
    <2>5. QED BY <2>1, <2>2, <2>3, <2>4, FeedStepIInv
  <1>2. CASE Next
    BY <1>2, MountIInv, UnmountIInv, RenderIInv, HydratedIInv, SocketIInv, MessageIInv,
       PanelIInv, TrimDueIInv, TrimIInv, BatchDeleteIInv, PreferencesIInv DEF Next
  <1>3. QED BY <1>1, <1>2

LEMMA IInvariant == Spec => []IInv
  BY InitIInv, NextIInv, PTL DEF Spec

---------------------------------------------------------------------------
(* Theorems *)

\* The hook, the list and its copies keep their types.
THEOREM TypeCorrect == Spec => []TypeOK
  <1>1. IInv => TypeOK
    BY DEF IInv, HookTypeOK, FeedTypeOK, TypeOK
  <1>2. QED BY <1>1, IInvariant, PTL

\* However often the component renders, and whenever the sockets it has let go
\* open, fail or say that they are closed, the live one is the hook's
\* (useWebSocket.ts:151).
THEOREM SocketCorrect == Spec => []OneLiveSocket
  <1>1. IInv => OneLiveSocket
    BY DEF IInv, HookInv
  <1>2. QED BY <1>1, IInvariant, PTL

\* A category that the last render knew to be switched off adds nothing to the
\* list (NotificationContext.tsx:140).
THEOREM MutingCorrect == Spec => MutedStaysSilent
  <1>1. ASSUME IInv, NEW c \in Category \ view.state.preferences, Message(c)
        PROVE  UNCHANGED state
    <2>1. PICK s \in Socket :
            /\ readyState[s] = "OPEN"
            /\ ~Wanted(onMessage[s], c) => UNCHANGED state
      BY <1>1 DEF Message
    <2>2. onMessage[s] = Closure(view.state)
      BY <1>1, <2>1 DEF IInv, HandlersAre, Live, Living
    <2>3. ~Wanted(onMessage[s], c)
      BY <1>1, <2>2 DEF Wanted, Closure
    <2>4. QED BY <2>1, <2>3
  <1>2. IInv /\ [Next]_vars =>
          [\A c \in Category \ view.state.preferences : Message(c) => UNCHANGED state]_vars
    BY <1>1
  <1>3. QED BY <1>2, IInvariant, PTL DEF Spec, MutedStaysSilent

\* What was taken off the screen does not come back, from a setter that waits
\* for its render or from localStorage (useLocalStorage.ts:31).
THEOREM ListCorrect == Spec => NothingComesBack
  <1>1. ASSUME IInv, [Next]_vars, NEW id \in view'.state.notifications
        PROVE  id \in view.state.notifications \/ id > rendered
    <2>1. CASE Mount
      <3>1. view'.state.notifications = stored.notifications
        BY <2>1 DEF Mount
      <3>2. QED BY <1>1, <3>1 DEF IInv, ListsInv
    <2>2. CASE Render
      <3>1. view'.state.notifications = state.notifications
        BY <2>2 DEF Render
      <3>2. QED BY <1>1, <3>1 DEF IInv, ListsInv
    <2>3. CASE UNCHANGED view
      BY <1>1, <2>3
    <2>4. ~Mount /\ ~Render => UNCHANGED view
      BY <1>1 DEF Next, Unmount, Hydrated, SocketEvent, Message, ShowToast, DismissToast,
         TrimDue, TrimFires, Mark, ClearAll, BatchDelete, UpdatePreferences,
         SetNotifications, feedVars, vars
    <2>5. QED BY <2>1, <2>2, <2>3, <2>4
  <1>2. IInv /\ [Next]_vars =>
          [\A id \in view'.state.notifications :
             id \in view.state.notifications \/ id > rendered]_vars
    BY <1>1
  <1>3. QED BY <1>2, IInvariant, PTL DEF Spec, NothingComesBack

---------------------------------------------------------------------------
(* The clean-up of the list *)

\* The list the last render found was too long, and the clean-up effect ran.
TooManySeen == Cardinality(view.state.notifications) > Keep /\ view.state.isClient

\* The timer of that effect is pending, or has fired since; and when it fired
\* on a list that was too long, a render is due for the setter it called.
TrimInv ==
  /\ mounted /\ TooManySeen => trimTimer # "no" \/ cut # "no"
  /\ cut = "since" /\ TooMany => dirty

\* A list past the limit never rests: its timer is pending, or a render is
\* due, but for the case that EventuallyTrimmed excepts.
TrimIsDue ==
  mounted /\ TooMany /\ state.isClient /\ ~RenderDue => trimTimer # "no" \/ cut = "missed"

\* When the timer fires, no more than Keep notifications are left.
TrimCuts == [][TrimFires => Cardinality(state'.notifications) <= Keep]_vars

\* A step of the setters: no render, no timer.
LEMMA SetterTrimInv ==
  ASSUME TrimInv, UNCHANGED <<mounted, view, trimTimer, cut>>, dirty'
  PROVE  TrimInv'
  BY DEF TrimInv, TooManySeen

LEMMA RenderTrimInv == ASSUME IInv, TrimInv, Render PROVE TrimInv'
  <1>1. /\ mounted /\ mounted' /\ view'.state = state
        /\ trimTimer' = TrimArmed
        /\ cut' = IF cut # "no" /\ SameSize THEN "missed" ELSE "no"
    BY DEF Render, HookRenders
  <1>2. cut' # "since"
    BY <1>1
  <1>3. ASSUME TooManySeen' PROVE trimTimer' # "no" \/ cut' # "no"
    <2>1. TooMany /\ state.isClient
      BY <1>1, <1>3 DEF TooManySeen, TooMany
    <2>2. CASE SameSize
      <3>1. TooManySeen
        BY <2>1, <2>2 DEF SameSize, TooManySeen, TooMany
      <3>2. QED BY <1>1, <2>2, <3>1 DEF TrimArmed, TrimInv
    <2>3. CASE ~SameSize
      BY <1>1, <2>1, <2>3 DEF TrimArmed
    <2>4. QED BY <2>2, <2>3
  <1>4. QED BY <1>2, <1>3 DEF TrimInv

LEMMA NextTrimInv == IInv /\ TrimInv /\ [Next]_vars => TrimInv'
  <1> SUFFICES ASSUME IInv, TrimInv, [Next]_vars PROVE TrimInv'
    OBVIOUS
  <1>1. CASE Mount
    <2>1. ~TooManySeen' /\ cut' = "no"
      BY <1>1 DEF Mount, TooManySeen
    <2>2. QED BY <2>1 DEF TrimInv
  <1>2. CASE Unmount
    BY <1>2 DEF Unmount, HookUnmounts, TrimInv
  <1>3. CASE Render
    BY <1>3, RenderTrimInv
  <1>4. CASE Hydrated
    <2>1. UNCHANGED <<mounted, view, dirty, trimTimer, cut>>
          /\ state' = [state EXCEPT !.isClient = TRUE]
      BY <1>4 DEF Hydrated, hookVars
    <2>2. state'.notifications = state.notifications
      BY <2>1 DEF IInv, FeedTypeOK, State
    <2>3. QED BY <2>1, <2>2 DEF TrimInv, TooManySeen, TooMany
  <1>5. CASE SocketEvent
    <2>1. UNCHANGED <<mounted, view, state, dirty, trimTimer, cut>>
      BY <1>5 DEF SocketEvent, Opened, Closed, RetryFires, feedVars
    <2>2. QED BY <2>1 DEF TrimInv, TooManySeen, TooMany
  <1>6. CASE TrimFires
    <2>1. cut' = "since" /\ (~dirty' => ~TooMany /\ state' = state)
      BY <1>6 DEF TrimFires, Set
    <2>2. QED BY <2>1 DEF TrimInv, TooMany
  <1>7. CASE (\E c \in Category : Message(c)) \/ ShowToast
             \/ (\E id \in Id : DismissToast(id))
             \/ Mark \/ ClearAll \/ BatchDelete \/ UpdatePreferences
    <2>1. UNCHANGED <<mounted, view, trimTimer, cut>> /\ dirty'
      BY <1>7 DEF Message, ShowToast, DismissToast, Mark, ClearAll, BatchDelete,
         UpdatePreferences, SetNotifications, Set, hookVars
    <2>2. QED BY <2>1, SetterTrimInv
  <1>8. CASE UNCHANGED vars
    BY <1>8 DEF vars, hookVars, feedVars, TrimInv, TooManySeen, TooMany
  <1>9. CASE TrimDue
    <2>1. UNCHANGED <<mounted, view, state, dirty, cut>> /\ trimTimer' = "due"
      BY <1>9 DEF TrimDue, hookVars
    <2>2. QED BY <2>1 DEF TrimInv, TooManySeen, TooMany
  <1>10. QED
    BY <1>1, <1>2, <1>3, <1>4, <1>5, <1>6, <1>7, <1>8, <1>9 DEF Next

\* The half of EventuallyTrimmed that needs no fairness
\* (NotificationContext.tsx:211).
THEOREM TrimmingIsDue == Spec => []TrimIsDue
  <1>1. Init => TrimInv
    BY DEF Init, TrimInv
  <1>2. IInv /\ TrimInv => TrimIsDue
    <2> SUFFICES ASSUME IInv, TrimInv, mounted, TooMany, state.isClient, ~RenderDue
                 PROVE  trimTimer # "no" \/ cut = "missed"
      BY DEF TrimIsDue
    <2>1. ~dirty /\ view.state = state
      BY DEF RenderDue
    <2>2. TooManySeen /\ cut # "since"
      BY <2>1 DEF TrimInv, TooManySeen, TooMany
    <2>3. QED BY <2>2 DEF TrimInv, IInv, FeedTypeOK
  <1>3. QED BY <1>1, <1>2, NextTrimInv, IInvariant, PTL DEF Spec

\* A set of ids that is not empty has a first one: the last of the ids
\* counted down from n.
LEMMA HasFirst ==
  ASSUME NEW n \in Nat, NEW ids \in SUBSET (1 .. n), ids # {}
  PROVE  \E i \in ids : \A j \in ids : i <= j
  <1> DEFINE mirror == {n + 1 - i : i \in ids}
  <1>1. \A i \in ids : i \in 1 .. n
    OBVIOUS
  <1>2. mirror \in SUBSET (1 .. n) /\ mirror # {}
    <2>1. ASSUME NEW i \in ids PROVE n + 1 - i \in 1 .. n
      BY <1>1
    <2>2. PICK i : i \in ids
      OBVIOUS
    <2>3. n + 1 - i \in mirror
      BY <2>2
    <2>4. QED BY <2>1, <2>3
  <1>3. PICK m \in mirror : \A k \in mirror : k <= m
    <2> HIDE DEF mirror
    <2> QED BY <1>2, HasLast
  <1>4. PICK i \in ids : m = n + 1 - i
    BY <1>3
  <1>5. ASSUME NEW j \in ids PROVE i <= j
    <2>1. n + 1 - j \in mirror
      OBVIOUS
    <2>2. n + 1 - j <= n + 1 - i
      BY <1>3, <1>4, <2>1
    <2>3. i \in 1 .. n /\ j \in 1 .. n
      BY <1>1
    <2>4. QED BY <2>2, <2>3
  <1>6. QED BY <1>5

\* The newest k of a set of ids are k at most: below the first of them there
\* is none, above it fewer than k.
LEMMA NewestCount ==
  ASSUME NEW n \in Nat, NEW ids \in SUBSET (1 .. n), NEW k \in Nat
  PROVE  Cardinality(Newest(ids, k)) <= k
  <1>1. \A i \in ids : i \in 1 .. n
    OBVIOUS
  <1>2. Newest(ids, k) \in SUBSET (1 .. n) /\ IsFiniteSet(1 .. n)
    <2>1. Newest(ids, k) \subseteq ids
      BY Zenon DEF Newest
    <2>2. IsFiniteSet(1 .. n)
      BY FS_Interval
    <2>3. Newest(ids, k) \subseteq 1 .. n
      BY <2>1
    <2>4. QED BY <2>2, <2>3
  <1>3. \A S \in SUBSET (1 .. n) : IsFiniteSet(S)
    BY <1>2, FS_Subset
  <1>4. CASE Newest(ids, k) = {}
    BY <1>4, FS_EmptySet
  <1>5. CASE Newest(ids, k) # {}
    <2>1. PICK m \in Newest(ids, k) : \A j \in Newest(ids, k) : m <= j
      BY <1>2, <1>5, HasFirst
    <2> DEFINE above == {j \in ids : j > m}
    <2>2. Cardinality(above) < k /\ m \in ids
      BY <2>1 DEF Newest
    <2>3. IsFiniteSet(above) /\ above \in SUBSET (1 .. n)
      BY <1>3
    <2>4. IsFiniteSet(above \cup {m}) /\ Cardinality(above \cup {m}) = Cardinality(above) + 1
      <3>1. m \notin above
        BY <1>1, <2>2
      <3>2. QED BY <2>3, <3>1, FS_AddElement
    <2>5. Newest(ids, k) \subseteq above \cup {m}
      <3>1. ASSUME NEW j \in Newest(ids, k) PROVE j \in above \cup {m}
        <4>1. j \in ids /\ j \in 1 .. n /\ m \in 1 .. n
          BY <1>1, <1>2, <2>2 DEF Newest
        <4>2. QED BY <2>1, <4>1
      <3>2. QED BY <3>1, Zenon
    <2>6. Cardinality(Newest(ids, k)) <= Cardinality(above \cup {m})
      BY <2>4, <2>5, FS_Subset
    <2>7. Cardinality(above) \in Nat /\ Cardinality(Newest(ids, k)) \in Nat
      BY <1>2, <1>3, <2>3, FS_CardinalityType
    <2>8. QED BY <2>2, <2>4, <2>6, <2>7
  <1>6. QED BY <1>4, <1>5

\* Cutting keeps the limit, whatever was added and dismissed since the timer
\* was set.
THEOREM TrimmingCuts == Spec => TrimCuts
  <1>1. ASSUME IInv, TrimFires PROVE Cardinality(state'.notifications) <= Keep
    <2>1. /\ Keep \in Nat /\ lastId \in Nat
          /\ state.notifications \in SUBSET (1 .. lastId)
      BY <1>1, FeedConstants DEF IInv, FeedTypeOK, ListsInv
    <2>2. CASE TooMany
      <3>1. state'.notifications = Newest(state.notifications, Keep)
        BY <1>1, <2>2 DEF TrimFires, Set, IInv, FeedTypeOK, State
      <3>2. QED BY <2>1, <3>1, NewestCount
    <2>3. CASE ~TooMany
      <3>1. state' = state
        BY <1>1, <2>3 DEF TrimFires
      <3>2. Cardinality(state.notifications) \in Nat
        <4>1. IsFiniteSet(1 .. lastId)
          BY <2>1, FS_Interval
        <4>2. QED BY <2>1, <4>1, FS_Subset, FS_CardinalityType
      <3>3. QED BY <2>1, <2>3, <3>1, <3>2 DEF TooMany
    <2>4. QED BY <2>2, <2>3
  <1>2. IInv /\ [Next]_vars => [TrimFires => Cardinality(state'.notifications) <= Keep]_vars
    BY <1>1
  <1>3. QED BY <1>2, IInvariant, PTL DEF Spec, TrimCuts
=============================================================================
