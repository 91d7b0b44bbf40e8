------------------------- MODULE NotificationFeed -------------------------
(***************************************************************************)
(* Notifications of the dashboard: NotificationProvider                    *)
(* (contexts/NotificationContext.tsx) over useWebSocket and useLocalStorage, *)
(* the toasts that take themselves off the list                            *)
(* (components/notifications/Toast.tsx) and the panel that deletes and     *)
(* marks (NotificationCenter.tsx), in one browser tab.                     *)
(*                                                                         *)
(* React is modelled by what the hooks rely on: `state` is what the setters *)
(* were asked for so far, `view` what the last committed render saw, and   *)
(* Render commits the one to the other and runs the effects whose          *)
(* dependencies changed.  Handlers and timers keep what their render saw.  *)
(* A functional updater, and with it the write to localStorage, runs in    *)
(* the render, or at once when nothing else waits for a render.            *)
(*                                                                         *)
(* A notification is its id, given out in the order of the timestamps: the *)
(* list, to which each is prepended, is the set of ids in it.  Read flags  *)
(* are left out; marking is still an update of the list.                   *)
(***************************************************************************)
EXTENDS WebSocketHook, FiniteSets

CONSTANTS
  Category,
  Keep,       \* 100: how many notifications the clean-up keeps
  MaxId       \* bound: how many notifications are ever made

ASSUME FeedConstants ==
  /\ Keep \in Nat
  /\ MaxId \in Nat
  /\ Callbacks = [preferences : SUBSET Category, isClient : BOOLEAN]

VARIABLES
  state, view,  \* see above
  dirty,        \* a setter was called with a new object, equal or not
  stored,       \* localStorage
  lastId,
  rendered,     \* history: the last id that a render showed
  trimTimer,    \* cleanupTimeoutRef's timer: "no", "set", or "due" after 1000 ms
  cut           \* history: the timer has fired since the last render, or had
                \* when the last render found a list of the old length

feedVars == <<state, view, dirty, stored, lastId, rendered, trimTimer, cut>>
vars == <<hookVars, feedVars>>

Id == 1 .. MaxId

\* preferences: the categories that are shown, none when not enabled.
State == [notifications : SUBSET Id, preferences : SUBSET Category, isClient : BOOLEAN]
Stored == [notifications : SUBSET Id, preferences : SUBSET Category]

RenderDue == dirty \/ view # [state |-> state, conn |-> conn]

\* The ids a sort by time, newest first, puts in the first n places.
Newest(ids, n) == {i \in ids : Cardinality({j \in ids : j > i}) < n}

Later(ids) == {i \in ids : i > rendered}

---------------------------------------------------------------------------
(* useLocalStorage *)

\* setValue with an updater: deferred to the render, or run at once.
Set(field, value) ==
  /\ state' = [state EXCEPT ![field] = value]
  /\ \/ UNCHANGED stored
     \/ ~RenderDue /\ stored' = [stored EXCEPT ![field] = value]
  /\ dirty' = TRUE

SetNotifications(ids) ==
  /\ mounted
  /\ Set("notifications", ids)
  /\ UNCHANGED <<hookVars, view, rendered, trimTimer, cut>>

\* What a render leaves in localStorage.  Fault: a value whose updater runs
\* in the render is not written.
NeverSaved(st) == stored
SavedByRender(st) ==
  [notifications |-> st.notifications, preferences |-> st.preferences]

---------------------------------------------------------------------------
(* Renders and effects *)

\* What the inline callbacks of a render capture.  Fault: what the render
\* before saw.
StaleClosure(st) ==
  [preferences |-> view.state.preferences, isClient |-> st.isClient]
Closure(st) == [preferences |-> st.preferences, isClient |-> st.isClient]

Init ==
  /\ mounted = FALSE
  /\ wsRef = None
  /\ readyState = [s \in Socket |-> "NONE"]
  /\ onMessage = [s \in Socket |-> NoCallbacks]
  /\ shouldReconnect = FALSE
  /\ reconnectTimeout = FALSE
  /\ conn = NewConn
  /\ state = [notifications |-> {}, preferences |-> Category, isClient |-> FALSE]
  /\ view = [state |-> state, conn |-> NewConn]
  /\ dirty = FALSE
  /\ stored = [notifications |-> {}, preferences |-> Category]
  /\ lastId = 0 /\ rendered = 0
  /\ trimTimer = "no"
  /\ cut = "no"

ShownUpTo(ids) ==
  IF Later(ids) = {} THEN rendered ELSE CHOOSE i \in ids : \A j \in ids : j <= i

\* A page load, or the provider mounted again in the page (once the sockets
\* it had left are closed): the first render and its effects.
Mount ==
  /\ ~mounted
  /\ \A s \in Socket : readyState[s] = "NONE"
  /\ state' = [notifications |-> stored.notifications,
               preferences |-> stored.preferences, isClient |-> FALSE]
  /\ view' = [state |-> state', conn |-> NewConn]
  /\ rendered' = ShownUpTo(stored.notifications)
  /\ HookMounts(Closure(state'))
  /\ dirty' = FALSE
  /\ trimTimer' = "no"
  /\ cut' = "no"
  /\ UNCHANGED <<stored, lastId>>

\* Updates that no render has run yet are lost.
Unmount ==
  /\ mounted
  /\ HookUnmounts
  /\ trimTimer' = "no"
  /\ cut' = "no"
  /\ state' = view.state
  /\ dirty' = FALSE
  /\ UNCHANGED <<view, stored, lastId, rendered>>

\* The clean-up effect, on notifications.length and isClient: a change of
\* either clears the timer, and sets it anew for a list that is too long.
\* Fault: a pending timer is cleared and not set again.
SameSize ==
  /\ Cardinality(state.notifications) = Cardinality(view.state.notifications)
  /\ state.isClient = view.state.isClient

TooMany == Cardinality(state.notifications) > Keep

TrimArmedOnce ==
  IF SameSize THEN trimTimer
  ELSE IF state.isClient /\ TooMany /\ trimTimer = "no" THEN "set" ELSE "no"

TrimArmed ==
  IF SameSize THEN trimTimer
  ELSE IF state.isClient /\ TooMany THEN "set" ELSE "no"

\* The effect that warns of a connection that is being tried again, on the
\* count, showToast (preferences, isClient) and the url.
WarningDue ==
  /\ state.isClient
  /\ conn.connectionAttempts > 0
  /\ \/ conn.connectionAttempts # view.conn.connectionAttempts
     \/ state.preferences # view.state.preferences
     \/ state.isClient # view.state.isClient

Render ==
  /\ mounted /\ RenderDue
  /\ view' = [state |-> state, conn |-> conn]
  /\ stored' = SavedByRender(state)
  /\ rendered' = ShownUpTo(state.notifications)
  /\ HookRenders(Closure(state))
  /\ trimTimer' = TrimArmed
  /\ cut' = IF cut # "no" /\ SameSize THEN "missed" ELSE "no"
  /\ IF WarningDue /\ lastId < MaxId
     THEN /\ state' = [state EXCEPT !.notifications = @ \cup {lastId + 1}]
          /\ lastId' = lastId + 1
          /\ dirty' = TRUE
     ELSE /\ dirty' = FALSE
          /\ UNCHANGED <<state, lastId>>

\* setIsClient in the first animation frame.
Hydrated ==
  /\ mounted /\ ~state.isClient
  /\ state' = [state EXCEPT !.isClient = TRUE]
  /\ UNCHANGED <<hookVars, view, dirty, stored, lastId, rendered, trimTimer, cut>>

SocketEvent ==
  /\ \/ \E s \in Socket : Opened(s) \/ Closed(s)
     \/ RetryFires(Closure(view.state))
  /\ UNCHANGED feedVars

\* handleWebSocketMessage: whether a message becomes a notification.
Wanted(callbacks, category) ==
  callbacks.isClient /\ category \in callbacks.preferences

\* ws.onmessage: setLastMessage, then the captured onMessage, which shows the
\* toast by the showToast of the last render.
Message(category) ==
  /\ \E s \in Socket :
       /\ readyState[s] = "OPEN"
       /\ IF Wanted(onMessage[s], category) /\ view.state.isClient
          THEN /\ lastId < MaxId
               /\ lastId' = lastId + 1
               /\ state' = [state EXCEPT !.notifications = @ \cup {lastId + 1}]
          ELSE UNCHANGED <<state, lastId>>
  /\ dirty' = TRUE
  /\ UNCHANGED <<hookVars, view, stored, rendered, trimTimer, cut>>

---------------------------------------------------------------------------
(* The application, the toasts and the panel *)

ShowToast ==
  /\ view.state.isClient /\ lastId < MaxId
  /\ SetNotifications(state.notifications \cup {lastId + 1})
  /\ lastId' = lastId + 1

\* A toast hides when its time is over, or its cross is clicked, and 300 ms
\* later takes its notification off the list, which may have lost it by then;
\* so does the bin of a row.
DismissToast(id) ==
  /\ id <= rendered
  /\ SetNotifications(state.notifications \ {id})
  /\ UNCHANGED lastId

\* No render has seen another length for 1000 ms.
TrimDue ==
  /\ trimTimer = "set"
  /\ trimTimer' = "due"
  /\ UNCHANGED <<hookVars, state, view, dirty, stored, lastId, rendered, cut>>

TrimFires ==
  /\ trimTimer = "due"
  /\ mounted
  /\ IF TooMany
     THEN Set("notifications", Newest(state.notifications, Keep))
     ELSE UNCHANGED <<state, stored, dirty>>
  /\ cut' = "since"
  /\ trimTimer' = "no"
  /\ UNCHANGED <<hookVars, view, lastId, rendered>>

\* markAsRead of a row, markAllAsRead, and the marking of what is ticked.
Mark ==
  /\ view.state.notifications # {}
  /\ SetNotifications(state.notifications)
  /\ UNCHANGED lastId

ClearAll ==
  /\ SetNotifications({})
  /\ UNCHANGED lastId

\* handleBatchDelete of the rows ticked so far, which the present filter may
\* hide and the list may have lost: one updater for each, of which only the
\* first may run at once.
BatchDelete ==
  /\ mounted
  /\ \E ticked \in SUBSET (1 .. rendered) \ {{}} :
       /\ state' = [state EXCEPT !.notifications = @ \ ticked]
       /\ \/ UNCHANGED stored
          \/ /\ ~RenderDue
             /\ \E id \in ticked : stored' = [stored EXCEPT !.notifications = @ \ {id}]
  /\ dirty' = TRUE
  /\ UNCHANGED <<hookVars, view, lastId, rendered, trimTimer, cut>>

\* updatePreferences, called by the preferences dialog.
UpdatePreferences ==
  /\ mounted
  /\ \E p \in SUBSET Category : Set("preferences", p)
  /\ UNCHANGED <<hookVars, view, lastId, rendered, trimTimer, cut>>

---------------------------------------------------------------------------
Next ==
  \/ Mount \/ Unmount \/ Render \/ Hydrated \/ SocketEvent
  \/ \E c \in Category : Message(c)
  \/ ShowToast
  \/ \E id \in Id : DismissToast(id)
  \/ TrimDue \/ TrimFires
  \/ Mark \/ ClearAll \/ BatchDelete \/ UpdatePreferences

Spec == Init /\ [][Next]_vars

\* React renders what is due, timers that are left alone and animation frames
\* come, and a socket that was closed says so; users, servers and the network
\* owe nothing, nor any pause between arrivals that set the timer anew.
ClosingEnds == \E s \in Socket : readyState[s] = "CLOSING" /\ Closed(s) /\ UNCHANGED feedVars

FairSpec ==
  /\ Spec
  /\ WF_vars(Render) /\ WF_vars(Hydrated) /\ WF_vars(ClosingEnds)
  /\ WF_vars(TrimDue) /\ WF_vars(TrimFires)

TypeOK ==
  /\ mounted \in BOOLEAN
  /\ wsRef \in Socket \cup {None}
  /\ readyState \in [Socket -> {"NONE", "CONNECTING", "OPEN", "CLOSING"}]
  /\ onMessage \in [Socket -> Callbacks]
  /\ shouldReconnect \in BOOLEAN /\ reconnectTimeout \in BOOLEAN
  /\ conn \in Conn
  /\ state \in State
  /\ view \in [state : State, conn : Conn]
  /\ dirty \in BOOLEAN
  /\ stored \in Stored
  /\ lastId \in 0 .. MaxId /\ rendered \in 0 .. lastId
  /\ trimTimer \in {"no", "set", "due"}
  /\ cut \in {"no", "since", "missed"}

---------------------------------------------------------------------------
(* Properties *)

\* A message of a category that the last render knew to be switched off adds
\* nothing to the list, though the handlers that receive it were made in an
\* earlier effect and hold the preferences of that time
\* (NotificationContext.tsx:140).
MutedStaysSilent ==
  [][\A c \in Category \ view.state.preferences : Message(c) => UNCHANGED state]_vars

\* A notification that was taken off the screen does not come back when the
\* page is left between a setter and the render that runs its updater, and
\* loaded again from localStorage (useLocalStorage.ts:31).
NothingComesBack ==
  [][\A id \in view'.state.notifications :
       id \in view.state.notifications \/ id > rendered]_vars

\* A list that is longer than the limit does not keep its length for ever:
\* the timer that cuts it (NotificationContext.tsx:211) starts again with each
\* length that a render sees, so arrivals and dismissals less than a second
\* apart put the cut off, but once they pause it comes.  It does not in one
\* case, against "Efficient cleanup of old notifications (keeps last 100)" of
\* components/notifications/README.md: between the timer and the next render
\* arrivals make up the length the last render saw, and the effect, which
\* depends on the length alone, does not set the timer again.
EventuallyTrimmed ==
  \A n \in Keep + 1 .. MaxId :
    (mounted /\ Cardinality(state.notifications) = n)
      ~> (~mounted \/ Cardinality(state.notifications) # n \/ cut = "missed")
=============================================================================
