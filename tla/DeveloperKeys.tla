--------------------------- MODULE DeveloperKeys ---------------------------
(***************************************************************************)
(* API keys: the page developer/keys/page.tsx with its client              *)
(* lib/api-keys.ts, over the wallet session, and the table api_keys with   *)
(* the statements of backend/src/database.rs that serve it.                *)
(*                                                                         *)
(* Each request names the wallet that was connected when its handler was   *)
(* rendered.  The server works on it statement by statement, the answer    *)
(* may come when another wallet is connected, and may be lost; a request   *)
(* whose page is gone is an orphan that the server may finish or drop.     *)
(* The handlers of api/api_keys.rs, which is not in the repository, are    *)
(* taken from what the page needs of them: they answer an error when the   *)
(* statement found no row.                                                 *)
(***************************************************************************)
EXTENDS WalletSession, FiniteSets

CONSTANTS
  MaxKey,       \* bound: rows of api_keys
  MaxOrphans,   \* bound: requests at the server that no page waits for
  MaxLists      \* bound: lists asked for when the wallet changed, in flight

ASSUME KeyConstants == MaxKey \in Nat /\ MaxOrphans \in Nat /\ MaxLists \in Nat \ {0}

Key == 1 .. MaxKey
Status == {"none", "active", "revoked"}

VARIABLES
  table,     \* api_keys: owner, status, and (history) the key it replaces
  orphans,   \* requests at the server whose page does not wait any more
  keys,      \* the keys the page shows as active: only their rows have buttons
  loading,
  modal,
  action,    \* the request whose handler is running: actionLoading
  lists,     \* list requests of the effect on the address
  asked      \* history: keys whose owner, connected, confirmed a dialog on them

pageVars == <<keys, loading, modal, action, lists>>
vars == <<sessionVars, table, orphans, pageVars, asked>>


Modal == [type : {"none", "create", "reveal"}, key : {0}]
           \cup [type : {"rotate", "revoke"}, key : Key]
NoModal == [type |-> "none", key |-> 0]

Stage == {"sent", "selected", "revoked", "ok"}

\* A request: how far the server is with it, and the rows a list answers.
Request == [op : {"create", "rotate", "revoke", "list"}, wallet : Account,
            key : 0 .. MaxKey, stage : Stage, rows : SUBSET Key]

ASSUME NoneIsNoRequest == None \notin Request

Asked(op, w, k) == [op |-> op, wallet |-> w, key |-> k, stage |-> "sent", rows |-> {}]

\* list_api_keys
RowsOf(w) == {k \in Key : table[k].owner = w /\ table[k].status = "active"}

\* The WHERE clauses of revoke_api_key and rotate_api_key.  Fault: the wallet
\* is left out.
AnyonesActive(k, w) == table[k].status = "active"
OwnActive(k, w) == table[k].owner = w /\ table[k].status = "active"

---------------------------------------------------------------------------
(* The server: one statement of a request *)

\* revoke_api_key.  Fault: the row found is left active.
NotRevoked(k, w) == table
Revoked(k, w) == IF OwnActive(k, w) THEN [table EXCEPT ![k].status = "revoked"] ELSE table

FreshKeys == {k \in Key : table[k].status = "none" /\ \A j \in Key : j < k => table[j].status # "none"}

\* create_api_key
Insert(w, replaced) ==
  \E k \in FreshKeys :
    table' = [table EXCEPT ![k] = [owner |-> w, status |-> "active", replaces |-> replaced]]

\* One statement for request r, which brings it to a stage.  A statement that
\* fails, or finds no row, ends the request: the page gets an error.
Serve(r, stage) ==
  \/ /\ r.op = "list" /\ r.stage = "sent" /\ stage = "ok"
     /\ UNCHANGED table
  \/ /\ r.op = "create" /\ r.stage = "sent" /\ stage = "ok"
     /\ Insert(r.wallet, 0)
  \/ /\ r.op = "revoke" /\ r.stage = "sent" /\ stage = "ok"
     /\ OwnActive(r.key, r.wallet)
     /\ table' = Revoked(r.key, r.wallet)
  \/ /\ r.op = "rotate" /\ r.stage = "sent" /\ stage = "selected"
     /\ OwnActive(r.key, r.wallet)
     /\ UNCHANGED table
  \/ /\ r.op = "rotate" /\ r.stage = "selected" /\ stage = "revoked"
     /\ table' = Revoked(r.key, r.wallet)
  \/ /\ r.op = "rotate" /\ r.stage = "revoked" /\ stage = "ok"
     /\ Insert(r.wallet, r.key)

Reached(r, stage) ==
  [op |-> r.op, wallet |-> r.wallet, key |-> r.key, stage |-> stage,
   rows |-> IF r.op = "list" THEN RowsOf(r.wallet) ELSE {}]

ServeAction ==
  /\ action # None
  /\ \E stage \in Stage : Serve(action, stage) /\ action' = Reached(action, stage)
  /\ UNCHANGED <<sessionVars, orphans, keys, loading, modal, lists, asked>>

\* A handler whose client has gone runs on, or is dropped at an await.
ServeOrphan ==
  /\ \E r \in orphans :
       \/ \E stage \in Stage :
            /\ Serve(r, stage)
            /\ orphans' = (orphans \ {r}) \cup (IF stage = "ok" THEN {} ELSE {Reached(r, stage)})
       \/ /\ orphans' = orphans \ {r}
          /\ UNCHANGED table
  /\ UNCHANGED <<sessionVars, pageVars, asked>>

ServeList ==
  /\ \E l \in lists, stage \in Stage :
       /\ Serve(l, stage)
       /\ lists' = (lists \ {l}) \cup {Reached(l, stage)}
  /\ UNCHANGED <<sessionVars, orphans, keys, loading, modal, action, asked>>

---------------------------------------------------------------------------
(* The page *)

\* The page after the effect of its first render, which finds no wallet and
\* takes back the loading = true the state starts with: nothing of the page can
\* be clicked or answered before that effect, so the two are one state here.
Init ==
  /\ SessionInit
  /\ table = [k \in Key |-> [owner |-> None, status |-> "none", replaces |-> 0]]
  /\ orphans = {}
  /\ keys = {}
  /\ loading = FALSE
  /\ modal = NoModal
  /\ action = None
  /\ lists = {}
  /\ asked = {}

\* The effect on the address, which fetches the list of a wallet that has
\* been connected and clears nothing when it is disconnected.
AddressEffect ==
  IF address' = None
  THEN /\ loading' = FALSE
       /\ UNCHANGED lists
  ELSE /\ Cardinality(lists) < MaxLists
       /\ loading' = TRUE
       /\ lists' = lists \cup {Asked("list", address', 0)}

SessionStep(step) ==
  /\ step
  /\ IF address' = address THEN UNCHANGED <<loading, lists>> ELSE AddressEffect
  /\ UNCHANGED <<table, orphans, keys, modal, action, asked>>

OpenModal ==
  /\ address # None /\ modal = NoModal
  /\ \/ modal' = [type |-> "create", key |-> 0]
     \/ /\ ~loading
        /\ \E k \in keys, type \in {"rotate", "revoke"} : modal' = [type |-> type, key |-> k]
  /\ UNCHANGED <<sessionVars, table, orphans, keys, loading, action, lists, asked>>

\* Close, Cancel or Done, also while the request is under way.
CloseModal ==
  /\ address # None /\ modal # NoModal
  /\ modal' = NoModal
  /\ UNCHANGED <<sessionVars, table, orphans, keys, loading, action, lists, asked>>

\* handleCreate, handleRotate and handleRevoke, from a dialog that may have
\* been opened when another wallet was connected.
Confirm ==
  /\ address # None /\ action = None
  /\ modal.type \in {"create", "rotate", "revoke"}
  /\ action' = Asked(modal.type, address, modal.key)
  /\ asked' = asked \cup {k \in Key : k = modal.key /\ table[k].owner = address}
  /\ UNCHANGED <<sessionVars, table, orphans, keys, loading, modal, lists>>

\* The answer closes whatever dialog is open by then, and the handler awaits
\* fetchKeys.
Answered ==
  /\ action # None /\ action.op # "list" /\ action.stage = "ok"
  /\ modal' = IF action.op = "revoke" THEN NoModal ELSE [type |-> "reveal", key |-> 0]
  /\ action' = Asked("list", action.wallet, 0)
  /\ loading' = TRUE
  /\ UNCHANGED <<sessionVars, table, orphans, keys, lists, asked>>

\* The page stops waiting for its request, which the server may be serving.
Abandon ==
  /\ orphans' \in {orphans, orphans \cup
       (IF action # None /\ action.op # "list" /\ action.stage # "ok" THEN {action} ELSE {})}
  /\ Cardinality(orphans') <= MaxOrphans

\* An error is answered, or the connection is lost.
ActionFails ==
  /\ action # None /\ action.op # "list"
  /\ Abandon
  /\ action' = None
  /\ UNCHANGED <<sessionVars, table, keys, loading, modal, lists, asked>>

\* fetchKeys ends, with the rows or an error.  Fault: an error leaves the
\* page loading.
FetchedIfAnswered(l) ==
  /\ l.stage = "ok" => keys' = l.rows
  /\ l.stage # "ok" => UNCHANGED keys
  /\ loading' = (loading /\ l.stage # "ok")

Fetched(l) ==
  /\ keys' \in {keys} \cup (IF l.stage = "ok" THEN {l.rows} ELSE {})
  /\ loading' = FALSE

ActionEnds ==
  /\ action # None /\ action.op = "list"
  /\ Fetched(action)
  /\ action' = None
  /\ UNCHANGED <<sessionVars, table, orphans, modal, lists, asked>>

ListEnds ==
  /\ \E l \in lists : Fetched(l) /\ lists' = lists \ {l}
  /\ UNCHANGED <<sessionVars, table, orphans, modal, action, asked>>

\* The page is left and opened again, in the application or by a reload.
Reopen ==
  /\ SessionReloads \/ UNCHANGED sessionVars
  /\ Abandon
  /\ keys' = {}
  /\ modal' = NoModal
  /\ action' = None
  /\ loading' = (address # None)
  /\ lists' = IF address = None THEN {} ELSE {Asked("list", address, 0)}
  /\ UNCHANGED <<table, asked>>

---------------------------------------------------------------------------
Next ==
  \/ SessionStep(SessionNext)
  \/ ServeAction \/ ServeOrphan \/ ServeList
  \/ OpenModal \/ CloseModal \/ Confirm \/ Answered \/ ActionFails \/ ActionEnds
  \/ ListEnds \/ Reopen

Spec == Init /\ [][Next]_vars

TypeOK ==
  /\ SessionTypeOK
  /\ table \in [Key -> [owner : Account \cup {None}, status : Status, replaces : 0 .. MaxKey]]
  /\ orphans \subseteq Request
  /\ keys \subseteq Key
  /\ loading \in BOOLEAN
  /\ modal \in Modal
  /\ action \in Request \cup {None}
  /\ lists \subseteq Request
  /\ asked \subseteq Key

---------------------------------------------------------------------------
(* Properties *)

\* A key that was made to replace another one of the same wallet replaces one
\* that is revoked: a rotation, whose statements are not one transaction,
\* never leaves a key that works beside the one that replaced it, however it
\* interleaves with other rotations and revocations of the same key or is
\* dropped between its statements (database.rs:1163, page.tsx:272).  Two
\* rotations that both found the key active replace it once each.
ReplacedKeyIsDead ==
  \A k, j \in Key : table[k].replaces = j =>
    /\ table[j].status = "revoked"
    /\ table[j].owner = table[k].owner

\* A key is revoked, directly or by a rotation, only if its own wallet was
\* connected when a dialog about it was confirmed, though the rows and the
\* dialogs of one wallet stay on the page when another is connected
\* (page.tsx:57) and the request names the wallet connected at the click.
OnlyItsOwnerRevokes ==
  \A k \in Key : table[k].status = "revoked" => k \in asked

\* The rows, and with them the buttons to rotate and revoke, are hidden only
\* while a list is under way that will show them again, however the lists of
\* two wallets, or of the page and of a handler, overtake each other, fail, or
\* end after a disconnection (page.tsx:52).
LoadingEnds ==
  loading => lists # {} \/ (action # None /\ action.op = "list")
=============================================================================
