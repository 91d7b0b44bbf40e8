------------------------ MODULE DeveloperKeysProofs ------------------------
(***************************************************************************)
(* Proofs about the API keys: what one statement of a request does to the  *)
(* table, what every request in flight may rely on, and from these the     *)
(* three properties of the page and the table.                             *)
(***************************************************************************)
EXTENDS DeveloperKeys, TLAPS

Made == {k \in Key : table[k].status # "none"}

\* Every request that a page or the server holds.
Held == orphans \cup lists \cup ({action} \ {None})

\* What holds of a request while it is held: it names rows that exist; if the
\* row is its wallet's, the wallet was connected when it was asked for; and a
\* rotation has found, and then revoked, the row it names.
RequestInv(r) ==
  /\ r.rows \subseteq Made
  /\ r.op \in {"rotate", "revoke"} =>
       /\ r.key \in Made
       /\ table[r.key].owner = r.wallet => r.key \in asked
  /\ r.stage \in {"selected", "revoked"} =>
       /\ r.op = "rotate"
       /\ table[r.key].owner = r.wallet
  /\ r.stage = "revoked" => table[r.key].status = "revoked"

ShownInv ==
  /\ keys \subseteq Made
  /\ modal.type \in {"rotate", "revoke"} => modal.key \in Made

TableInv ==
  /\ \A k \in Key : table[k].replaces # 0 => k \in Made
  /\ ReplacedKeyIsDead
  /\ OnlyItsOwnerRevokes

IInv ==
  /\ TypeOK
  /\ \A r \in Held : RequestInv(r)
  /\ ShownInv
  /\ TableInv

\* Rows keep their owner and what they replace, and are never active again.
Grows ==
  \A k \in Made :
    /\ table'[k].owner = table[k].owner
    /\ table'[k].replaces = table[k].replaces
    /\ table'[k].status \in {table[k].status, "revoked"}

---------------------------------------------------------------------------
(* One statement *)

TableTypeOK ==
  table \in [Key -> [owner : Account \cup {None}, status : Status, replaces : 0 .. MaxKey]]

\* What a statement of request r does to the rows.
StatementOf(r) ==
  /\ TableTypeOK'
  /\ Grows
  /\ \A k \in Made : table'[k].status # table[k].status =>
       k = r.key /\ r.op \in {"rotate", "revoke"} /\ table[k].owner = r.wallet
  /\ \A k \in Key \ Made :
       \/ table'[k] = table[k]
       \/ /\ table'[k].status = "active"
          /\ \/ table'[k].replaces = 0
             \/ /\ r.stage = "revoked"
                /\ table'[k].replaces = r.key
                /\ table'[k].owner = r.wallet

LEMMA NothingStated ==
  ASSUME TableTypeOK, UNCHANGED table, NEW r
  PROVE  StatementOf(r)
  BY DEF StatementOf, TableTypeOK, Grows, Made

LEMMA InsertFacts ==
  ASSUME TableTypeOK, NEW r, NEW w \in Account, NEW i \in 0 .. MaxKey, Insert(w, i),
         i = 0 \/ (r.stage = "revoked" /\ i = r.key /\ w = r.wallet)
  PROVE  StatementOf(r)
  <1>1. PICK k \in FreshKeys :
          table' = [table EXCEPT ![k] = [owner |-> w, status |-> "active", replaces |-> i]]
    BY DEF Insert
  <1>2. k \in Key /\ k \notin Made
    BY DEF FreshKeys, Made
  <1>3. TableTypeOK'
    BY <1>1, <1>2 DEF TableTypeOK, Status
  <1>4. \A j \in Key : j # k => table'[j] = table[j]
    BY <1>1 DEF TableTypeOK
  <1>5. table'[k] = [owner |-> w, status |-> "active", replaces |-> i]
    BY <1>1, <1>2 DEF TableTypeOK
  <1>6. Made \subseteq Key
    BY DEF Made
  <1>7. Grows
    BY <1>2, <1>4, <1>6 DEF Grows
  <1>8. QED BY <1>2, <1>3, <1>4, <1>5, <1>6, <1>7 DEF StatementOf

LEMMA RevokedFacts ==
  ASSUME TableTypeOK, NEW r, r.key \in Key, r.op \in {"rotate", "revoke"},
         table' = Revoked(r.key, r.wallet)
  PROVE  /\ StatementOf(r)
         /\ r.key \in Made /\ table[r.key].owner = r.wallet => table'[r.key].status = "revoked"
  <1>1. CASE OwnActive(r.key, r.wallet)
    <2>1. table' = [table EXCEPT ![r.key].status = "revoked"]
      BY <1>1 DEF Revoked
    <2>2. \A j \in Key : j # r.key => table'[j] = table[j]
      BY <2>1 DEF TableTypeOK
    <2>3. table'[r.key] = [table[r.key] EXCEPT !.status = "revoked"]
      BY <2>1 DEF TableTypeOK
    <2>4. r.key \in Made /\ table[r.key].owner = r.wallet
      BY <1>1 DEF OwnActive, Made
    <2>5. /\ table'[r.key].owner = table[r.key].owner
          /\ table'[r.key].replaces = table[r.key].replaces
          /\ table'[r.key].status = "revoked"
      BY <2>3 DEF TableTypeOK
    <2>6. TableTypeOK'
      BY <2>1 DEF TableTypeOK, Status
    <2>7. Made \subseteq Key
      BY DEF Made
    <2>8. QED BY <2>2, <2>4, <2>5, <2>6, <2>7 DEF StatementOf, Grows
  <1>2. CASE ~OwnActive(r.key, r.wallet)
    <2>1. UNCHANGED table
      BY <1>2 DEF Revoked
    <2>2. r.key \in Made /\ table[r.key].owner = r.wallet => table[r.key].status = "revoked"
      BY <1>2 DEF OwnActive, Made, TableTypeOK, Status
    <2>3. QED BY <2>1, <2>2, NothingStated
  <1>3. QED BY <1>1, <1>2

LEMMA KeyFacts == 0 \notin Key /\ Key \subseteq 0 .. MaxKey /\ None \notin Account
  BY KeyConstants, SessionConstants DEF Key

\* A statement moves its own request on and keeps what is known of it.
LEMMA ServeFacts ==
  ASSUME TypeOK, NEW r \in Request, RequestInv(r), NEW stage \in Stage, Serve(r, stage)
  PROVE  /\ Reached(r, stage) \in Request
         /\ StatementOf(r)
         /\ Reached(r, stage).rows \subseteq Made
         /\ stage \in {"selected", "revoked"} =>
              r.op = "rotate" /\ table[r.key].owner = r.wallet
         /\ stage = "revoked" => table'[r.key].status = "revoked"
  <1>1. TableTypeOK
    BY DEF TypeOK, TableTypeOK
  <1>2. RowsOf(r.wallet) \subseteq Made /\ Made \subseteq Key
    BY DEF RowsOf, Made
  <1>3. /\ Reached(r, stage) \in Request
        /\ Reached(r, stage).rows \subseteq Made
    BY <1>2 DEF Reached, Request
  <1>4. r.wallet \in Account /\ r.key \in 0 .. MaxKey
    BY DEF Request
  <1>5. CASE stage = "ok"
    <2>1. CASE r.op = "list" /\ UNCHANGED table
      BY <1>1, <1>3, <1>5, <2>1, NothingStated
    <2>2. CASE r.op = "create" /\ Insert(r.wallet, 0)
      BY <1>1, <1>3, <1>4, <1>5, <2>2, KeyConstants, InsertFacts
    <2>3. CASE r.op = "revoke" /\ table' = Revoked(r.key, r.wallet)
      BY <1>1, <1>2, <1>3, <1>5, <2>3, RevokedFacts DEF RequestInv
    <2>4. CASE r.op = "rotate" /\ r.stage = "revoked" /\ Insert(r.wallet, r.key)
      BY <1>1, <1>3, <1>4, <1>5, <2>4, InsertFacts
    <2>5. QED BY <1>5, <2>1, <2>2, <2>3, <2>4 DEF Serve
  <1>6. CASE stage = "selected"
    <2>1. r.op = "rotate" /\ OwnActive(r.key, r.wallet) /\ UNCHANGED table
      BY <1>6 DEF Serve
    <2>2. QED BY <1>1, <1>3, <1>6, <2>1, NothingStated DEF OwnActive
  <1>7. CASE stage = "revoked"
    <2>1. r.op = "rotate" /\ r.stage = "selected" /\ table' = Revoked(r.key, r.wallet)
      BY <1>7 DEF Serve
    <2>2. r.key \in Made /\ table[r.key].owner = r.wallet
      BY <2>1 DEF RequestInv
    <2>3. QED BY <1>1, <1>2, <1>3, <1>7, <2>1, <2>2, RevokedFacts
  <1>8. stage # "sent"
    BY DEF Serve
  <1>9. QED BY <1>5, <1>6, <1>7, <1>8 DEF Stage

\* What is known of a request that a step leaves alone stays true of it.
LEMMA RequestStays ==
  ASSUME TypeOK, NEW r \in Request, RequestInv(r), Grows, TableTypeOK', asked \subseteq asked'
  PROVE  RequestInv(r)'
  <1>1. Made \subseteq Made'
    BY DEF Grows, Made, TableTypeOK
  <1>2. Made \subseteq Key
    BY DEF Made
  <1>3. r.stage \in {"selected", "revoked"} => r.key \in Made
    BY DEF RequestInv
  <1>4. QED BY <1>1, <1>2, <1>3 DEF RequestInv, Grows

---------------------------------------------------------------------------
(* The three invariants, step by step *)

\* A statement keeps what is known of the table and of what the page shows.
LEMMA StatementKeeps ==
  ASSUME IInv, NEW r \in Request, RequestInv(r), StatementOf(r), UNCHANGED asked
  PROVE  /\ TableInv'
         /\ UNCHANGED <<keys, modal>> => ShownInv'
  <1>1. Made \subseteq Made' /\ Made \subseteq Key
    BY DEF StatementOf, Grows, Made, TableTypeOK, IInv, TypeOK
  <1>2. TableTypeOK /\ TableTypeOK'
    BY DEF StatementOf, TableTypeOK, IInv, TypeOK
  <1>3. ASSUME NEW k \in Key, table'[k].replaces # 0
        PROVE  k \in Made'
    BY <1>1, <1>3 DEF StatementOf, Grows, IInv, TableInv, Made
  <1>4. ASSUME NEW k \in Key, table'[k].status = "revoked"
        PROVE  k \in asked'
    <2>1. CASE k \in Made
      BY <1>1, <1>4, <2>1 DEF StatementOf, IInv, TableInv, OnlyItsOwnerRevokes, RequestInv
    <2>2. CASE k \notin Made
      BY <1>4, <2>2 DEF StatementOf, Made
    <2>3. QED BY <2>1, <2>2
  <1>5. ASSUME NEW k \in Key, NEW j \in Key, table'[k].replaces = j
        PROVE  table'[j].status = "revoked" /\ table'[j].owner = table'[k].owner
    <2>1. CASE table[k].replaces = j
      <3>1. k \in Made
        BY <2>1, KeyFacts DEF IInv, TableInv
      <3>2. table[j].status = "revoked" /\ table[j].owner = table[k].owner
        BY <2>1 DEF IInv, TableInv, ReplacedKeyIsDead
      <3>3. j \in Made
        BY <3>2 DEF Made
      <3>4. QED BY <3>1, <3>2, <3>3 DEF StatementOf, Grows
    <2>2. CASE table[k].replaces # j
      <3>1. r.stage = "revoked" /\ j = r.key /\ table'[k].owner = r.wallet
        BY <1>5, <2>2, KeyFacts DEF StatementOf, Grows
      <3>2. /\ r.op = "rotate" /\ table[j].owner = r.wallet
            /\ table[j].status = "revoked" /\ j \in Made
        BY <3>1 DEF RequestInv
      <3>3. QED BY <3>1, <3>2 DEF StatementOf, Grows
    <2>3. QED BY <2>1, <2>2
  <1>6. TableInv'
    BY <1>3, <1>4, <1>5 DEF TableInv, ReplacedKeyIsDead, OnlyItsOwnerRevokes
  <1>7. UNCHANGED <<keys, modal>> => ShownInv'
    BY <1>1 DEF IInv, ShownInv
  <1>8. QED BY <1>6, <1>7

LEMMA HeldFacts == TypeOK => Held \subseteq Request
  BY DEF TypeOK, Held

LEMMA HeldStay ==
  ASSUME IInv, Grows, TableTypeOK', asked \subseteq asked', NEW r \in Held
  PROVE  RequestInv(r)'
  BY HeldFacts, RequestStays DEF IInv

\* When no row changes.
LEMMA TableStays ==
  ASSUME IInv, UNCHANGED table, asked \subseteq asked'
  PROVE  /\ Grows /\ TableTypeOK' /\ TableInv' /\ Made' = Made
         /\ \A r \in Held : RequestInv(r)'
  <1>1. TableTypeOK /\ TableTypeOK' /\ Grows /\ Made' = Made
    BY DEF IInv, TypeOK, TableTypeOK, Grows, Made
  <1>2. TableInv'
    BY <1>1 DEF IInv, TableInv, ReplacedKeyIsDead, OnlyItsOwnerRevokes
  <1>3. QED BY <1>1, <1>2, HeldStay

LEMMA AskedFacts ==
  ASSUME NEW op \in {"create", "rotate", "revoke", "list"}, NEW w \in Account, NEW k \in 0 .. MaxKey
  PROVE  /\ Asked(op, w, k) \in Request
         /\ op \notin {"rotate", "revoke"} => RequestInv(Asked(op, w, k))'
         /\ op \in {"rotate", "revoke"} /\ k \in Made' /\ (table'[k].owner = w => k \in asked')
              => RequestInv(Asked(op, w, k))'
  BY DEF Asked, Request, Stage, RequestInv

\* A statement for a request that is held.
LEMMA HeldServed ==
  ASSUME IInv, NEW r \in Held, NEW stage \in Stage, Serve(r, stage), UNCHANGED asked,
         NEW q, q = Reached(r, stage)
  PROVE  /\ q \in Request
         /\ TableTypeOK' /\ TableInv'
         /\ UNCHANGED <<keys, modal>> => ShownInv'
         /\ \A h \in Held : RequestInv(h)'
         /\ RequestInv(q)'
  <1>1. TypeOK /\ r \in Request /\ RequestInv(r)
    BY HeldFacts DEF IInv
  <1>2. /\ q \in Request /\ StatementOf(r)
        /\ q.rows \subseteq Made
        /\ stage \in {"selected", "revoked"} =>
             r.op = "rotate" /\ table[r.key].owner = r.wallet
        /\ stage = "revoked" => table'[r.key].status = "revoked"
    BY <1>1, ServeFacts
  <1>3. TableTypeOK' /\ Grows
    BY <1>2 DEF StatementOf
  <1>4. TableInv' /\ (UNCHANGED <<keys, modal>> => ShownInv')
    BY <1>1, <1>2, StatementKeeps
  <1>5. \A h \in Held : RequestInv(h)'
    BY <1>3, HeldStay
  <1>6. RequestInv(q)'
    <2>1. RequestInv(r)'
      BY <1>5
    <2>2. Made \subseteq Made'
      BY <1>3 DEF Grows, Made, TableTypeOK
    <2>3. stage \in {"selected", "revoked"} => r.key \in Made
      BY <1>1, <1>2 DEF RequestInv
    <2>4. stage \in {"selected", "revoked"} => table'[r.key].owner = r.wallet
      BY <1>2, <1>3, <2>3 DEF Grows
    <2>5. q.op = r.op /\ q.wallet = r.wallet /\ q.key = r.key /\ q.stage = stage
      BY DEF Reached
    <2>6. QED BY <1>2, <2>1, <2>2, <2>4, <2>5 DEF RequestInv
  <1>7. QED BY <1>2, <1>3, <1>4, <1>5, <1>6

LEMMA InitIInv == Init => IInv
  <1> SUFFICES ASSUME Init PROVE IInv
    OBVIOUS
  <1>1. TypeOK
    <2>1. table \in [Key -> [owner : Account \cup {None}, status : Status, replaces : 0 .. MaxKey]]
      BY KeyConstants DEF Init, Status
    <2>2. modal \in Modal
      BY DEF Init, Modal, NoModal
    <2>3. SessionTypeOK
      BY DEF Init, SessionInit, SessionTypeOK
    <2>4. QED BY <2>1, <2>2, <2>3 DEF Init, TypeOK
  <1>2. Held = {}
    BY DEF Init, Held
  <1>3. ShownInv
    BY DEF Init, ShownInv, NoModal
  <1>4. TableInv
    BY KeyFacts DEF Init, TableInv, ReplacedKeyIsDead, OnlyItsOwnerRevokes
  <1>5. QED BY <1>1, <1>2, <1>3, <1>4 DEF IInv

LEMMA SessionTypeStep ==
  ASSUME TypeOK, SessionNext \/ SessionReloads \/ UNCHANGED sessionVars
  PROVE  SessionTypeOK'
  BY DEF TypeOK, SessionTypeOK, SessionNext, ConnectWallet, WalletAnswers, DisconnectWallet,
         LogoutEnds, SessionReloads, sessionVars

LEMMA SessionStepIInv == IInv /\ SessionStep(SessionNext) => IInv'
  <1> SUFFICES ASSUME IInv, SessionStep(SessionNext) PROVE IInv'
    OBVIOUS
  <1> USE DEF SessionStep
  <1>1. SessionTypeOK' /\ address' \in Account \cup {None}
    BY SessionTypeStep DEF IInv, SessionTypeOK
  <1>2. \/ lists' = lists
        \/ address' # None /\ lists' = lists \cup {Asked("list", address', 0)}
    BY DEF AddressEffect
  <1>3. PICK w : w = address'
    OBVIOUS
  <1>4. w \in Account => Asked("list", w, 0) \in Request /\ RequestInv(Asked("list", w, 0))'
    BY AskedFacts, KeyConstants
  <1>5. TypeOK'
    BY <1>1, <1>2, <1>3, <1>4 DEF IInv, TypeOK, AddressEffect
  <1>6. TableInv' /\ Made' = Made /\ \A r \in Held : RequestInv(r)'
    BY TableStays
  <1>7. \A r \in Held' : RequestInv(r)'
    BY <1>1, <1>2, <1>3, <1>4, <1>6 DEF Held
  <1>8. QED BY <1>5, <1>6, <1>7 DEF IInv, ShownInv

LEMMA ServerIInv == IInv /\ (ServeAction \/ ServeOrphan \/ ServeList) => IInv'
  <1>1. ASSUME IInv, ServeAction PROVE IInv'
    <2>1. PICK stage \in Stage : Serve(action, stage) /\ action' = Reached(action, stage)
      BY <1>1 DEF ServeAction
    <2>2. PICK q : q = Reached(action, stage)
      OBVIOUS
    <2>3. action \in Held /\ UNCHANGED <<asked, keys, modal>>
      BY <1>1 DEF ServeAction, Held
    <2>4. /\ q \in Request /\ TableTypeOK' /\ TableInv' /\ ShownInv'
          /\ \A h \in Held : RequestInv(h)'
          /\ RequestInv(q)'
      BY <1>1, <2>1, <2>2, <2>3, HeldServed
    <2>5. Held' \subseteq Held \cup {q}
      BY <1>1, <2>1, <2>2 DEF ServeAction, Held
    <2>6. TypeOK'
      BY <1>1, <2>1, <2>2, <2>4 DEF IInv, TypeOK, TableTypeOK, ServeAction, SessionTypeOK, sessionVars
    <2>7. QED BY <2>4, <2>5, <2>6 DEF IInv
  <1>2. ASSUME IInv, ServeOrphan PROVE IInv'
    <2> USE DEF ServeOrphan
    <2>1. PICK r \in orphans :
            \/ \E stage \in Stage :
                 /\ Serve(r, stage)
                 /\ orphans' = (orphans \ {r}) \cup (IF stage = "ok" THEN {} ELSE {Reached(r, stage)})
            \/ orphans' = orphans \ {r} /\ UNCHANGED table
      BY <1>2
    <2>2. r \in Held /\ UNCHANGED <<asked, keys, modal, lists, action, loading, sessionVars>>
      BY <1>2, <2>1 DEF Held, pageVars
    <2>3. ASSUME NEW stage \in Stage, Serve(r, stage),
                 orphans' = (orphans \ {r}) \cup (IF stage = "ok" THEN {} ELSE {Reached(r, stage)})
          PROVE  IInv'
      <3>1. PICK q : q = Reached(r, stage)
        OBVIOUS
      <3>2. /\ q \in Request /\ TableTypeOK' /\ TableInv' /\ ShownInv'
            /\ \A h \in Held : RequestInv(h)'
            /\ RequestInv(q)'
        BY <1>2, <2>2, <2>3, <3>1, HeldServed
      <3>3. orphans' \subseteq orphans \cup {q}
        BY <2>3, <3>1
      <3>4. Held' \subseteq Held \cup {q}
        BY <2>2, <3>3 DEF Held
      <3>5. TypeOK'
        BY <1>2, <2>2, <3>2, <3>3 DEF IInv, TypeOK, TableTypeOK, SessionTypeOK, sessionVars
      <3>6. QED BY <3>2, <3>4, <3>5 DEF IInv
    <2>4. CASE orphans' = orphans \ {r} /\ UNCHANGED table
      <3>1. TableInv' /\ Made' = Made /\ \A h \in Held : RequestInv(h)'
        BY <1>2, <2>2, <2>4, TableStays
      <3>2. Held' \subseteq Held
        BY <2>2, <2>4 DEF Held
      <3>3. TypeOK'
        BY <1>2, <2>2, <2>4 DEF IInv, TypeOK, SessionTypeOK, sessionVars
      <3>4. QED BY <1>2, <2>2, <3>1, <3>2, <3>3 DEF IInv, ShownInv
    <2>5. QED BY <2>1, <2>3, <2>4
  <1>3. ASSUME IInv, ServeList PROVE IInv'
    <2> USE DEF ServeList
    <2>1. PICK l \in lists, stage \in Stage :
            Serve(l, stage) /\ lists' = (lists \ {l}) \cup {Reached(l, stage)}
      BY <1>3
    <2>2. PICK q : q = Reached(l, stage)
      OBVIOUS
    <2>3. l \in Held /\ UNCHANGED <<asked, keys, modal, orphans, action, loading, sessionVars>>
      BY <1>3, <2>1 DEF Held
    <2>4. /\ q \in Request /\ TableTypeOK' /\ TableInv' /\ ShownInv'
          /\ \A h \in Held : RequestInv(h)'
          /\ RequestInv(q)'
      BY <1>3, <2>1, <2>2, <2>3, HeldServed
    <2>5. Held' \subseteq Held \cup {q}
      BY <2>1, <2>2, <2>3 DEF Held
    <2>6. TypeOK'
      BY <1>3, <2>1, <2>2, <2>3, <2>4 DEF IInv, TypeOK, TableTypeOK, SessionTypeOK, sessionVars
    <2>7. QED BY <2>4, <2>5, <2>6 DEF IInv
  <1>4. QED BY <1>1, <1>2, <1>3

\* A step of the page that changes no row and asks for nothing.
LEMMA PageStepIInv ==
  ASSUME IInv, UNCHANGED table, asked' = asked, TypeOK', Held' \subseteq Held, ShownInv'
  PROVE  IInv'
  BY TableStays DEF IInv

LEMMA ConfirmIInv == IInv /\ Confirm => IInv'
  <1> SUFFICES ASSUME IInv, Confirm PROVE IInv'
    OBVIOUS
  <1> USE DEF Confirm
  <1>1. PICK q, op, w, k : q = Asked(op, w, k) /\ op = modal.type /\ w = address /\ k = modal.key
    OBVIOUS
  <1>2. w \in Account /\ k \in 0 .. MaxKey /\ op \in {"create", "rotate", "revoke"}
    BY <1>1, KeyFacts, KeyConstants DEF IInv, TypeOK, SessionTypeOK, Modal
  <1>3. op \in {"rotate", "revoke"} => k \in Made
    BY <1>1 DEF IInv, ShownInv
  <1>4. asked' \subseteq Key /\ asked \subseteq asked'
    BY DEF IInv, TypeOK
  <1>5. Made' = Made /\ TableInv' /\ \A r \in Held : RequestInv(r)'
    BY <1>4, TableStays
  <1>6. op \in {"rotate", "revoke"} => k \in Made' /\ (table'[k].owner = w => k \in asked')
    BY <1>1, <1>3, <1>5 DEF Made
  <1>7. q \in Request /\ RequestInv(q)'
    BY <1>1, <1>2, <1>6, AskedFacts
  <1>8. Held' \subseteq Held \cup {q}
    BY <1>1 DEF Held
  <1>9. TypeOK'
    BY <1>1, <1>4, <1>7 DEF IInv, TypeOK, SessionTypeOK, sessionVars
  <1>10. QED BY <1>5, <1>7, <1>8, <1>9 DEF IInv, ShownInv

LEMMA AnsweredIInv == IInv /\ Answered => IInv'
  <1> SUFFICES ASSUME IInv, Answered PROVE IInv'
    OBVIOUS
  <1> USE DEF Answered
  <1>1. PICK q : q = Asked("list", action.wallet, 0)
    OBVIOUS
  <1>2. action.wallet \in Account
    BY DEF IInv, TypeOK, Request
  <1>3. q \in Request /\ RequestInv(q)'
    BY <1>1, <1>2, KeyConstants, AskedFacts
  <1>4. Made' = Made /\ TableInv' /\ \A r \in Held : RequestInv(r)'
    BY TableStays
  <1>5. Held' \subseteq Held \cup {q}
    BY <1>1 DEF Held
  <1>6. modal' \in Modal /\ modal'.type \notin {"rotate", "revoke"}
    BY DEF Modal, NoModal
  <1>7. TypeOK'
    BY <1>1, <1>3, <1>6 DEF IInv, TypeOK, SessionTypeOK, sessionVars
  <1>8. QED BY <1>3, <1>4, <1>5, <1>6, <1>7 DEF IInv, ShownInv

LEMMA FetchedFacts ==
  ASSUME IInv, NEW l \in Held, Fetched(l)
  PROVE  keys' \subseteq Made /\ keys' \subseteq Key /\ loading' \in BOOLEAN
  BY DEF IInv, TypeOK, ShownInv, RequestInv, Fetched, Made

LEMMA AbandonFacts ==
  ASSUME TypeOK, Abandon
  PROVE  orphans' \subseteq Request /\ orphans' \subseteq Held
  BY DEF TypeOK, Abandon, Held

LEMMA PageIInv ==
  ASSUME IInv, OpenModal \/ CloseModal \/ ActionFails \/ ActionEnds \/ ListEnds
  PROVE  IInv'
  <1>1. CASE OpenModal
    <2>1. UNCHANGED <<sessionVars, table, orphans, keys, loading, action, lists, asked>>
      BY <1>1 DEF OpenModal
    <2>2. \/ modal' = [type |-> "create", key |-> 0]
          \/ \E k \in keys, type \in {"rotate", "revoke"} : modal' = [type |-> type, key |-> k]
      BY <1>1 DEF OpenModal
    <2>3. modal' \in Modal /\ (modal'.type \in {"rotate", "revoke"} => modal'.key \in keys)
      BY <2>2 DEF Modal, IInv, TypeOK
    <2>4. TypeOK'
      BY <2>1, <2>3 DEF IInv, TypeOK, SessionTypeOK, sessionVars
    <2>5. ShownInv' /\ Held' = Held
      BY <2>1, <2>3 DEF IInv, ShownInv, Made, Held
    <2>6. QED BY <2>1, <2>4, <2>5, PageStepIInv
  <1>2. CASE CloseModal
    <2>1. TypeOK'
      BY <1>2 DEF CloseModal, IInv, TypeOK, SessionTypeOK, sessionVars, Modal, NoModal
    <2>2. ShownInv' /\ Held' = Held
      BY <1>2 DEF CloseModal, IInv, ShownInv, Made, Held, NoModal
    <2>3. QED BY <1>2, <2>1, <2>2, PageStepIInv DEF CloseModal
  <1>3. CASE ActionFails
    <2>1. TypeOK'
      BY <1>3, AbandonFacts DEF ActionFails, IInv, TypeOK, SessionTypeOK, sessionVars
    <2>2. ShownInv' /\ Held' \subseteq Held
      BY <1>3, AbandonFacts DEF ActionFails, IInv, ShownInv, Made, Held
    <2>3. QED BY <1>3, <2>1, <2>2, PageStepIInv DEF ActionFails
  <1>4. CASE ActionEnds
    <2>1. keys' \subseteq Made /\ keys' \subseteq Key /\ loading' \in BOOLEAN
      BY <1>4, FetchedFacts DEF ActionEnds, Held
    <2>2. TypeOK'
      BY <1>4, <2>1 DEF ActionEnds, IInv, TypeOK, SessionTypeOK, sessionVars
    <2>3. ShownInv' /\ Held' \subseteq Held
      BY <1>4, <2>1 DEF ActionEnds, IInv, ShownInv, Made, Held
    <2>4. QED BY <1>4, <2>2, <2>3, PageStepIInv DEF ActionEnds
  <1>5. CASE ListEnds
    <2>1. PICK l \in lists : Fetched(l) /\ lists' = lists \ {l}
      BY <1>5 DEF ListEnds
    <2>2. keys' \subseteq Made /\ keys' \subseteq Key /\ loading' \in BOOLEAN
      BY <2>1, FetchedFacts DEF Held
    <2>3. TypeOK'
      BY <1>5, <2>1, <2>2 DEF ListEnds, IInv, TypeOK, SessionTypeOK, sessionVars
    <2>4. ShownInv' /\ Held' \subseteq Held
      BY <1>5, <2>1, <2>2 DEF ListEnds, IInv, ShownInv, Made, Held
    <2>5. QED BY <1>5, <2>3, <2>4, PageStepIInv DEF ListEnds
  <1>6. QED BY <1>1, <1>2, <1>3, <1>4, <1>5

LEMMA ReopenIInv == IInv /\ Reopen => IInv'
  <1> SUFFICES ASSUME IInv, Reopen PROVE IInv'
    OBVIOUS
  <1> USE DEF Reopen
  <1>1. SessionTypeOK' /\ address' = address
    BY SessionTypeStep DEF IInv, SessionReloads, sessionVars
  <1>2. PICK q : q = Asked("list", address, 0)
    OBVIOUS
  <1>3. address # None => q \in Request /\ RequestInv(q)'
    <2> SUFFICES ASSUME address # None PROVE q \in Request /\ RequestInv(q)'
      OBVIOUS
    <2>1. PICK w \in Account : w = address
      BY DEF IInv, TypeOK, SessionTypeOK
    <2>2. QED BY <1>2, <2>1, KeyConstants, AskedFacts
  <1>4. TableInv' /\ Made' = Made /\ \A r \in Held : RequestInv(r)'
    BY TableStays
  <1>5. orphans' \subseteq Request /\ orphans' \subseteq Held
    BY AbandonFacts DEF IInv
  <1>6. lists' \subseteq {q} /\ (address = None => lists' = {})
    BY <1>2
  <1>7. TypeOK'
    BY <1>1, <1>3, <1>5, <1>6 DEF IInv, TypeOK, Modal, NoModal
  <1>8. ShownInv'
    BY DEF ShownInv, NoModal
  <1>9. \A r \in Held' : RequestInv(r)'
    BY <1>3, <1>4, <1>5, <1>6 DEF Held
  <1>10. QED BY <1>4, <1>7, <1>8, <1>9 DEF IInv

LEMMA NextIInv == IInv /\ [Next]_vars => IInv'
  <1> SUFFICES ASSUME IInv, [Next]_vars PROVE IInv'
    OBVIOUS
  <1>1. CASE UNCHANGED vars
    <2>1. TypeOK' /\ ShownInv' /\ Held' = Held
      BY <1>1 DEF vars, sessionVars, pageVars, IInv, TypeOK, SessionTypeOK, ShownInv, Made, Held
    <2>2. QED BY <1>1, <2>1, PageStepIInv DEF vars
  <1>2. QED BY <1>1, SessionStepIInv, ServerIInv, ConfirmIInv, AnsweredIInv, PageIInv, ReopenIInv
        DEF Next

LEMMA IInvariant == Spec => []IInv
  BY InitIInv, NextIInv, PTL DEF Spec

---------------------------------------------------------------------------
(* Theorems *)

\* The page, the session and the table keep their types.
THEOREM TypeCorrect == Spec => []TypeOK
  <1>1. IInv => TypeOK
    BY DEF IInv
  <1>2. QED BY <1>1, IInvariant, PTL

\* Whatever requests interleave, the key that a rotation replaced is revoked
\* (database.rs:1163).
THEOREM RotationCorrect == Spec => []ReplacedKeyIsDead
  <1>1. IInv => ReplacedKeyIsDead
    BY DEF IInv, TableInv
  <1>2. QED BY <1>1, IInvariant, PTL

\* Whatever rows, dialogs and answers of another wallet the page shows, only a
\* key whose own wallet confirmed it is revoked (page.tsx:57).
THEOREM RevocationCorrect == Spec => []OnlyItsOwnerRevokes
  <1>1. IInv => OnlyItsOwnerRevokes
    BY DEF IInv, TableInv
  <1>2. QED BY <1>1, IInvariant, PTL

\* Rows are hidden only while a list is under way that shows them again
\* (page.tsx:52).
THEOREM LoadingCorrect == Spec => []LoadingEnds
  <1>1. Init => LoadingEnds
    BY DEF Init, LoadingEnds
  <1>2. TypeOK /\ LoadingEnds /\ [Next]_vars => LoadingEnds'
    <2> SUFFICES ASSUME TypeOK, LoadingEnds, [Next]_vars PROVE LoadingEnds'
      OBVIOUS
    <2>1. CASE SessionStep(SessionNext)
      BY <2>1 DEF SessionStep, AddressEffect, LoadingEnds
    <2>2. CASE ServeAction
      <3>1. PICK stage \in Stage : action' = Reached(action, stage)
        BY <2>2 DEF ServeAction
      <3>2. action # None /\ UNCHANGED <<loading, lists>>
        BY <2>2 DEF ServeAction
      <3>3. Made \subseteq Key /\ \A w : RowsOf(w) \subseteq Key
        BY DEF Made, RowsOf
      <3>4. Reached(action, stage) \in Request
        BY <3>2, <3>3 DEF TypeOK, Reached, Request
      <3>5. action' # None /\ action'.op = action.op
        BY <3>1, <3>4, NoneIsNoRequest DEF Reached
      <3>6. QED BY <3>2, <3>5 DEF LoadingEnds
    <2>3. CASE ServeOrphan
      BY <2>3 DEF ServeOrphan, pageVars, LoadingEnds
    <2>4. CASE ServeList
      BY <2>4 DEF ServeList, LoadingEnds
    <2>5. CASE OpenModal \/ CloseModal
      BY <2>5 DEF OpenModal, CloseModal, LoadingEnds
    <2>6. CASE Confirm
      BY <2>6 DEF Confirm, LoadingEnds
    <2>7. CASE Answered
      <3>1. action # None /\ action' = Asked("list", action.wallet, 0)
        BY <2>7 DEF Answered
      <3>2. Asked("list", action.wallet, 0) \in Request
        BY <3>1, KeyConstants DEF TypeOK, Asked, Request, Stage
      <3>3. action' # None /\ action'.op = "list"
        BY <3>1, <3>2, NoneIsNoRequest DEF Asked
      <3>4. QED BY <3>3 DEF LoadingEnds
    <2>8. CASE ActionFails
      BY <2>8 DEF ActionFails, LoadingEnds
    <2>9. CASE ActionEnds \/ ListEnds
      BY <2>9 DEF ActionEnds, ListEnds, Fetched, LoadingEnds
    <2>10. CASE Reopen
      BY <2>10 DEF Reopen, LoadingEnds
    <2>11. CASE UNCHANGED vars
      BY <2>11 DEF vars, pageVars, LoadingEnds
    <2>12. QED BY <2>1, <2>2, <2>3, <2>4, <2>5, <2>6, <2>7, <2>8, <2>9, <2>10, <2>11 DEF Next
  <1>3. QED BY <1>1, <1>2, TypeCorrect, PTL DEF Spec

\* A row keeps its wallet and what it replaces, a revoked key never works
\* again, and a row is revoked by a request of its own wallet that is held.
RowsOnlyAge ==
  [][/\ Grows
     /\ \A k \in Made : table'[k].status # table[k].status =>
          \E r \in Held : /\ r.op \in {"rotate", "revoke"}
                          /\ r.key = k
                          /\ r.wallet = table[k].owner]_vars

\* So do all the statements of all requests, in whatever order and whether or
\* not a page waits for them (database.rs:1132).
THEOREM RowsAgeCorrect == Spec => RowsOnlyAge
  <1> DEFINE Ages ==
        /\ Grows
        /\ \A k \in Made : table'[k].status # table[k].status =>
             \E r \in Held : /\ r.op \in {"rotate", "revoke"}
                             /\ r.key = k
                             /\ r.wallet = table[k].owner
  <1>1. ASSUME IInv, NEW r \in Held, NEW stage \in Stage, Serve(r, stage) PROVE Ages
    <2>1. r \in Request /\ RequestInv(r)
      BY <1>1, HeldFacts DEF IInv
    <2>2. StatementOf(r)
      BY <1>1, <2>1, ServeFacts DEF IInv
    <2>3. QED BY <2>2, <1>1 DEF StatementOf
  <1>2. ASSUME IInv, UNCHANGED table PROVE Ages
    BY <1>2 DEF Grows, Made
  <1>3. IInv /\ [Next]_vars => [Ages]_vars
    <2> SUFFICES ASSUME IInv, Next PROVE Ages
      OBVIOUS
    <2> HIDE DEF Ages
    <2>1. CASE ServeAction
      <3>1. action \in Held
        BY <2>1 DEF ServeAction, Held
      <3>2. QED BY <1>1, <2>1, <3>1 DEF ServeAction
    <2>2. CASE ServeOrphan
      <3>1. orphans \subseteq Held
        BY DEF Held
      <3>2. QED BY <1>1, <1>2, <2>2, <3>1 DEF ServeOrphan
    <2>3. CASE ServeList
      <3>1. lists \subseteq Held
        BY DEF Held
      <3>2. QED BY <1>1, <2>3, <3>1 DEF ServeList
    <2>4. ~(ServeAction \/ ServeOrphan \/ ServeList) => UNCHANGED table
      BY DEF Next, SessionStep, OpenModal, CloseModal, Confirm, Answered, ActionFails,
         ActionEnds, ListEnds, Reopen
    <2>5. QED BY <1>2, <2>1, <2>2, <2>3, <2>4
  <1>4. QED BY <1>3, IInvariant, PTL DEF Spec, RowsOnlyAge
=============================================================================
