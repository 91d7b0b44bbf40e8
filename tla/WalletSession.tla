--------------------------- MODULE WalletSession ---------------------------
(***************************************************************************)
(* The wallet of the dashboard: connectWallet and disconnectWallet of      *)
(* frontend/src/components/lib/wallet-context.tsx, under the buttons of    *)
(* wallet-connect.tsx.  Each is an asynchronous function that other events *)
(* may overtake while it waits for the wallet or the server.  localStorage *)
(* holds the same address, written in the steps that set it.               *)
(*                                                                         *)
(* Of the SEP-10 session only what it does to the connection is kept: a    *)
(* disconnection of an authenticated user logs out first.                  *)
(***************************************************************************)
EXTENDS Integers

CONSTANTS
  Account,    \* public keys the user's wallet can answer with
  None        \* null

ASSUME SessionConstants == None \notin Account

VARIABLES
  address,        \* isConnected is address # None
  isConnecting,
  loggingOut      \* a disconnectWallet awaits logout (bound: one)

sessionVars == <<address, isConnecting, loggingOut>>

SessionTypeOK ==
  /\ address \in Account \cup {None}
  /\ isConnecting \in BOOLEAN
  /\ loggingOut \in BOOLEAN

SessionInit ==
  /\ address = None
  /\ isConnecting = FALSE
  /\ loggingOut = FALSE

---------------------------------------------------------------------------
ConnectWallet ==
  /\ address = None /\ ~isConnecting
  /\ isConnecting' = TRUE
  /\ UNCHANGED <<address, loggingOut>>

\* The first wallet found that answers with a key, or none.
WalletAnswers ==
  /\ isConnecting
  /\ isConnecting' = FALSE
  /\ address' \in Account \cup {address}
  /\ UNCHANGED loggingOut

\* disconnectWallet of a user who is signed in, and of one who is not.
DisconnectWallet ==
  /\ address # None
  /\ \/ /\ loggingOut' = TRUE
        /\ UNCHANGED address
     \/ /\ address' = None
        /\ UNCHANGED loggingOut
  /\ UNCHANGED isConnecting

\* The logout is answered or fails: disconnectWallet goes on.
LogoutEnds ==
  /\ loggingOut
  /\ loggingOut' = FALSE
  /\ address' = None
  /\ UNCHANGED isConnecting

\* The application is loaded again: what was awaited is forgotten, the
\* address comes back from localStorage.
SessionReloads ==
  /\ isConnecting' = FALSE
  /\ loggingOut' = FALSE
  /\ UNCHANGED address

SessionNext == ConnectWallet \/ WalletAnswers \/ DisconnectWallet \/ LogoutEnds

=============================================================================
