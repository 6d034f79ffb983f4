------------------------------ MODULE Sessions ------------------------------
(***************************************************************************)
(* Sign-in sessions of moziketo-wave: refresh tokens that live in Redis    *)
(* (services/auth.py), the OAuth state and exchange code that lead to one  *)
(* (services/oauth.py), and the users row they depend on (is_active and    *)
(* deleted_at, written by admin_ops.set_user_active and                    *)
(* account_lifecycle.delete_account).                                      *)
(*                                                                         *)
(* A handler is one running request.  Every await on Redis or Postgres is  *)
(* a point where other handlers run, so a handler that makes several such  *)
(* calls takes one action per call and remembers in `req' where it is.     *)
(* Redis commands and single-statement transactions are atomic.            *)
(***************************************************************************)
EXTENDS Naturals

CONSTANTS
    Users,    \* accounts (users.id)
    Jtis,     \* refresh token ids (uuid4 in create_refresh_token)
    Codes,    \* OAuth exchange codes
    States,   \* OAuth state values
    Reqs,     \* concurrent request handlers
    None,     \* no value: a missing Redis key, an unset local variable
    Granted   \* origin of a refresh token that a login issued

ASSUME SentinelAssumption ==
    /\ None \notin Users \cup Jtis \cup Codes \cup States
    /\ Jtis \cap Codes = {}
    /\ Granted \notin Jtis \cup Codes \cup {None}

VARIABLES
    account,       \* users row: is_active and deleted_at, as one status
    refresh,       \* Redis refresh:{jti} -> subject, None without the key
    sub,           \* the sub claim signed into the token of a jti, None: not minted
    parent,        \* history: what a token was issued for, a jti or a code
    codes,         \* Redis oauth_code:{code} -> user, None without the key
    states,        \* Redis oauth_state:{state} keys
    issued,        \* history: the user a callback issued a code to, None: no code yet
    spentStates,   \* history: states generated so far
    req            \* each handler's progress

vars == <<account, refresh, sub, parent, codes, states, issued, spentStates, req>>

(***************************************************************************)
(* "revived" is a soft-deleted row whose is_active an admin set back.      *)
(***************************************************************************)
AccountStatus == {"absent", "active", "inactive", "deleted", "revived"}

IsActive(status) == status \in {"active", "revived"}

Phase == {"idle", "issue", "rotate", "store", "popState", "upsert",
          "storeCode", "popCode", "check", "delete"}

Handler == [pc   : Phase,
            user : Users \cup {None},
            key  : Jtis \cup Codes \cup States \cup {None, Granted}]

Idle == [pc |-> "idle", user |-> None, key |-> None]

Goto(r, pc, user, key) ==
    req' = [req EXCEPT ![r] = [pc |-> pc, user |-> user, key |-> key]]

Finish(r) == req' = [req EXCEPT ![r] = Idle]

TypeOK ==
    /\ account \in [Users -> AccountStatus]
    /\ refresh \in [Jtis -> Users \cup {None}]
    /\ sub \in [Jtis -> Users \cup {None}]
    /\ parent \in [Jtis -> Jtis \cup Codes \cup {None, Granted}]
    /\ codes \in [Codes -> Users \cup {None}]
    /\ states \subseteq States
    /\ issued \in [Codes -> Users \cup {None}]
    /\ spentStates \subseteq States
    /\ req \in [Reqs -> Handler]

Init ==
    /\ account = [u \in Users |-> "absent"]
    /\ refresh = [j \in Jtis |-> None]
    /\ sub = [j \in Jtis |-> None]
    /\ parent = [j \in Jtis |-> None]
    /\ codes = [c \in Codes |-> None]
    /\ states = {}
    /\ issued = [c \in Codes |-> None]
    /\ spentStates = {}
    /\ req = [r \in Reqs |-> Idle]

-----------------------------------------------------------------------------
(* Accounts *)

Register(u) ==
    /\ account[u] = "absent"
    /\ account' = [account EXCEPT ![u] = "active"]
    /\ UNCHANGED <<refresh, sub, parent, codes, states, issued, spentStates, req>>

SetUserActive(u, active) ==
    /\ account[u] # "absent"
    /\ account' = [account EXCEPT ![u] =
           IF account[u] \in {"deleted", "revived"}
           THEN IF active THEN "revived" ELSE "deleted"
           ELSE IF active THEN "active" ELSE "inactive"]
    /\ UNCHANGED <<refresh, sub, parent, codes, states, issued, spentStates, req>>

(* get_current_user admits only an active, undeleted account.               *)
DeleteAccount(r, u) ==
    /\ req[r].pc = "idle"
    /\ account[u] = "active"
    /\ Goto(r, "delete", u, None)
    /\ UNCHANGED <<account, refresh, sub, parent, codes, states, issued, spentStates>>

(* The commit does not look at the row again.  Refresh tokens and pending   *)
(* codes of the account stay in Redis.                                      *)
DeleteAccountCommit(r) ==
    /\ req[r].pc = "delete"
    /\ account' = [account EXCEPT ![req[r].user] = "deleted"]
    /\ Finish(r)
    /\ UNCHANGED <<refresh, sub, parent, codes, states, issued, spentStates>>

-----------------------------------------------------------------------------
(* Login and token issue *)

Login(r, u) ==
    /\ req[r].pc = "idle"
    /\ account[u] = "active"
    /\ Goto(r, "issue", u, Granted)
    /\ UNCHANGED <<account, refresh, sub, parent, codes, states, issued, spentStates>>

\* Fault: token ids are not fresh.
IssueTokensReusedId(r, j) ==
    /\ req[r].pc = "issue"
    /\ refresh' = [refresh EXCEPT ![j] = req[r].user]
    /\ sub' = [sub EXCEPT ![j] = req[r].user]
    /\ parent' = [parent EXCEPT ![j] = req[r].key]
    /\ Finish(r)
    /\ UNCHANGED <<account, codes, states, issued, spentStates>>

IssueTokens(r, j) ==
    /\ req[r].pc = "issue"
    /\ sub[j] = None
    /\ refresh' = [refresh EXCEPT ![j] = req[r].user]
    /\ sub' = [sub EXCEPT ![j] = req[r].user]
    /\ parent' = [parent EXCEPT ![j] = req[r].key]
    /\ Finish(r)
    /\ UNCHANGED <<account, codes, states, issued, spentStates>>

-----------------------------------------------------------------------------
(* Refresh and logout.  A client may present any token ever minted. *)

\* Fault: the stored subject is not looked at, a valid signature is enough.
RefreshGetUnchecked(r, j) ==
    /\ req[r].pc = "idle"
    /\ sub[j] # None
    /\ Goto(r, "rotate", sub[j], j)
    /\ UNCHANGED <<account, refresh, sub, parent, codes, states, issued, spentStates>>

RefreshGet(r, j) ==
    /\ req[r].pc = "idle"
    /\ sub[j] # None
    /\ refresh[j] = sub[j]
    /\ Goto(r, "rotate", sub[j], j)
    /\ UNCHANGED <<account, refresh, sub, parent, codes, states, issued, spentStates>>

\* Fault: the old key is kept.
RefreshDeleteForgotten(r) ==
    /\ req[r].pc = "rotate"
    /\ Goto(r, "store", req[r].user, req[r].key)
    /\ UNCHANGED <<account, refresh, sub, parent, codes, states, issued, spentStates>>

RefreshDelete(r) ==
    /\ req[r].pc = "rotate"
    /\ refresh' = [refresh EXCEPT ![req[r].key] = None]
    /\ Goto(r, "store", req[r].user, req[r].key)
    /\ UNCHANGED <<account, sub, parent, codes, states, issued, spentStates>>

\* Fault: the new token is stored and the old key written back with it.
RefreshStoreBothKeys(r, n) ==
    /\ req[r].pc = "store"
    /\ sub[n] = None
    /\ refresh' = [refresh EXCEPT ![n] = req[r].user,
                                  ![req[r].key] = req[r].user]
    /\ sub' = [sub EXCEPT ![n] = req[r].user]
    /\ parent' = [parent EXCEPT ![n] = req[r].key]
    /\ Finish(r)
    /\ UNCHANGED <<account, codes, states, issued, spentStates>>

RefreshStore(r, n) ==
    /\ req[r].pc = "store"
    /\ sub[n] = None
    /\ refresh' = [refresh EXCEPT ![n] = req[r].user]
    /\ sub' = [sub EXCEPT ![n] = req[r].user]
    /\ parent' = [parent EXCEPT ![n] = req[r].key]
    /\ Finish(r)
    /\ UNCHANGED <<account, codes, states, issued, spentStates>>

Logout(j) ==
    /\ sub[j] # None
    /\ refresh[j] # None
    /\ refresh' = [refresh EXCEPT ![j] = None]
    /\ UNCHANGED <<account, sub, parent, codes, states, issued, spentStates, req>>

-----------------------------------------------------------------------------
(* OAuth sign-in: authorize, provider callback, code exchange *)

Authorize(s) ==
    /\ s \notin spentStates
    /\ states' = states \cup {s}
    /\ spentStates' = spentStates \cup {s}
    /\ UNCHANGED <<account, refresh, sub, parent, codes, issued, req>>

CallbackGetState(r, s) ==
    /\ req[r].pc = "idle"
    /\ s \in states
    /\ Goto(r, "popState", None, s)
    /\ UNCHANGED <<account, refresh, sub, parent, codes, states, issued, spentStates>>

(* The state is consumed even when it was stored for another provider.      *)
CallbackDeleteState(r) ==
    /\ req[r].pc = "popState"
    /\ states' = states \ {req[r].key}
    /\ \/ Goto(r, "upsert", None, None)
       \/ Finish(r)
    /\ UNCHANGED <<account, refresh, sub, parent, codes, issued, spentStates>>

(* u is the account the provider's profile resolves to: linked, found by    *)
(* its email, or created.                                                   *)
CallbackUpsert(r, u) ==
    /\ req[r].pc = "upsert"
    /\ account' = [account EXCEPT ![u] = IF @ = "absent" THEN "active" ELSE @]
    /\ IF IsActive(account'[u])
       THEN Goto(r, "storeCode", u, None)
       ELSE Finish(r)
    /\ UNCHANGED <<refresh, sub, parent, codes, states, issued, spentStates>>

StoreOAuthCode(r, c) ==
    /\ req[r].pc = "storeCode"
    /\ issued[c] = None
    /\ codes' = [codes EXCEPT ![c] = req[r].user]
    /\ issued' = [issued EXCEPT ![c] = req[r].user]
    /\ Finish(r)
    /\ UNCHANGED <<account, refresh, sub, parent, states, spentStates>>

\* Fault: the code itself is kept where its user belongs.
ExchangeGetCodeSwapped(r, c) ==
    /\ req[r].pc = "idle"
    /\ codes[c] # None
    /\ Goto(r, "popCode", c, codes[c])
    /\ UNCHANGED <<account, refresh, sub, parent, codes, states, issued, spentStates>>

ExchangeGetCode(r, c) ==
    /\ req[r].pc = "idle"
    /\ codes[c] # None
    /\ Goto(r, "popCode", codes[c], c)
    /\ UNCHANGED <<account, refresh, sub, parent, codes, states, issued, spentStates>>

ExchangeDeleteCode(r) ==
    /\ req[r].pc = "popCode"
    /\ codes' = [codes EXCEPT ![req[r].key] = None]
    /\ Goto(r, "check", req[r].user, req[r].key)
    /\ UNCHANGED <<account, refresh, sub, parent, states, issued, spentStates>>

\* Fault: the account is not looked up again after the code was popped.
ExchangeCheckSkipped(r) ==
    /\ req[r].pc = "check"
    /\ Goto(r, "issue", req[r].user, req[r].key)
    /\ UNCHANGED <<account, refresh, sub, parent, codes, states, issued, spentStates>>

ExchangeCheckUser(r) ==
    /\ req[r].pc = "check"
    /\ IF IsActive(account[req[r].user])
       THEN Goto(r, "issue", req[r].user, req[r].key)
       ELSE Finish(r)
    /\ UNCHANGED <<account, refresh, sub, parent, codes, states, issued, spentStates>>

-----------------------------------------------------------------------------
(* Time and failure *)

(* The TTL Redis was given with the key runs out. *)
ExpireKey ==
    /\ \/ /\ \E j \in Jtis : /\ refresh[j] # None
                             /\ refresh' = [refresh EXCEPT ![j] = None]
          /\ UNCHANGED <<codes, states>>
       \/ /\ \E c \in Codes : /\ codes[c] # None
                              /\ codes' = [codes EXCEPT ![c] = None]
          /\ UNCHANGED <<refresh, states>>
       \/ /\ \E s \in states : states' = states \ {s}
          /\ UNCHANGED <<refresh, codes>>
    /\ UNCHANGED <<account, sub, parent, issued, spentStates, req>>

(* A handler dies at an await: Redis or Postgres raises, the client goes    *)
(* away, the process stops.  What it already wrote stays.                   *)
Abort(r) ==
    /\ req[r].pc # "idle"
    /\ Finish(r)
    /\ UNCHANGED <<account, refresh, sub, parent, codes, states, issued, spentStates>>

-----------------------------------------------------------------------------

AccountStep ==
    \E u \in Users :
        \/ Register(u)
        \/ \E active \in BOOLEAN : SetUserActive(u, active)

DeletionStep ==
    \E r \in Reqs :
        \/ \E u \in Users : DeleteAccount(r, u)
        \/ DeleteAccountCommit(r)

TokenStep ==
    \/ \E j \in Jtis : Logout(j)
    \/ \E r \in Reqs :
        \/ \E u \in Users : Login(r, u)
        \/ \E j \in Jtis : IssueTokens(r, j)
        \/ \E j \in Jtis : RefreshGet(r, j)
        \/ RefreshDelete(r)
        \/ \E j \in Jtis : RefreshStore(r, j)

OAuthStep ==
    \/ \E s \in States : Authorize(s)
    \/ \E r \in Reqs :
        \/ \E s \in States : CallbackGetState(r, s)
        \/ CallbackDeleteState(r)
        \/ \E u \in Users : CallbackUpsert(r, u)
        \/ \E c \in Codes : StoreOAuthCode(r, c)
        \/ \E c \in Codes : ExchangeGetCode(r, c)
        \/ ExchangeDeleteCode(r)
        \/ ExchangeCheckUser(r)

Next ==
    \/ AccountStep
    \/ DeletionStep
    \/ TokenStep
    \/ OAuthStep
    \/ ExpireKey
    \/ \E r \in Reqs : Abort(r)

Spec == Init /\ [][Next]_vars

-----------------------------------------------------------------------------
(* Properties *)

(* A refresh token that was rotated into another is not accepted by any     *)
(* later refresh: its Redis key is gone, whatever requests overlapped.      *)
RotatedIsDead ==
    \A n \in Jtis : parent[n] \in Jtis => refresh[parent[n]] = None

(* Whoever holds a session is the user it was opened for: Redis never       *)
(* disagrees with the subject signed into the token, a rotation hands a     *)
(* session on to the user it was granted to, and an exchange opens one for  *)
(* the user the provider's callback issued the code to.                     *)
SessionsKeepTheirUser ==
    \A j \in Jtis :
        /\ refresh[j] \in {None, sub[j]}
        /\ parent[j] \in Jtis => sub[j] = sub[parent[j]]
        /\ parent[j] \in Codes => sub[j] = issued[parent[j]]

(* Logout, rotation and expiry are final: no later step of any handler      *)
(* makes a token id acceptable again once its key went away.                *)
RevokedIsFinal ==
    [][\A j \in Jtis :
          sub[j] # None /\ refresh[j] = None => refresh'[j] = None]_vars

(* The tokens that rotation made from j.                                    *)
Offspring(j) == {n \in Jtis : parent[n] = j}

(* No handler has read the key of j and is about to rotate it.              *)
NoRotationInFlight(j) ==
    \A r \in Reqs : req[r].pc \in {"rotate", "store"} => req[r].key # j

(* Once a token id is revoked and the rotations that had read it before are *)
(* over, no session is ever derived from it again: presenting it after a    *)
(* logout or after its rotation fails in refresh_tokens.                    *)
RevokedHasNoOffspring ==
    [][\A j \in Jtis :
          (sub[j] # None /\ refresh[j] = None /\ NoRotationInFlight(j))
              => NoRotationInFlight(j)' /\ Offspring(j)' = Offspring(j)]_vars

(* The sessions of a user that do not come from a rotation.                 *)
GrantsOf(u) == {j \in Jtis : parent[j] \notin Jtis /\ sub[j] = u}

(* No handler has passed the account check for u and is about to grant.     *)
NoGrantInFlight(u) ==
    \A r \in Reqs : req[r].pc = "issue" => req[r].user # u

(* While an account stays inactive and the grants that were under way when  *)
(* it was deactivated have finished, no login and no code issued earlier    *)
(* opens a session for it.                                                  *)
InactiveGetsNoNewSession ==
    [][\A u \in Users :
          (~IsActive(account[u]) /\ ~IsActive(account'[u]) /\ NoGrantInFlight(u))
              => NoGrantInFlight(u)' /\ GrantsOf(u)' = GrantsOf(u)]_vars

(* "Old refresh token is revoked (single-use rotation)", api/v1/auth.py:    *)
(* at most one token is ever rotated from a given token.                    *)
SingleUseRotation ==
    \A m, n \in Jtis : parent[m] \in Jtis /\ parent[m] = parent[n] => m = n
=============================================================================
