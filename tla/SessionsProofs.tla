--------------------------- MODULE SessionsProofs ---------------------------
(***************************************************************************)
(* Proofs about Sessions for any set of users, tokens, codes, states and   *)
(* handlers.  RotatedIsDead and SessionsKeepTheirUser are not inductive:   *)
(* a handler between its calls to Redis carries a token or a code and a    *)
(* user that must still fit what is stored, which HandlersFit, CodesFit    *)
(* and MintedFirst say.                                                    *)
(***************************************************************************)
EXTENDS Sessions, TLAPS

(* Nothing exists for a token id that was not minted.                       *)
MintedFirst ==
    \A j \in Jtis :
        /\ sub[j] = None => refresh[j] = None /\ parent[j] = None
        /\ parent[j] \in Jtis => sub[parent[j]] # None

(* What a handler holds between two calls: one about to rotate has a minted *)
(* token and its subject, and once it has deleted the old key, that key is  *)
(* gone for good; one about to open a session for a code has the user the   *)
(* code was issued to.                                                      *)
Fits(h) ==
    /\ h.pc \in {"rotate", "store"} =>
          h.key \in Jtis /\ h.user \in Users /\ sub[h.key] = h.user
    /\ h.pc = "store" => refresh[h.key] = None
    /\ h.pc \in {"storeCode", "delete"} => h.user \in Users
    /\ h.pc \in {"popCode", "check"} => h.key \in Codes
    /\ h.pc \in {"popCode", "check", "issue"} =>
          /\ h.user \in Users
          /\ h.key \in Codes \cup {Granted}
          /\ h.key \in Codes => issued[h.key] = h.user
    /\ h.pc = "popState" => h.key \in States

HandlersFit == \A r \in Reqs : Fits(req[r])

(* A code in Redis leads to the user it was issued to.                      *)
CodesFit == \A c \in Codes : codes[c] \in {None, issued[c]}

IInv ==
    /\ TypeOK
    /\ MintedFirst
    /\ HandlersFit
    /\ CodesFit
    /\ RotatedIsDead
    /\ SessionsKeepTheirUser

(* The initial state has no token and no handler under way.                 *)
LEMMA InitIInv == Init => IInv
  BY SentinelAssumption
  DEF Init, IInv, TypeOK, MintedFirst, HandlersFit, Fits, CodesFit, RotatedIsDead,
      SessionsKeepTheirUser, AccountStatus, Handler, Idle, Phase

(* Steps that touch neither tokens nor handlers.                            *)
LEMMA TokensUntouched ==
    ASSUME IInv, UNCHANGED <<refresh, sub, parent, issued, req>>, TypeOK', CodesFit'
    PROVE  IInv'
  BY DEF IInv, MintedFirst, HandlersFit, Fits, RotatedIsDead, SessionsKeepTheirUser

(* Registration and deactivation.                                           *)
LEMMA AccountStepIInv ==
    ASSUME IInv, AccountStep
    PROVE  IInv'
  <1>1. PICK u \in Users : \/ Register(u)
                           \/ \E active \in BOOLEAN : SetUserActive(u, active)
    BY DEF AccountStep
  <1>2. account' \in [Users -> AccountStatus]
    BY <1>1 DEF Register, SetUserActive, IInv, TypeOK, AccountStatus
  <1>3. UNCHANGED <<refresh, sub, parent, codes, states, issued, spentStates, req>>
    BY <1>1 DEF Register, SetUserActive
  <1>4. TypeOK'
    BY <1>2, <1>3 DEF IInv, TypeOK
  <1> QED
    BY <1>3, <1>4, TokensUntouched DEF IInv, CodesFit

(* Steps that leave the tokens alone and only move one handler r: the       *)
(* invariant holds after them if what r then holds fits.                    *)
LEMMA HandlerMoves ==
    ASSUME IInv, NEW r \in Reqs, NEW h \in Handler,
           req' = [req EXCEPT ![r] = h],
           UNCHANGED <<refresh, sub, parent, issued>>,
           account' \in [Users -> AccountStatus],
           codes' \in [Codes -> Users \cup {None}], CodesFit',
           states' \subseteq States,
           spentStates' \subseteq States,
           Fits(h)
    PROVE  IInv'
  <1>1. TypeOK'
    BY DEF IInv, TypeOK
  <1>2. ASSUME NEW q \in Reqs
        PROVE  Fits(req[q])'
    <2>1. CASE q = r
      <3>1. req'[q] = h
        BY <2>1 DEF IInv, TypeOK
      <3> QED
        BY <3>1 DEF Fits
    <2>2. CASE q # r
      <3>1. req'[q] = req[q]
        BY <2>2 DEF IInv, TypeOK
      <3> QED
        BY <3>1 DEF IInv, HandlersFit, Fits
    <2> QED
      BY <2>1, <2>2
  <1> QED
    BY <1>1, <1>2 DEF IInv, MintedFirst, HandlersFit, RotatedIsDead, SessionsKeepTheirUser

(* A key disappears: nothing that holds of stored tokens is lost.           *)
LEMMA KeyGone ==
    ASSUME IInv, NEW j \in Jtis,
           refresh' = [refresh EXCEPT ![j] = None],
           UNCHANGED <<account, sub, parent, codes, states, issued, spentStates, req>>
    PROVE  IInv'
  <1>1. /\ refresh'[j] = None
        /\ \A k \in Jtis : refresh'[k] \in {None, refresh[k]}
        /\ TypeOK'
    BY DEF IInv, TypeOK
  <1>2. MintedFirst'
    BY <1>1 DEF IInv, MintedFirst
  <1>3. HandlersFit'
    BY <1>1 DEF IInv, HandlersFit, Fits
  <1>4. RotatedIsDead'
    BY <1>1 DEF IInv, RotatedIsDead
  <1>5. SessionsKeepTheirUser' /\ CodesFit'
    BY <1>1 DEF IInv, SessionsKeepTheirUser, CodesFit
  <1> QED
    BY <1>1, <1>2, <1>3, <1>4, <1>5 DEF IInv

(* Minting: token n, not minted before, is stored for handler r's user u    *)
(* with parent p: the mark of a login, a code issued to u, or a token of u  *)
(* whose key is gone.                                                       *)
LEMMA TokenMinted ==
    ASSUME IInv, NEW r \in Reqs, NEW n \in Jtis, NEW u \in Users,
           NEW p \in Jtis \cup Codes \cup {Granted},
           sub[n] = None,
           refresh' = [refresh EXCEPT ![n] = u],
           sub' = [sub EXCEPT ![n] = u],
           parent' = [parent EXCEPT ![n] = p],
           p \in Codes => issued[p] = u,
           p \in Jtis => sub[p] = u /\ refresh[p] = None,
           Finish(r),
           UNCHANGED <<account, codes, states, issued, spentStates>>
    PROVE  IInv'
  <1>1. u # None /\ p # n
    BY SentinelAssumption
  <1>2. TypeOK'
    BY DEF IInv, TypeOK, Finish, Idle, Handler, Phase
  <1>3. /\ refresh'[n] = u /\ sub'[n] = u /\ parent'[n] = p
        /\ \A k \in Jtis \ {n} : refresh'[k] = refresh[k] /\ sub'[k] = sub[k]
                                  /\ parent'[k] = parent[k]
    BY DEF IInv, TypeOK
  <1>4. \A k \in Jtis : parent[k] # n
    BY DEF IInv, MintedFirst
  <1>5. MintedFirst'
    BY <1>1, <1>3, <1>4 DEF IInv, MintedFirst
  <1>6. ASSUME NEW q \in Reqs
        PROVE  Fits(req[q])'
    <2>1. CASE q = r
      <3>1. req'[q].pc = "idle"
        BY <2>1 DEF IInv, TypeOK, Finish, Idle
      <3> QED
        BY <3>1 DEF Fits
    <2>2. CASE q # r
      <3>1. req'[q] = req[q] /\ Fits(req[q])
        BY <2>2 DEF IInv, TypeOK, HandlersFit, Finish
      <3>2. req[q].pc \in {"rotate", "store"} => req[q].key \in Jtis \ {n}
        BY <3>1, SentinelAssumption DEF Fits
      <3> QED
        BY <1>3, <3>1, <3>2 DEF Fits
    <2> QED
      BY <2>1, <2>2
  <1>7. RotatedIsDead'
    BY <1>1, <1>3, <1>4 DEF IInv, RotatedIsDead
  <1>8. ASSUME NEW k \in Jtis
        PROVE  /\ refresh'[k] \in {None, sub'[k]}
               /\ parent'[k] \in Jtis => sub'[k] = sub'[parent'[k]]
               /\ parent'[k] \in Codes => sub'[k] = issued'[parent'[k]]
    <2>1. CASE k = n
      BY <1>1, <1>3, <2>1
    <2>2. CASE k # n
      <3>1. parent[k] # n /\ parent'[k] = parent[k] /\ sub'[k] = sub[k]
        BY <1>3, <1>4, <2>2
      <3>2. parent[k] \in Jtis => sub'[parent[k]] = sub[parent[k]]
        BY <1>3, <3>1
      <3> QED
        BY <1>3, <2>2, <3>1, <3>2 DEF IInv, SessionsKeepTheirUser
    <2> QED
      BY <2>1, <2>2
  <1>9. CodesFit'
    BY DEF IInv, CodesFit
  <1> QED
    BY <1>2, <1>5, <1>6, <1>7, <1>8, <1>9 DEF IInv, HandlersFit, SessionsKeepTheirUser

(* Deletion of an account by its user.                                      *)
LEMMA DeletionStepIInv ==
    ASSUME IInv, DeletionStep
    PROVE  IInv'
  <1>1. ASSUME NEW r \in Reqs, NEW u \in Users, DeleteAccount(r, u)
        PROVE  IInv'
    <2> DEFINE h == [pc |-> "delete", user |-> u, key |-> None]
    <2>1. h \in Handler
      BY DEF Handler, Phase
    <2> QED
      BY <1>1, <2>1, HandlerMoves DEF DeleteAccount, Goto, IInv, TypeOK, CodesFit, Fits
  <1>2. ASSUME NEW r \in Reqs, DeleteAccountCommit(r)
        PROVE  IInv'
    <2>1. Idle \in Handler /\ Idle.pc = "idle"
      BY DEF Handler, Phase, Idle
    <2>2. account' \in [Users -> AccountStatus]
      BY <1>2 DEF DeleteAccountCommit, IInv, TypeOK, AccountStatus
    <2>3. /\ req' = [req EXCEPT ![r] = Idle]
          /\ UNCHANGED <<refresh, sub, parent, codes, states, issued, spentStates>>
      BY <1>2 DEF DeleteAccountCommit, Finish
    <2> QED
      BY <2>1, <2>2, <2>3, HandlerMoves DEF IInv, TypeOK, CodesFit, Fits
  <1> QED
    BY <1>1, <1>2 DEF DeletionStep

(* Login, token issue, rotation and logout.                                 *)
LEMMA TokenStepIInv ==
    ASSUME IInv, TokenStep
    PROVE  IInv'
  <1>1. CASE \E j \in Jtis : Logout(j)
    BY <1>1, KeyGone DEF Logout
  <1>2. ASSUME NEW r \in Reqs, NEW u \in Users, Login(r, u)
        PROVE  IInv'
    <2> DEFINE h == [pc |-> "issue", user |-> u, key |-> Granted]
    <2>1. h \in Handler
      BY DEF Handler, Phase
    <2> QED
      BY <1>2, <2>1, HandlerMoves, SentinelAssumption
      DEF Login, Goto, IInv, TypeOK, CodesFit, Fits
  <1>3. ASSUME NEW r \in Reqs, NEW j \in Jtis, IssueTokens(r, j)
        PROVE  IInv'
    <2>1. /\ req[r].user \in Users
          /\ req[r].key \in Codes \cup {Granted}
          /\ req[r].key \in Codes => issued[req[r].key] = req[r].user
          /\ req[r].key \notin Jtis
      BY <1>3, SentinelAssumption DEF IssueTokens, IInv, HandlersFit, Fits
    <2> QED
      BY <1>3, <2>1, TokenMinted DEF IssueTokens
  <1>4. ASSUME NEW r \in Reqs, NEW j \in Jtis, RefreshGet(r, j)
        PROVE  IInv'
    <2> DEFINE h == [pc |-> "rotate", user |-> sub[j], key |-> j]
    <2>1. sub[j] \in Users
      BY <1>4 DEF RefreshGet, IInv, TypeOK
    <2>2. h \in Handler
      BY <2>1 DEF Handler, Phase
    <2> QED
      BY <1>4, <2>1, <2>2, HandlerMoves DEF RefreshGet, Goto, IInv, TypeOK, CodesFit, Fits
  <1>5. ASSUME NEW r \in Reqs, RefreshDelete(r)
        PROVE  IInv'
    <2> DEFINE j == req[r].key
               h == [pc |-> "store", user |-> req[r].user, key |-> j]
    <2>1. j \in Jtis /\ req[r].user \in Users /\ sub[j] = req[r].user
      BY <1>5 DEF RefreshDelete, IInv, HandlersFit, Fits
    <2>2. /\ refresh'[j] = None
          /\ \A k \in Jtis : refresh'[k] \in {None, refresh[k]}
          /\ UNCHANGED <<account, sub, parent, codes, states, issued, spentStates>>
          /\ req' = [req EXCEPT ![r] = h]
      BY <1>5, <2>1 DEF RefreshDelete, Goto, IInv, TypeOK
    <2>3. h \in Handler
      BY <2>1 DEF Handler, Phase
    <2>4. TypeOK'
      BY <1>5, <2>2, <2>3 DEF RefreshDelete, IInv, TypeOK
    <2>5. \A q \in Reqs : req'[q] = IF q = r THEN h ELSE req[q]
      BY <2>2 DEF IInv, TypeOK
    <2>6. ASSUME NEW q \in Reqs
          PROVE  Fits(req[q])'
      <3>1. CASE q = r
        <4>1. req'[q] = h
          BY <2>5, <3>1
        <4> QED
          BY <2>1, <2>2, <4>1 DEF Fits
      <3>2. CASE q # r
        <4>1. req'[q] = req[q] /\ Fits(req[q])
          BY <2>5, <3>2 DEF IInv, HandlersFit
        <4> QED
          BY <2>2, <4>1 DEF Fits
      <3> QED
        BY <3>1, <3>2
    <2>7. MintedFirst'
      BY <2>2 DEF IInv, MintedFirst
    <2>8. RotatedIsDead' /\ SessionsKeepTheirUser' /\ CodesFit'
      BY <2>2 DEF IInv, RotatedIsDead, SessionsKeepTheirUser, CodesFit
    <2> QED
      BY <2>4, <2>6, <2>7, <2>8 DEF IInv, HandlersFit
  <1>6. ASSUME NEW r \in Reqs, NEW n \in Jtis, RefreshStore(r, n)
        PROVE  IInv'
    <2>1. /\ req[r].key \in Jtis
          /\ req[r].user \in Users
          /\ sub[req[r].key] = req[r].user
          /\ refresh[req[r].key] = None
          /\ req[r].key \notin Codes
      BY <1>6, SentinelAssumption DEF RefreshStore, IInv, HandlersFit, Fits
    <2> QED
      BY <1>6, <2>1, TokenMinted DEF RefreshStore
  <1> QED
    BY <1>1, <1>2, <1>3, <1>4, <1>5, <1>6 DEF TokenStep

(* Authorize, callback and code exchange.                                   *)
LEMMA OAuthStepIInv ==
    ASSUME IInv, OAuthStep
    PROVE  IInv'
  <1>1. ASSUME NEW s \in States, Authorize(s)
        PROVE  IInv'
    <2>1. TypeOK'
      BY <1>1 DEF Authorize, IInv, TypeOK
    <2> QED
      BY <1>1, <2>1, TokensUntouched DEF Authorize, IInv, CodesFit
  <1>2. ASSUME NEW r \in Reqs, NEW s \in States, CallbackGetState(r, s)
        PROVE  IInv'
    <2> DEFINE h == [pc |-> "popState", user |-> None, key |-> s]
    <2>1. h \in Handler
      BY DEF Handler, Phase
    <2> QED
      BY <1>2, <2>1, HandlerMoves DEF CallbackGetState, Goto, IInv, TypeOK, CodesFit, Fits
  <1>3. ASSUME NEW r \in Reqs, CallbackDeleteState(r)
        PROVE  IInv'
    <2>1. PICK h \in {Idle, [pc |-> "upsert", user |-> None, key |-> None]} :
             req' = [req EXCEPT ![r] = h]
      BY <1>3 DEF CallbackDeleteState, Goto, Finish
    <2>2. h \in Handler /\ h.pc \in {"idle", "upsert"}
      BY <2>1 DEF Handler, Phase, Idle
    <2> QED
      BY <1>3, <2>1, <2>2, HandlerMoves DEF CallbackDeleteState, IInv, TypeOK, CodesFit, Fits
  <1>4. ASSUME NEW r \in Reqs, NEW u \in Users, CallbackUpsert(r, u)
        PROVE  IInv'
    <2>1. PICK h \in {Idle, [pc |-> "storeCode", user |-> u, key |-> None]} :
             req' = [req EXCEPT ![r] = h]
      BY <1>4 DEF CallbackUpsert, Goto, Finish
    <2>2. h \in Handler /\ h.pc \in {"idle", "storeCode"}
          /\ (h.pc = "storeCode" => h.user \in Users)
      BY <2>1 DEF Handler, Phase, Idle
    <2>3. account' \in [Users -> AccountStatus]
      BY <1>4 DEF CallbackUpsert, IInv, TypeOK, AccountStatus
    <2> QED
      BY <1>4, <2>1, <2>2, <2>3, HandlerMoves DEF CallbackUpsert, IInv, TypeOK, CodesFit, Fits
  <1>5. ASSUME NEW r \in Reqs, NEW c \in Codes, StoreOAuthCode(r, c)
        PROVE  IInv'
    <2> DEFINE u == req[r].user
    <2>1. u \in Users
      BY <1>5 DEF StoreOAuthCode, IInv, HandlersFit, Fits
    <2>2. /\ issued[c] = None
          /\ codes' = [codes EXCEPT ![c] = u]
          /\ issued' = [issued EXCEPT ![c] = u]
          /\ req' = [req EXCEPT ![r] = Idle]
          /\ UNCHANGED <<account, refresh, sub, parent, states, spentStates>>
      BY <1>5 DEF StoreOAuthCode, Finish
    <2>3. TypeOK'
      BY <2>1, <2>2 DEF IInv, TypeOK, Handler, Phase, Idle
    <2>4. \A d \in Codes : issued[d] # None => issued'[d] = issued[d]
      BY <2>2 DEF IInv, TypeOK
    <2>5. CodesFit'
      BY <2>2 DEF IInv, TypeOK, CodesFit
    <2>6. ASSUME NEW q \in Reqs
          PROVE  Fits(req[q])'
      <3>1. CASE q = r
        BY <2>2, <3>1 DEF IInv, TypeOK, Idle, Fits
      <3>2. CASE q # r
        <4>1. req'[q] = req[q] /\ Fits(req[q])
          BY <2>2, <3>2 DEF IInv, TypeOK, HandlersFit
        <4> QED
          BY <2>2, <2>4, <4>1, SentinelAssumption DEF Fits
      <3> QED
        BY <3>1, <3>2
    <2>7. SessionsKeepTheirUser'
      <3>1. \A j \in Jtis : parent[j] \in Codes => sub[j] # None /\ sub[j] = issued[parent[j]]
        BY SentinelAssumption DEF IInv, MintedFirst, SessionsKeepTheirUser
      <3> QED
        BY <2>2, <2>4, <3>1 DEF IInv, SessionsKeepTheirUser
    <2>8. MintedFirst' /\ RotatedIsDead'
      BY <2>2 DEF IInv, MintedFirst, RotatedIsDead
    <2> QED
      BY <2>3, <2>5, <2>6, <2>7, <2>8 DEF IInv, HandlersFit
  <1>6. ASSUME NEW r \in Reqs, NEW c \in Codes, ExchangeGetCode(r, c)
        PROVE  IInv'
    <2> DEFINE h == [pc |-> "popCode", user |-> codes[c], key |-> c]
    <2>1. codes[c] \in Users /\ issued[c] = codes[c]
      BY <1>6 DEF ExchangeGetCode, IInv, TypeOK, CodesFit
    <2>2. h \in Handler
      BY <2>1 DEF Handler, Phase
    <2>3. Fits(h)
      BY <2>1 DEF Fits
    <2> QED
      BY <1>6, <2>2, <2>3, HandlerMoves DEF ExchangeGetCode, Goto, IInv, TypeOK, CodesFit
  <1>7. ASSUME NEW r \in Reqs, ExchangeDeleteCode(r)
        PROVE  IInv'
    <2> DEFINE h == [pc |-> "check", user |-> req[r].user, key |-> req[r].key]
    <2>1. /\ req[r].user \in Users /\ req[r].key \in Codes
          /\ issued[req[r].key] = req[r].user
      BY <1>7 DEF ExchangeDeleteCode, IInv, HandlersFit, Fits
    <2>2. h \in Handler
      BY <2>1 DEF Handler, Phase
    <2>3. Fits(h)
      BY <2>1 DEF Fits
    <2>4. codes' \in [Codes -> Users \cup {None}] /\ CodesFit'
      BY <1>7 DEF ExchangeDeleteCode, IInv, TypeOK, CodesFit
    <2> QED
      BY <1>7, <2>2, <2>3, <2>4, HandlerMoves DEF ExchangeDeleteCode, Goto, IInv, TypeOK
  <1>8. ASSUME NEW r \in Reqs, ExchangeCheckUser(r)
        PROVE  IInv'
    <2> DEFINE g == [pc |-> "issue", user |-> req[r].user, key |-> req[r].key]
    <2>1. /\ req[r].user \in Users /\ req[r].key \in Codes
          /\ issued[req[r].key] = req[r].user
      BY <1>8 DEF ExchangeCheckUser, IInv, HandlersFit, Fits
    <2>2. g \in Handler /\ Idle \in Handler
      BY <2>1 DEF Handler, Phase, Idle
    <2>3. Fits(g) /\ Fits(Idle)
      BY <2>1 DEF Fits, Idle
    <2>4. PICK h \in {Idle, g} : req' = [req EXCEPT ![r] = h]
      BY <1>8 DEF ExchangeCheckUser, Goto, Finish
    <2> HIDE DEF g
    <2> QED
      BY <1>8, <2>2, <2>3, <2>4, HandlerMoves DEF ExchangeCheckUser, IInv, TypeOK, CodesFit
  <1> QED
    BY <1>1, <1>2, <1>3, <1>4, <1>5, <1>6, <1>7, <1>8 DEF OAuthStep

(* Expiry and a handler that dies.                                          *)
LEMMA FailureIInv ==
    ASSUME IInv, ExpireKey \/ \E r \in Reqs : Abort(r)
    PROVE  IInv'
  <1>1. ASSUME NEW j \in Jtis,
               refresh' = [refresh EXCEPT ![j] = None],
               UNCHANGED <<codes, states>>,
               UNCHANGED <<account, sub, parent, issued, spentStates, req>>
        PROVE  IInv'
    BY <1>1, KeyGone
  <1>2. ASSUME NEW c \in Codes,
               codes' = [codes EXCEPT ![c] = None],
               UNCHANGED <<refresh, states>>,
               UNCHANGED <<account, sub, parent, issued, spentStates, req>>
        PROVE  IInv'
    <2>1. TypeOK' /\ CodesFit'
      BY <1>2 DEF IInv, TypeOK, CodesFit
    <2> QED
      BY <1>2, <2>1, TokensUntouched
  <1>3. ASSUME NEW s \in states,
               states' = states \ {s},
               UNCHANGED <<refresh, codes>>,
               UNCHANGED <<account, sub, parent, issued, spentStates, req>>
        PROVE  IInv'
    <2>1. TypeOK' /\ CodesFit'
      BY <1>3 DEF IInv, TypeOK, CodesFit
    <2> QED
      BY <1>3, <2>1, TokensUntouched
  <1>4. ASSUME NEW r \in Reqs, Abort(r)
        PROVE  IInv'
    <2>1. Idle \in Handler /\ Idle.pc = "idle"
      BY DEF Handler, Phase, Idle
    <2> QED
      BY <1>4, <2>1, HandlerMoves DEF Abort, Finish, IInv, TypeOK, CodesFit, Fits
  <1> QED
    BY <1>1, <1>2, <1>3, <1>4 DEF ExpireKey

(* IInv is inductive.                                                       *)
LEMMA NextIInv ==
    ASSUME IInv, [Next]_vars
    PROVE  IInv'
  <1>1. CASE UNCHANGED vars
    BY <1>1 DEF vars, IInv, TypeOK, MintedFirst, HandlersFit, Fits, CodesFit, RotatedIsDead,
                SessionsKeepTheirUser
  <1>2. CASE Next
    BY <1>2, AccountStepIInv, DeletionStepIInv, TokenStepIInv, OAuthStepIInv, FailureIInv DEF Next
  <1> QED
    BY <1>1, <1>2

(* Every reachable state satisfies the inductive invariant.                 *)
THEOREM Invariance == Spec => []IInv
  BY InitIInv, NextIInv, PTL DEF Spec

(* Types: every variable keeps to the values its Redis key or column holds. *)
THEOREM TypeCorrect == Spec => []TypeOK
  <1>1. IInv => TypeOK
    BY DEF IInv
  <1> QED
    BY <1>1, Invariance, PTL

(* A refresh token that was rotated is never accepted again                 *)
(* (services/auth.py, refresh_tokens), for any number of overlapping        *)
(* requests.                                                                *)
THEOREM RotationRevokes == Spec => []RotatedIsDead
  <1>1. IInv => RotatedIsDead
    BY DEF IInv
  <1> QED
    BY <1>1, Invariance, PTL

(* Rotation, code exchange and storage never hand a session to another      *)
(* user than the one it was opened for.                                     *)
THEOREM OwnershipKept == Spec => []SessionsKeepTheirUser
  <1>1. IInv => SessionsKeepTheirUser
    BY DEF IInv
  <1> QED
    BY <1>1, Invariance, PTL

(* No step of any handler brings a revoked or expired token id back.        *)
THEOREM RevocationFinal == Spec => RevokedIsFinal
  <1>1. ASSUME IInv, [Next]_vars,
               NEW j \in Jtis, sub[j] # None, refresh[j] = None
        PROVE  refresh'[j] = None
    <2>1. ASSUME NEW n \in Jtis, NEW u, sub[n] = None,
                 refresh' = [refresh EXCEPT ![n] = u]
          PROVE  refresh'[j] = None
      BY <1>1, <2>1 DEF IInv, TypeOK
    <2>2. ASSUME NEW k, refresh' = [refresh EXCEPT ![k] = None]
          PROVE  refresh'[j] = None
      BY <1>1, <2>2 DEF IInv, TypeOK
    <2>3. CASE UNCHANGED refresh
      BY <1>1, <2>3
    <2>4. CASE AccountStep
      BY <2>3, <2>4 DEF AccountStep, Register, SetUserActive
    <2>5. CASE TokenStep
      BY <2>1, <2>2, <2>3, <2>5
      DEF TokenStep, Logout, Login, IssueTokens, RefreshGet, RefreshDelete,
          RefreshStore
    <2>6. CASE OAuthStep
      BY <2>3, <2>6
      DEF OAuthStep, Authorize, CallbackGetState, CallbackDeleteState,
          CallbackUpsert, StoreOAuthCode, ExchangeGetCode, ExchangeDeleteCode,
          ExchangeCheckUser
    <2>7. CASE ExpireKey
      BY <2>2, <2>3, <2>7 DEF ExpireKey
    <2>8. CASE \E r \in Reqs : Abort(r)
      BY <2>3, <2>8 DEF Abort
    <2>9. CASE DeletionStep
      BY <2>3, <2>9 DEF DeletionStep, DeleteAccount, DeleteAccountCommit
    <2>10. CASE UNCHANGED vars
      BY <2>3, <2>10 DEF vars
    <2> QED
      BY <1>1, <2>4, <2>5, <2>6, <2>7, <2>8, <2>9, <2>10 DEF Next
  <1>2. IInv /\ [Next]_vars
          => [\A j \in Jtis :
                 sub[j] # None /\ refresh[j] = None => refresh'[j] = None]_vars
    BY <1>1
  <1> QED
    BY <1>2, Invariance, PTL DEF Spec, RevokedIsFinal

(* The step lemma for a revoked token j that no handler is rotating: none   *)
(* starts to, and no token is derived from it.                              *)
LEMMA RevokedStep ==
    ASSUME IInv, Next, NEW j \in Jtis,
           sub[j] # None, refresh[j] = None, NoRotationInFlight(j)
    PROVE  NoRotationInFlight(j)' /\ Offspring(j)' = Offspring(j)
  <1>1. ASSUME NEW r \in Reqs, NEW h,
               req' = [req EXCEPT ![r] = h],
               h.pc \in {"rotate", "store"} => h.key # j
        PROVE  NoRotationInFlight(j)'
    <2> SUFFICES ASSUME NEW q \in Reqs, req'[q].pc \in {"rotate", "store"}
                 PROVE  req'[q].key # j
      BY DEF NoRotationInFlight
    <2>1. req'[q] = IF q = r THEN h ELSE req[q]
      BY <1>1 DEF IInv, TypeOK
    <2> QED
      BY <1>1, <2>1 DEF NoRotationInFlight
  <1>2. ASSUME NEW r \in Reqs, Finish(r)
        PROVE  NoRotationInFlight(j)'
    BY <1>1, <1>2 DEF Finish, Idle
  <1>3. ASSUME NEW r \in Reqs, NEW pc, NEW v, NEW k,
               Goto(r, pc, v, k), pc \in {"rotate", "store"} => k # j
        PROVE  NoRotationInFlight(j)'
    BY <1>1, <1>3 DEF Goto
  <1>4. ASSUME UNCHANGED req
        PROVE  NoRotationInFlight(j)'
    BY <1>4 DEF NoRotationInFlight
  <1>5. ASSUME UNCHANGED parent
        PROVE  Offspring(j)' = Offspring(j)
    BY <1>5 DEF Offspring
  <1>6. ASSUME NEW n \in Jtis, NEW p, sub[n] = None, p # j,
               parent' = [parent EXCEPT ![n] = p]
        PROVE  Offspring(j)' = Offspring(j)
    <2>1. parent[n] # j
      BY <1>6, SentinelAssumption DEF IInv, MintedFirst
    <2>2. \A k \in Jtis : parent'[k] = j <=> parent[k] = j
      BY <1>6, <2>1 DEF IInv, TypeOK
    <2> QED
      BY <2>2 DEF Offspring
  <1>7. CASE AccountStep
    BY <1>4, <1>5, <1>7 DEF AccountStep, Register, SetUserActive
  <1>8. CASE TokenStep
    <2>1. CASE \E k \in Jtis : Logout(k)
      BY <1>4, <1>5, <2>1 DEF Logout
    <2>2. ASSUME NEW r \in Reqs, NEW v \in Users, Login(r, v)
          PROVE  NoRotationInFlight(j)' /\ Offspring(j)' = Offspring(j)
      BY <1>3, <1>5, <2>2 DEF Login
    <2>3. ASSUME NEW r \in Reqs, NEW n \in Jtis, IssueTokens(r, n)
          PROVE  NoRotationInFlight(j)' /\ Offspring(j)' = Offspring(j)
      <3>1. req[r].key # j
        BY <2>3, SentinelAssumption DEF IssueTokens, IInv, HandlersFit, Fits
      <3> QED
        BY <1>2, <1>6, <2>3, <3>1 DEF IssueTokens
    <2>4. ASSUME NEW r \in Reqs, NEW k \in Jtis, RefreshGet(r, k)
          PROVE  NoRotationInFlight(j)' /\ Offspring(j)' = Offspring(j)
      <3>1. k # j
        BY <2>4 DEF RefreshGet
      <3> QED
        BY <1>3, <1>5, <2>4, <3>1 DEF RefreshGet
    <2>5. ASSUME NEW r \in Reqs, RefreshDelete(r)
          PROVE  NoRotationInFlight(j)' /\ Offspring(j)' = Offspring(j)
      <3>1. req[r].key # j
        BY <2>5 DEF RefreshDelete, NoRotationInFlight
      <3> QED
        BY <1>3, <1>5, <2>5, <3>1 DEF RefreshDelete
    <2>6. ASSUME NEW r \in Reqs, NEW n \in Jtis, RefreshStore(r, n)
          PROVE  NoRotationInFlight(j)' /\ Offspring(j)' = Offspring(j)
      <3>1. req[r].key # j
        BY <2>6 DEF RefreshStore, NoRotationInFlight
      <3> QED
        BY <1>2, <1>6, <2>6, <3>1 DEF RefreshStore
    <2> QED
      BY <1>8, <2>1, <2>2, <2>3, <2>4, <2>5, <2>6 DEF TokenStep
  <1>9. CASE OAuthStep
    <2>1. UNCHANGED parent
      BY <1>9 DEF OAuthStep, Authorize, CallbackGetState, CallbackDeleteState,
                  CallbackUpsert, StoreOAuthCode, ExchangeGetCode,
                  ExchangeDeleteCode, ExchangeCheckUser
    <2>2. NoRotationInFlight(j)'
      BY <1>2, <1>3, <1>4, <1>9
      DEF OAuthStep, Authorize, CallbackGetState, CallbackDeleteState,
          CallbackUpsert, StoreOAuthCode, ExchangeGetCode, ExchangeDeleteCode,
          ExchangeCheckUser
    <2> QED
      BY <1>5, <2>1, <2>2
  <1>10. CASE ExpireKey
    BY <1>4, <1>5, <1>10 DEF ExpireKey
  <1>11. CASE \E r \in Reqs : Abort(r)
    BY <1>2, <1>5, <1>11 DEF Abort
  <1>12. CASE DeletionStep
    BY <1>2, <1>3, <1>5, <1>12 DEF DeletionStep, DeleteAccount, DeleteAccountCommit
  <1> QED
    BY <1>7, <1>8, <1>9, <1>10, <1>11, <1>12 DEF Next

(* A token that was rotated or revoked is no source of further sessions,    *)
(* except for the requests that had read its key before.                    *)
THEOREM RevokedIsSterile == Spec => RevokedHasNoOffspring
  <1>1. IInv /\ [Next]_vars
          => [\A j \in Jtis :
                (sub[j] # None /\ refresh[j] = None /\ NoRotationInFlight(j))
                    => NoRotationInFlight(j)' /\ Offspring(j)' = Offspring(j)]_vars
    BY RevokedStep
  <1> QED
    BY <1>1, Invariance, PTL DEF Spec, RevokedHasNoOffspring

(* The step lemma for an account u that is and stays inactive: no handler   *)
(* gets to the point of granting, and no grant is added.                    *)
LEMMA InactiveStep ==
    ASSUME IInv, Next, NEW u \in Users,
           ~IsActive(account[u]), ~IsActive(account'[u]), NoGrantInFlight(u)
    PROVE  NoGrantInFlight(u)' /\ GrantsOf(u)' = GrantsOf(u)
  <1>1. ASSUME NEW r \in Reqs, NEW h,
               req' = [req EXCEPT ![r] = h],
               h.pc = "issue" => h.user # u
        PROVE  NoGrantInFlight(u)'
    <2> SUFFICES ASSUME NEW q \in Reqs, req'[q].pc = "issue"
                 PROVE  req'[q].user # u
      BY DEF NoGrantInFlight
    <2>1. req'[q] = IF q = r THEN h ELSE req[q]
      BY <1>1 DEF IInv, TypeOK
    <2> QED
      BY <1>1, <2>1 DEF NoGrantInFlight
  <1>2. Idle \in Handler /\ Idle.pc = "idle"
    BY DEF Handler, Phase, Idle
  <1>3. ASSUME NEW r \in Reqs, Finish(r)
        PROVE  NoGrantInFlight(u)'
    BY <1>1, <1>2, <1>3 DEF Finish
  <1>4. ASSUME NEW r \in Reqs, NEW pc, NEW v, NEW k,
               Goto(r, pc, v, k), pc = "issue" => v # u
        PROVE  NoGrantInFlight(u)'
    BY <1>1, <1>4 DEF Goto
  <1>5. ASSUME UNCHANGED req
        PROVE  NoGrantInFlight(u)'
    BY <1>5 DEF NoGrantInFlight
  <1>6. ASSUME UNCHANGED <<sub, parent>>
        PROVE  GrantsOf(u)' = GrantsOf(u)
    BY <1>6 DEF GrantsOf
  <1>7. ASSUME NEW n \in Jtis, NEW v, NEW p, sub[n] = None,
               sub' = [sub EXCEPT ![n] = v],
               parent' = [parent EXCEPT ![n] = p],
               p \in Jtis \/ v # u
        PROVE  GrantsOf(u)' = GrantsOf(u)
    <2>1. /\ sub'[n] = v /\ parent'[n] = p
          /\ \A k \in Jtis \ {n} : sub'[k] = sub[k] /\ parent'[k] = parent[k]
      BY <1>7 DEF IInv, TypeOK
    <2>2. \A k \in Jtis : k \in GrantsOf(u)' <=> k \in GrantsOf(u)
      BY <1>7, <2>1, SentinelAssumption DEF GrantsOf
    <2> QED
      BY <2>2 DEF GrantsOf
  <1>8. CASE AccountStep
    BY <1>5, <1>6, <1>8 DEF AccountStep, Register, SetUserActive
  <1>9. CASE TokenStep
    <2>1. CASE \E j \in Jtis : Logout(j)
      BY <1>5, <1>6, <2>1 DEF Logout
    <2>2. ASSUME NEW r \in Reqs, NEW v \in Users, Login(r, v)
          PROVE  NoGrantInFlight(u)' /\ GrantsOf(u)' = GrantsOf(u)
      <3>1. v # u
        BY <2>2 DEF Login, IsActive
      <3> QED
        BY <1>4, <1>6, <2>2, <3>1 DEF Login, Phase
    <2>3. ASSUME NEW r \in Reqs, NEW j \in Jtis, IssueTokens(r, j)
          PROVE  NoGrantInFlight(u)' /\ GrantsOf(u)' = GrantsOf(u)
      <3>1. req[r].user # u
        BY <2>3 DEF IssueTokens, NoGrantInFlight
      <3> QED
        BY <1>3, <1>7, <2>3, <3>1 DEF IssueTokens
    <2>4. ASSUME NEW r \in Reqs, NEW j \in Jtis, RefreshGet(r, j)
          PROVE  NoGrantInFlight(u)' /\ GrantsOf(u)' = GrantsOf(u)
      <3>1. sub[j] \in Users \cup {None}
        BY DEF IInv, TypeOK
      <3> QED
        BY <1>4, <1>6, <2>4, <3>1 DEF RefreshGet, Phase
    <2>5. ASSUME NEW r \in Reqs, RefreshDelete(r)
          PROVE  NoGrantInFlight(u)' /\ GrantsOf(u)' = GrantsOf(u)
      BY <1>4, <1>6, <2>5 DEF RefreshDelete
    <2>6. ASSUME NEW r \in Reqs, NEW n \in Jtis, RefreshStore(r, n)
          PROVE  NoGrantInFlight(u)' /\ GrantsOf(u)' = GrantsOf(u)
      <3>1. req[r].key \in Jtis
        BY <2>6 DEF RefreshStore, IInv, HandlersFit, Fits
      <3> QED
        BY <1>3, <1>7, <2>6, <3>1 DEF RefreshStore
    <2> QED
      BY <1>9, <2>1, <2>2, <2>3, <2>4, <2>5, <2>6 DEF TokenStep
  <1>10. CASE OAuthStep
    <2>1. UNCHANGED <<sub, parent>>
      BY <1>10 DEF OAuthStep, Authorize, CallbackGetState, CallbackDeleteState,
                   CallbackUpsert, StoreOAuthCode, ExchangeGetCode,
                   ExchangeDeleteCode, ExchangeCheckUser
    <2>2. ASSUME NEW s \in States, Authorize(s)
          PROVE  NoGrantInFlight(u)'
      BY <1>5, <2>2 DEF Authorize
    <2>3. ASSUME NEW r \in Reqs, NEW s \in States, CallbackGetState(r, s)
          PROVE  NoGrantInFlight(u)'
      BY <1>4, <2>3 DEF CallbackGetState, Phase
    <2>4. ASSUME NEW r \in Reqs, CallbackDeleteState(r)
          PROVE  NoGrantInFlight(u)'
      BY <1>3, <1>4, <2>4 DEF CallbackDeleteState, Phase
    <2>5. ASSUME NEW r \in Reqs, NEW v \in Users, CallbackUpsert(r, v)
          PROVE  NoGrantInFlight(u)'
      BY <1>3, <1>4, <2>5 DEF CallbackUpsert, Phase
    <2>6. ASSUME NEW r \in Reqs, NEW c \in Codes, StoreOAuthCode(r, c)
          PROVE  NoGrantInFlight(u)'
      BY <1>3, <2>6 DEF StoreOAuthCode
    <2>7. ASSUME NEW r \in Reqs, NEW c \in Codes, ExchangeGetCode(r, c)
          PROVE  NoGrantInFlight(u)'
      <3>1. codes[c] \in Users \cup {None}
        BY DEF IInv, TypeOK
      <3> QED
        BY <1>4, <2>7, <3>1 DEF ExchangeGetCode, Phase
    <2>8. ASSUME NEW r \in Reqs, ExchangeDeleteCode(r)
          PROVE  NoGrantInFlight(u)'
      BY <1>4, <2>8 DEF ExchangeDeleteCode
    <2>9. ASSUME NEW r \in Reqs, ExchangeCheckUser(r)
          PROVE  NoGrantInFlight(u)'
      <3>1. IsActive(account[req[r].user]) => req[r].user # u
        OBVIOUS
      <3> QED
        BY <1>3, <1>4, <2>9, <3>1 DEF ExchangeCheckUser
    <2> QED
      BY <1>6, <1>10, <2>1, <2>2, <2>3, <2>4, <2>5, <2>6, <2>7, <2>8, <2>9
      DEF OAuthStep
  <1>11. CASE ExpireKey
    BY <1>5, <1>6, <1>11 DEF ExpireKey
  <1>12. CASE \E r \in Reqs : Abort(r)
    BY <1>3, <1>6, <1>12 DEF Abort
  <1>13. CASE DeletionStep
    BY <1>3, <1>4, <1>6, <1>13
    DEF DeletionStep, DeleteAccount, DeleteAccountCommit, Phase
  <1> QED
    BY <1>8, <1>9, <1>10, <1>11, <1>12, <1>13 DEF Next

(* A deactivated account gets no new session from credentials or codes      *)
(* checked before or after it was deactivated, once the grants in flight    *)
(* have finished.                                                           *)
THEOREM InactiveStaysOut == Spec => InactiveGetsNoNewSession
  <1>1. IInv /\ [Next]_vars
          => [\A u \in Users :
                (~IsActive(account[u]) /\ ~IsActive(account'[u]) /\ NoGrantInFlight(u))
                    => NoGrantInFlight(u)' /\ GrantsOf(u)' = GrantsOf(u)]_vars
    BY InactiveStep
  <1> QED
    BY <1>1, Invariance, PTL DEF Spec, InactiveGetsNoNewSession
=============================================================================
