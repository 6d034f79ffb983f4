------------------------------ MODULE Accounts ------------------------------
(***************************************************************************)
(* The users row as its owner changes it: address, password and linked     *)
(* providers (services/auth.py, account_lifecycle.py, oauth_accounts.py,   *)
(* _upsert_oauth_user of oauth.py) and the mailed tokens that verify an    *)
(* address, reset a password or change the address.  Each such handler     *)
(* reads, decides, and commits later; is_active is in module Sessions.     *)
(***************************************************************************)
EXTENDS Naturals, FiniteSets

CONSTANTS
    Users,        \* accounts (users.id)
    Emails,       \* addresses people have
    Identities,   \* accounts at OAuth providers (provider_user_id)
    Providers,    \* OAuthProvider.ENABLED
    ProviderOf,   \* the provider of each identity
    Tokens,       \* mailed tokens
    Reqs,         \* concurrent request handlers
    None,         \* NULL, a missing row, an unset local variable
    Gone          \* the address deleted+{id}@moziketo.invalid of a deleted account

ASSUME AccountsAssumption ==
    /\ ProviderOf \in [Identities -> Providers]
    /\ None \notin Users \cup Emails \cup Identities \cup Providers \cup Tokens
    /\ Gone \notin Emails \cup {None}

VARIABLES
    email,      \* users.email, None without the row
    password,   \* users.password_hash is set
    verified,   \* users.email_verified_at is set
    pending,    \* users.pending_email
    deleted,    \* users with deleted_at
    link,       \* oauth_accounts: identity -> user
    sent,       \* tokens generated: kind, user, and the address they were mailed to
    live,       \* tokens whose Redis key exists
    req,        \* each handler's progress
    proven,     \* history: <<user, address>> that user was shown to receive mail at
    uses,       \* history: how often a token took effect, counted up to 2
    excused     \* history: tokens two handlers held at once, or one died holding

row == <<email, password, verified, pending, deleted, link>>
history == <<proven, uses, excused>>
vars == <<row, sent, live, req, history>>

Kind == {"verify", "reset", "change"}
Token == [kind : Kind, user : Users, to : Emails]
NoToken == [kind |-> None, user |-> None, to |-> None]

Method == Providers \cup {"password"}

Phase == {"idle", "send", "pending", "apply", "drop", "unlink", "link", "delete", "password"}

(* obj: the token, provider or identity it works on; mail: an address;      *)
(* kind: of the token to be sent; old: the link a callback replaces;        *)
(* others: the methods an unlink counted on, the password a deletion read.  *)
Handler == [pc     : Phase,
            user   : Users \cup {None},
            obj    : Tokens \cup Providers \cup Identities \cup {None},
            mail   : Emails \cup {None},
            kind   : Kind \cup {None},
            old    : Identities \cup {None},
            others : SUBSET Method]

Idle == [pc |-> "idle", user |-> None, obj |-> None, mail |-> None, kind |-> None,
         old |-> None, others |-> {}]

TypeOK ==
    /\ email \in [Users -> Emails \cup {None, Gone}]
    /\ password \in [Users -> BOOLEAN]
    /\ verified \in [Users -> BOOLEAN]
    /\ pending \in [Users -> Emails \cup {None}]
    /\ deleted \subseteq Users
    /\ link \in [Identities -> Users \cup {None}]
    /\ sent \in [Tokens -> Token \cup {NoToken}]
    /\ live \subseteq Tokens
    /\ req \in [Reqs -> Handler]
    /\ proven \subseteq Users \X Emails
    /\ uses \in [Tokens -> 0..2]
    /\ excused \subseteq Tokens

Init ==
    /\ email = [u \in Users |-> None]
    /\ password = [u \in Users |-> FALSE]
    /\ verified = [u \in Users |-> FALSE]
    /\ pending = [u \in Users |-> None]
    /\ deleted = {}
    /\ link = [i \in Identities |-> None]
    /\ sent = [t \in Tokens |-> NoToken]
    /\ live = {}
    /\ req = [r \in Reqs |-> Idle]
    /\ proven = {}
    /\ uses = [t \in Tokens |-> 0]
    /\ excused = {}

Begin(r, h) ==
    /\ req[r].pc = "idle"
    /\ req' = [req EXCEPT ![r] = h]

Finish(r) == req' = [req EXCEPT ![r] = Idle]

Exists(u) == email[u] # None

(* get_current_user.                                                        *)
CurrentUser(u) == Exists(u) /\ u \notin deleted

Free(e) == \A u \in Users : email[u] # e

LinkedProviders(u) == {ProviderOf[i] : i \in {j \in Identities : link[j] = u}}

Methods(u) == LinkedProviders(u) \cup (IF password[u] THEN {"password"} ELSE {})

-----------------------------------------------------------------------------
(* Registration, and requests that mail a token *)

(* The new account goes on to be mailed its verification token.             *)
Register(r, u, e) ==
    /\ ~Exists(u)
    /\ Free(e)
    /\ email' = [email EXCEPT ![u] = e]
    /\ password' = [password EXCEPT ![u] = TRUE]
    /\ Begin(r, [Idle EXCEPT !.pc = "send", !.user = u, !.mail = e, !.kind = "verify"])
    /\ UNCHANGED <<verified, pending, deleted, link, sent, live, history>>

RequestVerification(r, u) ==
    /\ CurrentUser(u)
    /\ Begin(r, [Idle EXCEPT !.pc = "send", !.user = u, !.mail = email[u], !.kind = "verify"])
    /\ UNCHANGED <<row, sent, live, history>>

\* Fault: the row is asked for, not its address.
RequestResetGone(r, u) ==
    /\ Exists(u)
    /\ Begin(r, [Idle EXCEPT !.pc = "send", !.user = u, !.mail = email[u], !.kind = "reset"])
    /\ UNCHANGED <<row, sent, live, history>>

RequestReset(r, u) ==
    /\ email[u] \in Emails
    /\ Begin(r, [Idle EXCEPT !.pc = "send", !.user = u, !.mail = email[u], !.kind = "reset"])
    /\ UNCHANGED <<row, sent, live, history>>

RequestChange(r, u, e) ==
    /\ CurrentUser(u)
    /\ Free(e)
    /\ Begin(r, [Idle EXCEPT !.pc = "send", !.user = u, !.mail = e, !.kind = "change"])
    /\ UNCHANGED <<row, sent, live, history>>

(* The token is stored and mailed; a change of address is then noted in the *)
(* row, unless mail is not configured in production.                        *)
SendToken(r, t) ==
    /\ req[r].pc = "send"
    /\ sent[t] = NoToken
    /\ sent' = [sent EXCEPT ![t] = [kind |-> req[r].kind, user |-> req[r].user,
                                    to |-> req[r].mail]]
    /\ live' = live \cup {t}
    /\ \/ req[r].kind = "change" /\ req' = [req EXCEPT ![r].pc = "pending"]
       \/ Finish(r)
    /\ UNCHANGED <<row, history>>

NotePending(r) ==
    /\ req[r].pc = "pending"
    /\ pending' = [pending EXCEPT ![req[r].user] = req[r].mail]
    /\ Finish(r)
    /\ UNCHANGED <<email, password, verified, deleted, link, sent, live, history>>

-----------------------------------------------------------------------------
(* Use of a mailed token: read the key, commit the effect, delete the key *)

Holds(r, t) == req[r].pc \in {"apply", "drop"} /\ req[r].obj = t

GetToken(r, t) ==
    /\ t \in live
    /\ Begin(r, [Idle EXCEPT !.pc = "apply", !.obj = t])
    /\ excused' = IF \E q \in Reqs : Holds(q, t) THEN excused \cup {t} ELSE excused
    /\ UNCHANGED <<row, sent, live, proven, uses>>

Used(r) ==
    /\ uses' = [uses EXCEPT ![req[r].obj] = IF @ < 2 THEN @ + 1 ELSE @]
    /\ req' = [req EXCEPT ![r].pc = "drop"]

(* The token of a handler at "apply".                                       *)
Applying(r, k) ==
    /\ req[r].pc = "apply"
    /\ sent[req[r].obj].kind = k

UserOf(r) == sent[req[r].obj].user

ConfirmVerification(r) ==
    /\ Applying(r, "verify")
    /\ verified' = [verified EXCEPT ![UserOf(r)] = TRUE]
    /\ proven' = proven \cup {<<UserOf(r), sent[req[r].obj].to>>}
    /\ Used(r)
    /\ UNCHANGED <<email, password, pending, deleted, link, sent, live, excused>>

ResetPassword(r) ==
    /\ Applying(r, "reset")
    /\ password' = [password EXCEPT ![UserOf(r)] = TRUE]
    /\ Used(r)
    /\ UNCHANGED <<email, verified, pending, deleted, link, sent, live, proven, excused>>

ChangeTo(r, e) ==
    /\ Applying(r, "change")
    /\ \A u \in Users \ {UserOf(r)} : email[u] # e
    /\ email' = [email EXCEPT ![UserOf(r)] = e]
    /\ pending' = [pending EXCEPT ![UserOf(r)] = None]
    /\ verified' = [verified EXCEPT ![UserOf(r)] = TRUE]
    /\ proven' = proven \cup {<<UserOf(r), sent[req[r].obj].to>>}
    /\ Used(r)
    /\ UNCHANGED <<password, deleted, link, sent, live, excused>>

\* Fault: the row says which address was asked for, not the token.
ConfirmPending(r) ==
    /\ Applying(r, "change")
    /\ pending[UserOf(r)] \in Emails
    /\ ChangeTo(r, pending[UserOf(r)])

ConfirmChange(r) == ChangeTo(r, sent[req[r].obj].to)

(* The address is taken: 409, and the token stays.                          *)
ConfirmConflict(r) ==
    /\ Applying(r, "change")
    /\ \E u \in Users \ {UserOf(r)} : email[u] = sent[req[r].obj].to
    /\ Finish(r)
    /\ UNCHANGED <<row, sent, live, history>>

\* Fault: the key is left to its TTL.
DropForgotten(r) ==
    /\ req[r].pc = "drop"
    /\ Finish(r)
    /\ UNCHANGED <<row, sent, live, history>>

DropToken(r) ==
    /\ req[r].pc = "drop"
    /\ live' = live \ {req[r].obj}
    /\ Finish(r)
    /\ UNCHANGED <<row, sent, history>>

-----------------------------------------------------------------------------
(* Passwords, providers, deletion *)

(* set_password without a hash and change_password with one both go on to   *)
(* write it; neither looks at deleted_at.                                   *)
SubmitPassword(r, u) ==
    /\ Exists(u)
    /\ Begin(r, [Idle EXCEPT !.pc = "password", !.user = u])
    /\ UNCHANGED <<row, sent, live, history>>

CommitPassword(r) ==
    /\ req[r].pc = "password"
    /\ password' = [password EXCEPT ![req[r].user] = TRUE]
    /\ Finish(r)
    /\ UNCHANGED <<email, verified, pending, deleted, link, sent, live, history>>

(* The methods that remain to u without provider p.                         *)
OtherMethods(u, p) == Methods(u) \ {p}

\* Fault: the link that goes is counted too.
CanUnlinkCountsAll(u, p) == Methods(u) # {}

CanUnlink(u, p) == OtherMethods(u, p) # {}

Unlink(r, u, p) ==
    /\ CurrentUser(u)
    /\ p \in LinkedProviders(u)
    /\ CanUnlink(u, p)
    /\ Begin(r, [Idle EXCEPT !.pc = "unlink", !.user = u, !.obj = p,
                             !.others = OtherMethods(u, p)])
    /\ UNCHANGED <<row, sent, live, history>>

CommitUnlink(r) ==
    /\ req[r].pc = "unlink"
    /\ link' = [i \in Identities |->
                   IF link[i] = req[r].user /\ ProviderOf[i] = req[r].obj
                   THEN None ELSE link[i]]
    /\ Finish(r)
    /\ UNCHANGED <<email, password, verified, pending, deleted, sent, live, history>>

(* A callback with an identity not linked yet, whose profile has address e: *)
(* the account with that address, if any, and a link of the same provider   *)
(* that it has already.                                                     *)
CallbackRead(r, i, e) ==
    /\ link[i] = None
    /\ \E u \in Users \cup {None}, o \in Identities \cup {None} :
          /\ IF Free(e) THEN u = None ELSE u \in Users /\ email[u] = e
          /\ LET Same == {j \in Identities : u # None /\ link[j] = u
                                               /\ ProviderOf[j] = ProviderOf[i]}
             IN  IF Same = {} THEN o = None ELSE o \in Same
          /\ Begin(r, [Idle EXCEPT !.pc = "link", !.user = u, !.obj = i, !.mail = e,
                                   !.old = o])
    /\ UNCHANGED <<row, sent, live, history>>

(* The link o that a callback takes over: the row it read, which may hold   *)
(* another identity of the provider by now.                                 *)
TakesOver(r, u, o) ==
    IF req[r].old = None
    THEN o = None
    ELSE /\ o \in Identities
         /\ link[o] = u
         /\ ProviderOf[o] = ProviderOf[req[r].obj]
         /\ link[req[r].old] = u => o = req[r].old

(* The commit fails, and the handler with it, when the identity or the      *)
(* address was taken meanwhile or the link to be taken over is gone.        *)
CallbackCommit(r, u) ==
    /\ req[r].pc = "link"
    /\ link[req[r].obj] = None
    /\ IF req[r].user = None
       THEN /\ ~Exists(u)
            /\ Free(req[r].mail)
            /\ email' = [email EXCEPT ![u] = req[r].mail]
       ELSE /\ u = req[r].user
            /\ UNCHANGED email
    /\ \E o \in Identities \cup {None} :
          /\ TakesOver(r, u, o)
          /\ link' = [i \in Identities |->
                         IF i = req[r].obj THEN u ELSE IF i = o THEN None ELSE link[i]]
    /\ verified' = [verified EXCEPT ![u] = TRUE]
    /\ proven' = proven \cup {<<u, req[r].mail>>}
    /\ Finish(r)
    /\ UNCHANGED <<password, pending, deleted, sent, live, uses, excused>>

DeleteAccount(r, u) ==
    /\ CurrentUser(u)
    /\ Begin(r, [Idle EXCEPT !.pc = "delete", !.user = u, !.mail = pending[u],
                             !.others = Methods(u) \cap {"password"}])
    /\ UNCHANGED <<row, sent, live, history>>

(* Links, tokens and email_verified_at stay, and so does a password or a    *)
(* pending address set since the row was read without one: a column that    *)
(* did not change is not written.                                           *)
CommitDelete(r) ==
    /\ req[r].pc = "delete"
    /\ deleted' = deleted \cup {req[r].user}
    /\ email' = [email EXCEPT ![req[r].user] = Gone]
    /\ password' = [password EXCEPT ![req[r].user] = @ /\ req[r].others = {}]
    /\ pending' = [pending EXCEPT ![req[r].user] = IF req[r].mail = None THEN @ ELSE None]
    /\ Finish(r)
    /\ UNCHANGED <<verified, link, sent, live, history>>

-----------------------------------------------------------------------------
(* Time and failure *)

ExpireToken(t) ==
    /\ t \in live
    /\ live' = live \ {t}
    /\ UNCHANGED <<row, sent, req, history>>

(* A handler dies at an await or its commit is refused.                     *)
Abort(r) ==
    /\ req[r].pc # "idle"
    /\ Finish(r)
    /\ excused' = IF req[r].pc = "drop" THEN excused \cup {req[r].obj} ELSE excused
    /\ UNCHANGED <<row, sent, live, proven, uses>>

-----------------------------------------------------------------------------

MailStep(r) ==
    \/ \E u \in Users :
        \/ \E e \in Emails : Register(r, u, e)
        \/ RequestVerification(r, u)
        \/ RequestReset(r, u)
        \/ \E e \in Emails : RequestChange(r, u, e)
    \/ \E t \in Tokens : SendToken(r, t)
    \/ NotePending(r)

TokenStep(r) ==
    \/ \E t \in Tokens : GetToken(r, t)
    \/ ConfirmVerification(r)
    \/ ResetPassword(r)
    \/ ConfirmChange(r)
    \/ ConfirmConflict(r)
    \/ DropToken(r)

MethodStep(r) ==
    \/ \E u \in Users :
        \/ SubmitPassword(r, u)
        \/ \E p \in Providers : Unlink(r, u, p)
        \/ CallbackCommit(r, u)
        \/ DeleteAccount(r, u)
    \/ CommitPassword(r)
    \/ CommitUnlink(r)
    \/ \E i \in Identities, e \in Emails : CallbackRead(r, i, e)
    \/ CommitDelete(r)

Next ==
    \/ \E r \in Reqs : MailStep(r) \/ TokenStep(r) \/ MethodStep(r) \/ Abort(r)
    \/ \E t \in Tokens : ExpireToken(t)

Spec == Init /\ [][Next]_vars

-----------------------------------------------------------------------------
(* Properties *)

(* An address counts as verified only if mail to that very address reached  *)
(* the user, or a provider vouched for it, whatever tokens for earlier      *)
(* addresses are used late.                                                 *)
VerifiedIsProven ==
    \A u \in Users :
        verified[u] /\ email[u] \in Emails => <<u, email[u]>> \in proven

(* What holds of single use: a mailed token takes effect twice only if two  *)
(* requests held it at once or one died between the commit and the deletion *)
(* of the key.                                                              *)
TokenUsedOnce == \A t \in Tokens : uses[t] > 1 => t \in excused

(* "Token is single-use", api/v1/auth.py on the reset of a password: no     *)
(* reset token takes effect twice.                                          *)
TokenSingleUse == \A t \in Tokens : sent[t].kind = "reset" => uses[t] <= 1

(* An account loses its last way to sign in only by its deletion, or by an  *)
(* unlink that had counted on a method another request took away meanwhile. *)
LastMethodLostKnowingly ==
    [][\A u \in Users :
          Methods(u) # {} /\ Methods(u)' = {} =>
              \/ u \in deleted'
              \/ \E r \in Reqs : /\ req[r].pc = "unlink"
                                 /\ req[r].user = u
                                 /\ ~(req[r].others \subseteq Methods(u))]_vars

(* "Cannot unlink the only sign-in method", api/v1/auth.py: an account that *)
(* is not deleted can always be signed in to.                               *)
AlwaysASignInMethod == \A u \in Users : CurrentUser(u) => Methods(u) # {}
=============================================================================
