--------------------------- MODULE AccountsProofs ---------------------------
(***************************************************************************)
(* Proofs about Accounts for any number of users, tokens, providers and    *)
(* handlers.  The invariant follows what a handler or a mailed token still *)
(* knows: the address it was made for is the user's present one, or the    *)
(* present one was proven since.                                           *)
(***************************************************************************)
EXTENDS Accounts, TLAPS

(* em and pr stand for email and proven, sn for sent, so that the same      *)
(* definition can be read before and after a step.                          *)
Known(u, e, em, pr) == em[u] \in Emails => em[u] = e \/ <<u, em[u]>> \in pr

(* What a token or a handler about to send one refers to.                   *)
Mailed(k, u, e, em, pr) ==
    /\ k \in Kind /\ u \in Users /\ e \in Emails
    /\ em[u] # None
    /\ k = "verify" => Known(u, e, em, pr)

(* What handler h holds fits the rows and tokens.                           *)
Fit(h, em, pr, sn) ==
    /\ h.pc = "send" => Mailed(h.kind, h.user, h.mail, em, pr)
    /\ h.pc = "pending" => h.user \in Users /\ h.mail \in Emails
    /\ h.pc \in {"apply", "drop"} => h.obj \in Tokens /\ sn[h.obj] # NoToken
    /\ h.pc \in {"unlink", "delete", "password"} => h.user \in Users /\ em[h.user] # None
    /\ h.pc = "unlink" => h.others # {} /\ h.obj \in Providers /\ h.obj \notin h.others
    /\ h.pc = "link" => /\ h.user \in Users \cup {None}
                        /\ h.obj \in Identities
                        /\ h.mail \in Emails
                        /\ h.user \in Users => em[h.user] # None /\
                                               Known(h.user, h.mail, em, pr)

HandlersFit == \A r \in Reqs : Fit(req[r], email, proven, sent)

TokensFit ==
    \A t \in Tokens :
        /\ sent[t] = NoToken => t \notin live /\ uses[t] = 0
        /\ sent[t] # NoToken =>
              Mailed(sent[t].kind, sent[t].user, sent[t].to, email, proven)

RowsFit ==
    \A u \in Users :
        /\ email[u] = Gone => u \in deleted
        /\ email[u] = None => ~verified[u]

(* A token that no two handlers held at once: at most one holds it, and it  *)
(* has not been used before that one commits.                               *)
Usage ==
    \A t \in Tokens \ excused :
        /\ uses[t] <= 1
        /\ uses[t] = 1 => t \notin live \/ \E r \in Reqs : req[r].pc = "drop" /\ req[r].obj = t
        /\ \A r \in Reqs : req[r].pc = "apply" /\ req[r].obj = t => uses[t] = 0
        /\ \A q, r \in Reqs : Holds(q, t) /\ Holds(r, t) => q = r

IInv ==
    /\ TypeOK
    /\ HandlersFit
    /\ TokensFit
    /\ RowsFit
    /\ VerifiedIsProven
    /\ Usage

LEMMA IdleHandler ==
    /\ Idle \in Handler
    /\ Idle.pc = "idle"
  BY DEF Idle, Handler, Phase

LEMMA InitIInv == Init => IInv
  <1> SUFFICES ASSUME Init PROVE IInv
    OBVIOUS
  <1>1. TypeOK
    BY IdleHandler DEF Init, TypeOK
  <1>2. HandlersFit
    BY IdleHandler DEF Init, HandlersFit, Fit
  <1>3. TokensFit /\ RowsFit /\ VerifiedIsProven
    BY AccountsAssumption DEF Init, TokensFit, RowsFit, VerifiedIsProven
  <1>4. Usage
    BY IdleHandler DEF Init, Usage, Holds
  <1> QED
    BY <1>1, <1>2, <1>3, <1>4 DEF IInv

-----------------------------------------------------------------------------

(* Knowledge only grows: a row stays, its address changes only to Gone or   *)
(* to a proven one, and a generated token keeps what it was made for.       *)
Grows(em, em2, pr, pr2, sn, sn2) ==
    /\ \A u \in Users : em[u] # None =>
          /\ em2[u] # None
          /\ em2[u] \in {em[u], Gone} \/ <<u, em2[u]>> \in pr2
    /\ pr \subseteq pr2
    /\ \A t \in Tokens : sn[t] # NoToken => sn2[t] = sn[t]

LEMMA KnownKept ==
    ASSUME NEW em, NEW em2, NEW pr, NEW pr2, NEW sn, NEW sn2,
           Grows(em, em2, pr, pr2, sn, sn2),
           NEW u \in Users, NEW e, em[u] # None, Known(u, e, em, pr)
    PROVE  em2[u] # None /\ Known(u, e, em2, pr2)
  BY AccountsAssumption DEF Grows, Known

LEMMA MailedKept ==
    ASSUME NEW em, NEW em2, NEW pr, NEW pr2, NEW sn, NEW sn2,
           Grows(em, em2, pr, pr2, sn, sn2),
           NEW k, NEW u, NEW e, Mailed(k, u, e, em, pr)
    PROVE  Mailed(k, u, e, em2, pr2)
  <1>1. u \in Users /\ em2[u] # None
    BY DEF Mailed, Grows
  <1>2. k = "verify" => Known(u, e, em2, pr2)
    BY KnownKept DEF Mailed
  <1> QED
    BY <1>1, <1>2 DEF Mailed

LEMMA FitKept ==
    ASSUME NEW em, NEW em2, NEW pr, NEW pr2, NEW sn, NEW sn2,
           Grows(em, em2, pr, pr2, sn, sn2),
           NEW h, Fit(h, em, pr, sn)
    PROVE  Fit(h, em2, pr2, sn2)
  <1>1. h.pc = "send" => Mailed(h.kind, h.user, h.mail, em2, pr2)
    BY MailedKept DEF Fit
  <1>2. h.pc \in {"apply", "drop"} => h.obj \in Tokens /\ sn2[h.obj] # NoToken
    BY DEF Fit, Grows
  <1>3. h.pc \in {"unlink", "delete", "password"} => h.user \in Users /\ em2[h.user] # None
    BY DEF Fit, Grows
  <1>4. h.pc = "link" => (h.user \in Users => em2[h.user] # None /\
                                              Known(h.user, h.mail, em2, pr2))
    BY KnownKept DEF Fit
  <1> QED
    BY <1>1, <1>2, <1>3, <1>4 DEF Fit

(* A step of handler r after which it holds h.                              *)
LEMMA HandlersKept ==
    ASSUME IInv, NEW r \in Reqs, NEW h,
           req' = [req EXCEPT ![r] = h],
           Grows(email, email', proven, proven', sent, sent'),
           Fit(h, email', proven', sent')
    PROVE  HandlersFit'
  <1> SUFFICES ASSUME NEW q \in Reqs
               PROVE  Fit(req'[q], email', proven', sent')
    BY DEF HandlersFit
  <1>1. CASE q = r
    BY <1>1 DEF IInv, TypeOK
  <1>2. CASE q # r
    <2>1. req'[q] = req[q]
      BY <1>2 DEF IInv, TypeOK
    <2>2. Fit(req[q], email, proven, sent)
      BY DEF IInv, HandlersFit
    <2>3. Fit(req[q], email', proven', sent')
      BY <2>2, FitKept
    <2> QED
      BY <2>1, <2>3
  <1> QED
    BY <1>1, <1>2

(* A step that generates no token.                                          *)
LEMMA TokensKept ==
    ASSUME IInv, Grows(email, email', proven, proven', sent, sent'), sent' = sent,
           live' \subseteq live,
           \A t \in Tokens : uses'[t] # uses[t] => sent[t] # NoToken
    PROVE  TokensFit'
  <1> SUFFICES ASSUME NEW t \in Tokens
               PROVE  /\ sent'[t] = NoToken => t \notin live' /\ uses'[t] = 0
                      /\ sent'[t] # NoToken =>
                            Mailed(sent'[t].kind, sent'[t].user, sent'[t].to,
                                   email', proven')
    BY DEF TokensFit
  <1>1. sent[t] # NoToken =>
            Mailed(sent[t].kind, sent[t].user, sent[t].to, email', proven')
    BY MailedKept DEF IInv, TokensFit
  <1> QED
    BY <1>1 DEF IInv, TokensFit

(* A step after which handler r holds no token; the one it was done with, if *)
(* any, cannot be fetched any more or is excused.                           *)
LEMMA UsageKept ==
    ASSUME IInv, NEW r \in Reqs, NEW h,
           req' = [req EXCEPT ![r] = h],
           h.pc \notin {"apply", "drop"},
           uses' = uses, excused \subseteq excused',
           \A t \in live' : t \in live \/ uses[t] = 0,
           req[r].pc = "drop" => req[r].obj \notin live' \/ req[r].obj \in excused'
    PROVE  Usage'
  <1>1. \A q \in Reqs : req'[q] = IF q = r THEN h ELSE req[q]
    BY DEF IInv, TypeOK
  <1> SUFFICES ASSUME NEW t \in Tokens, t \notin excused'
               PROVE  /\ uses'[t] <= 1
                      /\ uses'[t] = 1 =>
                            t \notin live' \/ \E q \in Reqs : req'[q].pc = "drop" /\ req'[q].obj = t
                      /\ \A q \in Reqs : req'[q].pc = "apply" /\ req'[q].obj = t => uses'[t] = 0
                      /\ \A q, q2 \in Reqs : Holds(q, t)' /\ Holds(q2, t)' => q = q2
    BY DEF Usage, Holds
  <1>2. /\ uses[t] <= 1
        /\ uses[t] = 1 => t \notin live \/ \E q \in Reqs : req[q].pc = "drop" /\ req[q].obj = t
        /\ \A q \in Reqs : req[q].pc = "apply" /\ req[q].obj = t => uses[t] = 0
        /\ \A q, q2 \in Reqs : Holds(q, t) /\ Holds(q2, t) => q = q2
    BY DEF IInv, Usage
  <1>3. \A q \in Reqs : Holds(q, t)' => Holds(q, t)
    BY <1>1 DEF Holds
  <1>4. uses[t] = 1 =>
            t \notin live' \/ \E q \in Reqs : req'[q].pc = "drop" /\ req'[q].obj = t
    BY <1>1, <1>2
  <1> QED
    BY <1>1, <1>2, <1>3, <1>4

(* The same for a step that leaves the rows and the tokens alone.           *)
LEMMA HandlerOnly ==
    ASSUME IInv, NEW r \in Reqs, NEW h \in Handler,
           req' = [req EXCEPT ![r] = h],
           Fit(h, email, proven, sent),
           req[r].pc # "drop", h.pc \notin {"apply", "drop"},
           UNCHANGED <<row, sent, live, history>>
    PROVE  IInv'
  <1>1. Grows(email, email', proven, proven', sent, sent')
    BY DEF Grows, row, history
  <1>2. HandlersFit'
    BY <1>1, HandlersKept DEF row, history
  <1>3. TokensFit'
    BY <1>1, TokensKept DEF history
  <1>4. Usage'
    BY UsageKept DEF history
  <1>5. TypeOK' /\ RowsFit' /\ VerifiedIsProven'
    BY DEF row, history, IInv, TypeOK, RowsFit, VerifiedIsProven
  <1> QED
    BY <1>2, <1>3, <1>4, <1>5 DEF IInv

-----------------------------------------------------------------------------

(* The steps that only begin or end a handler.                              *)
LEMMA BeginKeeps ==
    ASSUME IInv, NEW r \in Reqs, NEW u \in Users,
           \/ RequestVerification(r, u)
           \/ RequestReset(r, u)
           \/ \E e \in Emails : RequestChange(r, u, e)
           \/ SubmitPassword(r, u)
           \/ \E p \in Providers : Unlink(r, u, p)
           \/ DeleteAccount(r, u)
    PROVE  IInv'
  <1>t. email \in [Users -> Emails \cup {None, Gone}] /\ Gone # None
    BY AccountsAssumption DEF IInv, TypeOK
  <1>g. email[u] = Gone => u \in deleted
    BY DEF IInv, RowsFit
  <1>1. CASE RequestVerification(r, u)
    <2> DEFINE h == [Idle EXCEPT !.pc = "send", !.user = u, !.mail = email[u], !.kind = "verify"]
    <2>1. email[u] \in Emails
      BY <1>1, <1>t, <1>g DEF RequestVerification, CurrentUser, Exists
    <2>2. /\ h \in Handler /\ h.pc = "send" /\ h.user = u
          /\ h.mail = email[u] /\ h.kind = "verify"
      BY <2>1 DEF Idle, Handler, Phase, Kind
    <2>3. Fit(h, email, proven, sent)
      BY <2>1, <2>2, <1>t, AccountsAssumption DEF Fit, Mailed, Known, Kind
    <2> HIDE DEF h
    <2>4. req' = [req EXCEPT ![r] = h] /\ req[r].pc = "idle" /\ UNCHANGED <<row, sent, live, history>>
      BY <1>1 DEF RequestVerification, Begin, h
    <2> QED
      BY <2>2, <2>3, <2>4, HandlerOnly
  <1>2. CASE RequestReset(r, u)
    <2> DEFINE h == [Idle EXCEPT !.pc = "send", !.user = u, !.mail = email[u], !.kind = "reset"]
    <2>2. /\ h \in Handler /\ h.pc = "send" /\ h.user = u
          /\ h.mail = email[u] /\ h.kind = "reset" /\ email[u] \in Emails
      BY <1>2 DEF RequestReset, Idle, Handler, Phase, Kind
    <2>3. Fit(h, email, proven, sent)
      BY <2>2, <1>t, AccountsAssumption DEF Fit, Mailed, Kind
    <2> HIDE DEF h
    <2>4. req' = [req EXCEPT ![r] = h] /\ req[r].pc = "idle" /\ UNCHANGED <<row, sent, live, history>>
      BY <1>2 DEF RequestReset, Begin, h
    <2> QED
      BY <2>2, <2>3, <2>4, HandlerOnly
  <1>3. CASE \E e \in Emails : RequestChange(r, u, e)
    <2> PICK e \in Emails : RequestChange(r, u, e)
      BY <1>3
    <2> DEFINE h == [Idle EXCEPT !.pc = "send", !.user = u, !.mail = e, !.kind = "change"]
    <2>2. /\ h \in Handler /\ h.pc = "send" /\ h.user = u
          /\ h.mail = e /\ h.kind = "change"
      BY DEF Idle, Handler, Phase, Kind
    <2>3. Fit(h, email, proven, sent)
      BY <2>2 DEF Fit, Mailed, Kind, RequestChange, CurrentUser, Exists
    <2> HIDE DEF h
    <2>4. req' = [req EXCEPT ![r] = h] /\ req[r].pc = "idle" /\ UNCHANGED <<row, sent, live, history>>
      BY DEF RequestChange, Begin, h
    <2> QED
      BY <2>2, <2>3, <2>4, HandlerOnly
  <1>4. CASE SubmitPassword(r, u)
    <2> DEFINE h == [Idle EXCEPT !.pc = "password", !.user = u]
    <2>2. h \in Handler /\ h.pc = "password" /\ h.user = u
      BY DEF Idle, Handler, Phase
    <2>3. Fit(h, email, proven, sent)
      BY <1>4, <2>2 DEF Fit, SubmitPassword, Exists
    <2> HIDE DEF h
    <2>4. req' = [req EXCEPT ![r] = h] /\ req[r].pc = "idle" /\ UNCHANGED <<row, sent, live, history>>
      BY <1>4 DEF SubmitPassword, Begin, h
    <2> QED
      BY <2>2, <2>3, <2>4, HandlerOnly
  <1>5. CASE \E p \in Providers : Unlink(r, u, p)
    <2> PICK p \in Providers : Unlink(r, u, p)
      BY <1>5
    <2> DEFINE h == [Idle EXCEPT !.pc = "unlink", !.user = u, !.obj = p,
                                 !.others = OtherMethods(u, p)]
    <2>1. OtherMethods(u, p) \subseteq Method
      BY AccountsAssumption DEF OtherMethods, Methods, LinkedProviders, Method
    <2>2. /\ h \in Handler /\ h.pc = "unlink" /\ h.user = u
          /\ h.obj = p /\ h.others = OtherMethods(u, p)
      BY <2>1 DEF Idle, Handler, Phase
    <2>3. OtherMethods(u, p) # {} /\ p \notin OtherMethods(u, p) /\ email[u] # None
      BY DEF Unlink, CanUnlink, OtherMethods, CurrentUser, Exists
    <2>5. Fit(h, email, proven, sent)
      BY <2>2, <2>3 DEF Fit
    <2> HIDE DEF h
    <2>4. req' = [req EXCEPT ![r] = h] /\ req[r].pc = "idle" /\ UNCHANGED <<row, sent, live, history>>
      BY DEF Unlink, Begin, h
    <2> QED
      BY <2>2, <2>4, <2>5, HandlerOnly
  <1>6. CASE DeleteAccount(r, u)
    <2> DEFINE h == [Idle EXCEPT !.pc = "delete", !.user = u, !.mail = pending[u],
                                 !.others = Methods(u) \cap {"password"}]
    <2>1. pending[u] \in Emails \cup {None}
      BY DEF IInv, TypeOK
    <2>2. h \in Handler /\ h.pc = "delete" /\ h.user = u
      BY <2>1 DEF Idle, Handler, Phase, Method
    <2>3. Fit(h, email, proven, sent)
      BY <1>6, <2>2 DEF Fit, DeleteAccount, CurrentUser, Exists
    <2> HIDE DEF h
    <2>4. req' = [req EXCEPT ![r] = h] /\ req[r].pc = "idle" /\ UNCHANGED <<row, sent, live, history>>
      BY <1>6 DEF DeleteAccount, Begin, h
    <2> QED
      BY <2>2, <2>3, <2>4, HandlerOnly
  <1> QED
    BY <1>1, <1>2, <1>3, <1>4, <1>5, <1>6

LEMMA CallbackReadKeeps ==
    ASSUME IInv, NEW r \in Reqs, NEW i \in Identities, NEW e \in Emails,
           CallbackRead(r, i, e)
    PROVE  IInv'
  <1>1. PICK u \in Users \cup {None}, o \in Identities \cup {None} :
           /\ IF Free(e) THEN u = None ELSE u \in Users /\ email[u] = e
           /\ LET Same == {j \in Identities : u # None /\ link[j] = u
                                                /\ ProviderOf[j] = ProviderOf[i]}
              IN  IF Same = {} THEN o = None ELSE o \in Same
           /\ Begin(r, [Idle EXCEPT !.pc = "link", !.user = u, !.obj = i, !.mail = e,
                                    !.old = o])
    BY DEF CallbackRead
  <1> DEFINE h == [Idle EXCEPT !.pc = "link", !.user = u, !.obj = i, !.mail = e, !.old = o]
  <1>2. /\ h \in Handler /\ h.pc = "link" /\ h.user = u /\ h.obj = i
        /\ h.mail = e /\ h.old = o
    BY DEF Idle, Handler, Phase
  <1>4. u \in Users => email[u] = e /\ email[u] # None
    BY <1>1, AccountsAssumption
  <1>5. Fit(h, email, proven, sent)
    BY <1>2, <1>4 DEF Fit, Known
  <1> HIDE DEF h
  <1>6. req' = [req EXCEPT ![r] = h] /\ req[r].pc = "idle" /\ UNCHANGED <<row, sent, live, history>>
    BY <1>1 DEF CallbackRead, Begin, h
  <1> QED
    BY <1>2, <1>5, <1>6, HandlerOnly

LEMMA FinishKeeps ==
    ASSUME IInv, NEW r \in Reqs, Abort(r) \/ ConfirmConflict(r) \/ DropToken(r)
    PROVE  IInv'
  <1>i. Idle \in Handler /\ Idle.pc = "idle"
    BY IdleHandler
  <1>1. /\ req' = [req EXCEPT ![r] = Idle]
        /\ UNCHANGED <<row, sent, proven, uses>>
        /\ live' \subseteq live /\ excused \subseteq excused'
        /\ req[r].pc = "drop" => req[r].obj \notin live' \/ req[r].obj \in excused'
    BY DEF Abort, ConfirmConflict, DropToken, Applying, Finish, history
  <1>2. Grows(email, email', proven, proven', sent, sent')
    BY <1>1 DEF Grows, row
  <1>3. HandlersFit'
    BY <1>1, <1>2, <1>i, HandlersKept DEF Fit
  <1>4. TokensFit'
    BY <1>1, <1>2, TokensKept
  <1>5. Usage'
    BY <1>1, <1>i, UsageKept
  <1>6. excused' \subseteq Tokens
    <2>1. req[r].pc = "drop" => req[r].obj \in Tokens
      BY DEF IInv, HandlersFit, Fit
    <2> QED
      BY <2>1 DEF Abort, ConfirmConflict, DropToken, history, IInv, TypeOK
  <1>7. TypeOK'
    BY <1>1, <1>6, <1>i DEF row, IInv, TypeOK
  <1>8. RowsFit' /\ VerifiedIsProven'
    BY <1>1 DEF row, IInv, RowsFit, VerifiedIsProven
  <1> QED
    BY <1>3, <1>4, <1>5, <1>7, <1>8 DEF IInv

(* The commits of handlers that hold no token.                              *)
LEMMA RegisterKeeps ==
    ASSUME IInv, NEW r \in Reqs, NEW u \in Users, NEW e \in Emails, Register(r, u, e)
    PROVE  IInv'
  <1> DEFINE h == [Idle EXCEPT !.pc = "send", !.user = u, !.mail = e, !.kind = "verify"]
  <1>1. /\ h \in Handler /\ h.pc = "send" /\ h.user = u
        /\ h.mail = e /\ h.kind = "verify"
    BY DEF Idle, Handler, Phase, Kind
  <1> HIDE DEF h
  <1>2. /\ email[u] = None /\ email' = [email EXCEPT ![u] = e]
        /\ password' = [password EXCEPT ![u] = TRUE]
        /\ req' = [req EXCEPT ![r] = h] /\ req[r].pc = "idle"
        /\ UNCHANGED <<verified, pending, deleted, link, sent, live, proven, uses, excused>>
    BY DEF Register, Exists, Begin, history, h
  <1>3. \A v \in Users : email'[v] = IF v = u THEN e ELSE email[v]
    BY <1>2 DEF IInv, TypeOK
  <1>4. Grows(email, email', proven, proven', sent, sent')
    BY <1>2, <1>3 DEF Grows
  <1>5. Fit(h, email', proven', sent')
    BY <1>1, <1>3, AccountsAssumption DEF Fit, Mailed, Known, Kind
  <1>6. HandlersFit'
    BY <1>2, <1>4, <1>5, HandlersKept
  <1>7. TokensFit'
    BY <1>2, <1>4, TokensKept
  <1>8. Usage'
    BY <1>1, <1>2, UsageKept
  <1>9. TypeOK'
    BY <1>1, <1>2 DEF IInv, TypeOK
  <1>10. RowsFit'
    BY <1>2, <1>3, AccountsAssumption DEF IInv, RowsFit
  <1>11. VerifiedIsProven'
    <2>1. ~verified[u]
      BY <1>2 DEF IInv, RowsFit
    <2> QED
      BY <1>2, <1>3, <2>1 DEF IInv, VerifiedIsProven
  <1> QED
    BY <1>6, <1>7, <1>8, <1>9, <1>10, <1>11 DEF IInv

LEMMA PasswordKeeps ==
    ASSUME IInv, NEW r \in Reqs, CommitPassword(r)
    PROVE  IInv'
  <1>i. Idle \in Handler /\ Idle.pc = "idle"
    BY IdleHandler
  <1>1. /\ req' = [req EXCEPT ![r] = Idle] /\ req[r].pc = "password"
        /\ UNCHANGED <<email, verified, pending, deleted, link, sent, live, proven, uses, excused>>
        /\ password' = [password EXCEPT ![req[r].user] = TRUE]
    BY DEF CommitPassword, Finish, history
  <1>2. Grows(email, email', proven, proven', sent, sent')
    BY <1>1 DEF Grows
  <1>3. HandlersFit'
    BY <1>1, <1>2, <1>i, HandlersKept DEF Fit
  <1>4. TokensFit'
    BY <1>1, <1>2, TokensKept
  <1>5. Usage'
    BY <1>1, <1>i, UsageKept
  <1>6. TypeOK'
    BY <1>1, <1>i DEF IInv, TypeOK
  <1>7. RowsFit' /\ VerifiedIsProven'
    BY <1>1 DEF IInv, RowsFit, VerifiedIsProven
  <1> QED
    BY <1>3, <1>4, <1>5, <1>6, <1>7 DEF IInv

LEMMA UnlinkKeeps ==
    ASSUME IInv, NEW r \in Reqs, CommitUnlink(r)
    PROVE  IInv'
  <1>i. Idle \in Handler /\ Idle.pc = "idle"
    BY IdleHandler
  <1>1. /\ req' = [req EXCEPT ![r] = Idle] /\ req[r].pc = "unlink"
        /\ UNCHANGED <<email, password, verified, pending, deleted, sent, live, proven, uses, excused>>
    BY DEF CommitUnlink, Finish, history
  <1>2. Grows(email, email', proven, proven', sent, sent')
    BY <1>1 DEF Grows
  <1>3. HandlersFit'
    BY <1>1, <1>2, <1>i, HandlersKept DEF Fit
  <1>4. TokensFit'
    BY <1>1, <1>2, TokensKept
  <1>5. Usage'
    BY <1>1, <1>i, UsageKept
  <1>6. link' \in [Identities -> Users \cup {None}]
    BY DEF CommitUnlink, IInv, TypeOK
  <1>7. TypeOK'
    BY <1>1, <1>6, <1>i DEF IInv, TypeOK
  <1>8. RowsFit' /\ VerifiedIsProven'
    BY <1>1 DEF IInv, RowsFit, VerifiedIsProven
  <1> QED
    BY <1>3, <1>4, <1>5, <1>7, <1>8 DEF IInv

LEMMA NotePendingKeeps ==
    ASSUME IInv, NEW r \in Reqs, NotePending(r)
    PROVE  IInv'
  <1>i. Idle \in Handler /\ Idle.pc = "idle"
    BY IdleHandler
  <1>1. /\ req' = [req EXCEPT ![r] = Idle] /\ req[r].pc = "pending"
        /\ UNCHANGED <<email, password, verified, deleted, link, sent, live, proven, uses, excused>>
        /\ pending' = [pending EXCEPT ![req[r].user] = req[r].mail]
    BY DEF NotePending, Finish, history
  <1>2. Grows(email, email', proven, proven', sent, sent')
    BY <1>1 DEF Grows
  <1>3. HandlersFit'
    BY <1>1, <1>2, <1>i, HandlersKept DEF Fit
  <1>4. TokensFit'
    BY <1>1, <1>2, TokensKept
  <1>5. Usage'
    BY <1>1, <1>i, UsageKept
  <1>6. req[r].mail \in Emails
    BY <1>1 DEF IInv, HandlersFit, Fit
  <1>7. TypeOK'
    BY <1>1, <1>6, <1>i DEF IInv, TypeOK
  <1>8. RowsFit' /\ VerifiedIsProven'
    BY <1>1 DEF IInv, RowsFit, VerifiedIsProven
  <1> QED
    BY <1>3, <1>4, <1>5, <1>7, <1>8 DEF IInv

LEMMA DeleteKeeps ==
    ASSUME IInv, NEW r \in Reqs, CommitDelete(r)
    PROVE  IInv'
  <1>i. Idle \in Handler /\ Idle.pc = "idle"
    BY IdleHandler
  <1> DEFINE u == req[r].user
  <1>u. u \in Users
    BY DEF CommitDelete, IInv, HandlersFit, Fit
  <1>1. /\ req' = [req EXCEPT ![r] = Idle] /\ req[r].pc = "delete"
        /\ deleted' = deleted \cup {u}
        /\ email' = [email EXCEPT ![u] = Gone]
        /\ password' = [password EXCEPT ![u] = @ /\ req[r].others = {}]
        /\ pending' = [pending EXCEPT ![u] = IF req[r].mail = None THEN @ ELSE None]
        /\ UNCHANGED <<verified, link, sent, live, proven, uses, excused>>
    BY DEF CommitDelete, Finish, history
  <1>2. \A v \in Users : email'[v] = IF v = u THEN Gone ELSE email[v]
    BY <1>1 DEF IInv, TypeOK
  <1> HIDE DEF u
  <1>3. Grows(email, email', proven, proven', sent, sent')
    BY <1>1, <1>2, AccountsAssumption DEF Grows
  <1>4. HandlersFit'
    BY <1>1, <1>3, <1>i, HandlersKept DEF Fit
  <1>5. TokensFit'
    BY <1>1, <1>3, TokensKept
  <1>6. Usage'
    BY <1>1, <1>i, UsageKept
  <1>7. TypeOK'
    BY <1>1, <1>i, <1>u DEF IInv, TypeOK
  <1>8. RowsFit' /\ VerifiedIsProven'
    BY <1>1, <1>2, AccountsAssumption DEF IInv, RowsFit, VerifiedIsProven
  <1> QED
    BY <1>4, <1>5, <1>6, <1>7, <1>8 DEF IInv

LEMMA CallbackCommitKeeps ==
    ASSUME IInv, NEW r \in Reqs, NEW u \in Users, CallbackCommit(r, u)
    PROVE  IInv'
  <1>i. Idle \in Handler /\ Idle.pc = "idle"
    BY IdleHandler
  <1>f. /\ req[r].user \in Users \cup {None} /\ req[r].mail \in Emails
        /\ req[r].user \in Users => Known(req[r].user, req[r].mail, email, proven)
                                    /\ email[req[r].user] # None
    BY DEF CallbackCommit, IInv, HandlersFit, Fit
  <1>1. /\ req' = [req EXCEPT ![r] = Idle] /\ req[r].pc = "link"
        /\ verified' = [verified EXCEPT ![u] = TRUE]
        /\ proven' = proven \cup {<<u, req[r].mail>>}
        /\ UNCHANGED <<password, pending, deleted, sent, live, uses, excused>>
    BY DEF CallbackCommit, Finish
  <1>2. /\ email' \in [Users -> Emails \cup {None, Gone}]
        /\ \A v \in Users : v # u => email'[v] = email[v]
        /\ \/ email[u] = None /\ email'[u] = req[r].mail
           \/ email[u] # None /\ email'[u] = email[u] /\ Known(u, req[r].mail, email, proven)
    <2>1. CASE req[r].user = None
      BY <2>1, <1>f DEF CallbackCommit, Exists, IInv, TypeOK
    <2>2. CASE req[r].user # None
      <3>1. u = req[r].user /\ email' = email
        BY <2>2 DEF CallbackCommit
      <3> QED
        BY <3>1, <1>f DEF IInv, TypeOK
    <2> QED
      BY <2>1, <2>2
  <1>3. Grows(email, email', proven, proven', sent, sent')
    BY <1>1, <1>2 DEF Grows
  <1>4. HandlersFit'
    BY <1>1, <1>3, <1>i, HandlersKept DEF Fit
  <1>5. TokensFit'
    BY <1>1, <1>3, TokensKept
  <1>6. Usage'
    BY <1>1, <1>i, UsageKept
  <1>7. TypeOK'
    <2>1. link' \in [Identities -> Users \cup {None}]
      BY DEF CallbackCommit, IInv, TypeOK
    <2>2. proven' \subseteq Users \X Emails
      BY <1>1, <1>f DEF IInv, TypeOK
    <2>3. verified' \in [Users -> BOOLEAN] /\ req' \in [Reqs -> Handler]
      BY <1>1, <1>i DEF IInv, TypeOK
    <2>4. email' \in [Users -> Emails \cup {None, Gone}]
      BY <1>2
    <2>5. UNCHANGED <<password, pending, deleted, sent, live, uses, excused>>
      BY <1>1
    <2> QED
      BY <2>1, <2>2, <2>3, <2>4, <2>5 DEF IInv, TypeOK
  <1>8. RowsFit'
    <2> SUFFICES ASSUME NEW v \in Users
                 PROVE  /\ email'[v] = Gone => v \in deleted'
                        /\ email'[v] = None => ~verified'[v]
      BY DEF RowsFit
    <2>1. CASE v = u
      BY <2>1, <1>1, <1>2, <1>f, AccountsAssumption DEF IInv, RowsFit
    <2>2. CASE v # u
      BY <2>2, <1>1, <1>2 DEF IInv, RowsFit, TypeOK
    <2> QED
      BY <2>1, <2>2
  <1>9. VerifiedIsProven'
    <2> SUFFICES ASSUME NEW v \in Users, verified'[v], email'[v] \in Emails
                 PROVE  <<v, email'[v]>> \in proven'
      BY DEF VerifiedIsProven
    <2>1. CASE v = u
      BY <2>1, <1>1, <1>2 DEF Known
    <2>2. CASE v # u
      BY <2>2, <1>1, <1>2 DEF IInv, VerifiedIsProven, TypeOK
    <2> QED
      BY <2>1, <2>2
  <1> QED
    BY <1>4, <1>5, <1>6, <1>7, <1>8, <1>9 DEF IInv

-----------------------------------------------------------------------------

(* The steps of a mailed token.                                             *)
LEMMA SendTokenKeeps ==
    ASSUME IInv, NEW r \in Reqs, NEW t \in Tokens, SendToken(r, t)
    PROVE  IInv'
  <1> DEFINE h == IF req'[r].pc = "pending" THEN [req[r] EXCEPT !.pc = "pending"] ELSE Idle
             k == [kind |-> req[r].kind, user |-> req[r].user, to |-> req[r].mail]
  <1>i. Idle \in Handler /\ Idle.pc = "idle"
    BY IdleHandler
  <1>m. Mailed(req[r].kind, req[r].user, req[r].mail, email, proven)
    BY DEF SendToken, IInv, HandlersFit, Fit
  <1>h. req[r] \in Handler
    BY DEF IInv, TypeOK
  <1>1. /\ req' = [req EXCEPT ![r] = h] /\ req[r].pc = "send"
        /\ sent[t] = NoToken /\ sent' = [sent EXCEPT ![t] = k]
        /\ live' = live \cup {t}
        /\ UNCHANGED <<row, proven, uses, excused>>
    <2>1. \/ req' = [req EXCEPT ![r].pc = "pending"]
          \/ req' = [req EXCEPT ![r] = Idle]
      BY DEF SendToken, Finish
    <2>2. req' = [req EXCEPT ![r] = h]
      BY <2>1, <1>i, <1>h DEF IInv, TypeOK, Handler
    <2> QED
      BY <2>2 DEF SendToken, history
  <1>2. h \in Handler /\ h.pc \in {"pending", "idle"}
    BY <1>h, <1>i DEF Handler, Phase
  <1>3. h.pc = "pending" => h.user = req[r].user /\ h.mail = req[r].mail
    BY <1>h, <1>i DEF Handler
  <1>k. k \in Token /\ k # NoToken
    BY <1>m, AccountsAssumption DEF Mailed, Token, NoToken
  <1>s. \A x \in Tokens : sent'[x] = IF x = t THEN k ELSE sent[x]
    BY <1>1 DEF IInv, TypeOK
  <1>4. Grows(email, email', proven, proven', sent, sent')
    BY <1>1, <1>s DEF Grows, row
  <1>5. Fit(h, email', proven', sent')
    BY <1>2, <1>3, <1>m DEF Fit, Mailed
  <1>6. HandlersFit'
    <2> HIDE DEF h
    <2> QED
      BY <1>1, <1>4, <1>5, HandlersKept
  <1>7. TokensFit'
    <2> SUFFICES ASSUME NEW x \in Tokens
                 PROVE  /\ sent'[x] = NoToken => x \notin live' /\ uses'[x] = 0
                        /\ sent'[x] # NoToken =>
                              Mailed(sent'[x].kind, sent'[x].user, sent'[x].to,
                                     email', proven')
      BY DEF TokensFit
    <2>1. CASE x = t
      BY <2>1, <1>s, <1>k, <1>m, <1>1 DEF row
    <2>2. CASE x # t
      BY <2>2, <1>s, <1>1 DEF row, IInv, TokensFit
    <2> QED
      BY <2>1, <2>2
  <1>8. Usage'
    <2>1. uses[t] = 0
      BY <1>1 DEF IInv, TokensFit
    <2> HIDE DEF h
    <2> QED
      BY <2>1, <1>1, <1>2, UsageKept
  <1>9. TypeOK'
    <2> HIDE DEF h, k
    <2>1. req' \in [Reqs -> Handler]
      BY <1>1, <1>2 DEF IInv, TypeOK
    <2>2. sent' \in [Tokens -> Token \cup {NoToken}] /\ live' \subseteq Tokens
      BY <1>1, <1>k DEF IInv, TypeOK
    <2> QED
      BY <2>1, <2>2, <1>1 DEF row, IInv, TypeOK
  <1>10. RowsFit' /\ VerifiedIsProven'
    BY <1>1 DEF row, IInv, RowsFit, VerifiedIsProven
  <1> QED
    BY <1>6, <1>7, <1>8, <1>9, <1>10 DEF IInv

LEMMA ExpireKeeps ==
    ASSUME IInv, NEW t \in Tokens, ExpireToken(t)
    PROVE  IInv'
  <1>1. live' \subseteq live /\ UNCHANGED <<row, sent, req, history>>
    BY DEF ExpireToken
  <1>2. HandlersFit' /\ TokensFit' /\ RowsFit' /\ VerifiedIsProven'
    BY <1>1 DEF row, history, IInv, HandlersFit, TokensFit, RowsFit, VerifiedIsProven
  <1>3. TypeOK'
    BY <1>1 DEF row, history, IInv, TypeOK
  <1>4. Usage'
    BY <1>1 DEF history, IInv, Usage, Holds
  <1> QED
    BY <1>2, <1>3, <1>4 DEF IInv

LEMMA GetTokenKeeps ==
    ASSUME IInv, NEW r \in Reqs, NEW t \in Tokens, GetToken(r, t)
    PROVE  IInv'
  <1> DEFINE h == [Idle EXCEPT !.pc = "apply", !.obj = t]
  <1>1. h \in Handler /\ h.pc = "apply" /\ h.obj = t
    BY DEF Idle, Handler, Phase
  <1> HIDE DEF h
  <1>2. /\ req' = [req EXCEPT ![r] = h] /\ req[r].pc = "idle" /\ t \in live
        /\ excused' = IF \E q \in Reqs : Holds(q, t) THEN excused \cup {t} ELSE excused
        /\ UNCHANGED <<row, sent, live, proven, uses>>
    BY DEF GetToken, Begin, h
  <1>3. Grows(email, email', proven, proven', sent, sent')
    BY <1>2 DEF Grows, row
  <1>4. sent[t] # NoToken
    BY <1>2 DEF IInv, TokensFit
  <1>5. Fit(h, email', proven', sent')
    BY <1>1, <1>2, <1>4 DEF Fit
  <1>6. HandlersFit'
    BY <1>2, <1>3, <1>5, HandlersKept
  <1>7. TokensFit'
    BY <1>2, <1>3, TokensKept
  <1>8. TypeOK'
    BY <1>1, <1>2 DEF row, IInv, TypeOK
  <1>9. RowsFit' /\ VerifiedIsProven'
    BY <1>2 DEF row, IInv, RowsFit, VerifiedIsProven
  <1>10. Usage'
    <2>1. \A q \in Reqs : req'[q] = IF q = r THEN h ELSE req[q]
      BY <1>2 DEF IInv, TypeOK
    <2> SUFFICES ASSUME NEW x \in Tokens, x \notin excused'
                 PROVE  /\ uses'[x] <= 1
                        /\ uses'[x] = 1 =>
                              x \notin live' \/ \E q \in Reqs : req'[q].pc = "drop" /\ req'[q].obj = x
                        /\ \A q \in Reqs : req'[q].pc = "apply" /\ req'[q].obj = x => uses'[x] = 0
                        /\ \A q, q2 \in Reqs : Holds(q, x)' /\ Holds(q2, x)' => q = q2
      BY DEF Usage, Holds
    <2>2. /\ uses[x] <= 1 /\ uses[x] \in 0..2
          /\ uses[x] = 1 => x \notin live \/ \E q \in Reqs : req[q].pc = "drop" /\ req[q].obj = x
          /\ \A q \in Reqs : req[q].pc = "apply" /\ req[q].obj = x => uses[x] = 0
          /\ \A q, q2 \in Reqs : Holds(q, x) /\ Holds(q2, x) => q = q2
      BY <1>2 DEF IInv, Usage, TypeOK
    <2>3. \A q \in Reqs : Holds(q, x)' <=> (IF q = r THEN x = t ELSE Holds(q, x))
      BY <2>1, <1>1 DEF Holds
    <2>4. x = t => \A q \in Reqs : ~Holds(q, x)
      BY <1>2
    <2>5. x = t => uses[x] = 0
      BY <2>2, <2>4, <1>2 DEF Holds
    <2>6. uses[x] = 1 =>
             x \notin live' \/ \E q \in Reqs : req'[q].pc = "drop" /\ req'[q].obj = x
      BY <2>1, <2>2, <1>2
    <2>7. \A q \in Reqs : req'[q].pc = "apply" /\ req'[q].obj = x => uses[x] = 0
      BY <2>1, <2>2, <2>5, <1>1
    <2> QED
      BY <2>2, <2>3, <2>4, <2>6, <2>7, <1>2
  <1> QED
    BY <1>6, <1>7, <1>8, <1>9, <1>10 DEF IInv

(* What the three uses of a token have in common.                           *)
LEMMA UsedKeeps ==
    ASSUME IInv, NEW r \in Reqs, req[r].pc = "apply", Used(r),
           UNCHANGED <<sent, live, excused>>,
           Grows(email, email', proven, proven', sent, sent')
    PROVE  /\ HandlersFit' /\ TokensFit' /\ Usage'
           /\ req' \in [Reqs -> Handler] /\ uses' \in [Tokens -> 0..2]
  <1> DEFINE h == [req[r] EXCEPT !.pc = "drop"]
             t == req[r].obj
  <1>1. t \in Tokens /\ sent[t] # NoToken
    BY DEF IInv, HandlersFit, Fit
  <1>2. h \in Handler /\ h.pc = "drop" /\ h.obj = t
    BY DEF IInv, TypeOK, Handler, Phase
  <1>3. req' = [req EXCEPT ![r] = h] /\ uses' = [uses EXCEPT ![t] = IF @ < 2 THEN @ + 1 ELSE @]
    BY DEF Used
  <1> HIDE DEF h, t
  <1>4. Fit(h, email', proven', sent')
    BY <1>1, <1>2 DEF Fit
  <1>5. HandlersFit'
    BY <1>3, <1>4, HandlersKept
  <1>6. \A x \in Tokens : uses'[x] = IF x = t THEN (IF uses[x] < 2 THEN uses[x] + 1 ELSE uses[x])
                                             ELSE uses[x]
    BY <1>3 DEF IInv, TypeOK
  <1>7. TokensFit'
    BY <1>1, <1>6, TokensKept
  <1>8. Usage'
    <2>1. \A q \in Reqs : req'[q] = IF q = r THEN h ELSE req[q]
      BY <1>3 DEF IInv, TypeOK
    <2> SUFFICES ASSUME NEW x \in Tokens, x \notin excused
                 PROVE  /\ uses'[x] <= 1
                        /\ uses'[x] = 1 =>
                              x \notin live \/ \E q \in Reqs : req'[q].pc = "drop" /\ req'[q].obj = x
                        /\ \A q \in Reqs : req'[q].pc = "apply" /\ req'[q].obj = x => uses'[x] = 0
                        /\ \A q, q2 \in Reqs : Holds(q, x)' /\ Holds(q2, x)' => q = q2
      BY DEF Usage, Holds
    <2>2. /\ uses[x] <= 1
          /\ uses[x] = 1 => x \notin live \/ \E q \in Reqs : req[q].pc = "drop" /\ req[q].obj = x
          /\ \A q \in Reqs : req[q].pc = "apply" /\ req[q].obj = x => uses[x] = 0
          /\ \A q, q2 \in Reqs : Holds(q, x) /\ Holds(q2, x) => q = q2
      BY DEF IInv, Usage
    <2>3. \A q \in Reqs : Holds(q, x)' <=> Holds(q, x)
      BY <2>1, <1>2 DEF Holds, t
    <2>4. CASE x = t
      <3>1. Holds(r, x) /\ uses[x] = 0
        BY <2>2, <2>4 DEF Holds, t
      <3>2. \A q \in Reqs : Holds(q, x) => q = r
        BY <2>2, <3>1
      <3>3. uses'[x] = 1
        BY <1>6, <2>4, <3>1
      <3>4. \A q \in Reqs : req'[q].pc = "apply" => req'[q].obj # x
        BY <2>1, <1>2, <3>2 DEF Holds
      <3> QED
        BY <2>1, <2>4, <3>2, <3>3, <3>4, <2>3, <1>2
    <2>5. CASE x # t
      <3>1. uses'[x] = uses[x]
        BY <1>6, <2>5
      <3>2. \A q \in Reqs : req[q].pc = "drop" /\ req[q].obj = x =>
                                 req'[q].pc = "drop" /\ req'[q].obj = x
        BY <2>1
      <3>3. \A q \in Reqs : req'[q].pc = "apply" /\ req'[q].obj = x =>
                                 req[q].pc = "apply" /\ req[q].obj = x
        BY <2>1, <1>2
      <3> QED
        BY <2>2, <2>3, <3>1, <3>2, <3>3
    <2> QED
      BY <2>4, <2>5
  <1>9. req' \in [Reqs -> Handler]
    BY <1>2, <1>3 DEF IInv, TypeOK
  <1>10. uses' \in [Tokens -> 0..2]
    BY <1>3, <1>1 DEF IInv, TypeOK
  <1> QED
    BY <1>5, <1>7, <1>8, <1>9, <1>10

LEMMA ResetKeeps ==
    ASSUME IInv, NEW r \in Reqs, ResetPassword(r)
    PROVE  IInv'
  <1>1. /\ req[r].pc = "apply" /\ Used(r)
        /\ password' = [password EXCEPT ![UserOf(r)] = TRUE]
        /\ UNCHANGED <<email, verified, pending, deleted, link, sent, live, proven, excused>>
    BY DEF ResetPassword, Applying
  <1>2. Grows(email, email', proven, proven', sent, sent')
    BY <1>1 DEF Grows
  <1>3. /\ HandlersFit' /\ TokensFit' /\ Usage'
        /\ req' \in [Reqs -> Handler] /\ uses' \in [Tokens -> 0..2]
    BY <1>1, <1>2, UsedKeeps
  <1>4. TypeOK'
    BY <1>1, <1>3 DEF IInv, TypeOK
  <1>5. RowsFit' /\ VerifiedIsProven'
    BY <1>1 DEF IInv, RowsFit, VerifiedIsProven
  <1> QED
    BY <1>3, <1>4, <1>5 DEF IInv

(* The user and address of the token in use.                                *)
LEMMA TokenInUse ==
    ASSUME IInv, NEW r \in Reqs, NEW k, Applying(r, k)
    PROVE  /\ req[r].pc = "apply" /\ UserOf(r) \in Users /\ email[UserOf(r)] # None
           /\ sent[req[r].obj].to \in Emails
           /\ k = "verify" => Known(UserOf(r), sent[req[r].obj].to, email, proven)
  <1>1. req[r].obj \in Tokens /\ sent[req[r].obj] # NoToken
    BY DEF Applying, IInv, HandlersFit, Fit
  <1> QED
    BY <1>1 DEF Applying, IInv, TokensFit, Mailed, UserOf

LEMMA VerifyKeeps ==
    ASSUME IInv, NEW r \in Reqs, ConfirmVerification(r)
    PROVE  IInv'
  <1> DEFINE u == UserOf(r)
             e == sent[req[r].obj].to
  <1>1. /\ u \in Users /\ e \in Emails /\ email[u] # None
        /\ Known(u, e, email, proven) /\ req[r].pc = "apply"
    BY TokenInUse DEF ConfirmVerification
  <1>2. /\ Used(r)
        /\ verified' = [verified EXCEPT ![u] = TRUE]
        /\ proven' = proven \cup {<<u, e>>}
        /\ UNCHANGED <<email, password, pending, deleted, link, sent, live, excused>>
    BY DEF ConfirmVerification
  <1> HIDE DEF u, e
  <1>3. Grows(email, email', proven, proven', sent, sent')
    BY <1>2 DEF Grows
  <1>4. /\ HandlersFit' /\ TokensFit' /\ Usage'
        /\ req' \in [Reqs -> Handler] /\ uses' \in [Tokens -> 0..2]
    BY <1>1, <1>2, <1>3, UsedKeeps
  <1>5. proven' \subseteq Users \X Emails /\ verified' \in [Users -> BOOLEAN]
    BY <1>1, <1>2 DEF IInv, TypeOK
  <1>6. TypeOK'
    BY <1>2, <1>4, <1>5 DEF IInv, TypeOK
  <1>7. RowsFit'
    BY <1>1, <1>2 DEF IInv, RowsFit, TypeOK
  <1>8. VerifiedIsProven'
    BY <1>1, <1>2 DEF IInv, VerifiedIsProven, Known, TypeOK
  <1> QED
    BY <1>4, <1>6, <1>7, <1>8 DEF IInv

LEMMA ChangeKeeps ==
    ASSUME IInv, NEW r \in Reqs, ConfirmChange(r)
    PROVE  IInv'
  <1> DEFINE u == UserOf(r)
             e == sent[req[r].obj].to
  <1>1. u \in Users /\ e \in Emails /\ email[u] # None /\ req[r].pc = "apply"
    BY TokenInUse DEF ConfirmChange, ChangeTo
  <1>2. /\ Used(r)
        /\ email' = [email EXCEPT ![u] = e]
        /\ pending' = [pending EXCEPT ![u] = None]
        /\ verified' = [verified EXCEPT ![u] = TRUE]
        /\ proven' = proven \cup {<<u, e>>}
        /\ UNCHANGED <<password, deleted, link, sent, live, excused>>
    BY DEF ConfirmChange, ChangeTo
  <1> HIDE DEF u, e
  <1>3. \A v \in Users : email'[v] = IF v = u THEN e ELSE email[v]
    BY <1>2 DEF IInv, TypeOK
  <1>4. Grows(email, email', proven, proven', sent, sent')
    BY <1>1, <1>2, <1>3, AccountsAssumption DEF Grows
  <1>5. /\ HandlersFit' /\ TokensFit' /\ Usage'
        /\ req' \in [Reqs -> Handler] /\ uses' \in [Tokens -> 0..2]
    BY <1>1, <1>2, <1>4, UsedKeeps
  <1>6. proven' \subseteq Users \X Emails /\ verified' \in [Users -> BOOLEAN]
    BY <1>1, <1>2 DEF IInv, TypeOK
  <1>7. email' \in [Users -> Emails \cup {None, Gone}] /\ pending' \in [Users -> Emails \cup {None}]
    BY <1>1, <1>2 DEF IInv, TypeOK
  <1>8. TypeOK'
    BY <1>2, <1>5, <1>6, <1>7 DEF IInv, TypeOK
  <1>9. RowsFit'
    BY <1>1, <1>2, <1>3, AccountsAssumption DEF IInv, RowsFit, TypeOK
  <1>10. VerifiedIsProven'
    BY <1>1, <1>2, <1>3 DEF IInv, VerifiedIsProven, TypeOK
  <1> QED
    BY <1>5, <1>8, <1>9, <1>10 DEF IInv

-----------------------------------------------------------------------------

LEMMA NextIInv == IInv /\ [Next]_vars => IInv'
  <1> SUFFICES ASSUME IInv, [Next]_vars PROVE IInv'
    OBVIOUS
  <1>1. ASSUME NEW r \in Reqs, MailStep(r) PROVE IInv'
    BY <1>1, RegisterKeeps, BeginKeeps, SendTokenKeeps, NotePendingKeeps DEF MailStep
  <1>2. ASSUME NEW r \in Reqs, TokenStep(r) PROVE IInv'
    BY <1>2, GetTokenKeeps, VerifyKeeps, ResetKeeps, ChangeKeeps, FinishKeeps DEF TokenStep
  <1>3. ASSUME NEW r \in Reqs, MethodStep(r) PROVE IInv'
    BY <1>3, BeginKeeps, CallbackReadKeeps, CallbackCommitKeeps, PasswordKeeps, UnlinkKeeps,
       DeleteKeeps DEF MethodStep
  <1>4. ASSUME NEW r \in Reqs, Abort(r) PROVE IInv'
    BY <1>4, FinishKeeps
  <1>5. ASSUME NEW t \in Tokens, ExpireToken(t) PROVE IInv'
    BY <1>5, ExpireKeeps
  <1>6. CASE UNCHANGED vars
    BY <1>6 DEF vars, row, history, IInv, TypeOK, HandlersFit, TokensFit, RowsFit,
       VerifiedIsProven, Usage, Holds
  <1> QED
    BY <1>1, <1>2, <1>3, <1>4, <1>5, <1>6 DEF Next

LEMMA Invariance == Spec => []IInv
  <1> QED
    BY InitIInv, NextIInv, PTL DEF Spec

(* Every variable keeps its type, for any sets of users, tokens, providers  *)
(* and handlers (services/auth.py, account_lifecycle.py, oauth_accounts.py).*)
THEOREM TypeCorrect == Spec => []TypeOK
  <1>1. IInv => TypeOK
    BY DEF IInv
  <1> QED
    BY <1>1, Invariance, PTL

(* A verified address is one the account was shown to receive mail at: no   *)
(* token for an earlier address verifies a later one, in any order of the   *)
(* confirm_email_verification, confirm_email_change and callback handlers.  *)
THEOREM VerifiedAddressIsProven == Spec => []VerifiedIsProven
  <1>1. IInv => VerifiedIsProven
    BY DEF IInv
  <1> QED
    BY <1>1, Invariance, PTL

(* A token of confirm_password_reset, confirm_email_verification or         *)
(* confirm_email_change takes effect once, save when two requests hold it   *)
(* at once or one dies before it deletes the key.                           *)
THEOREM TokenTakesEffectOnce == Spec => []TokenUsedOnce
  <1>1. IInv => TokenUsedOnce
    <2> SUFFICES ASSUME IInv, NEW t \in Tokens, uses[t] > 1, t \notin excused
                 PROVE  FALSE
      BY DEF TokenUsedOnce
    <2>1. uses[t] <= 1 /\ uses[t] \in 0..2
      BY DEF IInv, Usage, TypeOK
    <2> QED
      BY <2>1
  <1> QED
    BY <1>1, Invariance, PTL

-----------------------------------------------------------------------------

(* A step that keeps the links and takes no password away takes no method.  *)
LEMMA MethodsKept ==
    ASSUME NEW u \in Users, Methods(u) # {}, link' = link,
           password[u] => password'[u]
    PROVE  Methods(u)' # {}
  <1>1. LinkedProviders(u)' = LinkedProviders(u)
    BY DEF LinkedProviders
  <1> QED
    BY <1>1 DEF Methods

LEMMA NoMethodLeft ==
    ASSUME NEW u \in Users, Methods(u)' = {}
    PROVE  ~password'[u] /\ \A j \in Identities : link'[j] # u
  <1>1. Methods(u)' = {ProviderOf[j] : j \in {k \in Identities : link'[k] = u}}
                         \cup (IF password'[u] THEN {"password"} ELSE {})
    BY DEF Methods, LinkedProviders
  <1>2. \A j \in Identities : link'[j] = u => ProviderOf[j] \in Methods(u)'
    BY <1>1
  <1>3. password'[u] => "password" \in Methods(u)'
    BY <1>1
  <1> QED
    BY <1>2, <1>3

LEMMA StepLosesKnowingly ==
    IInv /\ [Next]_vars =>
        [\A u \in Users :
            Methods(u) # {} /\ Methods(u)' = {} =>
                \/ u \in deleted'
                \/ \E r \in Reqs : /\ req[r].pc = "unlink"
                                   /\ req[r].user = u
                                   /\ ~(req[r].others \subseteq Methods(u))]_vars
  <1> SUFFICES ASSUME IInv, Next, NEW u \in Users,
                      Methods(u) # {}, Methods(u)' = {}, u \notin deleted'
               PROVE  \E r \in Reqs : /\ req[r].pc = "unlink"
                                      /\ req[r].user = u
                                      /\ ~(req[r].others \subseteq Methods(u))
    OBVIOUS
  <1>t. /\ password \in [Users -> BOOLEAN]
        /\ link \in [Identities -> Users \cup {None}]
    BY DEF IInv, TypeOK
  <1>1. ASSUME NEW r \in Reqs, MailStep(r) PROVE FALSE
    <2>1. link' = link /\ (password[u] => password'[u])
      BY <1>1, <1>t DEF MailStep, Register, RequestVerification, RequestReset, RequestChange,
         SendToken, NotePending, row
    <2> QED
      BY <2>1, MethodsKept
  <1>2. ASSUME NEW r \in Reqs, TokenStep(r) PROVE FALSE
    <2>1. link' = link /\ (password[u] => password'[u])
      BY <1>2, <1>t DEF TokenStep, GetToken, ConfirmVerification, ResetPassword, ConfirmChange,
         ChangeTo, ConfirmConflict, DropToken, row
    <2> QED
      BY <2>1, MethodsKept
  <1>3. ASSUME NEW r \in Reqs, CommitUnlink(r)
        PROVE  /\ req[r].pc = "unlink" /\ req[r].user = u
               /\ ~(req[r].others \subseteq Methods(u))
    <2> DEFINE p == req[r].obj
    <2>1. req[r].pc = "unlink" /\ req[r].others # {} /\ p \notin req[r].others
      BY <1>3 DEF CommitUnlink, IInv, HandlersFit, Fit
    <2>2. /\ password' = password
          /\ link' = [i \in Identities |-> IF link[i] = req[r].user /\ ProviderOf[i] = p
                                            THEN None ELSE link[i]]
      BY <1>3 DEF CommitUnlink
    <2> HIDE DEF p
    <2>3. ~password[u] /\ \A i \in Identities : link'[i] # u
      BY <2>2, NoMethodLeft
    <2>4. PICK m : m \in Methods(u)
      OBVIOUS
    <2>5. PICK i \in Identities : link[i] = u /\ m = ProviderOf[i]
      BY <2>3, <2>4 DEF Methods, LinkedProviders
    <2>6. req[r].user = u
      BY <2>2, <2>3, <2>5
    <2>7. Methods(u) \subseteq {p}
      BY <2>2, <2>3, <2>6 DEF Methods, LinkedProviders
    <2> QED
      BY <2>1, <2>6, <2>7
  <1>4. ASSUME NEW r \in Reqs, NEW v \in Users, CallbackCommit(r, v) PROVE FALSE
    <2> DEFINE i == req[r].obj
    <2>1. PICK o \in Identities \cup {None} :
             /\ i \in Identities /\ link[i] = None /\ password' = password
             /\ link' = [j \in Identities |-> IF j = i THEN v ELSE IF j = o THEN None ELSE link[j]]
             /\ o # None => link[o] = v
      BY <1>4 DEF CallbackCommit, TakesOver, IInv, HandlersFit, Fit
    <2> HIDE DEF i
    <2>2. ~password[u] /\ \A j \in Identities : link'[j] # u
      BY <2>1, NoMethodLeft
    <2>3. PICK m : m \in Methods(u)
      OBVIOUS
    <2>4. PICK j \in Identities : link[j] = u
      BY <2>2, <2>3 DEF Methods, LinkedProviders
    <2>5. None \notin Users \cup Identities
      BY AccountsAssumption
    <2>6. u # v
      BY <2>1, <2>2
    <2>7. j # i
      BY <2>1, <2>4, <2>5
    <2>8. j = o
      BY <2>1, <2>2, <2>4, <2>7
    <2> QED
      BY <2>1, <2>4, <2>5, <2>6, <2>8
  <1>5. ASSUME NEW r \in Reqs, CommitDelete(r) PROVE FALSE
    <2>1. /\ password' = [password EXCEPT ![req[r].user] = @ /\ req[r].others = {}]
          /\ deleted' = deleted \cup {req[r].user} /\ link' = link
      BY <1>5 DEF CommitDelete
    <2>2. password[u] => password'[u]
      BY <2>1, <1>t
    <2> QED
      BY <2>1, <2>2, MethodsKept
  <1>6. ASSUME NEW r \in Reqs,
               \/ \E v \in Users : \/ SubmitPassword(r, v)
                                   \/ \E p \in Providers : Unlink(r, v, p)
                                   \/ DeleteAccount(r, v)
               \/ CommitPassword(r)
               \/ \E i \in Identities, e \in Emails : CallbackRead(r, i, e)
               \/ Abort(r)
        PROVE  FALSE
    <2>1. link' = link /\ (password[u] => password'[u])
      BY <1>6, <1>t DEF SubmitPassword, Unlink, DeleteAccount, CommitPassword, CallbackRead,
         Abort, row
    <2> QED
      BY <2>1, MethodsKept
  <1>7. ASSUME NEW t \in Tokens, ExpireToken(t) PROVE FALSE
    <2>1. link' = link /\ password' = password
      BY <1>7 DEF ExpireToken, row
    <2> QED
      BY <2>1, MethodsKept
  <1> QED
    BY <1>1, <1>2, <1>3, <1>4, <1>5, <1>6, <1>7 DEF Next, MethodStep

(* The last sign-in method of an account is lost only with the account, or  *)
(* by an unlink_provider whose remaining method another request took away   *)
(* between its can_unlink and its commit.                                   *)
THEOREM LastMethodTheorem == Spec => LastMethodLostKnowingly
  BY Invariance, StepLosesKnowingly, PTL DEF Spec, LastMethodLostKnowingly
=============================================================================
