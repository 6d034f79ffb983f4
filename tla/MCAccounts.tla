----------------------------- MODULE MCAccounts -----------------------------
(***************************************************************************)
(* Instances of Accounts.  Users, addresses, tokens and handlers are       *)
(* interchangeable.  An instance takes up one of two worlds, chosen at the *)
(* start (`focus'): mailed tokens, without a provider, or the ways to      *)
(* sign in, without a mailed token.                                        *)
(***************************************************************************)
EXTENDS Accounts, TLC

CONSTANTS google1, google2, github1, google, github

VARIABLE focus

MCProviderOf == [i \in Identities |-> IF i = github1 THEN github ELSE google]

Symmetry ==
    Permutations(Users) \cup Permutations(Emails) \cup Permutations(Tokens) \cup
    Permutations(Reqs)

(* Mailed tokens and deletions.  An account gets a password by its          *)
(* registration and by the use of a token; once every account is deleted a  *)
(* new password is all a request can still ask for.                         *)
TokensNext ==
    \/ \E r \in Reqs :
        \/ MailStep(r) \/ TokenStep(r) \/ CommitPassword(r) \/ CommitDelete(r) \/ Abort(r)
        \/ \E u \in Users : DeleteAccount(r, u) \/ (deleted = Users /\ SubmitPassword(r, u))
    \/ \E t \in Tokens : ExpireToken(t)

(* Passwords, links and deletions; the mail of a request does not arrive.   *)
MethodsNext ==
    \E r \in Reqs :
        \/ MailStep(r) /\ UNCHANGED sent
        \/ MethodStep(r)
        \/ Abort(r)

MCInit == Init /\ focus \in {"tokens", "methods"}

MCNext ==
    /\ UNCHANGED focus
    /\ \/ focus = "tokens" /\ TokensNext
       \/ focus = "methods" /\ MethodsNext

MCSpec == MCInit /\ [][MCNext]_<<vars, focus>>
=============================================================================
