----------------------------- MODULE RateLimit ------------------------------
(***************************************************************************)
(* The fixed-window counters of services/rate_limit.py and the routes that *)
(* use them: one Redis key per scope and identity (an address, an email, a *)
(* user), opened by the INCR that answers 1 and closed by its TTL.  INCR,  *)
(* EXPIRE and TTL are three commands, and the request may end between any  *)
(* two of them.                                                            *)
(*                                                                         *)
(* Routes share no key, so a behaviour follows the requests of one route.  *)
(***************************************************************************)
EXTENDS Naturals, Sequences, FiniteSets

CONSTANTS
    Identities, \* addresses, emails or users
    Callers,    \* requests in flight
    Limit,      \* the limit of a scope
    MaxCount    \* bound: requests counted in one window

ASSUME RateLimitAssumption ==
    /\ Limit \in Nat \ {0}
    /\ MaxCount \in Nat
    /\ IsFiniteSet(Callers)

(* The scopes each route checks, in order.                                  *)
Register == <<"register_ip">>
Login == <<"login_ip", "login_email">>
ForgotPassword == <<"forgot_ip", "forgot_email">>
ChangeEmail == <<"change_email">>
Export == <<"export">>
Public == {<<"search">>, <<"playback">>, <<"catalog">>}

Routes == Public \cup {Register, Login, ForgotPassword, ChangeEmail, Export}

(* The scope and the digest of the identity.                                *)
Keys == {<<s, i>> : s \in UNION {{r[n] : n \in DOMAIN r} : r \in Routes}, i \in Identities}

VARIABLES
    route,     \* the route that is followed
    count,     \* the counters, 0 when there is no key
    ttl,       \* the keys that have a TTL
    call,      \* per request: its step, the check it is at, the key and INCR's answer
    orphan,    \* history: keys whose opening request ended before EXPIRE
    admitted   \* history: per key, requests of its window let past the check

rateVars == <<route, count, ttl, call, orphan, admitted>>

NoKey == << >>

(* `late': the window the request was counted in is over.                   *)
Call == [pc    : {"idle", "count", "expire", "decide"},
         check : 0..2,
         key   : Keys \cup {NoKey},
         seen  : 0..MaxCount,
         late  : BOOLEAN]

NoCall == [pc |-> "idle", check |-> 0, key |-> NoKey, seen |-> 0, late |-> FALSE]

RateTypeOK ==
    /\ route \in Routes
    /\ count \in [Keys -> 0..MaxCount]
    /\ ttl \subseteq Keys
    /\ call \in [Callers -> Call]
    /\ orphan \subseteq Keys
    /\ admitted \in [Keys -> Nat]

RateInit ==
    /\ route \in Routes
    /\ count = [k \in Keys |-> 0]
    /\ ttl = {}
    /\ call = [c \in Callers |-> NoCall]
    /\ orphan = {}
    /\ admitted = [k \in Keys |-> 0]

Arrive(c) ==
    /\ call[c].pc = "idle"
    /\ call' = [call EXCEPT ![c] = [NoCall EXCEPT !.pc = "count", !.check = 1]]
    /\ UNCHANGED <<route, count, ttl, orphan, admitted>>

(* Fault: the window is opened by the request that reaches the limit.       *)
FaultIncrement(c, i) ==
    LET k == <<route[call[c].check], i>> IN
    /\ call[c].pc = "count"
    /\ count[k] < MaxCount
    /\ count' = [count EXCEPT ![k] = @ + 1]
    /\ call' = [call EXCEPT ![c].pc = IF count[k] = Limit THEN "expire" ELSE "decide",
                            ![c].key = k,
                            ![c].seen = count[k] + 1]
    /\ UNCHANGED <<route, ttl, orphan, admitted>>

(* INCR keeps the TTL of a key and creates a key without one.               *)
Increment(c, i) ==
    LET k == <<route[call[c].check], i>> IN
    /\ call[c].pc = "count"
    /\ count[k] < MaxCount
    /\ count' = [count EXCEPT ![k] = @ + 1]
    /\ call' = [call EXCEPT ![c].pc = IF count[k] = 0 THEN "expire" ELSE "decide",
                            ![c].key = k,
                            ![c].seen = count[k] + 1]
    /\ UNCHANGED <<route, ttl, orphan, admitted>>

(* Fault: the key goes on without a TTL.                                    *)
FaultExpire(c) ==
    /\ call[c].pc = "expire"
    /\ call' = [call EXCEPT ![c].pc = "decide"]
    /\ UNCHANGED <<route, count, ttl, orphan, admitted>>

Expire(c) ==
    /\ call[c].pc = "expire"
    /\ ttl' = ttl \cup {call[c].key}
    /\ call' = [call EXCEPT ![c].pc = "decide"]
    /\ UNCHANGED <<route, count, orphan, admitted>>

(* Fault: the request after the last one allowed passes too.                *)
FaultRefused(c) == call[c].seen > Limit + 1

Refused(c) == call[c].seen > Limit

(* Above the limit the answer is 429 (TTL only fills its Retry-After);      *)
(* below it the next scope is counted, and after the last one the request   *)
(* is served.                                                               *)
Decide(c) ==
    /\ call[c].pc = "decide"
    /\ call' = [call EXCEPT ![c] =
                   IF Refused(c) \/ @.check = Len(route) THEN NoCall
                   ELSE [NoCall EXCEPT !.pc = "count", !.check = call[c].check + 1]]
    /\ admitted' = IF Refused(c) \/ call[c].late THEN admitted
                   ELSE [admitted EXCEPT ![call[c].key] = @ + 1]
    /\ UNCHANGED <<route, count, ttl, orphan>>

(* The client goes away, Redis does not answer, the process stops.          *)
Interrupt(c) ==
    /\ call[c].pc # "idle"
    /\ call' = [call EXCEPT ![c] = NoCall]
    /\ orphan' = IF call[c].pc = "expire" THEN orphan \cup {call[c].key} ELSE orphan
    /\ UNCHANGED <<route, count, ttl, admitted>>

(* Redis drops the key of the n-th check.                                   *)
WindowEnds(n, i) ==
    LET k == <<route[n], i>> IN
    /\ k \in ttl
    /\ count' = [count EXCEPT ![k] = 0]
    /\ ttl' = ttl \ {k}
    /\ admitted' = [admitted EXCEPT ![k] = 0]
    /\ call' = [c \in Callers |-> [call[c] EXCEPT !.late = @ \/ call[c].key = k]]
    /\ UNCHANGED <<route, orphan>>

RateNext ==
    \/ \E c \in Callers :
        \/ Arrive(c)
        \/ \E i \in Identities : Increment(c, i)
        \/ Expire(c) \/ Decide(c) \/ Interrupt(c)
    \/ \E n \in 1..Len(route), i \in Identities : WindowEnds(n, i)

(* Redis drops a key when its TTL is over; a request goes on or ends.       *)
RateFairness ==
    /\ \A n \in 1..2, i \in Identities : WF_rateVars(n <= Len(route) /\ WindowEnds(n, i))
    /\ \A c \in Callers : WF_rateVars(Expire(c) \/ Decide(c))

RateSpec == RateInit /\ [][RateNext]_rateVars /\ RateFairness

-----------------------------------------------------------------------------
(* Identity i is over the limit of the n-th check of the route.             *)
Blocked(n, i) == n <= Len(route) /\ count[<<route[n], i>>] > Limit

(* A counter without a TTL never ends and, above the limit, blocks its      *)
(* client for good.  Only one accident leaves such a counter: the request   *)
(* that opened the window ended between INCR and EXPIRE.  Otherwise that    *)
(* request is still on its way to EXPIRE.                                   *)
StuckKeyHasCause ==
    \A k \in Keys :
        count[k] > 0 /\ k \notin ttl =>
            \/ k \in orphan
            \/ \E c \in Callers : call[c].pc = "expire" /\ call[c].key = k

(* A window lets at most Limit requests of its key past the check, however  *)
(* INCR, EXPIRE and the comparison of different requests overlap.  A        *)
(* request that is decided after its window ended counts in none.           *)
WindowAdmitsLimit == \A k \in Keys : admitted[k] <= Limit

(* A client over the limit is let in again, unless its key was orphaned.    *)
BlockedEnds ==
    \A n \in 1..2, i \in Identities :
        Blocked(n, i) ~> (~Blocked(n, i) \/ <<route[n], i>> \in orphan)
=============================================================================
