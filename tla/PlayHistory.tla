---------------------------- MODULE PlayHistory -----------------------------
(***************************************************************************)
(* The play history (services/history.py): record_play commits one event   *)
(* and then cuts the history of its user to the newest Cap events, in      *)
(* three steps (count, DELETE of the oldest, commit) that overlap with     *)
(* those of other plays, of the owner's own removals and of the job cron   *)
(* starts once a day (cron/prune-play-events.sh), which does for every     *)
(* user what a play interrupted after its commit left undone.              *)
(*                                                                         *)
(* An event is the number of its play: played_at is the time the play's    *)
(* transaction began, so plays may commit in another order.                *)
(***************************************************************************)
EXTENDS Naturals, FiniteSets

CONSTANTS
    Users,
    Tasks,      \* requests and cron jobs in flight
    NoUser,       \* no user
    Cap,        \* MAX_PLAY_EVENTS_PER_USER (500 in the code)
    MaxPlays,   \* bound: plays
    MaxDeaths   \* bound: tasks interrupted

ASSUME PlayHistoryAssumption ==
    /\ NoUser \notin Users
    /\ Cap \in Nat \ {0}
    /\ MaxPlays \in Nat
    /\ MaxDeaths \in Nat
    /\ IsFiniteSet(Tasks)

Plays == 1..MaxPlays

VARIABLES
    events,     \* per user: play_events
    begun,      \* plays begun
    task,       \* per task: the step it is at
    deaths,     \* tasks interrupted
    unpruned,   \* history: per user, plays interrupted between commit and prune
    since       \* history: per task, what happened to its user since its count

historyVars == <<events, begun, task, deaths, unpruned, since>>

(* `todo' is what prune_all_users found over the limit; a play has none.    *)
Task == [pc      : {"idle", "insert", "count", "select", "delete", "next"},
         user    : Users \cup {NoUser},
         job     : BOOLEAN,
         todo    : SUBSET Users,
         play    : 0..MaxPlays,
         excess  : 0..MaxPlays,
         victims : SUBSET Plays]

Free == [pc |-> "idle", user |-> NoUser, job |-> FALSE, todo |-> {},
         play |-> 0, excess |-> 0, victims |-> {}]

(* `cut': another request deleted events; `recorded': tasks that committed  *)
(* a play and have not pruned.                                              *)
Since == [cut : BOOLEAN, recorded : SUBSET Tasks]

HistoryTypeOK ==
    /\ events \in [Users -> SUBSET Plays]
    /\ begun \in 0..MaxPlays
    /\ task \in [Tasks -> Task]
    /\ deaths \in 0..MaxDeaths
    /\ unpruned \in [Users -> 0..MaxDeaths]
    /\ since \in [Tasks -> Since]

HistoryInit ==
    /\ events = [u \in Users |-> {}]
    /\ begun = 0
    /\ task = [h \in Tasks |-> Free]
    /\ deaths = 0
    /\ unpruned = [u \in Users |-> 0]
    /\ since = [h \in Tasks |-> [cut |-> FALSE, recorded |-> {}]]

(* The plays of u that are committed and not pruned after.                  *)
Pending(u) ==
    {h \in Tasks : task[h].user = u /\ ~task[h].job /\ task[h].pc \in {"count", "select", "delete"}}

(* A task that counted the events of u and goes on to delete some.          *)
Pruning(h, u) == task[h].user = u /\ task[h].pc \in {"select", "delete"}

(* Task h ends its prune: a job turns to its next user.                     *)
Pruned(h) ==
    IF task[h].job THEN [task[h] EXCEPT !.pc = "next", !.user = NoUser, !.excess = 0, !.victims = {}]
    ELSE Free

(* What the other tasks' histories record when h deletes `dead' of u.       *)
Deleted(h, u, dead) ==
    [g \in Tasks |->
        [cut |-> g # h /\ (since[g].cut \/ (dead # {} /\ Pruning(g, u))),
         recorded |-> IF g = h THEN {} ELSE since[g].recorded \ {h}]]

-----------------------------------------------------------------------------
(* record_play *)

RecordBegin(h, u) ==
    /\ task[h].pc = "idle"
    /\ begun < MaxPlays
    /\ begun' = begun + 1
    /\ task' = [task EXCEPT ![h] = [Free EXCEPT !.pc = "insert", !.user = u, !.play = begun + 1]]
    /\ UNCHANGED <<events, deaths, unpruned, since>>

RecordCommit(h) ==
    LET u == task[h].user IN
    /\ task[h].pc = "insert"
    /\ events' = [events EXCEPT ![u] = @ \cup {task[h].play}]
    /\ task' = [task EXCEPT ![h].pc = "count", ![h].play = 0]
    /\ since' = [g \in Tasks |->
                    IF Pruning(g, u) THEN [since[g] EXCEPT !.recorded = @ \cup {h}]
                    ELSE since[g]]
    /\ UNCHANGED <<begun, deaths, unpruned>>

(* Fault: one event too many is cut.                                        *)
FaultExcess(total) == IF total <= Cap THEN 0 ELSE total - Cap + 1

(* prune_user_events                                                        *)
Excess(total) == IF total <= Cap THEN 0 ELSE total - Cap

Count(h) ==
    LET u == task[h].user
        excess == Excess(Cardinality(events[u]))
    IN
    /\ task[h].pc = "count"
    /\ task' = [task EXCEPT ![h] = IF excess = 0 THEN Pruned(h)
                                   ELSE [@ EXCEPT !.pc = "select", !.excess = excess]]
    /\ since' = IF excess = 0 THEN Deleted(h, u, {})
                ELSE [since EXCEPT ![h] = [cut |-> FALSE, recorded |-> {}]]
    /\ UNCHANGED <<events, begun, deaths, unpruned>>

(* Fault: a prune deletes one event, for the one it recorded.               *)
FaultOldest(S, n) == {e \in S : Cardinality({f \in S : f < e}) < 1}

(* The n oldest events of S, all of them if there are fewer.                *)
Oldest(S, n) == {e \in S : Cardinality({f \in S : f < e}) < n}

(* The DELETE statement selects the rows on the snapshot it starts with.    *)
Select(h) ==
    /\ task[h].pc = "select"
    /\ task' = [task EXCEPT ![h].pc = "delete",
                            ![h].victims = Oldest(events[task[h].user], task[h].excess)]
    /\ UNCHANGED <<events, begun, deaths, unpruned, since>>

Delete(h) ==
    LET u == task[h].user IN
    /\ task[h].pc = "delete"
    /\ events' = [events EXCEPT ![u] = @ \ task[h].victims]
    /\ since' = Deleted(h, u, task[h].victims \cap events[u])
    /\ task' = [task EXCEPT ![h] = Pruned(h)]
    /\ UNCHANGED <<begun, deaths, unpruned>>

(* A task dies or loses its connection; what it did not commit is gone.     *)
Die(h) ==
    LET u == task[h].user
        left == \E v \in Users : h \in Pending(v)
    IN
    /\ task[h].pc # "idle"
    /\ deaths < MaxDeaths
    /\ deaths' = deaths + 1
    /\ unpruned' = IF left THEN [unpruned EXCEPT ![u] = @ + 1] ELSE unpruned
    /\ since' = Deleted(h, NoUser, {})
    /\ task' = [task EXCEPT ![h] = Free]
    /\ UNCHANGED <<events, begun>>

-----------------------------------------------------------------------------
(* The cron job, and the owner's removals *)

OverCap == {u \in Users : Cardinality(events[u]) > Cap}

PruneAll(h) ==
    /\ task[h].pc = "idle"
    /\ OverCap # {}
    /\ task' = [task EXCEPT ![h] = [Free EXCEPT !.pc = "next", !.job = TRUE, !.todo = OverCap]]
    /\ UNCHANGED <<events, begun, deaths, unpruned, since>>

(* Fault: the job ends before it prunes anyone.                             *)
FaultNextUser(h) ==
    /\ task[h].pc = "next"
    /\ task' = [task EXCEPT ![h] = Free]
    /\ UNCHANGED <<events, begun, deaths, unpruned, since>>

NextUser(h) ==
    /\ task[h].pc = "next"
    /\ \/ /\ task[h].todo = {}
          /\ task' = [task EXCEPT ![h] = Free]
       \/ \E u \in task[h].todo :
            task' = [task EXCEPT ![h].pc = "count", ![h].user = u, ![h].todo = @ \ {u}]
    /\ UNCHANGED <<events, begun, deaths, unpruned, since>>

(* clear_history and remove_track_from_history, which deletes the events of *)
(* one track: any part of the history.                                      *)
RemoveEvents(u, dead) ==
    /\ dead # {}
    /\ dead \subseteq events[u]
    /\ events' = [events EXCEPT ![u] = @ \ dead]
    /\ since' = [g \in Tasks |->
                    IF Pruning(g, u) THEN [since[g] EXCEPT !.cut = TRUE] ELSE since[g]]
    /\ UNCHANGED <<begun, task, deaths, unpruned>>

-----------------------------------------------------------------------------
Advance(h) == RecordCommit(h) \/ Count(h) \/ Select(h) \/ Delete(h) \/ NextUser(h)

HistoryNext ==
    \/ \E h \in Tasks :
        \/ \E u \in Users : RecordBegin(h, u)
        \/ PruneAll(h)
        \/ Advance(h)
        \/ Die(h)
    \/ \E u \in Users : \E dead \in SUBSET events[u] : RemoveEvents(u, dead)

(* A request runs to its end, and the host's cron starts the job again      *)
(* while some user is over the limit.                                       *)
HistoryFairness ==
    /\ \A h \in Tasks : WF_historyVars(Advance(h))
    /\ SF_historyVars(\E h \in Tasks : PruneAll(h))

HistorySpec == HistoryInit /\ [][HistoryNext]_historyVars /\ HistoryFairness

-----------------------------------------------------------------------------
(* The cap holds up to the plays still on their way through prune: a user   *)
(* never keeps more than Cap events, the plays committed and not pruned     *)
(* yet, and those interrupted before they pruned.  Overlapping prunes that  *)
(* delete the same rows do not let the history grow.                        *)
CapHolds ==
    \A u \in Users :
        Cardinality(events[u]) <= Cap + Cardinality(Pending(u)) + unpruned[u]

(* The events newer than e that stay when h deletes its victims.            *)
NewerKept(h, e) == {f \in events[task[h].user] \ task[h].victims : f > e}

(* A prune deletes an event only if Cap newer ones stay, also when plays    *)
(* committed since its count, in whatever order; unless somebody else       *)
(* deleted events of the user after it had counted them.                    *)
CutOnlyToCap ==
    \A h \in Tasks :
        (task[h].pc = "delete" /\ ~since[h].cut) =>
            \A e \in task[h].victims : Cardinality(NewerKept(h, e)) >= Cap

(* When the plays stop, every history is within the cap for good.           *)
EventuallyCapped ==
    <>[](\A u \in Users : Cardinality(events[u]) <= Cap)
=============================================================================
